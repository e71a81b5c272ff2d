------------------------------ MODULE Bytecode ------------------------------
(***************************************************************************)
(* How the stwo backend evaluates the constraints of a component on the    *)
(* device: the component's evaluation function is run once over traced     *)
(* values that record register instructions (tracing.rs), the program is   *)
(* encoded to words and its trace loads are pointed at a flat column array *)
(* (bytecode.rs, component_prover.rs), and a kernel interprets the words   *)
(* (constraint_eval.cu).  When the recording panics or needs too many      *)
(* registers the component is evaluated on the host instead.               *)
(*                                                                         *)
(* A traced value carries in "val" what the expression is worth at the row *)
(* looked at: the reference the recorded program is compared with.  All    *)
(* values are elements of the secure field over P; a base value has zeros  *)
(* in its last three coordinates.  A value is never dropped, so that every *)
(* pattern of clones is covered.                                           *)
(***************************************************************************)
EXTENDS Integers, Sequences, SequencesExt, FiniteSets

CONSTANTS P,             \* the base field's modulus
          REG_MODULUS,   \* registers are u16: 65536
          REG_LIMIT,     \* most registers the device path takes (32768)
          MAX_REGS,      \* most registers of the one-thread kernel (1024)
          BaseValues,    \* host constants met in the evaluation
          SecureValues,
          Masks,         \* the <<interaction, offsets>> asked for
          KindsAt,       \* bound: the operators tried with so many values alive
          MaxValues,     \* bound: traced values
          MaxConstraints, \* bound: constraints before the logUp ones
          MaxFractions,  \* bound: logUp fractions
          MaxFractionValues  \* bound: values alive when fractions are written

ASSUME BytecodeConstants ==
  /\ {P, REG_MODULUS, REG_LIMIT, MAX_REGS} \subseteq Nat \ {0}
  /\ MAX_REGS <= REG_LIMIT /\ REG_LIMIT < REG_MODULUS
  /\ BaseValues \subseteq Nat /\ SecureValues \subseteq [1 .. 4 -> Nat]
  /\ Masks \subseteq (0 .. 2) \X Seq(Int)

VARIABLES recorders,  \* sequence of RecorderInner; the first is the evaluator's
          values,     \* the traced values alive
          cursors,    \* column_index_per_interaction
          fracs,      \* logup_fracs
          asked,      \* what the constraints added so far are worth
          phase,      \* "evaluate", "recorded", "panicked" or "done"
          path,       \* how the component was evaluated
          accum       \* the accumulator at the row looked at
vars == <<recorders, values, cursors, fracs, asked, phase, path, accum>>

Interactions == 0 .. 2
LogupInteraction == 2

-----------------------------------------------------------------------------
(* Field arithmetic: a + bi + (c + di)u with i^2 = -1 and u^2 = 2 + i. *)

Embed(b) == <<b % P, 0, 0, 0>>
Plus(x, y) == [k \in 1 .. 4 |-> (x[k] + y[k]) % P]
Minus(x, y) == [k \in 1 .. 4 |-> (x[k] - y[k]) % P]
Times(x, y) ==
  LET re(a, b, c, d) == a * c - b * d
      im(a, b, c, d) == a * d + b * c
      r == re(x[3], x[4], y[3], y[4])
      j == im(x[3], x[4], y[3], y[4])
  IN <<(re(x[1], x[2], y[1], y[2]) + 2 * r - j) % P,
       (im(x[1], x[2], y[1], y[2]) + r + 2 * j) % P,
       (re(x[1], x[2], y[3], y[4]) + re(x[3], x[4], y[1], y[2])) % P,
       (im(x[1], x[2], y[3], y[4]) + im(x[3], x[4], y[1], y[2])) % P>>
Zero == Embed(0)

\* The trace around the row, the powers of the random coefficient and the
\* inverse of the vanishing polynomial: one generic value for each.
TraceValue(interaction, col, offset) ==
  Embed((7 * interaction + 3 * col + 5 * offset + 23) * (interaction + 2 * col + 29))
Coeff(i) == <<(i * i + 3) % P, (5 * i + 1) % P, (i + 40) % P, (2 * i + 9) % P>>
DenomInv == Embed(17)
Prior == <<1, 2, 3, 4>>
RowResult(constraints) ==
  LET upto[i \in 0 .. Len(constraints)] ==
        IF i = 0 THEN Zero
        ELSE LET before == upto[i - 1]
             IN Plus(before, Times(constraints[i], Coeff(i)))
  IN Times(upto[Len(constraints)], DenomInv)

-----------------------------------------------------------------------------
(* Recorders. *)

RecorderInner(is_main) ==
  [ops |-> <<>>, next_reg |-> 0, n_trace_accesses |-> 0, is_main |-> is_main]
Op(kind, dst, srcs, data) == [kind |-> kind, dst |-> dst, srcs |-> srcs, data |-> data]

\* alloc_reg and emit: the new instruction writes the register returned.
Emitted(recs, r, kind, srcs, data) ==
  [recs EXCEPT ![r].ops = Append(@, Op(kind, recs[r].next_reg, srcs, data)),
               ![r].next_reg = (@ + 1) % REG_MODULUS,
               ![r].n_trace_accesses = IF kind = "LoadTrace" THEN @ + 1 ELSE @]

remap_op_dst_only(op, offset) == [op EXCEPT !.dst = (@ + offset) % REG_MODULUS]
remap_op(op, offset) ==
  [op EXCEPT !.dst = (@ + offset) % REG_MODULUS,
             !.srcs = [k \in DOMAIN @ |-> (@[k] + offset) % REG_MODULUS]]

merge_into(recs, dst, src) ==
  IF recs[src].ops = <<>> THEN recs
  ELSE [recs EXCEPT
          ![dst].ops = @ \o [k \in DOMAIN recs[src].ops |->
                               remap_op(recs[src].ops[k], recs[dst].next_reg)],
          ![dst].next_reg = (@ + recs[src].next_reg) % REG_MODULUS,
          ![dst].n_trace_accesses = @ + recs[src].n_trace_accesses]

\* The recorder kept when values of a and b meet: the evaluator's, else a.
Kept(recs, a, b) == IF recs[b].is_main /\ ~recs[a].is_main THEN b ELSE a
merge_recorders(recs, a, b) ==
  IF a = b THEN recs
  ELSE LET k == Kept(recs, a, b) IN merge_into(recs, k, IF k = a THEN b ELSE a)

\* Where the two operands are after the merge.  The recorder absorbed is
\* left as it was, so that its size gives the offset back.
resolve_regs_after_merge(recs, merged, x, y) ==
  LET k == Kept(recs, x.rec, y.rec)
      moved(v) == IF v.rec = k THEN v.reg
                  ELSE (v.reg + merged[k].next_reg - recs[v.rec].next_reg) % REG_MODULUS
  IN IF x.rec = y.rec THEN <<x.reg, y.reg>> ELSE <<moved(x), moved(y)>>

-----------------------------------------------------------------------------
(* Operators on traced values: each returns the recorders and the value.   *)

Traced(rec, reg, wide, val) == [rec |-> rec, reg |-> reg, wide |-> wide, val |-> val]
Result(recs, rec, wide, val) ==
  [recs |-> recs, out |-> Traced(rec, (recs[rec].next_reg - 1) % REG_MODULUS, wide, val)]

\* From<BaseField>, From<SecureField>, zero and one: a recorder of their own.
Constant(recs, wide, val) ==
  LET r == Len(recs) + 1
  IN Result(Emitted(Append(recs, RecorderInner(FALSE)), r,
                    IF wide THEN "LoadSecureConst" ELSE "LoadConst",
                    <<>>, IF wide THEN val ELSE <<val[1]>>), r, wide, val)

\* Operators with one traced operand x and the host constant c.
Unary(recs, kind, x, data, wide, val) ==
  Result(Emitted(recs, x.rec, kind, <<x.reg>>, data), x.rec, wide, val)
Negated(recs, x) ==
  Unary(recs, IF x.wide THEN "WideNeg" ELSE "Neg", x, <<>>, x.wide, Minus(Zero, x.val))
Widened(recs, x) ==
  IF x.wide THEN [recs |-> recs, out |-> x]
  ELSE Unary(recs, "Widen", x, <<>>, TRUE, x.val)
PlusBase(recs, x, c) ==
  IF x.wide THEN Unary(recs, "WideAddConst", x, c, TRUE, Plus(x.val, c))
  ELSE Unary(recs, "AddConst", x, <<c[1]>>, FALSE, Plus(x.val, c))
TimesBase(recs, x, c) ==
  IF x.wide THEN Unary(recs, "WideMulConst", x, c, TRUE, Times(x.val, c))
  ELSE Unary(recs, "MulConst", x, <<c[1]>>, FALSE, Times(x.val, c))
PlusSecure(recs, x, c) ==
  Unary(recs, IF x.wide THEN "WideAddConst" ELSE "BaseAddSecureConst", x, c,
        TRUE, Plus(x.val, c))
MinusSecure(recs, x, c) ==
  Unary(recs, "WideAddConst", x, Minus(Zero, c), TRUE, Minus(x.val, c))
TimesSecure(recs, x, c) ==
  Unary(recs, IF x.wide THEN "WideMulConst" ELSE "BaseMulSecureConst", x, c,
        TRUE, Times(x.val, c))

\* Operators with two traced operands.
Binary(recs, kind, x, y, wide, val) ==
  LET merged == merge_recorders(recs, x.rec, y.rec)
      k == Kept(recs, x.rec, y.rec)
  IN Result(Emitted(merged, k, kind, resolve_regs_after_merge(recs, merged, x, y), <<>>),
            k, wide, val)
Added(recs, x, y) ==
  Binary(recs, IF ~x.wide THEN "Add" ELSE IF y.wide THEN "WideAdd" ELSE "WideAddBase",
         x, y, x.wide, Plus(x.val, y.val))
Subtracted(recs, x, y) ==
  Binary(recs, IF x.wide THEN "WideSub" ELSE "Sub", x, y, x.wide, Minus(x.val, y.val))
Multiplied(recs, x, y) ==
  Binary(recs, IF ~x.wide THEN "Mul" ELSE IF y.wide THEN "WideMul" ELSE "WideMulBase",
         x, y, x.wide, Times(x.val, y.val))

\* The column at the interaction's cursor, loaded at each offset.
Loads(recs, interaction, col, offsets) ==
  LET upto[i \in 0 .. Len(offsets)] ==
        IF i = 0 THEN [recs |-> recs, out |-> <<>>]
        ELSE LET before == upto[i - 1]
                 one == Result(Emitted(before.recs, 1, "LoadTrace", <<>>,
                                       <<interaction, col, offsets[i]>>),
                               1, FALSE, TraceValue(interaction, col, offsets[i]))
             IN [recs |-> one.recs, out |-> Append(before.out, one.out)]
  IN upto[Len(offsets)]
next_interaction_mask(recs, curs, interaction, offsets) ==
  Loads(recs, interaction, curs[interaction], offsets)

\* combine_ef records in the first value's recorder and merges nothing.
combine_ef(recs, quad) ==
  Result(Emitted(recs, quad[1].rec, "CombineEF", [k \in 1 .. 4 |-> quad[k].reg], <<>>),
         quad[1].rec, TRUE, [k \in 1 .. 4 |-> quad[k].val[1]])

\* Four columns, each at every offset, and one secure value per offset.
next_extension_interaction_mask(recs, curs, interaction, offsets) ==
  LET column[c \in 0 .. 4] ==
        IF c = 0 THEN [recs |-> recs, out |-> <<>>]
        ELSE LET before == column[c - 1]
                 one == Loads(before.recs, interaction, curs[interaction] + (c - 1), offsets)
             IN [recs |-> one.recs, out |-> Append(before.out, one.out)]
      columns == column[4]
      combined[i \in 0 .. Len(offsets)] ==
        IF i = 0 THEN [recs |-> columns.recs, out |-> <<>>]
        ELSE LET before == combined[i - 1]
                 one == combine_ef(before.recs, [k \in 1 .. 4 |-> columns.out[k][i]])
             IN [recs |-> one.recs, out |-> Append(before.out, one.out)]
  IN combined[Len(offsets)]

add_constraint_unmoved(recs, x) ==
  LET wide == Widened(recs, x)
  IN [merge_recorders(wide.recs, 1, wide.out.rec) EXCEPT
        ![1].ops = Append(@, Op("AddConstraint", 0, <<wide.out.reg>>, <<>>))]
\* The constraint is widened, merged into the evaluator's recorder and added.
add_constraint(recs, x) ==
  LET wide == Widened(recs, x)
      merged == merge_recorders(wide.recs, 1, wide.out.rec)
      src == IF wide.out.rec = 1 THEN wide.out.reg
             ELSE (wide.out.reg + merged[1].next_reg - wide.recs[wide.out.rec].next_reg)
                    % REG_MODULUS
  IN [merged EXCEPT ![1].ops = Append(@, Op("AddConstraint", 0, <<src>>, <<>>))]

-----------------------------------------------------------------------------
(* The logUp constraints. *)

Added2(recs, x, y, z, w) ==
  LET left == Multiplied(recs, x, y)
      right == Multiplied(left.recs, z, w)
  IN Added(right.recs, left.out, right.out)
sum_fractions(recs, batch) ==
  LET upto[i \in 1 .. Len(batch)] ==
        IF i = 1 THEN [recs |-> recs, num |-> batch[1].num, den |-> batch[1].den]
        ELSE LET acc == upto[i - 1]
                 num == Added2(acc.recs, acc.num, batch[i].den, batch[i].num, acc.den)
                 den == Multiplied(num.recs, acc.den, batch[i].den)
             IN [recs |-> den.recs, num |-> num.out, den |-> den.out]
  IN upto[Len(batch)]

\* diff * denominator - numerator, added as a constraint.
FractionConstraint(recs, diff, frac) ==
  LET product == Multiplied(recs, diff, frac.den)
      constraint == Subtracted(product.recs, product.out, frac.num)
  IN [recs |-> add_constraint(constraint.recs, constraint.out), val |-> constraint.out.val]

\* A secure constant loaded in the evaluator's own recorder.
OwnSecure(recs, c) == Result(Emitted(recs, 1, "LoadSecureConst", <<>>, c), 1, TRUE, c)

\* claimed_sum / 2^log_size
CumsumShift == <<9, 8, 7, 6>>

BatchOf(batching, b) ==
  [i \in 1 .. Cardinality({j \in DOMAIN batching : batching[j] = b}) |->
     fracs[CHOOSE j \in DOMAIN batching :
             /\ batching[j] = b
             /\ Cardinality({h \in 1 .. j : batching[h] = b}) = i]]

BatchColumns(recs, b, offsets) ==
  next_extension_interaction_mask(recs, [cursors EXCEPT ![LogupInteraction] = @ + 4 * b],
                                  LogupInteraction, offsets)

\* The columns of every batch but the last accumulate inside the row: each
\* is the one before it and the batch's fraction.
FractionInRow(before, frac, cur) ==
  LET diff == Subtracted(cur.recs, cur.out[1], before.prev)
      added == FractionConstraint(diff.recs, diff.out, frac)
  IN [recs |-> added.recs, prev |-> cur.out[1], asked |-> Append(before.asked, added.val)]
BatchInRow(before, b, frac) == FractionInRow(before, frac, BatchColumns(frac.recs, b, <<0>>))
InRowBatches(start, batching) ==
  LET upto[n \in 0 .. Last(batching)] ==
        IF n = 0 THEN [recs |-> start.recs, prev |-> start.out, asked |-> <<>>]
        ELSE LET before == upto[n - 1]
             IN BatchInRow(before, n - 1,
                           sum_fractions(before.recs, BatchOf(batching, n - 1)))
  IN upto[Last(batching)]

\* The last column closes the row against the row before it.
finalize_logup_batched(batching) ==
  \E inRow \in {InRowBatches(OwnSecure(recorders, Zero), batching)} :
  \E frac \in {sum_fractions(inRow.recs, BatchOf(batching, Last(batching)))} :
  \E row \in {BatchColumns(frac.recs, Last(batching), <<-1, 0>>)} :
  \E sinceRow \in {Subtracted(row.recs, row.out[2], row.out[1])} :
  \E diff \in {Subtracted(sinceRow.recs, sinceRow.out, inRow.prev)} :
  \E shift \in {OwnSecure(diff.recs, CumsumShift)} :
  \E shifted \in {Added(shift.recs, diff.out, shift.out)} :
  \E added \in {FractionConstraint(shifted.recs, shifted.out, frac)} :
    /\ recorders' = added.recs
    /\ asked' = asked \o Append(inRow.asked, added.val)
    /\ cursors' = [cursors EXCEPT ![LogupInteraction] = @ + 4 * (Last(batching) + 1)]

-----------------------------------------------------------------------------
(* Encoding. *)

\* Words are pairs of halves: the opcode and the register written come
\* first, sources are packed two to a word, data words follow.
SourceWords(srcs) ==
  CASE Len(srcs) = 0 -> <<>>
    [] Len(srcs) = 1 -> << <<srcs[1], 0>> >>
    [] Len(srcs) = 2 -> << <<srcs[1], srcs[2]>> >>
    [] Len(srcs) = 4 -> << <<srcs[1], srcs[2]>>, <<srcs[3], srcs[4]>> >>
Data(data) == [k \in DOMAIN data |-> <<0, data[k]>>]
EncodedOp(op) ==
  CASE op.kind = "AddConstraint" -> << <<op.kind, op.srcs[1]>> >>
    [] op.kind = "LoadTrace" ->
         << <<op.kind, op.dst>>, <<op.data[1], op.data[2]>>,
            IF op.data[3] < 0 THEN <<1, -op.data[3]>> ELSE <<0, op.data[3]>> >>
    [] OTHER -> << <<op.kind, op.dst>> >> \o SourceWords(op.srcs) \o Data(op.data)
encode(ops) == FlattenSeq([i \in DOMAIN ops |-> EncodedOp(ops[i])])

encoded_len(op) ==
  CASE op.kind = "AddConstraint" -> 1
    [] op.kind \in {"Add", "Sub", "Mul", "WideAdd", "WideSub", "WideMul", "WideAddBase",
                    "WideMulBase", "Neg", "WideNeg", "Widen", "LoadConst"} -> 2
    [] op.kind \in {"LoadTrace", "AddConst", "MulConst", "CombineEF"} -> 3
    [] op.kind = "LoadSecureConst" -> 5
    [] op.kind \in {"WideAddConst", "WideMulConst", "BaseAddSecureConst",
                    "BaseMulSecureConst"} -> 6

\* The columns of the interactions, one after the other.
InteractionOffset(interaction) ==
  LET upto[i \in Interactions] == IF i = 0 THEN 0 ELSE upto[i - 1] + cursors[i - 1]
  IN upto[interaction]
TotalCols == InteractionOffset(2) + cursors[2]
ColumnAt(flat) ==
  LET i == CHOOSE j \in Interactions :
             InteractionOffset(j) <= flat /\ flat < InteractionOffset(j) + cursors[j]
  IN <<i, flat - InteractionOffset(i)>>
FlatIndex(op) == InteractionOffset(op.data[1]) + op.data[2]

\* The second word of every load becomes the index in the column array; the
\* walk over the words goes by encoded_len.
Remapped(ops) ==
  LET upto[i \in 0 .. Len(ops)] ==
        IF i = 0 THEN [pc |-> 1, words |-> encode(ops)]
        ELSE LET at == upto[i - 1]
             IN [pc |-> at.pc + encoded_len(ops[i]),
                 words |-> IF ops[i].kind = "LoadTrace"
                           THEN [at.words EXCEPT ![at.pc + 1] = <<0, FlatIndex(ops[i])>>]
                           ELSE at.words]
  IN upto[Len(ops)].words

-----------------------------------------------------------------------------
(* The kernel: one thread's walk over the words. *)

Applied(kind, v, data) ==
  CASE kind = "LoadConst" -> Embed(data[1])
    [] kind = "LoadSecureConst" -> data
    [] kind \in {"Add", "WideAdd", "WideAddBase"} -> Plus(v[1], v[2])
    [] kind \in {"Sub", "WideSub"} -> Minus(v[1], v[2])
    [] kind \in {"Mul", "WideMul", "WideMulBase"} -> Times(v[1], v[2])
    [] kind \in {"Neg", "WideNeg"} -> Minus(Zero, v[1])
    [] kind = "Widen" -> v[1]
    [] kind = "AddConst" -> Plus(v[1], Embed(data[1]))
    [] kind = "MulConst" -> Times(v[1], Embed(data[1]))
    [] kind \in {"WideAddConst", "BaseAddSecureConst"} -> Plus(v[1], data)
    [] kind \in {"WideMulConst", "BaseMulSecureConst"} -> Times(v[1], data)
    [] kind = "CombineEF" -> [k \in 1 .. 4 |-> v[k][1]]

\* Sources packed in the words after the header, and data words after them.
NSources(kind) ==
  CASE kind \in {"LoadConst", "LoadSecureConst"} -> 0
    [] kind \in {"Neg", "WideNeg", "Widen", "AddConst", "MulConst", "WideAddConst",
                 "WideMulConst", "BaseAddSecureConst", "BaseMulSecureConst"} -> 1
    [] kind = "CombineEF" -> 4
    [] OTHER -> 2
NData(kind) ==
  CASE kind \in {"LoadConst", "AddConst", "MulConst"} -> 1
    [] kind \in {"LoadSecureConst", "WideAddConst", "WideMulConst",
                 "BaseAddSecureConst", "BaseMulSecureConst"} -> 4
    [] OTHER -> 0

\* One instruction at t.pc, with "regs" registers in the kernel's file.
\* A write outside the file is dropped, a read outside it gives no value
\* the program stored; a load into no register or of no column ends the thread
\* before it adds anything to the accumulator.
KernelStep(words, regs, t) ==
  LET kind == words[t.pc][1]
      dst == words[t.pc][2]
      nSources == NSources(kind)
      sourceWords == (nSources + 1) \div 2
      read(r) == IF r \in DOMAIN t.file THEN t.file[r] ELSE Zero
      source(k) == read(words[t.pc + ((k + 1) \div 2)][IF k % 2 = 1 THEN 1 ELSE 2])
      data == [k \in 1 .. NData(kind) |-> words[t.pc + sourceWords + k][2]]
      write(val, length) ==
        [t EXCEPT !.pc = @ + length,
                  !.file = IF dst < regs
                           THEN [r \in DOMAIN @ \cup {dst} |-> IF r = dst THEN val ELSE @[r]]
                           ELSE @]
      column == ColumnAt(words[t.pc + 1][2])
      offset == IF words[t.pc + 2][1] = 1 THEN -words[t.pc + 2][2] ELSE words[t.pc + 2][2]
  IN CASE kind = "AddConstraint" ->
            [t EXCEPT !.pc = @ + 1, !.constraints = Append(@, read(dst))]
       [] kind = "LoadTrace" /\ (words[t.pc + 1][2] >= TotalCols \/ dst >= regs) ->
            [t EXCEPT !.pc = Len(words) + 1, !.constraints = <<>>]
       [] kind = "LoadTrace" /\ words[t.pc + 1][2] < TotalCols /\ dst < regs ->
            write(TraceValue(column[1], column[2], offset), 3)
       [] OTHER -> write(Applied(kind, [k \in 1 .. nSources |-> source(k)], data),
                         1 + sourceWords + NData(kind))
Interpreted(words, regs, steps) ==
  LET upto[i \in 0 .. steps] ==
        IF i = 0 THEN [pc |-> 1, file |-> <<>>, constraints |-> <<>>]
        ELSE LET t == upto[i - 1]
             IN IF t.pc > Len(words) THEN t ELSE KernelStep(words, regs, t)
  IN upto[steps]

-----------------------------------------------------------------------------
(* The evaluation function of the component. *)

Init ==
  /\ recorders = <<RecorderInner(TRUE)>>
  /\ values = {} /\ fracs = <<>> /\ asked = <<>>
  /\ cursors = [i \in Interactions |-> 0]
  /\ phase = "evaluate" /\ path = "none" /\ accum = Prior

\* An evaluation function finalizes the logUp last, so that nothing follows.
Evaluating == phase = "evaluate" /\ cursors[LogupInteraction] = 0
Room == Evaluating /\ fracs = <<>> /\ Cardinality(values) < MaxValues
Tried == KindsAt[Cardinality(values)]
Make(result) ==
  /\ recorders' = result.recs
  /\ values' = values \union {result.out}
  /\ UNCHANGED <<cursors, fracs, asked, phase, path, accum>>

NextInteractionMask ==
  /\ Room
  /\ \E m \in Masks :
       LET loaded == next_interaction_mask(recorders, cursors, m[1], m[2])
       IN /\ recorders' = loaded.recs
          /\ values' = values \union {loaded.out[k] : k \in DOMAIN loaded.out}
          /\ cursors' = [cursors EXCEPT ![m[1]] = @ + 1]
  /\ UNCHANGED <<fracs, asked, phase, path, accum>>

MakeConstant ==
  /\ Room
  /\ \/ \E c \in BaseValues : Make(Constant(recorders, FALSE, Embed(c)))
     \/ \E c \in SecureValues : Make(Constant(recorders, TRUE, c))

MakeUnary ==
  /\ Room
  /\ \E x \in values :
       \/ "Negated" \in Tried /\ Make(Negated(recorders, x))
       \/ "Widened" \in Tried /\ ~x.wide /\ Make(Widened(recorders, x))
       \/ \E c \in BaseValues :
            \/ "PlusBase" \in Tried /\ Make(PlusBase(recorders, x, Embed(c)))
            \/ "TimesBase" \in Tried /\ Make(TimesBase(recorders, x, Embed(c)))
       \/ \E c \in SecureValues :
            \/ "PlusSecure" \in Tried /\ Make(PlusSecure(recorders, x, c))
            \/ "MinusSecure" \in Tried /\ x.wide /\ Make(MinusSecure(recorders, x, c))
            \/ "TimesSecure" \in Tried /\ Make(TimesSecure(recorders, x, c))

MakeBinary ==
  /\ Room
  /\ \E x, y \in values :
       /\ y.wide => x.wide
       /\ \/ "Added" \in Tried /\ Make(Added(recorders, x, y))
          \/ "Subtracted" \in Tried /\ x.wide = y.wide /\ Make(Subtracted(recorders, x, y))
          \/ "Multiplied" \in Tried /\ Make(Multiplied(recorders, x, y))

AddConstraint ==
  /\ Evaluating /\ fracs = <<>> /\ Len(asked) < MaxConstraints
  /\ \E x \in values :
       /\ recorders' = add_constraint(recorders, x)
       /\ asked' = Append(asked, x.val)
  /\ UNCHANGED <<values, cursors, fracs, phase, path, accum>>

WriteLogupFrac ==
  /\ Evaluating /\ Len(fracs) < MaxFractions /\ Cardinality(values) <= MaxFractionValues
  /\ \E num, den \in values :
       /\ num.wide /\ den.wide
       /\ fracs' = Append(fracs, [num |-> num, den |-> den])
  /\ UNCHANGED <<recorders, values, cursors, asked, phase, path, accum>>

FinalizeLogup ==
  /\ Evaluating /\ fracs # <<>>
  /\ \E batching \in {[i \in DOMAIN fracs |-> i - 1],             \* finalize_logup
                      [i \in DOMAIN fracs |-> (i - 1) \div 2]} :   \* finalize_logup_in_pairs
       finalize_logup_batched(batching)
  /\ fracs' = <<>>
  /\ UNCHANGED <<values, phase, path, accum>>

\* inverse() of a traced value panics; the recording is given up.
InvertTraced ==
  /\ Evaluating /\ values # {} /\ fracs = <<>>
  /\ phase' = "panicked"
  /\ UNCHANGED <<recorders, values, cursors, fracs, asked, path, accum>>

IntoProgram ==
  /\ phase = "evaluate" /\ fracs = <<>>
  /\ phase' = "recorded"
  /\ UNCHANGED <<recorders, values, cursors, fracs, asked, path, accum>>

-----------------------------------------------------------------------------
(* evaluate_constraint_quotients_impl, after the recording. *)

Program == recorders[1].ops
OnDevice == recorders[1].next_reg <= REG_LIMIT
ColumnsFound == \A i \in DOMAIN Program :
                  Program[i].kind = "LoadTrace" => FlatIndex(Program[i]) < TotalCols

Done(how, acc) ==
  /\ phase' = "done" /\ path' = how /\ accum' = acc
  /\ UNCHANGED <<recorders, values, cursors, fracs, asked>>

\* A component without constraints is left out before anything is recorded.
NoConstraints ==
  /\ phase \in {"recorded", "panicked"} /\ asked = <<>>
  /\ Done("none", accum)

\* The kernel adds the row's result; up to MAX_REGS registers a thread keeps
\* its own file, past that the lanes of a warp share one of REG_LIMIT.
EvaluateOnDevice ==
  /\ phase = "recorded" /\ asked # <<>> /\ OnDevice /\ ColumnsFound
  /\ LET regs == IF recorders[1].next_reg > MAX_REGS THEN REG_LIMIT ELSE MAX_REGS
         ran == Interpreted(Remapped(Program), regs, Len(Program))
     IN Done("gpu", Plus(accum, RowResult(ran.constraints)))

accumulate_pointwise_cpu(acc) == Plus(acc, RowResult(asked))

\* Recording gave up, or the program is too large: the host evaluates.
EvaluateOnHost ==
  /\ asked # <<>>
  /\ phase = "panicked" \/ (phase = "recorded" /\ ~(OnDevice /\ ColumnsFound))
  /\ Done("cpu", accumulate_pointwise_cpu(accum))

\* The kernel reports an error: the accumulator is zeroed before the host
\* evaluates the component and adds it to what it downloads.
KernelError ==
  /\ phase = "recorded" /\ asked # <<>> /\ OnDevice /\ ColumnsFound
  /\ Done("error", accumulate_pointwise_cpu(Zero))

Rest == phase = "done" /\ UNCHANGED vars

Next ==
  \/ NextInteractionMask \/ MakeConstant \/ MakeUnary \/ MakeBinary
  \/ AddConstraint \/ WriteLogupFrac \/ FinalizeLogup \/ InvertTraced \/ IntoProgram
  \/ NoConstraints \/ EvaluateOnDevice \/ EvaluateOnHost \/ KernelError
  \/ Rest
Spec == Init /\ [][Next]_vars

-----------------------------------------------------------------------------
(* Properties. *)

\* tracing.rs:72-85, 610-672: whatever order constants, columns and their
\* clones are combined in, every recorder stays a program on its own, and the
\* register that a traced value names ends up holding what it is worth.
RecordersHoldTheirValues ==
  phase = "evaluate" =>
    \A r \in {x.rec : x \in values} :
      LET ops == recorders[r].ops
          ran == Interpreted(Remapped(ops), REG_MODULUS, Len(ops))
      IN \A x \in values : x.rec = r => ran.file[x.reg] = x.val

\* component_prover.rs:186-300: a component evaluated on the device or, when
\* recording gives up, on the host adds exactly its own constraints, each
\* with the coefficient of its place, to what the components before it left.
ComponentAddsItsConstraints ==
  path \in {"gpu", "cpu"} => accum = Plus(Prior, RowResult(asked))

\* component_prover.rs:259 "Download current accumulator state to CPU":
\* the host evaluation continues from what the earlier components added.
FallbackKeepsAccumulator ==
  path = "error" => accum = Plus(Prior, RowResult(asked))
=============================================================================
