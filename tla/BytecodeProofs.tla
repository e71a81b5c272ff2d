--------------------------- MODULE BytecodeProofs ---------------------------
(***************************************************************************)
(* Proofs about Bytecode: for every evaluation function, whatever order    *)
(* its values are combined in, a recorder keeps a program that computes    *)
(* the values it was given, the walk over the encoded words points each    *)
(* load at its column, and the kernel leaves in every register, and in the *)
(* list of constraints, what the evaluation function meant.                *)
(***************************************************************************)
EXTENDS Bytecode, SequenceTheorems, FiniteSetTheorems, WellFoundedInduction, TLAPS

Value == [1 .. 4 -> Int]
Kinds == {"LoadConst", "LoadSecureConst", "Add", "Sub", "Mul", "WideAdd", "WideSub", "WideMul",
          "WideAddBase", "WideMulBase", "Neg", "WideNeg", "Widen", "AddConst", "MulConst",
          "WideAddConst", "WideMulConst", "BaseAddSecureConst", "BaseMulSecureConst", "CombineEF"}

AllKinds == Kinds \cup {"LoadTrace", "AddConstraint"}

OpSet == [kind : AllKinds, dst : Nat, srcs : Seq(Nat), data : Seq(Int)]
RecorderSet == [ops : Seq(OpSet), next_reg : Nat, n_trace_accesses : Nat, is_main : BOOLEAN]
TracedSet == [rec : Nat, reg : Nat, wide : BOOLEAN, val : Value]

\* What an instruction is made of; "top" is the number of columns of each interaction.
WellFormed(op, top) ==
  \/ op.kind = "AddConstraint" /\ Len(op.srcs) = 1
  \/ /\ op.kind = "LoadTrace" /\ Len(op.srcs) = 0 /\ Len(op.data) = 3
     /\ op.data[1] \in Interactions /\ op.data[2] \in 0 .. top[op.data[1]] - 1
  \/ op.kind \in Kinds /\ Len(op.srcs) = NSources(op.kind) /\ Len(op.data) = NData(op.kind)

\* What an instruction computes from its operands.
Meaning(kind, operands, data) ==
  IF kind = "LoadTrace" THEN TraceValue(data[1], data[2], data[3])
  ELSE Applied(kind, operands, data)
Operands(op, w) == [k \in 1 .. Len(op.srcs) |-> w[op.srcs[k]]]

\* The instruction reads registers below "before", and writes that one, if any.
Explained(op, before, after, w, top) ==
  /\ WellFormed(op, top)
  /\ \A k \in 1 .. Len(op.srcs) : op.srcs[k] < before
  /\ op.kind = "AddConstraint" => after = before
  /\ op.kind # "AddConstraint" =>
       /\ after = before + 1 /\ op.dst = before
       /\ w[before] = Meaning(op.kind, Operands(op, w), op.data)

\* Before the instruction i + 1 the registers below c[i] are written, each
\* once; register r is worth w[r].
Account(ops, n, c, w, top) ==
  /\ c \in [0 .. Len(ops) -> Nat] /\ w \in [Nat -> Value]
  /\ c[0] = 0 /\ c[Len(ops)] = n
  /\ \A i \in 0 .. Len(ops) : c[i] <= i
  /\ \A i \in 1 .. Len(ops) : Explained(ops[i], c[i - 1], c[i], w, top)

\* The constraints added are worth the members of a, in order.
Constrains(ops, c, w, a) ==
  /\ Len(a) = Len(ops) - c[Len(ops)]
  /\ \A i \in 1 .. Len(ops) : ops[i].kind = "AddConstraint" =>
       /\ i - c[i - 1] \in 1 .. Len(a)
       /\ a[i - c[i - 1]] = w[ops[i].srcs[1]]

Known(r, n, V, w) == \A x \in V : x.rec = r => x.reg < n /\ w[x.reg] = x.val

Witnessed(rec, r, V, top, a, c, w) ==
  /\ Account(rec.ops, rec.next_reg, c, w, top)
  /\ Known(r, rec.next_reg, V, w)
  /\ rec.is_main => Constrains(rec.ops, c, w, a)
  /\ ~rec.is_main => \A i \in 0 .. Len(rec.ops) : c[i] = i

\* Recorder r is a program that computes the values of V that name it.
Sound(rec, r, V, top, a) == \E c, w : Witnessed(rec, r, V, top, a, c, w)

Fits(rec) == Len(rec.ops) < REG_MODULUS

Typed(recs, V, top, a) ==
  /\ recs \in Seq(RecorderSet) /\ Len(recs) >= 1
  /\ \A r \in 1 .. Len(recs) : recs[r].is_main <=> r = 1
  /\ V \subseteq TracedSet /\ \A x \in V : x.rec \in 1 .. Len(recs)
  /\ a \in Seq(Value) /\ top \in [Interactions -> Nat]

State(recs, V, top, a) ==
  /\ Typed(recs, V, top, a)
  /\ \A r \in 1 .. Len(recs) : Fits(recs[r]) => Sound(recs[r], r, V, top, a)

-----------------------------------------------------------------------------
\* Induction over the naturals: what fails somewhere fails first somewhere.
LEMMA LeastNumber ==
  ASSUME NEW S, S \subseteq Nat, S # {}
  PROVE  \E n \in S : \A m \in S : n <= m
<1> DEFINE R == {p \in Nat \X Nat : p[1] < p[2]}
<1>1. IsWellFoundedOn(R, Nat)
  BY NatLessThanWellFounded DEF OpToRel
<1> HIDE DEF R
<1>2. PICK n \in S : \A m \in S : ~ (<<m, n>> \in R)
  BY <1>1, WFMin
<1>3. \A m \in S : ~ (m < n)
  BY <1>2 DEF R
<1> QED BY <1>3

\* What holds of 0 and is passed on by each number below n holds up to n.
LEMMA Induction ==
  ASSUME NEW n \in Nat, NEW Good, 0 \in Good, \A i \in 0 .. n - 1 : i \in Good => i + 1 \in Good
  PROVE  \A i \in 0 .. n : i \in Good
<1> DEFINE Bad == {i \in 0 .. n : i \notin Good}
<1> SUFFICES ASSUME Bad # {} PROVE FALSE
  OBVIOUS
<1>1. PICK m \in Bad : \A l \in Bad : m <= l
  <2>1. Bad \subseteq Nat
    OBVIOUS
  <2> HIDE DEF Bad
  <2> QED BY <2>1, LeastNumber
<1>2. m \in 0 .. n /\ m \notin Good /\ m # 0
  BY <1>1
<1>3. m - 1 \in 0 .. n - 1 /\ m - 1 \in 0 .. n /\ m - 1 \notin Bad /\ (m - 1) + 1 = m
  <2> HIDE DEF Bad
  <2> QED BY <1>1, <1>2
<1> QED BY <1>2, <1>3

LEMMA SmallMod == \A x, n \in Nat : x < n => x % n = x
  OBVIOUS

LEMMA ModRange == \A x \in Int, n \in Nat \ {0} : x % n \in 0 .. n - 1
  OBVIOUS

LEMMA Constants ==
  /\ P \in Nat \ {0} /\ REG_MODULUS \in Nat \ {0} /\ REG_LIMIT \in Nat \ {0} /\ MAX_REGS \in Nat \ {0}
  /\ MAX_REGS <= REG_LIMIT /\ REG_LIMIT < REG_MODULUS
  /\ BaseValues \subseteq Nat /\ SecureValues \subseteq [1 .. 4 -> Nat]
  /\ Masks \subseteq (0 .. 2) \X Seq(Int)
  BY BytecodeConstants

\* Appending an instruction.
LEMMA Appended ==
  ASSUME NEW S, NEW s \in Seq(S), NEW e \in S
  PROVE  /\ Append(s, e) \in Seq(S) /\ Len(Append(s, e)) = Len(s) + 1 /\ Len(s) \in Nat
         /\ \A i \in 1 .. Len(s) : Append(s, e)[i] = s[i]
         /\ Append(s, e)[Len(s) + 1] = e
  OBVIOUS

-----------------------------------------------------------------------------
\* An instruction's meaning depends on the registers it reads.
LEMMA SameOperands ==
  ASSUME NEW op, NEW w, NEW v, \A k \in 1 .. Len(op.srcs) : v[op.srcs[k]] = w[op.srcs[k]]
  PROVE  Operands(op, v) = Operands(op, w)
  BY DEF Operands

\* The counts only go up, and an instruction reads registers written before it.
LEMMA CountsRise ==
  ASSUME NEW ops \in Seq(OpSet), NEW n, NEW c, NEW w, NEW top, Account(ops, n, c, w, top)
  PROVE  \A i \in 0 .. Len(ops) : c[i] \in 0 .. n
<1> DEFINE L == Len(ops)
           Bad == {i \in 0 .. L : ~ (c[L - i] <= n)}
<1>1. L \in Nat
  OBVIOUS
<1>2. c \in [0 .. L -> Nat] /\ c[L] = n
  BY DEF Account
<1>3. \A i \in 1 .. L : c[i - 1] <= c[i]
  <2> TAKE i \in 1 .. L
  <2>1. Explained(ops[i], c[i - 1], c[i], w, top)
    BY DEF Account
  <2>2. i - 1 \in 0 .. L /\ i \in 0 .. L
    BY <1>1
  <2>3. c[i - 1] \in Nat /\ c[i] \in Nat
    BY <2>2, <1>2
  <2> QED BY <2>1, <2>3 DEF Explained
<1> HIDE DEF L
<1>4. Bad \subseteq Nat
  BY <1>1
<1>5. ASSUME NEW i \in Bad, \A m \in Bad : i <= m PROVE FALSE
  <2>0. i \in 0 .. L /\ ~ (c[L - i] <= n)
    OBVIOUS
  <2>1. i # 0
    BY <1>1, <1>2, <2>0
  <2>2. i - 1 \in 0 .. L /\ ~ (i <= i - 1)
    BY <2>0, <2>1, <1>1
  <2>3. i - 1 \notin Bad
    <3> HIDE DEF Bad
    <3> QED BY <2>2, <1>5
  <2>4. c[L - (i - 1)] <= n
    BY <2>2, <2>3
  <2>5. L - (i - 1) \in 1 .. L /\ L - (i - 1) - 1 = L - i /\ L - i \in 0 .. L /\ L - (i - 1) \in 0 .. L
    BY <2>0, <2>2, <1>1
  <2>6. c[L - i] <= c[L - (i - 1)]
    BY <2>5, <1>3
  <2>7. c[L - i] \in Nat /\ c[L - (i - 1)] \in Nat /\ n \in Nat
    BY <2>5, <1>2, <1>1
  <2> QED BY <2>0, <2>4, <2>6, <2>7
<1>6. Bad = {}
  <2> HIDE DEF Bad
  <2> QED BY <1>4, <1>5, LeastNumber
<1>7. ASSUME NEW i \in 0 .. L PROVE c[i] \in 0 .. n
  <2>1. L - i \in 0 .. L /\ L - (L - i) = i
    BY <1>1
  <2>2. L - i \notin Bad
    BY <1>6
  <2>3. c[i] <= n
    BY <2>1, <2>2
  <2>4. c[i] \in Nat /\ n \in Nat
    BY <1>1, <1>2
  <2> QED BY <2>3, <2>4
<1> QED BY <1>7 DEF L

LEMMA Reads ==
  ASSUME NEW ops \in Seq(OpSet), NEW n, NEW c, NEW w, NEW top, Account(ops, n, c, w, top),
         NEW i \in 1 .. Len(ops)
  PROVE  /\ Explained(ops[i], c[i - 1], c[i], w, top) /\ ops[i] \in OpSet
         /\ Len(ops[i].srcs) \in Nat
         /\ c[i - 1] \in 0 .. n /\ c[i] \in 0 .. n /\ n \in Nat
         /\ c[i - 1] <= i - 1 /\ c[i] <= i
         /\ \A k \in 1 .. Len(ops[i].srcs) : ops[i].srcs[k] \in 0 .. c[i - 1] - 1
         /\ \A k \in 1 .. Len(ops[i].srcs) : ops[i].srcs[k] \in 0 .. n - 1
         /\ ops[i].kind # "AddConstraint" => c[i - 1] \in 0 .. n - 1
         /\ ops[i].kind = "AddConstraint" => Len(ops[i].srcs) = 1 /\ ops[i].srcs[1] \in 0 .. n - 1
<1>1. Explained(ops[i], c[i - 1], c[i], w, top) /\ ops[i] \in OpSet
  BY DEF Account
<1>2. i - 1 \in 0 .. Len(ops) /\ i \in 0 .. Len(ops) /\ Len(ops) \in Nat /\ Len(ops) \in 0 .. Len(ops)
  OBVIOUS
<1>3. c[i - 1] \in 0 .. n /\ c[i] \in 0 .. n
  BY <1>2, CountsRise
<1>4. n \in Nat /\ c[i - 1] <= i - 1 /\ c[i] <= i
  BY <1>2 DEF Account
<1>5. ops[i].srcs \in Seq(Nat)
  BY <1>1 DEF OpSet
<1>6. Len(ops[i].srcs) \in Nat /\ \A k \in 1 .. Len(ops[i].srcs) : ops[i].srcs[k] \in Nat
  BY <1>5
<1>7. \A k \in 1 .. Len(ops[i].srcs) : ops[i].srcs[k] \in 0 .. c[i - 1] - 1
  BY <1>1, <1>3, <1>4, <1>6 DEF Explained
<1>8. \A k \in 1 .. Len(ops[i].srcs) : ops[i].srcs[k] \in 0 .. n - 1
  BY <1>7, <1>3, <1>4
<1>9. ops[i].kind # "AddConstraint" => c[i - 1] \in 0 .. n - 1
  BY <1>1, <1>3, <1>4 DEF Explained
<1>10. ops[i].kind = "AddConstraint" => Len(ops[i].srcs) = 1 /\ ops[i].srcs[1] \in 0 .. n - 1
  BY <1>1, <1>8 DEF Explained, WellFormed, Kinds
<1> QED BY <1>1, <1>3, <1>4, <1>6, <1>7, <1>8, <1>9, <1>10

\* An explanation holds with any registers that agree on those looked at.
LEMMA ExplainedSame ==
  ASSUME NEW ops \in Seq(OpSet), NEW n, NEW c, NEW w, NEW top, Account(ops, n, c, w, top),
         NEW i \in 1 .. Len(ops),
         NEW v, \A j \in 0 .. n - 1 : v[j] = w[j]
  PROVE  Explained(ops[i], c[i - 1], c[i], v, top)
<1>1. Operands(ops[i], v) = Operands(ops[i], w)
  BY Reads DEF Operands
<1>2. ops[i].kind # "AddConstraint" => v[c[i - 1]] = w[c[i - 1]]
  BY Reads
<1> QED BY <1>1, <1>2, Reads DEF Explained

\* The counts of a program with one more instruction, and registers with one more.
Counted(c, L, m) == [i \in 0 .. L + 1 |-> IF i = L + 1 THEN m ELSE c[i]]
Worth(w, n, val) == [j \in Nat |-> IF j = n THEN val ELSE w[j]]

LEMMA CountedFacts ==
  ASSUME NEW L \in Nat, NEW c \in [0 .. L -> Nat], NEW m \in Nat
  PROVE  /\ Counted(c, L, m) \in [0 .. L + 1 -> Nat]
         /\ \A i \in 0 .. L : Counted(c, L, m)[i] = c[i]
         /\ Counted(c, L, m)[L + 1] = m
<1>1. \A i \in 0 .. L : i \in 0 .. L + 1 /\ i # L + 1
  OBVIOUS
<1>2. L + 1 \in 0 .. L + 1
  OBVIOUS
<1>3. \A i \in 0 .. L + 1 : i # L + 1 => i \in 0 .. L
  OBVIOUS
<1>4. \A i \in 0 .. L + 1 : (IF i = L + 1 THEN m ELSE c[i]) \in Nat
  BY <1>3
<1> QED BY <1>1, <1>2, <1>4 DEF Counted

LEMMA WorthFacts ==
  ASSUME NEW w \in [Nat -> Value], NEW n \in Nat, NEW val \in Value
  PROVE  /\ Worth(w, n, val) \in [Nat -> Value] /\ Worth(w, n, val)[n] = val
         /\ \A j \in 0 .. n - 1 : Worth(w, n, val)[j] = w[j]
  BY DEF Worth

LEMMA AccountFacts ==
  ASSUME NEW ops \in Seq(OpSet), NEW n, NEW c, NEW w, NEW top, Account(ops, n, c, w, top)
  PROVE  /\ Len(ops) \in Nat /\ n \in Nat /\ n <= Len(ops)
         /\ c \in [0 .. Len(ops) -> Nat] /\ w \in [Nat -> Value]
         /\ c[0] = 0 /\ c[Len(ops)] = n /\ \A i \in 0 .. Len(ops) : c[i] <= i
<1>1. Len(ops) \in Nat /\ Len(ops) \in 0 .. Len(ops)
  OBVIOUS
<1> QED BY <1>1 DEF Account

LEMMA AppendAccount ==
  ASSUME NEW ops \in Seq(OpSet), NEW n, NEW c, NEW w, NEW top, Account(ops, n, c, w, top),
         NEW op \in OpSet, NEW m \in Nat, m <= n + 1,
         NEW v \in [Nat -> Value], \A j \in 0 .. n - 1 : v[j] = w[j],
         Explained(op, n, m, v, top)
  PROVE  Account(Append(ops, op), m, Counted(c, Len(ops), m), v, top)
<1> DEFINE L == Len(ops)
           d == Counted(c, L, m)
           pr == Append(ops, op)
<1>1. /\ L \in Nat /\ n \in Nat /\ n <= L /\ c \in [0 .. L -> Nat]
      /\ c[0] = 0 /\ c[L] = n /\ \A i \in 0 .. L : c[i] <= i
  BY AccountFacts
<1>2. /\ pr \in Seq(OpSet) /\ Len(pr) = L + 1
      /\ \A i \in 1 .. L : pr[i] = ops[i]
      /\ pr[L + 1] = op
  OBVIOUS
<1>3. /\ d \in [0 .. L + 1 -> Nat] /\ \A i \in 0 .. L : d[i] = c[i]
      /\ d[L + 1] = m
  <2>1. L \in Nat /\ c \in [0 .. L -> Nat] /\ m \in Nat
    BY <1>1
  <2> HIDE DEF L
  <2> QED BY ONLY <2>1, CountedFacts
<1>4. \A i \in 1 .. L : Explained(ops[i], c[i - 1], c[i], v, top)
  BY ExplainedSame
<1> HIDE DEF L, d, pr
<1>5. ASSUME NEW i \in 0 .. L + 1 PROVE d[i] <= i
  <2>1. CASE i \in 0 .. L
    BY <2>1, <1>1, <1>3
  <2>2. CASE i = L + 1
    BY <2>2, <1>1, <1>3
  <2> QED BY <2>1, <2>2, <1>1
<1>6. ASSUME NEW i \in 1 .. L + 1 PROVE Explained(pr[i], d[i - 1], d[i], v, top)
  <2>1. CASE i \in 1 .. L
    <3>1. i \in 0 .. L /\ i - 1 \in 0 .. L
      BY <2>1, <1>1
    <3> QED BY <3>1, <2>1, <1>2, <1>3, <1>4
  <2>2. CASE i = L + 1
    <3>1. i - 1 = L /\ L \in 0 .. L
      BY <2>2, <1>1
    <3>2. d[L] = n
      BY <3>1, <1>1, <1>3
    <3> QED BY ONLY <3>1, <3>2, <2>2, <1>2, <1>3, Explained(op, n, m, v, top)
  <2> QED BY <2>1, <2>2, <1>1
<1>7. d[0] = 0
  BY <1>1, <1>3
<1> QED BY <1>1, <1>2, <1>3, <1>5, <1>6, <1>7 DEF Account, L, d, pr

LEMMA AppendConstrains ==
  ASSUME NEW ops \in Seq(OpSet), NEW n, NEW c, NEW w, NEW top, Account(ops, n, c, w, top),
         NEW op \in OpSet, op.kind # "AddConstraint",
         NEW v, \A j \in 0 .. n - 1 : v[j] = w[j],
         NEW a, Constrains(ops, c, w, a)
  PROVE  Constrains(Append(ops, op), Counted(c, Len(ops), n + 1), v, a)
<1> DEFINE L == Len(ops)
           d == Counted(c, L, n + 1)
           pr == Append(ops, op)
<1>1. L \in Nat /\ n \in Nat /\ c \in [0 .. L -> Nat] /\ c[L] = n
  BY AccountFacts
<1>2. /\ Len(pr) = L + 1
      /\ \A i \in 1 .. L : pr[i] = ops[i]
      /\ pr[L + 1] = op
  OBVIOUS
<1>3. (\A i \in 0 .. L : d[i] = c[i]) /\ d[L + 1] = n + 1
  <2> DEFINE m == n + 1
  <2>1. L \in Nat /\ m \in Nat /\ c \in [0 .. L -> Nat]
    BY <1>1
  <2>2. d = Counted(c, L, m)
    OBVIOUS
  <2> HIDE DEF L, d, m
  <2>3. (\A i \in 0 .. L : Counted(c, L, m)[i] = c[i]) /\ Counted(c, L, m)[L + 1] = m
    BY ONLY <2>1, CountedFacts
  <2>4. (\A i \in 0 .. L : d[i] = c[i]) /\ d[L + 1] = m
    BY ONLY <2>2, <2>3
  <2> QED BY <2>4 DEF m
<1>4. Len(a) = L - n
  BY <1>1 DEF Constrains
<1>5. \A i \in 1 .. L : ops[i].kind = "AddConstraint" =>
        /\ i - c[i - 1] \in 1 .. Len(a)
        /\ a[i - c[i - 1]] = w[ops[i].srcs[1]]
        /\ ops[i].srcs[1] \in 0 .. n - 1
  BY Reads DEF Constrains
<1> HIDE DEF L, d, pr
<1>6. ASSUME NEW i \in 1 .. L + 1, pr[i].kind = "AddConstraint"
      PROVE  i - d[i - 1] \in 1 .. Len(a) /\ a[i - d[i - 1]] = v[pr[i].srcs[1]]
  <2>1. i \in 1 .. L /\ i - 1 \in 0 .. L
    BY <1>6, <1>2, <1>1
  <2>2. d[i - 1] = c[i - 1] /\ pr[i] = ops[i]
    BY <2>1, <1>2, <1>3
  <2>3. v[ops[i].srcs[1]] = w[ops[i].srcs[1]]
    BY <1>6, <2>1, <2>2, <1>5
  <2> QED BY <1>6, <2>1, <2>2, <2>3, <1>5
<1>7. Len(a) = (L + 1) - d[L + 1]
  BY <1>1, <1>3, <1>4
<1> QED BY <1>2, <1>6, <1>7 DEF Constrains, L, d, pr

\* The registers srcs of recorder r are those of the values vs, which are known.
Reading(srcs, vs, V, r) ==
  \A k \in 1 .. Len(srcs) : vs[k] \in V /\ vs[k].rec = r /\ srcs[k] = vs[k].reg
Vals(srcs, vs) == [k \in 1 .. Len(srcs) |-> vs[k].val]

\* An instruction is appended to a recorder, with operands it knows.
LEMMA EmitSound ==
  ASSUME NEW rec \in RecorderSet, NEW r, NEW V, V \subseteq TracedSet, NEW top, NEW a,
         Sound(rec, r, V, top, a),
         NEW op \in OpSet, op.kind # "AddConstraint", WellFormed(op, top),
         op.dst = rec.next_reg,
         NEW vs, Reading(op.srcs, vs, V, r),
         NEW x \in TracedSet, x.reg = rec.next_reg,
         x.val = Meaning(op.kind, Vals(op.srcs, vs), op.data),
         NEW rec2, rec2.ops = Append(rec.ops, op),
         rec2.next_reg = rec.next_reg + 1, rec2.is_main = rec.is_main
  PROVE  Sound(rec2, r, V \cup {x}, top, a)
<1> DEFINE n == rec.next_reg
           ops == rec.ops
           L == Len(ops)
<1>1. PICK c, w : Witnessed(rec, r, V, top, a, c, w)
  BY DEF Sound
<1> DEFINE d == Counted(c, L, n + 1)
           v == Worth(w, n, x.val)
           pr == Append(ops, op)
<1>2. ops \in Seq(OpSet) /\ Account(ops, n, c, w, top) /\ Known(r, n, V, w)
  BY <1>1 DEF Witnessed, RecorderSet
<1>3. /\ L \in Nat /\ n \in Nat /\ n + 1 \in Nat /\ c \in [0 .. L -> Nat] /\ c[L] = n
      /\ w \in [Nat -> Value]
  BY <1>2, AccountFacts
<1>4. x.val \in Value
  BY DEF TracedSet
<1>5. v \in [Nat -> Value] /\ v[n] = x.val /\ \A j \in 0 .. n - 1 : v[j] = w[j]
  <2> HIDE DEF n
  <2> QED BY <1>3, <1>4, WorthFacts
<1>6. ASSUME NEW k \in 1 .. Len(op.srcs)
      PROVE  op.srcs[k] \in 0 .. n - 1 /\ w[op.srcs[k]] = vs[k].val
  <2>1. vs[k] \in TracedSet /\ vs[k] \in V /\ vs[k].rec = r /\ op.srcs[k] = vs[k].reg
    BY DEF Reading
  <2>2. vs[k].reg \in Nat
    BY <2>1 DEF TracedSet
  <2>3. vs[k].reg < n /\ w[vs[k].reg] = vs[k].val
    BY <1>2, <2>1 DEF Known
  <2> QED BY <1>3, <2>1, <2>2, <2>3
<1>7. Operands(op, v) = Vals(op.srcs, vs)
  BY <1>5, <1>6 DEF Operands, Vals
<1>8. Explained(op, n, n + 1, v, top)
  <2>1. \A k \in 1 .. Len(op.srcs) : op.srcs[k] < n
    BY <1>6, <1>3
  <2> HIDE DEF v
  <2> QED BY <2>1, <1>5, <1>7 DEF Explained
<1>9. Account(pr, n + 1, d, v, top)
  <2> HIDE DEF n, ops, v
  <2>1. n + 1 <= n + 1
    BY <1>3
  <2> QED BY ONLY <1>2, <1>3, <1>5, <1>8, <2>1, op \in OpSet, AppendAccount DEF L
<1>10. Known(r, n + 1, V \cup {x}, v)
  <2>1. ASSUME NEW y \in V, y.rec = r PROVE y.reg < n + 1 /\ v[y.reg] = y.val
    <3>1. y.reg \in Nat /\ y.reg < n /\ w[y.reg] = y.val
      BY <2>1, <1>2 DEF Known, TracedSet
    <3> HIDE DEF v, n
    <3> QED BY <3>1, <1>3, <1>5
  <2>2. x.reg < n + 1 /\ v[x.reg] = x.val
    BY <1>3, <1>5
  <2> HIDE DEF v, n
  <2> QED BY <2>1, <2>2 DEF Known
<1>11. rec.is_main => Constrains(pr, d, v, a)
  <2> HAVE rec.is_main
  <2>1. Constrains(ops, c, w, a)
    BY <1>1 DEF Witnessed
  <2> HIDE DEF v, n, ops
  <2> QED BY ONLY <2>1, <1>2, <1>5, op \in OpSet, op.kind # "AddConstraint", AppendConstrains DEF L
<1>12. ~rec.is_main => \A i \in 0 .. L + 1 : d[i] = i
  <2> HAVE ~rec.is_main
  <2>1. \A i \in 0 .. L : c[i] = i
    BY <1>1 DEF Witnessed
  <2>2. n = L
    <3>1. L \in 0 .. L
      BY <1>3
    <3> HIDE DEF L, n
    <3> QED BY <3>1, <2>1, <1>3
  <2>3. (\A i \in 0 .. L : d[i] = c[i]) /\ d[L + 1] = n + 1
    <3>1. L \in Nat /\ c \in [0 .. L -> Nat] /\ n + 1 \in Nat
      BY <1>3
    <3> HIDE DEF L, n
    <3> QED BY ONLY <3>1, CountedFacts
  <2>4. L \in Nat
    BY <1>3
  <2> HIDE DEF L, n, d
  <2> QED BY <2>1, <2>2, <2>3, <2>4
<1>13. Len(pr) = L + 1
  BY <1>2
<1> HIDE DEF d, v
<1>14. Witnessed(rec2, r, V \cup {x}, top, a, d, v)
  BY <1>9, <1>10, <1>11, <1>12, <1>13 DEF Witnessed
<1> QED BY <1>14 DEF Sound

\* A constraint is appended to the evaluator's recorder.
LEMMA ConstraintSound ==
  ASSUME NEW rec \in RecorderSet, NEW r, NEW V, V \subseteq TracedSet, NEW top,
         NEW a \in Seq(Value), Sound(rec, r, V, top, a), rec.is_main,
         NEW x \in V, x.rec = r,
         NEW op \in OpSet, op = Op("AddConstraint", 0, <<x.reg>>, <<>>),
         NEW rec2, rec2.ops = Append(rec.ops, op),
         rec2.next_reg = rec.next_reg, rec2.is_main
  PROVE  Sound(rec2, r, V, top, Append(a, x.val))
<1> DEFINE n == rec.next_reg
           ops == rec.ops
           L == Len(ops)
           e == Append(a, x.val)
<1>1. PICK c, w : Witnessed(rec, r, V, top, a, c, w)
  BY DEF Sound
<1> DEFINE d == Counted(c, L, n)
           pr == Append(ops, op)
<1>2. ops \in Seq(OpSet) /\ Account(ops, n, c, w, top) /\ Known(r, n, V, w) /\ Constrains(ops, c, w, a)
  BY <1>1 DEF Witnessed, RecorderSet
<1>3. L \in Nat /\ n \in Nat /\ c[L] = n
  BY <1>2, AccountFacts
<1>4. c \in [0 .. L -> Nat]
  BY <1>2, AccountFacts
<1>5. w \in [Nat -> Value]
  BY <1>2, AccountFacts
<1>6. x \in TracedSet /\ x.reg \in Nat /\ x.val \in Value /\ x.reg < n /\ w[x.reg] = x.val
  BY <1>2 DEF Known, TracedSet
<1>7. op.kind = "AddConstraint" /\ op.srcs = <<x.reg>> /\ Len(op.srcs) = 1 /\ op.srcs[1] = x.reg
  BY DEF Op
<1>8. Explained(op, n, n, w, top)
  BY <1>6, <1>7 DEF Explained, WellFormed
<1>9. Account(pr, n, d, w, top)
  <2>1. n <= n + 1 /\ \A j \in 0 .. n - 1 : w[j] = w[j]
    BY <1>3
  <2> HIDE DEF n, ops
  <2> QED BY ONLY <1>2, <1>3, <1>5, <1>8, <2>1, op \in OpSet, AppendAccount DEF L
<1>10. (\A i \in 0 .. L : d[i] = c[i]) /\ d[L + 1] = n
  <2>1. L \in Nat /\ c \in [0 .. L -> Nat] /\ n \in Nat
    BY <1>3, <1>4
  <2> HIDE DEF L, n
  <2> QED BY ONLY <2>1, CountedFacts
<1>11. Len(pr) = L + 1 /\ pr[L + 1] = op /\ \A i \in 1 .. L : pr[i] = ops[i]
  BY <1>2
<1>12. Len(a) = L - n
  BY <1>2, <1>3 DEF Constrains
<1>13. /\ e \in Seq(Value) /\ Len(e) = Len(a) + 1 /\ e[Len(a) + 1] = x.val
       /\ \A i \in 1 .. Len(a) : e[i] = a[i]
  BY <1>6
<1>14. \A i \in 1 .. L : ops[i].kind = "AddConstraint" =>
         /\ i - c[i - 1] \in 1 .. Len(a)
         /\ a[i - c[i - 1]] = w[ops[i].srcs[1]]
  BY <1>2 DEF Constrains
<1> HIDE DEF e, d, pr, L, n, ops
<1>15. ASSUME NEW i \in 1 .. L + 1, pr[i].kind = "AddConstraint"
       PROVE  i - d[i - 1] \in 1 .. Len(e) /\ e[i - d[i - 1]] = w[pr[i].srcs[1]]
  <2>1. CASE i \in 1 .. L
    <3>1. i - 1 \in 0 .. L
      BY <2>1, <1>3
    <3>2. d[i - 1] = c[i - 1] /\ pr[i] = ops[i]
      BY <3>1, <2>1, <1>10, <1>11
    <3>3. i - c[i - 1] \in 1 .. Len(a) /\ a[i - c[i - 1]] = w[ops[i].srcs[1]]
      BY <2>1, <3>2, <1>15, <1>14
    <3>4. i - c[i - 1] \in 1 .. Len(e) /\ e[i - c[i - 1]] = a[i - c[i - 1]]
      BY <3>3, <1>13, <1>12, <1>3
    <3> QED BY <3>2, <3>3, <3>4
  <2>2. CASE i = L + 1
    <3>1. i - 1 = L /\ L \in 0 .. L
      BY <2>2, <1>3
    <3>2. d[i - 1] = n
      BY <3>1, <1>10, <1>3
    <3>3. i - d[i - 1] = Len(a) + 1
      BY <3>2, <2>2, <1>12, <1>3
    <3>4. Len(a) + 1 \in 1 .. Len(e)
      BY <1>12, <1>13, <1>3, LenProperties
    <3> QED BY <3>3, <3>4, <2>2, <1>11, <1>13, <1>7, <1>6
  <2> QED BY <2>1, <2>2, <1>3
<1>16. Constrains(pr, d, w, e)
  <2>1. Len(e) = (L + 1) - d[L + 1]
    BY <1>10, <1>12, <1>13, <1>3
  <2> QED BY <2>1, <1>15, <1>11 DEF Constrains
<1>17. Witnessed(rec2, r, V, top, e, d, w)
  BY <1>2, <1>9, <1>16 DEF Witnessed, n, ops, pr
<1> QED BY <1>17 DEF Sound, e

-----------------------------------------------------------------------------
\* Merging: the registers of the recorder absorbed follow those of the other.

LEMMA TwoFields ==
  ASSUME NEW a, NEW b, NEW c, NEW d, NEW e, NEW f
  PROVE  [[[kind |-> a, dst |-> b, srcs |-> c, data |-> d] EXCEPT !.dst = e] EXCEPT !.srcs = f]
           = [kind |-> a, dst |-> e, srcs |-> f, data |-> d]
<1> DEFINE r == [kind |-> a, dst |-> b, srcs |-> c, data |-> d]
           u == [kind |-> a, dst |-> e, srcs |-> c, data |-> d]
<1>1. [r EXCEPT !.dst = e] = u
  OBVIOUS
<1>2. [u EXCEPT !.srcs = f] = [kind |-> a, dst |-> e, srcs |-> f, data |-> d]
  OBVIOUS
<1> HIDE DEF u
<1> QED BY <1>1, <1>2

LEMMA Remap ==
  ASSUME NEW op \in OpSet, NEW n \in Nat
  PROVE  LET o == remap_op(op, n)
         IN  /\ o \in OpSet /\ o.kind = op.kind /\ o.data = op.data
             /\ o.dst = (op.dst + n) % REG_MODULUS
             /\ Len(o.srcs) = Len(op.srcs) /\ Len(op.srcs) \in Nat
             /\ \A k \in 1 .. Len(op.srcs) : o.srcs[k] = (op.srcs[k] + n) % REG_MODULUS
<1> DEFINE o == remap_op(op, n)
           moved == [k \in DOMAIN op.srcs |-> (op.srcs[k] + n) % REG_MODULUS]
<1>1. op = [kind |-> op.kind, dst |-> op.dst, srcs |-> op.srcs, data |-> op.data]
      /\ op.dst \in Nat /\ op.srcs \in Seq(Nat) /\ op.kind \in AllKinds /\ op.data \in Seq(Int)
  BY DEF OpSet
<1>2. o = [kind |-> op.kind, dst |-> (op.dst + n) % REG_MODULUS, srcs |-> moved, data |-> op.data]
  <2>1. o = [[op EXCEPT !.dst = (op.dst + n) % REG_MODULUS] EXCEPT !.srcs = moved]
    <3>1. [op EXCEPT !.dst = (op.dst + n) % REG_MODULUS].srcs = op.srcs
      BY <1>1
    <3> QED BY <3>1 DEF remap_op
  <2> HIDE DEF o, moved
  <2> QED BY <1>1, <2>1, TwoFields
<1>3. \A j \in Nat : (j + n) % REG_MODULUS \in Nat
  <2> TAKE j \in Nat
  <2>1. j + n \in Int
    OBVIOUS
  <2>2. (j + n) % REG_MODULUS \in 0 .. REG_MODULUS - 1
    BY <2>1, Constants, ModRange
  <2> QED BY <2>2, Constants
<1>4. \A k \in 1 .. Len(op.srcs) : op.srcs[k] \in Nat
  BY <1>1
<1>5. moved \in Seq(Nat) /\ Len(moved) = Len(op.srcs) /\ Len(op.srcs) \in Nat
  <2>1. DOMAIN op.srcs = 1 .. Len(op.srcs) /\ Len(op.srcs) \in Nat
    BY <1>1
  <2>2. moved = [k \in 1 .. Len(op.srcs) |-> (op.srcs[k] + n) % REG_MODULUS]
    BY <2>1
  <2>3. \A k \in 1 .. Len(op.srcs) : (op.srcs[k] + n) % REG_MODULUS \in Nat
    BY <1>3, <1>4
  <2> HIDE DEF moved
  <2> QED BY <2>1, <2>2, <2>3
<1>6. \A k \in 1 .. Len(op.srcs) : moved[k] = (op.srcs[k] + n) % REG_MODULUS
  BY <1>1
<1>7. (op.dst + n) % REG_MODULUS \in Nat
  BY <1>1, <1>3
<1> HIDE DEF moved
<1>8. o \in OpSet
  BY <1>1, <1>2, <1>5, <1>7 DEF OpSet
<1> HIDE DEF o
<1>9. o.kind = op.kind /\ o.data = op.data /\ o.dst = (op.dst + n) % REG_MODULUS /\ o.srcs = moved
  BY <1>2
<1> QED BY <1>5, <1>6, <1>8, <1>9 DEF o

LEMMA RemapExplained ==
  ASSUME NEW op \in OpSet, NEW n \in Nat, NEW b \in Nat, NEW m, NEW w, NEW v, NEW top,
         Explained(op, b, m, w, top), op.kind # "AddConstraint",
         b + n < REG_MODULUS,
         \A j \in Nat : v[n + j] = w[j]
  PROVE  Explained(remap_op(op, n), n + b, n + b + 1, v, top)
<1> DEFINE o == remap_op(op, n)
<1>1. /\ o.kind = op.kind /\ o.data = op.data
      /\ o.dst = (op.dst + n) % REG_MODULUS
      /\ Len(o.srcs) = Len(op.srcs) /\ Len(op.srcs) \in Nat
      /\ \A k \in 1 .. Len(op.srcs) : o.srcs[k] = (op.srcs[k] + n) % REG_MODULUS
  BY Remap
<1> HIDE DEF o
<1>2. op.srcs \in Seq(Nat)
  BY DEF OpSet
<1>3. WellFormed(op, top) /\ op.dst = b /\ w[b] = Meaning(op.kind, Operands(op, w), op.data)
      /\ \A k \in 1 .. Len(op.srcs) : op.srcs[k] < b
  BY DEF Explained
<1>3a. \A k \in 1 .. Len(op.srcs) : op.srcs[k] \in Nat
  BY ONLY <1>2
<1>4. ASSUME NEW k \in 1 .. Len(op.srcs)
      PROVE  o.srcs[k] = n + op.srcs[k] /\ op.srcs[k] \in Nat /\ op.srcs[k] < b
  <2>1. op.srcs[k] \in Nat /\ op.srcs[k] < b
    BY <1>3, <1>3a
  <2> DEFINE s == op.srcs[k]
  <2>2. s \in Nat /\ s < b /\ o.srcs[k] = (s + n) % REG_MODULUS
    BY <2>1, <1>1
  <2> HIDE DEF s
  <2>3. s + n \in Nat /\ s + n < REG_MODULUS /\ REG_MODULUS \in Nat
    BY ONLY <2>2, Constants, n \in Nat, b \in Nat, b + n < REG_MODULUS
  <2>4. (s + n) % REG_MODULUS = s + n
    BY <2>3, SmallMod
  <2>5. s + n = n + s
    BY <2>2
  <2> QED BY <2>2, <2>4, <2>5 DEF s
<1>5. o.dst = n + b
  <2>1. b + n \in Nat /\ REG_MODULUS \in Nat
    BY Constants
  <2>2. (b + n) % REG_MODULUS = b + n
    BY <2>1, SmallMod
  <2> QED BY <1>1, <1>3, <2>2
<1>6. Operands(o, v) = Operands(op, w)
  <2>1. \A k \in 1 .. Len(op.srcs) : v[o.srcs[k]] = w[op.srcs[k]]
    <3> TAKE k \in 1 .. Len(op.srcs)
    <3>1. o.srcs[k] = n + op.srcs[k] /\ op.srcs[k] \in Nat
      BY <1>4
    <3> QED BY <3>1
  <2> QED BY <1>1, <2>1 DEF Operands
<1>7. v[n + b] = w[b]
  OBVIOUS
<1>8. WellFormed(o, top)
  BY <1>1, <1>3 DEF WellFormed
<1>9. ASSUME NEW k \in 1 .. Len(o.srcs) PROVE o.srcs[k] < n + b
  <2> DEFINE s == op.srcs[k]
  <2>1. k \in 1 .. Len(op.srcs)
    BY <1>1
  <2>2. o.srcs[k] = n + s /\ s \in Nat /\ s < b
    BY <2>1, <1>4
  <2> HIDE DEF s
  <2> QED BY ONLY <2>2, n \in Nat, b \in Nat
<1> QED BY <1>1, <1>3, <1>5, <1>6, <1>7, <1>8, <1>9 DEF Explained, o

\* What merge_into does to the recorder that absorbs another.
Absorbed(dst, src, k) == remap_op(src.ops[k], dst.next_reg)
MergedOps(dst, src) == dst.ops \o [k \in DOMAIN src.ops |-> Absorbed(dst, src, k)]

LEMMA MergedFacts ==
  ASSUME NEW dst \in RecorderSet, NEW src \in RecorderSet
  PROVE  /\ MergedOps(dst, src) \in Seq(OpSet)
         /\ Len(dst.ops) \in Nat /\ Len(src.ops) \in Nat
         /\ Len(MergedOps(dst, src)) = Len(dst.ops) + Len(src.ops)
         /\ \A i \in 1 .. Len(dst.ops) : MergedOps(dst, src)[i] = dst.ops[i]
         /\ \A i \in 1 .. Len(src.ops) :
              MergedOps(dst, src)[Len(dst.ops) + i] = Absorbed(dst, src, i)
<1> DEFINE s == dst.ops
           t == [k \in 1 .. Len(src.ops) |-> Absorbed(dst, src, k)]
<1>1. s \in Seq(OpSet) /\ src.ops \in Seq(OpSet) /\ dst.next_reg \in Nat
  BY DEF RecorderSet
<1>2. /\ DOMAIN src.ops = 1 .. Len(src.ops) /\ Len(src.ops) \in Nat
      /\ \A k \in 1 .. Len(src.ops) : src.ops[k] \in OpSet
  BY <1>1
<1>3. \A k \in 1 .. Len(src.ops) : Absorbed(dst, src, k) \in OpSet
  BY <1>1, <1>2, Remap DEF Absorbed
<1>4. t \in Seq(OpSet) /\ Len(t) = Len(src.ops)
  BY <1>2, <1>3
<1>5. \A i \in 1 .. Len(src.ops) : t[i] = Absorbed(dst, src, i)
  OBVIOUS
<1>6. MergedOps(dst, src) = s \o t
  BY <1>2 DEF MergedOps
<1>7. Len(s) \in Nat
  BY <1>1
<1> HIDE DEF s, t
<1>8. /\ s \o t \in Seq(OpSet) /\ Len(s \o t) = Len(s) + Len(t)
      /\ \A i \in 1 .. Len(s) + Len(t) : (s \o t)[i] = IF i <= Len(s) THEN s[i] ELSE t[i - Len(s)]
  BY <1>1, <1>4, ConcatProperties
<1>9. ASSUME NEW i \in 1 .. Len(s) PROVE (s \o t)[i] = s[i]
  BY <1>8, <1>7, <1>4, <1>2
<1>10. ASSUME NEW i \in 1 .. Len(src.ops) PROVE (s \o t)[Len(s) + i] = t[i]
  <2>1. Len(s) + i \in 1 .. Len(s) + Len(t) /\ ~ (Len(s) + i <= Len(s)) /\ Len(s) + i - Len(s) = i
    BY <1>4, <1>7, <1>2
  <2> QED BY <2>1, <1>8
<1> QED BY <1>2, <1>4, <1>5, <1>6, <1>7, <1>8, <1>9, <1>10 DEF s

CountedBoth(c, L, n, m) == [i \in 0 .. L + m |-> IF i <= L THEN c[i] ELSE n + (i - L)]
WorthBoth(w, n, u) == [j \in Nat |-> IF j < n THEN w[j] ELSE u[j - n]]

CountsJoin(d, c, L, n, m) ==
  /\ d \in [0 .. L + m -> Nat]
  /\ \A i \in 0 .. L : d[i] = c[i]
  /\ \A i \in 0 .. m : d[L + i] = n + i

LEMMA CountedBothFacts ==
  ASSUME NEW L \in Nat, NEW c \in [0 .. L -> Nat], NEW n \in Nat, c[L] = n, NEW m \in Nat
  PROVE  CountsJoin(CountedBoth(c, L, n, m), c, L, n, m)
<1> DEFINE d == CountedBoth(c, L, n, m)
<1>1. ASSUME NEW i \in 0 .. L + m PROVE (IF i <= L THEN c[i] ELSE n + (i - L)) \in Nat
  <2>1. CASE i <= L
    <3>1. i \in 0 .. L
      BY <2>1
    <3> QED BY <2>1, <3>1
  <2>2. CASE ~ (i <= L)
    BY <2>2
  <2> QED BY <2>1, <2>2
<1>2. d \in [0 .. L + m -> Nat]
  BY <1>1 DEF CountedBoth
<1>3. ASSUME NEW i \in 0 .. L PROVE d[i] = c[i]
  <2>1. i \in 0 .. L + m /\ i <= L
    OBVIOUS
  <2> QED BY <2>1 DEF CountedBoth
<1>4. ASSUME NEW i \in 0 .. m PROVE d[L + i] = n + i
  <2>1. L + i \in 0 .. L + m
    OBVIOUS
  <2>2. d[L + i] = IF L + i <= L THEN c[L + i] ELSE n + ((L + i) - L)
    BY <2>1 DEF CountedBoth
  <2>3. CASE i = 0
    BY <2>2, <2>3
  <2>4. CASE i # 0
    <3>1. ~ (L + i <= L) /\ (L + i) - L = i
      BY <2>4
    <3> QED BY <3>1, <2>2
  <2> QED BY <2>3, <2>4
<1> HIDE DEF d
<1>5. CountsJoin(d, c, L, n, m)
  BY <1>2, <1>3, <1>4 DEF CountsJoin
<1> QED BY <1>5 DEF d

LEMMA WorthBothFacts ==
  ASSUME NEW w \in [Nat -> Value], NEW u \in [Nat -> Value], NEW n \in Nat
  PROVE  /\ WorthBoth(w, n, u) \in [Nat -> Value]
         /\ \A j \in 0 .. n - 1 : WorthBoth(w, n, u)[j] = w[j]
         /\ \A j \in Nat : WorthBoth(w, n, u)[n + j] = u[j]
<1> DEFINE v == WorthBoth(w, n, u)
<1>1. v \in [Nat -> Value]
  BY DEF WorthBoth
<1>2. ASSUME NEW j \in 0 .. n - 1 PROVE v[j] = w[j]
  BY DEF WorthBoth
<1>3. ASSUME NEW j \in Nat PROVE v[n + j] = u[j]
  <2>1. n + j \in Nat /\ ~ (n + j < n) /\ (n + j) - n = j
    OBVIOUS
  <2> QED BY <2>1 DEF WorthBoth
<1> QED BY <1>1, <1>2, <1>3

LEMMA SoundSize ==
  ASSUME NEW rec \in RecorderSet, NEW r, NEW V, NEW top, NEW a, Sound(rec, r, V, top, a)
  PROVE  rec.next_reg \in Nat /\ Len(rec.ops) \in Nat /\ rec.next_reg <= Len(rec.ops)
<1>1. PICK c, w : Witnessed(rec, r, V, top, a, c, w)
  BY DEF Sound
<1>2. rec.ops \in Seq(OpSet) /\ Account(rec.ops, rec.next_reg, c, w, top)
  BY <1>1 DEF Witnessed, RecorderSet
<1> QED BY <1>2, AccountFacts

LEMMA MergeAccount ==
  ASSUME NEW dst \in RecorderSet, NEW src \in RecorderSet, NEW top,
         NEW c, NEW w, Account(dst.ops, dst.next_reg, c, w, top),
         NEW e, NEW u, Account(src.ops, src.next_reg, e, u, top),
         \A i \in 0 .. Len(src.ops) : e[i] = i,
         Len(dst.ops) + Len(src.ops) < REG_MODULUS
  PROVE  Account(MergedOps(dst, src), dst.next_reg + src.next_reg,
                 CountedBoth(c, Len(dst.ops), dst.next_reg, Len(src.ops)),
                 WorthBoth(w, dst.next_reg, u), top)
<1> DEFINE n == dst.next_reg
           L == Len(dst.ops)
           m == Len(src.ops)
           pr == MergedOps(dst, src)
           d == CountedBoth(c, L, n, m)
           v == WorthBoth(w, n, u)
<1>0. dst.ops \in Seq(OpSet) /\ src.ops \in Seq(OpSet)
  BY DEF RecorderSet
<1>1. /\ L \in Nat /\ n \in Nat /\ n <= L /\ c \in [0 .. L -> Nat] /\ w \in [Nat -> Value]
      /\ c[0] = 0 /\ c[L] = n /\ \A i \in 0 .. L : c[i] <= i
  BY <1>0, AccountFacts
<1>2. m \in Nat /\ u \in [Nat -> Value] /\ e[m] = src.next_reg
  BY <1>0, AccountFacts
<1>3. src.next_reg = m
  <2>1. m \in 0 .. m
    BY <1>2
  <2> QED BY <2>1, <1>2
<1>4. /\ Len(pr) = L + m
      /\ \A i \in 1 .. L : pr[i] = dst.ops[i]
      /\ \A i \in 1 .. m : pr[L + i] = remap_op(src.ops[i], n)
  BY MergedFacts DEF Absorbed
<1>5. /\ d \in [0 .. L + m -> Nat]
      /\ \A i \in 0 .. L : d[i] = c[i]
      /\ \A i \in 0 .. m : d[L + i] = n + i
  <2>1. L \in Nat /\ c \in [0 .. L -> Nat] /\ n \in Nat /\ c[L] = n /\ m \in Nat
    BY <1>1, <1>2
  <2>2. CountsJoin(d, c, L, n, m)
    <3> HIDE DEF L, n, m
    <3> QED BY ONLY <2>1, CountedBothFacts
  <2> HIDE DEF d, L, n, m
  <2> QED BY <2>2 DEF CountsJoin
<1>6. /\ v \in [Nat -> Value]
      /\ \A j \in 0 .. n - 1 : v[j] = w[j]
      /\ \A j \in Nat : v[n + j] = u[j]
  <2>1. w \in [Nat -> Value] /\ u \in [Nat -> Value] /\ n \in Nat
    BY <1>1, <1>2
  <2> HIDE DEF n
  <2> QED BY ONLY <2>1, WorthBothFacts
<1>7. \A i \in 1 .. L : Explained(dst.ops[i], c[i - 1], c[i], v, top)
  BY <1>0, <1>6, ExplainedSame
<1>8. ASSUME NEW i \in 1 .. m PROVE Explained(remap_op(src.ops[i], n), n + (i - 1), n + i, v, top)
  <2> DEFINE o == src.ops[i]
             b == i - 1
  <2>1. i - 1 \in 0 .. m /\ i \in 0 .. m /\ e[i - 1] = i - 1 /\ e[i] = i /\ b \in Nat
    BY <1>2
  <2>2. Explained(o, b, i, u, top) /\ o \in OpSet
    BY <2>1, <1>0, Reads
  <2>3. o.kind # "AddConstraint"
    BY <2>1, <2>2 DEF Explained
  <2>4. b + n < REG_MODULUS
    <3>1. L + m < REG_MODULUS
      OBVIOUS
    <3>2. n \in Nat /\ n <= L /\ L \in Nat /\ m \in Nat /\ REG_MODULUS \in Nat
      BY <1>1, <1>2, Constants
    <3>3. b \in Nat /\ b < m
      BY <3>2
    <3> HIDE DEF n, L, m, b
    <3> QED BY ONLY <3>1, <3>2, <3>3
  <2>5. n \in Nat /\ \A j \in Nat : v[n + j] = u[j]
    BY <1>1, <1>6
  <2>6. n + b + 1 = n + i /\ n + b = n + (i - 1)
    BY <1>1, <1>2
  <2>7. b \in Nat
    BY <2>1
  <2> HIDE DEF o, b, n, v
  <2>8. Explained(remap_op(o, n), n + b, n + b + 1, v, top)
    BY ONLY <2>2, <2>3, <2>4, <2>5, <2>7, RemapExplained
  <2> QED BY <2>6, <2>8 DEF o
<1>9. L + m < REG_MODULUS
  OBVIOUS
<1> HIDE DEF n, L, m, pr, d, v
<1>10. ASSUME NEW i \in 0 .. L + m PROVE d[i] <= i
  <2>1. CASE i \in 0 .. L
    BY <2>1, <1>1, <1>5
  <2>2. CASE i \notin 0 .. L
    <3>1. i - L \in 0 .. m /\ L + (i - L) = i
      BY <2>2, <1>1, <1>2
    <3>2. d[i] = n + (i - L)
      BY <3>1, <1>5
    <3> QED BY <3>1, <3>2, <1>1, <1>2
  <2> QED BY <2>1, <2>2
<1>11. ASSUME NEW i \in 1 .. L + m PROVE Explained(pr[i], d[i - 1], d[i], v, top)
  <2>1. CASE i \in 1 .. L
    <3>1. i - 1 \in 0 .. L /\ i \in 0 .. L
      BY <2>1, <1>1
    <3> QED BY <3>1, <2>1, <1>4, <1>5, <1>7
  <2>2. CASE i \notin 1 .. L
    <3> DEFINE k == i - L
    <3>1. k \in 1 .. m /\ k \in 0 .. m /\ k - 1 \in 0 .. m /\ L + k = i /\ L + (k - 1) = i - 1
      BY <2>2, <1>1, <1>2
    <3> HIDE DEF k
    <3>2. d[i] = n + k /\ d[i - 1] = n + (k - 1)
      <4>1. d[L + k] = n + k /\ d[L + (k - 1)] = n + (k - 1)
        BY <3>1, <1>5
      <4> QED BY <4>1, <3>1
    <3>3. pr[i] = remap_op(src.ops[k], n)
      <4>1. pr[L + k] = remap_op(src.ops[k], n)
        BY <3>1, <1>4
      <4> QED BY <4>1, <3>1
    <3> QED BY <3>1, <3>2, <3>3, <1>8
  <2> QED BY <2>1, <2>2
<1>12. d[0] = 0 /\ d[L + m] = n + m
  BY <1>1, <1>2, <1>5
<1> QED BY <1>3, <1>4, <1>5, <1>6, <1>10, <1>11, <1>12 DEF Account, n, L, m, pr, d, v

LEMMA MergeConstrains ==
  ASSUME NEW dst \in RecorderSet, NEW src \in RecorderSet, NEW top, NEW a,
         NEW c, NEW w, Account(dst.ops, dst.next_reg, c, w, top), Constrains(dst.ops, c, w, a),
         NEW e, NEW u, Account(src.ops, src.next_reg, e, u, top),
         \A i \in 0 .. Len(src.ops) : e[i] = i
  PROVE  Constrains(MergedOps(dst, src),
                    CountedBoth(c, Len(dst.ops), dst.next_reg, Len(src.ops)),
                    WorthBoth(w, dst.next_reg, u), a)
<1> DEFINE n == dst.next_reg
           L == Len(dst.ops)
           m == Len(src.ops)
           pr == MergedOps(dst, src)
           d == CountedBoth(c, L, n, m)
           v == WorthBoth(w, n, u)
<1>0. dst.ops \in Seq(OpSet) /\ src.ops \in Seq(OpSet) /\ n \in Nat
  BY DEF RecorderSet
<1>1. L \in Nat /\ c \in [0 .. L -> Nat] /\ w \in [Nat -> Value] /\ c[L] = n
  BY <1>0, AccountFacts
<1>2. m \in Nat /\ u \in [Nat -> Value]
  BY <1>0, AccountFacts
<1>4. /\ Len(pr) = L + m
      /\ \A i \in 1 .. L : pr[i] = dst.ops[i]
      /\ \A i \in 1 .. m : pr[L + i] = remap_op(src.ops[i], n)
  BY MergedFacts DEF Absorbed
<1>5. /\ \A i \in 0 .. L : d[i] = c[i]
      /\ \A i \in 0 .. m : d[L + i] = n + i
  <2>1. L \in Nat /\ c \in [0 .. L -> Nat] /\ n \in Nat /\ c[L] = n /\ m \in Nat
    BY <1>0, <1>1, <1>2
  <2>2. CountsJoin(d, c, L, n, m)
    <3> HIDE DEF L, n, m
    <3> QED BY ONLY <2>1, CountedBothFacts
  <2> HIDE DEF d, L, n, m
  <2> QED BY <2>2 DEF CountsJoin
<1>6. \A j \in 0 .. n - 1 : v[j] = w[j]
  <2>1. w \in [Nat -> Value] /\ u \in [Nat -> Value] /\ n \in Nat
    BY <1>0, <1>1, <1>2
  <2> HIDE DEF n
  <2> QED BY ONLY <2>1, WorthBothFacts
<1>7. Len(a) = L - n
  BY <1>1 DEF Constrains
<1>8. \A i \in 1 .. L : dst.ops[i].kind = "AddConstraint" =>
        /\ i - c[i - 1] \in 1 .. Len(a)
        /\ a[i - c[i - 1]] = w[dst.ops[i].srcs[1]]
        /\ dst.ops[i].srcs[1] \in 0 .. n - 1
  BY <1>0, Reads DEF Constrains
<1>9. ASSUME NEW i \in 1 .. m PROVE remap_op(src.ops[i], n).kind # "AddConstraint"
  <2>1. i - 1 \in 0 .. m /\ i \in 0 .. m /\ e[i - 1] = i - 1 /\ e[i] = i
    BY <1>2
  <2>2. Explained(src.ops[i], e[i - 1], e[i], u, top) /\ src.ops[i] \in OpSet
    BY <1>0, Reads
  <2>3. src.ops[i].kind # "AddConstraint"
    BY <2>1, <2>2 DEF Explained
  <2> QED BY <2>2, <2>3, <1>0, Remap
<1> HIDE DEF n, L, m, pr, d, v
<1>10. ASSUME NEW i \in 1 .. L + m, pr[i].kind = "AddConstraint"
       PROVE  i - d[i - 1] \in 1 .. Len(a) /\ a[i - d[i - 1]] = v[pr[i].srcs[1]]
  <2>1. CASE i \in 1 .. L
    <3>1. i - 1 \in 0 .. L
      BY <2>1, <1>1
    <3>2. d[i - 1] = c[i - 1] /\ pr[i] = dst.ops[i]
      BY <3>1, <2>1, <1>4, <1>5
    <3>3. v[dst.ops[i].srcs[1]] = w[dst.ops[i].srcs[1]]
      BY <2>1, <3>2, <1>10, <1>8, <1>6
    <3> QED BY <2>1, <3>2, <3>3, <1>8, <1>10
  <2>2. CASE i \notin 1 .. L
    <3> DEFINE k == i - L
    <3>1. k \in 1 .. m /\ L + k = i
      BY <2>2, <1>1, <1>2
    <3> HIDE DEF k
    <3>2. pr[L + k] = remap_op(src.ops[k], n)
      BY <3>1, <1>4
    <3> QED BY <3>1, <3>2, <1>9, <1>10
  <2> QED BY <2>1, <2>2
<1>11. Len(a) = (L + m) - d[L + m]
  <2>1. m \in 0 .. m
    BY <1>2
  <2>2. d[L + m] = n + m
    BY <2>1, <1>5
  <2> QED BY <2>2, <1>0, <1>1, <1>2, <1>7
<1> QED BY <1>4, <1>10, <1>11 DEF Constrains, n, L, m, pr, d, v

\* The values of r in V2 are those in V, and values of q whose registers follow.
MergedValues(V2, V, r, q, n) ==
  \A y \in V2 : y.rec = r =>
    y \in V \/ \E x \in V : x.rec = q /\ y.val = x.val /\ y.reg = x.reg + n

\* A recorder that absorbs another knows the values of both.
LEMMA MergeSound ==
  ASSUME NEW dst \in RecorderSet, NEW src \in RecorderSet, NEW r, NEW q, NEW V,
         V \subseteq TracedSet, NEW top, NEW a,
         Sound(dst, r, V, top, a), Sound(src, q, V, top, a), ~src.is_main,
         Len(dst.ops) + Len(src.ops) < REG_MODULUS,
         NEW rec2, rec2.ops = MergedOps(dst, src),
         rec2.next_reg = dst.next_reg + src.next_reg, rec2.is_main = dst.is_main,
         NEW V2, MergedValues(V2, V, r, q, dst.next_reg)
  PROVE  Sound(rec2, r, V2, top, a)
<1> DEFINE n == dst.next_reg
           L == Len(dst.ops)
           m == Len(src.ops)
<1>1. PICK c, w : Witnessed(dst, r, V, top, a, c, w)
  BY DEF Sound
<1>2. PICK e, u : Witnessed(src, q, V, top, a, e, u)
  BY DEF Sound
<1> DEFINE d == CountedBoth(c, L, n, m)
           v == WorthBoth(w, n, u)
<1>3. /\ Account(dst.ops, n, c, w, top) /\ Account(src.ops, src.next_reg, e, u, top)
      /\ \A i \in 0 .. m : e[i] = i
  BY <1>1, <1>2 DEF Witnessed
<1>4. Account(MergedOps(dst, src), n + src.next_reg, d, v, top)
  BY <1>3, MergeAccount
<1>5. dst.is_main => Constrains(MergedOps(dst, src), d, v, a)
  BY <1>1, <1>3, MergeConstrains DEF Witnessed
<1>6. n \in Nat /\ w \in [Nat -> Value] /\ u \in [Nat -> Value] /\ c \in [0 .. L -> Nat] /\ L \in Nat
      /\ m \in Nat /\ c[L] = n
  <2>1. dst.ops \in Seq(OpSet) /\ src.ops \in Seq(OpSet)
    BY DEF RecorderSet
  <2> QED BY <2>1, <1>3, AccountFacts
<1>7. /\ \A j \in 0 .. n - 1 : v[j] = w[j]
      /\ \A j \in Nat : v[n + j] = u[j]
  <2>1. w \in [Nat -> Value] /\ u \in [Nat -> Value] /\ n \in Nat
    BY <1>6
  <2> HIDE DEF n
  <2> QED BY ONLY <2>1, WorthBothFacts
<1>8. src.next_reg \in Nat
  BY DEF RecorderSet
<1> HIDE DEF v
<1>9. Known(r, n + src.next_reg, V2, v)
  <2> SUFFICES ASSUME NEW y \in V2, y.rec = r
               PROVE  y.reg < n + src.next_reg /\ v[y.reg] = y.val
    BY DEF Known
  <2>0. y \in V \/ \E x \in V : x.rec = q /\ y.val = x.val /\ y.reg = x.reg + n
    BY DEF MergedValues
  <2>1. CASE y \in V
    <3>1. y.reg \in Nat /\ y.reg < n /\ w[y.reg] = y.val
      BY <2>1, <1>1 DEF Witnessed, Known, TracedSet
    <3> DEFINE j == y.reg
    <3>2. j \in 0 .. n - 1 /\ w[j] = y.val /\ j < n + src.next_reg
      BY <3>1, <1>6, <1>8
    <3>3. v[j] = w[j]
      BY <3>2, <1>7
    <3> QED BY <3>2, <3>3
  <2>2. CASE \E x \in V : x.rec = q /\ y.val = x.val /\ y.reg = x.reg + n
    <3>1. PICK x \in V : x.rec = q /\ y.val = x.val /\ y.reg = x.reg + n
      BY <2>2
    <3>2. x.reg \in Nat /\ x.reg < src.next_reg /\ u[x.reg] = x.val
      BY <3>1, <1>2 DEF Witnessed, Known, TracedSet
    <3> DEFINE j == x.reg
    <3>3. v[n + j] = u[j]
      BY <3>2, <1>7
    <3>4. y.reg = n + j
      BY <3>1, <3>2, <1>6
    <3>5. j \in Nat /\ j < src.next_reg /\ u[j] = y.val
      BY <3>1, <3>2
    <3> HIDE DEF j, n
    <3> QED BY <3>3, <3>4, <3>5, <1>6, <1>8
  <2> QED BY <2>0, <2>1, <2>2
<1>10. ~dst.is_main => \A i \in 0 .. L + m : d[i] = i
  <2> HAVE ~dst.is_main
  <2>1. \A i \in 0 .. L : c[i] = i
    BY <1>1 DEF Witnessed
  <2>2. n = L
    <3>1. L \in 0 .. L
      BY <1>6
    <3> HIDE DEF L, n
    <3> QED BY <3>1, <2>1, <1>6
  <2>3. /\ \A i \in 0 .. L : d[i] = c[i]
        /\ \A i \in 0 .. m : d[L + i] = n + i
    <3>1. L \in Nat /\ c \in [0 .. L -> Nat] /\ n \in Nat /\ c[L] = n /\ m \in Nat
      BY <1>6
    <3>2. CountsJoin(d, c, L, n, m)
      <4> HIDE DEF L, n, m
      <4> QED BY ONLY <3>1, CountedBothFacts
    <3> HIDE DEF d, L, n, m
    <3> QED BY <3>2 DEF CountsJoin
  <2>4. L \in Nat /\ m \in Nat
    BY <1>6
  <2> HIDE DEF L, n, m, d
  <2> TAKE i \in 0 .. L + m
  <2>5. CASE i \in 0 .. L
    BY <2>1, <2>3, <2>5
  <2>6. CASE i \notin 0 .. L
    <3>1. i - L \in 0 .. m /\ L + (i - L) = i
      BY <2>6, <2>4
    <3> QED BY <3>1, <2>2, <2>3
  <2> QED BY <2>5, <2>6
<1>11. Len(MergedOps(dst, src)) = L + m
  BY MergedFacts
<1> HIDE DEF d
<1>12. Witnessed(rec2, r, V2, top, a, d, v)
  BY <1>4, <1>5, <1>9, <1>10, <1>11 DEF Witnessed
<1> QED BY <1>12 DEF Sound

-----------------------------------------------------------------------------
\* All the recorders.

Fields(o, n, t, m) == [ops |-> o, next_reg |-> n, n_trace_accesses |-> t, is_main |-> m]

LEMMA FieldsFacts ==
  ASSUME NEW o, NEW n, NEW t, NEW m, NEW x
  PROVE  /\ Fields(o, n, t, m).ops = o /\ Fields(o, n, t, m).next_reg = n
         /\ Fields(o, n, t, m).n_trace_accesses = t /\ Fields(o, n, t, m).is_main = m
         /\ [Fields(o, n, t, m) EXCEPT !.ops = x] = Fields(x, n, t, m)
         /\ [Fields(o, n, t, m) EXCEPT !.next_reg = x] = Fields(o, x, t, m)
         /\ [Fields(o, n, t, m) EXCEPT !.n_trace_accesses = x] = Fields(o, n, x, m)
  BY DEF Fields

LEMMA FieldsOf ==
  ASSUME NEW rec \in RecorderSet
  PROVE  /\ rec = Fields(rec.ops, rec.next_reg, rec.n_trace_accesses, rec.is_main)
         /\ rec.ops \in Seq(OpSet) /\ rec.next_reg \in Nat /\ rec.n_trace_accesses \in Nat
         /\ rec.is_main \in BOOLEAN
  BY DEF Fields, RecorderSet

LEMMA FieldsType ==
  ASSUME NEW o \in Seq(OpSet), NEW n \in Nat, NEW t \in Nat, NEW m \in BOOLEAN
  PROVE  Fields(o, n, t, m) \in RecorderSet
  BY DEF Fields, RecorderSet

LEMMA Updated ==
  ASSUME NEW f, NEW L, DOMAIN f = 1 .. L, f = [i \in 1 .. L |-> f[i]], NEW r \in 1 .. L, NEW x
  PROVE  /\ [f EXCEPT ![r] = x] = [i \in 1 .. L |-> [f EXCEPT ![r] = x][i]]
         /\ DOMAIN [f EXCEPT ![r] = x] = 1 .. L
         /\ [f EXCEPT ![r] = x][r] = x
         /\ \A q \in 1 .. L : q # r => [f EXCEPT ![r] = x][q] = f[q]
  OBVIOUS

LEMMA EmittedFacts ==
  ASSUME NEW recs \in Seq(RecorderSet), NEW r \in 1 .. Len(recs),
         NEW kind \in AllKinds, NEW srcs \in Seq(Nat), NEW data \in Seq(Int)
  PROVE  /\ Emitted(recs, r, kind, srcs, data) \in Seq(RecorderSet)
         /\ Len(Emitted(recs, r, kind, srcs, data)) = Len(recs)
         /\ \A q \in 1 .. Len(recs) : q # r => Emitted(recs, r, kind, srcs, data)[q] = recs[q]
         /\ Op(kind, recs[r].next_reg, srcs, data) \in OpSet
         /\ Emitted(recs, r, kind, srcs, data)[r].ops
              = Append(recs[r].ops, Op(kind, recs[r].next_reg, srcs, data))
         /\ Emitted(recs, r, kind, srcs, data)[r].next_reg = (recs[r].next_reg + 1) % REG_MODULUS
         /\ Emitted(recs, r, kind, srcs, data)[r].is_main = recs[r].is_main
<1> DEFINE rec == recs[r]
           op == Op(kind, rec.next_reg, srcs, data)
           t == IF kind = "LoadTrace" THEN rec.n_trace_accesses + 1 ELSE rec.n_trace_accesses
           rec2 == Fields(Append(rec.ops, op), (rec.next_reg + 1) % REG_MODULUS, t, rec.is_main)
           E == Emitted(recs, r, kind, srcs, data)
<1>1. rec \in RecorderSet
  OBVIOUS
<1>2. /\ rec = Fields(rec.ops, rec.next_reg, rec.n_trace_accesses, rec.is_main)
      /\ rec.ops \in Seq(OpSet) /\ rec.next_reg \in Nat /\ rec.n_trace_accesses \in Nat
      /\ rec.is_main \in BOOLEAN
  BY <1>1, FieldsOf
<1>3. op \in OpSet
  BY <1>2 DEF Op, OpSet
<1>4. (rec.next_reg + 1) % REG_MODULUS \in Nat
  <2>1. rec.next_reg + 1 \in Int
    BY <1>2
  <2>2. (rec.next_reg + 1) % REG_MODULUS \in 0 .. REG_MODULUS - 1
    BY <2>1, Constants, ModRange
  <2> QED BY <2>2, Constants
<1>5. rec2 \in RecorderSet
  <2>1. Append(rec.ops, op) \in Seq(OpSet)
    BY <1>2, <1>3
  <2>2. t \in Nat
    BY <1>2
  <2> HIDE DEF t, op
  <2> QED BY <2>1, <2>2, <1>2, <1>4, FieldsType
<1> DEFINE L == Len(recs)
           e1 == [recs EXCEPT ![r].ops = Append(@, op)]
           e2 == [e1 EXCEPT ![r].next_reg = (@ + 1) % REG_MODULUS]
           e3 == [e2 EXCEPT ![r].n_trace_accesses = IF kind = "LoadTrace" THEN @ + 1 ELSE @]
           r1 == Fields(Append(rec.ops, op), rec.next_reg, rec.n_trace_accesses, rec.is_main)
           r2 == Fields(Append(rec.ops, op), (rec.next_reg + 1) % REG_MODULUS,
                        rec.n_trace_accesses, rec.is_main)
<1>6. E = e3
  BY DEF Emitted
<1>7. /\ e1 = [i \in 1 .. L |-> e1[i]] /\ DOMAIN e1 = 1 .. L /\ e1[r] = r1
      /\ \A q \in 1 .. L : q # r => e1[q] = recs[q]
  <2> DEFINE x == Append(rec.ops, op)
  <2>1. [rec EXCEPT !.ops = x] = r1
    <3> HIDE DEF rec, op, x
    <3>1. [Fields(rec.ops, rec.next_reg, rec.n_trace_accesses, rec.is_main) EXCEPT !.ops = x]
            = Fields(x, rec.next_reg, rec.n_trace_accesses, rec.is_main)
      BY FieldsFacts
    <3> QED BY <3>1, <1>2 DEF x
  <2>2. recs = [i \in 1 .. L |-> recs[i]] /\ DOMAIN recs = 1 .. L
    OBVIOUS
  <2>3. e1 = [recs EXCEPT ![r] = r1]
    BY <2>1
  <2> HIDE DEF r1, e1
  <2> QED BY <2>2, <2>3, Updated
<1>8. /\ e2 = [i \in 1 .. L |-> e2[i]] /\ DOMAIN e2 = 1 .. L /\ e2[r] = r2
      /\ \A q \in 1 .. L : q # r => e2[q] = recs[q]
  <2> DEFINE x == (rec.next_reg + 1) % REG_MODULUS
  <2>1. [r1 EXCEPT !.next_reg = x] = r2 /\ r1.next_reg = rec.next_reg
    <3> HIDE DEF rec, op, x
    <3> QED BY FieldsFacts DEF x
  <2>2. e2 = [e1 EXCEPT ![r] = [e1[r] EXCEPT !.next_reg = (e1[r].next_reg + 1) % REG_MODULUS]]
    OBVIOUS
  <2> HIDE DEF r1, r2, e1, e2
  <2>3. e2 = [e1 EXCEPT ![r] = r2]
    BY <2>1, <2>2, <1>7
  <2> QED BY <2>3, <1>7, Updated
<1>9. /\ e3 = [i \in 1 .. L |-> e3[i]] /\ DOMAIN e3 = 1 .. L /\ e3[r] = rec2
      /\ \A q \in 1 .. L : q # r => e3[q] = recs[q]
  <2>1. [r2 EXCEPT !.n_trace_accesses = t] = rec2 /\ r2.n_trace_accesses = rec.n_trace_accesses
    <3> HIDE DEF rec, op, t
    <3> QED BY FieldsFacts
  <2>2. e3 = [e2 EXCEPT ![r] = [e2[r] EXCEPT !.n_trace_accesses =
                IF kind = "LoadTrace" THEN e2[r].n_trace_accesses + 1 ELSE e2[r].n_trace_accesses]]
    OBVIOUS
  <2> HIDE DEF r2, rec2, e2, e3
  <2>3. e3 = [e2 EXCEPT ![r] = rec2]
    BY <2>1, <2>2, <1>8
  <2> QED BY <2>3, <1>8, Updated
<1> HIDE DEF e3, rec2, E
<1>10. E \in Seq(RecorderSet) /\ Len(E) = L /\ L \in Nat
  <2>1. \A q \in 1 .. L : e3[q] \in RecorderSet
    <3>1. \A q \in 1 .. L : recs[q] \in RecorderSet
      OBVIOUS
    <3> QED BY ONLY <1>5, <1>9, <3>1
  <2>2. L \in Nat
    OBVIOUS
  <2>3. E = [i \in 1 .. L |-> e3[i]]
    BY <1>6, <1>9
  <2> HIDE DEF L
  <2> QED BY ONLY <2>1, <2>2, <2>3
<1>11. /\ rec2.ops = Append(rec.ops, op) /\ rec2.next_reg = (rec.next_reg + 1) % REG_MODULUS
       /\ rec2.is_main = rec.is_main
  <2> HIDE DEF rec, op, t
  <2> QED BY DEF Fields, rec2
<1> QED BY <1>3, <1>6, <1>9, <1>10, <1>11 DEF E

\* What is known of fewer values, of more columns, is still known; and a
\* recorder without constraints does not care for those of the evaluator.
LEMMA SoundWeaker ==
  ASSUME NEW rec \in RecorderSet, NEW r, NEW V, NEW top \in [Interactions -> Nat], NEW a,
         Sound(rec, r, V, top, a),
         NEW V2, \A y \in V2 : y.rec = r => y \in V,
         NEW top2 \in [Interactions -> Nat], \A i \in Interactions : top[i] <= top2[i],
         NEW b, rec.is_main => b = a
  PROVE  Sound(rec, r, V2, top2, b)
<1>1. PICK c, w : Witnessed(rec, r, V, top, a, c, w)
  BY DEF Sound
<1>2. rec.ops \in Seq(OpSet) /\ Account(rec.ops, rec.next_reg, c, w, top)
  BY <1>1 DEF Witnessed, RecorderSet
<1>3. ASSUME NEW i \in 1 .. Len(rec.ops) PROVE Explained(rec.ops[i], c[i - 1], c[i], w, top2)
  <2> DEFINE op == rec.ops[i]
  <2>1. Explained(op, c[i - 1], c[i], w, top) /\ op \in OpSet
    BY <1>2, Reads
  <2> HIDE DEF op
  <2>2. WellFormed(op, top)
    BY <2>1 DEF Explained
  <2>3. WellFormed(op, top2)
    <3>1. CASE /\ op.kind = "LoadTrace" /\ Len(op.srcs) = 0 /\ Len(op.data) = 3
               /\ op.data[1] \in Interactions /\ op.data[2] \in 0 .. top[op.data[1]] - 1
      <4>1. top[op.data[1]] \in Nat /\ top2[op.data[1]] \in Nat /\ top[op.data[1]] <= top2[op.data[1]]
        BY <3>1
      <4>2. op.data[2] \in 0 .. top2[op.data[1]] - 1
        BY <4>1, <3>1
      <4> QED BY <3>1, <4>2 DEF WellFormed
    <3> QED BY <3>1, <2>2 DEF WellFormed
  <2> QED BY <2>1, <2>3 DEF Explained, op
<1>4. Account(rec.ops, rec.next_reg, c, w, top2)
  BY <1>2, <1>3 DEF Account
<1>5. Known(r, rec.next_reg, V2, w)
  BY <1>1 DEF Witnessed, Known
<1>6. Witnessed(rec, r, V2, top2, b, c, w)
  BY <1>1, <1>4, <1>5 DEF Witnessed
<1> QED BY <1>6 DEF Sound

LEMMA StateWeaker ==
  ASSUME NEW recs, NEW V, NEW top, NEW a, State(recs, V, top, a),
         NEW V2, V2 \subseteq V,
         NEW top2 \in [Interactions -> Nat], \A i \in Interactions : top[i] <= top2[i]
  PROVE  State(recs, V2, top2, a)
<1>1. Typed(recs, V, top, a) /\ Typed(recs, V2, top2, a)
  BY DEF State, Typed
<1>2. ASSUME NEW r \in 1 .. Len(recs), Fits(recs[r]) PROVE Sound(recs[r], r, V2, top2, a)
  <2>1. Sound(recs[r], r, V, top, a)
    BY <1>2 DEF State
  <2>2. recs[r] \in RecorderSet /\ top \in [Interactions -> Nat]
    BY <1>1 DEF Typed
  <2>3. \A y \in V2 : y.rec = r => y \in V
    OBVIOUS
  <2> QED BY <2>1, <2>2, <2>3, SoundWeaker
<1> QED BY <1>1, <1>2 DEF State

LEMMA FewerKnown ==
  ASSUME NEW recs, NEW V, NEW top, NEW a, State(recs, V, top, a), NEW V2, V2 \subseteq V
  PROVE  State(recs, V2, top, a)
<1>1. top \in [Interactions -> Nat]
  BY DEF State, Typed
<1>2. \A i \in Interactions : top[i] <= top[i]
  BY <1>1
<1> QED BY <1>1, <1>2, StateWeaker

\* An operator's result: the recorders know it beside what they knew.
Yields(res, V, top, a, rec, wide, val) ==
  /\ State(res.recs, V \cup {res.out}, top, a)
  /\ res.out \in TracedSet
  /\ res.out.rec = rec /\ res.out.wide = wide /\ res.out.val = val

LEMMA Emits ==
  ASSUME NEW recs, NEW V, NEW top, NEW a, State(recs, V, top, a),
         NEW r \in 1 .. Len(recs),
         NEW kind \in AllKinds, NEW srcs \in Seq(Nat), NEW data \in Seq(Int),
         kind # "AddConstraint", WellFormed(Op(kind, recs[r].next_reg, srcs, data), top),
         NEW vs, Reading(srcs, vs, V, r),
         NEW wide \in BOOLEAN, NEW val \in Value,
         val = Meaning(kind, Vals(srcs, vs), data)
  PROVE  Yields(Result(Emitted(recs, r, kind, srcs, data), r, wide, val), V, top, a, r, wide, val)
<1> DEFINE E == Emitted(recs, r, kind, srcs, data)
           rec == recs[r]
           op == Op(kind, rec.next_reg, srcs, data)
           x == Traced(r, (E[r].next_reg - 1) % REG_MODULUS, wide, val)
           res == Result(E, r, wide, val)
<1>1. Typed(recs, V, top, a) /\ recs \in Seq(RecorderSet) /\ V \subseteq TracedSet
  BY DEF State, Typed
<1>2. rec \in RecorderSet /\ rec.ops \in Seq(OpSet) /\ rec.next_reg \in Nat /\ r \in Nat
  <2>1. rec \in RecorderSet
    BY <1>1
  <2> HIDE DEF rec
  <2> QED BY <2>1 DEF RecorderSet
<1>3. /\ E \in Seq(RecorderSet) /\ Len(E) = Len(recs)
      /\ \A q \in 1 .. Len(recs) : q # r => E[q] = recs[q]
      /\ op \in OpSet
      /\ E[r].ops = Append(rec.ops, op)
      /\ E[r].next_reg = (rec.next_reg + 1) % REG_MODULUS
      /\ E[r].is_main = rec.is_main
  BY <1>1, EmittedFacts
<1>4. res.recs = E /\ res.out = x
  BY DEF Result
<1> HIDE DEF E, res
<1>5. E[r].next_reg \in Nat /\ (E[r].next_reg - 1) % REG_MODULUS \in Nat
  <2>1. E[r] \in RecorderSet
    BY <1>3
  <2>2. E[r].next_reg \in Nat
    BY <2>1 DEF RecorderSet
  <2>3. E[r].next_reg - 1 \in Int
    BY <2>2
  <2>4. (E[r].next_reg - 1) % REG_MODULUS \in 0 .. REG_MODULUS - 1
    BY <2>3, Constants, ModRange
  <2> QED BY <2>2, <2>4, Constants
<1>6. x \in TracedSet /\ x.rec = r /\ x.wide = wide /\ x.val = val
      /\ x.reg = (E[r].next_reg - 1) % REG_MODULUS
  BY <1>2, <1>5 DEF Traced, TracedSet
<1> HIDE DEF x
<1>7. Typed(E, V \cup {x}, top, a)
  <2>1. \A q \in 1 .. Len(recs) : E[q].is_main <=> q = 1
    BY <1>1, <1>3 DEF Typed
  <2> HIDE DEF rec, op
  <2> QED BY <2>1, <1>1, <1>3, <1>6 DEF Typed
<1>8. ASSUME NEW q \in 1 .. Len(E), Fits(E[q]) PROVE Sound(E[q], q, V \cup {x}, top, a)
  <2>1. CASE q # r
    <3>1. q \in 1 .. Len(recs) /\ E[q] = recs[q]
      BY <2>1, <1>3
    <3>2. Sound(recs[q], q, V, top, a)
      BY <3>1, <1>8 DEF State
    <3>3. recs[q] \in RecorderSet /\ top \in [Interactions -> Nat]
      BY <3>1, <1>1 DEF Typed
    <3>4. \A y \in V \cup {x} : y.rec = q => y \in V
      BY <1>6, <2>1
    <3>5. \A i \in Interactions : top[i] <= top[i]
      BY <3>3
    <3> HIDE DEF rec, op
    <3>6. Sound(recs[q], q, V \cup {x}, top, a)
      BY ONLY <3>2, <3>3, <3>4, <3>5, SoundWeaker
    <3> QED BY <3>1, <3>6
  <2>2. CASE q = r
    <3>1. Len(rec.ops) \in Nat /\ Len(E[r].ops) = Len(rec.ops) + 1
      BY <1>2, <1>3
    <3>2. Len(rec.ops) + 1 < REG_MODULUS
      BY <2>2, <1>8, <3>1 DEF Fits
    <3>3. Sound(rec, r, V, top, a)
      <4>1. Fits(rec)
        BY <3>1, <3>2, Constants DEF Fits
      <4> QED BY <4>1 DEF State
    <3>4. rec.next_reg \in Nat /\ rec.next_reg <= Len(rec.ops)
      BY <1>2, <3>3, SoundSize
    <3> DEFINE n == rec.next_reg
    <3>5. n + 1 \in Nat /\ n + 1 < REG_MODULUS /\ n \in Nat /\ n < REG_MODULUS /\ REG_MODULUS \in Nat
      <4>1. n \in Nat /\ n <= Len(rec.ops)
        BY <3>4
      <4> HIDE DEF n, rec
      <4> QED BY <3>1, <3>2, <4>1, Constants
    <3>6. E[r].next_reg = n + 1
      <4>1. (n + 1) % REG_MODULUS = n + 1
        BY <3>5, SmallMod
      <4> QED BY <4>1, <1>3
    <3>7. x.reg = n
      <4>1. (n + 1) - 1 = n
        BY <3>5
      <4>2. n % REG_MODULUS = n
        BY <3>5, SmallMod
      <4> QED BY <4>1, <4>2, <3>6, <1>6
    <3>8. op.kind = kind /\ op.srcs = srcs /\ op.data = data /\ op.dst = n
      BY DEF Op
    <3>9. WellFormed(op, top)
      OBVIOUS
    <3>10. /\ Reading(op.srcs, vs, V, r)
           /\ x.val = Meaning(op.kind, Vals(op.srcs, vs), op.data)
      BY <3>8, <1>6
    <3>11. op.kind # "AddConstraint"
      BY <3>8
    <3> HIDE DEF op, rec
    <3>12. Sound(E[r], r, V \cup {x}, top, a)
      BY ONLY <1>1, <1>2, <1>3, <1>6, <3>3, <3>6, <3>7, <3>8, <3>9, <3>10, <3>11, EmitSound DEF n
    <3> QED BY <3>12, <2>2
  <2> QED BY <2>1, <2>2
<1>9. State(E, V \cup {x}, top, a)
  BY <1>7, <1>8 DEF State
<1> QED BY <1>4, <1>6, <1>9 DEF Yields, res, E

\* A recorder with nothing in it.
LEMMA EmptySound ==
  ASSUME NEW m \in BOOLEAN, NEW r, NEW V, \A x \in V : x.rec # r, NEW top
  PROVE  Sound(RecorderInner(m), r, V, top, <<>>)
<1> DEFINE rec == RecorderInner(m)
           c == [i \in 0 .. 0 |-> 0]
           w == [j \in Nat |-> [k \in 1 .. 4 |-> 0]]
<1>1. rec.ops = <<>> /\ rec.next_reg = 0 /\ Len(rec.ops) = 0
  BY DEF RecorderInner
<1>2. w \in [Nat -> Value]
  BY DEF Value
<1>3. c \in [0 .. 0 -> Nat] /\ c[0] = 0
  OBVIOUS
<1> HIDE DEF rec, c, w
<1>4. Account(rec.ops, rec.next_reg, c, w, top)
  BY <1>1, <1>2, <1>3 DEF Account
<1>5. Known(r, rec.next_reg, V, w)
  BY DEF Known
<1>6. Constrains(rec.ops, c, w, <<>>)
  BY <1>1, <1>3 DEF Constrains
<1>7. \A i \in 0 .. Len(rec.ops) : c[i] = i
  BY <1>1, <1>3
<1>8. Witnessed(rec, r, V, top, <<>>, c, w)
  BY <1>4, <1>5, <1>6, <1>7 DEF Witnessed
<1> QED BY <1>8 DEF Sound, rec

LEMMA NewRecorder ==
  ASSUME NEW recs, NEW V, NEW top, NEW a, State(recs, V, top, a)
  PROVE  /\ State(Append(recs, RecorderInner(FALSE)), V, top, a)
         /\ Len(Append(recs, RecorderInner(FALSE))) = Len(recs) + 1 /\ Len(recs) \in Nat
         /\ Append(recs, RecorderInner(FALSE))[Len(recs) + 1] = RecorderInner(FALSE)
<1> DEFINE rec == RecorderInner(FALSE)
           L == Len(recs)
           E == Append(recs, rec)
<1>1. Typed(recs, V, top, a) /\ recs \in Seq(RecorderSet) /\ L \in Nat /\ L >= 1
      /\ top \in [Interactions -> Nat]
  BY DEF State, Typed
<1>2. rec \in RecorderSet /\ ~rec.is_main
  BY DEF RecorderInner, RecorderSet
<1> HIDE DEF rec
<1>3. /\ E \in Seq(RecorderSet) /\ Len(E) = L + 1 /\ E[L + 1] = rec
      /\ \A q \in 1 .. L : E[q] = recs[q]
  BY <1>1, <1>2
<1> HIDE DEF E, L
<1>4. Typed(E, V, top, a)
  <2>1. \A q \in 1 .. L : recs[q].is_main <=> q = 1
    BY <1>1 DEF Typed, L
  <2>2. \A q \in 1 .. L + 1 : E[q].is_main <=> q = 1
    <3> TAKE q \in 1 .. L + 1
    <3>1. CASE q \in 1 .. L
      BY <3>1, <2>1, <1>3
    <3>2. CASE q = L + 1
      BY <3>2, <1>1, <1>2, <1>3
    <3> QED BY <3>1, <3>2, <1>1
  <2>3. \A x \in V : x.rec \in 1 .. L + 1
    <3>1. \A x \in V : x.rec \in 1 .. L
      BY <1>1 DEF Typed, L
    <3> QED BY <3>1, <1>1
  <2> QED BY <2>2, <2>3, <1>1, <1>3 DEF Typed
<1>5. ASSUME NEW q \in 1 .. L + 1, Fits(E[q]) PROVE Sound(E[q], q, V, top, a)
  <2>0. \A i \in Interactions : top[i] <= top[i]
    BY <1>1
  <2>1. CASE q \in 1 .. L
    <3>1. E[q] = recs[q]
      BY <2>1, <1>3
    <3> QED BY <3>1, <2>1, <1>5 DEF State, L
  <2>2. CASE q = L + 1
    <3>1. \A x \in V : x.rec # q
      <4>1. \A x \in V : x.rec \in 1 .. L
        BY <1>1 DEF Typed, L
      <4> QED BY <4>1, <2>2, <1>1
    <3>2. Sound(rec, q, V, top, <<>>)
      BY <3>1, EmptySound DEF rec
    <3>3. Sound(rec, q, V, top, a)
      <4>1. \A y \in V : y.rec = q => y \in V
        OBVIOUS
      <4> QED BY <4>1, <3>2, <1>1, <1>2, <2>0, SoundWeaker
    <3> QED BY <3>3, <2>2, <1>3
  <2> QED BY <2>1, <2>2, <1>1
<1> QED BY <1>1, <1>3, <1>4, <1>5 DEF State, E, L, rec

\* merge_into, when there is something to merge.
LEMMA MergeFacts ==
  ASSUME NEW recs \in Seq(RecorderSet), NEW r \in 1 .. Len(recs), NEW s \in 1 .. Len(recs),
         recs[s].ops # <<>>
  PROVE  /\ merge_into(recs, r, s) \in Seq(RecorderSet)
         /\ Len(merge_into(recs, r, s)) = Len(recs)
         /\ \A q \in 1 .. Len(recs) : q # r => merge_into(recs, r, s)[q] = recs[q]
         /\ merge_into(recs, r, s)[r].ops = MergedOps(recs[r], recs[s])
         /\ merge_into(recs, r, s)[r].next_reg
              = (recs[r].next_reg + recs[s].next_reg) % REG_MODULUS
         /\ merge_into(recs, r, s)[r].is_main = recs[r].is_main
<1> DEFINE rec == recs[r]
           src == recs[s]
           ops == MergedOps(rec, src)
           y == (rec.next_reg + src.next_reg) % REG_MODULUS
           t == rec.n_trace_accesses + src.n_trace_accesses
           rec2 == Fields(ops, y, t, rec.is_main)
           E == merge_into(recs, r, s)
<1>1. rec \in RecorderSet /\ src \in RecorderSet
  OBVIOUS
<1>2. /\ rec = Fields(rec.ops, rec.next_reg, rec.n_trace_accesses, rec.is_main)
      /\ rec.ops \in Seq(OpSet) /\ rec.next_reg \in Nat /\ rec.n_trace_accesses \in Nat
      /\ rec.is_main \in BOOLEAN
      /\ src.next_reg \in Nat /\ src.n_trace_accesses \in Nat
  BY <1>1, FieldsOf
<1>4. y \in Nat
  <2>1. rec.next_reg + src.next_reg \in Int
    BY <1>2
  <2>2. y \in 0 .. REG_MODULUS - 1
    BY <2>1, Constants, ModRange
  <2> QED BY <2>2, Constants
<1>5. rec2 \in RecorderSet
  <2>1. ops \in Seq(OpSet)
    <3> HIDE DEF rec, src
    <3> QED BY <1>1, MergedFacts
  <2>2. t \in Nat
    BY <1>2
  <2> HIDE DEF t, ops, y
  <2> QED BY <2>1, <2>2, <1>2, <1>4, FieldsType
<1> DEFINE L == Len(recs)
           x == [k \in DOMAIN src.ops |-> remap_op(src.ops[k], rec.next_reg)]
           e1 == [recs EXCEPT ![r].ops = @ \o x]
           e2 == [e1 EXCEPT ![r].next_reg = (@ + src.next_reg) % REG_MODULUS]
           e3 == [e2 EXCEPT ![r].n_trace_accesses = @ + src.n_trace_accesses]
           r1 == Fields(ops, rec.next_reg, rec.n_trace_accesses, rec.is_main)
           r2 == Fields(ops, y, rec.n_trace_accesses, rec.is_main)
<1>6. E = e3
  BY DEF merge_into
<1>7. /\ e1 = [i \in 1 .. L |-> e1[i]] /\ DOMAIN e1 = 1 .. L /\ e1[r] = r1
      /\ \A q \in 1 .. L : q # r => e1[q] = recs[q]
  <2>0. rec.ops \o x = ops
    BY DEF MergedOps, Absorbed
  <2>1. [rec EXCEPT !.ops = ops] = r1
    <3> HIDE DEF rec, ops
    <3>1. [Fields(rec.ops, rec.next_reg, rec.n_trace_accesses, rec.is_main) EXCEPT !.ops = ops]
            = Fields(ops, rec.next_reg, rec.n_trace_accesses, rec.is_main)
      BY FieldsFacts
    <3> QED BY <3>1, <1>2
  <2>2. recs = [i \in 1 .. L |-> recs[i]] /\ DOMAIN recs = 1 .. L
    OBVIOUS
  <2> HIDE DEF x, ops
  <2>3. e1 = [recs EXCEPT ![r] = r1]
    BY <2>0, <2>1
  <2> HIDE DEF r1, e1
  <2> QED BY <2>2, <2>3, Updated
<1>8. /\ e2 = [i \in 1 .. L |-> e2[i]] /\ DOMAIN e2 = 1 .. L /\ e2[r] = r2
      /\ \A q \in 1 .. L : q # r => e2[q] = recs[q]
  <2>1. [r1 EXCEPT !.next_reg = y] = r2 /\ r1.next_reg = rec.next_reg
    <3> HIDE DEF rec, ops, y
    <3> QED BY FieldsFacts
  <2>2. e2 = [e1 EXCEPT ![r] = [e1[r] EXCEPT !.next_reg =
                                  (e1[r].next_reg + src.next_reg) % REG_MODULUS]]
    OBVIOUS
  <2> HIDE DEF r1, r2, e1, e2
  <2>3. e2 = [e1 EXCEPT ![r] = r2]
    BY <2>1, <2>2, <1>7
  <2> QED BY <2>3, <1>7, Updated
<1>9. /\ e3 = [i \in 1 .. L |-> e3[i]] /\ DOMAIN e3 = 1 .. L /\ e3[r] = rec2
      /\ \A q \in 1 .. L : q # r => e3[q] = recs[q]
  <2>1. [r2 EXCEPT !.n_trace_accesses = t] = rec2 /\ r2.n_trace_accesses = rec.n_trace_accesses
    <3> HIDE DEF rec, ops, t, y
    <3> QED BY FieldsFacts
  <2>2. e3 = [e2 EXCEPT ![r] = [e2[r] EXCEPT !.n_trace_accesses =
                e2[r].n_trace_accesses + src.n_trace_accesses]]
    OBVIOUS
  <2> HIDE DEF r2, rec2, e2, e3
  <2>3. e3 = [e2 EXCEPT ![r] = rec2]
    BY <2>1, <2>2, <1>8
  <2> QED BY <2>3, <1>8, Updated
<1> HIDE DEF e3, rec2, E
<1>10. E \in Seq(RecorderSet) /\ Len(E) = L /\ L \in Nat
  <2>1. \A q \in 1 .. L : e3[q] \in RecorderSet
    <3>1. \A q \in 1 .. L : recs[q] \in RecorderSet
      OBVIOUS
    <3> QED BY ONLY <1>5, <1>9, <3>1
  <2>2. L \in Nat
    OBVIOUS
  <2>3. E = [i \in 1 .. L |-> e3[i]]
    BY <1>6, <1>9
  <2> HIDE DEF L
  <2> QED BY ONLY <2>1, <2>2, <2>3
<1>11. rec2.ops = ops /\ rec2.next_reg = y /\ rec2.is_main = rec.is_main
  <2> HIDE DEF rec, ops, t, y
  <2> QED BY DEF Fields, rec2
<1> QED BY <1>6, <1>9, <1>10, <1>11 DEF E

\* Where a value of a recorder absorbed by k is found.
MovedReg(recs, merged, k, x) ==
  (x.reg + merged[k].next_reg - recs[x.rec].next_reg) % REG_MODULUS

LEMMA Absorbs ==
  ASSUME NEW recs, NEW V, NEW top, NEW a, State(recs, V, top, a),
         NEW k \in 1 .. Len(recs), NEW x \in V, x.rec # k, x.rec # 1
  PROVE  LET merged == merge_into(recs, k, x.rec)
         IN  /\ State(merged, V \cup {Traced(k, MovedReg(recs, merged, k, x), x.wide, x.val)}, top, a)
             /\ Len(merged) = Len(recs)
             /\ merged[x.rec] = recs[x.rec]
<1> DEFINE s == x.rec
           E == merge_into(recs, k, s)
           dst == recs[k]
           src == recs[s]
           y == Traced(k, MovedReg(recs, E, k, x), x.wide, x.val)
           W == V \cup {y}
<1>1. Typed(recs, V, top, a) /\ recs \in Seq(RecorderSet) /\ V \subseteq TracedSet
      /\ s \in 1 .. Len(recs) /\ top \in [Interactions -> Nat]
  BY DEF State, Typed
<1>2. dst \in RecorderSet /\ src \in RecorderSet
  BY <1>1
<1>2a. /\ dst.ops \in Seq(OpSet) /\ src.ops \in Seq(OpSet)
       /\ dst.next_reg \in Nat /\ src.next_reg \in Nat /\ k \in Nat
  <2> HIDE DEF dst, src
  <2> QED BY <1>2 DEF RecorderSet
<1>3. ~src.is_main
  BY <1>1 DEF Typed
<1>4. x.reg \in Nat /\ x.wide \in BOOLEAN /\ x.val \in Value
  BY <1>1 DEF TracedSet
<1>5. src.ops # <<>>
  <2> SUFFICES ASSUME src.ops = <<>> PROVE FALSE
    OBVIOUS
  <2>1. Len(src.ops) = 0
    OBVIOUS
  <2>2. Fits(src)
    BY <2>1, Constants DEF Fits
  <2>3. Sound(src, s, V, top, a)
    BY <2>2, <1>1 DEF State
  <2>4. src.next_reg <= 0
    BY <2>1, <2>3, <1>2, SoundSize
  <2>5. x.reg < src.next_reg
    BY <2>3 DEF Sound, Witnessed, Known
  <2> HIDE DEF src
  <2> QED BY <2>4, <2>5, <1>2a, <1>4
<1>6. /\ E \in Seq(RecorderSet) /\ Len(E) = Len(recs)
      /\ \A q \in 1 .. Len(recs) : q # k => E[q] = recs[q]
      /\ E[k].ops = MergedOps(dst, src)
      /\ E[k].next_reg = (dst.next_reg + src.next_reg) % REG_MODULUS
      /\ E[k].is_main = dst.is_main
  BY <1>1, <1>5, MergeFacts
<1> HIDE DEF E
<1>7. E[k] \in RecorderSet /\ E[k].next_reg \in Nat
  <2>1. E[k] \in RecorderSet
    BY <1>6
  <2> QED BY <2>1 DEF RecorderSet
<1>8. MovedReg(recs, E, k, x) \in Nat
  <2>1. x.reg + E[k].next_reg - src.next_reg \in Int
    <3> HIDE DEF src
    <3> QED BY <1>2a, <1>4, <1>7
  <2>2. MovedReg(recs, E, k, x) \in 0 .. REG_MODULUS - 1
    BY <2>1, Constants, ModRange DEF MovedReg
  <2> QED BY <2>2, Constants
<1>9. /\ y \in TracedSet /\ y.rec = k /\ y.val = x.val /\ y.reg = MovedReg(recs, E, k, x)
  BY <1>2a, <1>4, <1>8 DEF Traced, TracedSet
<1> HIDE DEF y
<1>10. Typed(E, W, top, a)
  <2>1. \A q \in 1 .. Len(recs) : E[q].is_main <=> q = 1
    BY <1>1, <1>6 DEF Typed
  <2> HIDE DEF dst, src
  <2> QED BY <2>1, <1>1, <1>6, <1>9 DEF Typed
<1>11. ASSUME NEW q \in 1 .. Len(E), Fits(E[q]) PROVE Sound(E[q], q, W, top, a)
  <2>1. CASE q # k
    <3>1. q \in 1 .. Len(recs) /\ E[q] = recs[q]
      BY <2>1, <1>6
    <3>2. Sound(recs[q], q, V, top, a)
      BY <3>1, <1>11 DEF State
    <3>3. recs[q] \in RecorderSet
      BY <3>1, <1>1
    <3>4. \A z \in W : z.rec = q => z \in V
      BY <1>9, <2>1
    <3>5. \A i \in Interactions : top[i] <= top[i]
      BY <1>1
    <3> HIDE DEF W, dst, src
    <3>6. Sound(recs[q], q, W, top, a)
      BY <1>1, <3>2, <3>3, <3>4, <3>5, SoundWeaker
    <3> QED BY <3>1, <3>6
  <2>2. CASE q = k
    <3>1. /\ Len(dst.ops) \in Nat /\ Len(src.ops) \in Nat
          /\ Len(E[k].ops) = Len(dst.ops) + Len(src.ops)
      <4> HIDE DEF dst, src
      <4> QED BY <1>2, <1>6, MergedFacts
    <3>2. Len(dst.ops) + Len(src.ops) < REG_MODULUS
      BY <2>2, <1>11, <3>1 DEF Fits
    <3>3. Fits(dst) /\ Fits(src)
      <4>1. REG_MODULUS \in Nat
        BY Constants
      <4> DEFINE L1 == Len(dst.ops)
                 L2 == Len(src.ops)
      <4>2. L1 \in Nat /\ L2 \in Nat /\ L1 + L2 < REG_MODULUS
        BY <3>1, <3>2
      <4> HIDE DEF dst, src, L1, L2
      <4>3. L1 < REG_MODULUS /\ L2 < REG_MODULUS
        BY ONLY <4>1, <4>2
      <4> QED BY <4>3 DEF Fits, L1, L2
    <3>4. Sound(dst, k, V, top, a) /\ Sound(src, s, V, top, a)
      BY <3>3, <1>1 DEF State
    <3>5. dst.next_reg <= Len(dst.ops) /\ src.next_reg <= Len(src.ops)
      BY <1>2, <3>4, SoundSize
    <3> DEFINE n == dst.next_reg
               m == src.next_reg
    <3>6. n \in Nat /\ m \in Nat /\ n + m \in Nat /\ n + m < REG_MODULUS /\ REG_MODULUS \in Nat
      <4>1. n <= Len(dst.ops) /\ m <= Len(src.ops) /\ n \in Nat /\ m \in Nat
        BY <3>5, <1>2a
      <4>2. REG_MODULUS \in Nat
        BY Constants
      <4> DEFINE L1 == Len(dst.ops)
                 L2 == Len(src.ops)
      <4>3. L1 \in Nat /\ L2 \in Nat /\ L1 + L2 < REG_MODULUS /\ n <= L1 /\ m <= L2
        BY <3>1, <3>2, <4>1
      <4> HIDE DEF n, m, dst, src, L1, L2
      <4> QED BY ONLY <4>1, <4>2, <4>3
    <3>7. E[k].next_reg = n + m
      <4>1. (n + m) % REG_MODULUS = n + m
        BY <3>6, SmallMod
      <4> QED BY <4>1, <1>6
    <3>8. x.reg < m
      BY <3>4 DEF Sound, Witnessed, Known
    <3>9. y.reg = x.reg + n
      <4> DEFINE j == x.reg
      <4>1. y.reg = (j + (n + m) - m) % REG_MODULUS
        BY <3>7, <1>9 DEF MovedReg
      <4>2. j \in Nat /\ j < m
        BY <3>8, <1>4
      <4> HIDE DEF j, n, m
      <4>3. j + (n + m) - m = j + n /\ j + n \in Nat /\ j + n < REG_MODULUS
        BY <4>2, <3>6
      <4>4. (j + n) % REG_MODULUS = j + n
        BY <4>3, <3>6, SmallMod
      <4> QED BY <4>1, <4>3, <4>4 DEF j
    <3>10. MergedValues(W, V, k, s, dst.next_reg)
      BY <3>9, <1>9 DEF MergedValues
    <3>11. E[k].next_reg = dst.next_reg + src.next_reg
      BY <3>7
    <3> HIDE DEF W, dst, src, s
    <3>12. Sound(E[k], k, W, top, a)
      BY ONLY <1>1, <1>2, <1>3, <1>6, <3>2, <3>4, <3>10, <3>11, MergeSound
    <3> QED BY <3>12, <2>2
  <2> QED BY <2>1, <2>2
<1>12. State(E, W, top, a)
  BY <1>10, <1>11 DEF State
<1>13. E[s] = recs[s]
  BY <1>1, <1>6
<1> QED BY <1>6, <1>12, <1>13 DEF E, y

\* Where a value is once the recorder k has absorbed its own, or is its own.
Moved(recs, merged, k, v) ==
  Traced(k, IF v.rec = k THEN v.reg ELSE MovedReg(recs, merged, k, v), v.wide, v.val)

LEMMA MovedFacts ==
  ASSUME NEW recs, NEW merged, NEW k, NEW v \in TracedSet
  PROVE  /\ Moved(recs, merged, k, v).rec = k /\ Moved(recs, merged, k, v).val = v.val
         /\ v.rec = k => Moved(recs, merged, k, v) = v
         /\ v.rec # k => Moved(recs, merged, k, v).reg = MovedReg(recs, merged, k, v)
         /\ v.rec # k => Moved(recs, merged, k, v)
                           = Traced(k, MovedReg(recs, merged, k, v), v.wide, v.val)
  BY DEF Moved, Traced, TracedSet

\* The recorders of two values meet.
Meets(recs, x, y, V, top, a) ==
  LET merged == merge_recorders(recs, x.rec, y.rec)
      k == Kept(recs, x.rec, y.rec)
      u == Moved(recs, merged, k, x)
      v == Moved(recs, merged, k, y)
  IN /\ State(merged, V \cup {u, v}, top, a)
     /\ resolve_regs_after_merge(recs, merged, x, y) = <<u.reg, v.reg>>
     /\ k \in 1 .. Len(merged)

LEMMA Merges ==
  ASSUME NEW recs, NEW V, NEW top, NEW a, State(recs, V, top, a), NEW x \in V, NEW y \in V
  PROVE  Meets(recs, x, y, V, top, a)
<1> DEFINE merged == merge_recorders(recs, x.rec, y.rec)
           k == Kept(recs, x.rec, y.rec)
           u == Moved(recs, merged, k, x)
           v == Moved(recs, merged, k, y)
<1>1. /\ x \in TracedSet /\ y \in TracedSet
      /\ x.rec \in 1 .. Len(recs) /\ y.rec \in 1 .. Len(recs)
      /\ recs[x.rec].is_main <=> x.rec = 1
      /\ recs[y.rec].is_main <=> y.rec = 1
  BY DEF State, Typed
<1>2. k = x.rec \/ k = y.rec
  BY DEF Kept
<1>3. CASE x.rec = y.rec
  <2>1. merged = recs /\ k = x.rec
    BY <1>3, <1>2 DEF merge_recorders
  <2>2. u = x /\ v = y
    BY <2>1, <1>3, <1>1, MovedFacts
  <2>3. V \cup {u, v} = V
    BY <2>2
  <2>4. resolve_regs_after_merge(recs, merged, x, y) = <<x.reg, y.reg>>
    BY <1>3 DEF resolve_regs_after_merge
  <2>5. Meets(recs, x, y, V, top, a) <=>
          /\ State(merged, V \cup {u, v}, top, a)
          /\ resolve_regs_after_merge(recs, merged, x, y) = <<u.reg, v.reg>>
          /\ k \in 1 .. Len(merged)
    BY DEF Meets
  <2> HIDE DEF merged, u, v, k
  <2> QED BY <2>1, <2>2, <2>3, <2>4, <2>5, <1>1
<1>4. ASSUME NEW z \in V, NEW t \in V, z.rec # t.rec, k = t.rec, z.rec # 1,
             merged = merge_into(recs, k, z.rec), {x, y} = {z, t}
      PROVE  Meets(recs, x, y, V, top, a)
  <2>0. z \in TracedSet /\ t \in TracedSet /\ z.rec # k /\ k \in 1 .. Len(recs)
    BY <1>1, <1>4
  <2> DEFINE s == Traced(k, MovedReg(recs, merged, k, z), z.wide, z.val)
  <2>1. State(merged, V \cup {s}, top, a) /\ Len(merged) = Len(recs)
    <3>1. merged = merge_into(recs, k, z.rec) /\ z.rec # 1
      BY <1>4
    <3> HIDE DEF merged, k
    <3>2. /\ State(merge_into(recs, k, z.rec),
                   V \cup {Traced(k, MovedReg(recs, merge_into(recs, k, z.rec), k, z), z.wide, z.val)},
                   top, a)
          /\ Len(merge_into(recs, k, z.rec)) = Len(recs)
      BY <2>0, <3>1, Absorbs
    <3> QED BY <3>1, <3>2
  <2>2. Moved(recs, merged, k, z) = s /\ Moved(recs, merged, k, t) = t
    BY <2>0, <1>4, MovedFacts
  <2>3. V \cup {u, v} = V \cup {s}
    BY <2>2, <1>4
  <2>4. resolve_regs_after_merge(recs, merged, x, y) = <<u.reg, v.reg>>
    <3>1. x.rec # y.rec
      BY <1>4
    <3> QED BY <3>1, <1>1 DEF resolve_regs_after_merge, Moved, MovedReg, Traced
  <2>5. Meets(recs, x, y, V, top, a) <=>
          /\ State(merged, V \cup {u, v}, top, a)
          /\ resolve_regs_after_merge(recs, merged, x, y) = <<u.reg, v.reg>>
          /\ k \in 1 .. Len(merged)
    BY DEF Meets
  <2> HIDE DEF merged, u, v, k, s
  <2> QED BY <2>0, <2>1, <2>3, <2>4, <2>5
<1>5. CASE x.rec # y.rec /\ k = x.rec
  <2>1. y.rec # 1
    BY <1>5, <1>1 DEF Kept
  <2>2. merged = merge_into(recs, k, y.rec)
    BY <1>5 DEF merge_recorders
  <2> HIDE DEF merged, u, v, k
  <2> QED BY <2>1, <2>2, <1>5, <1>4
<1>6. CASE x.rec # y.rec /\ k = y.rec
  <2>1. x.rec # 1
    BY <1>6, <1>1 DEF Kept
  <2>2. merged = merge_into(recs, k, x.rec)
    BY <1>6 DEF merge_recorders
  <2> HIDE DEF merged, u, v, k
  <2> QED BY <2>1, <2>2, <1>6, <1>4
<1> QED BY <1>2, <1>3, <1>5, <1>6

-----------------------------------------------------------------------------
\* The operators on traced values.

LEMMA KindFacts ==
  ASSUME NEW kind \in Kinds
  PROVE  kind \in AllKinds /\ kind # "AddConstraint" /\ kind # "LoadTrace"
  BY DEF Kinds, AllKinds

LEMMA FieldOps ==
  /\ \A x, y \in Value : Plus(x, y) \in Value /\ Minus(x, y) \in Value /\ Times(x, y) \in Value
  /\ \A b \in Int : Embed(b) \in Value /\ Embed(b)[1] \in Int /\ Embed(Embed(b)[1]) = Embed(b)
<1>1. P \in Nat \ {0}
  BY Constants
<1>2. \A z \in Int : z % P \in Int
  BY <1>1, ModRange
<1>3. ASSUME NEW x \in Value, NEW y \in Value
      PROVE  Plus(x, y) \in Value /\ Minus(x, y) \in Value
  BY <1>2, <1>3 DEF Plus, Minus, Value
<1>4. ASSUME NEW p \in Int, NEW q \in Int, NEW r \in Int, NEW s \in Int
      PROVE  <<p % P, q % P, r % P, s % P>> \in Value
  BY <1>2, <1>4 DEF Value
<1>5. ASSUME NEW x \in Value, NEW y \in Value PROVE Times(x, y) \in Value
  <2>1. /\ x[1] \in Int /\ x[2] \in Int /\ x[3] \in Int /\ x[4] \in Int
        /\ y[1] \in Int /\ y[2] \in Int /\ y[3] \in Int /\ y[4] \in Int
    BY <1>5 DEF Value
  <2>2. \A p, q \in Int : p * q \in Int /\ p + q \in Int /\ p - q \in Int
    OBVIOUS
  <2> DEFINE re(p, q, r, s) == p * r - q * s
             im(p, q, r, s) == p * s + q * r
  <2>3. \A p, q, r, s \in Int : re(p, q, r, s) \in Int /\ im(p, q, r, s) \in Int
    BY <2>2
  <2> DEFINE r == re(x[3], x[4], y[3], y[4])
             j == im(x[3], x[4], y[3], y[4])
             z1 == re(x[1], x[2], y[1], y[2]) + 2 * r - j
             z2 == im(x[1], x[2], y[1], y[2]) + r + 2 * j
             z3 == re(x[1], x[2], y[3], y[4]) + re(x[3], x[4], y[1], y[2])
             z4 == im(x[1], x[2], y[3], y[4]) + im(x[3], x[4], y[1], y[2])
  <2>4. Times(x, y) = <<z1 % P, z2 % P, z3 % P, z4 % P>>
    BY DEF Times
  <2> HIDE DEF re, im
  <2>5. r \in Int /\ j \in Int
    BY <2>1, <2>3
  <2>6. z1 \in Int /\ z2 \in Int /\ z3 \in Int /\ z4 \in Int
    <3>1. /\ re(x[1], x[2], y[1], y[2]) \in Int /\ im(x[1], x[2], y[1], y[2]) \in Int
          /\ re(x[1], x[2], y[3], y[4]) \in Int /\ re(x[3], x[4], y[1], y[2]) \in Int
          /\ im(x[1], x[2], y[3], y[4]) \in Int /\ im(x[3], x[4], y[1], y[2]) \in Int
      BY <2>1, <2>3
    <3> HIDE DEF r, j
    <3>2. 2 * r \in Int /\ 2 * j \in Int
      BY <2>5
    <3> QED BY ONLY <2>5, <3>1, <3>2 DEF z1, z2, z3, z4
  <2> HIDE DEF r, j, z1, z2, z3, z4
  <2> QED BY <1>4, <2>4, <2>6
<1>6. ASSUME NEW b \in Int
      PROVE  Embed(b) \in Value /\ Embed(b)[1] \in Int /\ Embed(Embed(b)[1]) = Embed(b)
  <2>1. b % P \in 0 .. P - 1
    BY <1>1, <1>6, ModRange
  <2> DEFINE d == b % P
  <2>2. d \in Nat /\ d < P /\ P \in Nat
    BY <1>1, <2>1
  <2>3. Embed(b) = <<d, 0, 0, 0>>
    BY DEF Embed
  <2> HIDE DEF d
  <2>4. d % P = d
    BY <2>2, SmallMod
  <2> QED BY <2>2, <2>3, <2>4 DEF Embed, Value
<1> QED BY <1>3, <1>5, <1>6

\* A value given as data words.
LEMMA ValueSeq ==
  ASSUME NEW v \in Value
  PROVE  v \in Seq(Int) /\ Len(v) = 4
<1>1. 4 \in Nat /\ v \in [1 .. 4 -> Int]
  BY DEF Value
<1>2. v \in Seq(Int)
  BY <1>1, SeqDef
<1>3. Len(v) \in Nat /\ 1 .. Len(v) = 1 .. 4
  BY <1>1, <1>2, LenProperties
<1>4. Len(v) = 4
  <2> DEFINE L == Len(v)
  <2>1. L \in Nat /\ 1 .. L = 1 .. 4
    BY <1>3
  <2> HIDE DEF L
  <2>2. 4 \in 1 .. L /\ 5 \notin 1 .. L
    BY <2>1
  <2>3. 4 <= L /\ ~ (5 <= L)
    BY <2>2
  <2>4. L = 4
    BY ONLY <2>1, <2>3
  <2> QED BY <2>4 DEF L
<1> QED BY <1>2, <1>4

\* One source, two sources, as a sequence.
LEMMA OneSource ==
  ASSUME NEW V, NEW x \in V, x \in TracedSet
  PROVE  /\ <<x.reg>> \in Seq(Nat) /\ Len(<<x.reg>>) = 1
         /\ Reading(<<x.reg>>, <<x>>, V, x.rec)
         /\ Vals(<<x.reg>>, <<x>>)[1] = x.val
<1>1. x.reg \in Nat
  BY DEF TracedSet
<1> QED BY <1>1 DEF Reading, Vals

LEMMA TwoSources ==
  ASSUME NEW V, NEW x \in V, x \in TracedSet, NEW y \in V, y \in TracedSet, x.rec = y.rec
  PROVE  /\ <<x.reg, y.reg>> \in Seq(Nat) /\ Len(<<x.reg, y.reg>>) = 2
         /\ Reading(<<x.reg, y.reg>>, <<x, y>>, V, x.rec)
         /\ Vals(<<x.reg, y.reg>>, <<x, y>>)[1] = x.val
         /\ Vals(<<x.reg, y.reg>>, <<x, y>>)[2] = y.val
<1>1. x.reg \in Nat /\ y.reg \in Nat
  BY DEF TracedSet
<1> QED BY <1>1 DEF Reading, Vals

LEMMA UnaryYields ==
  ASSUME NEW recs, NEW V, NEW top, NEW a, State(recs, V, top, a), NEW x \in V,
         NEW kind \in Kinds, NSources(kind) = 1,
         NEW data \in Seq(Int), Len(data) = NData(kind),
         NEW wide \in BOOLEAN, NEW val \in Value,
         \A v : v[1] = x.val => Applied(kind, v, data) = val
  PROVE  Yields(Unary(recs, kind, x, data, wide, val), V, top, a, x.rec, wide, val)
<1>1. x \in TracedSet /\ x.rec \in 1 .. Len(recs)
  BY DEF State, Typed
<1> DEFINE srcs == <<x.reg>>
           vs == <<x>>
           n == recs[x.rec].next_reg
<1>2. srcs \in Seq(Nat) /\ Len(srcs) = 1 /\ Reading(srcs, vs, V, x.rec) /\ Vals(srcs, vs)[1] = x.val
  BY <1>1, OneSource
<1> HIDE DEF srcs, vs, n
<1>3. kind \in AllKinds /\ kind # "AddConstraint" /\ kind # "LoadTrace"
  BY KindFacts
<1>4. WellFormed(Op(kind, n, srcs, data), top)
  BY <1>2 DEF WellFormed, Op
<1>5. val = Meaning(kind, Vals(srcs, vs), data)
  BY <1>2, <1>3 DEF Meaning
<1>6. Yields(Result(Emitted(recs, x.rec, kind, srcs, data), x.rec, wide, val),
             V, top, a, x.rec, wide, val)
  BY <1>1, <1>2, <1>3, <1>4, <1>5, Emits DEF n
<1> QED BY <1>6 DEF Unary, srcs

LEMMA BinaryYields ==
  ASSUME NEW recs, NEW V, NEW top, NEW a, State(recs, V, top, a), NEW x \in V, NEW y \in V,
         NEW kind \in Kinds, NSources(kind) = 2, NData(kind) = 0,
         NEW wide \in BOOLEAN, NEW val \in Value,
         \A v : v[1] = x.val /\ v[2] = y.val => Applied(kind, v, <<>>) = val
  PROVE  Yields(Binary(recs, kind, x, y, wide, val), V, top, a, Kept(recs, x.rec, y.rec), wide, val)
<1> DEFINE merged == merge_recorders(recs, x.rec, y.rec)
           k == Kept(recs, x.rec, y.rec)
           u == Moved(recs, merged, k, x)
           v == Moved(recs, merged, k, y)
           W == V \cup {u, v}
           srcs == <<u.reg, v.reg>>
           vs == <<u, v>>
           n == merged[k].next_reg
           res == Result(Emitted(merged, k, kind, srcs, <<>>), k, wide, val)
<1>1. x \in TracedSet /\ y \in TracedSet
  BY DEF State, Typed
<1>2. Meets(recs, x, y, V, top, a)
  BY Merges
<1>3. /\ State(merged, W, top, a)
      /\ resolve_regs_after_merge(recs, merged, x, y) = srcs
      /\ k \in 1 .. Len(merged)
  BY <1>2 DEF Meets
<1>4. Binary(recs, kind, x, y, wide, val) = res
  BY <1>3 DEF Binary
<1>5. u.rec = k /\ v.rec = k /\ u.val = x.val /\ v.val = y.val
  BY <1>1, MovedFacts
<1>6. u \in W /\ v \in W
  OBVIOUS
<1>6a. V \subseteq W
  OBVIOUS
<1> HIDE DEF merged, k, u, v, W
<1>7. u \in TracedSet /\ v \in TracedSet
  BY <1>3, <1>6 DEF State, Typed
<1>8. /\ srcs \in Seq(Nat) /\ Len(srcs) = 2 /\ Reading(srcs, vs, W, k)
      /\ Vals(srcs, vs)[1] = x.val /\ Vals(srcs, vs)[2] = y.val
  BY <1>5, <1>6, <1>7, TwoSources
<1> HIDE DEF srcs, vs, n
<1>9. kind \in AllKinds /\ kind # "AddConstraint" /\ kind # "LoadTrace"
  BY KindFacts
<1>10. WellFormed(Op(kind, n, srcs, <<>>), top)
  BY <1>8 DEF WellFormed, Op
<1>11. val = Meaning(kind, Vals(srcs, vs), <<>>)
  BY <1>8, <1>9 DEF Meaning
<1>12. <<>> \in Seq(Int)
  OBVIOUS
<1>13. Yields(res, W, top, a, k, wide, val)
  BY <1>3, <1>8, <1>9, <1>10, <1>11, <1>12, Emits DEF n
<1> HIDE DEF res
<1>14. V \cup {res.out} \subseteq W \cup {res.out}
  BY <1>6a
<1>15. Yields(res, V, top, a, k, wide, val)
  BY <1>13, <1>14, FewerKnown DEF Yields
<1> QED BY <1>4, <1>15 DEF k

\* A reduction inside a sum does not show.
LEMMA ModSum ==
  ASSUME NEW n \in Nat \ {0}, NEW x \in Int, NEW y \in Int
  PROVE  (x + (y % n)) % n = (x + y) % n
<1> DEFINE r == y % n
           q == y \div n
           rA == (x + r) % n
           qA == (x + r) \div n
           rB == (x + y) % n
           qB == (x + y) \div n
<1>1. r \in 0 .. n - 1 /\ q \in Int /\ y = n * q + r
  OBVIOUS
<1>2. rB \in 0 .. n - 1 /\ qB \in Int /\ x + y = n * qB + rB
  OBVIOUS
<1>3. rA \in 0 .. n - 1 /\ qA \in Int /\ x + r = n * qA + rA
  <2>1. x + r \in Int
   BY <1>1
  <2> HIDE DEF r
  <2> QED BY <2>1
<1> HIDE DEF r, q, rA, qA, rB, qB
<1> DEFINE d == qA + q - qB
<1>4. n * d = rB - rA /\ d \in Int
  BY <1>1, <1>2, <1>3
<1> HIDE DEF d
<1>5. d = 0
  <2>1. CASE d >= 1
    <3>1. n * d >= n
      BY <2>1, <1>4
    <3> QED BY ONLY <3>1, <1>4, <1>2, <1>3, n \in Nat
  <2>2. CASE d <= -1
    <3>1. n * d <= -n
      BY <2>2, <1>4
    <3> QED BY ONLY <3>1, <1>4, <1>2, <1>3, n \in Nat
  <2> QED BY <2>1, <2>2, <1>4
<1>6. rA = rB
  BY <1>4, <1>5, <1>2, <1>3
<1> QED BY <1>6 DEF rA, rB, r

LEMMA MinusIsPlus ==
  ASSUME NEW x \in Value, NEW c \in Value
  PROVE  Plus(x, Minus(Zero, c)) = Minus(x, c) /\ Minus(Zero, c) \in Value
<1>1. Zero \in Value /\ \A k \in 1 .. 4 : Zero[k] = 0
  <2>1. P \in Nat \ {0}
    BY Constants
  <2>2. 0 % P = 0
    BY <2>1, SmallMod
  <2> QED BY <2>2, FieldOps DEF Zero, Embed
<1>2. Minus(Zero, c) \in Value
  BY <1>1, FieldOps
<1>3. ASSUME NEW k \in 1 .. 4 PROVE (x[k] + Minus(Zero, c)[k]) % P = (x[k] - c[k]) % P
  <2>1. x[k] \in Int /\ c[k] \in Int
    BY DEF Value
  <2>2. Minus(Zero, c)[k] = (0 - c[k]) % P
    BY <1>1 DEF Minus
  <2> DEFINE xk == x[k]
             ck == c[k]
  <2>3. xk \in Int /\ 0 - ck \in Int /\ P \in Nat \ {0} /\ xk + (0 - ck) = xk - ck
    BY <2>1, Constants
  <2> HIDE DEF xk, ck
  <2>4. (xk + ((0 - ck) % P)) % P = (xk - ck) % P
    BY <2>3, ModSum
  <2> QED BY <2>2, <2>4 DEF xk, ck
<1> QED BY <1>2, <1>3 DEF Plus, Minus

LEMMA NegatedYields ==
  ASSUME NEW recs, NEW V, NEW top, NEW a, State(recs, V, top, a), NEW x \in V
  PROVE  Yields(Negated(recs, x), V, top, a, x.rec, x.wide, Minus(Zero, x.val))
<1> DEFINE kind == IF x.wide THEN "WideNeg" ELSE "Neg"
           val == Minus(Zero, x.val)
<1>1. x.wide \in BOOLEAN /\ x.val \in Value
  BY DEF State, Typed, TracedSet
<1>2. val \in Value
  BY <1>1, MinusIsPlus
<1>3. kind \in Kinds /\ NSources(kind) = 1 /\ NData(kind) = 0
  BY DEF Kinds, NSources, NData
<1>4. \A v : v[1] = x.val => Applied(kind, v, <<>>) = val
  BY DEF Applied
<1>5. <<>> \in Seq(Int) /\ Len(<<>>) = NData(kind)
  BY <1>3
<1>6. Negated(recs, x) = Unary(recs, kind, x, <<>>, x.wide, val)
  BY DEF Negated
<1> HIDE DEF kind, val
<1>7. Yields(Unary(recs, kind, x, <<>>, x.wide, val), V, top, a, x.rec, x.wide, val)
  BY <1>1, <1>2, <1>3, <1>4, <1>5, UnaryYields
<1> QED BY <1>6, <1>7 DEF val

LEMMA WidenedYields ==
  ASSUME NEW recs, NEW V, NEW top, NEW a, State(recs, V, top, a), NEW x \in V
  PROVE  Yields(Widened(recs, x), V, top, a, x.rec, TRUE, x.val)
<1>1. x.wide \in BOOLEAN /\ x.val \in Value /\ x \in TracedSet
  BY DEF State, Typed, TracedSet
<1>2. CASE x.wide
  <2>1. V \cup {x} = V
    OBVIOUS
  <2> QED BY <1>1, <1>2, <2>1 DEF Widened, Yields
<1>3. CASE ~x.wide
  <2>1. "Widen" \in Kinds /\ NSources("Widen") = 1 /\ NData("Widen") = 0
    BY DEF Kinds, NSources, NData
  <2>2. \A v : v[1] = x.val => Applied("Widen", v, <<>>) = x.val
    BY DEF Applied
  <2>3. <<>> \in Seq(Int) /\ Len(<<>>) = NData("Widen")
    BY <2>1
  <2>4. Yields(Unary(recs, "Widen", x, <<>>, TRUE, x.val), V, top, a, x.rec, TRUE, x.val)
    BY <1>1, <2>1, <2>2, <2>3, UnaryYields
  <2> QED BY <1>3, <2>4 DEF Widened
<1> QED BY <1>2, <1>3, <1>1

\* With a host constant: a base one is a base value embedded.
LEMMA BaseYields ==
  ASSUME NEW recs, NEW V, NEW top, NEW a, State(recs, V, top, a), NEW x \in V,
         NEW b \in Int, NEW c, c = Embed(b)
  PROVE  /\ Yields(PlusBase(recs, x, c), V, top, a, x.rec, x.wide, Plus(x.val, c))
         /\ Yields(TimesBase(recs, x, c), V, top, a, x.rec, x.wide, Times(x.val, c))
<1>1. x.wide \in BOOLEAN /\ x.val \in Value
  BY DEF State, Typed, TracedSet
<1>2. c \in Value /\ c[1] \in Int /\ Embed(c[1]) = c
  BY FieldOps
<1>3. c \in Seq(Int) /\ Len(c) = 4 /\ <<c[1]>> \in Seq(Int) /\ Len(<<c[1]>>) = 1 /\ <<c[1]>>[1] = c[1]
  BY <1>2, ValueSeq
<1>4. Plus(x.val, c) \in Value /\ Times(x.val, c) \in Value
  BY <1>1, <1>2, FieldOps
<1> DEFINE padd == IF x.wide THEN "WideAddConst" ELSE "AddConst"
           pmul == IF x.wide THEN "WideMulConst" ELSE "MulConst"
           data == IF x.wide THEN c ELSE <<c[1]>>
<1>5. /\ padd \in Kinds /\ NSources(padd) = 1 /\ pmul \in Kinds /\ NSources(pmul) = 1
      /\ data \in Seq(Int) /\ Len(data) = NData(padd) /\ Len(data) = NData(pmul)
  BY <1>3 DEF Kinds, NSources, NData
<1>6. \A v : v[1] = x.val => Applied(padd, v, data) = Plus(x.val, c)
  BY <1>2, <1>3 DEF Applied
<1>7. \A v : v[1] = x.val => Applied(pmul, v, data) = Times(x.val, c)
  BY <1>2, <1>3 DEF Applied
<1>8. /\ PlusBase(recs, x, c) = Unary(recs, padd, x, data, x.wide, Plus(x.val, c))
      /\ TimesBase(recs, x, c) = Unary(recs, pmul, x, data, x.wide, Times(x.val, c))
  BY <1>1 DEF PlusBase, TimesBase
<1> HIDE DEF padd, pmul, data
<1>9. Yields(Unary(recs, padd, x, data, x.wide, Plus(x.val, c)), V, top, a, x.rec, x.wide, Plus(x.val, c))
  BY <1>1, <1>4, <1>5, <1>6, UnaryYields
<1>10. Yields(Unary(recs, pmul, x, data, x.wide, Times(x.val, c)), V, top, a, x.rec, x.wide, Times(x.val, c))
  BY <1>1, <1>4, <1>5, <1>7, UnaryYields
<1> QED BY <1>8, <1>9, <1>10

LEMMA SecureYields ==
  ASSUME NEW recs, NEW V, NEW top, NEW a, State(recs, V, top, a), NEW x \in V,
         NEW c \in Value
  PROVE  /\ Yields(PlusSecure(recs, x, c), V, top, a, x.rec, TRUE, Plus(x.val, c))
         /\ Yields(MinusSecure(recs, x, c), V, top, a, x.rec, TRUE, Minus(x.val, c))
         /\ Yields(TimesSecure(recs, x, c), V, top, a, x.rec, TRUE, Times(x.val, c))
<1>1. x.val \in Value
  BY DEF State, Typed, TracedSet
<1>2. c \in Seq(Int) /\ Len(c) = 4
  BY ValueSeq
<1>3. Plus(x.val, c) \in Value /\ Times(x.val, c) \in Value /\ Minus(x.val, c) \in Value
  BY <1>1, FieldOps
<1> DEFINE padd == IF x.wide THEN "WideAddConst" ELSE "BaseAddSecureConst"
           pmul == IF x.wide THEN "WideMulConst" ELSE "BaseMulSecureConst"
           psub == "WideAddConst"
           minus == Minus(Zero, c)
<1>4. minus \in Value /\ Plus(x.val, minus) = Minus(x.val, c)
  BY <1>1, MinusIsPlus
<1>5. minus \in Seq(Int) /\ Len(minus) = 4
  BY <1>4, ValueSeq
<1>6. /\ padd \in Kinds /\ NSources(padd) = 1 /\ pmul \in Kinds /\ NSources(pmul) = 1
      /\ NData(padd) = 4 /\ NData(pmul) = 4
      /\ psub \in Kinds /\ NSources(psub) = 1 /\ NData(psub) = 4
  BY DEF Kinds, NSources, NData
<1>7. \A v : v[1] = x.val => Applied(padd, v, c) = Plus(x.val, c)
  BY DEF Applied
<1>8. \A v : v[1] = x.val => Applied(pmul, v, c) = Times(x.val, c)
  BY DEF Applied
<1>9. \A v : v[1] = x.val => Applied(psub, v, minus) = Minus(x.val, c)
  <2> HIDE DEF minus
  <2> QED BY <1>4 DEF Applied
<1>10. /\ PlusSecure(recs, x, c) = Unary(recs, padd, x, c, TRUE, Plus(x.val, c))
       /\ TimesSecure(recs, x, c) = Unary(recs, pmul, x, c, TRUE, Times(x.val, c))
       /\ MinusSecure(recs, x, c) = Unary(recs, psub, x, minus, TRUE, Minus(x.val, c))
  BY DEF PlusSecure, TimesSecure, MinusSecure
<1> HIDE DEF padd, pmul, psub, minus
<1>11. Yields(Unary(recs, padd, x, c, TRUE, Plus(x.val, c)), V, top, a, x.rec, TRUE, Plus(x.val, c))
  BY <1>2, <1>3, <1>6, <1>7, UnaryYields
<1>12. Yields(Unary(recs, pmul, x, c, TRUE, Times(x.val, c)), V, top, a, x.rec, TRUE, Times(x.val, c))
  BY <1>2, <1>3, <1>6, <1>8, UnaryYields
<1>13. Yields(Unary(recs, psub, x, minus, TRUE, Minus(x.val, c)), V, top, a, x.rec, TRUE, Minus(x.val, c))
  BY <1>3, <1>5, <1>6, <1>9, UnaryYields
<1> QED BY <1>10, <1>11, <1>12, <1>13

\* The same, wherever the result is.
Makes(res, V, top, a, wide, val) == Yields(res, V, top, a, res.out.rec, wide, val)

LEMMA YieldsMakes ==
  ASSUME NEW res, NEW V, NEW top, NEW a, NEW rec, NEW wide, NEW val,
         Yields(res, V, top, a, rec, wide, val)
  PROVE  Makes(res, V, top, a, wide, val)
  BY DEF Makes, Yields

\* Each operator with two traced operands.
LEMMA AddedMakes ==
  ASSUME NEW recs, NEW V, NEW top, NEW a, State(recs, V, top, a), NEW x \in V, NEW y \in V
  PROVE  Makes(Added(recs, x, y), V, top, a, x.wide, Plus(x.val, y.val))
<1> DEFINE kind == IF ~x.wide THEN "Add" ELSE IF y.wide THEN "WideAdd" ELSE "WideAddBase"
           val == Plus(x.val, y.val)
<1>1. x.wide \in BOOLEAN /\ x.val \in Value /\ y.val \in Value
  BY DEF State, Typed, TracedSet
<1>2. val \in Value
  BY <1>1, FieldOps
<1>3. kind \in Kinds /\ NSources(kind) = 2 /\ NData(kind) = 0
  BY DEF Kinds, NSources, NData
<1>4. \A v : v[1] = x.val /\ v[2] = y.val => Applied(kind, v, <<>>) = val
  BY DEF Applied
<1>5. Added(recs, x, y) = Binary(recs, kind, x, y, x.wide, val)
  BY DEF Added
<1> HIDE DEF kind, val
<1>6. Yields(Binary(recs, kind, x, y, x.wide, val), V, top, a, Kept(recs, x.rec, y.rec), x.wide, val)
  BY <1>1, <1>2, <1>3, <1>4, BinaryYields
<1> QED BY <1>5, <1>6, YieldsMakes DEF val

LEMMA SubtractedMakes ==
  ASSUME NEW recs, NEW V, NEW top, NEW a, State(recs, V, top, a), NEW x \in V, NEW y \in V
  PROVE  Makes(Subtracted(recs, x, y), V, top, a, x.wide, Minus(x.val, y.val))
<1> DEFINE kind == IF x.wide THEN "WideSub" ELSE "Sub"
           val == Minus(x.val, y.val)
<1>1. x.wide \in BOOLEAN /\ x.val \in Value /\ y.val \in Value
  BY DEF State, Typed, TracedSet
<1>2. val \in Value
  BY <1>1, FieldOps
<1>3. kind \in Kinds /\ NSources(kind) = 2 /\ NData(kind) = 0
  BY DEF Kinds, NSources, NData
<1>4. \A v : v[1] = x.val /\ v[2] = y.val => Applied(kind, v, <<>>) = val
  BY DEF Applied
<1>5. Subtracted(recs, x, y) = Binary(recs, kind, x, y, x.wide, val)
  BY DEF Subtracted
<1> HIDE DEF kind, val
<1>6. Yields(Binary(recs, kind, x, y, x.wide, val), V, top, a, Kept(recs, x.rec, y.rec), x.wide, val)
  BY <1>1, <1>2, <1>3, <1>4, BinaryYields
<1> QED BY <1>5, <1>6, YieldsMakes DEF val

LEMMA MultipliedMakes ==
  ASSUME NEW recs, NEW V, NEW top, NEW a, State(recs, V, top, a), NEW x \in V, NEW y \in V
  PROVE  Makes(Multiplied(recs, x, y), V, top, a, x.wide, Times(x.val, y.val))
<1> DEFINE kind == IF ~x.wide THEN "Mul" ELSE IF y.wide THEN "WideMul" ELSE "WideMulBase"
           val == Times(x.val, y.val)
<1>1. x.wide \in BOOLEAN /\ x.val \in Value /\ y.val \in Value
  BY DEF State, Typed, TracedSet
<1>2. val \in Value
  BY <1>1, FieldOps
<1>3. kind \in Kinds /\ NSources(kind) = 2 /\ NData(kind) = 0
  BY DEF Kinds, NSources, NData
<1>4. \A v : v[1] = x.val /\ v[2] = y.val => Applied(kind, v, <<>>) = val
  BY DEF Applied
<1>5. Multiplied(recs, x, y) = Binary(recs, kind, x, y, x.wide, val)
  BY DEF Multiplied
<1> HIDE DEF kind, val
<1>6. Yields(Binary(recs, kind, x, y, x.wide, val), V, top, a, Kept(recs, x.rec, y.rec), x.wide, val)
  BY <1>1, <1>2, <1>3, <1>4, BinaryYields
<1> QED BY <1>5, <1>6, YieldsMakes DEF val

\* Constants and columns: instructions that read no register.
LEMMA Sourceless ==
  ASSUME NEW recs, NEW V, NEW top, NEW a, State(recs, V, top, a), NEW r \in 1 .. Len(recs),
         NEW kind \in AllKinds, kind # "AddConstraint", NEW data \in Seq(Int),
         WellFormed(Op(kind, recs[r].next_reg, <<>>, data), top),
         NEW wide \in BOOLEAN, NEW val \in Value,
         \A v : Meaning(kind, v, data) = val
  PROVE  Yields(Result(Emitted(recs, r, kind, <<>>, data), r, wide, val), V, top, a, r, wide, val)
<1> DEFINE srcs == <<>>
<1>1. srcs \in Seq(Nat) /\ Len(srcs) = 0
  OBVIOUS
<1>2. Reading(srcs, <<>>, V, r)
  BY <1>1 DEF Reading
<1>3. val = Meaning(kind, Vals(srcs, <<>>), data)
  OBVIOUS
<1> HIDE DEF srcs
<1>4. WellFormed(Op(kind, recs[r].next_reg, srcs, data), top)
  BY DEF srcs
<1>5. Yields(Result(Emitted(recs, r, kind, srcs, data), r, wide, val), V, top, a, r, wide, val)
  BY <1>1, <1>2, <1>3, <1>4, Emits
<1> QED BY <1>5 DEF srcs

LEMMA ConstantFacts ==
  ASSUME NEW c \in Value, NEW n, NEW top
  PROVE  /\ "LoadSecureConst" \in AllKinds /\ c \in Seq(Int)
         /\ WellFormed(Op("LoadSecureConst", n, <<>>, c), top)
         /\ \A v : Meaning("LoadSecureConst", v, c) = c
<1>1. c \in Seq(Int) /\ Len(c) = 4
  BY ValueSeq
<1>2. "LoadSecureConst" \in Kinds /\ "LoadSecureConst" \in AllKinds
  BY DEF Kinds, AllKinds
<1>3. WellFormed(Op("LoadSecureConst", n, <<>>, c), top)
  BY <1>1, <1>2 DEF WellFormed, Op, NSources, NData
<1>4. \A v : Meaning("LoadSecureConst", v, c) = c
  BY DEF Meaning, Applied
<1> QED BY <1>1, <1>2, <1>3, <1>4

LEMMA BaseConstantFacts ==
  ASSUME NEW b \in Int, NEW c, c = Embed(b), NEW n, NEW top
  PROVE  /\ "LoadConst" \in AllKinds /\ <<c[1]>> \in Seq(Int)
         /\ WellFormed(Op("LoadConst", n, <<>>, <<c[1]>>), top)
         /\ \A v : Meaning("LoadConst", v, <<c[1]>>) = c
<1>1. c[1] \in Int /\ Embed(c[1]) = c
  BY FieldOps
<1>2. "LoadConst" \in Kinds /\ "LoadConst" \in AllKinds
  BY DEF Kinds, AllKinds
<1>3. <<c[1]>> \in Seq(Int) /\ Len(<<c[1]>>) = 1
  BY <1>1
<1>4. WellFormed(Op("LoadConst", n, <<>>, <<c[1]>>), top)
  BY <1>2, <1>3 DEF WellFormed, Op, NSources, NData
<1>5. \A v : Meaning("LoadConst", v, <<c[1]>>) = c
  BY <1>1 DEF Meaning, Applied
<1> QED BY <1>2, <1>3, <1>4, <1>5

LEMMA OwnYields ==
  ASSUME NEW recs, NEW V, NEW top, NEW a, State(recs, V, top, a), NEW c \in Value
  PROVE  Yields(OwnSecure(recs, c), V, top, a, 1, TRUE, c)
<1>1. 1 \in 1 .. Len(recs)
  BY DEF State, Typed
<1>2. Yields(Result(Emitted(recs, 1, "LoadSecureConst", <<>>, c), 1, TRUE, c), V, top, a, 1, TRUE, c)
  BY <1>1, ConstantFacts, Sourceless
<1> QED BY <1>2 DEF OwnSecure

LEMMA ConstantMakes ==
  ASSUME NEW recs, NEW V, NEW top, NEW a, State(recs, V, top, a),
         NEW wide \in BOOLEAN, NEW c, wide => c \in Value, ~wide => \E b \in Int : c = Embed(b)
  PROVE  Makes(Constant(recs, wide, c), V, top, a, wide, c)
<1> DEFINE recs2 == Append(recs, RecorderInner(FALSE))
           r == Len(recs) + 1
<1>1. State(recs2, V, top, a) /\ Len(recs2) = r /\ Len(recs) \in Nat
  BY NewRecorder
<1>2. r \in 1 .. Len(recs2)
  BY <1>1
<1> HIDE DEF recs2
<1>3. CASE wide
  <2>1. Constant(recs, wide, c) = Result(Emitted(recs2, r, "LoadSecureConst", <<>>, c), r, wide, c)
    BY <1>3 DEF Constant, recs2
  <2> HIDE DEF r
  <2>2. Yields(Result(Emitted(recs2, r, "LoadSecureConst", <<>>, c), r, wide, c), V, top, a, r, wide, c)
    BY <1>1, <1>2, <1>3, ConstantFacts, Sourceless
  <2> QED BY <2>1, <2>2, YieldsMakes
<1>4. CASE ~wide
  <2>1. Constant(recs, wide, c) = Result(Emitted(recs2, r, "LoadConst", <<>>, <<c[1]>>), r, wide, c)
    BY <1>4 DEF Constant, recs2
  <2>2. PICK b \in Int : c = Embed(b)
    BY <1>4
  <2>3. c \in Value
    BY <2>2, FieldOps
  <2> HIDE DEF r
  <2>4. /\ "LoadConst" \in AllKinds /\ <<c[1]>> \in Seq(Int)
        /\ WellFormed(Op("LoadConst", recs2[r].next_reg, <<>>, <<c[1]>>), top)
        /\ \A v : Meaning("LoadConst", v, <<c[1]>>) = c
    BY <2>2, BaseConstantFacts
  <2>5. Yields(Result(Emitted(recs2, r, "LoadConst", <<>>, <<c[1]>>), r, wide, c), V, top, a, r, wide, c)
    BY <1>1, <1>2, <2>3, <2>4, Sourceless
  <2> QED BY <2>1, <2>5, YieldsMakes
<1> QED BY <1>3, <1>4

-----------------------------------------------------------------------------
\* Constraints.

Constraining(recs, reg) ==
  [recs EXCEPT ![1].ops = Append(@, Op("AddConstraint", 0, <<reg>>, <<>>))]

LEMMA ConstrainingFacts ==
  ASSUME NEW recs \in Seq(RecorderSet), Len(recs) >= 1, NEW reg \in Nat
  PROVE  /\ Constraining(recs, reg) \in Seq(RecorderSet)
         /\ Len(Constraining(recs, reg)) = Len(recs)
         /\ \A q \in 1 .. Len(recs) : q # 1 => Constraining(recs, reg)[q] = recs[q]
         /\ Op("AddConstraint", 0, <<reg>>, <<>>) \in OpSet
         /\ Constraining(recs, reg)[1].ops
              = Append(recs[1].ops, Op("AddConstraint", 0, <<reg>>, <<>>))
         /\ Constraining(recs, reg)[1].next_reg = recs[1].next_reg
         /\ Constraining(recs, reg)[1].is_main = recs[1].is_main
<1> DEFINE op == Op("AddConstraint", 0, <<reg>>, <<>>)
           L == Len(recs)
           rec == recs[1]
           new == Fields(Append(rec.ops, op), rec.next_reg, rec.n_trace_accesses, rec.is_main)
           E == Constraining(recs, reg)
<1>1. op \in OpSet
  BY DEF Op, OpSet, AllKinds
<1>2. L \in Nat /\ 1 \in 1 .. L /\ DOMAIN recs = 1 .. L /\ recs = [i \in 1 .. L |-> recs[i]]
  OBVIOUS
<1>3. rec \in RecorderSet
  BY <1>2
<1> HIDE DEF op, L, rec
<1>4. /\ rec = Fields(rec.ops, rec.next_reg, rec.n_trace_accesses, rec.is_main)
      /\ rec.ops \in Seq(OpSet) /\ rec.next_reg \in Nat /\ rec.n_trace_accesses \in Nat
      /\ rec.is_main \in BOOLEAN
  BY <1>3, FieldsOf
<1>5. Append(rec.ops, op) \in Seq(OpSet)
  BY <1>1, <1>4
<1>6. new \in RecorderSet
  BY <1>4, <1>5, FieldsType
<1>7. [rec EXCEPT !.ops = Append(@, op)] = new
  <2> DEFINE x == Append(rec.ops, op)
  <2> HIDE DEF x
  <2>1. [Fields(rec.ops, rec.next_reg, rec.n_trace_accesses, rec.is_main) EXCEPT !.ops = x]
          = Fields(x, rec.next_reg, rec.n_trace_accesses, rec.is_main)
    BY FieldsFacts
  <2> QED BY <2>1, <1>4 DEF x
<1>8. E = [recs EXCEPT ![1] = new]
  BY <1>7 DEF Constraining, op, rec
<1> HIDE DEF new, E
<1>9. /\ E = [i \in 1 .. L |-> E[i]] /\ E[1] = new
      /\ \A q \in 1 .. L : q # 1 => E[q] = recs[q]
  BY <1>2, <1>8, Updated
<1>10. L \in Nat /\ \A q \in 1 .. L : E[q] \in RecorderSet
  BY <1>6, <1>9 DEF L
<1>11. E \in Seq(RecorderSet) /\ Len(E) = L
  BY ONLY <1>9, <1>10
<1>12. new.ops = Append(rec.ops, op) /\ new.next_reg = rec.next_reg /\ new.is_main = rec.is_main
  BY DEF Fields, new
<1> QED BY <1>1, <1>9, <1>11, <1>12 DEF E, op, rec, L

LEMMA ConstraintAdded ==
  ASSUME NEW recs, NEW V, NEW top, NEW a, State(recs, V, top, a), NEW x \in V, x.rec = 1
  PROVE  State(Constraining(recs, x.reg), V, top, Append(a, x.val))
<1> DEFINE E == Constraining(recs, x.reg)
           b == Append(a, x.val)
           op == Op("AddConstraint", 0, <<x.reg>>, <<>>)
<1>1. /\ recs \in Seq(RecorderSet) /\ Len(recs) >= 1 /\ V \subseteq TracedSet
      /\ \A y \in V : y.rec \in 1 .. Len(recs)
      /\ a \in Seq(Value) /\ top \in [Interactions -> Nat]
      /\ \A r \in 1 .. Len(recs) : recs[r].is_main <=> r = 1
  BY DEF State, Typed
<1>2. x.reg \in Nat /\ x.val \in Value
  BY <1>1 DEF TracedSet
<1>3. /\ E \in Seq(RecorderSet) /\ Len(E) = Len(recs)
      /\ \A q \in 1 .. Len(recs) : q # 1 => E[q] = recs[q]
      /\ op \in OpSet /\ E[1].ops = Append(recs[1].ops, op)
      /\ E[1].next_reg = recs[1].next_reg /\ E[1].is_main = recs[1].is_main
  BY <1>1, <1>2, ConstrainingFacts
<1>4. b \in Seq(Value)
  BY <1>1, <1>2
<1>5. 1 \in 1 .. Len(recs) /\ Len(recs) \in Nat
  BY <1>1
<1>6. recs[1] \in RecorderSet /\ recs[1].is_main
  BY <1>1, <1>5
<1> HIDE DEF E
<1>7. \A r \in 1 .. Len(E) : E[r].is_main <=> r = 1
  BY <1>1, <1>3, <1>5
<1>8. Typed(E, V, top, b)
  BY <1>1, <1>3, <1>4, <1>7 DEF Typed
<1>9. ASSUME NEW q \in 1 .. Len(E), Fits(E[q]) PROVE Sound(E[q], q, V, top, b)
  <2>1. CASE q # 1
    <3>1. q \in 1 .. Len(recs) /\ E[q] = recs[q]
      BY <2>1, <1>3
    <3>2. Sound(recs[q], q, V, top, a) /\ recs[q] \in RecorderSet /\ ~recs[q].is_main
      BY <3>1, <2>1, <1>9, <1>1 DEF State
    <3>3. \A i \in Interactions : top[i] <= top[i]
      BY <1>1
    <3> HIDE DEF b
    <3>4. Sound(recs[q], q, V, top, b)
      BY <1>1, <3>2, <3>3, SoundWeaker
    <3> QED BY <3>1, <3>4
  <2>2. CASE q = 1
    <3>1. Len(E[1].ops) = Len(recs[1].ops) + 1 /\ Len(recs[1].ops) \in Nat
      <4>1. recs[1].ops \in Seq(OpSet)
        BY <1>6 DEF RecorderSet
      <4> DEFINE o == recs[1].ops
      <4>2. o \in Seq(OpSet) /\ E[1].ops = Append(o, op)
        BY <4>1, <1>3
      <4> HIDE DEF o, op
      <4>3. Len(Append(o, op)) = Len(o) + 1 /\ Len(o) \in Nat
        BY <4>2, <1>3, Appended
      <4> QED BY <4>2, <4>3 DEF o
    <3>2. Fits(recs[1])
      <4> DEFINE n == Len(recs[1].ops)
      <4>1. n + 1 < REG_MODULUS /\ n \in Nat /\ REG_MODULUS \in Nat
        BY <2>2, <1>9, <3>1, Constants DEF Fits
      <4> HIDE DEF n
      <4>2. n < REG_MODULUS
        BY <4>1
      <4> QED BY <4>2 DEF Fits, n
    <3>3. Sound(recs[1], 1, V, top, a)
      BY <3>2, <1>5 DEF State
    <3>4. E[1].is_main
      BY <1>3, <1>6
    <3>5. op = Op("AddConstraint", 0, <<x.reg>>, <<>>)
      OBVIOUS
    <3> DEFINE rec == recs[1]
               rec2 == E[1]
    <3>6. /\ rec \in RecorderSet /\ rec.is_main /\ Sound(rec, 1, V, top, a)
          /\ rec2.ops = Append(rec.ops, op) /\ rec2.next_reg = rec.next_reg /\ rec2.is_main
          /\ op \in OpSet
      BY <1>3, <1>6, <3>3, <3>4
    <3>7. a \in Seq(Value) /\ V \subseteq TracedSet
      BY <1>1
    <3> HIDE DEF op, rec, rec2
    <3>8. Sound(rec2, 1, V, top, Append(a, x.val))
      BY <3>5, <3>6, <3>7, ConstraintSound
    <3>9. Sound(E[1], 1, V, top, Append(a, x.val))
      BY <3>8 DEF rec2
    <3> QED BY <2>2, <3>9
  <2> QED BY <2>1, <2>2
<1> QED BY <1>8, <1>9 DEF State, E

\* add_constraint widens the value, merges its recorder into the evaluator's and adds it.
LEMMA AddsConstraint ==
  ASSUME NEW recs, NEW V, NEW top, NEW a, State(recs, V, top, a), NEW x \in V
  PROVE  State(add_constraint(recs, x), V, top, Append(a, x.val))
<1> DEFINE wide == Widened(recs, x)
           out == wide.out
           W == V \cup {out}
           merged == merge_recorders(wide.recs, 1, out.rec)
           src == IF out.rec = 1 THEN out.reg
                  ELSE (out.reg + merged[1].next_reg - wide.recs[out.rec].next_reg) % REG_MODULUS
<1>1. State(wide.recs, W, top, a) /\ out \in W /\ out.val = x.val /\ V \subseteq W
  <2>1. Yields(wide, V, top, a, x.rec, TRUE, x.val)
    BY WidenedYields
  <2> HIDE DEF wide
  <2> QED BY <2>1 DEF Yields
<1>2. add_constraint(recs, x) = Constraining(merged, src)
  BY DEF add_constraint, Constraining
<1> HIDE DEF wide
<1>3. /\ \A y \in W : y.rec \in 1 .. Len(wide.recs)
      /\ 1 \in 1 .. Len(wide.recs)
      /\ \A r \in 1 .. Len(wide.recs) : wide.recs[r].is_main <=> r = 1
      /\ W \subseteq TracedSet
  BY <1>1 DEF State, Typed
<1> HIDE DEF out, W, merged
<1>4. \E U, z : /\ State(merged, U, top, a) /\ W \subseteq U
                /\ z \in U /\ z.rec = 1 /\ z.reg = src /\ z.val = x.val
  <2>1. CASE out.rec = 1
    <3>1. merged = wide.recs
      BY <2>1 DEF merge_recorders, merged
    <3>2. src = out.reg
      BY <2>1
    <3> QED BY <1>1, <2>1, <3>1, <3>2
  <2>2. CASE out.rec # 1
    <3> DEFINE y == Traced(1, MovedReg(wide.recs, merge_into(wide.recs, 1, out.rec), 1, out),
                           out.wide, out.val)
               U == W \cup {y}
    <3>1. Kept(wide.recs, 1, out.rec) = 1
      BY <1>1, <1>3, <2>2 DEF Kept
    <3>2. merged = merge_into(wide.recs, 1, out.rec)
      BY <2>2, <3>1 DEF merge_recorders, merged
    <3>3. State(merge_into(wide.recs, 1, out.rec), U, top, a)
      BY <1>1, <1>3, <2>2, Absorbs
    <3>4. y.reg = MovedReg(wide.recs, merged, 1, out) /\ y.rec = 1 /\ y.val = x.val
      BY <1>1, <3>2 DEF Traced
    <3>5. MovedReg(wide.recs, merged, 1, out) = src
      BY <2>2 DEF MovedReg
    <3>6. y \in U /\ W \subseteq U
      OBVIOUS
    <3> HIDE DEF U, y, src
    <3> QED BY <3>2, <3>3, <3>4, <3>5, <3>6
  <2> QED BY <2>1, <2>2
<1>5. PICK U, z : /\ State(merged, U, top, a) /\ W \subseteq U
                  /\ z \in U /\ z.rec = 1 /\ z.reg = src /\ z.val = x.val
  BY <1>4
<1> HIDE DEF src
<1>6. State(Constraining(merged, z.reg), U, top, Append(a, z.val))
  BY <1>5, ConstraintAdded
<1>7. State(Constraining(merged, src), U, top, Append(a, x.val))
  BY <1>5, <1>6
<1> QED BY <1>1, <1>2, <1>5, <1>7, FewerKnown

-----------------------------------------------------------------------------
\* Columns, loaded at each of the offsets.

LoadStep(before, interaction, col, offset) ==
  LET one == Result(Emitted(before.recs, 1, "LoadTrace", <<>>, <<interaction, col, offset>>),
                    1, FALSE, TraceValue(interaction, col, offset))
  IN [recs |-> one.recs, out |-> Append(before.out, one.out)]
NothingLoaded(recs) == [recs |-> recs, out |-> <<>>]

LoadsUpto(f, m, recs, interaction, col, offsets) ==
  f = [i \in 0 .. m |-> IF i = 0 THEN NothingLoaded(recs)
                        ELSE LoadStep(f[i - 1], interaction, col, offsets[i])]

LEMMA LoadsExist ==
  ASSUME NEW n \in Nat, NEW recs, NEW interaction, NEW col, NEW offsets
  PROVE  \E f : LoadsUpto(f, n, recs, interaction, col, offsets)
<1> DEFINE Good == {m \in 0 .. n : \E f : LoadsUpto(f, m, recs, interaction, col, offsets)}
<1>1. 0 \in Good
  <2>1. LoadsUpto([i \in 0 .. 0 |-> NothingLoaded(recs)], 0, recs, interaction, col, offsets)
    BY DEF LoadsUpto
  <2>2. 0 \in 0 .. n
    OBVIOUS
  <2> QED BY <2>1, <2>2
<1>2. ASSUME NEW m \in 0 .. n - 1, m \in Good PROVE m + 1 \in Good
  <2>1. PICK f : LoadsUpto(f, m, recs, interaction, col, offsets)
    BY <1>2
  <2> DEFINE g == [i \in 0 .. m + 1 |-> IF i = m + 1 THEN LoadStep(f[m], interaction, col, offsets[m + 1])
                                        ELSE f[i]]
  <2>2. ASSUME NEW i \in 0 .. m + 1
        PROVE  g[i] = IF i = 0 THEN NothingLoaded(recs) ELSE LoadStep(g[i - 1], interaction, col, offsets[i])
    <3>1. CASE i = m + 1
      <4>1. i # 0 /\ i - 1 \in 0 .. m + 1 /\ i - 1 # m + 1 /\ i - 1 = m
        BY <3>1
      <4> QED BY <3>1, <4>1
    <3>2. CASE i # m + 1
      <4>1. i \in 0 .. m /\ g[i] = f[i] /\ (i # 0 => i - 1 \in 0 .. m + 1 /\ i - 1 # m + 1)
        BY <3>2
      <4>2. f[i] = IF i = 0 THEN NothingLoaded(recs) ELSE LoadStep(f[i - 1], interaction, col, offsets[i])
        BY <2>1, <4>1 DEF LoadsUpto
      <4>3. i # 0 => g[i - 1] = f[i - 1]
        BY <4>1
      <4> HIDE DEF g
      <4> QED BY <4>1, <4>2, <4>3
    <3> QED BY <3>1, <3>2
  <2>3. LoadsUpto(g, m + 1, recs, interaction, col, offsets)
    BY <2>2 DEF LoadsUpto
  <2> HIDE DEF g
  <2>4. m + 1 \in 0 .. n
    OBVIOUS
  <2> QED BY <2>3, <2>4
<1> HIDE DEF Good
<1>3. \A i \in 0 .. n : i \in Good
  BY <1>1, <1>2, Induction
<1>4. n \in Good
  BY <1>3
<1> QED BY <1>4 DEF Good

\* One value per offset, in the evaluator's recorder.
Loaded(res, V, top, a, interaction, col, offsets, n) ==
  /\ State(res.recs, V \cup {res.out[k] : k \in 1 .. n}, top, a)
  /\ res.out \in Seq(TracedSet) /\ Len(res.out) = n
  /\ \A k \in 1 .. n : /\ res.out[k].rec = 1 /\ ~res.out[k].wide
                       /\ res.out[k].val = TraceValue(interaction, col, offsets[k])

LEMMA LoadFacts ==
  ASSUME NEW top \in [Interactions -> Nat], NEW interaction \in Interactions,
         NEW col \in 0 .. top[interaction] - 1, NEW offset \in Int, NEW n
  PROVE  /\ "LoadTrace" \in AllKinds /\ "LoadTrace" # "AddConstraint"
         /\ <<interaction, col, offset>> \in Seq(Int)
         /\ WellFormed(Op("LoadTrace", n, <<>>, <<interaction, col, offset>>), top)
         /\ TraceValue(interaction, col, offset) \in Value
         /\ \A v : Meaning("LoadTrace", v, <<interaction, col, offset>>)
                     = TraceValue(interaction, col, offset)
<1>1. interaction \in Int /\ col \in Int
  BY DEF Interactions
<1>2. TraceValue(interaction, col, offset) \in Value
  <2> DEFINE b == (7 * interaction + 3 * col + 5 * offset + 23) * (interaction + 2 * col + 29)
  <2>1. b \in Int
    BY <1>1
  <2> HIDE DEF b
  <2>2. Embed(b) \in Value
    BY <2>1, FieldOps
  <2> QED BY <2>2 DEF TraceValue, b
<1>3. "LoadTrace" \in AllKinds
  BY DEF AllKinds
<1>4. WellFormed(Op("LoadTrace", n, <<>>, <<interaction, col, offset>>), top)
  BY DEF WellFormed, Op
<1>5. <<interaction, col, offset>> \in Seq(Int)
  BY <1>1
<1> QED BY <1>2, <1>3, <1>4, <1>5 DEF Meaning

LEMMA LoadOne ==
  ASSUME NEW res, NEW V, NEW top, NEW a, NEW interaction \in Interactions,
         NEW col \in 0 .. top[interaction] - 1, NEW offsets \in Seq(Int),
         NEW n \in 0 .. Len(offsets) - 1,
         Loaded(res, V, top, a, interaction, col, offsets, n)
  PROVE  Loaded(LoadStep(res, interaction, col, offsets[n + 1]), V, top, a, interaction, col,
                offsets, n + 1)
<1> DEFINE offset == offsets[n + 1]
           val == TraceValue(interaction, col, offset)
           W == V \cup {res.out[k] : k \in 1 .. n}
           one == Result(Emitted(res.recs, 1, "LoadTrace", <<>>, <<interaction, col, offset>>),
                         1, FALSE, val)
           new == LoadStep(res, interaction, col, offset)
           outs == res.out
<1>1. State(res.recs, W, top, a) /\ outs \in Seq(TracedSet) /\ Len(outs) = n /\ n \in Nat
  BY DEF Loaded
<1>2. top \in [Interactions -> Nat] /\ 1 \in 1 .. Len(res.recs)
  BY <1>1 DEF State, Typed
<1>3. offset \in Int
  OBVIOUS
<1> HIDE DEF offset, W
<1>4. Yields(one, W, top, a, 1, FALSE, val)
  BY <1>1, <1>2, <1>3, LoadFacts, Sourceless
<1>5. new = [recs |-> one.recs, out |-> Append(outs, one.out)]
  BY DEF LoadStep
<1> HIDE DEF one, val, new, outs
<1>6. /\ State(one.recs, W \cup {one.out}, top, a) /\ one.out \in TracedSet
      /\ one.out.rec = 1 /\ ~one.out.wide /\ one.out.val = val
  BY <1>4 DEF Yields
<1>7. /\ Append(outs, one.out) \in Seq(TracedSet) /\ Len(Append(outs, one.out)) = n + 1
      /\ \A k \in 1 .. n : Append(outs, one.out)[k] = outs[k]
      /\ Append(outs, one.out)[n + 1] = one.out
  BY <1>1, <1>6, Appended
<1>8. new.recs = one.recs /\ new.out = Append(outs, one.out)
  BY <1>5
<1>9. \A k \in 1 .. n + 1 : k \in 1 .. n \/ k = n + 1
  BY <1>1
<1>10. V \cup {new.out[k] : k \in 1 .. n + 1} \subseteq W \cup {one.out}
  BY <1>7, <1>8, <1>9 DEF W, outs
<1>11. State(new.recs, V \cup {new.out[k] : k \in 1 .. n + 1}, top, a)
  BY <1>6, <1>8, <1>10, FewerKnown
<1>12. ASSUME NEW k \in 1 .. n + 1
       PROVE  /\ new.out[k].rec = 1 /\ ~new.out[k].wide
              /\ new.out[k].val = TraceValue(interaction, col, offsets[k])
  <2>1. CASE k = n + 1
    BY <2>1, <1>6, <1>7, <1>8 DEF val, offset
  <2>2. CASE k \in 1 .. n
    <3>1. new.out[k] = res.out[k]
      BY <2>2, <1>7, <1>8 DEF outs
    <3> QED BY <2>2, <3>1 DEF Loaded
  <2> QED BY <1>9, <2>1, <2>2
<1>13. new.out \in Seq(TracedSet) /\ Len(new.out) = n + 1
  BY <1>7, <1>8
<1>14. Loaded(new, V, top, a, interaction, col, offsets, n + 1)
  BY <1>11, <1>12, <1>13 DEF Loaded
<1> QED BY <1>14 DEF new, offset

LEMMA LoadsMake ==
  ASSUME NEW recs, NEW V, NEW top, NEW a, State(recs, V, top, a),
         NEW interaction \in Interactions,
         NEW col \in 0 .. top[interaction] - 1, NEW offsets \in Seq(Int)
  PROVE  Loaded(Loads(recs, interaction, col, offsets), V, top, a, interaction, col, offsets,
                Len(offsets))
<1> DEFINE L == Len(offsets)
           f == CHOOSE g : LoadsUpto(g, L, recs, interaction, col, offsets)
           Good == {m \in 0 .. L : Loaded(f[m], V, top, a, interaction, col, offsets, m)}
<1>1. L \in Nat
  OBVIOUS
<1>2. LoadsUpto(f, L, recs, interaction, col, offsets)
  <2> HIDE DEF L
  <2> QED BY <1>1, LoadsExist
<1>3. Loads(recs, interaction, col, offsets) = f[L]
  BY DEF Loads, LoadsUpto, LoadStep, NothingLoaded
<1> HIDE DEF f
<1>4. /\ f[0] = NothingLoaded(recs)
      /\ \A m \in 0 .. L - 1 : f[m + 1] = LoadStep(f[m], interaction, col, offsets[m + 1])
  <2>1. 0 \in 0 .. L /\ \A m \in 0 .. L - 1 : m + 1 \in 0 .. L /\ m + 1 # 0 /\ (m + 1) - 1 = m
    BY <1>1
  <2> HIDE DEF L
  <2> QED BY <2>1, <1>2 DEF LoadsUpto
<1>5. 0 \in Good
  <2> DEFINE g == f[0]
  <2>1. V \cup {g.out[k] : k \in 1 .. 0} = V /\ \A k \in 1 .. 0 : FALSE
    OBVIOUS
  <2>2. g.recs = recs /\ g.out = <<>>
    BY <1>4 DEF NothingLoaded
  <2> HIDE DEF g
  <2>3. g.out \in Seq(TracedSet) /\ Len(g.out) = 0
    BY <2>2
  <2>4. State(g.recs, V \cup {g.out[k] : k \in 1 .. 0}, top, a)
    BY <2>1, <2>2
  <2>5. Loaded(g, V, top, a, interaction, col, offsets, 0)
    BY <2>1, <2>3, <2>4 DEF Loaded
  <2>6. Loaded(f[0], V, top, a, interaction, col, offsets, 0)
    BY <2>5 DEF g
  <2> QED BY <1>1, <2>6
<1>6. ASSUME NEW m \in 0 .. L - 1, m \in Good PROVE m + 1 \in Good
  <2>1. Loaded(f[m], V, top, a, interaction, col, offsets, m)
    BY <1>6
  <2>2. Loaded(LoadStep(f[m], interaction, col, offsets[m + 1]), V, top, a, interaction, col,
               offsets, m + 1)
    BY <2>1, LoadOne
  <2> QED BY <1>4, <2>2
<1> HIDE DEF Good, L
<1>7. \A m \in 0 .. L : m \in Good
  BY <1>1, <1>5, <1>6, Induction
<1>8. L \in Good
  BY <1>1, <1>7
<1> QED BY <1>3, <1>8 DEF Good, L

\* Four base values of the evaluator's recorder make one secure value.
LEMMA CombineYields ==
  ASSUME NEW recs, NEW V, NEW top, NEW a, State(recs, V, top, a), NEW quad,
         \A k \in 1 .. 4 : quad[k] \in V /\ quad[k].rec = 1
  PROVE  Yields(combine_ef(recs, quad), V, top, a, 1, TRUE, [k \in 1 .. 4 |-> quad[k].val[1]])
<1> DEFINE srcs == [k \in 1 .. 4 |-> quad[k].reg]
           val == [k \in 1 .. 4 |-> quad[k].val[1]]
<1>1. V \subseteq TracedSet /\ 1 \in 1 .. Len(recs)
  BY DEF State, Typed
<1>2. \A k \in 1 .. 4 : quad[k].reg \in Nat /\ quad[k].val \in Value
  BY <1>1 DEF TracedSet
<1>3. srcs \in Seq(Nat) /\ Len(srcs) = 4 /\ \A k \in 1 .. 4 : srcs[k] = quad[k].reg
  BY <1>2
<1>4. val \in Value
  BY <1>2 DEF Value
<1>5. "CombineEF" \in Kinds /\ NSources("CombineEF") = 4 /\ NData("CombineEF") = 0
  BY DEF Kinds, NSources, NData
<1>6. "CombineEF" \in AllKinds /\ "CombineEF" # "AddConstraint" /\ "CombineEF" # "LoadTrace"
  BY <1>5, KindFacts
<1>7. val = Meaning("CombineEF", Vals(srcs, quad), <<>>)
  <2>1. \A k \in 1 .. 4 : Vals(srcs, quad)[k] = quad[k].val
    BY <1>3 DEF Vals
  <2>2. Applied("CombineEF", Vals(srcs, quad), <<>>) = [k \in 1 .. 4 |-> Vals(srcs, quad)[k][1]]
    BY DEF Applied
  <2> QED BY <2>1, <2>2 DEF Meaning
<1>8. Reading(srcs, quad, V, 1)
  BY <1>3 DEF Reading
<1>9. combine_ef(recs, quad) = Result(Emitted(recs, 1, "CombineEF", srcs, <<>>), 1, TRUE, val)
  <2>1. quad[1].rec = 1
    OBVIOUS
  <2> HIDE DEF srcs, val
  <2>2. combine_ef(recs, quad) =
          Result(Emitted(recs, quad[1].rec, "CombineEF", srcs, <<>>), quad[1].rec, TRUE, val)
    BY DEF combine_ef, srcs, val
  <2> QED BY <2>1, <2>2
<1> HIDE DEF srcs, val
<1>10. WellFormed(Op("CombineEF", recs[1].next_reg, srcs, <<>>), top)
  BY <1>3, <1>5 DEF WellFormed, Op
<1>11. <<>> \in Seq(Int)
  OBVIOUS
<1>12. Yields(Result(Emitted(recs, 1, "CombineEF", srcs, <<>>), 1, TRUE, val), V, top, a, 1, TRUE, val)
  BY <1>1, <1>3, <1>4, <1>6, <1>7, <1>8, <1>10, <1>11, Emits
<1> QED BY <1>9, <1>12 DEF val

ColumnStep(before, curs, interaction, offsets, c) ==
  LET one == Loads(before.recs, interaction, curs[interaction] + (c - 1), offsets)
  IN [recs |-> one.recs, out |-> Append(before.out, one.out)]

ColumnsUpto(f, m, recs, curs, interaction, offsets) ==
  f = [i \in 0 .. m |-> IF i = 0 THEN NothingLoaded(recs)
                        ELSE ColumnStep(f[i - 1], curs, interaction, offsets, i)]

LEMMA ColumnsExist ==
  ASSUME NEW n \in Nat, NEW recs, NEW curs, NEW interaction, NEW offsets
  PROVE  \E f : ColumnsUpto(f, n, recs, curs, interaction, offsets)
<1> DEFINE Good == {m \in 0 .. n : \E f : ColumnsUpto(f, m, recs, curs, interaction, offsets)}
<1>1. 0 \in Good
  <2>1. ColumnsUpto([i \in 0 .. 0 |-> NothingLoaded(recs)], 0, recs, curs, interaction, offsets)
    BY DEF ColumnsUpto
  <2>2. 0 \in 0 .. n
    OBVIOUS
  <2> QED BY <2>1, <2>2
<1>2. ASSUME NEW m \in 0 .. n - 1, m \in Good PROVE m + 1 \in Good
  <2>1. PICK f : ColumnsUpto(f, m, recs, curs, interaction, offsets)
    BY <1>2
  <2> DEFINE g == [i \in 0 .. m + 1 |-> IF i = m + 1 THEN ColumnStep(f[m], curs, interaction, offsets, m + 1)
                                        ELSE f[i]]
  <2>2. ASSUME NEW i \in 0 .. m + 1
        PROVE  g[i] = IF i = 0 THEN NothingLoaded(recs)
                      ELSE ColumnStep(g[i - 1], curs, interaction, offsets, i)
    <3>1. CASE i = m + 1
      <4>1. i # 0 /\ i - 1 \in 0 .. m + 1 /\ i - 1 # m + 1 /\ i - 1 = m
        BY <3>1
      <4> QED BY <3>1, <4>1
    <3>2. CASE i # m + 1
      <4>1. i \in 0 .. m /\ g[i] = f[i] /\ (i # 0 => i - 1 \in 0 .. m + 1 /\ i - 1 # m + 1)
        BY <3>2
      <4>2. f[i] = IF i = 0 THEN NothingLoaded(recs) ELSE ColumnStep(f[i - 1], curs, interaction, offsets, i)
        BY <2>1, <4>1 DEF ColumnsUpto
      <4>3. i # 0 => g[i - 1] = f[i - 1]
        BY <4>1
      <4> HIDE DEF g
      <4> QED BY <4>1, <4>2, <4>3
    <3> QED BY <3>1, <3>2
  <2>3. ColumnsUpto(g, m + 1, recs, curs, interaction, offsets)
    BY <2>2 DEF ColumnsUpto
  <2> HIDE DEF g
  <2>4. m + 1 \in 0 .. n
    OBVIOUS
  <2> QED BY <2>3, <2>4
<1> HIDE DEF Good
<1>3. \A i \in 0 .. n : i \in Good
  BY <1>1, <1>2, Induction
<1>4. n \in Good
  BY <1>3
<1> QED BY <1>4 DEF Good

Cells(out, c, n) == UNION {{out[k][i] : i \in 1 .. n} : k \in 1 .. c}

\* c columns are loaded at each of n offsets.
Tabled(res, V, top, a, c, n) ==
  /\ State(res.recs, V \cup Cells(res.out, c, n), top, a)
  /\ res.out \in Seq(Seq(TracedSet)) /\ Len(res.out) = c
  /\ \A k \in 1 .. c : \A i \in 1 .. n : res.out[k][i].rec = 1

LEMMA ColumnOne ==
  ASSUME NEW res, NEW V, NEW top, NEW a, NEW curs, NEW interaction \in Interactions,
         NEW offsets \in Seq(Int), NEW c \in Nat, Tabled(res, V, top, a, c, Len(offsets)),
         curs[interaction] + ((c + 1) - 1) \in 0 .. top[interaction] - 1
  PROVE  Tabled(ColumnStep(res, curs, interaction, offsets, c + 1), V, top, a, c + 1, Len(offsets))
<1> DEFINE col == curs[interaction] + ((c + 1) - 1)
           n == Len(offsets)
           W == V \cup Cells(res.out, c, n)
           one == Loads(res.recs, interaction, col, offsets)
           new == ColumnStep(res, curs, interaction, offsets, c + 1)
           outs == res.out
<1>1. State(res.recs, W, top, a) /\ outs \in Seq(Seq(TracedSet)) /\ Len(outs) = c
  BY DEF Tabled
<1>2. new = [recs |-> one.recs, out |-> Append(outs, one.out)]
  BY DEF ColumnStep
<1> HIDE DEF col, W
<1>3. Loaded(one, W, top, a, interaction, col, offsets, n)
  BY <1>1, LoadsMake DEF col
<1> HIDE DEF one, new, outs, n
<1>4. /\ State(one.recs, W \cup {one.out[k] : k \in 1 .. n}, top, a)
      /\ one.out \in Seq(TracedSet) /\ \A k \in 1 .. n : one.out[k].rec = 1
  BY <1>3 DEF Loaded
<1>5. /\ Append(outs, one.out) \in Seq(Seq(TracedSet)) /\ Len(Append(outs, one.out)) = c + 1
      /\ \A k \in 1 .. c : Append(outs, one.out)[k] = outs[k]
      /\ Append(outs, one.out)[c + 1] = one.out
  BY <1>1, <1>4, Appended
<1>6. new.recs = one.recs /\ new.out = Append(outs, one.out)
  BY <1>2
<1>7. \A k \in 1 .. c + 1 : k \in 1 .. c \/ k = c + 1
  OBVIOUS
<1>8. V \cup Cells(new.out, c + 1, n) \subseteq W \cup {one.out[k] : k \in 1 .. n}
  <2>1. ASSUME NEW k \in 1 .. c + 1, NEW i \in 1 .. n
        PROVE  new.out[k][i] \in W \cup {one.out[j] : j \in 1 .. n}
    <3>1. CASE k = c + 1
      BY <3>1, <1>5, <1>6
    <3>2. CASE k \in 1 .. c
      <4>1. new.out[k][i] = outs[k][i]
        BY <3>2, <1>5, <1>6
      <4>2. outs[k][i] \in Cells(outs, c, n)
        BY <3>2 DEF Cells
      <4>3. outs[k][i] \in W
        BY <4>2 DEF W, outs
      <4> QED BY <4>1, <4>3
    <3> QED BY <1>7, <3>1, <3>2
  <2>2. V \subseteq W
    BY DEF W
  <2> DEFINE U == W \cup {one.out[j] : j \in 1 .. n}
  <2>3. ASSUME NEW y \in Cells(new.out, c + 1, n) PROVE y \in U
    <3>1. PICK k \in 1 .. c + 1 : y \in {new.out[k][i] : i \in 1 .. n}
      BY DEF Cells
    <3>2. PICK i \in 1 .. n : y = new.out[k][i]
      BY <3>1
    <3> QED BY <3>2, <2>1
  <2>4. V \subseteq U
    BY <2>2
  <2> HIDE DEF U
  <2>5. V \cup Cells(new.out, c + 1, n) \subseteq U
    BY <2>3, <2>4
  <2> QED BY <2>5 DEF U
<1>9. State(new.recs, V \cup Cells(new.out, c + 1, n), top, a)
  BY <1>4, <1>6, <1>8, FewerKnown
<1>10. ASSUME NEW k \in 1 .. c + 1, NEW i \in 1 .. n PROVE new.out[k][i].rec = 1
  <2>1. CASE k = c + 1
    BY <2>1, <1>4, <1>5, <1>6
  <2>2. CASE k \in 1 .. c
    <3>1. new.out[k][i] = res.out[k][i]
      BY <2>2, <1>5, <1>6 DEF outs
    <3> QED BY <2>2, <3>1 DEF Tabled, n
  <2> QED BY <1>7, <2>1, <2>2
<1>11. new.out \in Seq(Seq(TracedSet)) /\ Len(new.out) = c + 1
  BY <1>5, <1>6
<1>12. Tabled(new, V, top, a, c + 1, n)
  BY <1>9, <1>10, <1>11 DEF Tabled
<1> QED BY <1>12 DEF new, n

CombineStep(before, columns, i) ==
  LET one == combine_ef(before.recs, [k \in 1 .. 4 |-> columns[k][i]])
  IN [recs |-> one.recs, out |-> Append(before.out, one.out)]

CombinesUpto(f, m, recs, columns) ==
  f = [i \in 0 .. m |-> IF i = 0 THEN NothingLoaded(recs) ELSE CombineStep(f[i - 1], columns, i)]

LEMMA CombinesExist ==
  ASSUME NEW n \in Nat, NEW recs, NEW columns
  PROVE  \E f : CombinesUpto(f, n, recs, columns)
<1> DEFINE Good == {m \in 0 .. n : \E f : CombinesUpto(f, m, recs, columns)}
<1>1. 0 \in Good
  <2>1. CombinesUpto([i \in 0 .. 0 |-> NothingLoaded(recs)], 0, recs, columns)
    BY DEF CombinesUpto
  <2>2. 0 \in 0 .. n
    OBVIOUS
  <2> QED BY <2>1, <2>2
<1>2. ASSUME NEW m \in 0 .. n - 1, m \in Good PROVE m + 1 \in Good
  <2>1. PICK f : CombinesUpto(f, m, recs, columns)
    BY <1>2
  <2> DEFINE g == [i \in 0 .. m + 1 |-> IF i = m + 1 THEN CombineStep(f[m], columns, m + 1) ELSE f[i]]
  <2>2. ASSUME NEW i \in 0 .. m + 1
        PROVE  g[i] = IF i = 0 THEN NothingLoaded(recs) ELSE CombineStep(g[i - 1], columns, i)
    <3>1. CASE i = m + 1
      <4>1. i # 0 /\ i - 1 \in 0 .. m + 1 /\ i - 1 # m + 1 /\ i - 1 = m
        BY <3>1
      <4> QED BY <3>1, <4>1
    <3>2. CASE i # m + 1
      <4>1. i \in 0 .. m /\ g[i] = f[i] /\ (i # 0 => i - 1 \in 0 .. m + 1 /\ i - 1 # m + 1)
        BY <3>2
      <4>2. f[i] = IF i = 0 THEN NothingLoaded(recs) ELSE CombineStep(f[i - 1], columns, i)
        BY <2>1, <4>1 DEF CombinesUpto
      <4>3. i # 0 => g[i - 1] = f[i - 1]
        BY <4>1
      <4> HIDE DEF g
      <4> QED BY <4>1, <4>2, <4>3
    <3> QED BY <3>1, <3>2
  <2>3. CombinesUpto(g, m + 1, recs, columns)
    BY <2>2 DEF CombinesUpto
  <2> HIDE DEF g
  <2>4. m + 1 \in 0 .. n
    OBVIOUS
  <2> QED BY <2>3, <2>4
<1> HIDE DEF Good
<1>3. \A i \in 0 .. n : i \in Good
  BY <1>1, <1>2, Induction
<1>4. n \in Good
  BY <1>3
<1> QED BY <1>4 DEF Good

\* n values are made, beside those of V.
Masked(res, V, top, a, n) ==
  /\ State(res.recs, V \cup {res.out[i] : i \in 1 .. n}, top, a)
  /\ res.out \in Seq(TracedSet) /\ Len(res.out) = n

LEMMA CombineOne ==
  ASSUME NEW res, NEW V, NEW top, NEW a, NEW columns, NEW n \in Nat, Masked(res, V, top, a, n),
         \A k \in 1 .. 4 : columns[k][n + 1] \in V /\ columns[k][n + 1].rec = 1
  PROVE  Masked(CombineStep(res, columns, n + 1), V, top, a, n + 1)
<1> DEFINE quad == [k \in 1 .. 4 |-> columns[k][n + 1]]
           W == V \cup {res.out[i] : i \in 1 .. n}
           one == combine_ef(res.recs, quad)
           new == CombineStep(res, columns, n + 1)
           outs == res.out
<1>1. State(res.recs, W, top, a) /\ outs \in Seq(TracedSet) /\ Len(outs) = n
  BY DEF Masked
<1>2. new = [recs |-> one.recs, out |-> Append(outs, one.out)]
  BY DEF CombineStep
<1>3. \A k \in 1 .. 4 : quad[k] \in W /\ quad[k].rec = 1
  OBVIOUS
<1> HIDE DEF quad, W
<1>4. Yields(one, W, top, a, 1, TRUE, [k \in 1 .. 4 |-> quad[k].val[1]])
  BY <1>1, <1>3, CombineYields
<1> HIDE DEF one, new, outs
<1>5. State(one.recs, W \cup {one.out}, top, a) /\ one.out \in TracedSet
  BY <1>4 DEF Yields
<1>6. /\ Append(outs, one.out) \in Seq(TracedSet) /\ Len(Append(outs, one.out)) = n + 1
      /\ \A k \in 1 .. n : Append(outs, one.out)[k] = outs[k]
      /\ Append(outs, one.out)[n + 1] = one.out
  BY <1>1, <1>5, Appended
<1>7. new.recs = one.recs /\ new.out = Append(outs, one.out)
  BY <1>2
<1>8. \A k \in 1 .. n + 1 : k \in 1 .. n \/ k = n + 1
  OBVIOUS
<1>9. V \cup {new.out[k] : k \in 1 .. n + 1} \subseteq W \cup {one.out}
  BY <1>6, <1>7, <1>8 DEF W, outs
<1>10. State(new.recs, V \cup {new.out[k] : k \in 1 .. n + 1}, top, a)
  BY <1>5, <1>7, <1>9, FewerKnown
<1>11. Masked(new, V, top, a, n + 1)
  BY <1>6, <1>7, <1>10 DEF Masked
<1> QED BY <1>11 DEF new

LEMMA CombinesMake ==
  ASSUME NEW columns, NEW V, NEW top, NEW a, NEW recs, NEW n \in Nat,
         State(recs, V \cup Cells(columns, 4, n), top, a),
         \A k \in 1 .. 4 : \A i \in 1 .. n : columns[k][i].rec = 1,
         NEW f, CombinesUpto(f, n, recs, columns)
  PROVE  Masked(f[n], V, top, a, n)
<1> DEFINE W == V \cup Cells(columns, 4, n)
           Good == {m \in 0 .. n : Masked(f[m], W, top, a, m)}
<1>1. /\ f[0] = NothingLoaded(recs)
      /\ \A m \in 0 .. n - 1 : f[m + 1] = CombineStep(f[m], columns, m + 1)
  <2>1. 0 \in 0 .. n /\ \A m \in 0 .. n - 1 : m + 1 \in 0 .. n /\ m + 1 # 0 /\ (m + 1) - 1 = m
    OBVIOUS
  <2> QED BY <2>1 DEF CombinesUpto
<1>2. \A k \in 1 .. 4 : \A i \in 1 .. n : columns[k][i] \in W
  BY DEF Cells
<1>3. State(recs, W, top, a) /\ V \subseteq W
  OBVIOUS
<1> HIDE DEF W
<1>4. 0 \in Good
  <2> DEFINE g == f[0]
  <2>1. W \cup {g.out[k] : k \in 1 .. 0} = W
    OBVIOUS
  <2>2. g.recs = recs /\ g.out = <<>>
    BY <1>1 DEF NothingLoaded
  <2> HIDE DEF g
  <2>3. g.out \in Seq(TracedSet) /\ Len(g.out) = 0
    BY <2>2
  <2>4. State(g.recs, W \cup {g.out[k] : k \in 1 .. 0}, top, a)
    BY <1>3, <2>1, <2>2
  <2>5. Masked(g, W, top, a, 0)
    BY <2>3, <2>4 DEF Masked
  <2> QED BY <2>5 DEF g
<1>5. ASSUME NEW m \in 0 .. n - 1, m \in Good PROVE m + 1 \in Good
  <2>1. Masked(f[m], W, top, a, m)
    BY <1>5
  <2>2. m \in Nat /\ m + 1 \in 1 .. n /\ m + 1 \in 0 .. n
    OBVIOUS
  <2>3. \A k \in 1 .. 4 : columns[k][m + 1] \in W /\ columns[k][m + 1].rec = 1
    BY <1>2, <2>2
  <2> HIDE DEF Good
  <2>4. Masked(CombineStep(f[m], columns, m + 1), W, top, a, m + 1)
    BY <2>1, <2>2, <2>3, CombineOne
  <2> QED BY <1>1, <2>2, <2>4 DEF Good
<1> HIDE DEF Good
<1>6. \A m \in 0 .. n : m \in Good
  BY <1>4, <1>5, Induction
<1>7. Masked(f[n], W, top, a, n)
  BY <1>6 DEF Good
<1>8. V \cup {f[n].out[i] : i \in 1 .. n} \subseteq W \cup {f[n].out[i] : i \in 1 .. n}
  BY <1>3
<1> QED BY <1>7, <1>8, FewerKnown DEF Masked

LEMMA ColumnsMake ==
  ASSUME NEW recs, NEW V, NEW top, NEW a, State(recs, V, top, a), NEW curs,
         NEW interaction \in Interactions, NEW offsets \in Seq(Int),
         NEW low \in Nat, curs[interaction] = low, low + 4 <= top[interaction],
         NEW f, ColumnsUpto(f, 4, recs, curs, interaction, offsets)
  PROVE  Tabled(f[4], V, top, a, 4, Len(offsets))
<1> DEFINE n == Len(offsets)
           Good == {m \in 0 .. 4 : Tabled(f[m], V, top, a, m, n)}
<1>0. 4 \in Nat
  OBVIOUS
<1>1. /\ f[0] = NothingLoaded(recs)
      /\ \A m \in 0 .. 3 : f[m + 1] = ColumnStep(f[m], curs, interaction, offsets, m + 1)
  <2>1. 0 \in 0 .. 4 /\ \A m \in 0 .. 3 : m + 1 \in 0 .. 4 /\ m + 1 # 0 /\ (m + 1) - 1 = m
    OBVIOUS
  <2> QED BY <2>1 DEF ColumnsUpto
<1>2. top[interaction] \in Nat
  BY DEF State, Typed
<1>3. \A m \in 0 .. 3 : curs[interaction] + ((m + 1) - 1) \in 0 .. top[interaction] - 1
  <2> DEFINE t == top[interaction]
  <2>1. t \in Nat /\ low + 4 <= t
    BY <1>2
  <2> HIDE DEF t
  <2>2. \A m \in 0 .. 3 : low + ((m + 1) - 1) \in 0 .. t - 1
    BY <2>1
  <2> QED BY <2>2 DEF t
<1>4. 0 \in Good
  <2> DEFINE g == f[0]
  <2>1. V \cup Cells(g.out, 0, n) = V
    BY DEF Cells
  <2>2. g.recs = recs /\ g.out = <<>>
    BY <1>1 DEF NothingLoaded
  <2> HIDE DEF g, n
  <2>3. g.out \in Seq(Seq(TracedSet)) /\ Len(g.out) = 0
    BY <2>2
  <2>4. State(g.recs, V \cup Cells(g.out, 0, n), top, a)
    BY <2>1, <2>2
  <2>5. Tabled(g, V, top, a, 0, n)
    BY <2>3, <2>4 DEF Tabled
  <2> QED BY <2>5 DEF g
<1>5. ASSUME NEW m \in 0 .. 4 - 1, m \in Good PROVE m + 1 \in Good
  <2>1. Tabled(f[m], V, top, a, m, n)
    BY <1>5
  <2>2. m \in Nat /\ m \in 0 .. 3 /\ m + 1 \in 0 .. 4
    OBVIOUS
  <2>3. Tabled(ColumnStep(f[m], curs, interaction, offsets, m + 1), V, top, a, m + 1, n)
    BY <1>3, <2>1, <2>2, ColumnOne
  <2> HIDE DEF n
  <2> QED BY <1>1, <2>2, <2>3
<1> HIDE DEF Good
<1>6. \A m \in 0 .. 4 : m \in Good
  BY ONLY <1>0, <1>4, <1>5, Induction
<1>7. 4 \in 0 .. 4
  OBVIOUS
<1> QED BY <1>6, <1>7 DEF Good

\* The extension columns after the ones of the interaction known so far.
LEMMA MaskMakes ==
  ASSUME NEW recs, NEW V, NEW top, NEW a, State(recs, V, top, a), NEW curs,
         NEW interaction \in Interactions, NEW offsets \in Seq(Int),
         NEW low \in Nat, curs[interaction] = low, low + 4 <= top[interaction]
  PROVE  Masked(next_extension_interaction_mask(recs, curs, interaction, offsets), V, top, a,
                Len(offsets))
<1> DEFINE n == Len(offsets)
           f == CHOOSE g : ColumnsUpto(g, 4, recs, curs, interaction, offsets)
           h == CHOOSE g : CombinesUpto(g, n, f[4].recs, f[4].out)
<1>1. n \in Nat /\ 4 \in Nat
  OBVIOUS
<1>2. ColumnsUpto(f, 4, recs, curs, interaction, offsets)
  BY <1>1, ColumnsExist
<1>3. next_extension_interaction_mask(recs, curs, interaction, offsets) = h[n]
  BY DEF next_extension_interaction_mask, ColumnsUpto, ColumnStep, CombinesUpto, CombineStep,
         NothingLoaded
<1>4. CombinesUpto(h, n, f[4].recs, f[4].out)
  <2> HIDE DEF f, n
  <2> QED BY <1>1, CombinesExist
<1> HIDE DEF f, h
<1>5. Tabled(f[4], V, top, a, 4, n)
  BY <1>2, ColumnsMake
<1> HIDE DEF n
<1>6. /\ State(f[4].recs, V \cup Cells(f[4].out, 4, n), top, a)
      /\ \A k \in 1 .. 4 : \A i \in 1 .. n : f[4].out[k][i].rec = 1
  BY <1>5 DEF Tabled
<1>7. Masked(h[n], V, top, a, n)
  BY <1>1, <1>4, <1>6, CombinesMake
<1> QED BY <1>3, <1>7 DEF n

-----------------------------------------------------------------------------
\* The logUp constraints.

\* A value is made, whatever it is worth.
Gives(res, V, top, a) == State(res.recs, V \cup {res.out}, top, a) /\ res.out \in TracedSet

LEMMA TwoGive ==
  ASSUME NEW recs, NEW V, NEW top, NEW a, State(recs, V, top, a), NEW x \in V, NEW y \in V
  PROVE  /\ Gives(Added(recs, x, y), V, top, a)
         /\ Gives(Subtracted(recs, x, y), V, top, a)
         /\ Gives(Multiplied(recs, x, y), V, top, a)
         /\ Subtracted(recs, x, y).out.val = Minus(x.val, y.val)
<1>1. /\ Makes(Added(recs, x, y), V, top, a, x.wide, Plus(x.val, y.val))
      /\ Makes(Subtracted(recs, x, y), V, top, a, x.wide, Minus(x.val, y.val))
      /\ Makes(Multiplied(recs, x, y), V, top, a, x.wide, Times(x.val, y.val))
  BY AddedMakes, SubtractedMakes, MultipliedMakes
<1>2. \A res, wide, val : Makes(res, V, top, a, wide, val) => Gives(res, V, top, a) /\ res.out.val = val
  BY DEF Makes, Yields, Gives
<1> QED BY ONLY <1>1, <1>2

LEMMA Added2Gives ==
  ASSUME NEW recs, NEW V, NEW top, NEW a, State(recs, V, top, a),
         NEW x \in V, NEW y \in V, NEW z \in V, NEW w \in V
  PROVE  Gives(Added2(recs, x, y, z, w), V, top, a)
<1> DEFINE left == Multiplied(recs, x, y)
           right == Multiplied(left.recs, z, w)
           sum == Added(right.recs, left.out, right.out)
           V1 == V \cup {left.out}
           V2 == V1 \cup {right.out}
           V3 == V2 \cup {sum.out}
<1>1. State(left.recs, V1, top, a)
  <2> HIDE DEF left
  <2> QED BY TwoGive DEF Gives, left
<1>2. z \in V1 /\ w \in V1 /\ left.out \in V1 /\ V \subseteq V1
  OBVIOUS
<1> HIDE DEF V1, left
<1>3. State(right.recs, V2, top, a)
  <2>1. Gives(right, V1, top, a)
    BY <1>1, <1>2, TwoGive
  <2> QED BY <2>1 DEF Gives
<1>4. left.out \in V2 /\ right.out \in V2 /\ V \subseteq V2
  BY <1>2
<1> HIDE DEF V2, right
<1>5. State(sum.recs, V3, top, a) /\ sum.out \in TracedSet
  <2>1. Gives(sum, V2, top, a)
    BY <1>3, <1>4, TwoGive
  <2> QED BY <2>1 DEF Gives
<1>6. Added2(recs, x, y, z, w) = sum
  BY DEF Added2, left, right
<1>7. V \cup {sum.out} \subseteq V3
  BY <1>4
<1> HIDE DEF V3, sum
<1> QED BY <1>5, <1>6, <1>7, FewerKnown DEF Gives

FracStep(acc, frac) ==
  LET num == Added2(acc.recs, acc.num, frac.den, frac.num, acc.den)
      den == Multiplied(num.recs, acc.den, frac.den)
  IN [recs |-> den.recs, num |-> num.out, den |-> den.out]
FirstFrac(recs, batch) == [recs |-> recs, num |-> batch[1].num, den |-> batch[1].den]

SumsUpto(f, m, recs, batch) ==
  f = [i \in 1 .. m |-> IF i = 1 THEN FirstFrac(recs, batch) ELSE FracStep(f[i - 1], batch[i])]

LEMMA SumsExist ==
  ASSUME NEW n \in Nat \ {0}, NEW recs, NEW batch
  PROVE  \E f : SumsUpto(f, n, recs, batch)
<1> DEFINE k == n - 1
           Good == {m \in 0 .. k : \E f : SumsUpto(f, m + 1, recs, batch)}
<1>0. k \in Nat /\ k + 1 = n
  OBVIOUS
<1>1. 0 \in Good
  <2>1. SumsUpto([i \in 1 .. 1 |-> FirstFrac(recs, batch)], 1, recs, batch)
    BY DEF SumsUpto
  <2>2. 0 \in 0 .. k /\ 0 + 1 = 1
    BY <1>0
  <2> QED BY <2>1, <2>2
<1>2. ASSUME NEW l \in 0 .. k - 1, l \in Good PROVE l + 1 \in Good
  <2> DEFINE m == l + 1
  <2>0. m \in Nat /\ m # 0 /\ m \in 0 .. k
    BY <1>0
  <2>1. PICK f : SumsUpto(f, m, recs, batch)
    BY <1>2
  <2> HIDE DEF m
  <2> DEFINE g == [i \in 1 .. m + 1 |-> IF i = m + 1 THEN FracStep(f[m], batch[m + 1]) ELSE f[i]]
  <2>2. ASSUME NEW i \in 1 .. m + 1
        PROVE  g[i] = IF i = 1 THEN FirstFrac(recs, batch) ELSE FracStep(g[i - 1], batch[i])
    <3>1. CASE i = m + 1
      <4>1. i # 1 /\ i - 1 \in 1 .. m + 1 /\ i - 1 # m + 1 /\ i - 1 = m
        BY <3>1, <2>0
      <4> QED BY <3>1, <4>1
    <3>2. CASE i # m + 1
      <4>1. i \in 1 .. m /\ g[i] = f[i] /\ (i # 1 => i - 1 \in 1 .. m + 1 /\ i - 1 # m + 1)
        BY <3>2, <2>0
      <4>2. f[i] = IF i = 1 THEN FirstFrac(recs, batch) ELSE FracStep(f[i - 1], batch[i])
        BY <2>1, <4>1 DEF SumsUpto
      <4>3. i # 1 => g[i - 1] = f[i - 1]
        BY <4>1
      <4> HIDE DEF g
      <4> QED BY <4>1, <4>2, <4>3
    <3> QED BY <3>1, <3>2
  <2>3. SumsUpto(g, m + 1, recs, batch)
    BY <2>2 DEF SumsUpto
  <2> HIDE DEF g
  <2> QED BY <2>0, <2>3 DEF m
<1> HIDE DEF Good
<1>3. \A i \in 0 .. k : i \in Good
  BY <1>0, <1>1, <1>2, Induction
<1>4. k \in Good
  BY <1>0, <1>3
<1> QED BY <1>0, <1>4 DEF Good

\* A fraction is made of values known.
FracOver(frac, V) == frac.num \in V /\ frac.den \in V
Summed(acc, V, top, a) == State(acc.recs, V \cup {acc.num, acc.den}, top, a)

LEMMA FracOne ==
  ASSUME NEW acc, NEW V, NEW top, NEW a, Summed(acc, V, top, a), NEW frac, FracOver(frac, V)
  PROVE  Summed(FracStep(acc, frac), V, top, a)
<1> DEFINE W == V \cup {acc.num, acc.den}
           num == Added2(acc.recs, acc.num, frac.den, frac.num, acc.den)
           den == Multiplied(num.recs, acc.den, frac.den)
           V1 == W \cup {num.out}
           V2 == V1 \cup {den.out}
           new == FracStep(acc, frac)
<1>1. State(acc.recs, W, top, a)
  BY DEF Summed
<1>2. acc.num \in W /\ acc.den \in W /\ frac.num \in W /\ frac.den \in W /\ V \subseteq W
  BY DEF FracOver
<1>3. new = [recs |-> den.recs, num |-> num.out, den |-> den.out]
  BY DEF FracStep
<1> HIDE DEF W, new
<1>4. State(num.recs, V1, top, a)
  <2>1. Gives(num, W, top, a)
    BY <1>1, <1>2, Added2Gives
  <2> QED BY <2>1 DEF Gives
<1>5. num.out \in V1 /\ acc.den \in V1 /\ frac.den \in V1 /\ V \subseteq V1
  BY <1>2
<1> HIDE DEF num, V1
<1>6. State(den.recs, V2, top, a)
  <2>1. Gives(den, V1, top, a)
    BY <1>4, <1>5, TwoGive
  <2> QED BY <2>1 DEF Gives
<1>7. V \cup {num.out, den.out} \subseteq V2
  BY <1>5
<1> HIDE DEF den, V2
<1>8. new.recs = den.recs /\ new.num = num.out /\ new.den = den.out
  BY <1>3
<1>9. Summed(new, V, top, a)
  BY <1>6, <1>7, <1>8, FewerKnown DEF Summed
<1> QED BY <1>9 DEF new

LEMMA SumMakes ==
  ASSUME NEW recs, NEW V, NEW top, NEW a, State(recs, V, top, a), NEW batch,
         Len(batch) \in Nat \ {0}, \A i \in 1 .. Len(batch) : FracOver(batch[i], V)
  PROVE  Summed(sum_fractions(recs, batch), V, top, a)
<1> DEFINE n == Len(batch)
           f == CHOOSE g : SumsUpto(g, n, recs, batch)
           k == n - 1
           Good == {m \in 0 .. k : Summed(f[m + 1], V, top, a)}
<1>1. n \in Nat \ {0} /\ k \in Nat /\ k + 1 = n
  OBVIOUS
<1>2. sum_fractions(recs, batch) = f[n]
  BY DEF sum_fractions, SumsUpto, FracStep, FirstFrac
<1> HIDE DEF n
<1>3. SumsUpto(f, n, recs, batch)
  BY <1>1, SumsExist
<1> HIDE DEF f, k
<1>4. /\ f[1] = FirstFrac(recs, batch)
      /\ \A m \in 1 .. n - 1 : f[m + 1] = FracStep(f[m], batch[m + 1])
  <2>1. 1 \in 1 .. n /\ \A m \in 1 .. n - 1 : m + 1 \in 1 .. n /\ m + 1 # 1 /\ (m + 1) - 1 = m
    BY <1>1
  <2> QED BY <2>1, <1>3 DEF SumsUpto
<1>5. 0 \in Good
  <2> DEFINE g == f[1]
             b1 == batch[1]
  <2>1. g.recs = recs /\ g.num = b1.num /\ g.den = b1.den
    BY <1>4 DEF FirstFrac
  <2>2. FracOver(b1, V)
    BY <1>1 DEF n
  <2> HIDE DEF g, b1
  <2>3. V \cup {g.num, g.den} = V
    BY <2>1, <2>2 DEF FracOver
  <2>4. Summed(g, V, top, a)
    BY <2>1, <2>3 DEF Summed
  <2>5. 0 \in 0 .. k /\ 0 + 1 = 1
    BY <1>1
  <2> QED BY <2>4, <2>5 DEF g
<1>6. ASSUME NEW m \in 0 .. k - 1, m \in Good PROVE m + 1 \in Good
  <2>1. Summed(f[m + 1], V, top, a)
    BY <1>6
  <2> DEFINE j == m + 1
  <2>2. j \in 1 .. n - 1 /\ j + 1 \in 1 .. n /\ j \in 0 .. k
    BY <1>1
  <2> HIDE DEF j
  <2>3. FracOver(batch[j + 1], V)
    BY <2>2 DEF n
  <2>4. Summed(FracStep(f[j], batch[j + 1]), V, top, a)
    BY <2>1, <2>3, FracOne DEF j
  <2>5. Summed(f[j + 1], V, top, a)
    BY <1>4, <2>2, <2>4
  <2> QED BY <2>2, <2>5 DEF j
<1> HIDE DEF Good
<1>7. \A m \in 0 .. k : m \in Good
  BY <1>1, <1>5, <1>6, Induction
<1>8. k \in Good
  BY <1>1, <1>7
<1> QED BY <1>1, <1>2, <1>8 DEF Good

LEMMA FractionAdds ==
  ASSUME NEW recs, NEW V, NEW top, NEW a, State(recs, V, top, a), NEW diff \in V,
         NEW frac, FracOver(frac, V)
  PROVE  /\ State(FractionConstraint(recs, diff, frac).recs, V, top,
                  Append(a, FractionConstraint(recs, diff, frac).val))
         /\ FractionConstraint(recs, diff, frac).val \in Value
<1> DEFINE product == Multiplied(recs, diff, frac.den)
           constraint == Subtracted(product.recs, product.out, frac.num)
           V1 == V \cup {product.out}
           V2 == V1 \cup {constraint.out}
           new == FractionConstraint(recs, diff, frac)
<1>1. frac.num \in V /\ frac.den \in V
  BY DEF FracOver
<1>2. new = [recs |-> add_constraint(constraint.recs, constraint.out), val |-> constraint.out.val]
  BY DEF FractionConstraint
<1>3. State(product.recs, V1, top, a)
  <2>1. Gives(product, V, top, a)
    BY <1>1, TwoGive
  <2> QED BY <2>1 DEF Gives
<1>4. product.out \in V1 /\ frac.num \in V1 /\ V \subseteq V1
  BY <1>1
<1> HIDE DEF product, V1, new
<1>5. State(constraint.recs, V2, top, a) /\ constraint.out \in TracedSet
  <2>1. Gives(constraint, V1, top, a)
    BY <1>3, <1>4, TwoGive
  <2> QED BY <2>1 DEF Gives
<1>6. constraint.out \in V2 /\ V \subseteq V2
  BY <1>4
<1> HIDE DEF constraint, V2
<1>7. State(add_constraint(constraint.recs, constraint.out), V2, top, Append(a, constraint.out.val))
  BY <1>5, <1>6, AddsConstraint
<1>8. new.recs = add_constraint(constraint.recs, constraint.out) /\ new.val = constraint.out.val
  BY <1>2
<1>9. constraint.out.val \in Value
  BY <1>5 DEF TracedSet
<1>10. State(new.recs, V, top, Append(a, new.val)) /\ new.val \in Value
  BY <1>6, <1>7, <1>8, <1>9, FewerKnown
<1> QED BY <1>10 DEF new

\* The batches take their fractions from those written.
Batched(batching, F) ==
  /\ batching \in [1 .. F -> Nat] /\ F \in Nat \ {0}
  /\ batching = [i \in 1 .. F |-> i - 1] \/ batching = [i \in 1 .. F |-> (i - 1) \div 2]

LEMMA HalfFacts ==
  ASSUME NEW i \in Nat, NEW b \in Nat, i >= 1
  PROVE  (i - 1) \div 2 = b <=> i = 2 * b + 1 \/ i = 2 * b + 2
  OBVIOUS

\* Batch b has n members, and each of its places has one.
Numbered(batching, b, F, n) ==
  /\ Cardinality({j \in 1 .. F : batching[j] = b}) = n
  /\ \A i \in 1 .. n : \E j \in 1 .. F :
       batching[j] = b /\ Cardinality({h \in 1 .. j : batching[h] = b}) = i

LEMMA InSingles ==
  ASSUME NEW F \in Nat \ {0}, NEW batching, batching = [i \in 1 .. F |-> i - 1],
         NEW b \in 0 .. batching[F]
  PROVE  Numbered(batching, b, F, 1)
<1>1. F \in 1 .. F /\ batching[F] = F - 1
  OBVIOUS
<1>2. b + 1 \in 1 .. F /\ b \in Nat
  BY <1>1
<1>3. {j \in 1 .. F : batching[j] = b} = {b + 1}
  BY <1>2
<1>4. {h \in 1 .. b + 1 : batching[h] = b} = {b + 1}
  BY <1>2
<1>5. Cardinality({b + 1}) = 1
  BY FS_Singleton
<1>6. \A i \in 1 .. 1 : i = 1
  OBVIOUS
<1>7. batching[b + 1] = b
  BY <1>2
<1> QED BY <1>2, <1>3, <1>4, <1>5, <1>6, <1>7 DEF Numbered

LEMMA InPairs ==
  ASSUME NEW F \in Nat \ {0}, NEW batching, batching = [i \in 1 .. F |-> (i - 1) \div 2],
         NEW b \in 0 .. batching[F]
  PROVE  Numbered(batching, b, F, 1) \/ Numbered(batching, b, F, 2)
<1> DEFINE S == {j \in 1 .. F : batching[j] = b}
           p == 2 * b + 1
           q == 2 * b + 2
<1>1. F \in 1 .. F /\ batching[F] = (F - 1) \div 2
  OBVIOUS
<1>2. b \in Nat /\ b <= (F - 1) \div 2
  <2>1. F - 1 \in Nat /\ (F - 1) \div 2 \in Nat
    OBVIOUS
  <2> QED BY <1>1, <2>1
<1>3. p \in 1 .. F
  BY <1>2
<1>4. \A j \in 1 .. F : batching[j] = b <=> j = p \/ j = q
  <2> TAKE j \in 1 .. F
  <2>1. batching[j] = (j - 1) \div 2
    OBVIOUS
  <2>2. j \in Nat /\ j >= 1
    OBVIOUS
  <2> QED BY <1>2, <2>1, <2>2, HalfFacts
<1>5. p \in Nat /\ q = p + 1
  BY <1>2
<1> HIDE DEF p, q
<1>6. Cardinality({p}) = 1 /\ Cardinality({p, q}) = 2
  <2>1. Cardinality({p}) = 1
    BY FS_Singleton
  <2>1a. IsFiniteSet({p})
    BY FS_Singleton
  <2>2. q \notin {p}
    BY <1>5
  <2>3. Cardinality({p} \cup {q}) = Cardinality({p}) + 1
    BY <2>1a, <2>2, FS_AddElement
  <2>4. {p} \cup {q} = {p, q}
    OBVIOUS
  <2>5. Cardinality({p, q}) = 1 + 1
    BY <2>1, <2>3, <2>4
  <2> QED BY <2>1, <2>5
<1>7. batching[p] = b /\ {h \in 1 .. p : batching[h] = b} = {p}
  <2>1. \A h \in 1 .. p : h \in 1 .. F /\ h # q
    BY <1>3, <1>5
  <2>2. p \in 1 .. p
    BY <1>3
  <2> HIDE DEF S
  <2> QED BY <1>3, <1>4, <2>1, <2>2
<1>8. CASE q \in 1 .. F
  <2>1. S = {p, q}
    BY <1>3, <1>4, <1>8
  <2>2. batching[q] = b /\ {h \in 1 .. q : batching[h] = b} = {p, q}
    <3>1. \A h \in 1 .. q : h \in 1 .. F
      BY <1>8
    <3>2. p \in 1 .. q /\ q \in 1 .. q
      BY <1>3, <1>5
    <3> QED BY <1>4, <1>8, <3>1, <3>2
  <2>3. \A i \in 1 .. 2 : i = 1 \/ i = 2
    OBVIOUS
  <2>4. Cardinality(S) = 2
    BY <1>6, <2>1
  <2>5. \A i \in 1 .. 2 : \E j \in 1 .. F :
        batching[j] = b /\ Cardinality({h \in 1 .. j : batching[h] = b}) = i
    BY <1>3, <1>6, <1>7, <1>8, <2>2, <2>3
  <2> QED BY <2>4, <2>5 DEF Numbered
<1>9. CASE q \notin 1 .. F
  <2>1. S = {p}
    BY <1>3, <1>4, <1>9
  <2>2. Cardinality(S) = 1
    BY <1>6, <2>1
  <2>3. \A i \in 1 .. 1 : i = 1
    OBVIOUS
  <2>4. \A i \in 1 .. 1 : \E j \in 1 .. F :
        batching[j] = b /\ Cardinality({h \in 1 .. j : batching[h] = b}) = i
    BY <1>3, <1>6, <1>7, <2>3
  <2> QED BY <2>2, <2>4 DEF Numbered
<1> QED BY <1>8, <1>9

LEMMA BatchFacts ==
  ASSUME NEW V, DOMAIN fracs = 1 .. Len(fracs), \A j \in 1 .. Len(fracs) : FracOver(fracs[j], V),
         NEW batching, Batched(batching, Len(fracs)), NEW b \in 0 .. batching[Len(fracs)]
  PROVE  /\ Len(BatchOf(batching, b)) \in Nat \ {0}
         /\ \A i \in 1 .. Len(BatchOf(batching, b)) : FracOver(BatchOf(batching, b)[i], V)
<1> DEFINE F == Len(fracs)
           n == Cardinality({j \in 1 .. F : batching[j] = b})
           at(i) == CHOOSE j \in 1 .. F :
                      batching[j] = b /\ Cardinality({h \in 1 .. j : batching[h] = b}) = i
<1>1. DOMAIN batching = 1 .. F /\ F \in Nat \ {0}
  BY DEF Batched
<1>2. /\ n \in {1, 2}
      /\ \A i \in 1 .. n : \E j \in 1 .. F :
           batching[j] = b /\ Cardinality({h \in 1 .. j : batching[h] = b}) = i
  <2>1. b \in 0 .. batching[F]
    OBVIOUS
  <2>2. batching = [i \in 1 .. F |-> i - 1] \/ batching = [i \in 1 .. F |-> (i - 1) \div 2]
    BY DEF Batched
  <2>3. Numbered(batching, b, F, 1) \/ Numbered(batching, b, F, 2)
    <3> HIDE DEF F
    <3> QED BY <1>1, <2>1, <2>2, InSingles, InPairs
  <2> QED BY <2>3 DEF Numbered
<1>3. \A i \in 1 .. n : at(i) \in 1 .. F
  <2> HIDE DEF n, F
  <2> QED BY <1>2
<1>4. BatchOf(batching, b) = [i \in 1 .. n |-> fracs[at(i)]]
  BY <1>1 DEF BatchOf
<1> HIDE DEF n, at
<1>5. Len(BatchOf(batching, b)) = n
  BY <1>2, <1>4
<1>6. \A i \in 1 .. n : BatchOf(batching, b)[i] = fracs[at(i)]
  BY <1>4
<1>7. n \in Nat \ {0}
  BY <1>2
<1> QED BY <1>3, <1>5, <1>6, <1>7

\* The columns of a batch are the next ones but 4 * b of the logUp interaction.
LEMMA BatchColumnsMake ==
  ASSUME NEW recs, NEW V, NEW top, NEW a, State(recs, V, top, a), NEW b \in Nat,
         NEW offsets \in Seq(Int), cursors \in [Interactions -> Nat],
         cursors[LogupInteraction] + 4 * b + 4 <= top[LogupInteraction]
  PROVE  Masked(BatchColumns(recs, b, offsets), V, top, a, Len(offsets))
<1> DEFINE curs == [cursors EXCEPT ![LogupInteraction] = @ + 4 * b]
           t == cursors[LogupInteraction]
           low == t + 4 * b
<1>1. LogupInteraction \in Interactions
  BY DEF LogupInteraction, Interactions
<1>2. t \in Nat
  BY <1>1
<1>3. curs[LogupInteraction] = low
  BY <1>1
<1> HIDE DEF t
<1>4. low \in Nat
  BY <1>2
<1>5. low + 4 <= top[LogupInteraction]
  BY DEF t
<1> HIDE DEF low, curs
<1>6. Masked(next_extension_interaction_mask(recs, curs, LogupInteraction, offsets), V, top, a,
             Len(offsets))
  BY <1>1, <1>3, <1>4, <1>5, MaskMakes
<1> QED BY <1>6 DEF BatchColumns, curs

LEMMA AppendConcat ==
  ASSUME NEW s \in Seq(Value), NEW t \in Seq(Value), NEW e \in Value
  PROVE  Append(s \o t, e) = s \o Append(t, e) /\ Append(t, e) \in Seq(Value)
<1>1. Append(t, e) \in Seq(Value) /\ Append(s \o t, e) \in Seq(Value) /\ s \o Append(t, e) \in Seq(Value)
  OBVIOUS
<1>2. Len(Append(s \o t, e)) = Len(s \o Append(t, e))
  OBVIOUS
<1>3. ASSUME NEW i \in 1 .. Len(Append(s \o t, e))
      PROVE  Append(s \o t, e)[i] = (s \o Append(t, e))[i]
  OBVIOUS
<1> QED BY <1>1, <1>2, <1>3, SeqEqual

RowStep(before, batching, b) ==
  BatchInRow(before, b, sum_fractions(before.recs, BatchOf(batching, b)))
RowStart(start) == [recs |-> start.recs, prev |-> start.out, asked |-> <<>>]

RowsUpto(f, m, start, batching) ==
  f = [i \in 0 .. m |-> IF i = 0 THEN RowStart(start) ELSE RowStep(f[i - 1], batching, i - 1)]

LEMMA RowsExist ==
  ASSUME NEW n \in Nat, NEW start, NEW batching
  PROVE  \E f : RowsUpto(f, n, start, batching)
<1> DEFINE Good == {m \in 0 .. n : \E f : RowsUpto(f, m, start, batching)}
<1>1. 0 \in Good
  <2>1. RowsUpto([i \in 0 .. 0 |-> RowStart(start)], 0, start, batching)
    BY DEF RowsUpto
  <2>2. 0 \in 0 .. n
    OBVIOUS
  <2> QED BY <2>1, <2>2
<1>2. ASSUME NEW m \in 0 .. n - 1, m \in Good PROVE m + 1 \in Good
  <2>1. PICK f : RowsUpto(f, m, start, batching)
    BY <1>2
  <2> DEFINE g == [i \in 0 .. m + 1 |-> IF i = m + 1 THEN RowStep(f[m], batching, m + 1 - 1) ELSE f[i]]
  <2>2. ASSUME NEW i \in 0 .. m + 1
        PROVE  g[i] = IF i = 0 THEN RowStart(start) ELSE RowStep(g[i - 1], batching, i - 1)
    <3>1. CASE i = m + 1
      <4>1. i # 0 /\ i - 1 \in 0 .. m + 1 /\ i - 1 # m + 1 /\ i - 1 = m
        BY <3>1
      <4> QED BY <3>1, <4>1
    <3>2. CASE i # m + 1
      <4>1. i \in 0 .. m /\ g[i] = f[i] /\ (i # 0 => i - 1 \in 0 .. m + 1 /\ i - 1 # m + 1)
        BY <3>2
      <4>2. f[i] = IF i = 0 THEN RowStart(start) ELSE RowStep(f[i - 1], batching, i - 1)
        BY <2>1, <4>1 DEF RowsUpto
      <4>3. i # 0 => g[i - 1] = f[i - 1]
        BY <4>1
      <4> HIDE DEF g
      <4> QED BY <4>1, <4>2, <4>3
    <3> QED BY <3>1, <3>2
  <2>3. RowsUpto(g, m + 1, start, batching)
    BY <2>2 DEF RowsUpto
  <2> HIDE DEF g
  <2>4. m + 1 \in 0 .. n
    OBVIOUS
  <2> QED BY <2>3, <2>4
<1> HIDE DEF Good
<1>3. \A i \in 0 .. n : i \in Good
  BY <1>1, <1>2, Induction
<1>4. n \in Good
  BY <1>3
<1> QED BY <1>4 DEF Good

RowSound(res, V, top, a) ==
  State(res.recs, V \cup {res.prev}, top, a \o res.asked) /\ res.asked \in Seq(Value)

LEMMA RowOne ==
  ASSUME NEW res, NEW V, NEW top, NEW a \in Seq(Value), RowSound(res, V, top, a),
         DOMAIN fracs = 1 .. Len(fracs), \A j \in 1 .. Len(fracs) : FracOver(fracs[j], V),
         NEW batching, Batched(batching, Len(fracs)), NEW b \in 0 .. batching[Len(fracs)],
         cursors \in [Interactions -> Nat],
         cursors[LogupInteraction] + 4 * b + 4 <= top[LogupInteraction]
  PROVE  RowSound(RowStep(res, batching, b), V, top, a)
<1> DEFINE batch == BatchOf(batching, b)
           e == a \o res.asked
           frac == sum_fractions(res.recs, batch)
           cur == BatchColumns(frac.recs, b, <<0>>)
           diff == Subtracted(cur.recs, cur.out[1], res.prev)
           added == FractionConstraint(diff.recs, diff.out, frac)
           V1 == V \cup {res.prev}
           V2 == V1 \cup {frac.num, frac.den}
           V3 == V2 \cup {cur.out[1]}
           V4 == V3 \cup {diff.out}
           new == RowStep(res, batching, b)
<1>1. State(res.recs, V1, top, e) /\ res.asked \in Seq(Value) /\ e \in Seq(Value)
  BY DEF RowSound
<1>2. Len(batch) \in Nat \ {0} /\ \A i \in 1 .. Len(batch) : FracOver(batch[i], V1)
  BY BatchFacts DEF FracOver
<1>3. new = [recs |-> added.recs, prev |-> cur.out[1], asked |-> Append(res.asked, added.val)]
  BY DEF RowStep, BatchInRow, FractionInRow
<1>4. res.prev \in V1 /\ V \subseteq V1
  OBVIOUS
<1> HIDE DEF batch, V1, e, new
<1>5. State(frac.recs, V2, top, e)
  <2>1. Summed(frac, V1, top, e)
    BY <1>1, <1>2, SumMakes
  <2> QED BY <2>1 DEF Summed
<1>6. FracOver(frac, V2) /\ res.prev \in V2 /\ V \subseteq V2
  BY <1>4 DEF FracOver
<1> HIDE DEF frac, V2
<1>7. State(cur.recs, V3, top, e)
  <2>1. b \in Nat
    BY DEF Batched
  <2>2. <<0>> \in Seq(Int) /\ Len(<<0>>) = 1
    OBVIOUS
  <2>3. Masked(cur, V2, top, e, 1)
    BY <1>5, <2>1, <2>2, BatchColumnsMake
  <2> HIDE DEF cur, V3
  <2>4. {cur.out[i] : i \in 1 .. 1} = {cur.out[1]}
    OBVIOUS
  <2> QED BY <2>3, <2>4 DEF Masked, V3
<1>8. FracOver(frac, V3) /\ res.prev \in V3 /\ V \subseteq V3 /\ cur.out[1] \in V3
  BY <1>6 DEF FracOver
<1> HIDE DEF cur, V3
<1>9. State(diff.recs, V4, top, e)
  <2>1. Gives(diff, V3, top, e)
    BY <1>7, <1>8, TwoGive
  <2> QED BY <2>1 DEF Gives
<1>10. FracOver(frac, V4) /\ V \cup {cur.out[1]} \subseteq V4 /\ diff.out \in V4
  BY <1>8 DEF FracOver
<1> HIDE DEF diff, V4
<1>11. State(added.recs, V4, top, Append(e, added.val)) /\ added.val \in Value
  BY <1>9, <1>10, FractionAdds
<1> HIDE DEF added
<1>12. new.recs = added.recs /\ new.prev = cur.out[1] /\ new.asked = Append(res.asked, added.val)
  BY <1>3
<1>13. Append(e, added.val) = a \o new.asked /\ new.asked \in Seq(Value)
  <2> DEFINE v == added.val
             r == res.asked
  <2>1. v \in Value /\ r \in Seq(Value) /\ a \in Seq(Value)
    BY <1>1, <1>11
  <2>2. new.asked = Append(r, v) /\ Append(e, added.val) = Append(a \o r, v)
    BY <1>12 DEF e
  <2> HIDE DEF v, r
  <2>3. Append(a \o r, v) = a \o Append(r, v) /\ Append(r, v) \in Seq(Value)
    BY ONLY <2>1, AppendConcat
  <2> QED BY <2>2, <2>3
<1>14. State(new.recs, V \cup {new.prev}, top, a \o new.asked)
  BY <1>10, <1>11, <1>12, <1>13, FewerKnown
<1> QED BY <1>13, <1>14 DEF RowSound, new

LEMMA LastBatch ==
  ASSUME NEW batching, Batched(batching, Len(fracs))
  PROVE  Last(batching) = batching[Len(fracs)] /\ Last(batching) \in Nat
<1> DEFINE F == Len(fracs)
<1>1. F \in Nat \ {0} /\ batching \in [1 .. F -> Nat]
  BY DEF Batched
<1> HIDE DEF F
<1>2. batching \in Seq(Nat)
  BY <1>1, SeqDef
<1>3. Len(batching) \in Nat /\ 1 .. Len(batching) = 1 .. F
  BY <1>1, <1>2, LenProperties
<1>4. Len(batching) = F
  <2> DEFINE L == Len(batching)
  <2>1. L \in Nat /\ F \in 1 .. F /\ 1 .. L = 1 .. F
    BY <1>1, <1>3
  <2> HIDE DEF L
  <2>2. F \in 1 .. L /\ (L \in 1 .. F \/ L = 0)
    BY <2>1
  <2>3. L = F
    BY <2>1, <2>2
  <2> QED BY <2>3 DEF L
<1>5. F \in 1 .. F
  BY <1>1
<1> QED BY <1>1, <1>4, <1>5 DEF Last, F

LEMMA RowsMake ==
  ASSUME NEW start, NEW V, NEW top, NEW a \in Seq(Value), Gives(start, V, top, a),
         DOMAIN fracs = 1 .. Len(fracs), \A j \in 1 .. Len(fracs) : FracOver(fracs[j], V),
         NEW batching, Batched(batching, Len(fracs)),
         cursors \in [Interactions -> Nat],
         top[LogupInteraction] = cursors[LogupInteraction] + 4 * (batching[Len(fracs)] + 1)
  PROVE  RowSound(InRowBatches(start, batching), V, top, a)
<1> DEFINE n == Last(batching)
           f == CHOOSE g : RowsUpto(g, n, start, batching)
           Good == {m \in 0 .. n : RowSound(f[m], V, top, a)}
<1>1. n = batching[Len(fracs)] /\ n \in Nat
  BY LastBatch
<1>2. InRowBatches(start, batching) = f[n]
  BY DEF InRowBatches, RowsUpto, RowStep, RowStart
<1> HIDE DEF n
<1>3. RowsUpto(f, n, start, batching)
  BY <1>1, RowsExist
<1> HIDE DEF f
<1>4. /\ f[0] = RowStart(start)
      /\ \A m \in 0 .. n - 1 : f[m + 1] = RowStep(f[m], batching, m)
  <2>1. 0 \in 0 .. n /\ \A m \in 0 .. n - 1 : m + 1 \in 0 .. n /\ m + 1 # 0 /\ (m + 1) - 1 = m
    BY <1>1
  <2> QED BY <2>1, <1>3 DEF RowsUpto
<1>5. 0 \in Good
  <2> DEFINE g == f[0]
  <2>1. g.recs = start.recs /\ g.prev = start.out /\ g.asked = <<>>
    BY <1>4 DEF RowStart
  <2> HIDE DEF g
  <2>2. g.asked \in Seq(Value) /\ a \o g.asked = a
    BY <2>1
  <2>3. State(g.recs, V \cup {g.prev}, top, a \o g.asked)
    BY <2>1, <2>2 DEF Gives
  <2>4. RowSound(g, V, top, a)
    BY <2>2, <2>3 DEF RowSound
  <2>5. 0 \in 0 .. n
    BY <1>1
  <2> QED BY <2>4, <2>5 DEF g
<1>6. ASSUME NEW m \in 0 .. n - 1, m \in Good PROVE m + 1 \in Good
  <2>1. RowSound(f[m], V, top, a)
    BY <1>6
  <2>2. m \in 0 .. batching[Len(fracs)] /\ m + 1 \in 0 .. n
    BY <1>1
  <2>3. cursors[LogupInteraction] + 4 * m + 4 <= top[LogupInteraction]
    <3> DEFINE t == cursors[LogupInteraction]
    <3>1. t \in Nat /\ top[LogupInteraction] = t + 4 * (n + 1)
      BY <1>1 DEF LogupInteraction, Interactions
    <3> HIDE DEF t
    <3>2. t + 4 * m + 4 <= t + 4 * (n + 1)
      BY <1>1, <3>1
    <3> QED BY <3>1, <3>2 DEF t
  <2> HIDE DEF Good
  <2>4. RowSound(RowStep(f[m], batching, m), V, top, a)
    BY <2>1, <2>2, <2>3, RowOne
  <2> QED BY <1>4, <2>2, <2>4 DEF Good
<1> HIDE DEF Good
<1>7. \A m \in 0 .. n : m \in Good
  BY <1>1, <1>5, <1>6, Induction
<1>8. n \in Good
  BY <1>1, <1>7
<1> QED BY <1>2, <1>8 DEF Good

LEMMA FinalizeMakes ==
  ASSUME State(recorders, values, cursors, asked),
         DOMAIN fracs = 1 .. Len(fracs), \A j \in 1 .. Len(fracs) : FracOver(fracs[j], values),
         \E batching : Batched(batching, Len(fracs)) /\ finalize_logup_batched(batching)
  PROVE  State(recorders', values, cursors', asked')
<1> SUFFICES ASSUME NEW batching, Batched(batching, Len(fracs)), finalize_logup_batched(batching)
             PROVE  State(recorders', values, cursors', asked')
  OBVIOUS
<1> DEFINE n == Last(batching)
           top == [cursors EXCEPT ![LogupInteraction] = @ + 4 * (n + 1)]
           start == OwnSecure(recorders, Zero)
           V == values
           a == asked
<1> DEFINE Ends(inRow, added) == /\ recorders' = added.recs
                                 /\ asked' = asked \o Append(inRow.asked, added.val)
                                 /\ cursors' = top
           T7(inRow, frac, row, sinceRow, diff, shift, shifted) ==
             \E added \in {FractionConstraint(shifted.recs, shifted.out, frac)} : Ends(inRow, added)
           T6(inRow, frac, row, sinceRow, diff, shift) ==
             \E shifted \in {Added(shift.recs, diff.out, shift.out)} :
               T7(inRow, frac, row, sinceRow, diff, shift, shifted)
           T5(inRow, frac, row, sinceRow, diff) ==
             \E shift \in {OwnSecure(diff.recs, CumsumShift)} :
               T6(inRow, frac, row, sinceRow, diff, shift)
           T4(inRow, frac, row, sinceRow) ==
             \E diff \in {Subtracted(sinceRow.recs, sinceRow.out, inRow.prev)} :
               T5(inRow, frac, row, sinceRow, diff)
           T3(inRow, frac, row) ==
             \E sinceRow \in {Subtracted(row.recs, row.out[2], row.out[1])} :
               T4(inRow, frac, row, sinceRow)
           T2(inRow, frac) == \E row \in {BatchColumns(frac.recs, n, <<-1, 0>>)} : T3(inRow, frac, row)
           T1(inRow) == \E frac \in {sum_fractions(inRow.recs, BatchOf(batching, n))} : T2(inRow, frac)
<1>1. PICK inRow \in {InRowBatches(start, batching)} : T1(inRow)
  BY DEF finalize_logup_batched
<1>2a. PICK frac : frac = sum_fractions(inRow.recs, BatchOf(batching, n)) /\ T2(inRow, frac)
  <2> HIDE DEF T2
  <2> QED BY <1>1
<1>2b. PICK row : row = BatchColumns(frac.recs, n, <<-1, 0>>) /\ T3(inRow, frac, row)
  <2> HIDE DEF T3
  <2> QED BY <1>2a
<1>2c. PICK sinceRow : sinceRow = Subtracted(row.recs, row.out[2], row.out[1])
                       /\ T4(inRow, frac, row, sinceRow)
  <2> HIDE DEF T4
  <2> QED BY <1>2b
<1>2d. PICK diff : diff = Subtracted(sinceRow.recs, sinceRow.out, inRow.prev)
                   /\ T5(inRow, frac, row, sinceRow, diff)
  <2> HIDE DEF T5
  <2> QED BY <1>2c
<1>2e. PICK shift : shift = OwnSecure(diff.recs, CumsumShift) /\ T6(inRow, frac, row, sinceRow, diff, shift)
  <2> HIDE DEF T6
  <2> QED BY <1>2d
<1>2f. PICK shifted : shifted = Added(shift.recs, diff.out, shift.out)
                      /\ T7(inRow, frac, row, sinceRow, diff, shift, shifted)
  <2> HIDE DEF T7
  <2> QED BY <1>2e
<1>2g. PICK added : added = FractionConstraint(shifted.recs, shifted.out, frac) /\ Ends(inRow, added)
  BY <1>2f
<1> HIDE DEF T1, T2, T3, T4, T5, T6, T7
<1>2. inRow = InRowBatches(start, batching) /\ Ends(inRow, added)
  BY <1>1, <1>2g
<1> HIDE DEF Ends
<1>3. cursors \in [Interactions -> Nat] /\ a \in Seq(Value) /\ LogupInteraction \in Interactions
  BY DEF State, Typed, LogupInteraction, Interactions
<1>4. n = batching[Len(fracs)] /\ n \in Nat
  BY LastBatch
<1> HIDE DEF n
<1>5. /\ top \in [Interactions -> Nat]
      /\ top[LogupInteraction] = cursors[LogupInteraction] + 4 * (n + 1)
      /\ \A i \in Interactions : cursors[i] <= top[i]
  <2>1. cursors[LogupInteraction] + 4 * (n + 1) \in Nat
    BY <1>3, <1>4
  <2>2. \A i \in Interactions : i # LogupInteraction => top[i] = cursors[i]
    BY <1>3
  <2>3. top[LogupInteraction] = cursors[LogupInteraction] + 4 * (n + 1)
    BY <1>3
  <2>4. top \in [Interactions -> Nat]
    BY <1>3, <2>1
  <2>5. cursors[LogupInteraction] <= top[LogupInteraction]
    <3> DEFINE t == cursors[LogupInteraction]
    <3>1. t \in Nat /\ top[LogupInteraction] = t + 4 * (n + 1)
      BY <1>3, <2>3
    <3> HIDE DEF t, top
    <3>2. t <= t + 4 * (n + 1)
      BY <1>4, <3>1
    <3> QED BY <3>1, <3>2 DEF t
  <2>6. \A i \in Interactions : cursors[i] \in Nat
    BY <1>3
  <2> HIDE DEF top
  <2>7. \A i \in Interactions : cursors[i] <= top[i]
    BY <2>2, <2>5, <2>6
  <2> QED BY <2>3, <2>4, <2>7
<1> HIDE DEF top
<1>6. State(recorders, V, top, a)
  <2>1. V \subseteq V
    OBVIOUS
  <2> QED BY <1>5, <2>1, StateWeaker
<1>7. Zero \in Value /\ CumsumShift \in Value
  <2>1. Zero \in Value
    BY FieldOps DEF Zero
  <2>2. CumsumShift \in Value
    BY DEF CumsumShift, Value
  <2> QED BY <2>1, <2>2
<1>8. Gives(start, V, top, a)
  <2>1. Yields(start, V, top, a, 1, TRUE, Zero)
    BY <1>6, <1>7, OwnYields
  <2> QED BY <2>1 DEF Yields, Gives
<1> HIDE DEF start
<1>9. RowSound(inRow, V, top, a)
  <2>1. RowSound(InRowBatches(start, batching), V, top, a)
    BY <1>3, <1>4, <1>5, <1>8, RowsMake
  <2> QED BY <1>2, <2>1
<1> DEFINE e == a \o inRow.asked
           V1 == V \cup {inRow.prev}
           V2 == V1 \cup {frac.num, frac.den}
           V3 == V2 \cup {row.out[1], row.out[2]}
           V4 == V3 \cup {sinceRow.out}
           V5 == V4 \cup {diff.out}
           V6 == V5 \cup {shift.out}
           V7 == V6 \cup {shifted.out}
<1>10. State(inRow.recs, V1, top, e) /\ inRow.asked \in Seq(Value)
  BY <1>9 DEF RowSound
<1>11. State(frac.recs, V2, top, e)
  <2>1. n \in 0 .. batching[Len(fracs)]
    BY <1>4
  <2>2. \A j \in 1 .. Len(fracs) : FracOver(fracs[j], V1)
    BY DEF FracOver
  <2> DEFINE batch == BatchOf(batching, n)
  <2> HIDE DEF V1, V, e
  <2>3. Len(batch) \in Nat \ {0} /\ \A i \in 1 .. Len(batch) : FracOver(batch[i], V1)
    BY <2>1, <2>2, BatchFacts
  <2>4. frac = sum_fractions(inRow.recs, batch)
    BY <1>2a
  <2> HIDE DEF batch
  <2>5. Summed(frac, V1, top, e)
    BY <1>10, <2>3, <2>4, SumMakes
  <2> QED BY <2>5 DEF Summed
<1>12. State(row.recs, V3, top, e)
  <2>1. <<-1, 0>> \in Seq(Int) /\ Len(<<-1, 0>>) = 2
    OBVIOUS
  <2>2. cursors[LogupInteraction] + 4 * n + 4 <= top[LogupInteraction]
    <3> DEFINE t == cursors[LogupInteraction]
    <3>1. t \in Nat /\ top[LogupInteraction] = t + 4 * (n + 1)
      BY <1>3, <1>5
    <3> HIDE DEF t
    <3>2. t + 4 * n + 4 <= t + 4 * (n + 1)
      BY <1>4, <3>1
    <3> QED BY <3>1, <3>2 DEF t
  <2> HIDE DEF V2, e
  <2>3. Masked(row, V2, top, e, 2)
    BY <1>2b, <1>3, <1>4, <1>11, <2>1, <2>2, BatchColumnsMake
  <2>4. {row.out[i] : i \in 1 .. 2} = {row.out[1], row.out[2]}
    OBVIOUS
  <2> QED BY <2>3, <2>4 DEF Masked
<1>13. row.out[1] \in V3 /\ row.out[2] \in V3 /\ inRow.prev \in V3 /\ FracOver(frac, V3) /\ V \subseteq V3
  BY DEF FracOver
<1>14. State(sinceRow.recs, V4, top, e)
  <2> HIDE DEF V3, e
  <2>1. Gives(sinceRow, V3, top, e)
    BY <1>2c, <1>12, <1>13, TwoGive
  <2> QED BY <2>1 DEF Gives
<1>15. sinceRow.out \in V4 /\ inRow.prev \in V4 /\ FracOver(frac, V4) /\ V \subseteq V4
  BY DEF FracOver
<1>16. State(diff.recs, V5, top, e)
  <2> HIDE DEF V4, e
  <2>1. Gives(diff, V4, top, e)
    BY <1>2d, <1>14, <1>15, TwoGive
  <2> QED BY <2>1 DEF Gives
<1>17. State(shift.recs, V6, top, e)
  <2> HIDE DEF V5, e
  <2>1. Yields(shift, V5, top, e, 1, TRUE, CumsumShift)
    BY <1>2e, <1>7, <1>16, OwnYields
  <2> QED BY <2>1 DEF Yields
<1>18. diff.out \in V6 /\ shift.out \in V6
  OBVIOUS
<1>19. State(shifted.recs, V7, top, e)
  <2> HIDE DEF V6, e
  <2>1. Gives(shifted, V6, top, e)
    BY <1>2f, <1>17, <1>18, TwoGive
  <2> QED BY <2>1 DEF Gives
<1>20. shifted.out \in V7 /\ FracOver(frac, V7) /\ V \subseteq V7
  BY DEF FracOver
<1>21. State(added.recs, V7, top, Append(e, added.val)) /\ added.val \in Value
  <2> HIDE DEF V7, e
  <2> QED BY <1>2g, <1>19, <1>20, FractionAdds
<1>22. Append(e, added.val) = a \o Append(inRow.asked, added.val)
  <2> DEFINE v == added.val
             r == inRow.asked
  <2>1. v \in Value /\ r \in Seq(Value) /\ a \in Seq(Value)
    BY <1>3, <1>10, <1>21
  <2>2. ASSUME NEW s \in Seq(Value), NEW t \in Seq(Value), NEW z \in Value
        PROVE  Append(s \o t, z) = s \o Append(t, z) /\ Append(t, z) \in Seq(Value)
    BY ONLY <2>2, AppendConcat
  <2>3. Append(a \o r, v) = a \o Append(r, v)
    <3> HIDE DEF v, r, a
    <3> QED BY ONLY <2>1, <2>2
  <2> QED BY <2>3
<1>23. State(added.recs, V, top, Append(e, added.val))
  <2> HIDE DEF V7, e, V
  <2> QED BY <1>20, <1>21, FewerKnown
<1>24. recorders' = added.recs /\ asked' = a \o Append(inRow.asked, added.val) /\ cursors' = top
  BY <1>2 DEF Ends
<1> HIDE DEF V, e
<1>25. State(recorders', V, cursors', asked')
  BY <1>22, <1>23, <1>24
<1> QED BY <1>25 DEF V

-----------------------------------------------------------------------------
\* The words of a program: those of its instructions, one after the other.

FlattensUpto(f, m, seqs) ==
  f = [i \in 1 .. m |-> IF i = 1 THEN seqs[i] ELSE f[i - 1] \o seqs[i]]

LEMMA FlattensExist ==
  ASSUME NEW n \in Nat \ {0}, NEW seqs
  PROVE  \E f : FlattensUpto(f, n, seqs)
<1> DEFINE k == n - 1
           Good == {m \in 0 .. k : \E f : FlattensUpto(f, m + 1, seqs)}
<1>0. k \in Nat /\ k + 1 = n
  OBVIOUS
<1>1. 0 \in Good
  <2>1. FlattensUpto([i \in 1 .. 1 |-> seqs[i]], 1, seqs)
    BY DEF FlattensUpto
  <2>2. 0 \in 0 .. k /\ 0 + 1 = 1
    BY <1>0
  <2> QED BY <2>1, <2>2
<1>2. ASSUME NEW l \in 0 .. k - 1, l \in Good PROVE l + 1 \in Good
  <2> DEFINE m == l + 1
  <2>0. m \in Nat /\ m # 0 /\ m \in 0 .. k
    BY <1>0
  <2>1. PICK f : FlattensUpto(f, m, seqs)
    BY <1>2
  <2> HIDE DEF m
  <2> DEFINE g == [i \in 1 .. m + 1 |-> IF i = m + 1 THEN f[m] \o seqs[m + 1] ELSE f[i]]
  <2>2. ASSUME NEW i \in 1 .. m + 1
        PROVE  g[i] = IF i = 1 THEN seqs[i] ELSE g[i - 1] \o seqs[i]
    <3>1. CASE i = m + 1
      <4>1. i # 1 /\ i - 1 \in 1 .. m + 1 /\ i - 1 # m + 1 /\ i - 1 = m
        BY <3>1, <2>0
      <4> QED BY <3>1, <4>1
    <3>2. CASE i # m + 1
      <4>1. i \in 1 .. m /\ g[i] = f[i] /\ (i # 1 => i - 1 \in 1 .. m + 1 /\ i - 1 # m + 1)
        BY <3>2, <2>0
      <4>2. f[i] = IF i = 1 THEN seqs[i] ELSE f[i - 1] \o seqs[i]
        BY <2>1, <4>1 DEF FlattensUpto
      <4>3. i # 1 => g[i - 1] = f[i - 1]
        BY <4>1
      <4> HIDE DEF g
      <4> QED BY <4>1, <4>2, <4>3
    <3> QED BY <3>1, <3>2
  <2>3. FlattensUpto(g, m + 1, seqs)
    BY <2>2 DEF FlattensUpto
  <2> HIDE DEF g
  <2> QED BY <2>0, <2>3 DEF m
<1> HIDE DEF Good
<1>3. \A i \in 0 .. k : i \in Good
  BY <1>0, <1>1, <1>2, Induction
<1>4. k \in Good
  BY <1>0, <1>3
<1> QED BY <1>0, <1>4 DEF Good

\* Where the words of each instruction start.
Starts(s, seqs, n) ==
  /\ s \in [1 .. n + 1 -> Nat] /\ s[1] = 1
  /\ \A i \in 1 .. n : s[i + 1] = s[i] + Len(seqs[i])
  /\ \A i \in 1 .. n + 1 : \A j \in 1 .. n : j < i => s[j] + Len(seqs[j]) <= s[i]
Laid(flat, seqs, s, n) ==
  \A i \in 1 .. n : \A k \in 1 .. Len(seqs[i]) :
    s[i] + k - 1 \in 1 .. Len(flat) /\ flat[s[i] + k - 1] = seqs[i][k]

LEMMA LaidMore ==
  ASSUME NEW S, NEW n \in Nat, NEW seqs \in [1 .. n -> Seq(S)], NEW s,
         NEW m \in 1 .. n - 1, NEW flat \in Seq(S), Laid(flat, seqs, s, m), s[m + 1] = Len(flat) + 1
  PROVE  Laid(flat \o seqs[m + 1], seqs, s, m + 1)
<1> DEFINE next == seqs[m + 1]
           more == flat \o next
           L == Len(flat)
           M == Len(next)
<1>0. next \in Seq(S) /\ m + 1 \in 1 .. n
  OBVIOUS
<1>1. /\ more \in Seq(S) /\ L \in Nat /\ M \in Nat /\ Len(more) = L + M
      /\ \A p \in 1 .. L : more[p] = flat[p]
      /\ \A p \in 1 .. M : more[L + p] = next[p]
  <2> HIDE DEF next
  <2>1. L \in Nat /\ M \in Nat
    BY <1>0
  <2>2. /\ more \in Seq(S) /\ Len(more) = L + M
        /\ \A p \in 1 .. L + M : more[p] = IF p <= L THEN flat[p] ELSE next[p - L]
    BY <1>0, ConcatProperties
  <2> HIDE DEF more, L, M
  <2>3. \A p \in 1 .. L : p \in 1 .. L + M /\ p <= L
    BY <2>1
  <2>4. \A p \in 1 .. M : L + p \in 1 .. L + M /\ ~ (L + p <= L) /\ (L + p) - L = p
    BY <2>1
  <2> QED BY <2>1, <2>2, <2>3, <2>4
<1>2. ASSUME NEW i \in 1 .. m + 1, NEW k \in 1 .. Len(seqs[i])
      PROVE  s[i] + k - 1 \in 1 .. Len(more) /\ more[s[i] + k - 1] = seqs[i][k]
  <2>1. CASE i = m + 1
    <3>1. s[i] = L + 1 /\ seqs[i] = next /\ k \in 1 .. M
      BY <2>1
    <3> DEFINE q == s[i]
    <3>2. q = L + 1
      BY <3>1
    <3> HIDE DEF L, M, more, next, q
    <3>3. q + k - 1 = L + k /\ L + k \in 1 .. L + M
      BY <1>1, <3>1, <3>2
    <3> QED BY <1>1, <3>1, <3>3 DEF q
  <2>2. CASE i # m + 1
    <3>1. i \in 1 .. m
      BY <2>2
    <3>2. s[i] + k - 1 \in 1 .. L /\ flat[s[i] + k - 1] = seqs[i][k]
      BY <3>1 DEF Laid
    <3> DEFINE p == s[i] + k - 1
    <3>3. p \in 1 .. L /\ flat[p] = seqs[i][k]
      BY <3>2
    <3> HIDE DEF p, L, M, more, next
    <3>4. p \in 1 .. L + M /\ more[p] = flat[p]
      BY <1>1, <3>3
    <3> QED BY <1>1, <3>3, <3>4 DEF p
  <2> QED BY <2>1, <2>2
<1> QED BY <1>2 DEF Laid

LEMMA FlattenFacts ==
  ASSUME NEW S, NEW n \in Nat \ {0}, NEW seqs \in [1 .. n -> Seq(S)]
  PROVE  \E s : /\ Starts(s, seqs, n) /\ Laid(FlattenSeq(seqs), seqs, s, n)
                /\ FlattenSeq(seqs) \in Seq(S) /\ Len(FlattenSeq(seqs)) = s[n + 1] - 1
<1> DEFINE f == CHOOSE g : FlattensUpto(g, n, seqs)
           s == [i \in 1 .. n + 1 |-> IF i = 1 THEN 1 ELSE Len(f[i - 1]) + 1]
           k == n - 1
           Good == {m \in 0 .. k : f[m + 1] \in Seq(S) /\ Laid(f[m + 1], seqs, s, m + 1)}
<1>1. k \in Nat /\ k + 1 = n
  OBVIOUS
<1>2. FlattenSeq(seqs) = f[n]
  <2>1. Len(seqs) = n
    OBVIOUS
  <2> QED BY <2>1 DEF FlattenSeq, FlattensUpto
<1>3. FlattensUpto(f, n, seqs)
  BY FlattensExist
<1> HIDE DEF f, k
<1>4. /\ f[1] = seqs[1]
      /\ \A m \in 1 .. n - 1 : f[m + 1] = f[m] \o seqs[m + 1]
  <2>1. 1 \in 1 .. n /\ \A m \in 1 .. n - 1 : m + 1 \in 1 .. n /\ m + 1 # 1 /\ (m + 1) - 1 = m
    OBVIOUS
  <2> QED BY <2>1, <1>3 DEF FlattensUpto
<1>5. /\ s[1] = 1
      /\ \A m \in 1 .. n : s[m + 1] = Len(f[m]) + 1
  <2>1. 1 \in 1 .. n + 1 /\ \A m \in 1 .. n : m + 1 \in 1 .. n + 1 /\ m + 1 # 1 /\ (m + 1) - 1 = m
    OBVIOUS
  <2> QED BY <2>1
<1>6. s = [i \in 1 .. n + 1 |-> s[i]]
  OBVIOUS
<1> HIDE DEF s
<1>7. \A i \in 1 .. n : seqs[i] \in Seq(S) /\ Len(seqs[i]) \in Nat
  OBVIOUS
<1>8. 0 \in Good
  <2>0. 1 \in 1 .. n /\ 0 \in 0 .. k /\ 0 + 1 = 1
    BY <1>1
  <2>1. f[1] \in Seq(S)
    BY <1>4, <1>7, <2>0
  <2>2. ASSUME NEW i \in 1 .. 1, NEW j \in 1 .. Len(seqs[i])
        PROVE  s[i] + j - 1 \in 1 .. Len(f[1]) /\ f[1][s[i] + j - 1] = seqs[i][j]
    <3>1. i = 1
      OBVIOUS
    <3>2. s[i] + j - 1 = j
      BY <1>5, <3>1
    <3> QED BY <1>4, <3>1, <3>2
  <2>3. Laid(f[1], seqs, s, 1)
    BY <2>2 DEF Laid
  <2> QED BY <2>0, <2>1, <2>3
<1>9. ASSUME NEW m \in 0 .. k - 1, m \in Good PROVE m + 1 \in Good
  <2> DEFINE j == m + 1
  <2>1. f[j] \in Seq(S) /\ Laid(f[j], seqs, s, j)
    BY <1>9
  <2>2. j \in 1 .. n - 1 /\ j + 1 \in 1 .. n /\ j \in 0 .. k /\ j \in 1 .. n
    BY <1>1
  <2> HIDE DEF Good, j
  <2>3. s[j + 1] = Len(f[j]) + 1 /\ f[j + 1] = f[j] \o seqs[j + 1]
    BY <1>4, <1>5, <2>2
  <2>4. Laid(f[j + 1], seqs, s, j + 1)
    <3> DEFINE g == f[j]
    <3>1. g \in Seq(S) /\ Laid(g, seqs, s, j) /\ s[j + 1] = Len(g) + 1
      BY <2>1, <2>3
    <3> HIDE DEF g
    <3>2. Laid(g \o seqs[j + 1], seqs, s, j + 1)
      BY <2>2, <3>1, LaidMore
    <3> QED BY <2>3, <3>2 DEF g
  <2>5. f[j + 1] \in Seq(S)
    BY <1>7, <2>1, <2>2, <2>3, ConcatProperties
  <2>6. j \in Good
    BY <2>2, <2>4, <2>5 DEF Good
  <2> QED BY <2>6 DEF j
<1> HIDE DEF Good
<1>10. \A m \in 0 .. k : m \in Good
  BY <1>1, <1>8, <1>9, Induction
<1>11. \A m \in 1 .. n : f[m] \in Seq(S) /\ Len(f[m]) \in Nat /\ Laid(f[m], seqs, s, m)
  <2> TAKE m \in 1 .. n
  <2> DEFINE j == m - 1
  <2>1. j \in 0 .. k /\ j + 1 = m
    BY <1>1
  <2> HIDE DEF j
  <2>2. j \in Good
    BY <1>10, <2>1
  <2>3. f[m] \in Seq(S) /\ Laid(f[m], seqs, s, m)
    BY <2>1, <2>2 DEF Good
  <2> QED BY <2>3
<1>12. \A i \in 1 .. n + 1 : s[i] \in Nat
  <2> TAKE i \in 1 .. n + 1
  <2>1. CASE i = 1
    BY <2>1, <1>5
  <2>2. CASE i # 1
    <3> DEFINE j == i - 1
    <3>1. j \in 1 .. n /\ j + 1 = i
      BY <2>2
    <3> HIDE DEF j
    <3>2. s[j + 1] = Len(f[j]) + 1 /\ Len(f[j]) \in Nat
      BY <3>1, <1>5, <1>11
    <3>3. s[j + 1] \in Nat
      BY <3>2
    <3> QED BY <3>1, <3>3
  <2> QED BY <2>1, <2>2
<1>13. ASSUME NEW i \in 1 .. n PROVE s[i + 1] = s[i] + Len(seqs[i])
  <2>1. CASE i = 1
    BY <2>1, <1>4, <1>5, <1>7
  <2>2. CASE i # 1
    <3> DEFINE j == i - 1
    <3>1. j \in 1 .. n - 1 /\ j + 1 = i /\ j \in 1 .. n
      BY <2>2
    <3> HIDE DEF j
    <3>2. s[i] = Len(f[j]) + 1 /\ s[i + 1] = Len(f[i]) + 1 /\ f[i] = f[j] \o seqs[i]
      BY <3>1, <1>4, <1>5
    <3>3. Len(f[j] \o seqs[i]) = Len(f[j]) + Len(seqs[i])
      BY <3>1, <1>7, <1>11, ConcatProperties
    <3>4. Len(f[j]) \in Nat /\ Len(seqs[i]) \in Nat
      BY <3>1, <1>7, <1>11
    <3> QED BY <3>2, <3>3, <3>4
  <2> QED BY <2>1, <2>2
<1>14. ASSUME NEW i \in 1 .. n + 1 PROVE \A j \in 1 .. n : j < i => s[j] + Len(seqs[j]) <= s[i]
  <2> DEFINE l == i - 1
             Ok == {m \in 0 .. l : \A j \in 1 .. n : j < m + 1 => s[j] + Len(seqs[j]) <= s[m + 1]}
  <2>1. l \in Nat /\ l + 1 = i /\ l <= n
    OBVIOUS
  <2> HIDE DEF l
  <2>2. 0 \in Ok
    BY <2>1
  <2>3. ASSUME NEW m \in 0 .. l - 1, m \in Ok PROVE m + 1 \in Ok
    <3> DEFINE p == m + 1
    <3>1. p \in 1 .. n /\ p \in 0 .. l /\ p \in 1 .. n + 1 /\ p + 1 \in 1 .. n + 1
      BY <2>1
    <3>2. \A j \in 1 .. n : j < p => s[j] + Len(seqs[j]) <= s[p]
      BY <2>3
    <3> HIDE DEF p, Ok
    <3>3. s[p + 1] = s[p] + Len(seqs[p]) /\ s[p] \in Nat /\ Len(seqs[p]) \in Nat
      BY <3>1, <1>7, <1>12, <1>13
    <3>4. ASSUME NEW j \in 1 .. n, j < p + 1 PROVE s[j] + Len(seqs[j]) <= s[p + 1]
      <4>1. CASE j = p
        BY <4>1, <3>3
      <4>2. CASE j # p
        <5>1. j < p
          BY <3>4, <4>2, <3>1
        <5>2. s[j] + Len(seqs[j]) <= s[p] /\ s[j] \in Nat /\ Len(seqs[j]) \in Nat
          BY <5>1, <3>2, <1>7, <1>12
        <5> QED BY <5>2, <3>3
      <4> QED BY <4>1, <4>2
    <3> QED BY <3>1, <3>4 DEF Ok, p
  <2> HIDE DEF Ok
  <2>4. \A m \in 0 .. l : m \in Ok
    BY <2>1, <2>2, <2>3, Induction
  <2>5. l \in Ok
    BY <2>1, <2>4
  <2> QED BY <2>1, <2>5 DEF Ok
<1>15. Starts(s, seqs, n)
  <2>1. s \in [1 .. n + 1 -> Nat]
    BY <1>6, <1>12
  <2> QED BY <2>1, <1>5, <1>13, <1>14 DEF Starts
<1>16. f[n] \in Seq(S) /\ Laid(f[n], seqs, s, n) /\ Len(f[n]) = s[n + 1] - 1
  <2>1. n \in 1 .. n
    OBVIOUS
  <2> QED BY <2>1, <1>5, <1>11
<1> QED BY <1>2, <1>15, <1>16

\* The words of an instruction.
Word == (AllKinds \cup Int) \X Int
Half(k) == IF k % 2 = 1 THEN 1 ELSE 2

LEMMA SourceWordsFacts ==
  ASSUME NEW srcs \in Seq(Nat), Len(srcs) \in {0, 1, 2, 4}
  PROVE  /\ SourceWords(srcs) \in Seq(Word) /\ Len(SourceWords(srcs)) = (Len(srcs) + 1) \div 2
         /\ \A k \in 1 .. Len(srcs) : SourceWords(srcs)[(k + 1) \div 2][Half(k)] = srcs[k]
<1>1. CASE Len(srcs) = 0
  BY <1>1 DEF SourceWords
<1>2. CASE Len(srcs) = 1
  <2>1. SourceWords(srcs) = << <<srcs[1], 0>> >>
    BY <1>2 DEF SourceWords
  <2>2. srcs[1] \in Nat
    <3>1. 1 \in 1 .. Len(srcs)
      BY <1>2
    <3> QED BY ONLY <3>1, srcs \in Seq(Nat)
  <2>3. <<srcs[1], 0>> \in Word
    BY <2>2 DEF Word
  <2>4. \A k \in 1 .. 1 : k = 1 /\ (k + 1) \div 2 = 1 /\ Half(k) = 1
    BY DEF Half
  <2> HIDE DEF Word
  <2> QED BY <1>2, <2>1, <2>3, <2>4
<1>3. CASE Len(srcs) = 2
  <2>1. SourceWords(srcs) = << <<srcs[1], srcs[2]>> >>
    BY <1>3 DEF SourceWords
  <2>2. srcs[1] \in Nat /\ srcs[2] \in Nat
    <3>1. 1 \in 1 .. Len(srcs) /\ 2 \in 1 .. Len(srcs)
      BY <1>3
    <3> QED BY ONLY <3>1, srcs \in Seq(Nat)
  <2>3. <<srcs[1], srcs[2]>> \in Word
    BY <2>2 DEF Word
  <2>4. \A k \in 1 .. 2 : \/ k = 1 /\ (k + 1) \div 2 = 1 /\ Half(k) = 1
                          \/ k = 2 /\ (k + 1) \div 2 = 1 /\ Half(k) = 2
    BY DEF Half
  <2>5. (Len(srcs) + 1) \div 2 = 1
    BY <1>3
  <2>6. \A k \in 1 .. 2 : SourceWords(srcs)[(k + 1) \div 2][Half(k)] = srcs[k]
    BY <2>1, <2>4
  <2> QED BY <1>3, <2>1, <2>3, <2>5, <2>6
<1>4. CASE Len(srcs) = 4
  <2>1. SourceWords(srcs) = << <<srcs[1], srcs[2]>>, <<srcs[3], srcs[4]>> >>
    BY <1>4 DEF SourceWords
  <2>2. srcs[1] \in Nat /\ srcs[2] \in Nat /\ srcs[3] \in Nat /\ srcs[4] \in Nat
    <3>1. 1 \in 1 .. Len(srcs) /\ 2 \in 1 .. Len(srcs) /\ 3 \in 1 .. Len(srcs) /\ 4 \in 1 .. Len(srcs)
      BY <1>4
    <3> QED BY ONLY <3>1, srcs \in Seq(Nat)
  <2>3. <<srcs[1], srcs[2]>> \in Word /\ <<srcs[3], srcs[4]>> \in Word
    BY <2>2 DEF Word
  <2>4. \A k \in 1 .. 4 : \/ k = 1 /\ (k + 1) \div 2 = 1 /\ Half(k) = 1
                          \/ k = 2 /\ (k + 1) \div 2 = 1 /\ Half(k) = 2
                          \/ k = 3 /\ (k + 1) \div 2 = 2 /\ Half(k) = 1
                          \/ k = 4 /\ (k + 1) \div 2 = 2 /\ Half(k) = 2
    BY DEF Half
  <2>5. (Len(srcs) + 1) \div 2 = 2
    BY <1>4
  <2>6. \A k \in 1 .. 4 : SourceWords(srcs)[(k + 1) \div 2][Half(k)] = srcs[k]
    BY <2>1, <2>4
  <2> QED BY <1>4, <2>1, <2>3, <2>5, <2>6
<1> QED BY <1>1, <1>2, <1>3, <1>4

LEMMA DataFacts ==
  ASSUME NEW data \in Seq(Int)
  PROVE  /\ Data(data) \in Seq(Word) /\ Len(Data(data)) = Len(data)
         /\ \A k \in 1 .. Len(data) : Data(data)[k][2] = data[k]
<1>1. \A k \in 1 .. Len(data) : <<0, data[k]>> \in Word
  BY DEF Word
<1>2. Data(data) = [k \in 1 .. Len(data) |-> <<0, data[k]>>]
  BY DEF Data
<1>3. Len(data) \in Nat
  OBVIOUS
<1> QED BY <1>1, <1>2, <1>3

\* Two sequences of words, one after the other.
LEMMA Joined ==
  ASSUME NEW e \in Seq(Word), NEW f \in Seq(Word), NEW p, NEW q, Len(e) = p, Len(f) = q
  PROVE  /\ p \in Nat /\ q \in Nat /\ e \o f \in Seq(Word) /\ Len(e \o f) = p + q
         /\ \A j \in 1 .. p : (e \o f)[j] = e[j]
         /\ \A j \in 1 .. q : (e \o f)[p + j] = f[j]
<1> HIDE DEF Word
<1> QED OBVIOUS

\* The instructions other than loads and constraints.
Packed(E, op) ==
  LET m == (NSources(op.kind) + 1) \div 2
  IN /\ Len(E) = 1 + m + NData(op.kind)
     /\ E[1] = <<op.kind, op.dst>>
     /\ \A k \in 1 .. NSources(op.kind) : E[1 + ((k + 1) \div 2)][Half(k)] = op.srcs[k]
     /\ \A k \in 1 .. NData(op.kind) : E[1 + m + k][2] = op.data[k]

LEMMA KindShapes ==
  ASSUME NEW op, op.kind \in Kinds
  PROVE  /\ NSources(op.kind) \in {0, 1, 2, 4} /\ NData(op.kind) \in {0, 1, 4}
         /\ encoded_len(op) = 1 + (NSources(op.kind) + 1) \div 2 + NData(op.kind)
<1>1. CASE op.kind \in {"LoadConst", "LoadSecureConst"}
  BY <1>1 DEF NSources, NData, encoded_len
<1>2. CASE op.kind \in {"Neg", "WideNeg", "Widen"}
  BY <1>2 DEF NSources, NData, encoded_len
<1>3. CASE op.kind \in {"AddConst", "MulConst"}
  BY <1>3 DEF NSources, NData, encoded_len
<1>4. CASE op.kind \in {"WideAddConst", "WideMulConst", "BaseAddSecureConst", "BaseMulSecureConst"}
  BY <1>4 DEF NSources, NData, encoded_len
<1>5. CASE op.kind = "CombineEF"
  BY <1>5 DEF NSources, NData, encoded_len
<1>6. CASE op.kind \in {"Add", "Sub", "Mul", "WideAdd", "WideSub", "WideMul", "WideAddBase", "WideMulBase"}
  BY <1>6 DEF NSources, NData, encoded_len
<1> QED BY <1>1, <1>2, <1>3, <1>4, <1>5, <1>6 DEF Kinds

LEMMA PackedOp ==
  ASSUME NEW op \in OpSet, op.kind \in Kinds, Len(op.srcs) = NSources(op.kind),
         Len(op.data) = NData(op.kind)
  PROVE  Packed(EncodedOp(op), op) /\ EncodedOp(op) \in Seq(Word)
<1> DEFINE sw == SourceWords(op.srcs)
           dw == Data(op.data)
           hd == << <<op.kind, op.dst>> >>
           E == EncodedOp(op)
           n == NSources(op.kind)
           d == NData(op.kind)
           m == (n + 1) \div 2
<1>1. op.srcs \in Seq(Nat) /\ op.data \in Seq(Int) /\ op.dst \in Nat /\ op.kind \in AllKinds
  BY DEF OpSet
<1>2. n \in {0, 1, 2, 4} /\ d \in {0, 1, 4}
  BY KindShapes
<1>3. /\ sw \in Seq(Word) /\ Len(sw) = m
      /\ \A k \in 1 .. n : sw[(k + 1) \div 2][Half(k)] = op.srcs[k]
  BY <1>1, <1>2, SourceWordsFacts
<1>4. /\ dw \in Seq(Word) /\ Len(dw) = d
      /\ \A k \in 1 .. d : dw[k][2] = op.data[k]
  BY <1>1, DataFacts
<1>5. E = hd \o sw \o dw
  <2>1. op.kind # "AddConstraint" /\ op.kind # "LoadTrace"
    BY KindFacts
  <2> QED BY <2>1 DEF EncodedOp
<1>6. hd \in Seq(Word) /\ Len(hd) = 1 /\ hd[1] = <<op.kind, op.dst>>
  <2>1. <<op.kind, op.dst>> \in Word
    BY <1>1 DEF Word
  <2> QED BY <2>1
<1> HIDE DEF sw, dw, hd, E
<1>7. m \in Nat /\ d \in Nat /\ n \in Nat /\ \A k \in 1 .. n : (k + 1) \div 2 \in 1 .. m
  <2>1. d \in Nat /\ n \in Nat
    BY <1>2
  <2> HIDE DEF n, d
  <2> QED BY <2>1
<1> HIDE DEF n, m, d
<1> DEFINE h == hd \o sw
<1>8. /\ h \in Seq(Word) /\ Len(h) = 1 + m /\ h[1] = hd[1]
      /\ \A j \in 1 .. m : h[1 + j] = sw[j]
  <2>0. hd \in Seq(Word) /\ sw \in Seq(Word) /\ Len(hd) = 1 /\ Len(sw) = m
    BY <1>3, <1>6
  <2>a. h = hd \o sw
    OBVIOUS
  <2> HIDE DEF h
  <2>1. /\ h \in Seq(Word) /\ Len(h) = 1 + m
        /\ \A j \in 1 .. 1 : h[j] = hd[j]
        /\ \A j \in 1 .. m : h[1 + j] = sw[j]
    <3> DEFINE o == 1
    <3>1. hd \in Seq(Word) /\ sw \in Seq(Word) /\ Len(hd) = o /\ Len(sw) = m
      BY <2>0
    <3> HIDE DEF o
    <3>2. /\ h \in Seq(Word) /\ Len(h) = o + m
          /\ \A j \in 1 .. o : h[j] = hd[j]
          /\ \A j \in 1 .. m : h[o + j] = sw[j]
      BY ONLY <3>1, <2>a, Joined
    <3> QED BY ONLY <3>2 DEF o
  <2> QED BY <2>1
<1> HIDE DEF h
<1>9. /\ E \in Seq(Word) /\ Len(E) = 1 + m + d
      /\ \A j \in 1 .. 1 + m : E[j] = h[j]
      /\ \A j \in 1 .. d : E[1 + m + j] = dw[j]
  <2>1. E = h \o dw
    BY <1>5 DEF h
  <2>2. h \in Seq(Word) /\ dw \in Seq(Word) /\ Len(h) = 1 + m /\ Len(dw) = d
    BY <1>4, <1>8
  <2> QED BY ONLY <2>1, <2>2, Joined
<1>10. E[1] = <<op.kind, op.dst>>
  <2>1. 1 \in 1 .. 1 + m
    BY <1>7
  <2> QED BY <2>1, <1>6, <1>8, <1>9
<1>11. ASSUME NEW k \in 1 .. n PROVE E[1 + ((k + 1) \div 2)][Half(k)] = op.srcs[k]
  <2> DEFINE j == (k + 1) \div 2
  <2>1. j \in 1 .. m /\ sw[j][Half(k)] = op.srcs[k]
    BY <1>3, <1>7
  <2> HIDE DEF j
  <2>2. 1 + j \in 1 .. 1 + m
    BY <2>1, <1>7
  <2>3. E[1 + j] = sw[j]
    BY <2>1, <2>2, <1>8, <1>9
  <2>4. E[1 + j][Half(k)] = op.srcs[k]
    BY <2>1, <2>3
  <2> QED BY <2>4 DEF j
<1>12. \A k \in 1 .. d : E[1 + m + k][2] = op.data[k]
  BY <1>4, <1>9
<1> QED BY <1>9, <1>10, <1>11, <1>12 DEF Packed, E, n, m, d

\* How the instructions are encoded; a load's second word is replaced later.
Signed(o) == IF o < 0 THEN <<1, -o>> ELSE <<0, o>>
Encodes(E, op) ==
  /\ op.kind \in Kinds => Packed(E, op)
  /\ op.kind = "LoadTrace" =>
       /\ E[1] = <<op.kind, op.dst>> /\ E[3] = Signed(op.data[3])
  /\ op.kind = "AddConstraint" => E[1] = <<op.kind, op.srcs[1]>>

LEMMA EncodedFacts ==
  ASSUME NEW op \in OpSet, NEW top, WellFormed(op, top)
  PROVE  /\ EncodedOp(op) \in Seq(Word) /\ Len(EncodedOp(op)) = encoded_len(op)
         /\ encoded_len(op) \in Nat \ {0} /\ (op.kind = "LoadTrace" => encoded_len(op) = 3)
         /\ Encodes(EncodedOp(op), op)
<1>1. op.srcs \in Seq(Nat) /\ op.data \in Seq(Int) /\ op.dst \in Nat /\ op.kind \in AllKinds
  BY DEF OpSet
<1>2. CASE op.kind = "AddConstraint"
  <2>1. Len(op.srcs) = 1
    BY <1>2, KindFacts DEF WellFormed
  <2>2. op.srcs[1] \in Nat
    <3>1. 1 \in 1 .. Len(op.srcs)
      BY <2>1
    <3> QED BY <3>1, <1>1
  <2>3. EncodedOp(op) = << <<op.kind, op.srcs[1]>> >> /\ encoded_len(op) = 1
    BY <1>2 DEF EncodedOp, encoded_len
  <2>4. <<op.kind, op.srcs[1]>> \in Word
    BY <1>1, <2>2 DEF Word
  <2>5. op.kind \notin Kinds /\ op.kind # "LoadTrace"
    BY <1>2, KindFacts
  <2> QED BY <1>2, <2>3, <2>4, <2>5 DEF Encodes
<1>3. CASE op.kind = "LoadTrace"
  <2>1. Len(op.data) = 3
    BY <1>3, KindFacts DEF WellFormed
  <2>2. op.data[1] \in Int /\ op.data[2] \in Int /\ op.data[3] \in Int
    <3>1. 1 \in 1 .. Len(op.data) /\ 2 \in 1 .. Len(op.data) /\ 3 \in 1 .. Len(op.data)
      BY <2>1
    <3> QED BY <3>1, <1>1
  <2>3. /\ EncodedOp(op) = << <<op.kind, op.dst>>, <<op.data[1], op.data[2]>>, Signed(op.data[3]) >>
        /\ encoded_len(op) = 3
    BY <1>3 DEF EncodedOp, encoded_len, Signed
  <2>4. /\ <<op.kind, op.dst>> \in Word /\ <<op.data[1], op.data[2]>> \in Word
        /\ Signed(op.data[3]) \in Word
    BY <1>1, <2>2 DEF Word, Signed
  <2>5. op.kind \notin Kinds /\ op.kind # "AddConstraint"
    BY <1>3, KindFacts
  <2> DEFINE x == <<op.kind, op.dst>>
             y == <<op.data[1], op.data[2]>>
             z == Signed(op.data[3])
             E == EncodedOp(op)
  <2>6. E = <<x, y, z>> /\ x \in Word /\ y \in Word /\ z \in Word
    BY <2>3, <2>4
  <2>7. E \in Seq(Word) /\ Len(E) = 3 /\ E[1] = x /\ E[3] = z
    <3> HIDE DEF x, y, z, E, Word
    <3> QED BY <2>6
  <2> QED BY <1>3, <2>3, <2>5, <2>7 DEF Encodes
<1>4. CASE op.kind \in Kinds
  <2>1. op.kind # "AddConstraint" /\ op.kind # "LoadTrace"
    BY <1>4, KindFacts
  <2>2. Len(op.srcs) = NSources(op.kind) /\ Len(op.data) = NData(op.kind)
    BY <1>4, <2>1 DEF WellFormed
  <2>3. Packed(EncodedOp(op), op) /\ EncodedOp(op) \in Seq(Word)
    BY <1>4, <2>2, PackedOp
  <2>4. Len(EncodedOp(op)) = encoded_len(op)
    BY <2>3, <1>4, KindShapes DEF Packed
  <2>5. encoded_len(op) \in Nat \ {0}
    <3>1. /\ NSources(op.kind) \in {0, 1, 2, 4} /\ NData(op.kind) \in {0, 1, 4}
          /\ encoded_len(op) = 1 + (NSources(op.kind) + 1) \div 2 + NData(op.kind)
      BY <1>4, KindShapes
    <3> QED BY ONLY <3>1
  <2> QED BY <2>1, <2>3, <2>4, <2>5 DEF Encodes
<1> QED BY <1>1, <1>2, <1>3, <1>4 DEF AllKinds

-----------------------------------------------------------------------------
\* The column array: the columns of the interactions, one after the other.
LEMMA InteractionOffsets ==
  ASSUME cursors \in [Interactions -> Nat]
  PROVE  /\ InteractionOffset(0) = 0 /\ InteractionOffset(1) = cursors[0]
         /\ InteractionOffset(2) = cursors[0] + cursors[1]
         /\ cursors[0] \in Nat /\ cursors[1] \in Nat /\ cursors[2] \in Nat
<1> DEFINE Upto(f) == f = [i \in Interactions |-> IF i = 0 THEN 0 ELSE f[i - 1] + cursors[i - 1]]
           g == [i \in Interactions |-> IF i = 0 THEN 0 ELSE IF i = 1 THEN cursors[0]
                                        ELSE cursors[0] + cursors[1]]
<1>1. cursors[0] \in Nat /\ cursors[1] \in Nat /\ cursors[2] \in Nat
  BY DEF Interactions
<1>2. Upto(g)
  <2>1. ASSUME NEW i \in Interactions
        PROVE  g[i] = IF i = 0 THEN 0 ELSE g[i - 1] + cursors[i - 1]
    <3>1. i = 0 \/ i = 1 \/ i = 2
      BY DEF Interactions
    <3>2. 0 \in Interactions /\ 1 \in Interactions /\ 2 \in Interactions
      BY DEF Interactions
    <3> QED BY <1>1, <3>1, <3>2
  <2> QED BY <2>1
<1> HIDE DEF g
<1> DEFINE f == CHOOSE u : Upto(u)
<1>3. Upto(f)
  BY <1>2
<1>4. \A j \in Interactions : InteractionOffset(j) = f[j]
  BY DEF InteractionOffset
<1> HIDE DEF f
<1>5. f[0] = 0 /\ f[1] = f[0] + cursors[0] /\ f[2] = f[1] + cursors[1]
  <2>1. \A i \in Interactions : f[i] = IF i = 0 THEN 0 ELSE f[i - 1] + cursors[i - 1]
    BY <1>3
  <2>2. 0 \in Interactions /\ 1 \in Interactions /\ 2 \in Interactions
    BY DEF Interactions
  <2>3. 1 - 1 = 0 /\ 2 - 1 = 1
    OBVIOUS
  <2>4. f[0] = 0
    BY <2>1, <2>2
  <2>5. f[1] = f[1 - 1] + cursors[1 - 1]
    BY ONLY <2>1, <2>2
  <2>6. f[2] = f[2 - 1] + cursors[2 - 1]
    BY ONLY <2>1, <2>2
  <2> QED BY <2>3, <2>4, <2>5, <2>6
<1>6. InteractionOffset(0) = f[0] /\ InteractionOffset(1) = f[1] /\ InteractionOffset(2) = f[2]
  BY <1>4 DEF Interactions
<1> QED BY <1>1, <1>5, <1>6

\* The index of a load names the column that was recorded.
LEMMA ColumnFound ==
  ASSUME cursors \in [Interactions -> Nat], NEW op, op.data[1] \in Interactions,
         op.data[2] \in 0 .. cursors[op.data[1]] - 1
  PROVE  /\ FlatIndex(op) \in Nat /\ ColumnAt(FlatIndex(op)) = <<op.data[1], op.data[2]>>
         /\ TotalCols \in Nat /\ FlatIndex(op) < TotalCols
<1> DEFINE e == op.data[1]
           k == op.data[2]
           a == cursors[0]
           b == cursors[1]
           c == cursors[2]
           F == FlatIndex(op)
           Holds(j) == InteractionOffset(j) <= F /\ F < InteractionOffset(j) + cursors[j]
           i == CHOOSE j \in Interactions : Holds(j)
<1>1. /\ InteractionOffset(0) = 0 /\ InteractionOffset(1) = a /\ InteractionOffset(2) = a + b
      /\ a \in Nat /\ b \in Nat /\ c \in Nat
  BY InteractionOffsets
<1>2. F = InteractionOffset(e) + k
  BY DEF FlatIndex
<1>3. ColumnAt(F) = <<i, F - InteractionOffset(i)>>
  BY DEF ColumnAt
<1>4. e = 0 \/ e = 1 \/ e = 2
  BY DEF Interactions
<1>5. /\ Holds(0) <=> 0 <= F /\ F < a
      /\ Holds(1) <=> a <= F /\ F < a + b
      /\ Holds(2) <=> a + b <= F /\ F < a + b + c
  BY <1>1
<1>6. k \in Nat /\ k < cursors[e]
  <2>1. cursors[e] \in Nat
    OBVIOUS
  <2> QED BY <2>1
<1> HIDE DEF F, Holds
<1>7. /\ F \in Nat /\ Holds(e) /\ F - InteractionOffset(e) = k
      /\ \A j \in {0, 1, 2} : Holds(j) => j = e
  <2>1. CASE e = 0
    BY <2>1, <1>1, <1>2, <1>5, <1>6
  <2>2. CASE e = 1
    BY <2>2, <1>1, <1>2, <1>5, <1>6
  <2>3. CASE e = 2
    BY <2>3, <1>1, <1>2, <1>5, <1>6
  <2> QED BY <1>4, <2>1, <2>2, <2>3
<1>8. i = e
  <2>1. Interactions = {0, 1, 2}
    BY DEF Interactions
  <2> QED BY <1>7, <2>1
<1>9. ColumnAt(F) = <<e, k>>
  <2> HIDE DEF i, e, k
  <2>1. F - InteractionOffset(i) = k
    BY <1>7, <1>8
  <2> QED BY ONLY <1>3, <1>8, <2>1
<1>10. TotalCols \in Nat /\ F < TotalCols
  <2>1. TotalCols = a + b + c /\ a + b + c \in Nat
    BY <1>1 DEF TotalCols
  <2>2. F < a \/ F < a + b \/ F < a + b + c
    <3>1. Holds(0) \/ Holds(1) \/ Holds(2)
      BY <1>4, <1>7
    <3> QED BY <1>5, <3>1
  <2> HIDE DEF a, b, c
  <2>3. F < a + b + c
    BY <1>1, <1>7, <2>2
  <2> QED BY <2>1, <2>3
<1> QED BY <1>7, <1>9, <1>10 DEF F

-----------------------------------------------------------------------------
\* The walk that replaces the second word of every load.
Patched(op) ==
  IF op.kind = "LoadTrace" THEN [EncodedOp(op) EXCEPT ![2] = <<0, FlatIndex(op)>>]
  ELSE EncodedOp(op)
Formed(ops) == \A i \in 1 .. Len(ops) : WellFormed(ops[i], cursors)
Codes(ops) == [i \in DOMAIN ops |-> EncodedOp(ops[i])]

Placed(s, ops, n) ==
  /\ s \in [1 .. n + 1 -> Nat] /\ s[1] = 1
  /\ \A i \in 1 .. n : s[i + 1] = s[i] + encoded_len(ops[i])
  /\ \A i \in 1 .. n + 1 : \A j \in 1 .. n : j < i => s[j] + encoded_len(ops[j]) <= s[i]
Coded(op, patched) == IF patched THEN Patched(op) ELSE EncodedOp(op)
Remade(words, ops, s, n, m) ==
  /\ words \in Seq(Word) /\ Len(words) = s[n + 1] - 1
  /\ \A i \in 1 .. n : \A k \in 1 .. encoded_len(ops[i]) :
       s[i] + k - 1 \in 1 .. Len(words) /\ words[s[i] + k - 1] = Coded(ops[i], i <= m)[k]

LEMMA EncodeFacts ==
  ASSUME NEW ops \in Seq(OpSet), NEW n \in Nat \ {0}, Len(ops) = n, Formed(ops)
  PROVE  \E s : Placed(s, ops, n) /\ Remade(encode(ops), ops, s, n, 0)
<1> DEFINE C == Codes(ops)
<1>1. \A i \in 1 .. n : /\ ops[i] \in OpSet /\ C[i] = EncodedOp(ops[i]) /\ C[i] \in Seq(Word)
                        /\ Len(C[i]) = encoded_len(ops[i])
  <2> TAKE i \in 1 .. n
  <2>1. ops[i] \in OpSet /\ i \in DOMAIN ops
    OBVIOUS
  <2>2. WellFormed(ops[i], cursors)
    BY DEF Formed
  <2>3. EncodedOp(ops[i]) \in Seq(Word) /\ Len(EncodedOp(ops[i])) = encoded_len(ops[i])
    BY ONLY <2>1, <2>2, EncodedFacts
  <2> QED BY <2>1, <2>3 DEF Codes
<1>2. C \in [1 .. n -> Seq(Word)] /\ encode(ops) = FlattenSeq(C)
  <2>1. DOMAIN ops = 1 .. n
    OBVIOUS
  <2>2. C = [i \in 1 .. n |-> EncodedOp(ops[i])] /\ encode(ops) = FlattenSeq(C)
    BY <2>1 DEF Codes, encode
  <2> QED BY <2>2, <1>1
<1> HIDE DEF C
<1>3. PICK s : /\ Starts(s, C, n) /\ Laid(FlattenSeq(C), C, s, n)
               /\ FlattenSeq(C) \in Seq(Word) /\ Len(FlattenSeq(C)) = s[n + 1] - 1
  BY <1>2, FlattenFacts
<1>4. Placed(s, ops, n)
  BY <1>1, <1>3 DEF Starts, Placed
<1>5. Remade(encode(ops), ops, s, n, 0)
  <2> DEFINE E == encode(ops)
  <2>1. E \in Seq(Word) /\ Len(E) = s[n + 1] - 1 /\ Laid(E, C, s, n)
    BY <1>2, <1>3
  <2> HIDE DEF E
  <2>2. ASSUME NEW i \in 1 .. n, NEW k \in 1 .. encoded_len(ops[i])
        PROVE  s[i] + k - 1 \in 1 .. Len(E) /\ E[s[i] + k - 1] = Coded(ops[i], i <= 0)[k]
    <3>1. C[i] = EncodedOp(ops[i]) /\ Len(C[i]) = encoded_len(ops[i])
      BY <1>1
    <3>2. s[i] + k - 1 \in 1 .. Len(E) /\ E[s[i] + k - 1] = C[i][k]
      BY <2>1, <3>1 DEF Laid
    <3>3. Coded(ops[i], i <= 0) = EncodedOp(ops[i])
      BY DEF Coded
    <3> QED BY <3>1, <3>2, <3>3
  <2> QED BY <2>1, <2>2 DEF Remade, E
<1> QED BY <1>4, <1>5

WalkStep(at, op) ==
  [pc |-> at.pc + encoded_len(op),
   words |-> IF op.kind = "LoadTrace" THEN [at.words EXCEPT ![at.pc + 1] = <<0, FlatIndex(op)>>]
             ELSE at.words]
WalkStart(ops) == [pc |-> 1, words |-> encode(ops)]


WalksUpto(f, m, ops) ==
  f = [i \in 0 .. m |-> IF i = 0 THEN WalkStart(ops) ELSE WalkStep(f[i - 1], ops[i])]

LEMMA WalksExist ==
  ASSUME NEW n \in Nat, NEW ops
  PROVE  \E f : WalksUpto(f, n, ops)
<1> DEFINE Good == {m \in 0 .. n : \E f : WalksUpto(f, m, ops)}
<1>1. 0 \in Good
  <2>1. WalksUpto([i \in 0 .. 0 |-> WalkStart(ops)], 0, ops)
    BY DEF WalksUpto
  <2>2. 0 \in 0 .. n
    OBVIOUS
  <2> QED BY <2>1, <2>2
<1>2. ASSUME NEW m \in 0 .. n - 1, m \in Good PROVE m + 1 \in Good
  <2>1. PICK f : WalksUpto(f, m, ops)
    BY <1>2
  <2> DEFINE g == [i \in 0 .. m + 1 |-> IF i = m + 1 THEN WalkStep(f[m], ops[m + 1]) ELSE f[i]]
  <2>2. ASSUME NEW i \in 0 .. m + 1
        PROVE  g[i] = IF i = 0 THEN WalkStart(ops) ELSE WalkStep(g[i - 1], ops[i])
    <3>1. CASE i = m + 1
      <4>1. i # 0 /\ i - 1 \in 0 .. m + 1 /\ i - 1 # m + 1 /\ i - 1 = m
        BY <3>1
      <4> QED BY <3>1, <4>1
    <3>2. CASE i # m + 1
      <4>1. i \in 0 .. m /\ g[i] = f[i] /\ (i # 0 => i - 1 \in 0 .. m + 1 /\ i - 1 # m + 1)
        BY <3>2
      <4>2. f[i] = IF i = 0 THEN WalkStart(ops) ELSE WalkStep(f[i - 1], ops[i])
        BY <2>1, <4>1 DEF WalksUpto
      <4>3. i # 0 => g[i - 1] = f[i - 1]
        BY <4>1
      <4> HIDE DEF g
      <4> QED BY <4>1, <4>2, <4>3
    <3> QED BY <3>1, <3>2
  <2>3. WalksUpto(g, m + 1, ops)
    BY <2>2 DEF WalksUpto
  <2> HIDE DEF g
  <2>4. m + 1 \in 0 .. n
    OBVIOUS
  <2> QED BY <2>3, <2>4
<1> HIDE DEF Good
<1>3. \A i \in 0 .. n : i \in Good
  BY <1>1, <1>2, Induction
<1>4. n \in Good
  BY <1>3
<1> QED BY <1>4 DEF Good

\* A place inside the words of an instruction is no place inside another's.
Apart(s, ops, n) ==
  \A i \in 1 .. n : \A k \in 1 .. encoded_len(ops[i]) :
  \A j \in 1 .. n : \A l \in 1 .. encoded_len(ops[j]) :
    s[i] + k - 1 = s[j] + l - 1 => i = j /\ k = l

LEMMA PlacesApart ==
  ASSUME NEW ops, NEW n \in Nat \ {0}, NEW s, Placed(s, ops, n),
         \A i \in 1 .. n : encoded_len(ops[i]) \in Nat \ {0}
  PROVE  Apart(s, ops, n)
<1> SUFFICES ASSUME NEW i \in 1 .. n, NEW k \in 1 .. encoded_len(ops[i]),
                    NEW j \in 1 .. n, NEW l \in 1 .. encoded_len(ops[j]),
                    s[i] + k - 1 = s[j] + l - 1
             PROVE  i = j /\ k = l
  BY DEF Apart
<1> DEFINE a == encoded_len(ops[i])
           b == encoded_len(ops[j])
<1>1. a \in Nat /\ b \in Nat /\ k \in 1 .. a /\ l \in 1 .. b
  OBVIOUS
<1>2. s[i] \in Nat /\ s[j] \in Nat
  <2>1. i \in 1 .. n + 1 /\ j \in 1 .. n + 1
    OBVIOUS
  <2> QED BY <2>1 DEF Placed
<1>3. (j < i => s[j] + b <= s[i]) /\ (i < j => s[i] + a <= s[j])
  <2>1. i \in 1 .. n + 1 /\ j \in 1 .. n + 1
    OBVIOUS
  <2> QED BY <2>1 DEF Placed
<1> HIDE DEF a, b
<1> QED BY <1>1, <1>2, <1>3

LEMMA WalkMore ==
  ASSUME NEW ops \in Seq(OpSet), NEW n \in Nat \ {0}, Len(ops) = n, Formed(ops),
         cursors \in [Interactions -> Nat], NEW s, Placed(s, ops, n), NEW m \in 0 .. n - 1,
         NEW at, at.pc = s[m + 1], Remade(at.words, ops, s, n, m)
  PROVE  /\ WalkStep(at, ops[m + 1]).pc = s[m + 2]
         /\ Remade(WalkStep(at, ops[m + 1]).words, ops, s, n, m + 1)
<1> DEFINE e == m + 1
           op == ops[e]
           W == at.words
           Z == WalkStep(at, op).words
<1>1. /\ e \in 1 .. n /\ e \in Nat /\ e + 1 = m + 2 /\ m \in Nat
      /\ \A i \in 1 .. n : i # e => (i <= e <=> i <= m)
  OBVIOUS
<1>2. \A i \in 1 .. n : /\ encoded_len(ops[i]) \in Nat \ {0}
                        /\ ops[i].kind = "LoadTrace" => encoded_len(ops[i]) = 3
  <2> TAKE i \in 1 .. n
  <2>1. ops[i] \in OpSet /\ WellFormed(ops[i], cursors)
    BY DEF Formed
  <2> QED BY ONLY <2>1, EncodedFacts
<1>3. WalkStep(at, op).pc = s[m + 2]
  <2>1. WalkStep(at, op).pc = at.pc + encoded_len(op)
    BY DEF WalkStep
  <2>2. s[e + 1] = s[e] + encoded_len(ops[e])
    BY <1>1 DEF Placed
  <2> QED BY <1>1, <2>1, <2>2
<1>4. /\ W \in Seq(Word) /\ Len(W) = s[n + 1] - 1
      /\ \A i \in 1 .. n : \A k \in 1 .. encoded_len(ops[i]) :
           s[i] + k - 1 \in 1 .. Len(W) /\ W[s[i] + k - 1] = Coded(ops[i], i <= m)[k]
  BY DEF Remade
<1>5. CASE op.kind # "LoadTrace"
  <2>1. Z = W
    BY <1>5 DEF WalkStep
  <2>2. Coded(op, TRUE) = Coded(op, FALSE)
    BY <1>5 DEF Coded, Patched
  <2>3. \A i \in 1 .. n : Coded(ops[i], i <= e) = Coded(ops[i], i <= m)
    <3> TAKE i \in 1 .. n
    <3>1. CASE i = e
      <4>1. (i <= e) = TRUE /\ (i <= m) = FALSE
        BY <3>1, <1>1
      <4> QED BY <3>1, <4>1, <2>2
    <3>2. CASE i # e
      <4>1. (i <= e) = (i <= m)
        BY <3>2, <1>1
      <4> QED BY <4>1
    <3> QED BY <3>1, <3>2
  <2> HIDE DEF Z, W, e, op
  <2>4. Remade(Z, ops, s, n, e)
    BY <1>4, <2>1, <2>3 DEF Remade
  <2> QED BY <1>3, <2>4 DEF Z, e, op
<1>6. CASE op.kind = "LoadTrace"
  <2> DEFINE q == s[e] + 2 - 1
             v == <<0, FlatIndex(op)>>
  <2>1. Z = [W EXCEPT ![q] = v]
    <3>1. at.pc + 1 = q
      <4>1. s[e] \in Nat
        BY <1>1 DEF Placed
      <4> QED BY <4>1
    <3> QED BY <1>6, <3>1 DEF WalkStep
  <2>2. v \in Word /\ 2 \in 1 .. encoded_len(op)
    <3>1. FlatIndex(op) \in Nat
      <4>1. WellFormed(op, cursors)
        BY <1>1 DEF Formed
      <4>2. op.data[1] \in Interactions /\ op.data[2] \in 0 .. cursors[op.data[1]] - 1
        BY <4>1, <1>6, KindFacts DEF WellFormed
      <4> HIDE DEF op
      <4> QED BY <4>2, ColumnFound
    <3>2. encoded_len(op) = 3
      BY <1>1, <1>2, <1>6
    <3> QED BY <3>1, <3>2 DEF Word
  <2>3. q \in 1 .. Len(W)
    BY <1>1, <1>4, <2>2
  <2>4. ASSUME NEW i \in 1 .. n, NEW k \in 1 .. encoded_len(ops[i]), s[i] + k - 1 = q
        PROVE  i = e /\ k = 2
    <3> DEFINE l == 2
    <3>1. e \in 1 .. n /\ l \in 1 .. encoded_len(ops[e]) /\ s[i] + k - 1 = s[e] + l - 1
      BY <1>1, <2>2, <2>4
    <3> HIDE DEF l, e, q, op
    <3>a. \A x \in 1 .. n : encoded_len(ops[x]) \in Nat \ {0}
      BY <1>2
    <3>b. Apart(s, ops, n)
      BY <3>a, PlacesApart
    <3>2. i = e /\ k = l
      BY ONLY <3>1, <3>b, i \in 1 .. n, k \in 1 .. encoded_len(ops[i]) DEF Apart
    <3> QED BY <3>2 DEF l
  <2>5. Coded(op, TRUE) = [EncodedOp(op) EXCEPT ![2] = v]
    BY <1>6 DEF Coded, Patched
  <2>6. EncodedOp(op) \in Seq(Word) /\ Len(EncodedOp(op)) = encoded_len(op)
    <3>1. op \in OpSet /\ WellFormed(op, cursors)
      BY <1>1 DEF Formed
    <3> QED BY ONLY <3>1, EncodedFacts
  <2> HIDE DEF W, q, v
  <2>7. Z \in Seq(Word) /\ Len(Z) = Len(W)
    <3> HIDE DEF Z, Word
    <3>1. W \in Seq(Word) /\ q \in 1 .. Len(W) /\ v \in Word
      BY <1>4, <2>2, <2>3
    <3> QED BY ONLY <2>1, <3>1
  <2>8. \A p \in 1 .. Len(W) : Z[p] = IF p = q THEN v ELSE W[p]
    <3> HIDE DEF Z, Word
    <3>1. W \in Seq(Word)
      BY <1>4
    <3> QED BY ONLY <2>1, <3>1
  <2>9. ASSUME NEW i \in 1 .. n, NEW k \in 1 .. encoded_len(ops[i])
        PROVE  s[i] + k - 1 \in 1 .. Len(Z) /\ Z[s[i] + k - 1] = Coded(ops[i], i <= e)[k]
    <3> DEFINE p == s[i] + k - 1
    <3>1. p \in 1 .. Len(W) /\ W[p] = Coded(ops[i], i <= m)[k]
      BY <1>4
    <3>2. Z[p] = IF p = q THEN v ELSE W[p]
      BY <3>1, <2>8
    <3>3. CASE i # e
      <4>1. p # q
        BY <2>4, <3>3
      <4>2. (i <= e) = (i <= m)
        BY <3>3, <1>1
      <4> HIDE DEF p, Z
      <4>3. Z[p] = Coded(ops[i], i <= e)[k]
        BY <4>1, <4>2, <3>1, <3>2
      <4> QED BY <3>1, <4>3, <2>7 DEF p
    <3>4. CASE i = e
      <4>1. (i <= e) = TRUE /\ (i <= m) = FALSE
        BY <3>4, <1>1
      <4>2. Coded(op, FALSE) = EncodedOp(op)
        BY DEF Coded
      <4>3. W[p] = EncodedOp(op)[k]
        BY <3>1, <3>4, <4>1, <4>2
      <4>4. p = q <=> k = 2
        <5>1. k = 2 => p = q
          BY <3>4 DEF q
        <5>2. p = q => k = 2
          BY <2>4
        <5> QED BY <5>1, <5>2
      <4>5. k \in 1 .. Len(EncodedOp(op))
        BY <3>4, <2>6
      <4>6. Coded(op, TRUE)[k] = IF k = 2 THEN v ELSE EncodedOp(op)[k]
        <5> DEFINE E == EncodedOp(op)
        <5>1. E \in Seq(Word) /\ k \in 1 .. Len(E) /\ Coded(op, TRUE) = [E EXCEPT ![2] = v]
          BY <2>5, <2>6, <4>5
        <5> HIDE DEF E, op, Word
        <5>2. k \in DOMAIN E
          BY <5>1
        <5>3. Coded(op, TRUE)[k] = IF k = 2 THEN v ELSE E[k]
          BY ONLY <5>1, <5>2
        <5> QED BY <5>3 DEF E
      <4> HIDE DEF p, Z, op
      <4>7. Z[p] = Coded(op, TRUE)[k]
        BY <3>2, <4>3, <4>4, <4>6
      <4>8. Z[p] = Coded(ops[i], i <= e)[k]
        BY <4>7, <4>1, <3>4 DEF op
      <4> QED BY <3>1, <4>8, <2>7 DEF p
    <3> QED BY <3>3, <3>4
  <2> HIDE DEF Z, e, op
  <2>10. Remade(Z, ops, s, n, e)
    BY <2>7, <2>9, <1>4 DEF Remade
  <2> QED BY <1>3, <2>10 DEF Z, e, op
<1> QED BY <1>5, <1>6

LEMMA RemappedFacts ==
  ASSUME NEW ops \in Seq(OpSet), NEW n \in Nat \ {0}, Len(ops) = n, Formed(ops),
         cursors \in [Interactions -> Nat]
  PROVE  \E s : Placed(s, ops, n) /\ Remade(Remapped(ops), ops, s, n, n)
<1>1. PICK s : Placed(s, ops, n) /\ Remade(encode(ops), ops, s, n, 0)
  BY EncodeFacts
<1> DEFINE f == CHOOSE u : WalksUpto(u, n, ops)
<1>2. WalksUpto(f, n, ops)
  BY WalksExist
<1>3. Remapped(ops) = f[n].words
  BY DEF Remapped, WalksUpto, WalkStep, WalkStart
<1> HIDE DEF f
<1>4. f[0] = WalkStart(ops) /\ \A i \in 0 .. n - 1 : f[i + 1] = WalkStep(f[i], ops[i + 1])
  <2>1. 0 \in 0 .. n
    OBVIOUS
  <2>2. ASSUME NEW i \in 0 .. n - 1 PROVE f[i + 1] = WalkStep(f[i], ops[i + 1])
    <3>1. i + 1 \in 0 .. n /\ i + 1 # 0 /\ (i + 1) - 1 = i
      OBVIOUS
    <3> QED BY <1>2, <3>1 DEF WalksUpto
  <2> QED BY <1>2, <2>1, <2>2 DEF WalksUpto
<1> DEFINE Good == {i \in 0 .. n : f[i].pc = s[i + 1] /\ Remade(f[i].words, ops, s, n, i)}
<1>5. 0 \in Good
  <2>1. f[0].pc = 1 /\ f[0].words = encode(ops)
    BY <1>4 DEF WalkStart
  <2>2. s[0 + 1] = 1
    BY <1>1 DEF Placed
  <2>3. 0 \in 0 .. n
    OBVIOUS
  <2> QED BY <1>1, <2>1, <2>2, <2>3
<1>6. ASSUME NEW m \in 0 .. n - 1, m \in Good PROVE m + 1 \in Good
  <2> DEFINE at == f[m]
  <2>1. at.pc = s[m + 1] /\ Remade(at.words, ops, s, n, m)
    BY <1>6
  <2>2. f[m + 1] = WalkStep(at, ops[m + 1])
    BY <1>4
  <2> HIDE DEF at
  <2>3. /\ WalkStep(at, ops[m + 1]).pc = s[m + 2]
        /\ Remade(WalkStep(at, ops[m + 1]).words, ops, s, n, m + 1)
    BY <1>1, <2>1, WalkMore
  <2>4. m + 1 \in 0 .. n /\ (m + 1) + 1 = m + 2
    OBVIOUS
  <2> QED BY <2>2, <2>3, <2>4
<1> HIDE DEF Good
<1>7. \A i \in 0 .. n : i \in Good
  BY <1>5, <1>6, Induction
<1>8. n \in 0 .. n
  OBVIOUS
<1>9. Remade(f[n].words, ops, s, n, n)
  BY <1>7, <1>8 DEF Good
<1> QED BY <1>1, <1>3, <1>9

-----------------------------------------------------------------------------
\* One step of the kernel.
Read(t, r) == IF r \in DOMAIN t.file THEN t.file[r] ELSE Zero
Write(t, regs, dst, val, length) ==
  [t EXCEPT !.pc = @ + length,
            !.file = IF dst < regs
                     THEN [r \in DOMAIN @ \cup {dst} |-> IF r = dst THEN val ELSE @[r]]
                     ELSE @]
Add(t, val) == [t EXCEPT !.pc = @ + 1, !.constraints = Append(@, val)]
SourcesRead(words, t, kind) ==
  [k \in 1 .. NSources(kind) |->
     Read(t, words[t.pc + ((k + 1) \div 2)][IF k % 2 = 1 THEN 1 ELSE 2])]
DataRead(words, t, kind) ==
  [k \in 1 .. NData(kind) |-> words[t.pc + ((NSources(kind) + 1) \div 2) + k][2]]

LEMMA StepConstrains ==
  ASSUME NEW words, NEW regs, NEW t, NEW src, words[t.pc] = <<"AddConstraint", src>>
  PROVE  KernelStep(words, regs, t) = Add(t, Read(t, src))
<1>1. words[t.pc][1] = "AddConstraint" /\ words[t.pc][2] = src
  OBVIOUS
<1> QED BY <1>1 DEF KernelStep, Read, Add

LEMMA StepLoads ==
  ASSUME NEW words, NEW regs, NEW t, NEW dst, words[t.pc] = <<"LoadTrace", dst>>,
         NEW e, NEW col, ColumnAt(words[t.pc + 1][2]) = <<e, col>>,
         NEW o \in Int, words[t.pc + 2] = Signed(o),
         words[t.pc + 1][2] \in Nat, TotalCols \in Nat, words[t.pc + 1][2] < TotalCols,
         dst \in Nat, regs \in Nat, dst < regs
  PROVE  KernelStep(words, regs, t) = Write(t, regs, dst, TraceValue(e, col, o), 3)
<1>1. words[t.pc][1] = "LoadTrace" /\ words[t.pc][2] = dst
  OBVIOUS
<1>2. (IF words[t.pc + 2][1] = 1 THEN -words[t.pc + 2][2] ELSE words[t.pc + 2][2]) = o
  BY DEF Signed
<1> DEFINE x == IF words[t.pc + 2][1] = 1 THEN -words[t.pc + 2][2] ELSE words[t.pc + 2][2]
           column == ColumnAt(words[t.pc + 1][2])
<1>3. KernelStep(words, regs, t) = Write(t, regs, dst, TraceValue(column[1], column[2], x), 3)
  <2>1. ~ (words[t.pc + 1][2] >= TotalCols \/ dst >= regs)
    OBVIOUS
  <2> QED BY <1>1, <2>1 DEF KernelStep, Write
<1>4. x = o /\ column[1] = e /\ column[2] = col
  BY <1>2
<1> HIDE DEF x, column
<1> QED BY <1>3, <1>4

LEMMA StepComputes ==
  ASSUME NEW words, NEW regs, NEW t, NEW kind \in Kinds, NEW dst, words[t.pc] = <<kind, dst>>
  PROVE  KernelStep(words, regs, t) =
           Write(t, regs, dst,
                 Applied(kind, SourcesRead(words, t, kind), DataRead(words, t, kind)),
                 1 + (NSources(kind) + 1) \div 2 + NData(kind))
<1>1. words[t.pc][1] = kind /\ words[t.pc][2] = dst
  OBVIOUS
<1>2. kind # "AddConstraint" /\ kind # "LoadTrace"
  BY KindFacts
<1> QED BY <1>1, <1>2 DEF KernelStep, Write, SourcesRead, DataRead, Read

\* The kernel with the registers below m written and j constraints added.
Kernel(pc, m, w, a, j) ==
  [pc |-> pc, file |-> [r \in 0 .. m - 1 |-> w[r]], constraints |-> [k \in 1 .. j |-> a[k]]]

LEMMA KernelReads ==
  ASSUME NEW pc, NEW m \in Nat, NEW w, NEW a, NEW j, NEW r \in Nat, r < m
  PROVE  Read(Kernel(pc, m, w, a, j), r) = w[r]
<1>1. r \in 0 .. m - 1
  OBVIOUS
<1> QED BY <1>1 DEF Kernel, Read

LEMMA KernelWrites ==
  ASSUME NEW pc, NEW m \in Nat, NEW w, NEW a, NEW j, NEW regs \in Nat, m < regs, NEW length
  PROVE  Write(Kernel(pc, m, w, a, j), regs, m, w[m], length)
           = Kernel(pc + length, m + 1, w, a, j)
<1> DEFINE old == [r \in 0 .. m - 1 |-> w[r]]
           new == [r \in 0 .. (m + 1) - 1 |-> w[r]]
           cs == [k \in 1 .. j |-> a[k]]
<1>1. (0 .. m - 1) \cup {m} = 0 .. (m + 1) - 1
  OBVIOUS
<1>2. [r \in DOMAIN old \cup {m} |-> IF r = m THEN w[m] ELSE old[r]] = new
  <2>1. DOMAIN old \cup {m} = 0 .. (m + 1) - 1
    BY <1>1
  <2>2. \A r \in 0 .. (m + 1) - 1 : (IF r = m THEN w[m] ELSE old[r]) = w[r]
    <3> TAKE r \in 0 .. (m + 1) - 1
    <3>1. r # m => r \in 0 .. m - 1
      OBVIOUS
    <3> QED BY <3>1
  <2> HIDE DEF old
  <2> QED BY <2>1, <2>2
<1> HIDE DEF old, new, cs
<1>3. Kernel(pc, m, w, a, j) = [pc |-> pc, file |-> old, constraints |-> cs]
  BY DEF Kernel, old, cs
<1>4. Kernel(pc + length, m + 1, w, a, j) = [pc |-> pc + length, file |-> new, constraints |-> cs]
  BY DEF Kernel, new, cs
<1>5. Write([pc |-> pc, file |-> old, constraints |-> cs], regs, m, w[m], length)
        = [pc |-> pc + length, file |-> new, constraints |-> cs]
  <2> DEFINE v == w[m]
             q == [r \in DOMAIN old \cup {m} |-> IF r = m THEN v ELSE old[r]]
             u == [pc |-> pc, file |-> old, constraints |-> cs]
  <2>1. Write(u, regs, m, v, length)
          = [u EXCEPT !.pc = u.pc + length,
                      !.file = IF m < regs
                               THEN [r \in DOMAIN u.file \cup {m} |-> IF r = m THEN v ELSE u.file[r]]
                               ELSE u.file]
    BY DEF Write
  <2>2. u.pc = pc /\ u.file = old
    OBVIOUS
  <2>3. [r \in DOMAIN u.file \cup {m} |-> IF r = m THEN v ELSE u.file[r]] = q
    BY <2>2
  <2>4. q = new
    BY <1>2
  <2> HIDE DEF q
  <2>5. Write(u, regs, m, v, length) = [u EXCEPT !.pc = pc + length, !.file = new]
    BY <2>1, <2>2, <2>3, <2>4
  <2> QED BY <2>5
<1> QED BY <1>3, <1>4, <1>5

\* The words from p on are those of the instruction.
Runs(words, op, p) ==
  \A k \in 1 .. encoded_len(op) :
    p + k - 1 \in 1 .. Len(words) /\ words[p + k - 1] = Patched(op)[k]

LEMMA ConstraintRuns ==
  ASSUME NEW op \in OpSet, WellFormed(op, cursors), op.kind = "AddConstraint",
         NEW p \in Nat, NEW words, Runs(words, op, p), NEW regs,
         NEW m \in Nat, NEW w, NEW a, NEW j \in Nat, op.srcs[1] < m, a[j + 1] = w[op.srcs[1]]
  PROVE  KernelStep(words, regs, Kernel(p, m, w, a, j))
           = Kernel(p + encoded_len(op), m, w, a, j + 1)
<1> DEFINE src == op.srcs[1]
           t == Kernel(p, m, w, a, j)
           old == [k \in 1 .. j |-> a[k]]
           new == [k \in 1 .. j + 1 |-> a[k]]
           file == [r \in 0 .. m - 1 |-> w[r]]
<1>1. encoded_len(op) = 1
  BY DEF encoded_len
<1>2. EncodedOp(op)[1] = <<op.kind, src>> /\ Patched(op) = EncodedOp(op)
  BY EncodedFacts DEF Encodes, Patched
<1>3. words[p] = <<"AddConstraint", src>>
  <2>1. 1 \in 1 .. encoded_len(op) /\ p + 1 - 1 = p
    BY <1>1
  <2>2. words[p + 1 - 1] = Patched(op)[1]
    BY <2>1 DEF Runs
  <2> QED BY <1>2, <2>1, <2>2
<1>4. src \in Nat
  <2>1. op.srcs \in Seq(Nat) /\ Len(op.srcs) = 1
    BY KindFacts DEF OpSet, WellFormed
  <2>2. 1 \in 1 .. Len(op.srcs)
    BY <2>1
  <2> QED BY <2>1, <2>2
<1>5. Append(old, a[j + 1]) = new
  <2>1. Len(old) = j /\ DOMAIN old = 1 .. j
    OBVIOUS
  <2>2. Append(old, a[j + 1]) = [k \in 1 .. j + 1 |-> IF k = j + 1 THEN a[j + 1] ELSE old[k]]
    BY <2>1
  <2>3. \A k \in 1 .. j + 1 : (IF k = j + 1 THEN a[j + 1] ELSE old[k]) = a[k]
    OBVIOUS
  <2> QED BY <2>2, <2>3
<1>6. Read(t, src) = w[src]
  BY <1>4, KernelReads
<1>7. t = [pc |-> p, file |-> file, constraints |-> old]
  BY DEF Kernel
<1>8. KernelStep(words, regs, t) = Add(t, Read(t, src))
  <2>1. t.pc = p
    BY <1>7
  <2>2. words[t.pc] = <<"AddConstraint", src>>
    BY <2>1, <1>3
  <2> HIDE DEF t, src
  <2> QED BY <2>2, StepConstrains
<1>9. Kernel(p + 1, m, w, a, j + 1) = [pc |-> p + 1, file |-> file, constraints |-> new]
  BY DEF Kernel
<1>10. a[j + 1] = w[src]
  OBVIOUS
<1> HIDE DEF t, src, old, new, file
<1>11. KernelStep(words, regs, t) = [pc |-> p + 1, file |-> file, constraints |-> new]
  <2> DEFINE v == a[j + 1]
  <2>1. KernelStep(words, regs, t) = Add(t, v)
    BY <1>6, <1>8, <1>10
  <2>2. Append(old, v) = new
    BY <1>5
  <2> HIDE DEF v
  <2>3. Add([pc |-> p, file |-> file, constraints |-> old], v)
          = [pc |-> p + 1, file |-> file, constraints |-> new]
    <3> DEFINE u == [pc |-> p, file |-> file, constraints |-> old]
               q == Append(u.constraints, v)
    <3>1. Add(u, v) = [u EXCEPT !.pc = u.pc + 1, !.constraints = q]
      BY DEF Add
    <3>2. q = new /\ u.pc = p
      BY <2>2
    <3> HIDE DEF q
    <3>3. Add(u, v) = [u EXCEPT !.pc = p + 1, !.constraints = new]
      BY <3>1, <3>2
    <3> QED BY <3>3
  <2> QED BY <1>7, <2>1, <2>3
<1> QED BY <1>1, <1>9, <1>11 DEF t

LEMMA LoadRuns ==
  ASSUME NEW op \in OpSet, WellFormed(op, cursors), op.kind = "LoadTrace",
         cursors \in [Interactions -> Nat],
         NEW p \in Nat, NEW words, Runs(words, op, p), NEW regs \in Nat,
         NEW m \in Nat, m < regs, NEW w, NEW a, NEW j, op.dst = m,
         w[m] = TraceValue(op.data[1], op.data[2], op.data[3])
  PROVE  KernelStep(words, regs, Kernel(p, m, w, a, j))
           = Kernel(p + encoded_len(op), m + 1, w, a, j)
<1> DEFINE e == op.data[1]
           col == op.data[2]
           o == op.data[3]
           E == EncodedOp(op)
           t == Kernel(p, m, w, a, j)
<1>1. /\ E \in Seq(Word) /\ Len(E) = 3 /\ encoded_len(op) = 3
      /\ E[1] = <<op.kind, op.dst>> /\ E[3] = Signed(o)
  BY EncodedFacts DEF Encodes
<1>2. Len(op.data) = 3 /\ e \in Interactions /\ col \in 0 .. cursors[e] - 1
  BY KindFacts DEF WellFormed
<1>3. o \in Int
  <2>1. op.data \in Seq(Int) /\ 3 \in 1 .. Len(op.data)
    BY <1>2 DEF OpSet
  <2> QED BY <2>1
<1>4. /\ ColumnAt(FlatIndex(op)) = <<e, col>>
      /\ FlatIndex(op) \in Nat /\ TotalCols \in Nat /\ FlatIndex(op) < TotalCols
  BY <1>2, ColumnFound
<1>5. Patched(op) = [E EXCEPT ![2] = <<0, FlatIndex(op)>>]
  BY DEF Patched
<1> HIDE DEF E
<1>6. Patched(op)[1] = E[1] /\ Patched(op)[2] = <<0, FlatIndex(op)>> /\ Patched(op)[3] = E[3]
  <2>1. DOMAIN E = 1 .. 3
    BY <1>1
  <2> QED BY <1>5, <2>1
<1>7. words[p] = Patched(op)[1] /\ words[p + 1] = Patched(op)[2] /\ words[p + 2] = Patched(op)[3]
  <2>1. /\ 1 \in 1 .. encoded_len(op) /\ 2 \in 1 .. encoded_len(op) /\ 3 \in 1 .. encoded_len(op)
        /\ p + 1 - 1 = p /\ p + 2 - 1 = p + 1 /\ p + 3 - 1 = p + 2
    BY <1>1
  <2>2. /\ words[p + 1 - 1] = Patched(op)[1] /\ words[p + 2 - 1] = Patched(op)[2]
        /\ words[p + 3 - 1] = Patched(op)[3]
    BY <2>1 DEF Runs
  <2> QED BY <2>1, <2>2
<1>8. t.pc = p
  BY DEF Kernel
<1> HIDE DEF t
<1>9. KernelStep(words, regs, t) = Write(t, regs, m, TraceValue(e, col, o), 3)
  <2>1. words[t.pc] = <<"LoadTrace", m>>
    BY <1>1, <1>6, <1>7, <1>8
  <2>2. /\ ColumnAt(words[t.pc + 1][2]) = <<e, col>>
        /\ words[t.pc + 1][2] \in Nat /\ words[t.pc + 1][2] < TotalCols
    BY <1>4, <1>6, <1>7, <1>8
  <2>3. words[t.pc + 2] = Signed(o)
    BY <1>1, <1>6, <1>7, <1>8
  <2> HIDE DEF e, col, o
  <2> QED BY <2>1, <2>2, <2>3, <1>3, <1>4, StepLoads
<1>10. Write(t, regs, m, w[m], 3) = Kernel(p + 3, m + 1, w, a, j)
  <2>1. m \in Nat /\ regs \in Nat /\ m < regs
    OBVIOUS
  <2>2. Write(Kernel(p, m, w, a, j), regs, m, w[m], 3) = Kernel(p + 3, m + 1, w, a, j)
    BY ONLY <2>1, KernelWrites
  <2> QED BY <2>2 DEF t
<1> QED BY <1>1, <1>9, <1>10 DEF t

LEMMA ComputationRuns ==
  ASSUME NEW op \in OpSet, op.kind \in Kinds, Len(op.srcs) = NSources(op.kind),
         Len(op.data) = NData(op.kind),
         NEW p \in Nat, NEW words, Runs(words, op, p), NEW regs \in Nat,
         NEW m \in Nat, m < regs, NEW w, NEW a, NEW j, op.dst = m,
         \A k \in 1 .. Len(op.srcs) : op.srcs[k] < m,
         w[m] = Applied(op.kind, Operands(op, w), op.data)
  PROVE  KernelStep(words, regs, Kernel(p, m, w, a, j))
           = Kernel(p + encoded_len(op), m + 1, w, a, j)
<1> DEFINE E == EncodedOp(op)
           t == Kernel(p, m, w, a, j)
           kind == op.kind
           n == NSources(kind)
           d == NData(kind)
           sw == (n + 1) \div 2
           len == encoded_len(op)
<1>1. Packed(E, op) /\ Patched(op) = E
  <2>1. kind # "LoadTrace"
    BY KindFacts
  <2> QED BY <2>1, PackedOp DEF Patched
<1>2. /\ E[1] = <<kind, m>>
      /\ \A k \in 1 .. n : E[1 + ((k + 1) \div 2)][Half(k)] = op.srcs[k]
      /\ \A k \in 1 .. d : E[1 + sw + k][2] = op.data[k]
  BY <1>1 DEF Packed
<1>3. n \in {0, 1, 2, 4} /\ d \in {0, 1, 4} /\ len = 1 + sw + d
  BY KindShapes
<1>4. t.pc = p
  BY DEF Kernel
<1>5. op.srcs \in Seq(Nat) /\ op.data \in Seq(Int) /\ Len(op.srcs) = n /\ Len(op.data) = d
  BY DEF OpSet
<1> HIDE DEF E, t, len
<1>6. \A k \in 1 .. len : words[p + k - 1] = E[k]
  BY <1>1 DEF Runs, len
<1>7. /\ sw \in Nat /\ n \in Nat /\ d \in Nat /\ len = 1 + sw + d /\ len \in Nat
      /\ \A k \in 1 .. n : (k + 1) \div 2 \in 1 .. sw
  <2>1. d \in Nat /\ n \in Nat
    <3>1. n \in {0, 1, 2, 4} /\ d \in {0, 1, 4}
      BY <1>3
    <3> HIDE DEF n, d
    <3> QED BY <3>1
  <2> HIDE DEF n, d
  <2> QED BY <1>3, <2>1
<1> HIDE DEF n, d, sw
<1>8. words[p] = <<kind, m>>
  <2>1. 1 \in 1 .. len /\ p + 1 - 1 = p
    BY <1>7
  <2> QED BY <2>1, <1>2, <1>6
<1>9. \A k \in 1 .. n : words[p + ((k + 1) \div 2)][Half(k)] = op.srcs[k]
  <2> TAKE k \in 1 .. n
  <2> DEFINE h == (k + 1) \div 2
  <2>1. h \in 1 .. sw
    BY <1>7
  <2>2. E[1 + h][Half(k)] = op.srcs[k]
    BY <1>2
  <2> HIDE DEF h
  <2>3. 1 + h \in 1 .. len /\ p + (1 + h) - 1 = p + h
    BY <2>1, <1>7
  <2>4. words[p + h] = E[1 + h]
    BY <2>3, <1>6
  <2> QED BY <2>2, <2>4 DEF h
<1>10. \A k \in 1 .. d : words[p + sw + k][2] = op.data[k]
  <2> TAKE k \in 1 .. d
  <2>1. 1 + sw + k \in 1 .. len /\ p + (1 + sw + k) - 1 = p + sw + k
    BY <1>7
  <2>2. words[p + sw + k] = E[1 + sw + k]
    BY <2>1, <1>6
  <2> QED BY <2>2, <1>2
<1>11. SourcesRead(words, t, kind) = Operands(op, w)
  <2>1. SourcesRead(words, t, kind)
          = [k \in 1 .. n |-> Read(t, words[p + ((k + 1) \div 2)][Half(k)])]
    BY <1>4 DEF SourcesRead, Half, n
  <2>2. Operands(op, w) = [k \in 1 .. n |-> w[op.srcs[k]]]
    BY <1>5 DEF Operands
  <2>3. ASSUME NEW k \in 1 .. n
        PROVE  Read(t, words[p + ((k + 1) \div 2)][Half(k)]) = w[op.srcs[k]]
    <3> DEFINE r == op.srcs[k]
    <3>1. r \in Nat /\ r < m
      BY <1>5
    <3>2. words[p + ((k + 1) \div 2)][Half(k)] = r
      BY <1>9
    <3> HIDE DEF r
    <3>3. Read(t, r) = w[r]
      BY <3>1, KernelReads DEF t
    <3>4. Read(t, words[p + ((k + 1) \div 2)][Half(k)]) = w[r]
      BY <3>2, <3>3
    <3> QED BY <3>4 DEF r
  <2> QED BY <2>1, <2>2, <2>3
<1>12. DataRead(words, t, kind) = op.data
  <2>1. DataRead(words, t, kind) = [k \in 1 .. d |-> words[p + sw + k][2]]
    BY <1>4 DEF DataRead, d, sw, n
  <2>2. op.data = [k \in 1 .. d |-> op.data[k]]
    BY <1>5
  <2> QED BY <2>1, <2>2, <1>10
<1>13. KernelStep(words, regs, t)
         = Write(t, regs, m, Applied(kind, SourcesRead(words, t, kind), DataRead(words, t, kind)), len)
  <2>1. words[t.pc] = <<kind, m>> /\ kind \in Kinds
    BY <1>4, <1>8
  <2>2. len = 1 + (NSources(kind) + 1) \div 2 + NData(kind)
    BY <1>3 DEF sw, n, d
  <2> HIDE DEF kind
  <2> QED BY <2>1, <2>2, StepComputes
<1>14. Write(t, regs, m, w[m], len) = Kernel(p + len, m + 1, w, a, j)
  <2>1. m \in Nat /\ regs \in Nat /\ m < regs
    OBVIOUS
  <2> HIDE DEF len
  <2>2. Write(Kernel(p, m, w, a, j), regs, m, w[m], len) = Kernel(p + len, m + 1, w, a, j)
    BY ONLY <2>1, KernelWrites
  <2> QED BY <2>2 DEF t
<1>15. KernelStep(words, regs, t) = Kernel(p + len, m + 1, w, a, j)
  BY <1>11, <1>12, <1>13, <1>14
<1> QED BY <1>15 DEF t, len

-----------------------------------------------------------------------------
\* The kernel's walk.
RunStep(t, words, regs) == IF t.pc > Len(words) THEN t ELSE KernelStep(words, regs, t)
RunStart == [pc |-> 1, file |-> <<>>, constraints |-> <<>>]


RunsUpto(f, m, words, regs) ==
  f = [i \in 0 .. m |-> IF i = 0 THEN RunStart ELSE RunStep(f[i - 1], words, regs)]

LEMMA RunsExist ==
  ASSUME NEW n \in Nat, NEW words, NEW regs
  PROVE  \E f : RunsUpto(f, n, words, regs)
<1> DEFINE Good == {m \in 0 .. n : \E f : RunsUpto(f, m, words, regs)}
<1>1. 0 \in Good
  <2>1. RunsUpto([i \in 0 .. 0 |-> RunStart], 0, words, regs)
    BY DEF RunsUpto
  <2>2. 0 \in 0 .. n
    OBVIOUS
  <2> QED BY <2>1, <2>2
<1>2. ASSUME NEW m \in 0 .. n - 1, m \in Good PROVE m + 1 \in Good
  <2>1. PICK f : RunsUpto(f, m, words, regs)
    BY <1>2
  <2> DEFINE g == [i \in 0 .. m + 1 |-> IF i = m + 1 THEN RunStep(f[m], words, regs) ELSE f[i]]
  <2>2. ASSUME NEW i \in 0 .. m + 1
        PROVE  g[i] = IF i = 0 THEN RunStart ELSE RunStep(g[i - 1], words, regs)
    <3>1. CASE i = m + 1
      <4>1. i # 0 /\ i - 1 \in 0 .. m + 1 /\ i - 1 # m + 1 /\ i - 1 = m
        BY <3>1
      <4> QED BY <3>1, <4>1
    <3>2. CASE i # m + 1
      <4>1. i \in 0 .. m /\ g[i] = f[i] /\ (i # 0 => i - 1 \in 0 .. m + 1 /\ i - 1 # m + 1)
        BY <3>2
      <4>2. f[i] = IF i = 0 THEN RunStart ELSE RunStep(f[i - 1], words, regs)
        BY <2>1, <4>1 DEF RunsUpto
      <4>3. i # 0 => g[i - 1] = f[i - 1]
        BY <4>1
      <4> HIDE DEF g
      <4> QED BY <4>1, <4>2, <4>3
    <3> QED BY <3>1, <3>2
  <2>3. RunsUpto(g, m + 1, words, regs)
    BY <2>2 DEF RunsUpto
  <2> HIDE DEF g
  <2>4. m + 1 \in 0 .. n
    OBVIOUS
  <2> QED BY <2>3, <2>4
<1> HIDE DEF Good
<1>3. \A i \in 0 .. n : i \in Good
  BY <1>1, <1>2, Induction
<1>4. n \in Good
  BY <1>3
<1> QED BY <1>4 DEF Good


\* The file has room for the register; a constraint is the next member of a.
Ready(op, w, m, regs, a, j, e) ==
  /\ op.kind # "AddConstraint" => m < regs
  /\ op.kind # "AddConstraint" => e = j
  /\ op.kind = "AddConstraint" => e = j + 1 /\ a[e] = w[op.srcs[1]]

LEMMA InstructionRuns ==
  ASSUME NEW op \in OpSet, cursors \in [Interactions -> Nat], NEW w \in [Nat -> Value],
         NEW m \in Nat, NEW next \in Nat, Explained(op, m, next, w, cursors),
         NEW p \in Nat, NEW words, Len(words) \in Nat, Runs(words, op, p),
         NEW regs \in Nat, NEW a, NEW j \in Nat, NEW e, Ready(op, w, m, regs, a, j, e)
  PROVE  RunStep(Kernel(p, m, w, a, j), words, regs) = Kernel(p + encoded_len(op), next, w, a, e)
<1> DEFINE t == Kernel(p, m, w, a, j)
<1>1. WellFormed(op, cursors) /\ \A k \in 1 .. Len(op.srcs) : op.srcs[k] < m
  BY DEF Explained
<1>2. RunStep(t, words, regs) = KernelStep(words, regs, t)
  <2>1. t.pc = p
    BY DEF Kernel
  <2>2. p \in 1 .. Len(words)
    <3>1. encoded_len(op) \in Nat \ {0}
      BY <1>1, EncodedFacts
    <3>2. 1 \in 1 .. encoded_len(op) /\ p + 1 - 1 = p
      BY <3>1
    <3> QED BY <3>2 DEF Runs
  <2>3. ~ (t.pc > Len(words))
    BY <2>1, <2>2
  <2> QED BY <2>3 DEF RunStep
<1>3. CASE op.kind = "AddConstraint"
  <2>1. next = m
    BY <1>3 DEF Explained
  <2>2. op.srcs[1] < m
    <3>1. Len(op.srcs) = 1
      BY <1>1, <1>3, KindFacts DEF WellFormed
    <3> QED BY <3>1, <1>1
  <2>3. KernelStep(words, regs, t) = Kernel(p + encoded_len(op), m, w, a, j + 1)
    <3>1. a[j + 1] = w[op.srcs[1]]
      BY <1>3 DEF Ready
    <3> QED BY <1>1, <1>3, <2>2, <3>1, ConstraintRuns
  <2>4. e = j + 1
    BY <1>3 DEF Ready
  <2> HIDE DEF t
  <2> QED BY <1>2, <2>1, <2>3, <2>4 DEF t
<1>4. CASE op.kind = "LoadTrace"
  <2>1. op.kind # "AddConstraint" /\ op.kind \notin Kinds
    BY <1>4, KindFacts
  <2>2. next = m + 1 /\ op.dst = m /\ w[m] = TraceValue(op.data[1], op.data[2], op.data[3])
    BY <1>4, <2>1 DEF Explained, Meaning
  <2>3. KernelStep(words, regs, t) = Kernel(p + encoded_len(op), m + 1, w, a, j)
    <3>1. m < regs
      BY <2>1 DEF Ready
    <3> QED BY <1>1, <1>4, <2>2, <3>1, LoadRuns
  <2>4. e = j
    BY <2>1 DEF Ready
  <2> HIDE DEF t
  <2> QED BY <1>2, <2>2, <2>3, <2>4 DEF t
<1>5. CASE op.kind \in Kinds
  <2>1. op.kind # "AddConstraint" /\ op.kind # "LoadTrace"
    BY <1>5, KindFacts
  <2>2. next = m + 1 /\ op.dst = m /\ w[m] = Applied(op.kind, Operands(op, w), op.data)
    BY <2>1 DEF Explained, Meaning
  <2>3. Len(op.srcs) = NSources(op.kind) /\ Len(op.data) = NData(op.kind)
    BY <1>1, <2>1 DEF WellFormed
  <2>4. m < regs
    BY <2>1 DEF Ready
  <2>5. KernelStep(words, regs, t) = Kernel(p + encoded_len(op), m + 1, w, a, j)
    <3>1. \A k \in 1 .. Len(op.srcs) : op.srcs[k] < m
      BY <1>1
    <3>2. Runs(words, op, p)
      OBVIOUS
    <3> QED BY ONLY <1>5, <2>2, <2>3, <2>4, <3>1, <3>2, ComputationRuns
  <2>6. e = j
    BY <2>1 DEF Ready
  <2> HIDE DEF t
  <2> QED BY <1>2, <2>2, <2>5, <2>6 DEF t
<1>6. op.kind \in AllKinds
  BY DEF OpSet
<1> QED BY <1>3, <1>4, <1>5, <1>6 DEF AllKinds

\* The kernel leaves in every register what it is worth, and the constraints in order.
Ran(t, size, w, a) ==
  t.file = [r \in 0 .. size - 1 |-> w[r]] /\ t.constraints = a

LEMMA ProgramRuns ==
  ASSUME NEW ops \in Seq(OpSet), NEW n \in Nat \ {0}, Len(ops) = n,
         cursors \in [Interactions -> Nat], NEW size \in Nat, NEW c, NEW w,
         Account(ops, size, c, w, cursors), NEW a \in Seq(Value), Constrains(ops, c, w, a),
         NEW regs \in Nat, size <= regs
  PROVE  Ran(Interpreted(Remapped(ops), regs, n), size, w, a)
<1> DEFINE words == Remapped(ops)
<1>1. /\ c \in [0 .. n -> Nat] /\ w \in [Nat -> Value] /\ c[0] = 0 /\ c[n] = size
      /\ \A i \in 0 .. n : c[i] <= i
      /\ \A i \in 1 .. n : Explained(ops[i], c[i - 1], c[i], w, cursors)
  BY DEF Account
<1>2. \A i \in 0 .. n : c[i] \in 0 .. size
  BY CountsRise
<1>3. Formed(ops)
  BY <1>1 DEF Formed, Explained
<1>4. PICK s : Placed(s, ops, n) /\ Remade(words, ops, s, n, n)
  BY <1>3, RemappedFacts
<1> HIDE DEF words
<1> DEFINE u == CHOOSE v : RunsUpto(v, n, words, regs)
<1>5. RunsUpto(u, n, words, regs)
  BY RunsExist
<1>6. Interpreted(words, regs, n) = u[n]
  BY DEF Interpreted, RunsUpto, RunStep, RunStart
<1> HIDE DEF u
<1>7. u[0] = RunStart /\ \A i \in 0 .. n - 1 : u[i + 1] = RunStep(u[i], words, regs)
  <2>1. 0 \in 0 .. n
    OBVIOUS
  <2>2. ASSUME NEW i \in 0 .. n - 1 PROVE u[i + 1] = RunStep(u[i], words, regs)
    <3>1. i + 1 \in 0 .. n /\ i + 1 # 0 /\ (i + 1) - 1 = i
      OBVIOUS
    <3> QED BY <1>5, <3>1 DEF RunsUpto
  <2> QED BY <1>5, <2>1, <2>2 DEF RunsUpto
<1> DEFINE Good == {i \in 0 .. n : u[i] = Kernel(s[i + 1], c[i], w, a, i - c[i])}
<1>8. 0 \in Good
  <2>1. Kernel(1, 0, w, a, 0) = RunStart
    <3>1. [r \in 0 .. 0 - 1 |-> w[r]] = <<>> /\ [k \in 1 .. 0 |-> a[k]] = <<>>
      OBVIOUS
    <3> QED BY <3>1 DEF Kernel, RunStart
  <2>2. s[0 + 1] = 1 /\ c[0] = 0 /\ 0 - c[0] = 0 /\ 0 \in 0 .. n
    BY <1>1, <1>4 DEF Placed
  <2> QED BY <2>1, <2>2, <1>7
<1>9. ASSUME NEW i \in 0 .. n - 1, i \in Good PROVE i + 1 \in Good
  <2> DEFINE k == i + 1
             op == ops[k]
             p == s[k]
             m == c[i]
             next == c[k]
             j == i - m
             f == j + 1
             e == IF op.kind = "AddConstraint" THEN f ELSE j
  <2>1. k \in 1 .. n /\ k \in 0 .. n /\ i \in 0 .. n /\ k - 1 = i /\ k \in 1 .. n + 1
    OBVIOUS
  <2>2. u[i] = Kernel(p, m, w, a, j)
    BY <1>9
  <2>3. op \in OpSet
    BY <2>1
  <2>4. m \in Nat /\ m <= i /\ next \in 0 .. size /\ next \in Nat
    BY <1>1, <1>2, <2>1
  <2>5. j \in Nat /\ f = k - m
    <3> HIDE DEF m
    <3> QED BY <2>4
  <2>6. Explained(op, m, next, w, cursors)
    <3>1. Explained(ops[k], c[k - 1], c[k], w, cursors)
      BY <1>1, <2>1
    <3>2. c[k - 1] = m
      BY <2>1
    <3> HIDE DEF m, next
    <3> QED BY <3>1, <3>2 DEF next
  <2>7. p \in Nat /\ s[k + 1] = p + encoded_len(op)
    BY <1>4, <2>1 DEF Placed
  <2>8. Runs(words, op, p)
    <3>1. (k <= n) = TRUE
      BY <2>1
    <3>2. Coded(ops[k], k <= n) = Patched(op)
      BY <3>1 DEF Coded
    <3>3. \A l \in 1 .. encoded_len(ops[k]) :
            s[k] + l - 1 \in 1 .. Len(words) /\ words[s[k] + l - 1] = Coded(ops[k], k <= n)[l]
      BY <1>4, <2>1 DEF Remade
    <3> QED BY <3>2, <3>3 DEF Runs
  <2>9. op.kind # "AddConstraint" => m < regs
    <3>1. op.kind # "AddConstraint" => next = m + 1
      BY <2>6 DEF Explained
    <3> HIDE DEF op, m, next
    <3> QED BY <3>1, <2>4
  <2>10. op.kind = "AddConstraint" => a[f] = w[op.srcs[1]]
    <3>1. op.kind = "AddConstraint" => a[k - c[k - 1]] = w[op.srcs[1]]
      BY <2>1 DEF Constrains
    <3>2. k - c[k - 1] = f
      BY <2>1, <2>5
    <3> HIDE DEF f, op
    <3> QED BY <3>1, <3>2
  <2>11. k - next = e
    <3>1. op.kind = "AddConstraint" => next = m
      BY <2>6 DEF Explained
    <3>2. op.kind # "AddConstraint" => next = m + 1
      BY <2>6 DEF Explained
    <3>3. e = IF op.kind = "AddConstraint" THEN f ELSE j
      OBVIOUS
    <3>4. j = i - m /\ f = j + 1 /\ k = i + 1 /\ i \in Int
      OBVIOUS
    <3> HIDE DEF op, m, next, k, j, f, e
    <3>5. CASE op.kind = "AddConstraint"
      <4>1. next = m /\ e = f
        BY <3>1, <3>3, <3>5
      <4> QED BY ONLY <4>1, <3>4, <2>4
    <3>6. CASE op.kind # "AddConstraint"
      <4>1. next = m + 1 /\ e = j
        BY <3>2, <3>3, <3>6
      <4> QED BY ONLY <4>1, <3>4, <2>4
    <3> QED BY <3>5, <3>6
  <2>12. Len(words) \in Nat
    <3>1. words \in Seq(Word)
      BY <1>4 DEF Remade
    <3> QED BY <3>1
  <2>a. op.kind # "AddConstraint" => e = j
    OBVIOUS
  <2>b. op.kind = "AddConstraint" => e = j + 1 /\ a[e] = w[op.srcs[1]]
    <3>1. op.kind = "AddConstraint" => e = f
      OBVIOUS
    <3>2. f = j + 1
      OBVIOUS
    <3> HIDE DEF e, f, j, op
    <3> QED BY <3>1, <3>2, <2>10
  <2> HIDE DEF p, op, m, next, j, e
  <2>13. RunStep(Kernel(p, m, w, a, j), words, regs) = Kernel(p + encoded_len(op), next, w, a, e)
    <3>1. w \in [Nat -> Value] /\ next \in Nat /\ m \in Nat /\ p \in Nat /\ j \in Nat
      BY <1>1, <2>4, <2>5, <2>7
    <3>2. cursors \in [Interactions -> Nat]
      OBVIOUS
    <3>3. Ready(op, w, m, regs, a, j, e)
      BY <2>9, <2>a, <2>b DEF Ready
    <3> QED BY ONLY <2>3, <2>6, <2>8, <2>12, <3>1, <3>2, <3>3, InstructionRuns
  <2>14. u[k] = Kernel(s[k + 1], next, w, a, k - next)
    <3> HIDE DEF e, f
    <3>1. u[k] = RunStep(u[i], words, regs)
      BY <1>7
    <3> HIDE DEF k
    <3> QED BY <3>1, <2>2, <2>7, <2>11, <2>13
  <2> QED BY <2>1, <2>14 DEF next
<1> HIDE DEF Good
<1>10. \A i \in 0 .. n : i \in Good
  BY <1>8, <1>9, Induction
<1>11. u[n] = Kernel(s[n + 1], size, w, a, n - size)
  <2>1. n \in Good
    BY <1>10
  <2> QED BY <2>1, <1>1 DEF Good
<1>12. [k \in 1 .. n - size |-> a[k]] = a
  <2>1. Len(a) = n - size
    BY <1>1 DEF Constrains
  <2> QED BY <2>1
<1>13. u[n].file = [r \in 0 .. size - 1 |-> w[r]] /\ u[n].constraints = a
  BY <1>11, <1>12 DEF Kernel
<1> QED BY <1>6, <1>13 DEF words, Ran

\* A sound recorder, interpreted with registers enough, gives its values and
\* the evaluator's gives the constraints.
LEMMA SoundRuns ==
  ASSUME NEW rec \in RecorderSet, NEW r, NEW V, V \subseteq TracedSet, NEW a \in Seq(Value),
         cursors \in [Interactions -> Nat], Sound(rec, r, V, cursors, a),
         NEW regs \in Nat, rec.next_reg <= regs
  PROVE  /\ \A x \in V : x.rec = r =>
              Interpreted(Remapped(rec.ops), regs, Len(rec.ops)).file[x.reg] = x.val
         /\ rec.is_main /\ a # <<>> =>
              Interpreted(Remapped(rec.ops), regs, Len(rec.ops)).constraints = a
<1> DEFINE ops == rec.ops
           n == Len(ops)
           size == rec.next_reg
           ran == Interpreted(Remapped(ops), regs, n)
<1>1. ops \in Seq(OpSet) /\ n \in Nat /\ size \in Nat /\ rec.is_main \in BOOLEAN
  BY DEF RecorderSet
<1>2. PICK c, w : Witnessed(rec, r, V, cursors, a, c, w)
  BY DEF Sound
<1>3. Account(ops, size, c, w, cursors) /\ Known(r, size, V, w)
  BY <1>2 DEF Witnessed
<1>4. /\ c \in [0 .. n -> Nat] /\ c[0] = 0 /\ c[n] = size
      /\ \A i \in 0 .. n : c[i] <= i
      /\ \A i \in 1 .. n : Explained(ops[i], c[i - 1], c[i], w, cursors)
  BY <1>3 DEF Account
<1> DEFINE b == IF rec.is_main THEN a ELSE <<>>
<1>5. b \in Seq(Value) /\ Constrains(ops, c, w, b)
  <2>1. CASE rec.is_main
    <3>1. Constrains(ops, c, w, a)
      BY <1>2, <2>1 DEF Witnessed
    <3>2. b = a
      BY <2>1
    <3> QED BY <3>1, <3>2
  <2>2. CASE ~rec.is_main
    <3>1. \A i \in 0 .. n : c[i] = i
      BY <1>2, <2>2 DEF Witnessed
    <3>2. b = <<>>
      BY <2>2
    <3>3. ASSUME NEW i \in 1 .. n, ops[i].kind = "AddConstraint" PROVE FALSE
      <4>1. i - 1 \in 0 .. n /\ i \in 0 .. n
        BY <1>1
      <4>2. Explained(ops[i], c[i - 1], c[i], w, cursors)
        BY <1>4
      <4>3. c[i] = c[i - 1]
        BY <4>2, <3>3 DEF Explained
      <4>4. c[i] = i /\ c[i - 1] = i - 1
        BY <4>1, <3>1
      <4>5. i = i - 1
        BY ONLY <4>3, <4>4
      <4> QED BY ONLY <4>5, i \in 1 .. n
    <3>4. c[n] = n
      BY <1>1, <3>1
    <3>5. Len(<<>>) = n - c[n]
      BY <1>1, <3>4
    <3> HIDE DEF b, n
    <3>6. Constrains(ops, c, w, <<>>)
      BY <3>3, <3>5 DEF Constrains, n
    <3> QED BY <3>2, <3>6
  <2> QED BY <2>1, <2>2
<1> HIDE DEF ops, size, b
<1>6. n # 0 => ran.file = [k \in 0 .. size - 1 |-> w[k]] /\ ran.constraints = b
  <2> SUFFICES ASSUME n # 0 PROVE ran.file = [k \in 0 .. size - 1 |-> w[k]] /\ ran.constraints = b
    OBVIOUS
  <2>1. n \in Nat \ {0} /\ size <= regs
    BY <1>1 DEF size
  <2> HIDE DEF n
  <2>2. Len(ops) = n
    BY DEF n
  <2>3. Ran(Interpreted(Remapped(ops), regs, n), size, w, b)
    BY <1>1, <1>3, <1>5, <2>1, <2>2, ProgramRuns
  <2> QED BY <2>3 DEF Ran
<1>7. ASSUME NEW x \in V, x.rec = r PROVE ran.file[x.reg] = x.val
  <2>1. x.reg < size /\ w[x.reg] = x.val
    BY <1>3, <1>7 DEF Known
  <2>2. x.reg \in Nat
    BY DEF TracedSet
  <2>3. n # 0
    <3>1. size <= n
      BY <1>1, <1>4
    <3> HIDE DEF n
    <3> QED BY <1>1, <2>1, <2>2, <3>1
  <2>4. x.reg \in 0 .. size - 1
    BY <1>1, <2>1, <2>2
  <2> HIDE DEF ran, n
  <2>5. ran.file[x.reg] = w[x.reg]
    BY <1>6, <2>3, <2>4
  <2> QED BY <2>1, <2>5
<1>8. ASSUME rec.is_main, a # <<>> PROVE ran.constraints = a
  <2>1. b = a
    BY <1>8 DEF b
  <2>2. n # 0
    <3>1. Len(a) = n - c[n]
      BY <1>5, <2>1 DEF Constrains
    <3>2. Len(a) \in Nat /\ Len(a) # 0
      BY <1>8
    <3>3. c[n] \in Nat
      BY <1>1, <1>4
    <3> HIDE DEF n
    <3> QED BY <1>1, <3>1, <3>2, <3>3
  <2> HIDE DEF ran, n
  <2> QED BY <1>6, <2>1, <2>2
<1> QED BY <1>7, <1>8 DEF ops

\* A recorder that fits has no more registers than instructions.
LEMMA FitsRegisters ==
  ASSUME NEW rec \in RecorderSet, NEW r, NEW V, NEW top, NEW a, Sound(rec, r, V, top, a),
         Fits(rec)
  PROVE  rec.next_reg <= REG_MODULUS
<1>1. PICK c, w : Witnessed(rec, r, V, top, a, c, w)
  BY DEF Sound
<1>2. Account(rec.ops, rec.next_reg, c, w, top)
  BY <1>1 DEF Witnessed
<1>3. Len(rec.ops) \in Nat /\ rec.next_reg \in Nat
  BY DEF RecorderSet
<1>4. Len(rec.ops) \in 0 .. Len(rec.ops)
  BY <1>3
<1>5. rec.next_reg <= Len(rec.ops)
  BY <1>2, <1>4 DEF Account
<1>6. REG_MODULUS \in Nat
  BY Constants
<1> QED BY <1>3, <1>5, <1>6 DEF Fits

-----------------------------------------------------------------------------
\* The invariant: the recorders are sound for the values alive, the fractions
\* are made of those, and the accumulator has the component's constraints
\* once it is evaluated.
FracSet == [num : TracedSet, den : TracedSet]
Recording ==
  /\ State(recorders, values, cursors, asked)
  /\ fracs \in Seq(FracSet) /\ \A j \in 1 .. Len(fracs) : FracOver(fracs[j], values)
Accumulated ==
  /\ phase # "done" => path = "none" /\ accum = Prior
  /\ path = "cpu" => accum = Plus(Prior, RowResult(asked))
  /\ path = "gpu" /\ Fits(recorders[1]) => accum = Plus(Prior, RowResult(asked))
BytecodeInv == Recording /\ Accumulated

LEMMA InitRecords ==
  ASSUME Init
  PROVE  BytecodeInv
<1> DEFINE rec == RecorderInner(TRUE)
<1>1. rec \in RecorderSet /\ rec.is_main = TRUE
  BY DEF RecorderInner, RecorderSet
<1>2. Sound(rec, 1, {}, cursors, <<>>)
  BY EmptySound
<1> HIDE DEF rec
<1>3. recorders = <<rec>> /\ values = {} /\ fracs = <<>> /\ asked = <<>>
  BY DEF Init, rec
<1>4. cursors \in [Interactions -> Nat]
  BY DEF Init
<1>5. recorders \in Seq(RecorderSet) /\ Len(recorders) = 1 /\ recorders[1] = rec
  BY <1>1, <1>3
<1>6. Typed(recorders, values, cursors, asked)
  BY <1>1, <1>3, <1>4, <1>5 DEF Typed
<1>7. \A r \in 1 .. Len(recorders) : Sound(recorders[r], r, values, cursors, asked)
  BY <1>2, <1>3, <1>5
<1>8. Recording
  BY <1>3, <1>6, <1>7 DEF Recording, State
<1>9. Accumulated
  BY DEF Accumulated, Init
<1> QED BY <1>8, <1>9 DEF BytecodeInv

\* While the component is evaluated the accumulator is as it was.
LEMMA EvaluationKeeps ==
  ASSUME Accumulated, phase # "done", phase' # "done", UNCHANGED <<path, accum>>
  PROVE  Accumulated'
  BY DEF Accumulated

LEMMA MakeRecords ==
  ASSUME Recording, NEW res, NEW wide, NEW val,
         Makes(res, values, cursors, asked, wide, val), Make(res)
  PROVE  Recording'
<1>1. /\ recorders' = res.recs /\ values' = values \cup {res.out}
      /\ cursors' = cursors /\ fracs' = fracs /\ asked' = asked
  BY DEF Make
<1>2. State(recorders', values', cursors', asked')
  BY <1>1 DEF Makes, Yields
<1>3. \A j \in 1 .. Len(fracs') : FracOver(fracs'[j], values')
  BY <1>1 DEF Recording, FracOver
<1>4. fracs' \in Seq(FracSet)
  BY <1>1 DEF Recording
<1> QED BY <1>2, <1>3, <1>4 DEF Recording

LEMMA MaskRecords ==
  ASSUME Recording, NextInteractionMask
  PROVE  Recording'
<1>1. PICK m \in Masks :
        LET loaded == next_interaction_mask(recorders, cursors, m[1], m[2])
        IN /\ recorders' = loaded.recs
           /\ values' = values \union {loaded.out[k] : k \in DOMAIN loaded.out}
           /\ cursors' = [cursors EXCEPT ![m[1]] = @ + 1]
  BY DEF NextInteractionMask
<1> DEFINE e == m[1]
           offsets == m[2]
           col == cursors[e]
           loaded == Loads(recorders, e, col, offsets)
<1>2. e \in Interactions /\ offsets \in Seq(Int)
  BY Constants DEF Interactions
<1>3. /\ recorders' = loaded.recs
      /\ values' = values \union {loaded.out[k] : k \in DOMAIN loaded.out}
      /\ cursors' = [cursors EXCEPT ![e] = @ + 1]
  BY <1>1 DEF next_interaction_mask
<1>4. fracs' = fracs /\ asked' = asked
  BY DEF NextInteractionMask
<1>5. State(recorders, values, cursors, asked) /\ cursors \in [Interactions -> Nat]
  BY DEF Recording, State, Typed
<1>6. /\ cursors' \in [Interactions -> Nat] /\ \A i \in Interactions : cursors[i] <= cursors'[i]
      /\ col \in 0 .. cursors'[e] - 1
  BY <1>2, <1>3, <1>5
<1>7. State(recorders, values, cursors', asked)
  <2> DEFINE top == cursors'
             V == values
  <2>1. top \in [Interactions -> Nat] /\ V \subseteq values /\ \A i \in Interactions : cursors[i] <= top[i]
    BY <1>6
  <2> HIDE DEF top, V
  <2>2. State(recorders, V, top, asked)
    BY <2>1, <1>5, StateWeaker
  <2> QED BY <2>2 DEF top, V
<1>8. Loaded(loaded, values, cursors', asked, e, col, offsets, Len(offsets))
  <2> DEFINE top == cursors'
             V == values
             a == asked
             recs == recorders
  <2>1. State(recs, V, top, a) /\ e \in Interactions /\ col \in 0 .. top[e] - 1 /\ offsets \in Seq(Int)
    BY <1>2, <1>6, <1>7
  <2> HIDE DEF top, V, a, recs, e, col, offsets
  <2>2. Loaded(Loads(recs, e, col, offsets), V, top, a, e, col, offsets, Len(offsets))
    BY ONLY <2>1, LoadsMake
  <2> QED BY <2>2 DEF top, V, a, recs
<1> HIDE DEF loaded, col, e, offsets
<1>9. DOMAIN loaded.out = 1 .. Len(offsets)
  <2>1. loaded.out \in Seq(TracedSet) /\ Len(loaded.out) = Len(offsets)
    BY <1>8 DEF Loaded
  <2> QED BY <2>1
<1>10. State(recorders', values', cursors', asked')
  BY <1>3, <1>4, <1>8, <1>9 DEF Loaded
<1>11. fracs' \in Seq(FracSet) /\ \A j \in 1 .. Len(fracs') : FracOver(fracs'[j], values')
  BY <1>3, <1>4 DEF Recording, FracOver
<1> QED BY <1>10, <1>11 DEF Recording

LEMMA ConstantRecords ==
  ASSUME Recording, MakeConstant
  PROVE  Recording'
<1>1. State(recorders, values, cursors, asked)
  BY DEF Recording
<1>2. ASSUME NEW b \in BaseValues, Make(Constant(recorders, FALSE, Embed(b))) PROVE Recording'
  <2> DEFINE c == Embed(b)
             wide == FALSE
  <2>1. wide => c \in Value
    OBVIOUS
  <2>2. ~wide => \E i \in Int : c = Embed(i)
    <3>1. b \in Int
      BY Constants
    <3> QED BY <3>1
  <2>3. wide \in BOOLEAN
    OBVIOUS
  <2>4. Make(Constant(recorders, wide, c))
    BY <1>2
  <2> HIDE DEF c, wide
  <2>5. Makes(Constant(recorders, wide, c), values, cursors, asked, wide, c)
    BY ONLY <1>1, <2>1, <2>2, <2>3, ConstantMakes
  <2> QED BY <2>4, <2>5, MakeRecords
<1>3. ASSUME NEW c \in SecureValues, Make(Constant(recorders, TRUE, c)) PROVE Recording'
  <2> DEFINE wide == TRUE
  <2>1. wide => c \in Value
    BY Constants DEF Value
  <2>2. ~wide => \E i \in Int : c = Embed(i)
    OBVIOUS
  <2>3. wide \in BOOLEAN
    OBVIOUS
  <2>4. Make(Constant(recorders, wide, c))
    BY <1>3
  <2> HIDE DEF wide
  <2>5. Makes(Constant(recorders, wide, c), values, cursors, asked, wide, c)
    BY ONLY <1>1, <2>1, <2>2, <2>3, ConstantMakes
  <2> QED BY <2>4, <2>5, MakeRecords
<1> QED BY <1>2, <1>3 DEF MakeConstant

LEMMA UnaryRecords ==
  ASSUME Recording, MakeUnary
  PROVE  Recording'
<1>1. State(recorders, values, cursors, asked)
  BY DEF Recording
<1>2. ASSUME NEW res, NEW rec, NEW wide, NEW val,
             Yields(res, values, cursors, asked, rec, wide, val), Make(res)
      PROVE  Recording'
  <2>1. Makes(res, values, cursors, asked, wide, val)
    BY <1>2, YieldsMakes
  <2> QED BY <2>1, <1>2, MakeRecords
<1>3. PICK x \in values :
        \/ Make(Negated(recorders, x))
        \/ Make(Widened(recorders, x))
        \/ \E c \in BaseValues : \/ Make(PlusBase(recorders, x, Embed(c)))
                                 \/ Make(TimesBase(recorders, x, Embed(c)))
        \/ \E c \in SecureValues : \/ Make(PlusSecure(recorders, x, c))
                                   \/ Make(MinusSecure(recorders, x, c))
                                   \/ Make(TimesSecure(recorders, x, c))
  BY DEF MakeUnary
<1>4. CASE Make(Negated(recorders, x))
  <2>1. Yields(Negated(recorders, x), values, cursors, asked, x.rec, x.wide, Minus(Zero, x.val))
    BY <1>1, NegatedYields
  <2> QED BY <2>1, <1>2, <1>4
<1>5. CASE Make(Widened(recorders, x))
  <2>1. Yields(Widened(recorders, x), values, cursors, asked, x.rec, TRUE, x.val)
    BY <1>1, WidenedYields
  <2> QED BY <2>1, <1>2, <1>5
<1>6. ASSUME NEW b \in BaseValues, \/ Make(PlusBase(recorders, x, Embed(b)))
                                   \/ Make(TimesBase(recorders, x, Embed(b)))
      PROVE  Recording'
  <2> DEFINE c == Embed(b)
  <2>1. b \in Int /\ c = Embed(b)
    BY Constants
  <2>2. Make(PlusBase(recorders, x, c)) \/ Make(TimesBase(recorders, x, c))
    BY <1>6
  <2> HIDE DEF c
  <2>3. /\ Yields(PlusBase(recorders, x, c), values, cursors, asked, x.rec, x.wide, Plus(x.val, c))
        /\ Yields(TimesBase(recorders, x, c), values, cursors, asked, x.rec, x.wide, Times(x.val, c))
    BY <1>1, <2>1, BaseYields
  <2>4. CASE Make(PlusBase(recorders, x, c))
    BY <2>3, <2>4, <1>2
  <2>5. CASE Make(TimesBase(recorders, x, c))
    BY <2>3, <2>5, <1>2
  <2> QED BY <2>2, <2>4, <2>5
<1>7. ASSUME NEW c \in SecureValues, \/ Make(PlusSecure(recorders, x, c))
                                     \/ Make(MinusSecure(recorders, x, c))
                                     \/ Make(TimesSecure(recorders, x, c))
      PROVE  Recording'
  <2>1. c \in Value
    BY Constants DEF Value
  <2>2. /\ Yields(PlusSecure(recorders, x, c), values, cursors, asked, x.rec, TRUE, Plus(x.val, c))
        /\ Yields(MinusSecure(recorders, x, c), values, cursors, asked, x.rec, TRUE, Minus(x.val, c))
        /\ Yields(TimesSecure(recorders, x, c), values, cursors, asked, x.rec, TRUE, Times(x.val, c))
    BY <1>1, <2>1, SecureYields
  <2>3. CASE Make(PlusSecure(recorders, x, c))
    BY <2>2, <2>3, <1>2
  <2>4. CASE Make(MinusSecure(recorders, x, c))
    BY <2>2, <2>4, <1>2
  <2>5. CASE Make(TimesSecure(recorders, x, c))
    BY <2>2, <2>5, <1>2
  <2> QED BY <1>7, <2>3, <2>4, <2>5
<1> QED BY <1>3, <1>4, <1>5, <1>6, <1>7

LEMMA BinaryRecords ==
  ASSUME Recording, MakeBinary
  PROVE  Recording'
<1>1. State(recorders, values, cursors, asked)
  BY DEF Recording
<1>2. PICK x \in values, y \in values :
        \/ Make(Added(recorders, x, y)) \/ Make(Subtracted(recorders, x, y))
        \/ Make(Multiplied(recorders, x, y))
  BY DEF MakeBinary
<1>3. CASE Make(Added(recorders, x, y))
  <2>1. Makes(Added(recorders, x, y), values, cursors, asked, x.wide, Plus(x.val, y.val))
    BY <1>1, AddedMakes
  <2> QED BY <2>1, <1>3, MakeRecords
<1>4. CASE Make(Subtracted(recorders, x, y))
  <2>1. Makes(Subtracted(recorders, x, y), values, cursors, asked, x.wide, Minus(x.val, y.val))
    BY <1>1, SubtractedMakes
  <2> QED BY <2>1, <1>4, MakeRecords
<1>5. CASE Make(Multiplied(recorders, x, y))
  <2>1. Makes(Multiplied(recorders, x, y), values, cursors, asked, x.wide, Times(x.val, y.val))
    BY <1>1, MultipliedMakes
  <2> QED BY <2>1, <1>5, MakeRecords
<1> QED BY <1>2, <1>3, <1>4, <1>5

LEMMA ConstraintRecords ==
  ASSUME Recording, AddConstraint
  PROVE  Recording'
<1>1. State(recorders, values, cursors, asked)
  BY DEF Recording
<1>2. PICK x \in values : recorders' = add_constraint(recorders, x) /\ asked' = Append(asked, x.val)
  BY DEF AddConstraint
<1>3. values' = values /\ cursors' = cursors /\ fracs' = fracs
  BY DEF AddConstraint
<1>4. State(add_constraint(recorders, x), values, cursors, Append(asked, x.val))
  BY <1>1, AddsConstraint
<1>5. State(recorders', values', cursors', asked')
  BY <1>2, <1>3, <1>4
<1>6. fracs' \in Seq(FracSet) /\ \A j \in 1 .. Len(fracs') : FracOver(fracs'[j], values')
  BY <1>3 DEF Recording
<1> QED BY <1>5, <1>6 DEF Recording

LEMMA FractionRecords ==
  ASSUME Recording, WriteLogupFrac
  PROVE  Recording'
<1>1. State(recorders, values, cursors, asked) /\ values \subseteq TracedSet
  BY DEF Recording, State, Typed
<1>2. PICK num \in values, den \in values : fracs' = Append(fracs, [num |-> num, den |-> den])
  BY DEF WriteLogupFrac
<1>3. UNCHANGED <<recorders, values, cursors, asked>>
  BY DEF WriteLogupFrac
<1> DEFINE f == [num |-> num, den |-> den]
<1>4. f \in FracSet /\ FracOver(f, values)
  BY <1>1 DEF FracSet, FracOver
<1>5. fracs \in Seq(FracSet) /\ \A j \in 1 .. Len(fracs) : FracOver(fracs[j], values)
  BY DEF Recording
<1>6. fracs' = Append(fracs, f)
  BY <1>2
<1> HIDE DEF f, FracSet
<1>7. /\ fracs' \in Seq(FracSet) /\ Len(fracs') = Len(fracs) + 1
      /\ \A j \in 1 .. Len(fracs) : fracs'[j] = fracs[j]
      /\ fracs'[Len(fracs) + 1] = f
  BY <1>4, <1>5, <1>6
<1>8. \A j \in 1 .. Len(fracs') : FracOver(fracs'[j], values)
  <2> TAKE j \in 1 .. Len(fracs')
  <2>1. Len(fracs) \in Nat
    BY <1>5
  <2>2. j \in 1 .. Len(fracs) \/ j = Len(fracs) + 1
    BY <1>7, <2>1
  <2> QED BY <1>4, <1>5, <1>7, <2>2
<1>9. State(recorders', values', cursors', asked')
  BY <1>1, <1>3
<1> QED BY <1>3, <1>7, <1>8, <1>9 DEF Recording

LEMMA LogupRecords ==
  ASSUME Recording, FinalizeLogup
  PROVE  Recording'
<1>1. State(recorders, values, cursors, asked)
  BY DEF Recording
<1>2. fracs \in Seq(FracSet) /\ \A j \in 1 .. Len(fracs) : FracOver(fracs[j], values)
  BY DEF Recording
<1> DEFINE F == Len(fracs)
<1>3. DOMAIN fracs = 1 .. F /\ F \in Nat \ {0}
  BY <1>2 DEF FinalizeLogup
<1>4. PICK batching \in {[i \in DOMAIN fracs |-> i - 1], [i \in DOMAIN fracs |-> (i - 1) \div 2]} :
        finalize_logup_batched(batching)
  BY DEF FinalizeLogup
<1>5. Batched(batching, F)
  <2> HIDE DEF F
  <2>1. batching = [i \in 1 .. F |-> i - 1] \/ batching = [i \in 1 .. F |-> (i - 1) \div 2]
    BY <1>3, <1>4
  <2>2. \A i \in 1 .. F : i - 1 \in Nat /\ (i - 1) \div 2 \in Nat
    BY <1>3
  <2> QED BY <1>3, <2>1, <2>2 DEF Batched
<1>6. State(recorders', values', cursors', asked')
  <2>1. DOMAIN fracs = 1 .. Len(fracs)
    BY <1>3
  <2>2. \A j \in 1 .. Len(fracs) : FracOver(fracs[j], values)
    BY <1>2
  <2>3. Batched(batching, Len(fracs))
    BY <1>5
  <2>4. \E b : Batched(b, Len(fracs)) /\ finalize_logup_batched(b)
    BY <1>4, <2>3
  <2>5. State(recorders', values, cursors', asked')
    BY ONLY <1>1, <2>1, <2>2, <2>4, FinalizeMakes
  <2> QED BY <2>5 DEF FinalizeLogup
<1>7. fracs' = <<>>
  BY DEF FinalizeLogup
<1>8. fracs' \in Seq(FracSet) /\ \A j \in 1 .. Len(fracs') : FracOver(fracs'[j], values')
  BY <1>7
<1> QED BY <1>6, <1>8 DEF Recording

LEMMA RestRecords ==
  ASSUME Recording, UNCHANGED <<recorders, values, cursors, fracs, asked>>
  PROVE  Recording'
<1>1. State(recorders', values', cursors', asked')
  BY DEF Recording
<1>2. fracs' \in Seq(FracSet) /\ \A j \in 1 .. Len(fracs') : FracOver(fracs'[j], values')
  BY DEF Recording
<1> QED BY <1>1, <1>2 DEF Recording

\* The kernel run over the evaluator's program adds the constraints asked for.
LEMMA DeviceAccumulates ==
  ASSUME BytecodeInv, EvaluateOnDevice
  PROVE  Accumulated'
<1> DEFINE rec == recorders[1]
           regs == IF rec.next_reg > MAX_REGS THEN REG_LIMIT ELSE MAX_REGS
           ran == Interpreted(Remapped(Program), regs, Len(Program))
<1>1. Typed(recorders, values, cursors, asked)
  BY DEF BytecodeInv, Recording, State
<1>2. 1 \in 1 .. Len(recorders) /\ rec \in RecorderSet /\ rec.is_main
  BY <1>1 DEF Typed
<1>3. regs \in Nat /\ rec.next_reg <= regs
  <2>1. rec.next_reg \in Nat /\ rec.next_reg <= REG_LIMIT
    BY <1>2 DEF EvaluateOnDevice, OnDevice, RecorderSet
  <2>2. REG_LIMIT \in Nat /\ MAX_REGS \in Nat
    BY Constants
  <2> HIDE DEF rec
  <2> QED BY <2>1, <2>2
<1>4. Program = rec.ops
  BY DEF Program
<1>5. /\ phase' = "done" /\ path' = "gpu" /\ accum' = Plus(accum, RowResult(ran.constraints))
      /\ recorders' = recorders /\ asked' = asked /\ asked # <<>> /\ phase = "recorded"
  BY DEF EvaluateOnDevice, Done
<1>6. accum = Prior
  BY <1>5 DEF BytecodeInv, Accumulated
<1> HIDE DEF regs
<1>7. Fits(rec) => ran.constraints = asked
  <2> SUFFICES ASSUME Fits(rec) PROVE ran.constraints = asked
    OBVIOUS
  <2>1. Sound(rec, 1, values, cursors, asked)
    BY <1>2 DEF BytecodeInv, Recording, State
  <2>2. values \subseteq TracedSet /\ asked \in Seq(Value) /\ cursors \in [Interactions -> Nat]
    BY <1>1 DEF Typed
  <2> HIDE DEF rec
  <2>3. rec.is_main /\ asked # <<>> => ran.constraints = asked
    BY <1>2, <1>3, <1>4, <2>1, <2>2, SoundRuns
  <2> QED BY <2>3, <1>2, <1>5
<1> HIDE DEF ran
<1>8. Fits(rec) => accum' = Plus(Prior, RowResult(asked))
  BY <1>5, <1>6, <1>7
<1>9. path' # "cpu" /\ ~ (phase' # "done")
  BY <1>5
<1> QED BY <1>5, <1>8, <1>9 DEF Accumulated

\* Whatever is evaluated, the recorders stay sound for the values alive, and a
\* component that was evaluated has its constraints in the accumulator.
THEOREM BytecodeInvariant == Spec => []BytecodeInv
<1>1. Init => BytecodeInv
  BY InitRecords
<1>2. BytecodeInv /\ [Next]_vars => BytecodeInv'
  <2> SUFFICES ASSUME BytecodeInv, [Next]_vars PROVE BytecodeInv'
    OBVIOUS
  <2>1. Recording /\ Accumulated
    BY DEF BytecodeInv
  <2>2. ASSUME Evaluating, UNCHANGED <<phase, path, accum>> PROVE Accumulated'
    <3>1. phase # "done" /\ phase' # "done"
      BY <2>2 DEF Evaluating
    <3> QED BY <2>1, <2>2, <3>1, EvaluationKeeps
  <2>3. CASE NextInteractionMask
    <3>1. Evaluating /\ UNCHANGED <<phase, path, accum>>
      BY <2>3 DEF NextInteractionMask, Room
    <3> QED BY <2>1, <2>2, <2>3, <3>1, MaskRecords DEF BytecodeInv
  <2>4. CASE MakeConstant
    <3>1. Evaluating /\ UNCHANGED <<phase, path, accum>>
      BY <2>4 DEF MakeConstant, Make, Room
    <3> QED BY <2>1, <2>2, <2>4, <3>1, ConstantRecords DEF BytecodeInv
  <2>5. CASE MakeUnary
    <3>1. Evaluating /\ UNCHANGED <<phase, path, accum>>
      BY <2>5 DEF MakeUnary, Make, Room
    <3> QED BY <2>1, <2>2, <2>5, <3>1, UnaryRecords DEF BytecodeInv
  <2>6. CASE MakeBinary
    <3>1. Evaluating /\ UNCHANGED <<phase, path, accum>>
      BY <2>6 DEF MakeBinary, Make, Room
    <3> QED BY <2>1, <2>2, <2>6, <3>1, BinaryRecords DEF BytecodeInv
  <2>7. CASE AddConstraint
    <3>1. Evaluating /\ UNCHANGED <<phase, path, accum>>
      BY <2>7 DEF AddConstraint
    <3> QED BY <2>1, <2>2, <2>7, <3>1, ConstraintRecords DEF BytecodeInv
  <2>8. CASE WriteLogupFrac
    <3>1. Evaluating /\ UNCHANGED <<phase, path, accum>>
      BY <2>8 DEF WriteLogupFrac
    <3> QED BY <2>1, <2>2, <2>8, <3>1, FractionRecords DEF BytecodeInv
  <2>9. CASE FinalizeLogup
    <3>1. Evaluating /\ UNCHANGED <<phase, path, accum>>
      BY <2>9 DEF FinalizeLogup
    <3> QED BY <2>1, <2>2, <2>9, <3>1, LogupRecords DEF BytecodeInv
  <2>10. CASE InvertTraced \/ IntoProgram
    <3>1. /\ phase # "done" /\ phase' # "done" /\ UNCHANGED <<path, accum>>
          /\ UNCHANGED <<recorders, values, cursors, fracs, asked>>
      BY <2>10 DEF InvertTraced, IntoProgram, Evaluating
    <3> QED BY <2>1, <3>1, EvaluationKeeps, RestRecords DEF BytecodeInv
  <2>11. CASE NoConstraints
    <3>1. /\ phase' = "done" /\ path' = "none" /\ UNCHANGED <<recorders, values, cursors, fracs, asked>>
      BY <2>11 DEF NoConstraints, Done
    <3>2. Accumulated'
      BY <3>1 DEF Accumulated
    <3> QED BY <2>1, <3>1, <3>2, RestRecords DEF BytecodeInv
  <2>12. CASE EvaluateOnDevice
    <3>1. UNCHANGED <<recorders, values, cursors, fracs, asked>>
      BY <2>12 DEF EvaluateOnDevice, Done
    <3> QED BY <2>1, <2>12, <3>1, RestRecords, DeviceAccumulates DEF BytecodeInv
  <2>13. CASE EvaluateOnHost
    <3>1. /\ phase' = "done" /\ path' = "cpu" /\ accum' = Plus(accum, RowResult(asked))
          /\ UNCHANGED <<recorders, values, cursors, fracs, asked>> /\ phase # "done"
      BY <2>13 DEF EvaluateOnHost, Done, accumulate_pointwise_cpu
    <3>2. accum = Prior
      BY <2>1, <3>1 DEF Accumulated
    <3>3. Accumulated'
      BY <3>1, <3>2 DEF Accumulated
    <3> QED BY <2>1, <3>1, <3>3, RestRecords DEF BytecodeInv
  <2>14. CASE KernelError
    <3>1. /\ phase' = "done" /\ path' = "error"
          /\ UNCHANGED <<recorders, values, cursors, fracs, asked>>
      BY <2>14 DEF KernelError, Done
    <3>2. Accumulated'
      BY <3>1 DEF Accumulated
    <3> QED BY <2>1, <3>1, <3>2, RestRecords DEF BytecodeInv
  <2>15. CASE UNCHANGED vars
    <3>1. UNCHANGED <<recorders, values, cursors, fracs, asked>> /\ UNCHANGED <<phase, path, accum>>
      BY <2>15 DEF vars
    <3>2. Accumulated'
      BY <2>1, <3>1 DEF Accumulated
    <3> QED BY <2>1, <3>1, <3>2, RestRecords DEF BytecodeInv
  <2> QED BY <2>3, <2>4, <2>5, <2>6, <2>7, <2>8, <2>9, <2>10, <2>11, <2>12, <2>13, <2>14, <2>15
          DEF Next, Rest
<1> QED BY <1>1, <1>2, PTL DEF Spec

\* No recorder has as many instructions as there are register numbers.
NoWrap == \A r \in 1 .. Len(recorders) : Fits(recorders[r])

\* tracing.rs:72-85, 610-672: in whatever order constants, columns and their clones
\* are combined, the register that a traced value names ends up holding what the value
\* is worth, when no recorder outgrows the register numbers.
THEOREM RecordersKeepTheirValues == Spec => [](NoWrap => RecordersHoldTheirValues)
<1>1. BytecodeInv => (NoWrap => RecordersHoldTheirValues)
  <2> SUFFICES ASSUME BytecodeInv, NoWrap, NEW x \in values
               PROVE  Interpreted(Remapped(recorders[x.rec].ops), REG_MODULUS,
                                  Len(recorders[x.rec].ops)).file[x.reg] = x.val
    BY DEF RecordersHoldTheirValues
  <2> DEFINE r == x.rec
             rec == recorders[r]
  <2>1. Typed(recorders, values, cursors, asked)
    BY DEF BytecodeInv, Recording, State
  <2>2. r \in 1 .. Len(recorders) /\ rec \in RecorderSet
    BY <2>1 DEF Typed
  <2>3. Fits(rec) /\ Sound(rec, r, values, cursors, asked)
    BY <2>2 DEF NoWrap, BytecodeInv, Recording, State
  <2>4. values \subseteq TracedSet /\ asked \in Seq(Value) /\ cursors \in [Interactions -> Nat]
    BY <2>1 DEF Typed
  <2>5. REG_MODULUS \in Nat
    BY Constants
  <2> HIDE DEF rec
  <2>6. rec.next_reg <= REG_MODULUS
    BY <2>2, <2>3, FitsRegisters
  <2>7. \A y \in values : y.rec = r =>
          Interpreted(Remapped(rec.ops), REG_MODULUS, Len(rec.ops)).file[y.reg] = y.val
    BY <2>2, <2>3, <2>4, <2>5, <2>6, SoundRuns
  <2> QED BY <2>7 DEF rec
<1> QED BY <1>1, BytecodeInvariant, PTL

\* component_prover.rs:186-300: a component evaluated by the kernel or on the host adds
\* its own constraints, each with the coefficient of its place, to what was there before.
THEOREM ComponentAddsItsOwn == Spec => [](NoWrap => ComponentAddsItsConstraints)
<1>1. BytecodeInv => (NoWrap => ComponentAddsItsConstraints)
  <2> SUFFICES ASSUME BytecodeInv, NoWrap, path \in {"gpu", "cpu"}
               PROVE  accum = Plus(Prior, RowResult(asked))
    BY DEF ComponentAddsItsConstraints
  <2>1. 1 \in 1 .. Len(recorders)
    BY DEF BytecodeInv, Recording, State, Typed
  <2>2. Fits(recorders[1])
    BY <2>1 DEF NoWrap
  <2> QED BY <2>2 DEF BytecodeInv, Accumulated
<1> QED BY <1>1, BytecodeInvariant, PTL
=============================================================================
