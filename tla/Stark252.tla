------------------------------ MODULE Stark252 ------------------------------
(***************************************************************************)
(* One proof of a stark252 prover and its verification: the trace of a     *)
(* statement is computed (in one cell wrongly, perhaps), extended and      *)
(* committed, its quotient folded, one query opened; the opened proof is   *)
(* stored and read back, in one value changed, perhaps; the verifier       *)
(* answers.  The other queries are the other behaviours.                   *)
(***************************************************************************)
EXTENDS Stark252Air

CONSTANTS
  Statements,  \* what is proved: kind, log_n, d and the kind's parameters
  Coefs,       \* the constraints' coefficients that may be drawn
  Challenges,  \* the values any other challenge may be drawn from
  Bump         \* what a wrong or changed value is off by

VARIABLES
  st,       \* the statement
  wrong,    \* the cell the prover computed wrongly: [col, row], or "none"
  phase,
  chal,     \* challenges drawn for the constraints
  cols,     \* committed columns, extended
  table,    \* the lookup table sent with a memory or range-check proof
  layers,   \* FRI's layers, layers[1] the quotient
  alphas,   \* the folding challenges
  q,        \* the query
  proof,    \* what is opened for it
  changed,  \* what storage changed in it
  verdict

vars == <<st, wrong, phase, chal, cols, table, layers, alphas, q, proof, changed, verdict>>

N(s) == 2^s.log_n
LogEval(s) == s.log_n + LOG_BLOWUP
EvalN(s) == 2^LogEval(s)

\* memory, range_check: a running sum is committed in front of the trace's columns.
IsLookup(s) == s.kind \in {"memory", "range_check"}

generate_trace(s) ==
  CASE s.kind = "square" -> square_trace(s.seed, s.c, N(s))
    [] s.kind = "fib2" -> FibonacciTwoCol_trace(s.a0, s.b0, N(s))
    [] s.kind = "trib" -> Tribonacci_trace(s.a0, s.b0, s.c0, N(s))
    [] s.kind = "fib" -> <<fib_trace(s.a0, s.b0, N(s))>>
    [] IsLookup(s) -> s.cols

InteractionColumn(s, ch, trace) ==
  running_sum([i \in 0 .. N(s) - 1 |->
                 IF s.kind = "memory" THEN row_contribution(ch.z, ch.alpha, accesses_at_row(trace, i))
                 ELSE rc_row_contribution(ch.z, trace[1][i])], N(s))
\* The table the prover sends, and the sum the verifier computes from it.
Table(s, trace) == IF s.kind = "memory" THEN compute_table_sum(trace, N(s))
                   ELSE compute_rc_table_sum(trace[1], N(s))
TableSum(s, ch, tab) ==
  table_sum(tab, LAMBDA e : IF s.kind = "memory" THEN denom(ch.z, ch.alpha, e) ELSE sub(ch.z, e))

eval_constraints(s, ch, cur, next) ==
  CASE s.kind = "square" -> square_constraints(s.c, cur, next)
    [] s.kind = "fib2" -> FibonacciTwoCol_constraints(cur, next)
    [] s.kind = "trib" -> Tribonacci_constraints(cur, next)
    [] s.kind = "memory" ->
         <<sub(sub(next[1], cur[1]),
               row_contribution(ch.z, ch.alpha, [j \in 1 .. 4 |-> <<next[2 * j], next[2 * j + 1]>>]))>>
    [] s.kind = "range_check" -> <<sub(sub(next[1], cur[1]), rc_row_contribution(ch.z, next[2]))>>
Combined(s, ch, cur, next) ==
  LET cs == eval_constraints(s, ch, cur, next)
  IN Sum([j \in DOMAIN cs |-> mul(ch.coefs[j], cs[j])], DOMAIN cs)

At(columns, i) == [c \in DOMAIN columns |-> columns[c][i]]
q_next(s, i) == (i + BLOWUP) % EvalN(s)
\* Z on the evaluation domain of each statement, evaluated once.
Z == [s \in Statements |-> [i \in 0 .. EvalN(s) - 1 |->
        z_eval_at(Root[LogEval(s)][i], N(s), Excluded(s.log_n, s.d))]]
ZAt(s, i) == Z[s][i % EvalN(s)]

\* Q = C / Z on the extended columns; the Fibonacci prover fits a line instead.
compute_quotient(s, ch, columns) ==
  IF s.kind = "fib"
  THEN LET line == compute_quotient_polynomial(columns[1], s.log_n)
       IN [i \in 0 .. EvalN(s) - 1 |-> add(mul(line[1], Root[LogEval(s)][i]), line[2])]
  ELSE divide([i \in 0 .. EvalN(s) - 1 |-> Combined(s, ch, At(columns, i), At(columns, q_next(s, i)))],
              [i \in 0 .. EvalN(s) - 1 |-> ZAt(s, i)], EvalN(s))

-----------------------------------------------------------------------------
None == [col |-> 0, row |-> 0]
\* Every cell of the trace proper; of a lookup, of its running sum.
Cells(s) ==
  [col : IF IsLookup(s) THEN {1} ELSE 1 .. Len(generate_trace(s)), row : 0 .. N(s) - 1]
WithWrong(columns, w) ==
  IF w = None THEN columns ELSE [columns EXCEPT ![w.col][w.row] = add(@, Bump)]

Init ==
  /\ st \in Statements
  /\ wrong \in {None} \cup Cells(st)
  /\ phase = "commit" /\ chal = <<>> /\ cols = <<>> /\ table = <<>> /\ layers = <<>>
  /\ alphas = <<>> /\ q = 0 /\ proof = <<>> /\ changed = "none" /\ verdict = "none"

\* No access may hit the challenge, which a 252-bit one does with negligible probability.
Avoids(s, ch, trace) ==
  \A i \in 0 .. N(s) - 1 :
    IF s.kind = "memory"
    THEN \A j \in 1 .. 4 : denom(ch.z, ch.alpha, accesses_at_row(trace, i)[j]) # 0
    ELSE \A j \in 1 .. 3 : ch.z # offsets_from_inst(trace[1][i])[j]

\* prove, prove_multi, prove_memory_logup, prove_range_check up to the committed columns.
Commit ==
  /\ phase = "commit"
  /\ LET trace == generate_trace(st) IN
     /\ IF IsLookup(st)
        THEN \E z, alpha \in Challenges :
               /\ chal' = [coefs |-> <<1>>, z |-> z, alpha |-> alpha]
               /\ Avoids(st, chal', trace)
        ELSE chal' \in [coefs : IF st.kind \in {"fib2", "trib"} THEN Coefs ELSE {<<1>>}]
     /\ LET committed == IF IsLookup(st) THEN <<InteractionColumn(st, chal', trace)>> \o trace ELSE trace
            faulty == WithWrong(committed, wrong)
        IN /\ cols' = [c \in DOMAIN faulty |-> lde_cpu(faulty[c], st.log_n, LOG_BLOWUP)]
           /\ table' = IF IsLookup(st)
                       THEN [sum |-> faulty[1][N(st) - 1], mults |-> Table(st, trace)] ELSE <<>>
  \* The prover asserts that its sums cancel.
  /\ IF IsLookup(st) /\ add(table'.sum, TableSum(st, chal', table'.mults)) # 0
     THEN phase' = "done" /\ verdict' = "panic"
     ELSE phase' = "quotient" /\ UNCHANGED verdict
  /\ UNCHANGED <<st, wrong, layers, alphas, q, proof, changed>>

Quotient ==
  /\ phase = "quotient"
  /\ layers' = <<compute_quotient(st, chal, cols)>>
  /\ phase' = IF st.kind = "fib" THEN "query" ELSE "fold"
  /\ UNCHANGED <<st, wrong, chal, cols, table, alphas, q, proof, changed, verdict>>

\* fri_commit: one layer; the last one is sent as it is.
Fold ==
  /\ phase = "fold"
  /\ \E alpha \in Challenges :
       /\ alphas' = Append(alphas, alpha)
       /\ layers' = Append(layers, fold_layer(layers[Len(layers)], LogEval(st) - Len(alphas), alpha))
  /\ phase' = IF Len(alphas') = n_folds(LogEval(st)) THEN "query" ELSE "fold"
  /\ UNCHANGED <<st, wrong, chal, cols, table, q, proof, changed, verdict>>

\* How far ahead the constraint reads.
Ahead(s) == IF s.kind = "fib" THEN 0 .. 2 ELSE 0 .. 1
Opened(columns, log_m, i) ==
  [c \in DOMAIN columns |->
     [val |-> columns[c][i], path |-> auth_path(commit(columns[c], log_m), log_m, i)]]

\* The query is drawn, the values it needs are opened.
Query ==
  /\ phase = "query"
  /\ q' \in 0 .. EvalN(st) - 1
  /\ proof' =
       [rows |-> [k \in Ahead(st) |-> Opened(cols, LogEval(st), (q' + k * BLOWUP) % EvalN(st))],
        quotient |-> Opened(layers, LogEval(st), q')[1],
        fri |-> IF st.kind = "fib" THEN <<>>
                ELSE fri_decommit(layers, [l \in 1 .. Len(alphas) |-> commit(layers[l], LogEval(st) - l + 1)],
                                  LogEval(st), q'),
        last |-> layers[Len(layers)],
        table |-> table]
  /\ phase' = "store"
  /\ UNCHANGED <<st, wrong, chal, cols, table, layers, alphas, changed, verdict>>

\* A digest that is not one of the tree's.
OtherDigest == <<0, 0, 0>>
Change(whats, ks, cs, parts) == [what : whats, k : ks, c : cs, part : parts]
Changes ==
  Change({"row"}, Ahead(st), IF IsLookup(st) THEN {1} ELSE DOMAIN cols, {"val", "path"})
  \cup (IF st.kind = "fib" THEN Change({"quotient"}, {0}, {0}, {"val", "path"})
        ELSE Change({"fri"}, DOMAIN proof.fri, {0}, {"f_lo", "f_hi", "path_lo", "path_hi"})
             \cup Change({"last"}, {low_index(q, LogEval(st), Len(alphas) - 1)}, {0}, {"val"}))
  \cup (IF IsLookup(st)
        THEN Change({"sum", "mult"}, {0}, {0}, {"val"})
             \cup Change({"access"}, {1}, DOMAIN cols \ {1}, {"val"}) ELSE {})

Spoiled(part, x) ==
  IF part \in {"path", "path_lo", "path_hi"} THEN [x EXCEPT ![1] = OtherDigest] ELSE add(x, Bump)
Changed(p, ch) ==
  CASE ch.what = "row" -> [p EXCEPT !.rows[ch.k][ch.c][ch.part] = Spoiled(ch.part, @)]
    [] ch.what = "access" -> [p EXCEPT !.rows[1][ch.c].val = Spoiled("val", @)]
    [] ch.what = "quotient" -> [p EXCEPT !.quotient[ch.part] = Spoiled(ch.part, @)]
    [] ch.what = "fri" -> [p EXCEPT !.fri[ch.k][ch.part] = Spoiled(ch.part, @)]
    [] ch.what = "last" -> [p EXCEPT !.last[ch.k] = Spoiled("val", @)]
    [] ch.what = "sum" -> [p EXCEPT !.table.sum = Spoiled("val", @)]
    [] ch.what = "mult" ->
         LET e == CHOOSE x \in DOMAIN p.table.mults : TRUE IN [p EXCEPT !.table.mults[e] = @ + 1]

Store ==
  /\ phase = "store"
  /\ \/ UNCHANGED <<proof, changed>>
     \/ /\ wrong = None
        /\ \E ch \in Changes : changed' = ch.what /\ proof' = Changed(proof, ch)
  /\ phase' = "verify"
  /\ UNCHANGED <<st, wrong, chal, cols, table, layers, alphas, q, verdict>>

-----------------------------------------------------------------------------
(* The verifier: what it sees are the roots, the challenges and the proof. *)

Root0(columns, c) == root(commit(columns[c], LogEval(st)))
\* A lookup proof carries no root for the columns it reads (the memory one) or takes it from
\* the execution proof (the range check's instruction column).
Authenticated == CASE st.kind = "memory" -> {1} [] OTHER -> DOMAIN cols
\* The path of the next row forgotten.
PathsHoldHere ==
  \A c \in Authenticated :
    verify_auth_path(proof.rows[0][c].val, proof.rows[0][c].path, Root0(cols, c), q)
\* The current row of the columns a lookup reads is not opened.
PathsHold ==
  \A k \in Ahead(st) : \A c \in Authenticated :
    \/ IsLookup(st) /\ k = 0 /\ c > 1
    \/ verify_auth_path(proof.rows[k][c].val, proof.rows[k][c].path, Root0(cols, c),
                        (q + k * BLOWUP) % EvalN(st))
OpenedRow(k) == [c \in DOMAIN cols |-> proof.rows[k][c].val]

TableHolds ==
  IsLookup(st) =>
    /\ add(proof.table.sum, TableSum(st, chal, proof.table.mults)) = 0
    /\ st.kind = "range_check" =>
         MapThenSumSet(LAMBDA e : proof.table.mults[e], DOMAIN proof.table.mults) = 3 * N(st)

\* Q(x_q) is one of the first layer's pair.
QuotientAtQuery == LET ld == proof.fri[1] IN
  IF q = low_index(q, LogEval(st), 0) THEN ld.f_lo ELSE ld.f_hi

verify_air ==
  /\ TableHolds
  /\ PathsHold
  /\ mul(QuotientAtQuery, ZAt(st, q)) = Combined(st, chal, OpenedRow(0), OpenedRow(1))
  /\ fri_verify([l \in 1 .. Len(alphas) |-> root(commit(layers[l], LogEval(st) - l + 1))],
                proof.last, proof.fri, alphas, LogEval(st), q)

verify_fib ==
  LET line == compute_quotient_polynomial(cols[1], st.log_n)
      x_q == Root[LogEval(st)][q]
      e(k) == Root[st.log_n][N(st) - k]
  IN /\ PathsHold
     /\ verify_auth_path(proof.quotient.val, proof.quotient.path, Root0(layers, 1), q)
     /\ proof.quotient.val = add(mul(line[1], x_q), line[2])
     /\ mul(proof.quotient.val, fib_vanishing_at(x_q, N(st), e(2), e(1)))
          = sub(sub(OpenedRow(2)[1], OpenedRow(1)[1]), OpenedRow(0)[1])

Verify ==
  /\ phase = "verify"
  /\ verdict' = IF (IF st.kind = "fib" THEN verify_fib ELSE verify_air) THEN "accept" ELSE "refuse"
  /\ phase' = "done"
  /\ UNCHANGED <<st, wrong, chal, cols, table, layers, alphas, q, proof, changed>>

Done == phase = "done" /\ UNCHANGED vars

Next == Commit \/ Quotient \/ Fold \/ Query \/ Store \/ Verify \/ Done
Spec == Init /\ [][Next]_vars

-----------------------------------------------------------------------------
(* The provers neither panic on a trace that was computed correctly nor are *)
(* refused at any query, those at the rows a constraint leaves out included *)
(* (stark.rs verify_with_air, multi_stark.rs, logup.rs, range_check.rs,     *)
(* verifier.rs).                                                            *)
HonestTraceAccepted ==
  phase = "done" /\ wrong = None /\ changed = "none" => verdict = "accept"

(* An accepted query at a row of the trace means that the row satisfies     *)
(* every constraint, whatever the prover committed to for a wrong cell.     *)
AcceptedRowSatisfiesAir ==
  verdict = "accept" /\ st.kind # "fib" =>
    \A k \in 0 .. N(st) - 1 - st.d : q = k * BLOWUP =>
      LET cs == eval_constraints(st, chal, At(cols, q), At(cols, q_next(st, q)))
      IN \A j \in DOMAIN cs : cs[j] = 0

(* No value of a stored proof can change without the query that reads it    *)
(* being refused: trace values and paths, FRI pairs and paths, the last     *)
(* layer, sums, multiplicities and the accesses whose paths are not checked.*)
ChangedProofRefused == phase = "done" /\ changed # "none" => verdict = "refuse"

(* multi_stark.rs:28: FRI certifies that the quotient has degree below N.   *)
QuotientHasLowDegree ==
  st.kind \in {"fib2", "trib"} /\ wrong = None /\ verdict = "accept" => DegreeBelow(layers[1], LogEval(st), N(st))
=============================================================================
