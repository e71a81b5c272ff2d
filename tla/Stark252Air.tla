---------------------------- MODULE Stark252Air ----------------------------
(***************************************************************************)
(* The statements the stark252 provers prove: traces, constraints and the  *)
(* quotients by the vanishing polynomial, the running sums of the memory   *)
(* and range-check arguments among them.                                   *)
(***************************************************************************)
EXTENDS Stark252Fri

CONSTANTS LOG_BLOWUP, OFFSET_BITS  \* 2 and 16 in the code

BLOWUP == 2^LOG_BLOWUP

\* The first rows in the place of the last ones.
ExcludedFirst(log_n, d) == [k \in 1 .. d |-> Root[log_n][k - 1]]
\* The points of the last d rows: no constraint holds there.
Excluded(log_n, d) == [k \in 1 .. d |-> Root[log_n][2^log_n - d + k - 1]]

\* Z(x) = (x^N - 1) / prod (x - e), its limit where x is one of the e.
z_eval_at(x, n, excluded) ==
  LET at == {k \in DOMAIN excluded : excluded[k] = x}
      denom == FoldFunctionOnSet(LAMBDA a, b : mul(a, b), 1,
                 [k \in DOMAIN excluded |-> sub(x, excluded[k])], DOMAIN excluded \ at)
  IN  IF at = {} THEN mul(sub(pow(x, n), 1), inverse(denom))
      ELSE mul(mul(n, pow(x, n - 1)), inverse(denom))
\* C / Z where Z is not zero, 0 elsewhere; one inversion for all.
divide(c, z, eval_n) ==
  LET nonzero == SelectSeq([i \in 1 .. eval_n |-> i - 1], LAMBDA i : z[i] # 0)
      nonzero_inv == batch_inverse([k \in DOMAIN nonzero |-> z[nonzero[k]]])
      place(i) == Cardinality({k \in 0 .. i : z[k] # 0})
  IN [i \in 0 .. eval_n - 1 |-> IF z[i] = 0 THEN 0 ELSE mul(c[i], nonzero_inv[place(i)])]

-----------------------------------------------------------------------------
(* Traces: a record per statement; columns are functions from 0. *)

Column(first, n, Step(_)) ==
  LET t[k \in 0 .. n - 1] == IF k = 0 THEN first ELSE Step(t[k - 1]) IN [k \in 0 .. n - 1 |-> t[k]]

\* SquareAddAir: T' = T^2 + c.
square_trace(seed, c, n) == <<Column(seed, n, LAMBDA v : add(mul(v, v), c))>>
square_constraints(c, cur, next) == <<sub(sub(next[1], mul(cur[1], cur[1])), c)>>

\* Rows as tuples, transposed.
Columns(rows, n_cols, n) == [c \in 1 .. n_cols |-> [k \in 0 .. n - 1 |-> rows[k][c]]]

FibonacciTwoCol_trace(a0, b0, n) ==
  Columns(Column(<<a0, b0>>, n, LAMBDA r : <<r[2], add(r[1], r[2])>>), 2, n)
FibonacciTwoCol_constraints(cur, next) ==
  <<sub(next[1], cur[2]), sub(sub(next[2], cur[1]), cur[2])>>

Tribonacci_trace(a0, b0, c0, n) ==
  Columns(Column(<<a0, b0, c0>>, n, LAMBDA r : <<r[2], r[3], add(add(r[1], r[2]), r[3])>>), 3, n)
Tribonacci_constraints(cur, next) ==
  <<sub(next[1], cur[2]), sub(next[2], cur[3]), sub(sub(sub(next[3], cur[1]), cur[2]), cur[3])>>

\* prover.rs: one column, two rows of look-ahead.
fib_trace(a, b, n) ==
  LET t[k \in 0 .. n - 1] == CASE k = 0 -> a [] k = 1 -> b [] OTHER -> add(t[k - 1], t[k - 2])
  IN [k \in 0 .. n - 1 |-> t[k]]
fib_constraint_at(t, i, eval_n) ==
  sub(sub(t[(i + 2 * BLOWUP) % eval_n], t[(i + BLOWUP) % eval_n]), t[i])

\* The verifier's Z: the limit at e1 and e2.
fib_vanishing_at(x, n, e1, e2) ==
  IF x \in {e1, e2}
  THEN mul(mul(n, pow(x, n - 1)), inverse(sub(x, IF x = e1 THEN e2 ELSE e1)))
  ELSE mul(sub(pow(x, n), 1), inverse(mul(sub(x, e1), sub(x, e2))))

\* The line through C / Z at the points 1 and 3, none of them in the trace domain.
compute_quotient_polynomial(t_eval, log_n) ==
  LET log_eval == log_n + LOG_BLOWUP
      e1 == Root[log_n][2^log_n - 2]
      e2 == Root[log_n][2^log_n - 1]
      q(i) == mul(fib_constraint_at(t_eval, i, 2^log_eval),
                  inverse(fib_vanishing_at(Root[log_eval][i], 2^log_n, e1, e2)))
      x1 == Root[log_eval][1]
      x3 == Root[log_eval][3]
      a_q == mul(sub(q(3), q(1)), inverse(sub(x3, x1)))
  IN <<a_q, sub(q(1), mul(a_q, x1))>>

-----------------------------------------------------------------------------
(* LogUp: a running sum of fractions and the table it must cancel. *)

denom(z, alpha, access) == sub(sub(z, access[1]), mul(alpha, access[2]))
\* Of one row: accesses are pairs of an address and a value.
row_contribution(z, alpha, accesses) ==
  LET inv == batch_inverse([j \in DOMAIN accesses |-> denom(z, alpha, accesses[j])])
  IN Sum(inv, DOMAIN inv)

\* cols: pc, inst, dst_addr, dst, op0_addr, op0, op1_addr, op1.
accesses_at_row(cols, i) == [j \in 1 .. 4 |-> <<cols[2 * j - 1][i], cols[2 * j][i]>>]

\* The three offsets in the low bits of an instruction word.
offsets_from_inst(inst) == [j \in 1 .. 3 |-> (inst \div 2^(OFFSET_BITS * (j - 1))) % 2^OFFSET_BITS]
rc_row_contribution(z, inst) ==
  LET offs == offsets_from_inst(inst)
      inv == batch_inverse([j \in 1 .. 3 |-> sub(z, offs[j])])
  IN Sum(inv, 1 .. 3)

\* S[i] = S[i - 1] + contribution of row i.
running_sum(contribution, n) ==
  LET s[i \in 0 .. n - 1] == add(IF i = 0 THEN 0 ELSE s[i - 1], contribution[i])
  IN [i \in 0 .. n - 1 |-> s[i]]

\* What is looked up, with multiplicities: entry -> count.
Tally(entries) ==
  [e \in {entries[k] : k \in DOMAIN entries} |-> Cardinality({k \in DOMAIN entries : entries[k] = e})]
compute_table_sum(cols, n) ==
  Tally([k \in (0 .. n - 1) \X (1 .. 4) |-> accesses_at_row(cols, k[1])[k[2]]])
compute_rc_table_sum(inst, n) ==
  Tally([k \in (0 .. n - 1) \X (1 .. 3) |-> offsets_from_inst(inst[k[1]])[k[2]]])
\* The sum a table contributes: - mult / denominator; a zero denominator spoils the batch.
table_sum(table, Denom(_)) ==
  IF \E e \in DOMAIN table : Denom(e) = 0 THEN 0
  ELSE FoldFunctionOnSet(LAMBDA x, y : add(x, y), 0,
         [e \in DOMAIN table |-> sub(0, mul(table[e], inverse(Denom(e))))], DOMAIN table)
=============================================================================
