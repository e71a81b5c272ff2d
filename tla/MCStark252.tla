----------------------------- MODULE MCStark252 -----------------------------
(* Four and eight rows, blowup 4, a field of 12289 elements. *)
EXTENDS Stark252

Rows(c) == [k \in 0 .. 3 |-> c[k + 1]]
MCStatements ==
  {[kind |-> "square", log_n |-> 3, d |-> 1, seed |-> 2, c |-> 1],
   [kind |-> "square", log_n |-> 2, d |-> 1, seed |-> 3, c |-> 5],
   [kind |-> "fib2", log_n |-> 2, d |-> 1, a0 |-> 1, b0 |-> 4],
   [kind |-> "trib", log_n |-> 2, d |-> 1, a0 |-> 1, b0 |-> 2, c0 |-> 4],
   [kind |-> "fib", log_n |-> 2, d |-> 2, a0 |-> 1, b0 |-> 7],
   [kind |-> "memory", log_n |-> 2, d |-> 1,
    cols |-> <<Rows(<<1, 2, 1, 3>>), Rows(<<50, 51, 50, 52>>), Rows(<<9, 10, 9, 11>>), Rows(<<5, 6, 5, 7>>),
               Rows(<<9, 9, 9, 9>>), Rows(<<5, 5, 5, 5>>), Rows(<<2, 2, 3, 3>>), Rows(<<51, 51, 52, 52>>)>>],
   [kind |-> "range_check", log_n |-> 2, d |-> 1, cols |-> <<Rows(<<0, 21, 63, 21>>)>>]}
MCCoefs == {<<7, 100, 8191>>, <<1, 1, 1>>}
=============================================================================
