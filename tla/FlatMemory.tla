----------------------------- MODULE FlatMemory -----------------------------
(***************************************************************************)
(* What the VM's memory promises: one cell per address that holds what was *)
(* last written, whatever page the address lies on, and a bitwise builtin  *)
(* whose outputs appear when both of its inputs have been written.         *)
(***************************************************************************)
EXTENDS Integers, FiniteSets

CONSTANTS
  Addrs,                           \* the addresses in use
  BITWISE_MEM_BASE, BITWISE_END,   \* the builtin's page
  U32,                             \* 2^32
  Programs,                        \* programs that may be loaded: 0 .. n-1 -> word
  Words, Felts                     \* values written

VARIABLES
  cells,                           \* address -> felt
  given                            \* inputs of the builtin written so far

from_u64(n) == <<0, n>>
low_u64(f) == f[2]

and[p \in Nat \X Nat] ==
  IF 0 \in {p[1], p[2]} THEN 0
  ELSE 2 * and[<<p[1] \div 2, p[2] \div 2>>] + (p[1] % 2) * (p[2] % 2)
or(x, y) == x + y - and[<<x, y>>]
xor(x, y) == or(x, y) - and[<<x, y>>]

\* Where the invocation an address of the page belongs to begins.
FirstInput(a) == a - ((a - BITWISE_MEM_BASE) % 5)
IsInput(a) == a \in BITWISE_MEM_BASE .. BITWISE_END - 1 /\ a - FirstInput(a) < 2

Loaded(program) ==
  [a \in Addrs |-> from_u64(IF a \in DOMAIN program THEN program[a] ELSE 0)]

Init == (\E program \in Programs : cells = Loaded(program)) /\ given = {}

\* The outputs of the invocation whose inputs are at x and x + 1.
WithOutputs(c, x) ==
  LET m == low_u64(c[x]) % U32
      n == low_u64(c[x + 1]) % U32
      output(a) == CASE a = x + 2 -> and[<<m, n>>]
                     [] a = x + 3 -> xor(m, n)
                     [] a = x + 4 -> or(m, n)
  IN [a \in Addrs |-> IF a \in {x + 2, x + 3, x + 4} THEN from_u64(output(a)) ELSE c[a]]

Write(a, v) ==
  LET x == FirstInput(a)
      stored == [cells EXCEPT ![a] = v]
  IN
  /\ a < BITWISE_END
  /\ given' = IF IsInput(a) THEN given \cup {a} ELSE given
  /\ cells' = IF IsInput(a) /\ {x, x + 1} \subseteq given' THEN WithOutputs(stored, x)
              ELSE stored

WriteWord == \E a \in Addrs, n \in Words : Write(a, from_u64(n))
\* A felt is written whole, except on the page, which holds words.
WriteFelt == \E a \in Addrs, f \in Felts :
               Write(a, IF a < BITWISE_MEM_BASE THEN f ELSE from_u64(low_u64(f)))

Next == WriteWord \/ WriteFelt
Spec == Init /\ [][Next]_<<cells, given>>
=============================================================================
