------------------------------ MODULE DictProof ------------------------------
(***************************************************************************)
(* From the access logs of DictCalls to a verified proof: the dictionary   *)
(* part of cairo_prove_program_inner and cairo_prove_cached_with_columns   *)
(* (src/src/cairo_air/prover.rs), the sub-AIR of dict_air.rs, and the      *)
(* checks cairo_verify makes on it.  One action proves the finished run,   *)
(* with every gate in the order the code takes it; one action verifies.    *)
(*                                                                         *)
(* LogUp sums over random challenges are compared as the bags of entries   *)
(* they sum over; Merkle and transcript commitments are binding and left   *)
(* out.  Addresses stay below the modulus P, so only values are reduced.   *)
(***************************************************************************)
EXTENDS DictCalls

CONSTANT P               \* the M31 modulus; P + 1 is a power of two

ASSUME ModulusAssumption == P \in Nat \ {0}

VARIABLES
  outcome,               \* running, the prover's verdict, then the verifier's
  proof                  \* what the prover handed over, or None

proofVars == <<callVars, outcome, proof>>

low31(v) == v % (P + 1)  \* v & 0x7FFF_FFFF, the dict columns and dict_air.rs
to_m31(v) == v % P       \* vm.rs, every operand column

Indices(seq) == 1 .. Len(seq)
\* How often each row occurs, entries being compared as elements of the field.
BagOf(rows) ==
  LET field == [i \in DOMAIN rows |-> [c \in DOMAIN rows[i] |-> to_m31(rows[i][c])]]
  IN [r \in {field[i] : i \in DOMAIN rows} |->
        Cardinality({i \in DOMAIN rows : field[i] = r})]

-----------------------------------------------------------------------------
\* dict_consistency.rs: last_new is a map over keys; which dictionary an access
\* was made on is not in the log.

\* verify_chain that remembers the value an access found, not the one it wrote.
verify_chain_found(log) ==
  LET last_new[i \in 0 .. Len(log)] ==
        IF i = 0 THEN EmptyMap ELSE Insert(last_new[i - 1], log[i].key, log[i].prev)
  IN \A i \in Indices(log) : log[i].prev = Lookup(last_new[i - 1], log[i].key, 0)

verify_chain(log) ==
  LET last_new[i \in 0 .. Len(log)] ==
        IF i = 0 THEN EmptyMap ELSE Insert(last_new[i - 1], log[i].key, log[i].new)
  IN \A i \in Indices(log) : log[i].prev = Lookup(last_new[i - 1], log[i].key, 0)

-----------------------------------------------------------------------------
\* dict_air.rs: the execution-order and the key-sorted trace, padded with zero
\* rows to a power of two.

\* 1 << ceil(log2(n)): each doubling halves what is left of n, rounding up.
DictRows(log) ==
  LET rows[n \in 1 .. Len(log)] == IF n = 1 THEN 1 ELSE 2 * rows[(n + 1) \div 2]
  IN rows[Len(log)]

Row3(a) == <<low31(a.key), low31(a.prev), low31(a.new)>>

exec_trace(log) ==
  [i \in 1 .. DictRows(log) |-> IF i <= Len(log) THEN Row3(log[i]) ELSE <<0, 0, 0>>]

\* SortedPlace with the accesses of a key in reverse.
SortedPlaceReversed(log, i) ==
  Cardinality({j \in Indices(log) : \/ log[j].key < log[i].key
                                    \/ log[j].key = log[i].key /\ j >= i})

\* sort_by_key is stable: within a key the execution order is kept.
SortedPlace(log, i) ==
  Cardinality({j \in Indices(log) : \/ log[j].key < log[i].key
                                    \/ log[j].key = log[i].key /\ j <= i})
sorted_log(log) ==
  [r \in Indices(log) |-> log[CHOOSE i \in Indices(log) : SortedPlace(log, i) = r]]

sorted_trace(log) ==
  LET s == sorted_log(log)
      is_first(i) == IF i = 1 \/ s[i - 1].key # s[i].key THEN 1 ELSE 0
  IN [i \in 1 .. DictRows(log) |->
        IF i <= Len(log) THEN Append(Row3(s[i]), is_first(i)) ELSE <<0, 0, 0, 1>>]

sub_m31(a, b) == (a + P - (b % P)) % P
mul_m31(a, b) == (a * b) % P

\* C0-C3 over a pair of consecutive sorted rows <<key, prev, new, is_first>>.
eval_sorted_constraints(curr, next) ==
  <<mul_m31(curr[4], sub_m31(1, curr[4])),
    mul_m31(sub_m31(1, next[4]), sub_m31(next[1], curr[1])),
    mul_m31(next[4], next[2]),
    mul_m31(sub_m31(1, next[4]), sub_m31(next[2], curr[3]))>>

SortedConstraintsHold(rows) ==
  \A i \in 1 .. Len(rows) - 1 :
    eval_sorted_constraints(rows[i], rows[i + 1]) = <<0, 0, 0, 0>>

\* The two traces hold the same (key, prev, new) rows.
IsPermutation(exec, sorted) ==
  BagOf(exec) = BagOf([i \in Indices(sorted) |-> SubSeq(sorted[i], 1, 3)])

-----------------------------------------------------------------------------
\* prover.rs: the dict columns of the main trace.  A later access on the same
\* row overwrites an earlier one; one beyond the trace is not recorded.

ActiveRows(log) == {log[i].step : i \in Indices(log)} \cap 0 .. TRACE_ROWS - 1
ColumnEntry(log, row) ==
  LET i == CHOOSE i \in Indices(log) :
             log[i].step = row /\ \A j \in Indices(log) : log[j].step = row => j <= i
  IN <<low31(log[i].key), low31(log[i].new)>>

\* The contributions to s_dict_final, and those of the first n rows of the
\* execution-order trace that they must equal.
s_dict_final(log) == BagOf([row \in ActiveRows(log) |-> ColumnEntry(log, row)])
exec_key_new_sum(exec, n) == BagOf([i \in 1 .. n |-> <<exec[i][1], exec[i][3]>>])

\* The low 31 bits of the full-precision row, committed in the side table.
side_table(flog) ==
  [i \in Indices(flog) |-> <<low31(low_u64(flog[i].key)), low31(low_u64(flog[i].prev)),
                             low31(low_u64(flog[i].new))>>]

\* The cells the main trace touched and that dictionaries live in: the program
\* stores the key and the new value of its entries and reads the previous one.
memory_table ==
  {<<a, to_m31(get(memory, a))>> :
     a \in UNION {d .. dict_ptr[d] - 1 : d \in DOMAIN dict_ptr}}

-----------------------------------------------------------------------------
ProofInit == CallsInit /\ outcome = "running" /\ proof = None

Execute == outcome = "running" /\ CallsNext /\ UNCHANGED <<outcome, proof>>

\* The main frame has run and left no entry half-made.
Finished == outcome = "running" /\ ~InCallee /\ OpenEntries = {} /\ dict_accesses # <<>>

ProverGate ==
  LET log == dict_accesses IN
  IF ~verify_chain(log) THEN "DictConsistencyViolation"
  ELSE IF ~IsPermutation(exec_trace(log), sorted_trace(log))
       THEN "dict LogUp permutation failed"
  ELSE IF s_dict_final(log) # exec_key_new_sum(exec_trace(log), Len(log))
       THEN "S_dict link check failed"
  ELSE IF ~SortedConstraintsHold(sorted_trace(log))
       THEN "dict sorted step-transition violated"
  ELSE "proved"

ProveDicts ==
  /\ Finished
  /\ outcome' = ProverGate
  /\ proof' = IF ProverGate # "proved" THEN None
              ELSE [n_accesses |-> Len(dict_accesses),
                    exec |-> exec_trace(dict_accesses),
                    sorted |-> sorted_trace(dict_accesses),
                    link_final |-> s_dict_final(dict_accesses),
                    side |-> side_table(dict_accesses_felt),
                    pointers |-> dict_access_pointers,
                    table |-> memory_table]
  /\ UNCHANGED callVars

\* BusHolds with the previous and the new value in each other's cell.
BusSwapped(p) ==
  \A cell \in p.table :
    LET at == {i \in Indices(p.pointers) : cell[1] - p.pointers[i] \in 0 .. 2} IN
    at # {} => LET i == CHOOSE i \in at : \A j \in at : j <= i
               IN cell[2] = p.exec[i][<<1, 3, 2>>[cell[1] - p.pointers[i] + 1]]

\* The memory cell of an access: the later access wins an address, as in the
\* verifier's HashMap.
BusHolds(p) ==
  \A cell \in p.table :
    LET at == {i \in Indices(p.pointers) : cell[1] - p.pointers[i] \in 0 .. 2} IN
    at # {} => LET i == CHOOSE i \in at : \A j \in at : j <= i
               IN cell[2] = p.exec[i][cell[1] - p.pointers[i] + 1]

VerifierAccepts(p) ==
  /\ p.n_accesses <= Len(p.exec)
  /\ \A i \in p.n_accesses + 1 .. Len(p.exec) : p.exec[i] = <<0, 0, 0>>
  /\ p.link_final = exec_key_new_sum(p.exec, p.n_accesses)
  /\ Len(p.side) = p.n_accesses
  /\ \A i \in 1 .. p.n_accesses : p.side[i] = p.exec[i]
  /\ Len(p.exec) = Len(p.sorted)
  /\ IsPermutation(p.exec, p.sorted)
  /\ SortedConstraintsHold(p.sorted)
  /\ Len(p.pointers) = p.n_accesses
  /\ BusHolds(p)

VerifyDicts ==
  /\ outcome = "proved"
  /\ outcome' = IF VerifierAccepts(proof) THEN "accepted" ELSE "rejected"
  /\ UNCHANGED <<callVars, proof>>

ProofNext == Execute \/ ProveDicts \/ VerifyDicts

ProofSpec == ProofInit /\ [][ProofNext]_proofVars

-----------------------------------------------------------------------------
\* Properties.

\* No callee has accessed a dictionary: the run may call, but the log is of the
\* trace that is proved.  (LogFollowsTrace and MainMemoryBus fail otherwise.)
AccessesAreOfMain == \A i \in DOMAIN owner : owner[i] \in DOMAIN dict_ptr

ProverPasses ==
  outcome \notin {"dict LogUp permutation failed", "S_dict link check failed",
                  "dict sorted step-transition violated"}

\* The prover's own assertions hold on every run whose log is of its trace: the
\* dict columns carry the accesses of the log ("main trace dict columns do not
\* match exec trace", prover.rs:1437) and the sorted trace meets C0-C3.
ProverDoesNotPanic == AccessesAreOfMain => ProverPasses

VerifierPasses == outcome # "rejected"

\* Completeness: a dictionary proof the prover emits of such a run is one the
\* verifier takes (cairo_verify, prover.rs:3806).
HonestProofAccepted == AccessesAreOfMain => VerifierPasses

\* "This indicates a hint execution bug" (ProveError::DictConsistencyViolation,
\* prover.rs:49): the chain check rejects no log whose accesses are chained.
ChainErrorMeansBrokenChain == outcome = "DictConsistencyViolation" => ~ChainPerDict

\* With a single dictionary that is so: the prover never refuses the run.
OneDictNeverRefused ==
  Cardinality(DOMAIN dicts) <= 1 => outcome # "DictConsistencyViolation"

\* What an accepted proof says of the run: the last row of each key in the
\* sorted trace holds the value the side-state of the dictionary ended with.
SortedTraceEndsInSideState ==
  outcome = "accepted" /\ Cardinality(DOMAIN dicts) = 1 =>
    \A d \in DOMAIN dicts : \A k \in DOMAIN dicts[d] :
      \E i \in 1 .. proof.n_accesses :
        /\ proof.sorted[i][1] = low31(k) /\ proof.sorted[i][3] = low31(dicts[d][k])
        /\ i = Len(proof.sorted) \/ proof.sorted[i + 1][4] = 1
=============================================================================
