----------------------------- MODULE Transcript -----------------------------
(***************************************************************************)
(* The steps a STARK prover and its verifier take, as data.  A prover is a *)
(* sequence of "make", "mix" and "draw" steps, a verifier a sequence of    *)
(* "mix", "draw" and "check" steps (src/channel.rs is the sponge both      *)
(* write to).  A proof field is the name of a value: what the steps depend *)
(* on is which fields were absorbed before which challenge was drawn.      *)
(***************************************************************************)
EXTENDS Integers, Sequences, FiniteSets

\* The names of what a FRI has one of per layer, however many layers there are.
CONSTANTS
  MaxLayers,       \* bound: committed layers
  FriAlpha,        \* the folding challenges,
  FriCommitment,   \* the committed layers
  FriDecommitment  \* and their openings
ASSUME LayersAssumption ==
  /\ MaxLayers \in Nat
  /\ {FriAlpha, FriCommitment, FriDecommitment} \subseteq [0..MaxLayers -> STRING]
  /\ \A i, j \in 0..MaxLayers : FriAlpha[i] = FriAlpha[j] => i = j

\* Compute the fields from the challenges in "uses" and put them in the proof.
make(fields, uses) == <<[op |-> "make", fields |-> fields, uses |-> uses]>>
\* Absorb field f into the channel.
mix(f) == <<[op |-> "mix", field |-> f]>>
\* Compute field f and absorb it.
commit(f, uses) == make({f}, uses) \o mix(f)
\* Squeeze challenge c out of the channel.
draw(c) == <<[op |-> "draw", challenge |-> c]>>
\* Read the state of the channel as challenge c: nothing is squeezed.
peek(c) == <<[op |-> "peek", challenge |-> c]>>
\* Continue with an empty channel.
restart == <<[op |-> "restart"]>>
\* Verify an equation over the fields and the challenges.
check(fields, challenges) ==
  <<[op |-> "check", fields |-> fields, challenges |-> challenges]>>
\* Verify something that a damaged field may satisfy as well.
loose(fields) == <<[op |-> "loose", fields |-> fields]>>
\* Every gate: refuse a proof in which one of the fields has its default value.
present(fields) == <<[op |-> "present", fields |-> fields]>>
when(cond, script) == IF cond THEN script ELSE <<>>
\* Rounds 1 to n, one after the other.
rounds(n, each) ==
  LET upto[i \in 0..n] == IF i = 0 THEN <<>> ELSE upto[i - 1] \o each[i]
  IN  upto[n]
=============================================================================
