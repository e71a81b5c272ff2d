------------------------------- MODULE DictSpec -------------------------------
(***************************************************************************)
(* What dictionary hints promise a Sierra program, with no segments,       *)
(* pointers or logs: every dictionary maps each key to the value last put  *)
(* there, a new one maps them all to Default, and opening an entry reads   *)
(* the value the key has at that moment in that dictionary.                *)
(***************************************************************************)
CONSTANTS Dict, Key, Value, Default, None

VARIABLES
  value,   \* dictionary -> key -> value; its domain is the dictionaries made
  open     \* dictionary -> the entry it has open, or None

absVars == <<value, open>>

Init == value = [d \in {} |-> Default] /\ open = [d \in {} |-> None]

New(d) ==
  /\ d \notin DOMAIN value
  /\ value' = [x \in DOMAIN value \cup {d} |->
                 IF x = d THEN [k \in Key |-> Default] ELSE value[x]]
  /\ open' = [x \in DOMAIN open \cup {d} |-> IF x = d THEN None ELSE open[x]]

Open(d, k) ==
  /\ d \in DOMAIN value /\ open[d] = None
  /\ open' = [open EXCEPT ![d] = [key |-> k, read |-> value[d][k]]]
  /\ UNCHANGED value

Finalize(d, v) ==
  /\ d \in DOMAIN value /\ open[d] # None
  /\ value' = [value EXCEPT ![d][open[d].key] = v]
  /\ open' = [open EXCEPT ![d] = None]

Next == \E d \in Dict : \/ New(d)
                        \/ \E k \in Key : Open(d, k)
                        \/ \E v \in Value : Finalize(d, v)

Spec == Init /\ [][Next]_absVars
=============================================================================
