----------------------------- MODULE DictSquash -----------------------------
(***************************************************************************)
(* The squash hints (hints.rs:1188-1278) on dictionaries made by DictHints.*)
(*                                                                         *)
(* A program squashes a dictionary once it has asked for its arena index:  *)
(* InitSquashData reads the access log from memory; for each key in turn   *)
(* the program asks ShouldSkipSquashLoop and, until told to stop, takes an *)
(* access index; GetNextDictKey moves it to the next key.  HintContext has *)
(* one SquashState for all of this.                                        *)
(***************************************************************************)
EXTENDS DictHints

VARIABLES
  squash,      \* SquashState, or None before the first squash
  squashing,   \* program: the dictionary being squashed, or None
  at,          \* program: the next hint, "ask", "index" or "next"
  next_key,    \* program: the key last answered by InitSquashData/GetNextDictKey
  squashed,    \* program: the dictionaries whose squash has begun
  visits       \* history: the keys of this squash with the indices taken for each

squashVars == <<vars, squash, squashing, at, next_key, squashed, visits>>

SquashInit ==
  /\ Init
  /\ squash = None /\ squashing = None /\ at = "ask" /\ next_key = 0
  /\ squashed = {} /\ visits = <<>>

\* The other hints go on between squashes; one squash is a single library call.
OtherHint ==
  /\ squashing = None
  /\ Next
  /\ UNCHANGED <<squash, squashing, at, next_key, squashed, visits>>

\* The keys and new values of the n entries that memory holds from start on.
EntryKey(start, i) == get(memory, start + (i - 1) * ENTRY_SIZE)
EntryNew(start, i) == get(memory, start + (i - 1) * ENTRY_SIZE + 2)
EntriesOf(start, n, key) == {i \in 1 .. n : EntryKey(start, i) = key}

\* Ascending, the other way round.
Descending(S) ==
  [i \in 1 .. Cardinality(S) |->
     CHOOSE x \in S : Cardinality({y \in S : y > x}) = i - 1]

\* The members of a finite set of numbers in ascending order.
Ascending(S) ==
  [i \in 1 .. Cardinality(S) |->
     CHOOSE x \in S : Cardinality({y \in S : y < x}) = i - 1]

\* The new values written to key, in encounter order.
accesses_of(start, n, key) ==
  LET order == Ascending(EntriesOf(start, n, key))
  IN [i \in DOMAIN order |-> EntryNew(start, order[i])]

\* sorted_keys.get(i) with the default 0.
KeyAt(keys, i) == IF i < Len(keys) THEN keys[i + 1] ELSE 0

InitSquashData(d) ==
  LET start == d
      n == (dict_ptr[d] - d) \div 3
      keys == Ascending({EntryKey(start, i) : i \in 1 .. n})
      first == KeyAt(keys, 0)
  IN
  /\ squashing = None /\ d \in DOMAIN dict_index \ squashed /\ dict_ptr[d] > d
  /\ squash' = [sorted_keys |-> keys, key_idx |-> 0,
                accesses_for_key |-> accesses_of(start, n, first), access_idx |-> 0,
                accesses_start |-> start, total_accesses |-> n]
  /\ squashed' = squashed \cup {d} /\ squashing' = d /\ at' = "ask" /\ next_key' = first
  /\ visits' = <<[key |-> first, taken |-> {}]>>
  /\ UNCHANGED vars

\* NoAccessLeft one access early.
OneAccessLeft == squash.access_idx + 1 >= Len(squash.accesses_for_key)
NoAccessLeft == squash.access_idx >= Len(squash.accesses_for_key)

ShouldSkipSquashLoop ==
  /\ squashing # None /\ at = "ask"
  /\ squash' = IF NoAccessLeft THEN [squash EXCEPT !.access_idx = 0] ELSE squash
  /\ at' = IF NoAccessLeft THEN "next" ELSE "index"
  /\ UNCHANGED <<vars, squashing, next_key, squashed, visits>>

\* GetCurrentAccessIndex that answers the same index for ever.
SameAccessIndex ==
  LET last == Len(visits) IN
  /\ squashing # None /\ at = "index"
  /\ visits' = [visits EXCEPT ![last].taken = @ \cup {squash.access_idx}]
  /\ at' = "ask"
  /\ UNCHANGED <<vars, squash, squashing, next_key, squashed>>

GetCurrentAccessIndex ==
  LET last == Len(visits) IN
  /\ squashing # None /\ at = "index"
  /\ visits' = [visits EXCEPT ![last].taken = @ \cup {squash.access_idx}]
  /\ squash' = [squash EXCEPT !.access_idx = @ + 1]
  /\ at' = "ask"
  /\ UNCHANGED <<vars, squashing, next_key, squashed>>

GetNextDictKey ==
  LET idx == squash.key_idx + 1
      key == KeyAt(squash.sorted_keys, idx)
      more == idx < Len(squash.sorted_keys)
  IN
  /\ squashing # None /\ at = "next"
  /\ squash' = [squash EXCEPT !.key_idx = idx, !.access_idx = 0]
  /\ next_key' = key
  /\ at' = "ask"
  /\ squashing' = IF more THEN squashing ELSE None
  /\ visits' = IF more THEN Append(visits, [key |-> key, taken |-> {}]) ELSE visits
  /\ UNCHANGED <<vars, squashed>>

SquashNext ==
  \/ OtherHint
  \/ \E d \in DOMAIN dict_index : InitSquashData(d)
  \/ ShouldSkipSquashLoop
  \/ GetCurrentAccessIndex
  \/ GetNextDictKey

\* A program that has begun to squash a dictionary goes on executing.
SquashFairness ==
  WF_squashVars(ShouldSkipSquashLoop \/ GetCurrentAccessIndex \/ GetNextDictKey)

SquashSpec == SquashInit /\ [][SquashNext]_squashVars /\ SquashFairness

-----------------------------------------------------------------------------
\* Properties.

CurrentKey == KeyAt(squash.sorted_keys, squash.key_idx)

\* The squash walks the keys of the dictionary being squashed in ascending order,
\* each once, and has walked them all when it ends (sorted_keys, hints.rs:303).
KeysVisitedInOrder ==
  /\ \A i, j \in 1 .. Len(visits) : i < j => visits[i].key < visits[j].key
  /\ squashing # None =>
       /\ next_key = CurrentKey /\ visits[Len(visits)].key = CurrentKey
       /\ {visits[i].key : i \in 1 .. Len(visits)} \subseteq DOMAIN dicts[squashing]
  /\ squashing = None /\ squash # None =>
       {visits[i].key : i \in 1 .. Len(visits)} = DOMAIN dicts[squash.accesses_start]

\* For the first key the program takes the indices 0, 1, 2, ... of all the
\* accesses the log has for that key of the dictionary, and no other.
FirstKeySquashedCompletely ==
  Len(visits) > 1 \/ (squash # None /\ squashing = None) =>
    LET d == squash.accesses_start
        key == visits[1].key
        made == {j \in AccessesTo(d) : dict_accesses[j].key = key}
    IN visits[1].taken = 0 .. Cardinality(made) - 1

\* "All access-log entries for the current key, in encounter order"
\* (SquashState::accesses_for_key, hints.rs:306).
AccessesAreOfCurrentKey ==
  squashing # None =>
    squash.accesses_for_key =
      accesses_of(squash.accesses_start, squash.total_accesses, CurrentKey)

\* Every squash ends: the inner loop is told to stop for each key and the keys
\* run out.
SquashTerminates == (squashing # None) ~> (squashing = None)
=============================================================================
