------------------------------ MODULE DictHints ------------------------------
(***************************************************************************)
(* The dictionary and segment hints of src/src/cairo_air/hints.rs, run by  *)
(* execute_to_columns_with_hints before the instruction at their pc.       *)
(*                                                                         *)
(* HintContext keeps, beside the VM's flat memory, a side-state per        *)
(* Felt252Dict (dicts, dicts_felt, dict_arena_info) and three parallel     *)
(* access logs that the prover later commits to.  The Sierra program is    *)
(* the environment: it owns one linear handle per dictionary (dict_ptr and *)
(* the key of the entry it has open), stores the key and the new value in  *)
(* the 3-cell entry, and runs the hints in the order Sierra's linear types *)
(* allow: get an entry, finalize it, and squash the dictionary at the end. *)
(* Entries of different dictionaries may be open at the same time.         *)
(***************************************************************************)
EXTENDS Integers, Sequences, FiniteSets

CONSTANTS
  SEGMENT_BASE_DEFAULT,  \* next_segment_base of a new HintContext
  SEGMENT_SIZE,          \* cells handed out per segment
  ArenaPtr,              \* address of the program's segment arena
  InfosPtrs,             \* what [ArenaPtr] may hold initially: 0 or a table address
  PtrWidth,              \* 2^32: dict_access_pointers stores dict_ptr as u32
  Keys, Values,          \* felts the program uses as keys and as new values
  MaxSegments,           \* bound: segments handed out in a behaviour
  MaxAccesses,           \* bound: entries opened in a behaviour
  StayInSegment,         \* TRUE: the program never fills a dictionary's segment
  None                   \* no dictionary, no open entry

DICT_INFO_SIZE == 3
ENTRY_SIZE == 3

\* A Felt252 is <<high limbs, low u64>>; a u64 memory word is one with high 0.
Felt == Nat \X Nat
from_u64(n) == <<0, n>>
low_u64(f) == f[2]

ASSUME LayoutAssumption ==
  /\ SEGMENT_BASE_DEFAULT \in Nat /\ SEGMENT_SIZE \in Nat \ {0}
  /\ ArenaPtr \in Nat /\ InfosPtrs \subseteq Nat /\ PtrWidth \in Nat \ {0}
  /\ MaxSegments \in Nat /\ MaxAccesses \in Nat

ASSUME DataAssumption ==
  /\ Keys \subseteq Felt /\ Values \subseteq Felt
  /\ StayInSegment \in BOOLEAN
  /\ None \notin Nat /\ None \notin Felt /\ None \notin [key : Keys, read : Nat]

VARIABLES
  next_segment_base,     \* the allocator's counter
  dicts,                 \* dict base -> (u64 key -> current u64 value)
  dicts_felt,            \* the same at full precision, created on first update
  dict_arena_info,       \* dict base -> where its DictInfo lives
  dict_accesses,         \* the u64 access log
  dict_access_pointers,  \* entry address of each access, as u32
  dict_accesses_felt,    \* the full-precision access log
  memory,                \* the written cells of the frame's flat memory
  step,                  \* trace row of the next instruction
  dict_ptr,              \* program: content of the dict_ptr_ptr cell per handle
  entry,                 \* program: key of the open entry of a handle, or None
  dict_index,            \* program: index GetSegmentArenaIndex answered
  owner                  \* history: the dictionary each logged access was made on

ctxVars == <<next_segment_base, dicts, dicts_felt, dict_arena_info>>
logVars == <<dict_accesses, dict_access_pointers, dict_accesses_felt, owner>>
frameVars == <<memory, step, dict_ptr, entry, dict_index>>
vars == <<ctxVars, logVars, frameVars>>

-----------------------------------------------------------------------------
\* Finite maps (HashMap) and the flat memory, which reads 0 where unwritten.

Insert(f, k, v) == [x \in DOMAIN f \cup {k} |-> IF x = k THEN v ELSE f[x]]
Lookup(f, k, default) == IF k \in DOMAIN f THEN f[k] ELSE default

get_felt(m, a) == Lookup(m, a, from_u64(0))
get(m, a) == low_u64(get_felt(m, a))
set_felt(m, a, f) == Insert(m, a, f)
set(m, a, n) == Insert(m, a, from_u64(n))

EmptyMap == [x \in {} |-> 0]

\* Owners as a scan with no end of the segment.
OwnersNoEnd(ptr) == {b \in DOMAIN dicts : b <= ptr}
\* Owners that misses the first cell of a segment.
OwnersAfterBase(ptr) == {b \in DOMAIN dicts : b < ptr /\ ptr < b + SEGMENT_SIZE}

\* The dictionaries whose segment holds ptr.  find_dict_base returns the first
\* one a HashMap iteration meets, so any of them; None if there is none.
Owners(ptr) == {b \in DOMAIN dicts : b <= ptr /\ ptr < b + SEGMENT_SIZE}
find_dict_base(ptr) == IF Owners(ptr) = {} THEN {None} ELSE Owners(ptr)

\* InfoSlot without the size of a DictInfo.
InfoSlotUnscaled(info) == info.infos_ptr + info.idx
InfoSlot(info) == info.infos_ptr + info.idx * DICT_INFO_SIZE

-----------------------------------------------------------------------------
Init ==
  /\ next_segment_base = SEGMENT_BASE_DEFAULT
  /\ dicts = EmptyMap /\ dicts_felt = EmptyMap /\ dict_arena_info = EmptyMap
  /\ dict_accesses = <<>> /\ dict_access_pointers = <<>>
  /\ dict_accesses_felt = <<>> /\ owner = <<>>
  /\ \E p \in InfosPtrs : memory = set(EmptyMap, ArenaPtr, p)
  /\ step = 0
  /\ dict_ptr = EmptyMap /\ entry = EmptyMap /\ dict_index = EmptyMap

SegmentLeft ==
  next_segment_base < SEGMENT_BASE_DEFAULT + MaxSegments * SEGMENT_SIZE

Live(d) == d \in DOMAIN dict_ptr /\ d \notin DOMAIN dict_index

OpenEntries == {d \in DOMAIN entry : entry[d] # None}

\* alloc_segment that steps over an entry instead of a segment.
alloc_entry == next_segment_base' = next_segment_base + ENTRY_SIZE

\* alloc_segment: hand out the next SEGMENT_SIZE cells.
alloc_segment == next_segment_base' = next_segment_base + SEGMENT_SIZE

\* AllocSegment: a fresh array segment; its base goes to a program cell.
AllocSegment ==
  /\ SegmentLeft
  /\ alloc_segment
  /\ step' = step + 1
  /\ UNCHANGED <<dicts, dicts_felt, dict_arena_info, logVars, memory,
                 dict_ptr, entry, dict_index>>

\* AllocFelt252Dict: a segment for the entries and a DictInfo in the arena.
AllocFelt252Dict ==
  LET base == next_segment_base
      infos_ptr == get(memory, ArenaPtr)
      n_dicts == get(memory, ArenaPtr + 1)
      info == [idx |-> n_dicts,
               infos_ptr |-> IF infos_ptr = 0 THEN ArenaPtr + 2 ELSE infos_ptr]
      slot == InfoSlot(info)
      started == set(set(set(memory, slot, base), slot + 1, base), slot + 2, base)
  IN /\ SegmentLeft
     /\ alloc_segment
     /\ dicts' = Insert(dicts, base, EmptyMap)
     /\ memory' = set(started, ArenaPtr + 1, n_dicts + 1)
     /\ dict_arena_info' = Insert(dict_arena_info, base, info)
     /\ dict_ptr' = Insert(dict_ptr, base, base)
     /\ entry' = Insert(entry, base, None)
     /\ step' = step + 1
     /\ UNCHANGED <<dicts_felt, logVars, dict_index>>

\* Felt252DictEntryInit: the previous value of the key, from the side-state,
\* goes to the entry's second cell.  The program stores the key in the first.
Felt252DictEntryInit(d, key) ==
  LET ptr == dict_ptr[d] IN
  /\ Live(d) /\ entry[d] = None
  /\ Len(dict_accesses) + Cardinality(OpenEntries) < MaxAccesses
  /\ StayInSegment => ptr + ENTRY_SIZE <= d + SEGMENT_SIZE
  /\ \E base \in find_dict_base(ptr) :
       LET side == Lookup(dicts, base, EmptyMap)
           prev_value == Lookup(side, low_u64(key), 0)
       IN memory' = set_felt(set(memory, ptr + 1, prev_value), ptr, key)
  /\ entry' = [entry EXCEPT ![d] = key]
  /\ step' = step + 1
  /\ UNCHANGED <<ctxVars, logVars, dict_ptr, dict_index>>

\* PushAccess that logs the pointer after advancing it ...
PushPastEntry(ptr, access, access_felt) ==
  /\ dict_accesses' = Append(dict_accesses, access)
  /\ dict_access_pointers' = Append(dict_access_pointers, (ptr + ENTRY_SIZE) % PtrWidth)
  /\ dict_accesses_felt' = Append(dict_accesses_felt, access_felt)

\* ... and that skips a write which leaves the value as it was.
PushUnlessNoop(ptr, access, access_felt) ==
  IF access.prev = access.new
  THEN UNCHANGED <<dict_accesses, dict_access_pointers, dict_accesses_felt>>
  ELSE /\ dict_accesses' = Append(dict_accesses, access)
       /\ dict_access_pointers' = Append(dict_access_pointers, ptr % PtrWidth)
       /\ dict_accesses_felt' = Append(dict_accesses_felt, access_felt)

\* One access goes to the three parallel logs.
PushAccess(ptr, access, access_felt) ==
  /\ dict_accesses' = Append(dict_accesses, access)
  /\ dict_access_pointers' = Append(dict_access_pointers, ptr % PtrWidth)
  /\ dict_accesses_felt' = Append(dict_accesses_felt, access_felt)

\* The access becomes the current value of its key, narrow and full.
UpdateSideState(base, access, access_felt) ==
  /\ dicts' = Insert(dicts, base, Insert(dicts[base], access.key, access.new))
  /\ dicts_felt' = Insert(dicts_felt, base,
                          Insert(Lookup(dicts_felt, base, EmptyMap),
                                 access_felt.key, access_felt.new))

\* What the hint pushes to the logs and the side-state when the entry at ptr
\* lies in the segment of base: the previous values are looked up again.
LogAccess(m, ptr, base) ==
  LET key_felt == get_felt(m, ptr)
      new_felt == get_felt(m, ptr + 2)
      key == low_u64(key_felt)
      new_value == low_u64(new_felt)
      prev_value == Lookup(dicts[base], key, 0)
      side_felt == Lookup(dicts_felt, base, EmptyMap)
      prev_felt == Lookup(side_felt, key_felt, from_u64(prev_value))
      access == [step |-> step, key |-> key, prev |-> prev_value, new |-> new_value]
      access_felt == [step |-> step, key |-> key_felt, prev |-> prev_felt, new |-> new_felt]
  IN PushAccess(ptr, access, access_felt) /\ UpdateSideState(base, access, access_felt)

\* Felt252DictEntryUpdate, after the program stored the new value: log the
\* access, update the side-state, advance dict_ptr and mirror it in DictInfo.end.
Felt252DictEntryUpdate(d, new) ==
  LET ptr == dict_ptr[d]
      stored == set_felt(memory, ptr + 2, new)
      advanced == ptr + ENTRY_SIZE
  IN
  /\ Live(d) /\ entry[d] # None
  /\ \E base \in find_dict_base(ptr) :
       /\ IF base = None
          THEN UNCHANGED <<dicts, dicts_felt, dict_accesses,
                           dict_access_pointers, dict_accesses_felt>>
          ELSE LogAccess(stored, ptr, base)
       /\ owner' = IF base = None THEN owner ELSE Append(owner, d)
       /\ memory' = IF base \in DOMAIN dict_arena_info
                    THEN set(stored, InfoSlot(dict_arena_info[base]) + 1, advanced)
                    ELSE stored
  /\ dict_ptr' = [dict_ptr EXCEPT ![d] = advanced]
  /\ entry' = [entry EXCEPT ![d] = None]
  /\ step' = step + 1
  /\ UNCHANGED <<next_segment_base, dict_arena_info, dict_index>>

\* GetSegmentArenaIndex(dict_end_ptr): asked once per dictionary, when the
\* program squashes it; 0 when no dictionary owns the pointer.
GetSegmentArenaIndex(d) ==
  /\ Live(d) /\ entry[d] = None
  /\ \E base \in find_dict_base(dict_ptr[d]) :
       dict_index' = Insert(dict_index, d,
          IF base \in DOMAIN dict_arena_info THEN dict_arena_info[base].idx ELSE 0)
  /\ step' = step + 1
  /\ UNCHANGED <<ctxVars, logVars, memory, dict_ptr, entry>>

Next ==
  \/ AllocSegment
  \/ AllocFelt252Dict
  \/ \E d \in DOMAIN dict_ptr, key \in Keys : Felt252DictEntryInit(d, key)
  \/ \E d \in DOMAIN dict_ptr, new \in Values : Felt252DictEntryUpdate(d, new)
  \/ \E d \in DOMAIN dict_ptr : GetSegmentArenaIndex(d)

Spec == Init /\ [][Next]_vars

-----------------------------------------------------------------------------
\* Properties.

\* The shape of the state: maps over the dictionaries handed out, parallel logs.
\* (HintContext, hints.rs:215-274.)
IsMap(f, K, V) == DOMAIN f \subseteq K /\ \A x \in DOMAIN f : f[x] \in V

Access(Word) == [step : Nat, key : Word, prev : Word, new : Word]

CtxTypeOK ==
  /\ next_segment_base \in Nat
  /\ DOMAIN dicts \subseteq Nat
  /\ \A d \in DOMAIN dicts : IsMap(dicts[d], Nat, Nat)
  /\ DOMAIN dicts_felt \subseteq DOMAIN dicts
  /\ \A d \in DOMAIN dicts_felt : IsMap(dicts_felt[d], Felt, Felt)
  /\ dict_arena_info \in [DOMAIN dicts -> [idx : Nat, infos_ptr : Nat]]

LogTypeOK ==
  /\ dict_accesses \in Seq(Access(Nat))
  /\ dict_access_pointers \in Seq(0 .. PtrWidth - 1)
  /\ dict_accesses_felt \in Seq(Access(Felt))
  /\ owner \in Seq(DOMAIN dicts)
  /\ Len(dict_access_pointers) = Len(dict_accesses)
  /\ Len(dict_accesses_felt) = Len(dict_accesses)
  /\ Len(owner) = Len(dict_accesses)

FrameTypeOK ==
  /\ IsMap(memory, Nat, Felt) /\ step \in Nat
  /\ dict_ptr \in [DOMAIN dicts -> Nat]
  /\ entry \in [DOMAIN dicts -> Keys \cup {None}]
  /\ DOMAIN dict_index \subseteq DOMAIN dicts
  /\ \A d \in DOMAIN dict_index : dict_index[d] \in Nat

TypeOK == CtxTypeOK /\ LogTypeOK /\ FrameTypeOK

\* Each dictionary owns a segment no other overlaps and its dict_ptr has not left
\* it: what makes find_dict_base (hints.rs:391), a scan of a HashMap in no
\* particular order, answer the dictionary the program means.
SegmentsAreOwned ==
  /\ \A d \in DOMAIN dicts :
       /\ d + SEGMENT_SIZE <= next_segment_base
       /\ d <= dict_ptr[d]
       /\ StayInSegment => dict_ptr[d] + (IF entry[d] = None THEN 0 ELSE ENTRY_SIZE)
                            <= d + SEGMENT_SIZE
  /\ \A d, e \in DOMAIN dicts :
       d # e => d + SEGMENT_SIZE <= e \/ e + SEGMENT_SIZE <= d

\* The accesses logged for dictionary d, and those before access i that touched
\* the same key of the same dictionary.
AccessesTo(d) == {j \in 1 .. Len(owner) : owner[j] = d}
Earlier(i) == {j \in AccessesTo(owner[i]) :
                 j < i /\ dict_accesses[j].key = dict_accesses[i].key}

\* The side-state of every dictionary is exactly what the log says was last
\* written: no key is forgotten, none appears from another dictionary.
SideStateIsLastWrite ==
  \A d \in DOMAIN dicts :
    /\ \A j \in AccessesTo(d) : dict_accesses[j].key \in DOMAIN dicts[d]
    /\ \A k \in DOMAIN dicts[d] : \E j \in AccessesTo(d) :
         /\ dict_accesses[j].key = k /\ dict_accesses[j].new = dicts[d][k]
         /\ \A h \in AccessesTo(d) : dict_accesses[h].key = k => h <= j

\* Within one dictionary, each access starts from the value the previous access
\* to its key wrote, the first one from 0 (the dict's default): what the prover
\* turns into the sorted trace (dict_air.rs) and verify_chain is meant to check.
ChainPerDict ==
  \A i \in 1 .. Len(dict_accesses) :
    \/ Earlier(i) = {} /\ dict_accesses[i].prev = 0
    \/ \E j \in Earlier(i) : /\ \A h \in Earlier(i) : h <= j
                            /\ dict_accesses[i].prev = dict_accesses[j].new

\* Every logged access is still in the memory the trace reads, at its logged
\* pointer: key, the previous value the program was given when it opened the
\* entry, and the new value.  The verifier's dict memory bus (prover.rs:3806)
\* rejects a proof where these differ.
MemoryBus ==
  \A i \in 1 .. Len(dict_accesses) :
    LET ptr == dict_access_pointers[i] IN
    /\ get_felt(memory, ptr) = dict_accesses_felt[i].key
    /\ get(memory, ptr + 1) = dict_accesses[i].prev
    /\ get_felt(memory, ptr + 2) = dict_accesses_felt[i].new

\* The segment arena agrees with the handles: DictInfo.start and DictInfo.end of
\* each dictionary are its base and the program's current dict_ptr, and a squash
\* is told the index of its own DictInfo (hints.rs:1143, 1158).
ArenaMirrorsHandles ==
  /\ \A d \in DOMAIN dicts :
       LET slot == InfoSlot(dict_arena_info[d]) IN
       get(memory, slot) = d /\ get(memory, slot + 1) = dict_ptr[d]
  /\ \A d \in DOMAIN dict_index :
       get(memory, dict_arena_info[d].infos_ptr + dict_index[d] * DICT_INFO_SIZE) = d

\* "Ordered log of all dict access tuples" (hints.rs:242): every entry a handle
\* has passed is in the log, under its own dictionary.
LogComplete ==
  \A d \in DOMAIN dicts :
    dict_ptr[d] = d + ENTRY_SIZE * Cardinality(AccessesTo(d))

\* "The u64 dict_accesses above is derived by narrowing these via low_u64"
\* (hints.rs:262).
LogIsNarrowedFelts ==
  \A i \in 1 .. Len(dict_accesses) :
    /\ dict_accesses[i].key = low_u64(dict_accesses_felt[i].key)
    /\ dict_accesses[i].prev = low_u64(dict_accesses_felt[i].prev)
    /\ dict_accesses[i].new = low_u64(dict_accesses_felt[i].new)

-----------------------------------------------------------------------------
\* The hints implement the dictionaries of DictSpec: what the program reads in
\* the second cell of an open entry is the value it last put at that key of that
\* dictionary, whatever other dictionaries have entries open meanwhile.
Words == {low_u64(f) : f \in Values} \cup {0}
DictBases == {SEGMENT_BASE_DEFAULT + i * SEGMENT_SIZE : i \in 0 .. MaxSegments - 1}

Abstract == INSTANCE DictSpec WITH
  Dict <- DictBases, Key <- Keys, Value <- Words, Default <- 0, None <- None,
  value <- [d \in DOMAIN dict_ptr |-> [k \in Keys |-> Lookup(dicts[d], low_u64(k), 0)]],
  open <- [d \in DOMAIN dict_ptr |->
             IF entry[d] = None THEN None
             ELSE [key |-> entry[d], read |-> get(memory, dict_ptr[d] + 1)]]

ImplementsDictSpec == Abstract!Spec
=============================================================================
