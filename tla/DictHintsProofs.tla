--------------------------- MODULE DictHintsProofs ---------------------------
(***************************************************************************)
(* Proofs about DictHints and DictSquash, for every size of the segments,  *)
(* the arena and the data: the dictionaries themselves, then the memory    *)
(* the hints share with the program (the segment arena, the entries behind *)
(* the access log, and what a program reads from an entry it opens), and   *)
(* last the squash hints.                                                  *)
(***************************************************************************)
EXTENDS DictSquash, FiniteSetTheorems, SequenceTheorems, TLAPS

-----------------------------------------------------------------------------
\* Finite maps and the flat memory.

\* Insert adds one key and changes no other.
LEMMA InsertMap ==
  ASSUME NEW f, NEW k, NEW v
  PROVE  /\ DOMAIN Insert(f, k, v) = DOMAIN f \cup {k}
         /\ Insert(f, k, v)[k] = v
         /\ \A x \in DOMAIN f : x # k => Insert(f, k, v)[x] = f[x]
BY DEF Insert

LEMMA InsertIsMap ==
  ASSUME NEW K, NEW V, NEW f, IsMap(f, K, V), NEW k \in K, NEW v \in V
  PROVE  IsMap(Insert(f, k, v), K, V)
BY DEF IsMap, Insert

LEMMA LookupType ==
  ASSUME NEW K, NEW V, NEW f, IsMap(f, K, V), NEW k, NEW v \in V
  PROVE  Lookup(f, k, v) \in V
BY DEF IsMap, Lookup

LEMMA FeltType ==
  /\ \A n \in Nat : from_u64(n) \in Felt
  /\ \A f \in Felt : low_u64(f) \in Nat
BY DEF Felt, from_u64, low_u64

LEMMA EmptyIsMap ==
  /\ DOMAIN EmptyMap = {}
  /\ \A K, V : IsMap(EmptyMap, K, V)
BY DEF EmptyMap, IsMap

\* Reading and writing memory cells keeps their types.
LEMMA MemoryType ==
  ASSUME NEW m, IsMap(m, Nat, Felt)
  PROVE  /\ \A a : get_felt(m, a) \in Felt /\ get(m, a) \in Nat
         /\ \A a \in Nat, f \in Felt : IsMap(set_felt(m, a, f), Nat, Felt)
         /\ \A a \in Nat, n \in Nat : IsMap(set(m, a, n), Nat, Felt)
<1>1. \A a : get_felt(m, a) \in Felt
  BY LookupType, FeltType DEF get_felt
<1>2. \A a : get(m, a) \in Nat
  BY <1>1, FeltType DEF get
<1>3. \A a \in Nat, f \in Felt : IsMap(set_felt(m, a, f), Nat, Felt)
  BY InsertIsMap DEF set_felt
<1>4. \A a \in Nat, n \in Nat : IsMap(set(m, a, n), Nat, Felt)
  BY InsertIsMap, FeltType DEF set
<1> QED BY <1>1, <1>2, <1>3, <1>4

\* An address belongs to at most the dictionaries whose segments hold it.
LEMMA FindDictBase ==
  ASSUME NEW ptr, NEW base \in find_dict_base(ptr)
  PROVE  \/ base = None
         \/ base \in DOMAIN dicts /\ base <= ptr /\ ptr < base + SEGMENT_SIZE
BY DEF find_dict_base, Owners

-----------------------------------------------------------------------------
\* The shape of the state, one lemma per hint.  It is that of TypeOK without the
\* claim that the frame has a handle of every dictionary: a callee has none of its
\* caller's.

FrameShape ==
  /\ IsMap(memory, Nat, Felt) /\ step \in Nat
  /\ DOMAIN dict_ptr \subseteq DOMAIN dicts
  /\ dict_ptr \in [DOMAIN dict_ptr -> Nat]
  /\ entry \in [DOMAIN dict_ptr -> Keys \cup {None}]
  /\ DOMAIN dict_index \subseteq DOMAIN dict_ptr
  /\ \A d \in DOMAIN dict_index : dict_index[d] \in Nat
Shape == CtxTypeOK /\ LogTypeOK /\ FrameShape

LEMMA InitType == Init => Shape
<1> SUFFICES ASSUME Init PROVE Shape
  OBVIOUS
<1>1. CtxTypeOK
  BY LayoutAssumption, EmptyIsMap DEF Init, CtxTypeOK, EmptyMap
<1>2. LogTypeOK
  BY DEF Init, LogTypeOK
<1>3. IsMap(memory, Nat, Felt)
  <2>1. PICK p \in InfosPtrs : memory = set(EmptyMap, ArenaPtr, p)
    BY DEF Init
  <2> QED BY <2>1, LayoutAssumption, EmptyIsMap, MemoryType
<1>4. FrameShape
  BY <1>3 DEF Init, FrameShape, EmptyMap
<1> QED BY <1>1, <1>2, <1>4 DEF Shape

LEMMA AllocSegmentType == Shape /\ AllocSegment => Shape'
<1> SUFFICES ASSUME Shape, AllocSegment PROVE Shape'
  OBVIOUS
<1> USE DEF AllocSegment, Shape, logVars
<1>1. CtxTypeOK'
  BY LayoutAssumption DEF alloc_segment, CtxTypeOK
<1>2. LogTypeOK'
  BY DEF LogTypeOK
<1>3. FrameShape'
  BY DEF FrameShape
<1> QED BY <1>1, <1>2, <1>3

LEMMA AllocFelt252DictType == Shape /\ AllocFelt252Dict => Shape'
<1> SUFFICES ASSUME Shape, AllocFelt252Dict PROVE Shape'
  OBVIOUS
<1> DEFINE base == next_segment_base
           infos_ptr == get(memory, ArenaPtr)
           n_dicts == get(memory, ArenaPtr + 1)
           info == [idx |-> n_dicts,
                    infos_ptr |-> IF infos_ptr = 0 THEN ArenaPtr + 2 ELSE infos_ptr]
           slot == InfoSlot(info)
           m1 == set(memory, slot, base)
           m2 == set(m1, slot + 1, base)
           m3 == set(m2, slot + 2, base)
<1>1. base \in Nat /\ IsMap(memory, Nat, Felt)
  BY DEF Shape, CtxTypeOK, FrameShape
<1>2. n_dicts \in Nat /\ infos_ptr \in Nat
  BY <1>1, MemoryType
<1>3. info \in [idx : Nat, infos_ptr : Nat]
  BY <1>2, LayoutAssumption
<1>4. slot \in Nat
  <2> HIDE DEF info
  <2> QED BY <1>3 DEF InfoSlot, DICT_INFO_SIZE
<1>5. /\ dicts' = Insert(dicts, base, EmptyMap)
      /\ memory' = set(m3, ArenaPtr + 1, n_dicts + 1)
      /\ dict_arena_info' = Insert(dict_arena_info, base, info)
      /\ dict_ptr' = Insert(dict_ptr, base, base)
      /\ entry' = Insert(entry, base, None)
      /\ step' = step + 1
      /\ next_segment_base' = next_segment_base + SEGMENT_SIZE
      /\ UNCHANGED <<dicts_felt, logVars, dict_index>>
  BY DEF AllocFelt252Dict, alloc_segment
<1> HIDE DEF info, slot, n_dicts, infos_ptr
<1>6. CtxTypeOK'
  <2>1. DOMAIN dicts' = DOMAIN dicts \cup {base}
    BY <1>5, InsertMap
  <2>2. \A d \in DOMAIN dicts' : IsMap(dicts'[d], Nat, Nat)
    BY <1>5, <2>1, EmptyIsMap DEF Shape, CtxTypeOK, Insert
  <2>3. dict_arena_info' \in [DOMAIN dicts' -> [idx : Nat, infos_ptr : Nat]]
    BY <1>3, <1>5, <2>1 DEF Shape, CtxTypeOK, Insert
  <2> QED BY <1>1, <1>5, <2>1, <2>2, <2>3, LayoutAssumption DEF Shape, CtxTypeOK
<1>7. LogTypeOK'
  <2>1. DOMAIN dicts' = DOMAIN dicts \cup {base}
    BY <1>5, InsertMap
  <2>2. owner \in Seq(DOMAIN dicts')
    BY <2>1, SeqMonotonic DEF Shape, LogTypeOK
  <2> QED BY <1>5, <2>2 DEF Shape, LogTypeOK, logVars
<1>8. FrameShape'
  <2>1. IsMap(m1, Nat, Felt)
    BY <1>1, <1>4, MemoryType
  <2>2. IsMap(m2, Nat, Felt)
    BY <1>1, <1>4, <2>1, MemoryType
  <2>3. IsMap(m3, Nat, Felt)
    BY <1>1, <1>4, <2>2, MemoryType
  <2>4. IsMap(memory', Nat, Felt)
    BY <1>2, <1>5, <2>3, MemoryType, LayoutAssumption
  <2>5. DOMAIN dicts' = DOMAIN dicts \cup {base}
    BY <1>5, InsertMap
  <2>6. /\ DOMAIN dict_ptr' = DOMAIN dict_ptr \cup {base}
        /\ dict_ptr' \in [DOMAIN dict_ptr' -> Nat]
        /\ entry' \in [DOMAIN dict_ptr' -> Keys \cup {None}]
    BY <1>1, <1>5 DEF Shape, FrameShape, Insert
  <2> QED BY <1>5, <2>4, <2>5, <2>6 DEF Shape, FrameShape
<1> QED BY <1>6, <1>7, <1>8 DEF Shape

LEMMA EntryInitType ==
  ASSUME NEW d \in DOMAIN dict_ptr, NEW key \in Keys,
         Shape, Felt252DictEntryInit(d, key)
  PROVE  Shape'
<1> DEFINE ptr == dict_ptr[d]
<1>1. ptr \in Nat /\ IsMap(memory, Nat, Felt) /\ key \in Felt
  BY DataAssumption DEF Shape, FrameShape
<1>2. PICK base \in find_dict_base(ptr) :
        memory' = set_felt(set(memory, ptr + 1,
                     Lookup(Lookup(dicts, base, EmptyMap), low_u64(key), 0)), ptr, key)
  BY DEF Felt252DictEntryInit
<1> DEFINE side == Lookup(dicts, base, EmptyMap)
           prev_value == Lookup(side, low_u64(key), 0)
<1>3. IsMap(side, Nat, Nat)
  BY EmptyIsMap DEF Shape, CtxTypeOK, Lookup
<1>4. prev_value \in Nat
  BY <1>3, LookupType
<1>5. IsMap(memory', Nat, Felt)
  <2>1. IsMap(set(memory, ptr + 1, prev_value), Nat, Felt)
    BY <1>1, <1>4, MemoryType
  <2> QED BY <1>1, <1>2, <2>1, MemoryType
<1>6. CtxTypeOK' /\ LogTypeOK'
  BY DEF Felt252DictEntryInit, Shape, CtxTypeOK, LogTypeOK, ctxVars, logVars
<1>7. FrameShape'
  BY <1>5 DEF Felt252DictEntryInit, Shape, FrameShape, ctxVars
<1> QED BY <1>6, <1>7 DEF Shape

LEMMA ArenaIndexType ==
  ASSUME NEW d \in DOMAIN dict_ptr, Shape, GetSegmentArenaIndex(d)
  PROVE  Shape'
<1>1. PICK idx \in Nat : dict_index' = Insert(dict_index, d, idx)
  BY DEF GetSegmentArenaIndex, Shape, CtxTypeOK
<1>2. CtxTypeOK' /\ LogTypeOK'
  BY DEF GetSegmentArenaIndex, Shape, CtxTypeOK, LogTypeOK, ctxVars, logVars
<1>3. FrameShape'
  BY <1>1 DEF GetSegmentArenaIndex, Shape, FrameShape, ctxVars, Insert
<1> QED BY <1>2, <1>3 DEF Shape

\* What Felt252DictEntryUpdate does to an entry whose dictionary is base.
LEMMA LogAccessType ==
  ASSUME Shape, NEW m, IsMap(m, Nat, Felt), NEW ptr \in Nat,
         NEW base \in DOMAIN dicts, NEW d \in DOMAIN dicts, LogAccess(m, ptr, base),
         next_segment_base' = next_segment_base, dict_arena_info' = dict_arena_info,
         owner' = Append(owner, d)
  PROVE  CtxTypeOK' /\ LogTypeOK' /\ DOMAIN dicts' = DOMAIN dicts
<1> DEFINE key_felt == get_felt(m, ptr)
           new_felt == get_felt(m, ptr + 2)
           key == low_u64(key_felt)
           new_value == low_u64(new_felt)
           prev_value == Lookup(dicts[base], key, 0)
           side_felt == Lookup(dicts_felt, base, EmptyMap)
           prev_felt == Lookup(side_felt, key_felt, from_u64(prev_value))
           access == [step |-> step, key |-> key, prev |-> prev_value, new |-> new_value]
           access_felt == [step |-> step, key |-> key_felt,
                           prev |-> prev_felt, new |-> new_felt]
<1>1. key_felt \in Felt /\ new_felt \in Felt
  BY MemoryType
<1>2. key \in Nat /\ new_value \in Nat
  BY <1>1, FeltType
<1>3. prev_value \in Nat
  BY LookupType DEF Shape, CtxTypeOK
<1>4. IsMap(side_felt, Felt, Felt)
  BY EmptyIsMap DEF Shape, CtxTypeOK, Lookup
<1>5. prev_felt \in Felt
  BY <1>3, <1>4, LookupType, FeltType
<1>6. step \in Nat
  BY DEF Shape, FrameShape
<1>7. PushAccess(ptr, access, access_felt) /\ UpdateSideState(base, access, access_felt)
  BY DEF LogAccess
<1> HIDE DEF key_felt, new_felt, key, new_value, prev_value, side_felt, prev_felt
<1>8. access \in Access(Nat) /\ access_felt \in Access(Felt)
  BY <1>1, <1>2, <1>3, <1>5, <1>6 DEF Access
<1>9. /\ dicts' = Insert(dicts, base, Insert(dicts[base], key, new_value))
      /\ dicts_felt' = Insert(dicts_felt, base, Insert(side_felt, key_felt, new_felt))
  BY <1>7 DEF UpdateSideState, side_felt
<1>10. DOMAIN dicts' = DOMAIN dicts
  BY <1>9 DEF Insert
<1>11. CtxTypeOK'
  <2>1. IsMap(Insert(dicts[base], key, new_value), Nat, Nat)
    BY <1>2, InsertIsMap DEF Shape, CtxTypeOK
  <2>2. \A x \in DOMAIN dicts' : IsMap(dicts'[x], Nat, Nat)
    BY <1>9, <1>10, <2>1 DEF Shape, CtxTypeOK, Insert
  <2>3. IsMap(Insert(side_felt, key_felt, new_felt), Felt, Felt)
    BY <1>1, <1>4, InsertIsMap
  <2>4. /\ DOMAIN dicts_felt' = DOMAIN dicts_felt \cup {base}
        /\ \A x \in DOMAIN dicts_felt' : IsMap(dicts_felt'[x], Felt, Felt)
    BY <1>9, <2>3 DEF Shape, CtxTypeOK, Insert
  <2> QED BY <1>10, <2>2, <2>4 DEF Shape, CtxTypeOK
<1>12. LogTypeOK'
  <2>1. ptr % PtrWidth \in 0 .. PtrWidth - 1
    BY LayoutAssumption
  <2> HIDE DEF access, access_felt
  <2> QED BY <1>7, <1>8, <1>10, <2>1 DEF PushAccess, Shape, LogTypeOK
<1> QED BY <1>10, <1>11, <1>12

LEMMA EntryUpdateType ==
  ASSUME NEW d \in DOMAIN dict_ptr, NEW new \in Values,
         Shape, Felt252DictEntryUpdate(d, new)
  PROVE  Shape'
<1> DEFINE ptr == dict_ptr[d]
           stored == set_felt(memory, ptr + 2, new)
           advanced == ptr + ENTRY_SIZE
<1>1. ptr \in Nat /\ advanced \in Nat /\ d \in DOMAIN dicts /\ new \in Felt
  BY DataAssumption DEF Shape, FrameShape, ENTRY_SIZE
<1>2. IsMap(stored, Nat, Felt)
  <2>1. IsMap(memory, Nat, Felt) /\ ptr + 2 \in Nat
    BY <1>1 DEF Shape, FrameShape
  <2> QED BY <1>1, <2>1, MemoryType
<1>3. PICK base \in find_dict_base(ptr) :
        /\ IF base = None
           THEN UNCHANGED <<dicts, dicts_felt, dict_accesses,
                            dict_access_pointers, dict_accesses_felt>>
           ELSE LogAccess(stored, ptr, base)
        /\ owner' = IF base = None THEN owner ELSE Append(owner, d)
        /\ memory' = IF base \in DOMAIN dict_arena_info
                     THEN set(stored, InfoSlot(dict_arena_info[base]) + 1, advanced)
                     ELSE stored
  BY DEF Felt252DictEntryUpdate
<1>4. /\ dict_ptr' = [dict_ptr EXCEPT ![d] = advanced]
      /\ entry' = [entry EXCEPT ![d] = None]
      /\ step' = step + 1
      /\ UNCHANGED <<next_segment_base, dict_arena_info, dict_index>>
  BY DEF Felt252DictEntryUpdate
<1> HIDE DEF stored, advanced
<1>5. CtxTypeOK' /\ LogTypeOK' /\ DOMAIN dicts' = DOMAIN dicts
  <2>1. CASE base = None
    BY <1>3, <1>4, <2>1 DEF Shape, CtxTypeOK, LogTypeOK
  <2>2. CASE base # None
    <3>1. base \in DOMAIN dicts
      BY <2>2, FindDictBase
    <3> QED BY <1>1, <1>2, <1>3, <1>4, <2>2, <3>1, LogAccessType
  <2> QED BY <2>1, <2>2
<1>6. IsMap(memory', Nat, Felt)
  <2>1. CASE base \in DOMAIN dict_arena_info
    <3>1. InfoSlot(dict_arena_info[base]) + 1 \in Nat
      BY <2>1 DEF Shape, CtxTypeOK, InfoSlot, DICT_INFO_SIZE
    <3> QED BY <1>1, <1>2, <1>3, <2>1, <3>1, MemoryType
  <2>2. CASE base \notin DOMAIN dict_arena_info
    BY <1>2, <1>3, <2>2
  <2> QED BY <2>1, <2>2
<1>7. FrameShape'
  BY <1>1, <1>4, <1>5, <1>6 DEF Shape, FrameShape
<1> QED BY <1>5, <1>7 DEF Shape

\* An update makes and drops no dictionary.
LEMMA EntryUpdateKeepsDicts ==
  ASSUME NEW d \in DOMAIN dict_ptr, NEW new \in Values, Felt252DictEntryUpdate(d, new)
  PROVE  DOMAIN dicts' = DOMAIN dicts
<1>1. PICK base \in find_dict_base(dict_ptr[d]) :
        IF base = None THEN dicts' = dicts
        ELSE \E a, f : UpdateSideState(base, a, f)
  BY DEF Felt252DictEntryUpdate, LogAccess
<1>2. base # None => base \in DOMAIN dicts
  BY FindDictBase
<1> QED BY <1>1, <1>2 DEF UpdateSideState, Insert

LEMMA NextType == Shape /\ [Next]_vars => Shape'
<1> SUFFICES ASSUME Shape, [Next]_vars PROVE Shape'
  OBVIOUS
<1>1. CASE AllocSegment
  BY <1>1, AllocSegmentType
<1>2. CASE AllocFelt252Dict
  BY <1>2, AllocFelt252DictType
<1>3. CASE \E d \in DOMAIN dict_ptr, key \in Keys : Felt252DictEntryInit(d, key)
  BY <1>3, EntryInitType
<1>4. CASE \E d \in DOMAIN dict_ptr, new \in Values : Felt252DictEntryUpdate(d, new)
  BY <1>4, EntryUpdateType
<1>5. CASE \E d \in DOMAIN dict_ptr : GetSegmentArenaIndex(d)
  BY <1>5, ArenaIndexType
<1>6. CASE UNCHANGED vars
  BY <1>6 DEF vars, ctxVars, logVars, frameVars, Shape, CtxTypeOK, LogTypeOK, FrameShape
<1> QED BY <1>1, <1>2, <1>3, <1>4, <1>5, <1>6 DEF Next

-----------------------------------------------------------------------------
\* Segments and the pointers into them.

\* Segments lie side by side, and the handles of a frame in their own.
HandlesInside(handles, open) ==
  \A d \in DOMAIN handles :
    /\ d <= handles[d]
    /\ StayInSegment => handles[d] + (IF open[d] = None THEN 0 ELSE ENTRY_SIZE)
                         <= d + SEGMENT_SIZE
SegmentsOwned ==
  /\ \A d \in DOMAIN dicts : d + SEGMENT_SIZE <= next_segment_base
  /\ \A d, e \in DOMAIN dicts :
       d # e => d + SEGMENT_SIZE <= e \/ e + SEGMENT_SIZE <= d
  /\ HandlesInside(dict_ptr, entry)

LEMMA FreshBase ==
  ASSUME Shape, SegmentsOwned
  PROVE  next_segment_base \notin DOMAIN dicts
BY LayoutAssumption DEF Shape, CtxTypeOK, SegmentsOwned

\* The pointer of an open entry leads back to its dictionary and to no other.
LEMMA OneOwner ==
  ASSUME StayInSegment, Shape, SegmentsOwned,
         NEW d \in DOMAIN dict_ptr, entry[d] # None
  PROVE  find_dict_base(dict_ptr[d]) = {d}
<1>1. /\ d \in Nat /\ dict_ptr[d] \in Nat /\ DOMAIN dicts \subseteq Nat
      /\ d \in DOMAIN dicts
  BY DEF Shape, CtxTypeOK, FrameShape
<1>2. d <= dict_ptr[d] /\ dict_ptr[d] + 3 <= d + SEGMENT_SIZE
  BY DEF SegmentsOwned, HandlesInside, ENTRY_SIZE
<1>3. d \in Owners(dict_ptr[d])
  BY <1>1, <1>2, LayoutAssumption DEF Owners
<1>4. ASSUME NEW e \in Owners(dict_ptr[d]) PROVE e = d
  BY <1>1, <1>2, <1>4, LayoutAssumption DEF Owners, SegmentsOwned
<1> QED BY <1>3, <1>4 DEF find_dict_base

LEMMA SegmentsStep ==
  Shape /\ SegmentsOwned /\ [Next]_vars => SegmentsOwned'
<1> SUFFICES ASSUME Shape, SegmentsOwned, [Next]_vars PROVE SegmentsOwned'
  OBVIOUS
<1> USE LayoutAssumption DEF SegmentsOwned, HandlesInside
<1>0. /\ next_segment_base \in Nat /\ DOMAIN dicts \subseteq Nat
      /\ DOMAIN dict_ptr \subseteq DOMAIN dicts /\ DOMAIN entry = DOMAIN dict_ptr
      /\ \A d \in DOMAIN dict_ptr : dict_ptr[d] \in Nat
  BY DEF Shape, CtxTypeOK, FrameShape
<1>1. CASE AllocSegment
  BY <1>0, <1>1 DEF AllocSegment, alloc_segment
<1>2. CASE AllocFelt252Dict
  <2> DEFINE base == next_segment_base
  <2>1. /\ dicts' = Insert(dicts, base, EmptyMap)
        /\ dict_ptr' = Insert(dict_ptr, base, base)
        /\ entry' = Insert(entry, base, None)
        /\ next_segment_base' = base + SEGMENT_SIZE
    BY <1>2 DEF AllocFelt252Dict, alloc_segment
  <2>2. /\ DOMAIN dicts' = DOMAIN dicts \cup {base}
        /\ DOMAIN dict_ptr' = DOMAIN dict_ptr \cup {base}
        /\ dict_ptr'[base] = base /\ entry'[base] = None
        /\ \A d \in DOMAIN dict_ptr : d # base => /\ dict_ptr'[d] = dict_ptr[d]
                                                 /\ entry'[d] = entry[d]
    BY <1>0, <2>1 DEF Insert
  <2>3. \A d \in DOMAIN dicts : d + SEGMENT_SIZE <= base /\ d # base
    BY <1>0
  <2>4. \A d \in DOMAIN dicts' : d + SEGMENT_SIZE <= next_segment_base'
    BY <1>0, <2>1, <2>2, <2>3
  <2>5. ASSUME NEW d \in DOMAIN dict_ptr'
        PROVE  /\ d <= dict_ptr'[d]
               /\ StayInSegment => dict_ptr'[d] + (IF entry'[d] = None THEN 0 ELSE ENTRY_SIZE)
                                    <= d + SEGMENT_SIZE
    <3>1. CASE d = base
      BY <1>0, <2>1, <2>2, <3>1
    <3>2. CASE d \in DOMAIN dict_ptr
      <4>1. d # base /\ dict_ptr'[d] = dict_ptr[d] /\ entry'[d] = entry[d]
        BY <1>0, <2>2, <2>3, <3>2
      <4> QED BY <3>2, <4>1
    <3> QED BY <2>2, <3>1, <3>2
  <2>6. ASSUME NEW d \in DOMAIN dicts', NEW e \in DOMAIN dicts', d # e
        PROVE  d + SEGMENT_SIZE <= e \/ e + SEGMENT_SIZE <= d
    BY <1>0, <2>2, <2>3, <2>6
  <2> QED BY <2>4, <2>5, <2>6
<1>3. ASSUME NEW d \in DOMAIN dict_ptr, NEW key \in Keys, Felt252DictEntryInit(d, key)
      PROVE  SegmentsOwned'
  <2>1. /\ UNCHANGED <<ctxVars, dict_ptr>>
        /\ entry' = [entry EXCEPT ![d] = key]
        /\ StayInSegment => dict_ptr[d] + ENTRY_SIZE <= d + SEGMENT_SIZE
    BY <1>3 DEF Felt252DictEntryInit
  <2> QED BY <1>0, <2>1 DEF ctxVars, ENTRY_SIZE
<1>4. ASSUME NEW d \in DOMAIN dict_ptr, NEW new \in Values, Felt252DictEntryUpdate(d, new)
      PROVE  SegmentsOwned'
  <2>1. /\ dict_ptr' = [dict_ptr EXCEPT ![d] = dict_ptr[d] + ENTRY_SIZE]
        /\ entry' = [entry EXCEPT ![d] = None] /\ entry[d] # None
        /\ next_segment_base' = next_segment_base
    BY <1>4 DEF Felt252DictEntryUpdate
  <2>2. DOMAIN dicts' = DOMAIN dicts
    BY <1>4, EntryUpdateKeepsDicts
  <2> QED BY <1>0, <2>1, <2>2 DEF ENTRY_SIZE
<1>5. ASSUME NEW d \in DOMAIN dict_ptr, GetSegmentArenaIndex(d)
      PROVE  SegmentsOwned'
  BY <1>5 DEF GetSegmentArenaIndex, ctxVars
<1>6. CASE UNCHANGED vars
  BY <1>6 DEF vars, ctxVars, frameVars
<1> QED BY <1>1, <1>2, <1>3, <1>4, <1>5, <1>6 DEF Next

\* In the program's own frame every dictionary has its handle.
AllHandles == DOMAIN dict_ptr = DOMAIN dicts

LEMMA HandlesStep == Shape /\ AllHandles /\ [Next]_vars => AllHandles'
<1> SUFFICES ASSUME Shape, AllHandles, [Next]_vars PROVE AllHandles'
  OBVIOUS
<1>1. CASE AllocFelt252Dict
  <2>1. /\ dicts' = Insert(dicts, next_segment_base, EmptyMap)
        /\ dict_ptr' = Insert(dict_ptr, next_segment_base, next_segment_base)
    BY <1>1 DEF AllocFelt252Dict
  <2> QED BY <2>1 DEF AllHandles, Insert
<1>2. ASSUME NEW d \in DOMAIN dict_ptr, NEW new \in Values, Felt252DictEntryUpdate(d, new)
      PROVE  AllHandles'
  <2>1. dict_ptr' = [dict_ptr EXCEPT ![d] = dict_ptr[d] + ENTRY_SIZE]
    BY <1>2 DEF Felt252DictEntryUpdate
  <2> QED BY <1>2, <2>1, EntryUpdateKeepsDicts DEF AllHandles
<1>3. CASE ~ AllocFelt252Dict /\
           ~ \E d \in DOMAIN dict_ptr, new \in Values : Felt252DictEntryUpdate(d, new)
  BY <1>3 DEF Next, vars, ctxVars, frameVars, AllocSegment, Felt252DictEntryInit,
     GetSegmentArenaIndex, AllHandles
<1> QED BY <1>1, <1>2, <1>3

\* What holds of the hints in every state of their own program.
Inductive == Shape /\ SegmentsOwned

LEMMA InductiveInit == Init => Inductive /\ AllHandles
<1> SUFFICES ASSUME Init PROVE Inductive /\ AllHandles
  OBVIOUS
<1>1. DOMAIN dicts = {} /\ DOMAIN dict_ptr = {}
  BY DEF Init, EmptyMap
<1> QED BY <1>1, InitType DEF Inductive, AllHandles, SegmentsOwned, HandlesInside

LEMMA InductiveStep == Inductive /\ [Next]_vars => Inductive'
BY NextType, SegmentsStep DEF Inductive

LEMMA InductiveAlways == Spec => [](Inductive /\ AllHandles)
<1>1. Inductive /\ AllHandles /\ [Next]_vars => (Inductive /\ AllHandles)'
  BY InductiveStep, HandlesStep DEF Inductive
<1> QED BY <1>1, InductiveInit, PTL DEF Spec

\* Every reachable state of the hints is well-typed: the side-states are maps over
\* the dictionaries handed out and the logs stay parallel.
THEOREM TypeCorrect == Spec => []TypeOK
<1>1. Inductive /\ AllHandles => TypeOK
  BY DEF Inductive, AllHandles, Shape, FrameShape, TypeOK, FrameTypeOK
<1> QED BY <1>1, InductiveAlways, PTL

\* No two dictionaries ever share a cell, and no handle leaves its segment as long
\* as the program leaves room for the entries it opens.
THEOREM SegmentsCorrect == Spec => []SegmentsAreOwned
<1>1. Inductive /\ AllHandles => SegmentsAreOwned
  BY DEF Inductive, AllHandles, SegmentsOwned, HandlesInside, SegmentsAreOwned
<1> QED BY <1>1, InductiveAlways, PTL

-----------------------------------------------------------------------------
\* The log and the side-state it is the history of.

\* An entry update logs one access of its own dictionary: it starts from the
\* side-state and becomes it.
LEMMA UpdateLogs ==
  ASSUME StayInSegment, Inductive, NEW d \in DOMAIN dict_ptr, NEW new \in Values,
         Felt252DictEntryUpdate(d, new)
  PROVE  \E key \in Nat, value \in Nat :
           /\ dict_accesses' = Append(dict_accesses,
                [step |-> step, key |-> key,
                 prev |-> Lookup(dicts[d], key, 0), new |-> value])
           /\ dicts' = Insert(dicts, d, Insert(dicts[d], key, value))
           /\ owner' = Append(owner, d)
<1> DEFINE ptr == dict_ptr[d]
           stored == set_felt(memory, ptr + 2, new)
           key == low_u64(get_felt(stored, ptr))
           value == low_u64(get_felt(stored, ptr + 2))
<1>1. d \in DOMAIN dicts /\ ptr \in Nat /\ new \in Felt /\ IsMap(memory, Nat, Felt)
  BY DataAssumption DEF Inductive, Shape, FrameShape
<1>2. IsMap(stored, Nat, Felt)
  BY <1>1, MemoryType
<1>3. key \in Nat /\ value \in Nat
  <2> HIDE DEF stored
  <2> QED BY <1>2, MemoryType, FeltType
<1>4. entry[d] # None /\ d # None
  BY <1>1, DataAssumption DEF Felt252DictEntryUpdate, Inductive, Shape, CtxTypeOK
<1>5. find_dict_base(ptr) = {d}
  BY <1>1, <1>4, OneOwner DEF Inductive
<1>6. LogAccess(stored, ptr, d) /\ owner' = Append(owner, d)
  BY <1>4, <1>5 DEF Felt252DictEntryUpdate
<1>7. /\ dict_accesses' = Append(dict_accesses,
           [step |-> step, key |-> key, prev |-> Lookup(dicts[d], key, 0), new |-> value])
      /\ dicts' = Insert(dicts, d, Insert(dicts[d], key, value))
  BY <1>6 DEF LogAccess, PushAccess, UpdateSideState
<1> HIDE DEF key, value
<1> QED BY <1>3, <1>6, <1>7

\* No other hint touches the log; one may start an empty dictionary.
LEMMA OthersDoNotLog ==
  ASSUME Inductive, [Next]_vars,
         ~ \E d \in DOMAIN dict_ptr, new \in Values : Felt252DictEntryUpdate(d, new)
  PROVE  /\ UNCHANGED <<dict_accesses, owner>>
         /\ \/ UNCHANGED dicts
            \/ dicts' = Insert(dicts, next_segment_base, EmptyMap)
BY DEF Next, vars, ctxVars, logVars, AllocSegment, AllocFelt252Dict,
       Felt252DictEntryInit, GetSegmentArenaIndex

\* What an append does to the accesses of each dictionary.
LEMMA AppendAccess ==
  ASSUME Inductive, NEW d \in DOMAIN dicts, NEW a,
         dict_accesses' = Append(dict_accesses, a), owner' = Append(owner, d)
  PROVE  /\ Len(dict_accesses) \in Nat /\ Len(owner) = Len(dict_accesses)
         /\ dict_accesses'[Len(dict_accesses) + 1] = a
         /\ Len(dict_accesses') = Len(dict_accesses) + 1
         /\ \A j \in 1 .. Len(dict_accesses) : /\ dict_accesses'[j] = dict_accesses[j]
                                               /\ owner'[j] = owner[j]
         /\ owner'[Len(dict_accesses) + 1] = d
         /\ AccessesTo(d)' = AccessesTo(d) \cup {Len(dict_accesses) + 1}
         /\ \A e \in DOMAIN dicts : e # d => AccessesTo(e)' = AccessesTo(e)
         /\ \A e : AccessesTo(e) \subseteq 1 .. Len(dict_accesses)
<1> DEFINE n == Len(dict_accesses)
<1>1. n \in Nat /\ Len(owner) = n /\ owner \in Seq(DOMAIN dicts)
      /\ dict_accesses \in Seq(Access(Nat))
  BY DEF Inductive, Shape, LogTypeOK
<1>2. /\ Len(dict_accesses') = n + 1 /\ Len(owner') = n + 1
      /\ dict_accesses'[n + 1] = a /\ owner'[n + 1] = d
      /\ \A j \in 1 .. n : dict_accesses'[j] = dict_accesses[j] /\ owner'[j] = owner[j]
  BY <1>1
<1>3. AccessesTo(d)' = AccessesTo(d) \cup {n + 1}
  BY <1>1, <1>2 DEF AccessesTo
<1>4. \A e \in DOMAIN dicts : e # d => AccessesTo(e)' = AccessesTo(e)
  BY <1>1, <1>2 DEF AccessesTo
<1>5. \A e : AccessesTo(e) \subseteq 1 .. n
  BY <1>1 DEF AccessesTo
<1> QED BY <1>1, <1>2, <1>3, <1>4, <1>5

LEMMA SideStateStep ==
  ASSUME StayInSegment, Inductive, SideStateIsLastWrite, [Next]_vars
  PROVE  SideStateIsLastWrite'
<1>1. ASSUME NEW d \in DOMAIN dict_ptr, NEW new \in Values, Felt252DictEntryUpdate(d, new)
      PROVE  SideStateIsLastWrite'
  <2>0. d \in DOMAIN dicts
    BY DEF Inductive, Shape, FrameShape
  <2>1. PICK key \in Nat, value \in Nat :
           /\ dict_accesses' = Append(dict_accesses,
                [step |-> step, key |-> key,
                 prev |-> Lookup(dicts[d], key, 0), new |-> value])
           /\ dicts' = Insert(dicts, d, Insert(dicts[d], key, value))
           /\ owner' = Append(owner, d)
    BY <1>1, UpdateLogs
  <2> DEFINE n == Len(dict_accesses)
             a == [step |-> step, key |-> key, prev |-> Lookup(dicts[d], key, 0),
                   new |-> value]
  <2>2. /\ n \in Nat
        /\ dict_accesses'[n + 1].key = key /\ dict_accesses'[n + 1].new = value
        /\ \A j \in 1 .. n : dict_accesses'[j] = dict_accesses[j]
        /\ AccessesTo(d)' = AccessesTo(d) \cup {n + 1}
        /\ \A e \in DOMAIN dicts : e # d => AccessesTo(e)' = AccessesTo(e)
        /\ \A e : AccessesTo(e) \subseteq 1 .. n
    <3> HIDE DEF a
    <3>1. a.key = key /\ a.new = value
      BY DEF a
    <3> QED BY <2>0, <2>1, <3>1, AppendAccess DEF a
  <2>3. /\ DOMAIN dicts' = DOMAIN dicts
        /\ \A e \in DOMAIN dicts : e # d => dicts'[e] = dicts[e]
        /\ dicts'[d] = Insert(dicts[d], key, value)
    BY <2>0, <2>1 DEF Insert
  <2>4. ASSUME NEW e \in DOMAIN dicts, e # d
        PROVE  /\ \A j \in AccessesTo(e)' : dict_accesses'[j].key \in DOMAIN dicts'[e]
               /\ \A k \in DOMAIN dicts'[e] : \E j \in AccessesTo(e)' :
                    /\ dict_accesses'[j].key = k /\ dict_accesses'[j].new = dicts'[e][k]
                    /\ \A h \in AccessesTo(e)' : dict_accesses'[h].key = k => h <= j
    <3>1. /\ AccessesTo(e)' = AccessesTo(e) /\ dicts'[e] = dicts[e]
          /\ \A j \in AccessesTo(e) : dict_accesses'[j] = dict_accesses[j]
      BY <2>2, <2>3, <2>4
    <3> QED BY <3>1 DEF SideStateIsLastWrite
  <2>5. \A j \in AccessesTo(d)' : dict_accesses'[j].key \in DOMAIN dicts'[d]
    <3>1. DOMAIN dicts'[d] = DOMAIN dicts[d] \cup {key}
      BY <2>3 DEF Insert
    <3>2. \A j \in AccessesTo(d) : dict_accesses'[j].key \in DOMAIN dicts[d]
      BY <2>0, <2>2 DEF SideStateIsLastWrite
    <3> QED BY <2>2, <3>1, <3>2
  <2>6. ASSUME NEW k \in DOMAIN dicts'[d]
        PROVE  \E j \in AccessesTo(d)' :
                 /\ dict_accesses'[j].key = k /\ dict_accesses'[j].new = dicts'[d][k]
                 /\ \A h \in AccessesTo(d)' : dict_accesses'[h].key = k => h <= j
    <3>1. CASE k = key
      <4>1. dicts'[d][k] = value
        BY <2>3, <3>1 DEF Insert
      <4>2. \A h \in AccessesTo(d)' : h <= n + 1
        BY <2>2
      <4> QED BY <2>2, <3>1, <4>1, <4>2
    <3>2. CASE k # key
      <4>1. k \in DOMAIN dicts[d] /\ dicts'[d][k] = dicts[d][k]
        BY <2>3, <3>2 DEF Insert
      <4>2. PICK j \in AccessesTo(d) :
              /\ dict_accesses[j].key = k /\ dict_accesses[j].new = dicts[d][k]
              /\ \A h \in AccessesTo(d) : dict_accesses[h].key = k => h <= j
        BY <2>0, <4>1 DEF SideStateIsLastWrite
      <4>3. \A h \in AccessesTo(d) : dict_accesses'[h] = dict_accesses[h]
        BY <2>2
      <4> QED BY <2>2, <3>2, <4>1, <4>2, <4>3
    <3> QED BY <3>1, <3>2
  <2> QED BY <2>3, <2>4, <2>5, <2>6 DEF SideStateIsLastWrite
<1>2. CASE ~ \E d \in DOMAIN dict_ptr, new \in Values : Felt252DictEntryUpdate(d, new)
  <2>1. UNCHANGED <<dict_accesses, owner>>
    BY <1>2, OthersDoNotLog
  <2>2. \A e : AccessesTo(e)' = AccessesTo(e)
    BY <2>1 DEF AccessesTo
  <2>3. CASE UNCHANGED dicts
    BY <2>1, <2>2, <2>3 DEF SideStateIsLastWrite
  <2>4. CASE dicts' = Insert(dicts, next_segment_base, EmptyMap)
    <3> DEFINE base == next_segment_base
    <3>1. base \notin DOMAIN dicts
      BY FreshBase DEF Inductive
    <3>2. AccessesTo(base) = {}
      BY <3>1, ElementOfSeq DEF AccessesTo, Inductive, Shape, LogTypeOK
    <3>3. /\ DOMAIN dicts' = DOMAIN dicts \cup {base} /\ dicts'[base] = EmptyMap
          /\ \A e \in DOMAIN dicts : dicts'[e] = dicts[e]
      BY <2>4, <3>1 DEF Insert
    <3> QED BY <2>1, <2>2, <3>1, <3>2, <3>3, EmptyIsMap DEF SideStateIsLastWrite
  <2> QED BY <1>2, <2>3, <2>4, OthersDoNotLog
<1> QED BY <1>1, <1>2

LEMMA ChainStep ==
  ASSUME StayInSegment, Inductive, SideStateIsLastWrite, ChainPerDict, [Next]_vars
  PROVE  ChainPerDict'
<1>1. ASSUME NEW d \in DOMAIN dict_ptr, NEW new \in Values, Felt252DictEntryUpdate(d, new)
      PROVE  ChainPerDict'
  <2>0. d \in DOMAIN dicts
    BY DEF Inductive, Shape, FrameShape
  <2>1. PICK key \in Nat, value \in Nat :
           /\ dict_accesses' = Append(dict_accesses,
                [step |-> step, key |-> key,
                 prev |-> Lookup(dicts[d], key, 0), new |-> value])
           /\ dicts' = Insert(dicts, d, Insert(dicts[d], key, value))
           /\ owner' = Append(owner, d)
    BY <1>1, UpdateLogs
  <2> PICK n : n = Len(dict_accesses)
    OBVIOUS
  <2> DEFINE prev == Lookup(dicts[d], key, 0)
             a == [step |-> step, key |-> key, prev |-> prev, new |-> value]
  <2>2. /\ n \in Nat /\ Len(dict_accesses') = n + 1 /\ Len(owner) = n
        /\ dict_accesses'[n + 1].key = key /\ dict_accesses'[n + 1].prev = prev
        /\ owner'[n + 1] = d
        /\ \A j \in 1 .. n : dict_accesses'[j] = dict_accesses[j] /\ owner'[j] = owner[j]
        /\ AccessesTo(d)' = AccessesTo(d) \cup {n + 1}
        /\ \A e \in DOMAIN dicts : e # d => AccessesTo(e)' = AccessesTo(e)
        /\ \A e : AccessesTo(e) \subseteq 1 .. n
    <3> HIDE DEF a
    <3>1. a.key = key /\ a.prev = prev
      BY DEF a
    <3> QED BY <2>0, <2>1, <3>1, AppendAccess DEF a
  <2>3. ASSUME NEW i \in 1 .. n
        PROVE  /\ Earlier(i)' = Earlier(i)
               /\ \A j \in Earlier(i) : dict_accesses'[j] = dict_accesses[j]
    <3>1. owner[i] \in DOMAIN dicts /\ owner'[i] = owner[i]
      BY <2>2, <2>3, ElementOfSeq DEF Inductive, Shape, LogTypeOK
    <3>2. \A j : j \in AccessesTo(owner[i])' /\ j < i <=> j \in AccessesTo(owner[i]) /\ j < i
      BY <2>2, <3>1
    <3>3. \A j \in 1 .. n : dict_accesses'[j] = dict_accesses[j]
      BY <2>2
    <3> QED BY <2>2, <3>1, <3>2, <3>3 DEF Earlier, AccessesTo
  <2>4. ASSUME NEW i \in 1 .. n
        PROVE  \/ Earlier(i)' = {} /\ dict_accesses'[i].prev = 0
               \/ \E j \in Earlier(i)' : /\ \A h \in Earlier(i)' : h <= j
                                        /\ dict_accesses'[i].prev = dict_accesses'[j].new
    <3>1. dict_accesses'[i] = dict_accesses[i]
      BY <2>2
    <3> QED BY <2>3, <3>1 DEF ChainPerDict
  <2>5. \A j : j \in Earlier(n + 1)' <=> j \in AccessesTo(d) /\ dict_accesses[j].key = key
    BY <2>2 DEF Earlier
  <2>6. \/ Earlier(n + 1)' = {} /\ prev = 0
        \/ \E j \in Earlier(n + 1)' : /\ \A h \in Earlier(n + 1)' : h <= j
                                     /\ prev = dict_accesses'[j].new
    <3>1. CASE key \in DOMAIN dicts[d]
      <4>1. PICK j \in AccessesTo(d) :
              /\ dict_accesses[j].key = key /\ dict_accesses[j].new = dicts[d][key]
              /\ \A h \in AccessesTo(d) : dict_accesses[h].key = key => h <= j
        BY <2>0, <3>1 DEF SideStateIsLastWrite
      <4>2. prev = dict_accesses[j].new
        BY <3>1, <4>1 DEF Lookup
      <4>3. dict_accesses'[j] = dict_accesses[j]
        BY <2>2
      <4> QED BY <2>5, <4>1, <4>2, <4>3
    <3>2. CASE key \notin DOMAIN dicts[d]
      <4>1. \A j \in AccessesTo(d) : dict_accesses[j].key # key
        BY <2>0, <3>2 DEF SideStateIsLastWrite
      <4> QED BY <2>5, <3>2, <4>1 DEF Lookup
    <3> QED BY <3>1, <3>2
  <2> QED BY <2>2, <2>4, <2>6 DEF ChainPerDict
<1>2. CASE ~ \E d \in DOMAIN dict_ptr, new \in Values : Felt252DictEntryUpdate(d, new)
  BY <1>2, OthersDoNotLog DEF ChainPerDict, Earlier, AccessesTo
<1> QED BY <1>1, <1>2

LEMMA LogCompleteStep ==
  ASSUME StayInSegment, Inductive, AllHandles, LogComplete, [Next]_vars
  PROVE  LogComplete'
<1>0. DOMAIN dict_ptr = DOMAIN dicts /\ \A d \in DOMAIN dicts : dict_ptr[d] \in Nat
  BY DEF Inductive, AllHandles, Shape, FrameShape
<1>1. ASSUME NEW d \in DOMAIN dict_ptr, NEW new \in Values, Felt252DictEntryUpdate(d, new)
      PROVE  LogComplete'
  <2>1. PICK key \in Nat, value \in Nat :
           /\ dict_accesses' = Append(dict_accesses,
                [step |-> step, key |-> key,
                 prev |-> Lookup(dicts[d], key, 0), new |-> value])
           /\ dicts' = Insert(dicts, d, Insert(dicts[d], key, value))
           /\ owner' = Append(owner, d)
    BY <1>1, UpdateLogs
  <2> DEFINE n == Len(dict_accesses)
  <2>2. /\ n \in Nat
        /\ AccessesTo(d)' = AccessesTo(d) \cup {n + 1}
        /\ \A e \in DOMAIN dicts : e # d => AccessesTo(e)' = AccessesTo(e)
        /\ AccessesTo(d) \subseteq 1 .. n
    BY <1>0, <2>1, AppendAccess
  <2>3. DOMAIN dicts' = DOMAIN dicts
    BY <1>0, <2>1 DEF Insert
  <2>4. dict_ptr' = [dict_ptr EXCEPT ![d] = dict_ptr[d] + ENTRY_SIZE]
    BY <1>1 DEF Felt252DictEntryUpdate
  <2>5. IsFiniteSet(AccessesTo(d))
    <3>1. IsFiniteSet(1 .. n)
      BY <2>2, FS_Interval
    <3> QED BY <2>2, <3>1, FS_Subset
  <2>6. Cardinality(AccessesTo(d)) \in Nat /\ n + 1 \notin AccessesTo(d)
    BY <2>2, <2>5, FS_CardinalityType
  <2>7. Cardinality(AccessesTo(d)') = Cardinality(AccessesTo(d)) + 1
    <3>1. Cardinality(AccessesTo(d) \cup {n + 1}) = Cardinality(AccessesTo(d)) + 1
      BY <2>5, <2>6, FS_AddElement
    <3> QED BY <2>2, <3>1
  <2>8. dict_ptr'[d] = d + ENTRY_SIZE * Cardinality(AccessesTo(d)')
    <3>1. d \in Nat /\ dict_ptr[d] = d + 3 * Cardinality(AccessesTo(d))
      BY <1>0 DEF LogComplete, ENTRY_SIZE, Inductive, Shape, CtxTypeOK
    <3> HIDE DEF n
    <3> QED BY <1>0, <2>4, <2>6, <2>7, <3>1 DEF ENTRY_SIZE
  <2>9. ASSUME NEW e \in DOMAIN dicts, e # d
        PROVE  dict_ptr'[e] = e + ENTRY_SIZE * Cardinality(AccessesTo(e)')
    BY <1>0, <2>2, <2>4, <2>9 DEF LogComplete
  <2> QED BY <2>3, <2>8, <2>9 DEF LogComplete
<1>2. CASE ~ \E d \in DOMAIN dict_ptr, new \in Values : Felt252DictEntryUpdate(d, new)
  <2>1. \A e : AccessesTo(e)' = AccessesTo(e)
    BY <1>2, OthersDoNotLog DEF AccessesTo
  <2>2. CASE AllocFelt252Dict
    <3> PICK base : base = next_segment_base
      OBVIOUS
    <3>1. base \notin DOMAIN dicts /\ base \in Nat
      BY FreshBase DEF Inductive, Shape, CtxTypeOK
    <3>2. AccessesTo(base) = {}
      BY <3>1, ElementOfSeq DEF AccessesTo, Inductive, Shape, LogTypeOK
    <3>3. /\ DOMAIN dicts' = DOMAIN dicts \cup {base} /\ dict_ptr'[base] = base
          /\ \A e \in DOMAIN dicts : dict_ptr'[e] = dict_ptr[e]
      <4>1. dicts' = Insert(dicts, base, EmptyMap) /\ dict_ptr' = Insert(dict_ptr, base, base)
        BY <2>2 DEF AllocFelt252Dict
      <4> QED BY <1>0, <3>1, <4>1 DEF Insert
    <3>4. dict_ptr'[base] = base + ENTRY_SIZE * Cardinality(AccessesTo(base)')
      BY <2>1, <3>1, <3>2, <3>3, FS_EmptySet DEF ENTRY_SIZE
    <3> QED BY <2>1, <3>3, <3>4 DEF LogComplete
  <2>3. CASE ~ AllocFelt252Dict
    <3>1. UNCHANGED <<dicts, dict_ptr>>
      BY <1>2, <2>3 DEF Next, vars, ctxVars, frameVars, AllocSegment,
         Felt252DictEntryInit, GetSegmentArenaIndex
    <3> QED BY <2>1, <3>1 DEF LogComplete
  <2> QED BY <2>2, <2>3
<1> QED BY <1>1, <1>2

\* The side-state of each dictionary is what its accesses in the log wrote last,
\* whatever the segment size and the number of dictionaries.
THEOREM SideStateCorrect ==
  ASSUME StayInSegment
  PROVE  Spec => []SideStateIsLastWrite
<1>1. Init => SideStateIsLastWrite
  BY DEF Init, SideStateIsLastWrite, EmptyMap
<1>2. Inductive /\ SideStateIsLastWrite /\ [Next]_vars => SideStateIsLastWrite'
  BY SideStateStep
<1>3. Spec => []Inductive
  BY InductiveAlways, PTL
<1> QED BY <1>1, <1>2, <1>3, PTL DEF Spec

\* Within a dictionary each access starts from what the one before wrote: the
\* chain the prover commits to cannot be broken by the hints.
THEOREM ChainCorrect ==
  ASSUME StayInSegment
  PROVE  Spec => []ChainPerDict
<1>1. Init => ChainPerDict
  BY DEF Init, ChainPerDict
<1>2. Inductive /\ SideStateIsLastWrite /\ ChainPerDict /\ [Next]_vars => ChainPerDict'
  BY ChainStep
<1>3. Spec => []Inductive
  BY InductiveAlways, PTL
<1> QED BY <1>1, <1>2, <1>3, SideStateCorrect, PTL DEF Spec

\* No access is lost: each handle has advanced by one entry per access in the log.
THEOREM LogCompleteCorrect ==
  ASSUME StayInSegment
  PROVE  Spec => []LogComplete
<1>1. Init => LogComplete
  BY DEF Init, LogComplete, EmptyMap
<1>2. Inductive /\ AllHandles /\ LogComplete /\ [Next]_vars => LogComplete'
  BY LogCompleteStep
<1>3. Spec => [](Inductive /\ AllHandles)
  BY InductiveAlways
<1> QED BY <1>1, <1>2, <1>3, PTL DEF Spec

-----------------------------------------------------------------------------
\* The memory the hints share with the program.

\* How a loaded program lays out its memory: the arena's header and a table with
\* room for every dictionary lie below the first segment and do not overlap, and
\* addresses fit the 32 bits dict_access_pointers has for them.
Table(p) == IF p = 0 THEN ArenaPtr + 2 ELSE p
ArenaFits ==
  /\ ArenaPtr + 2 <= SEGMENT_BASE_DEFAULT
  /\ \A p \in InfosPtrs :
       LET end == Table(p) + DICT_INFO_SIZE * MaxSegments IN
       end <= SEGMENT_BASE_DEFAULT /\ (end <= ArenaPtr \/ ArenaPtr + 2 <= Table(p))
PointersFit == SEGMENT_BASE_DEFAULT + MaxSegments * SEGMENT_SIZE <= PtrWidth

-----------------------------------------------------------------------------
\* Reads after writes.

LEMMA ReadWrite ==
  ASSUME NEW m, NEW a, NEW f, NEW b
  PROVE  get_felt(set_felt(m, a, f), b) = IF a = b THEN f ELSE get_felt(m, b)
BY DEF get_felt, set_felt, Lookup, Insert

LEMMA ReadWriteWord ==
  ASSUME NEW m, NEW a, NEW n, NEW b
  PROVE  get_felt(set(m, a, n), b) = IF a = b THEN from_u64(n) ELSE get_felt(m, b)
BY ReadWrite DEF set, set_felt

LEMMA WordOf == \A m, a, n : get_felt(m, a) = from_u64(n) => get(m, a) = n
BY DEF get, from_u64, low_u64

\* The cells a step may change.
WritesOnly(cells) == \A a : a \notin cells => get_felt(memory', a) = get_felt(memory, a)

\* The state beyond the shapes of DictHintsProofs.
Header == get(memory, ArenaPtr)
NDicts == get(memory, ArenaPtr + 1)
Slot(d) == InfoSlot(dict_arena_info[d])

ArenaInv ==
  /\ Header \in InfosPtrs
  /\ \E k \in 0 .. MaxSegments :
       next_segment_base = SEGMENT_BASE_DEFAULT + k * SEGMENT_SIZE /\ NDicts <= k
  /\ \A d \in DOMAIN dicts :
       /\ d \in DictBases
       /\ dict_arena_info[d].infos_ptr = Table(Header)
       /\ dict_arena_info[d].idx < NDicts
       /\ get(memory, Slot(d)) = d
       /\ d \in DOMAIN dict_ptr => get(memory, Slot(d) + 1) = dict_ptr[d]
  /\ \A d, e \in DOMAIN dicts :
       d # e => dict_arena_info[d].idx # dict_arena_info[e].idx

\* An open entry holds its key and the value the key had when it was opened.
OpenInv ==
  \A d \in DOMAIN dict_ptr : entry[d] # None =>
    /\ get_felt(memory, dict_ptr[d]) = entry[d]
    /\ get(memory, dict_ptr[d] + 1) = Lookup(dicts[d], low_u64(entry[d]), 0)

\* Every logged access lies in the part of its segment its handle has left.
BusInv ==
  /\ \A i \in 1 .. Len(owner) :
       /\ owner[i] \in DOMAIN dict_ptr
       /\ owner[i] <= dict_access_pointers[i]
       /\ dict_access_pointers[i] + ENTRY_SIZE <= dict_ptr[owner[i]]
  /\ MemoryBus

\* Segments begin where the arena has ended.
LEMMA BaseBeyondArena ==
  ASSUME NEW d \in DictBases
  PROVE  d \in Nat /\ SEGMENT_BASE_DEFAULT <= d
         /\ d + SEGMENT_SIZE <= SEGMENT_BASE_DEFAULT + MaxSegments * SEGMENT_SIZE
<1>1. PICK i \in 0 .. MaxSegments - 1 : d = SEGMENT_BASE_DEFAULT + i * SEGMENT_SIZE
  BY DEF DictBases
<1>2. i \in Nat /\ i + 1 <= MaxSegments /\ MaxSegments \in Nat /\ SEGMENT_SIZE \in Nat
  BY LayoutAssumption
<1>3. i * SEGMENT_SIZE \in Nat /\ i * SEGMENT_SIZE + SEGMENT_SIZE = (i + 1) * SEGMENT_SIZE
  BY <1>2
<1>4. (i + 1) * SEGMENT_SIZE <= MaxSegments * SEGMENT_SIZE
  BY <1>2
<1> QED BY <1>1, <1>2, <1>3, <1>4, LayoutAssumption

\* The DictInfo of a dictionary lies in the table, apart from the header and from
\* the others'.
LEMMA SlotPlace ==
  ASSUME ArenaFits, Shape, ArenaInv, NEW d \in DOMAIN dicts
  PROVE  /\ Slot(d) \in Nat /\ Slot(d) + 3 <= SEGMENT_BASE_DEFAULT
         /\ Slot(d) + 3 <= ArenaPtr \/ ArenaPtr + 2 <= Slot(d)
         /\ \A e \in DOMAIN dicts : d # e => Slot(e) + 3 <= Slot(d) \/ Slot(d) + 3 <= Slot(e)
<1>1. PICK k \in 0 .. MaxSegments : NDicts <= k
  BY DEF ArenaInv
<1>2. \A e \in DOMAIN dicts :
        dict_arena_info[e].idx \in Nat /\ dict_arena_info[e].idx + 1 <= MaxSegments
  <2> TAKE e \in DOMAIN dicts
  <2>1. dict_arena_info[e].idx \in Nat /\ dict_arena_info[e].idx < NDicts
    BY DEF Shape, CtxTypeOK, ArenaInv
  <2>2. NDicts \in Nat
    BY MemoryType DEF NDicts, Shape, FrameShape
  <2> QED BY <1>1, <2>1, <2>2, LayoutAssumption
<1>3. Header \in InfosPtrs /\ Table(Header) \in Nat
  BY LayoutAssumption DEF ArenaInv, Table
<1>4. \A e \in DOMAIN dicts : Slot(e) = Table(Header) + dict_arena_info[e].idx * 3
  BY DEF Slot, InfoSlot, ArenaInv, DICT_INFO_SIZE
<1>5. /\ Table(Header) + 3 * MaxSegments <= SEGMENT_BASE_DEFAULT
      /\ Table(Header) + 3 * MaxSegments <= ArenaPtr \/ ArenaPtr + 2 <= Table(Header)
  BY <1>3 DEF ArenaFits, DICT_INFO_SIZE
<1>6. \A e \in DOMAIN dicts : d # e => dict_arena_info[d].idx # dict_arena_info[e].idx
  BY DEF ArenaInv
<1> HIDE DEF Header
<1> QED BY <1>2, <1>3, <1>4, <1>5, <1>6, LayoutAssumption

-----------------------------------------------------------------------------
\* What each hint writes.

\* AllocSegment and AllocFelt252Dict move the allocator by a whole segment, and
\* there is room in the table for one more DictInfo.
LEMMA SegmentCount ==
  ASSUME Inductive, ArenaInv, SegmentLeft
  PROVE  \E k \in 0 .. MaxSegments - 1 :
           /\ next_segment_base = SEGMENT_BASE_DEFAULT + k * SEGMENT_SIZE
           /\ next_segment_base + SEGMENT_SIZE = SEGMENT_BASE_DEFAULT + (k + 1) * SEGMENT_SIZE
           /\ NDicts \in 0 .. k
<1>1. PICK k \in 0 .. MaxSegments :
        next_segment_base = SEGMENT_BASE_DEFAULT + k * SEGMENT_SIZE /\ NDicts <= k
  BY DEF ArenaInv
<1>2. NDicts \in Nat
  BY MemoryType DEF NDicts, Inductive, Shape, FrameShape
<1>3. k # MaxSegments
  BY <1>1, LayoutAssumption DEF SegmentLeft
<1>4. k * SEGMENT_SIZE \in Nat /\ k * SEGMENT_SIZE + SEGMENT_SIZE = (k + 1) * SEGMENT_SIZE
  BY LayoutAssumption
<1> HIDE DEF NDicts
<1> QED BY <1>1, <1>2, <1>3, <1>4, LayoutAssumption

LEMMA AllocWrites ==
  ASSUME ArenaFits, Inductive, ArenaInv, AllocFelt252Dict
  PROVE  \E slot \in Nat :
           /\ slot = Table(Header) + NDicts * DICT_INFO_SIZE
           /\ slot + 3 <= SEGMENT_BASE_DEFAULT
           /\ slot + 3 <= ArenaPtr \/ ArenaPtr + 2 <= slot
           /\ WritesOnly({slot, slot + 1, slot + 2, ArenaPtr + 1})
           /\ get(memory', slot) = next_segment_base
           /\ get(memory', slot + 1) = next_segment_base
           /\ NDicts' = NDicts + 1
           /\ dict_arena_info' = Insert(dict_arena_info, next_segment_base,
                                   [idx |-> NDicts, infos_ptr |-> Table(Header)])
<1> DEFINE base == next_segment_base
<1> PICK n : n = NDicts
  OBVIOUS
<1> PICK t : t = Table(Header)
  OBVIOUS
<1> PICK slot : slot = t + n * 3
  OBVIOUS
<1>1. n \in Nat /\ n + 1 <= MaxSegments
  BY SegmentCount, LayoutAssumption DEF AllocFelt252Dict
<1>2. /\ t \in Nat /\ t + 3 * MaxSegments <= SEGMENT_BASE_DEFAULT
      /\ t + 3 * MaxSegments <= ArenaPtr \/ ArenaPtr + 2 <= t
  <2>1. Header \in InfosPtrs /\ t \in Nat
    BY LayoutAssumption DEF ArenaInv, Table
  <2> QED BY <2>1 DEF ArenaFits, DICT_INFO_SIZE
<1>3. /\ slot \in Nat /\ slot + 3 <= SEGMENT_BASE_DEFAULT
      /\ slot + 3 <= ArenaPtr \/ ArenaPtr + 2 <= slot
  BY <1>1, <1>2, LayoutAssumption
<1>4. /\ memory' = set(set(set(set(memory, slot, base), slot + 1, base), slot + 2, base),
                       ArenaPtr + 1, n + 1)
      /\ dict_arena_info' = Insert(dict_arena_info, base, [idx |-> n, infos_ptr |-> t])
  BY DEF AllocFelt252Dict, InfoSlot, DICT_INFO_SIZE, NDicts, Header, Table
<1>5. /\ slot # slot + 1 /\ slot # slot + 2 /\ slot + 1 # slot + 2
      /\ slot # ArenaPtr + 1 /\ slot + 1 # ArenaPtr + 1 /\ slot + 2 # ArenaPtr + 1
  BY <1>3, LayoutAssumption
<1>6. \A a : get_felt(memory', a) =
        IF a = ArenaPtr + 1 THEN from_u64(n + 1)
        ELSE IF a \in {slot, slot + 1, slot + 2} THEN from_u64(base)
        ELSE get_felt(memory, a)
  <2> DEFINE m1 == set(memory, slot, base)
             m2 == set(m1, slot + 1, base)
             m3 == set(m2, slot + 2, base)
  <2>1. \A a : get_felt(m1, a) = IF slot = a THEN from_u64(base) ELSE get_felt(memory, a)
    BY ReadWriteWord
  <2>2. \A a : get_felt(m2, a) = IF slot + 1 = a THEN from_u64(base) ELSE get_felt(m1, a)
    BY ReadWriteWord
  <2>3. \A a : get_felt(m3, a) = IF slot + 2 = a THEN from_u64(base) ELSE get_felt(m2, a)
    BY ReadWriteWord
  <2>4. \A a : get_felt(memory', a) =
          IF ArenaPtr + 1 = a THEN from_u64(n + 1) ELSE get_felt(m3, a)
    BY <1>4, ReadWriteWord
  <2> HIDE DEF m1, m2, m3
  <2> QED BY <1>5, <2>1, <2>2, <2>3, <2>4
<1>7. WritesOnly({slot, slot + 1, slot + 2, ArenaPtr + 1})
  BY <1>6 DEF WritesOnly
<1>8. get(memory', slot) = base /\ get(memory', slot + 1) = base
  BY <1>5, <1>6, WordOf
<1>9. NDicts' = n + 1
  BY <1>6, WordOf DEF NDicts
<1> QED BY <1>3, <1>4, <1>7, <1>8, <1>9 DEF DICT_INFO_SIZE

\* An entry that is opened reads its value from its own dictionary.
LEMMA EntryInitWrites ==
  ASSUME StayInSegment, Inductive, NEW d \in DOMAIN dict_ptr, NEW key \in Keys,
         Felt252DictEntryInit(d, key)
  PROVE  /\ WritesOnly({dict_ptr[d], dict_ptr[d] + 1})
         /\ get_felt(memory', dict_ptr[d]) = key
         /\ get(memory', dict_ptr[d] + 1) = Lookup(dicts[d], low_u64(key), 0)
<1> PICK ptr : ptr = dict_ptr[d]
  OBVIOUS
<1>1. ptr \in Nat /\ d \in DOMAIN dicts
  BY DEF Inductive, Shape, FrameShape
<1>2. find_dict_base(ptr) = {d}
  <2>1. d <= ptr /\ ptr + 3 <= d + SEGMENT_SIZE /\ DOMAIN dicts \subseteq Nat
    BY DEF Felt252DictEntryInit, Inductive, SegmentsOwned, HandlesInside, ENTRY_SIZE,
       Shape, CtxTypeOK
  <2>2. d \in Owners(ptr)
    BY <1>1, <2>1, LayoutAssumption DEF Owners
  <2>3. ASSUME NEW e \in Owners(ptr) PROVE e = d
    BY <1>1, <2>1, <2>3, LayoutAssumption DEF Owners, Inductive, SegmentsOwned
  <2> QED BY <2>2, <2>3 DEF find_dict_base
<1> PICK v : v = Lookup(dicts[d], low_u64(key), 0)
  OBVIOUS
<1>3. memory' = set_felt(set(memory, ptr + 1, v), ptr, key)
  <2>1. Lookup(dicts, d, EmptyMap) = dicts[d]
    BY <1>1 DEF Lookup
  <2> QED BY <1>2, <2>1 DEF Felt252DictEntryInit
<1>4. \A a : get_felt(memory', a) =
        IF a = ptr THEN key ELSE IF a = ptr + 1 THEN from_u64(v) ELSE get_felt(memory, a)
  <2> DEFINE m == set(memory, ptr + 1, v)
  <2>1. \A a : get_felt(m, a) = IF ptr + 1 = a THEN from_u64(v) ELSE get_felt(memory, a)
    BY ReadWriteWord
  <2>2. \A a : get_felt(memory', a) = IF ptr = a THEN key ELSE get_felt(m, a)
    BY <1>3, ReadWrite
  <2> HIDE DEF m
  <2> QED BY <2>1, <2>2
<1>5. get(memory', ptr + 1) = v
  BY <1>1, <1>4, WordOf
<1> QED BY <1>4, <1>5 DEF WritesOnly

\* A finished entry: its new value is stored, its end mirrored, its access logged.
LEMMA EntryUpdateWrites ==
  ASSUME StayInSegment, Inductive, ArenaFits, ArenaInv, OpenInv,
         NEW d \in DOMAIN dict_ptr, NEW new \in Values, Felt252DictEntryUpdate(d, new)
  PROVE  /\ dict_ptr[d] \in Nat /\ d <= dict_ptr[d] /\ SEGMENT_BASE_DEFAULT <= dict_ptr[d]
         /\ dict_ptr[d] + 3 <= d + SEGMENT_SIZE
         /\ WritesOnly({dict_ptr[d] + 2, Slot(d) + 1})
         /\ get_felt(memory', dict_ptr[d] + 2) = new
         /\ get(memory', Slot(d) + 1) = dict_ptr[d] + 3
         /\ owner' = Append(owner, d)
         /\ dict_access_pointers' = Append(dict_access_pointers, dict_ptr[d] % PtrWidth)
         /\ dicts' = Insert(dicts, d, Insert(dicts[d], low_u64(entry[d]), low_u64(new)))
         /\ \E a, f : /\ dict_accesses' = Append(dict_accesses, a)
                      /\ dict_accesses_felt' = Append(dict_accesses_felt, f)
                      /\ a.key = low_u64(entry[d])
                      /\ a.prev = Lookup(dicts[d], low_u64(entry[d]), 0)
                      /\ f.key = entry[d] /\ f.new = new
<1> PICK ptr : ptr = dict_ptr[d]
  OBVIOUS
<1> DEFINE stored == set_felt(memory, ptr + 2, new)
<1>1. ptr \in Nat /\ d \in DOMAIN dicts /\ d \in DOMAIN dict_arena_info /\ d # None
  BY DataAssumption DEF Inductive, Shape, CtxTypeOK, FrameShape
<1>2. entry[d] # None
  BY DEF Felt252DictEntryUpdate
<1>3. d <= ptr /\ ptr + 3 <= d + SEGMENT_SIZE
  BY <1>2 DEF Inductive, SegmentsOwned, HandlesInside, ENTRY_SIZE
<1>4. d \in Nat /\ SEGMENT_BASE_DEFAULT <= d /\ SEGMENT_BASE_DEFAULT <= ptr
  <2>1. d \in DictBases
    BY <1>1 DEF ArenaInv
  <2> QED BY <1>1, <1>3, <2>1, BaseBeyondArena, LayoutAssumption
<1>5. find_dict_base(ptr) = {d}
  BY <1>2, OneOwner DEF Inductive
<1>6. /\ LogAccess(stored, ptr, d) /\ owner' = Append(owner, d)
      /\ memory' = set(stored, Slot(d) + 1, ptr + 3)
  BY <1>1, <1>5 DEF Felt252DictEntryUpdate, Slot, ENTRY_SIZE
<1>7. get_felt(stored, ptr) = entry[d] /\ get_felt(stored, ptr + 2) = new
  <2>1. get_felt(memory, ptr) = entry[d] /\ ptr # ptr + 2
    BY <1>1, <1>2 DEF OpenInv
  <2> QED BY <2>1, ReadWrite
<1>8. Slot(d) \in Nat /\ Slot(d) + 3 <= SEGMENT_BASE_DEFAULT
  BY <1>1, SlotPlace DEF Inductive
<1>9. \A a : get_felt(memory', a) =
        IF a = Slot(d) + 1 THEN from_u64(ptr + 3)
        ELSE IF a = ptr + 2 THEN new ELSE get_felt(memory, a)
  <2>1. \A a : get_felt(stored, a) = IF ptr + 2 = a THEN new ELSE get_felt(memory, a)
    BY ReadWrite
  <2>2. \A a : get_felt(memory', a) =
          IF Slot(d) + 1 = a THEN from_u64(ptr + 3) ELSE get_felt(stored, a)
    BY <1>6, ReadWriteWord
  <2> HIDE DEF stored
  <2> QED BY <2>1, <2>2
<1>10. ptr + 2 # Slot(d) + 1
  BY <1>1, <1>4, <1>8, LayoutAssumption
<1>11. /\ WritesOnly({ptr + 2, Slot(d) + 1})
       /\ get_felt(memory', ptr + 2) = new /\ get(memory', Slot(d) + 1) = ptr + 3
  BY <1>9, <1>10, WordOf DEF WritesOnly
<1> HIDE DEF stored
<1>12. /\ dict_access_pointers' = Append(dict_access_pointers, ptr % PtrWidth)
       /\ dicts' = Insert(dicts, d, Insert(dicts[d], low_u64(entry[d]), low_u64(new)))
       /\ \E a, f : /\ dict_accesses' = Append(dict_accesses, a)
                    /\ dict_accesses_felt' = Append(dict_accesses_felt, f)
                    /\ a.key = low_u64(entry[d])
                    /\ a.prev = Lookup(dicts[d], low_u64(entry[d]), 0)
                    /\ f.key = entry[d] /\ f.new = new
  <2>1. PICK a, f : PushAccess(ptr, a, f) /\ UpdateSideState(d, a, f)
              /\ a.key = low_u64(entry[d]) /\ a.new = low_u64(new)
              /\ a.prev = Lookup(dicts[d], low_u64(entry[d]), 0)
              /\ f.key = entry[d] /\ f.new = new
    BY <1>6, <1>7 DEF LogAccess
  <2> QED BY <2>1 DEF PushAccess, UpdateSideState
<1> QED BY <1>1, <1>3, <1>4, <1>6, <1>11, <1>12

-----------------------------------------------------------------------------
\* The arena mirrors the handles, one step at a time.

LEMMA ArenaInit == ArenaFits /\ Init => ArenaInv /\ OpenInv /\ BusInv
<1> SUFFICES ASSUME ArenaFits, Init PROVE ArenaInv /\ OpenInv /\ BusInv
  OBVIOUS
<1>1. PICK p \in InfosPtrs : memory = set(EmptyMap, ArenaPtr, p)
  BY DEF Init
<1>2. get_felt(memory, ArenaPtr) = from_u64(p) /\ get_felt(memory, ArenaPtr + 1) = from_u64(0)
  <2>1. get_felt(EmptyMap, ArenaPtr + 1) = from_u64(0)
    BY EmptyIsMap DEF get_felt, Lookup
  <2>2. ArenaPtr # ArenaPtr + 1
    BY LayoutAssumption
  <2> QED BY <1>1, <2>1, <2>2, ReadWriteWord
<1>3. Header = p /\ NDicts = 0
  BY <1>2, WordOf DEF Header, NDicts
<1>4. DOMAIN dicts = {} /\ DOMAIN dict_ptr = {} /\ owner = <<>> /\ dict_accesses = <<>>
      /\ next_segment_base = SEGMENT_BASE_DEFAULT + 0 * SEGMENT_SIZE
  BY LayoutAssumption DEF Init, EmptyMap
<1> HIDE DEF Header, NDicts
<1>5. ArenaInv
  <2>1. 0 \in 0 .. MaxSegments
    BY LayoutAssumption
  <2> QED BY <1>3, <1>4, <2>1 DEF ArenaInv
<1>6. OpenInv /\ BusInv
  BY <1>4 DEF OpenInv, BusInv, MemoryBus
<1> QED BY <1>5, <1>6

LEMMA ArenaAlloc ==
  ASSUME ArenaFits, Inductive, ArenaInv, AllocFelt252Dict
  PROVE  ArenaInv'
<1> PICK base : base = next_segment_base
  OBVIOUS
<1>0. base \notin DOMAIN dicts
  BY FreshBase DEF Inductive
<1>1. PICK slot \in Nat :
        /\ slot = Table(Header) + NDicts * DICT_INFO_SIZE
        /\ slot + 3 <= SEGMENT_BASE_DEFAULT
        /\ slot + 3 <= ArenaPtr \/ ArenaPtr + 2 <= slot
        /\ WritesOnly({slot, slot + 1, slot + 2, ArenaPtr + 1})
        /\ get(memory', slot) = base
        /\ get(memory', slot + 1) = base
        /\ NDicts' = NDicts + 1
        /\ dict_arena_info' = Insert(dict_arena_info, base,
                                [idx |-> NDicts, infos_ptr |-> Table(Header)])
  BY AllocWrites
<1>2. PICK k \in 0 .. MaxSegments - 1 :
        /\ base = SEGMENT_BASE_DEFAULT + k * SEGMENT_SIZE
        /\ base + SEGMENT_SIZE = SEGMENT_BASE_DEFAULT + (k + 1) * SEGMENT_SIZE
        /\ NDicts \in 0 .. k
  BY SegmentCount DEF AllocFelt252Dict
<1>3. /\ DOMAIN dicts' = DOMAIN dicts \cup {base}
      /\ dict_ptr'[base] = base
      /\ \A d \in DOMAIN dict_ptr : dict_ptr'[d] = dict_ptr[d]
      /\ DOMAIN dict_ptr' = DOMAIN dict_ptr \cup {base}
      /\ next_segment_base' = base + SEGMENT_SIZE
  <2>1. /\ dicts' = Insert(dicts, base, EmptyMap)
        /\ dict_ptr' = Insert(dict_ptr, base, base)
        /\ next_segment_base' = base + SEGMENT_SIZE
    BY DEF AllocFelt252Dict, alloc_segment
  <2>2. base \notin DOMAIN dict_ptr
    BY <1>0 DEF Inductive, Shape, FrameShape
  <2> QED BY <2>1, <2>2 DEF Insert
<1>4. /\ dict_arena_info'[base] = [idx |-> NDicts, infos_ptr |-> Table(Header)]
      /\ \A d \in DOMAIN dicts : dict_arena_info'[d] = dict_arena_info[d]
  <2>1. DOMAIN dict_arena_info = DOMAIN dicts
    BY DEF Inductive, Shape, CtxTypeOK
  <2> QED BY <1>0, <1>1, <2>1 DEF Insert
<1>5. Header' = Header
  <2>1. ArenaPtr \notin {slot, slot + 1, slot + 2, ArenaPtr + 1}
    BY <1>1, LayoutAssumption
  <2> QED BY <1>1, <2>1 DEF WritesOnly, Header, get
<1>6. Slot(base)' = slot /\ \A d \in DOMAIN dicts : Slot(d)' = Slot(d)
  BY <1>1, <1>4 DEF Slot, InfoSlot
<1>7. ASSUME NEW d \in DOMAIN dicts
      PROVE  /\ dict_arena_info[d].idx \in Nat /\ dict_arena_info[d].idx < NDicts
             /\ get(memory', Slot(d)) = get(memory, Slot(d))
             /\ get(memory', Slot(d) + 1) = get(memory, Slot(d) + 1)
  <2>1. dict_arena_info[d].idx \in Nat /\ dict_arena_info[d].idx < NDicts
    BY DEF Inductive, Shape, CtxTypeOK, ArenaInv
  <2>2. Slot(d) \in Nat /\ (Slot(d) + 3 <= ArenaPtr \/ ArenaPtr + 2 <= Slot(d))
    BY SlotPlace DEF Inductive
  <2>3. Slot(d) + 3 <= slot
    <3>1. Table(Header) \in Nat
      BY LayoutAssumption DEF ArenaInv, Table
    <3>2. Slot(d) = Table(Header) + dict_arena_info[d].idx * 3
      BY DEF Slot, InfoSlot, ArenaInv, DICT_INFO_SIZE
    <3> HIDE DEF NDicts, Header
    <3> QED BY <1>1, <1>2, <2>1, <3>1, <3>2 DEF DICT_INFO_SIZE
  <2>4. /\ Slot(d) \notin {slot, slot + 1, slot + 2, ArenaPtr + 1}
        /\ Slot(d) + 1 \notin {slot, slot + 1, slot + 2, ArenaPtr + 1}
    BY <2>2, <2>3, <1>1, LayoutAssumption
  <2> QED BY <1>1, <2>1, <2>4 DEF WritesOnly, get
<1> HIDE DEF Header, NDicts, Slot
<1>8. Header' \in InfosPtrs
  BY <1>5 DEF ArenaInv
<1>9. \E j \in 0 .. MaxSegments :
        next_segment_base' = SEGMENT_BASE_DEFAULT + j * SEGMENT_SIZE /\ NDicts' <= j
  <2>1. k + 1 \in 0 .. MaxSegments /\ NDicts' <= k + 1
    BY <1>1, <1>2, LayoutAssumption
  <2> QED BY <1>2, <1>3, <2>1
<1>10. \A d \in DOMAIN dicts' :
        /\ d \in DictBases
        /\ dict_arena_info'[d].infos_ptr = Table(Header')
        /\ dict_arena_info'[d].idx < NDicts'
        /\ get(memory', Slot(d)') = d
        /\ d \in DOMAIN dict_ptr' => get(memory', Slot(d)' + 1) = dict_ptr'[d]
  <2>1. base \in DictBases
    BY <1>2 DEF DictBases
  <2>2. /\ dict_arena_info'[base].infos_ptr = Table(Header')
        /\ dict_arena_info'[base].idx < NDicts'
        /\ get(memory', Slot(base)') = base /\ get(memory', Slot(base)' + 1) = dict_ptr'[base]
    BY <1>1, <1>2, <1>3, <1>4, <1>5, <1>6
  <2>3. ASSUME NEW d \in DOMAIN dicts
        PROVE  /\ d \in DictBases
               /\ dict_arena_info'[d].infos_ptr = Table(Header')
               /\ dict_arena_info'[d].idx < NDicts'
               /\ get(memory', Slot(d)') = d
               /\ d \in DOMAIN dict_ptr' => get(memory', Slot(d)' + 1) = dict_ptr'[d]
    <3>1. d # base /\ (d \in DOMAIN dict_ptr' => d \in DOMAIN dict_ptr)
      BY <1>0, <1>3
    <3>2. dict_arena_info[d].idx < NDicts'
      BY <1>1, <1>2, <1>7
    <3> QED BY <1>3, <1>4, <1>5, <1>6, <1>7, <3>1, <3>2 DEF ArenaInv
  <2> QED BY <1>3, <2>1, <2>2, <2>3
<1>11. \A d, e \in DOMAIN dicts' :
         d # e => dict_arena_info'[d].idx # dict_arena_info'[e].idx
  <2>1. \A d \in DOMAIN dicts : dict_arena_info'[d].idx # dict_arena_info'[base].idx
    BY <1>2, <1>4, <1>7
  <2>2. \A d, e \in DOMAIN dicts : d # e => dict_arena_info'[d].idx # dict_arena_info'[e].idx
    BY <1>4 DEF ArenaInv
  <2> QED BY <1>3, <2>1, <2>2
<1> QED BY <1>8, <1>9, <1>10, <1>11 DEF ArenaInv

\* Hints that write only above the arena leave it as it was.
LEMMA ArenaFrame ==
  ASSUME ArenaFits, Inductive, ArenaInv,
         NEW cells, \A a \in cells : a \in Nat /\ SEGMENT_BASE_DEFAULT <= a,
         WritesOnly(cells), UNCHANGED <<dicts, dict_arena_info, dict_ptr>>,
         UNCHANGED next_segment_base \/ AllocSegment
  PROVE  ArenaInv'
<1>1. Header' = Header /\ NDicts' = NDicts
  <2>1. ArenaPtr \notin cells /\ ArenaPtr + 1 \notin cells
    <3>1. ArenaPtr + 2 <= SEGMENT_BASE_DEFAULT
      BY DEF ArenaFits
    <3> QED BY <3>1, LayoutAssumption
  <2> QED BY <2>1 DEF WritesOnly, Header, NDicts, get
<1>2. ASSUME NEW d \in DOMAIN dicts
      PROVE  /\ Slot(d)' = Slot(d)
             /\ get(memory', Slot(d)) = get(memory, Slot(d))
             /\ get(memory', Slot(d) + 1) = get(memory, Slot(d) + 1)
  <2>1. Slot(d) \in Nat /\ Slot(d) + 3 <= SEGMENT_BASE_DEFAULT
    BY SlotPlace DEF Inductive
  <2>2. Slot(d) \notin cells /\ Slot(d) + 1 \notin cells
    <3> HIDE DEF Slot
    <3> QED BY <2>1, LayoutAssumption
  <2> QED BY <2>2 DEF WritesOnly, get, Slot, InfoSlot
<1> HIDE DEF Header, NDicts, Slot
<1>3. \E k \in 0 .. MaxSegments :
        next_segment_base' = SEGMENT_BASE_DEFAULT + k * SEGMENT_SIZE /\ NDicts' <= k
  <2>1. CASE UNCHANGED next_segment_base
    BY <1>1, <2>1 DEF ArenaInv
  <2>2. CASE AllocSegment
    <3>1. PICK k \in 0 .. MaxSegments - 1 :
            /\ next_segment_base + SEGMENT_SIZE = SEGMENT_BASE_DEFAULT + (k + 1) * SEGMENT_SIZE
            /\ NDicts \in 0 .. k
      BY <2>2, SegmentCount DEF AllocSegment
    <3>2. next_segment_base' = SEGMENT_BASE_DEFAULT + (k + 1) * SEGMENT_SIZE
      BY <2>2, <3>1 DEF AllocSegment, alloc_segment
    <3>3. k + 1 \in 0 .. MaxSegments /\ NDicts' <= k + 1
      BY <1>1, <3>1, LayoutAssumption
    <3> QED BY <3>2, <3>3
  <2> QED BY <2>1, <2>2
<1> QED BY <1>1, <1>2, <1>3 DEF ArenaInv

LEMMA ArenaUpdate ==
  ASSUME StayInSegment, Inductive, ArenaFits, ArenaInv, OpenInv,
         NEW d \in DOMAIN dict_ptr, NEW new \in Values, Felt252DictEntryUpdate(d, new)
  PROVE  ArenaInv'
<1> PICK ptr : ptr = dict_ptr[d]
  OBVIOUS
<1>0. d \in DOMAIN dicts
  BY DEF Inductive, Shape, FrameShape
<1>1. /\ ptr \in Nat /\ SEGMENT_BASE_DEFAULT <= ptr
      /\ WritesOnly({ptr + 2, Slot(d) + 1})
      /\ get(memory', Slot(d) + 1) = ptr + 3
  BY EntryUpdateWrites
<1>2. /\ dict_ptr' = [dict_ptr EXCEPT ![d] = ptr + 3]
      /\ UNCHANGED <<next_segment_base, dict_arena_info>>
      /\ DOMAIN dicts' = DOMAIN dicts
  BY EntryUpdateKeepsDicts DEF Felt252DictEntryUpdate, ENTRY_SIZE
<1>3. Slot(d) \in Nat /\ Slot(d) + 3 <= SEGMENT_BASE_DEFAULT
      /\ (Slot(d) + 3 <= ArenaPtr \/ ArenaPtr + 2 <= Slot(d))
  BY <1>0, SlotPlace DEF Inductive
<1>4. Header' = Header /\ NDicts' = NDicts
  <2>1. ArenaPtr + 2 <= SEGMENT_BASE_DEFAULT
    BY DEF ArenaFits
  <2>2. /\ ArenaPtr \notin {ptr + 2, Slot(d) + 1}
        /\ ArenaPtr + 1 \notin {ptr + 2, Slot(d) + 1}
    BY <1>1, <1>3, <2>1, LayoutAssumption
  <2> QED BY <1>1, <2>2 DEF WritesOnly, Header, NDicts, get
<1>5. \A e \in DOMAIN dicts : Slot(e)' = Slot(e)
  BY <1>2 DEF Slot, InfoSlot
<1>6. ASSUME NEW e \in DOMAIN dicts
      PROVE  /\ get(memory', Slot(e)) = get(memory, Slot(e))
             /\ e # d => get(memory', Slot(e) + 1) = get(memory, Slot(e) + 1)
  <2>1. /\ Slot(e) \in Nat /\ Slot(e) + 3 <= SEGMENT_BASE_DEFAULT
        /\ e # d => Slot(e) + 3 <= Slot(d) \/ Slot(d) + 3 <= Slot(e)
    BY <1>0, SlotPlace DEF Inductive
  <2>2. /\ Slot(e) \notin {ptr + 2, Slot(d) + 1}
        /\ e # d => Slot(e) + 1 \notin {ptr + 2, Slot(d) + 1}
    <3> HIDE DEF Slot
    <3> QED BY <1>1, <1>3, <2>1, LayoutAssumption
  <2> QED BY <1>1, <2>2 DEF WritesOnly, get
<1> HIDE DEF Header, NDicts, Slot
<1>7. ASSUME NEW e \in DOMAIN dict_ptr
      PROVE  get(memory', Slot(e) + 1) = dict_ptr'[e]
  <2>1. e \in DOMAIN dicts /\ DOMAIN dict_ptr' = DOMAIN dict_ptr
    BY <1>2 DEF Inductive, Shape, FrameShape
  <2> QED BY <1>1, <1>2, <1>6, <2>1 DEF ArenaInv
<1>8. DOMAIN dict_ptr' = DOMAIN dict_ptr
  BY <1>2
<1> QED BY <1>2, <1>4, <1>5, <1>6, <1>7, <1>8 DEF ArenaInv

LEMMA ArenaStep ==
  ASSUME StayInSegment, ArenaFits, Inductive, ArenaInv, OpenInv, [Next]_vars
  PROVE  ArenaInv'
<1>1. CASE AllocSegment
  <2>1. WritesOnly({}) /\ UNCHANGED <<dicts, dict_arena_info, dict_ptr>>
    BY <1>1 DEF AllocSegment, WritesOnly
  <2> QED BY <1>1, <2>1, ArenaFrame
<1>2. CASE AllocFelt252Dict
  BY <1>2, ArenaAlloc
<1>3. ASSUME NEW d \in DOMAIN dict_ptr, NEW key \in Keys, Felt252DictEntryInit(d, key)
      PROVE  ArenaInv'
  <2>1. WritesOnly({dict_ptr[d], dict_ptr[d] + 1})
    BY <1>3, EntryInitWrites
  <2>2. UNCHANGED <<dicts, dict_arena_info, dict_ptr>> /\ UNCHANGED next_segment_base
    BY <1>3 DEF Felt252DictEntryInit, ctxVars
  <2>3. dict_ptr[d] \in Nat /\ SEGMENT_BASE_DEFAULT <= dict_ptr[d]
    <3>1. d \in DictBases /\ d <= dict_ptr[d] /\ dict_ptr[d] \in Nat
      BY DEF Inductive, Shape, FrameShape, SegmentsOwned, HandlesInside, ArenaInv
    <3> QED BY <3>1, BaseBeyondArena, LayoutAssumption
  <2>4. \A a \in {dict_ptr[d], dict_ptr[d] + 1} : a \in Nat /\ SEGMENT_BASE_DEFAULT <= a
    BY <2>3, LayoutAssumption
  <2> PICK cells : cells = {dict_ptr[d], dict_ptr[d] + 1}
    OBVIOUS
  <2> QED BY <2>1, <2>2, <2>4, ArenaFrame
<1>4. ASSUME NEW d \in DOMAIN dict_ptr, NEW new \in Values, Felt252DictEntryUpdate(d, new)
      PROVE  ArenaInv'
  BY <1>4, ArenaUpdate
<1>5. CASE (\E d \in DOMAIN dict_ptr : GetSegmentArenaIndex(d)) \/ UNCHANGED vars
  <2>1. /\ WritesOnly({}) /\ UNCHANGED <<dicts, dict_arena_info, dict_ptr>>
        /\ UNCHANGED next_segment_base
    BY <1>5 DEF GetSegmentArenaIndex, vars, ctxVars, frameVars, WritesOnly
  <2> QED BY <2>1, ArenaFrame
<1> QED BY <1>1, <1>2, <1>3, <1>4, <1>5 DEF Next

-----------------------------------------------------------------------------
\* Entries stay in the memory they were written to.

\* The entry a handle stands at, when it fits its segment, is above the arena and
\* apart from the open entries of other dictionaries and from every logged entry.
LEMMA EntryPlace ==
  ASSUME StayInSegment, Inductive, ArenaInv, BusInv,
         NEW d \in DOMAIN dict_ptr, dict_ptr[d] + 3 <= d + SEGMENT_SIZE
  PROVE  /\ dict_ptr[d] \in Nat /\ SEGMENT_BASE_DEFAULT <= dict_ptr[d]
         /\ \A e \in DOMAIN dict_ptr : e # d /\ entry[e] # None =>
              /\ dict_ptr[e] \in Nat /\ SEGMENT_BASE_DEFAULT <= dict_ptr[e]
              /\ dict_ptr[e] + 3 <= dict_ptr[d] \/ dict_ptr[d] + 3 <= dict_ptr[e]
         /\ \A i \in 1 .. Len(owner) :
              /\ dict_access_pointers[i] \in Nat
              /\ SEGMENT_BASE_DEFAULT <= dict_access_pointers[i]
              /\ \/ dict_access_pointers[i] + 3 <= dict_ptr[d]
                 \/ dict_ptr[d] + 3 <= dict_access_pointers[i]
<1>1. ASSUME NEW e \in DOMAIN dict_ptr
      PROVE  /\ e \in Nat /\ SEGMENT_BASE_DEFAULT <= e /\ dict_ptr[e] \in Nat /\ e <= dict_ptr[e]
             /\ dict_ptr[e] <= e + SEGMENT_SIZE
             /\ entry[e] # None => dict_ptr[e] + 3 <= e + SEGMENT_SIZE
             /\ e # d => e + SEGMENT_SIZE <= d \/ d + SEGMENT_SIZE <= e
  <2>1. e \in DOMAIN dicts /\ d \in DOMAIN dicts /\ dict_ptr[e] \in Nat
    BY DEF Inductive, Shape, FrameShape
  <2>2. e \in Nat /\ SEGMENT_BASE_DEFAULT <= e
    BY <2>1, BaseBeyondArena DEF ArenaInv
  <2>3. /\ e <= dict_ptr[e]
        /\ dict_ptr[e] + (IF entry[e] = None THEN 0 ELSE 3) <= e + SEGMENT_SIZE
        /\ e # d => e + SEGMENT_SIZE <= d \/ d + SEGMENT_SIZE <= e
    BY <2>1 DEF Inductive, SegmentsOwned, HandlesInside, ENTRY_SIZE
  <2>4. dict_ptr[e] <= e + SEGMENT_SIZE
    BY <2>1, <2>2, <2>3, LayoutAssumption
  <2> QED BY <2>1, <2>2, <2>3, <2>4
<1>2. dict_ptr[d] \in Nat /\ SEGMENT_BASE_DEFAULT <= dict_ptr[d]
  BY <1>1, LayoutAssumption
<1>3. ASSUME NEW e \in DOMAIN dict_ptr, e # d, entry[e] # None
      PROVE  /\ dict_ptr[e] \in Nat /\ SEGMENT_BASE_DEFAULT <= dict_ptr[e]
             /\ dict_ptr[e] + 3 <= dict_ptr[d] \/ dict_ptr[d] + 3 <= dict_ptr[e]
  <2> PICK p, q : p = dict_ptr[d] /\ q = dict_ptr[e]
    OBVIOUS
  <2>1. d \in Nat /\ p \in Nat /\ d <= p /\ p + 3 <= d + SEGMENT_SIZE
    BY <1>1
  <2>2. /\ e \in Nat /\ q \in Nat /\ e <= q /\ q + 3 <= e + SEGMENT_SIZE
        /\ SEGMENT_BASE_DEFAULT <= e
        /\ e + SEGMENT_SIZE <= d \/ d + SEGMENT_SIZE <= e
    BY <1>1, <1>3
  <2> QED BY <2>1, <2>2, LayoutAssumption
<1>4. ASSUME NEW i \in 1 .. Len(owner)
      PROVE  /\ dict_access_pointers[i] \in Nat
             /\ SEGMENT_BASE_DEFAULT <= dict_access_pointers[i]
             /\ \/ dict_access_pointers[i] + 3 <= dict_ptr[d]
                \/ dict_ptr[d] + 3 <= dict_access_pointers[i]
  <2>1. dict_access_pointers[i] \in Nat
    <3>1. /\ dict_access_pointers \in Seq(0 .. PtrWidth - 1)
          /\ Len(dict_access_pointers) = Len(owner)
      BY DEF Inductive, Shape, LogTypeOK
    <3>2. dict_access_pointers[i] \in 0 .. PtrWidth - 1
      BY <3>1, ElementOfSeq
    <3> QED BY <3>2
  <2> PICK e, r : e = owner[i] /\ r = dict_access_pointers[i]
    OBVIOUS
  <2>2. e \in DOMAIN dict_ptr /\ r \in Nat /\ e <= r /\ r + 3 <= dict_ptr[e]
    BY <2>1 DEF BusInv, ENTRY_SIZE
  <2> PICK p, q : p = dict_ptr[d] /\ q = dict_ptr[e]
    OBVIOUS
  <2>3. /\ d \in Nat /\ p \in Nat /\ d <= p /\ p + 3 <= d + SEGMENT_SIZE
        /\ e \in Nat /\ q \in Nat /\ q <= e + SEGMENT_SIZE /\ SEGMENT_BASE_DEFAULT <= e
        /\ e # d => e + SEGMENT_SIZE <= d \/ d + SEGMENT_SIZE <= e
        /\ r + 3 <= q /\ (e = d => q = p)
    BY <1>1, <2>2
  <2>4. SEGMENT_BASE_DEFAULT <= r /\ (r + 3 <= p \/ p + 3 <= r)
    <3>1. CASE e = d
      BY <2>2, <2>3, <3>1, LayoutAssumption
    <3>2. CASE e + SEGMENT_SIZE <= d
      BY <2>2, <2>3, <3>2, LayoutAssumption
    <3>3. CASE d + SEGMENT_SIZE <= e
      BY <2>2, <2>3, <3>3, LayoutAssumption
    <3> QED BY <2>3, <3>1, <3>2, <3>3
  <2> QED BY <2>1, <2>4
<1> QED BY <1>2, <1>3, <1>4

LEMMA Appended ==
  ASSUME NEW s, \E S : s \in Seq(S), NEW x, NEW t, t = Append(s, x)
  PROVE  /\ Len(t) = Len(s) + 1 /\ t[Len(s) + 1] = x
         /\ \A i \in 1 .. Len(s) : t[i] = s[i]
<1> PICK S : s \in Seq(S)
  OBVIOUS
<1>1. s \in Seq(S \cup {x}) /\ x \in S \cup {x}
  BY SeqMonotonic
<1> QED BY <1>1, AppendProperties

\* What an entry update leaves of a log: one more access, the others as they were.
LEMMA LogGrows ==
  ASSUME Inductive, NEW d, NEW a, NEW f, NEW p,
         dict_accesses' = Append(dict_accesses, a), owner' = Append(owner, d),
         dict_accesses_felt' = Append(dict_accesses_felt, f),
         dict_access_pointers' = Append(dict_access_pointers, p)
  PROVE  LET n == Len(owner) IN
         /\ n \in Nat /\ n = Len(dict_accesses)
         /\ Len(owner') = n + 1 /\ Len(dict_accesses') = n + 1
         /\ owner'[n + 1] = d /\ dict_accesses'[n + 1] = a
         /\ dict_accesses_felt'[n + 1] = f /\ dict_access_pointers'[n + 1] = p
         /\ \A i \in 1 .. n : /\ owner'[i] = owner[i]
                              /\ dict_accesses'[i] = dict_accesses[i]
                              /\ dict_accesses_felt'[i] = dict_accesses_felt[i]
                              /\ dict_access_pointers'[i] = dict_access_pointers[i]
<1> DEFINE n == Len(owner)
<1>1. /\ dict_accesses \in Seq(Access(Nat)) /\ owner \in Seq(DOMAIN dicts)
      /\ dict_accesses_felt \in Seq(Access(Felt))
      /\ dict_access_pointers \in Seq(0 .. PtrWidth - 1)
      /\ n = Len(dict_accesses) /\ n = Len(dict_accesses_felt)
      /\ n = Len(dict_access_pointers) /\ n \in Nat
  BY DEF Inductive, Shape, LogTypeOK
<1>2. /\ \E S : owner \in Seq(S)
      /\ \E S : dict_accesses \in Seq(S)
      /\ \E S : dict_accesses_felt \in Seq(S)
      /\ \E S : dict_access_pointers \in Seq(S)
  BY <1>1
<1>3. /\ Len(owner') = Len(owner) + 1 /\ owner'[Len(owner) + 1] = d
      /\ \A i \in 1 .. Len(owner) : owner'[i] = owner[i]
  BY <1>2, Appended
<1>4. /\ Len(dict_accesses') = Len(dict_accesses) + 1
      /\ dict_accesses'[Len(dict_accesses) + 1] = a
      /\ \A i \in 1 .. Len(dict_accesses) : dict_accesses'[i] = dict_accesses[i]
  BY <1>2, Appended
<1>5. /\ dict_accesses_felt'[Len(dict_accesses_felt) + 1] = f
      /\ \A i \in 1 .. Len(dict_accesses_felt) :
           dict_accesses_felt'[i] = dict_accesses_felt[i]
  BY <1>2, Appended
<1>6. /\ dict_access_pointers'[Len(dict_access_pointers) + 1] = p
      /\ \A i \in 1 .. Len(dict_access_pointers) :
           dict_access_pointers'[i] = dict_access_pointers[i]
  BY <1>2, Appended
<1> QED BY <1>1, <1>3, <1>4, <1>5, <1>6

LEMMA OpenStep ==
  ASSUME StayInSegment, ArenaFits, Inductive, ArenaInv, OpenInv, BusInv, [Next]_vars
  PROVE  OpenInv'
<1>0. DOMAIN entry = DOMAIN dict_ptr /\ DOMAIN dict_ptr \subseteq DOMAIN dicts
  BY DEF Inductive, Shape, FrameShape
<1>1. ASSUME NEW d \in DOMAIN dict_ptr, entry[d] # None
      PROVE  /\ dict_ptr[d] \in Nat /\ SEGMENT_BASE_DEFAULT <= dict_ptr[d]
             /\ dict_ptr[d] + 3 <= d + SEGMENT_SIZE
  <2>1. dict_ptr[d] + 3 <= d + SEGMENT_SIZE
    BY <1>1 DEF Inductive, SegmentsOwned, HandlesInside, ENTRY_SIZE
  <2> QED BY <2>1, EntryPlace
<1>2. CASE AllocFelt252Dict
  <2> PICK base : base = next_segment_base
    OBVIOUS
  <2>1. PICK slot \in Nat :
          /\ slot + 3 <= SEGMENT_BASE_DEFAULT
          /\ WritesOnly({slot, slot + 1, slot + 2, ArenaPtr + 1})
    BY <1>2, AllocWrites
  <2>2. base \notin DOMAIN dicts
    BY FreshBase DEF Inductive
  <2>3. /\ DOMAIN dict_ptr' = DOMAIN dict_ptr \cup {base} /\ entry'[base] = None
        /\ \A d \in DOMAIN dict_ptr : /\ dict_ptr'[d] = dict_ptr[d] /\ entry'[d] = entry[d]
                                      /\ dicts'[d] = dicts[d]
    <3>1. /\ dicts' = Insert(dicts, base, EmptyMap)
          /\ dict_ptr' = Insert(dict_ptr, base, base) /\ entry' = Insert(entry, base, None)
      BY <1>2 DEF AllocFelt252Dict
    <3> QED BY <1>0, <2>2, <3>1 DEF Insert
  <2>4. ASSUME NEW d \in DOMAIN dict_ptr, entry[d] # None
        PROVE  /\ get_felt(memory', dict_ptr[d]) = get_felt(memory, dict_ptr[d])
               /\ get(memory', dict_ptr[d] + 1) = get(memory, dict_ptr[d] + 1)
    <3> PICK p : p = dict_ptr[d]
      OBVIOUS
    <3>1. p \in Nat /\ SEGMENT_BASE_DEFAULT <= p /\ ArenaPtr + 2 <= SEGMENT_BASE_DEFAULT
      BY <1>1, <2>4 DEF ArenaFits
    <3>2. /\ p \notin {slot, slot + 1, slot + 2, ArenaPtr + 1}
          /\ p + 1 \notin {slot, slot + 1, slot + 2, ArenaPtr + 1}
      BY <2>1, <3>1, LayoutAssumption
    <3> QED BY <2>1, <3>2 DEF WritesOnly, get
  <2> QED BY <2>3, <2>4 DEF OpenInv
<1>3. ASSUME NEW d \in DOMAIN dict_ptr, NEW key \in Keys, Felt252DictEntryInit(d, key)
      PROVE  OpenInv'
  <2>1. /\ WritesOnly({dict_ptr[d], dict_ptr[d] + 1})
        /\ get_felt(memory', dict_ptr[d]) = key
        /\ get(memory', dict_ptr[d] + 1) = Lookup(dicts[d], low_u64(key), 0)
    BY <1>3, EntryInitWrites
  <2>2. UNCHANGED <<dicts, dict_ptr>> /\ entry' = [entry EXCEPT ![d] = key]
        /\ dict_ptr[d] + 3 <= d + SEGMENT_SIZE
    BY <1>3 DEF Felt252DictEntryInit, ctxVars, ENTRY_SIZE
  <2>3. ASSUME NEW e \in DOMAIN dict_ptr, e # d, entry[e] # None
        PROVE  /\ get_felt(memory', dict_ptr[e]) = get_felt(memory, dict_ptr[e])
               /\ get(memory', dict_ptr[e] + 1) = get(memory, dict_ptr[e] + 1)
    <3> PICK p, q : p = dict_ptr[d] /\ q = dict_ptr[e]
      OBVIOUS
    <3>1. p \in Nat /\ q \in Nat /\ (q + 3 <= p \/ p + 3 <= q)
      BY <2>2, <2>3, EntryPlace
    <3>2. q \notin {p, p + 1} /\ q + 1 \notin {p, p + 1}
      BY <3>1
    <3> QED BY <2>1, <3>2 DEF WritesOnly, get
  <2> QED BY <1>0, <2>1, <2>2, <2>3 DEF OpenInv
<1>4. ASSUME NEW d \in DOMAIN dict_ptr, NEW new \in Values, Felt252DictEntryUpdate(d, new)
      PROVE  OpenInv'
  <2>1. /\ dict_ptr[d] + 3 <= d + SEGMENT_SIZE
        /\ WritesOnly({dict_ptr[d] + 2, Slot(d) + 1})
        /\ dicts' = Insert(dicts, d, Insert(dicts[d], low_u64(entry[d]), low_u64(new)))
    BY <1>4, EntryUpdateWrites
  <2>2. /\ dict_ptr' = [dict_ptr EXCEPT ![d] = dict_ptr[d] + ENTRY_SIZE]
        /\ entry' = [entry EXCEPT ![d] = None]
    BY <1>4 DEF Felt252DictEntryUpdate
  <2>3. Slot(d) \in Nat /\ Slot(d) + 3 <= SEGMENT_BASE_DEFAULT
    BY <1>0, SlotPlace DEF Inductive
  <2>4. ASSUME NEW e \in DOMAIN dict_ptr, e # d, entry[e] # None
        PROVE  /\ get_felt(memory', dict_ptr[e]) = get_felt(memory, dict_ptr[e])
               /\ get(memory', dict_ptr[e] + 1) = get(memory, dict_ptr[e] + 1)
               /\ dicts'[e] = dicts[e]
    <3> PICK p, q, s : p = dict_ptr[d] /\ q = dict_ptr[e] /\ s = Slot(d)
      OBVIOUS
    <3>1. p \in Nat /\ q \in Nat /\ (q + 3 <= p \/ p + 3 <= q) /\ SEGMENT_BASE_DEFAULT <= q
      BY <2>1, <2>4, EntryPlace
    <3>2. q \notin {p + 2, s + 1} /\ q + 1 \notin {p + 2, s + 1}
      BY <2>3, <3>1, LayoutAssumption
    <3>3. dicts'[e] = dicts[e]
      BY <1>0, <2>1, <2>4 DEF Insert
    <3> QED BY <2>1, <3>2, <3>3 DEF WritesOnly, get
  <2> QED BY <1>0, <2>2, <2>4 DEF OpenInv
<1>5. CASE \/ AllocSegment \/ (\E d \in DOMAIN dict_ptr : GetSegmentArenaIndex(d))
           \/ UNCHANGED vars
  BY <1>5 DEF OpenInv, AllocSegment, GetSegmentArenaIndex, vars, ctxVars, frameVars
<1> QED BY <1>2, <1>3, <1>4, <1>5 DEF Next

\* A step that writes no cell of a logged entry and logs nothing.
LEMMA BusFrame ==
  ASSUME Inductive, BusInv, NEW cells, WritesOnly(cells), UNCHANGED logVars,
         DOMAIN dict_ptr \subseteq DOMAIN dict_ptr',
         \A d \in DOMAIN dict_ptr : dict_ptr'[d] = dict_ptr[d],
         \A i \in 1 .. Len(owner) :
           /\ dict_access_pointers[i] \notin cells
           /\ dict_access_pointers[i] + 1 \notin cells
           /\ dict_access_pointers[i] + 2 \notin cells
  PROVE  BusInv'
<1>1. /\ UNCHANGED <<dict_accesses, dict_access_pointers, dict_accesses_felt, owner>>
      /\ Len(owner) = Len(dict_accesses)
  BY DEF logVars, Inductive, Shape, LogTypeOK
<1>2. MemoryBus'
  BY <1>1 DEF BusInv, MemoryBus, WritesOnly, get
<1>3. \A i \in 1 .. Len(owner) : dict_ptr'[owner[i]] = dict_ptr[owner[i]]
  BY DEF BusInv
<1> QED BY <1>1, <1>2, <1>3 DEF BusInv

LEMMA SmallMod == \A x, n \in Nat : x < n => x % n = x
OBVIOUS

\* The three logs, and their owners, after an entry update.
LEMMA EntryUpdateLog ==
  ASSUME StayInSegment, ArenaFits, PointersFit, Inductive, ArenaInv, OpenInv,
         NEW d \in DOMAIN dict_ptr, NEW new \in Values, Felt252DictEntryUpdate(d, new)
  PROVE  LET n == Len(owner) IN
         /\ n \in Nat /\ n = Len(dict_accesses)
         /\ Len(owner') = n + 1 /\ Len(dict_accesses') = n + 1
         /\ owner'[n + 1] = d /\ dict_access_pointers'[n + 1] = dict_ptr[d]
         /\ dict_accesses'[n + 1].key = low_u64(entry[d])
         /\ dict_accesses'[n + 1].prev = Lookup(dicts[d], low_u64(entry[d]), 0)
         /\ dict_accesses_felt'[n + 1].key = entry[d]
         /\ dict_accesses_felt'[n + 1].new = new
         /\ \A i \in 1 .. n : /\ owner'[i] = owner[i]
                              /\ dict_accesses'[i] = dict_accesses[i]
                              /\ dict_accesses_felt'[i] = dict_accesses_felt[i]
                              /\ dict_access_pointers'[i] = dict_access_pointers[i]
<1> PICK ptr : ptr = dict_ptr[d]
  OBVIOUS
<1>1. ptr \in Nat /\ ptr + 3 <= d + SEGMENT_SIZE /\ owner' = Append(owner, d)
      /\ dict_access_pointers' = Append(dict_access_pointers, ptr % PtrWidth)
  BY EntryUpdateWrites
<1>2. \E a, f : /\ dict_accesses' = Append(dict_accesses, a)
                /\ dict_accesses_felt' = Append(dict_accesses_felt, f)
                /\ a.key = low_u64(entry[d])
                /\ a.prev = Lookup(dicts[d], low_u64(entry[d]), 0)
                /\ f.key = entry[d] /\ f.new = new
  BY EntryUpdateWrites
<1>3. PICK a, f :
        /\ dict_accesses' = Append(dict_accesses, a)
        /\ dict_accesses_felt' = Append(dict_accesses_felt, f)
        /\ a.key = low_u64(entry[d])
        /\ a.prev = Lookup(dicts[d], low_u64(entry[d]), 0)
        /\ f.key = entry[d] /\ f.new = new
  BY <1>2
<1>4. dict_access_pointers' = Append(dict_access_pointers, ptr)
  <2>1. d \in DictBases
    BY DEF ArenaInv, Inductive, Shape, FrameShape
  <2>2. /\ d \in Nat /\ d + SEGMENT_SIZE <= SEGMENT_BASE_DEFAULT + MaxSegments * SEGMENT_SIZE
        /\ MaxSegments * SEGMENT_SIZE \in Nat
    BY <2>1, BaseBeyondArena, LayoutAssumption
  <2>3. ptr < PtrWidth
    BY <1>1, <2>2, LayoutAssumption DEF PointersFit
  <2>4. ptr % PtrWidth = ptr
    BY <1>1, <2>3, SmallMod, LayoutAssumption
  <2> QED BY <1>1, <2>4
<1> PICK n : n = Len(owner)
  OBVIOUS
<1>5. /\ n \in Nat /\ n = Len(dict_accesses)
      /\ Len(owner') = n + 1 /\ Len(dict_accesses') = n + 1
      /\ owner'[n + 1] = d /\ dict_accesses'[n + 1] = a
      /\ dict_accesses_felt'[n + 1] = f /\ dict_access_pointers'[n + 1] = ptr
      /\ \A i \in 1 .. n : /\ owner'[i] = owner[i]
                           /\ dict_accesses'[i] = dict_accesses[i]
                           /\ dict_accesses_felt'[i] = dict_accesses_felt[i]
                           /\ dict_access_pointers'[i] = dict_access_pointers[i]
  <2>1. /\ dict_accesses' = Append(dict_accesses, a) /\ owner' = Append(owner, d)
        /\ dict_accesses_felt' = Append(dict_accesses_felt, f)
        /\ dict_access_pointers' = Append(dict_access_pointers, ptr)
    BY <1>1, <1>3, <1>4
  <2> QED BY <2>1, LogGrows
<1> QED BY <1>3, <1>5

LEMMA BusUpdate ==
  ASSUME StayInSegment, ArenaFits, PointersFit, Inductive, ArenaInv, OpenInv, BusInv,
         NEW d \in DOMAIN dict_ptr, NEW new \in Values, Felt252DictEntryUpdate(d, new)
  PROVE  BusInv'
<1> PICK ptr, slot, n : ptr = dict_ptr[d] /\ slot = Slot(d) /\ n = Len(owner)
  OBVIOUS
<1>1. d \in DOMAIN dicts /\ entry[d] # None
  BY DEF Felt252DictEntryUpdate, Inductive, Shape, FrameShape
<1>2. ptr \in Nat /\ d <= ptr /\ SEGMENT_BASE_DEFAULT <= ptr /\ ptr + 3 <= d + SEGMENT_SIZE
  BY EntryUpdateWrites
<1>3. WritesOnly({ptr + 2, slot + 1}) /\ get_felt(memory', ptr + 2) = new
  BY EntryUpdateWrites
<1>4. slot \in Nat /\ slot + 3 <= SEGMENT_BASE_DEFAULT
  BY <1>1, SlotPlace DEF Inductive
<1>5. /\ n \in Nat /\ n = Len(dict_accesses)
      /\ Len(owner') = n + 1 /\ Len(dict_accesses') = n + 1
      /\ owner'[n + 1] = d /\ dict_access_pointers'[n + 1] = ptr
      /\ dict_accesses'[n + 1].prev = Lookup(dicts[d], low_u64(entry[d]), 0)
      /\ dict_accesses_felt'[n + 1].key = entry[d]
      /\ dict_accesses_felt'[n + 1].new = new
      /\ \A i \in 1 .. n : /\ owner'[i] = owner[i]
                           /\ dict_accesses'[i] = dict_accesses[i]
                           /\ dict_accesses_felt'[i] = dict_accesses_felt[i]
                           /\ dict_access_pointers'[i] = dict_access_pointers[i]
  BY EntryUpdateLog
<1>6. \A i \in 1 .. n : /\ dict_access_pointers[i] \in Nat
                        /\ SEGMENT_BASE_DEFAULT <= dict_access_pointers[i]
                        /\ \/ dict_access_pointers[i] + 3 <= ptr
                           \/ ptr + 3 <= dict_access_pointers[i]
  BY <1>2, <1>5, EntryPlace
<1>7. dict_ptr' = [dict_ptr EXCEPT ![d] = ptr + 3]
  BY DEF Felt252DictEntryUpdate, ENTRY_SIZE
<1>8. ASSUME NEW i \in 1 .. n
      PROVE  LET p == dict_access_pointers[i] IN
             /\ get_felt(memory', p) = dict_accesses_felt[i].key
             /\ get(memory', p + 1) = dict_accesses[i].prev
             /\ get_felt(memory', p + 2) = dict_accesses_felt[i].new
             /\ owner[i] \in DOMAIN dict_ptr'
             /\ owner[i] <= p
             /\ p + ENTRY_SIZE <= dict_ptr'[owner[i]]
  <2> PICK p : p = dict_access_pointers[i]
    OBVIOUS
  <2>1. p \in Nat /\ SEGMENT_BASE_DEFAULT <= p /\ (p + 3 <= ptr \/ ptr + 3 <= p)
    BY <1>6
  <2>2. /\ p \notin {ptr + 2, slot + 1} /\ p + 1 \notin {ptr + 2, slot + 1}
        /\ p + 2 \notin {ptr + 2, slot + 1}
    <3>1. p # slot + 1 /\ p + 1 # slot + 1 /\ p + 2 # slot + 1
      BY <1>4, <2>1, LayoutAssumption
    <3>2. p # ptr + 2 /\ p + 1 # ptr + 2 /\ p + 2 # ptr + 2
      BY <1>2, <2>1
    <3> QED BY <3>1, <3>2
  <2>3. /\ get_felt(memory, p) = dict_accesses_felt[i].key
        /\ get(memory, p + 1) = dict_accesses[i].prev
        /\ get_felt(memory, p + 2) = dict_accesses_felt[i].new
        /\ owner[i] \in DOMAIN dict_ptr /\ owner[i] <= p /\ p + 3 <= dict_ptr[owner[i]]
    BY <1>5 DEF BusInv, MemoryBus, ENTRY_SIZE
  <2>4. p + 3 <= dict_ptr'[owner[i]]
    <3>1. CASE owner[i] = d
      BY <1>2, <1>7, <2>1, <2>3, <3>1
    <3>2. CASE owner[i] # d
      BY <1>7, <2>3, <3>2
    <3> QED BY <3>1, <3>2
  <2> QED BY <1>3, <1>7, <2>2, <2>3, <2>4 DEF WritesOnly, get, ENTRY_SIZE
<1>9. /\ get_felt(memory', ptr) = dict_accesses_felt'[n + 1].key
      /\ get(memory', ptr + 1) = dict_accesses'[n + 1].prev
      /\ get_felt(memory', ptr + 2) = dict_accesses_felt'[n + 1].new
  <2>1. ptr \notin {ptr + 2, slot + 1} /\ ptr + 1 \notin {ptr + 2, slot + 1}
    BY <1>2, <1>4, LayoutAssumption
  <2>2. /\ get_felt(memory, ptr) = entry[d]
        /\ get(memory, ptr + 1) = Lookup(dicts[d], low_u64(entry[d]), 0)
    BY <1>1 DEF OpenInv
  <2> QED BY <1>3, <1>5, <2>1, <2>2 DEF WritesOnly, get
<1>10. d \in DOMAIN dict_ptr' /\ d <= ptr /\ ptr + ENTRY_SIZE <= dict_ptr'[d]
  BY <1>2, <1>7 DEF ENTRY_SIZE
<1>11. ASSUME NEW i \in 1 .. n + 1
       PROVE  /\ owner'[i] \in DOMAIN dict_ptr'
              /\ owner'[i] <= dict_access_pointers'[i]
              /\ dict_access_pointers'[i] + ENTRY_SIZE <= dict_ptr'[owner'[i]]
              /\ get_felt(memory', dict_access_pointers'[i]) = dict_accesses_felt'[i].key
              /\ get(memory', dict_access_pointers'[i] + 1) = dict_accesses'[i].prev
              /\ get_felt(memory', dict_access_pointers'[i] + 2) = dict_accesses_felt'[i].new
  <2>1. CASE i \in 1 .. n
    BY <1>5, <1>8, <2>1
  <2>2. CASE i = n + 1
    BY <1>5, <1>9, <1>10, <2>2
  <2> QED BY <1>5, <2>1, <2>2
<1> QED BY <1>5, <1>11 DEF BusInv, MemoryBus

LEMMA BusStep ==
  ASSUME StayInSegment, ArenaFits, PointersFit, Inductive, ArenaInv, OpenInv, BusInv,
         [Next]_vars
  PROVE  BusInv'
<1>0. ASSUME NEW i \in 1 .. Len(owner)
      PROVE  dict_access_pointers[i] \in Nat
             /\ SEGMENT_BASE_DEFAULT <= dict_access_pointers[i]
  <2>1. /\ dict_access_pointers \in Seq(0 .. PtrWidth - 1)
        /\ Len(dict_access_pointers) = Len(owner)
    BY DEF Inductive, Shape, LogTypeOK
  <2>2. dict_access_pointers[i] \in 0 .. PtrWidth - 1
    BY <2>1, ElementOfSeq
  <2>3. owner[i] \in DictBases /\ owner[i] <= dict_access_pointers[i]
    BY DEF BusInv, ArenaInv, Inductive, Shape, FrameShape
  <2>4. owner[i] \in Nat /\ SEGMENT_BASE_DEFAULT <= owner[i]
    BY <2>3, BaseBeyondArena
  <2> QED BY <2>2, <2>3, <2>4, LayoutAssumption
<1>1. CASE AllocFelt252Dict
  <2>1. PICK slot \in Nat :
          /\ slot + 3 <= SEGMENT_BASE_DEFAULT
          /\ WritesOnly({slot, slot + 1, slot + 2, ArenaPtr + 1})
    BY <1>1, AllocWrites
  <2>2. /\ UNCHANGED logVars /\ DOMAIN dict_ptr \subseteq DOMAIN dict_ptr'
        /\ \A d \in DOMAIN dict_ptr : dict_ptr'[d] = dict_ptr[d]
    <3>1. /\ dict_ptr' = Insert(dict_ptr, next_segment_base, next_segment_base)
          /\ UNCHANGED logVars
      BY <1>1 DEF AllocFelt252Dict
    <3>2. next_segment_base \notin DOMAIN dict_ptr
      BY FreshBase DEF Inductive, Shape, FrameShape
    <3> QED BY <3>1, <3>2 DEF Insert
  <2> PICK cells : cells = {slot, slot + 1, slot + 2, ArenaPtr + 1}
    OBVIOUS
  <2>3. \A a \in cells : a \in Nat /\ a < SEGMENT_BASE_DEFAULT
    <3>1. ArenaPtr + 2 <= SEGMENT_BASE_DEFAULT
      BY DEF ArenaFits
    <3> QED BY <2>1, <3>1, LayoutAssumption
  <2>4. \A i \in 1 .. Len(owner) :
          /\ dict_access_pointers[i] \notin cells
          /\ dict_access_pointers[i] + 1 \notin cells
          /\ dict_access_pointers[i] + 2 \notin cells
    BY <1>0, <2>3, LayoutAssumption
  <2> QED BY <2>1, <2>2, <2>4, BusFrame
<1>2. ASSUME NEW d \in DOMAIN dict_ptr, NEW key \in Keys, Felt252DictEntryInit(d, key)
      PROVE  BusInv'
  <2>1. /\ UNCHANGED <<logVars, dict_ptr>> /\ dict_ptr[d] + 3 <= d + SEGMENT_SIZE
    BY <1>2 DEF Felt252DictEntryInit, ENTRY_SIZE
  <2> PICK ptr : ptr = dict_ptr[d]
    OBVIOUS
  <2> PICK cells : cells = {ptr, ptr + 1}
    OBVIOUS
  <2>2. WritesOnly(cells)
    BY <1>2, EntryInitWrites
  <2>3. ASSUME NEW i \in 1 .. Len(owner)
        PROVE  /\ dict_access_pointers[i] \notin cells
               /\ dict_access_pointers[i] + 1 \notin cells
               /\ dict_access_pointers[i] + 2 \notin cells
    <3> PICK p : p = dict_access_pointers[i]
      OBVIOUS
    <3>1. p \in Nat /\ ptr \in Nat /\ (p + 3 <= ptr \/ ptr + 3 <= p)
      BY <2>1, EntryPlace
    <3> QED BY <3>1
  <2> QED BY <2>1, <2>2, <2>3, BusFrame
<1>3. ASSUME NEW d \in DOMAIN dict_ptr, NEW new \in Values, Felt252DictEntryUpdate(d, new)
      PROVE  BusInv'
  BY <1>3, BusUpdate
<1>4. CASE \/ AllocSegment \/ (\E d \in DOMAIN dict_ptr : GetSegmentArenaIndex(d))
           \/ UNCHANGED vars
  <2>1. WritesOnly({}) /\ UNCHANGED logVars /\ UNCHANGED dict_ptr
    BY <1>4 DEF AllocSegment, GetSegmentArenaIndex, vars, frameVars, WritesOnly
  <2> QED BY <2>1, BusFrame
<1> QED BY <1>1, <1>2, <1>3, <1>4 DEF Next

LEMMA MemoryAlways ==
  ASSUME StayInSegment, ArenaFits, PointersFit
  PROVE  Spec => [](Inductive /\ AllHandles /\ ArenaInv /\ OpenInv /\ BusInv)
<1> DEFINE Inv == ArenaInv /\ OpenInv /\ BusInv
<1>1. Init => Inv
  BY ArenaInit
<1>2. Inductive /\ Inv /\ [Next]_vars => Inv'
  BY ArenaStep, OpenStep, BusStep
<1>3. Spec => []Inv
  <2> HIDE DEF Inv
  <2> QED BY <1>1, <1>2, InductiveAlways, PTL DEF Spec
<1> QED BY <1>3, InductiveAlways, PTL

\* Every entry the log points at still holds the key, the previous value and the
\* new value the access was logged with, whatever entries other dictionaries
\* opened, finished or placed around it: the verifier's memory bus finds every
\* logged access in the trace, for any number of dictionaries and accesses.
THEOREM BusCorrect ==
  ASSUME StayInSegment, ArenaFits, PointersFit
  PROVE  Spec => []MemoryBus
<1>1. BusInv => MemoryBus
  BY DEF BusInv
<1> QED BY <1>1, MemoryAlways, PTL

-----------------------------------------------------------------------------
\* What a squash is told.

\* No number of entries fills a segment exactly (2^20 is no multiple of 3), so a
\* handle never stands where the next segment begins.
EntriesDoNotFill == \A n \in Nat : ENTRY_SIZE * n # SEGMENT_SIZE

IndexInv == \A d \in DOMAIN dict_index : dict_index[d] = dict_arena_info[d].idx

LEMMA IndexStep ==
  ASSUME StayInSegment, EntriesDoNotFill, Inductive, LogComplete, IndexInv, [Next]_vars
  PROVE  IndexInv'
<1>0. /\ DOMAIN dict_index \subseteq DOMAIN dict_ptr
      /\ DOMAIN dict_ptr \subseteq DOMAIN dicts /\ DOMAIN dict_arena_info = DOMAIN dicts
  BY DEF Inductive, Shape, CtxTypeOK, FrameShape
<1>1. CASE AllocFelt252Dict
  <2>1. PICK info : /\ dict_arena_info' = Insert(dict_arena_info, next_segment_base, info)
                    /\ UNCHANGED dict_index
    BY <1>1 DEF AllocFelt252Dict
  <2>2. next_segment_base \notin DOMAIN dicts
    BY FreshBase DEF Inductive
  <2> QED BY <1>0, <2>1, <2>2 DEF IndexInv, Insert
<1>2. ASSUME NEW d \in DOMAIN dict_ptr, GetSegmentArenaIndex(d)
      PROVE  IndexInv'
  <2> PICK ptr : ptr = dict_ptr[d]
    OBVIOUS
  <2>1. find_dict_base(ptr) = {d}
    <3>1. /\ d \in DOMAIN dicts /\ DOMAIN dicts \subseteq Nat /\ ptr \in Nat
          /\ d <= ptr /\ ptr <= d + SEGMENT_SIZE
      <4>1. d \in DOMAIN dicts /\ DOMAIN dicts \subseteq Nat /\ ptr \in Nat
        BY DEF Inductive, Shape, CtxTypeOK, FrameShape
      <4>2. entry[d] = None
        BY <1>2 DEF GetSegmentArenaIndex
      <4>3. d <= ptr /\ ptr + 0 <= d + SEGMENT_SIZE
        BY <4>2 DEF Inductive, SegmentsOwned, HandlesInside
      <4> QED BY <4>1, <4>3
    <3>2. ptr # d + SEGMENT_SIZE
      <4>1. IsFiniteSet(AccessesTo(d))
        <5>1. Len(owner) \in Nat /\ AccessesTo(d) \subseteq 1 .. Len(owner)
          BY DEF AccessesTo, Inductive, Shape, LogTypeOK
        <5>2. IsFiniteSet(1 .. Len(owner))
          BY <5>1, FS_Interval
        <5> QED BY <5>1, <5>2, FS_Subset
      <4> PICK c : c = Cardinality(AccessesTo(d))
        OBVIOUS
      <4>2. c \in Nat /\ ptr = d + 3 * c
        BY <3>1, <4>1, FS_CardinalityType DEF LogComplete, ENTRY_SIZE
      <4>3. 3 * c # SEGMENT_SIZE
        BY <4>2 DEF EntriesDoNotFill, ENTRY_SIZE
      <4> QED BY <3>1, <4>2, <4>3, LayoutAssumption
    <3>3. d \in Owners(ptr)
      BY <3>1, <3>2, LayoutAssumption DEF Owners
    <3>4. ASSUME NEW e \in Owners(ptr) PROVE e = d
      BY <3>1, <3>2, <3>4, LayoutAssumption DEF Owners, Inductive, SegmentsOwned
    <3> QED BY <3>3, <3>4 DEF find_dict_base
  <2>2. /\ dict_index' = Insert(dict_index, d, dict_arena_info[d].idx)
        /\ UNCHANGED dict_arena_info
    <3>1. /\ \E base \in find_dict_base(ptr) :
                dict_index' = Insert(dict_index, d,
                  IF base \in DOMAIN dict_arena_info THEN dict_arena_info[base].idx ELSE 0)
          /\ UNCHANGED dict_arena_info
      BY <1>2 DEF GetSegmentArenaIndex, ctxVars
    <3> QED BY <1>0, <2>1, <3>1
  <2> QED BY <2>2 DEF IndexInv, Insert
<1>3. CASE ~ AllocFelt252Dict /\ ~ \E d \in DOMAIN dict_ptr : GetSegmentArenaIndex(d)
  BY <1>3 DEF Next, vars, ctxVars, frameVars, AllocSegment, Felt252DictEntryInit,
     Felt252DictEntryUpdate, IndexInv
<1> QED BY <1>1, <1>2, <1>3

\* The segment arena always shows each dictionary's base and current end, and a
\* squash is told the index of its own dictionary's record: what the squashed
\* dictionary is refunded to cannot be another's.
THEOREM ArenaCorrect ==
  ASSUME StayInSegment, ArenaFits, PointersFit, EntriesDoNotFill
  PROVE  Spec => []ArenaMirrorsHandles
<1>1. Init => IndexInv
  BY DEF Init, IndexInv, EmptyMap
<1>2. Inductive /\ LogComplete /\ IndexInv /\ [Next]_vars => IndexInv'
  BY IndexStep
<1>3. Inductive /\ AllHandles /\ ArenaInv /\ IndexInv => ArenaMirrorsHandles
  <2> SUFFICES ASSUME Inductive, AllHandles, ArenaInv, IndexInv
               PROVE  ArenaMirrorsHandles
    OBVIOUS
  <2>1. DOMAIN dict_index \subseteq DOMAIN dicts /\ DOMAIN dict_ptr = DOMAIN dicts
    BY DEF Inductive, AllHandles, Shape, FrameShape
  <2> QED BY <2>1 DEF ArenaInv, IndexInv, ArenaMirrorsHandles, Slot, InfoSlot
<1> QED BY <1>1, <1>2, <1>3, MemoryAlways, LogCompleteCorrect, PTL DEF Spec

-----------------------------------------------------------------------------
\* The hints implement the dictionaries of DictSpec.  AllocFelt252Dict makes one,
\* an entry's two hints open and finalize it, the other hints change nothing of it.

\* The side-states tell apart the keys the program uses by their low u64.
NarrowKeys == \A k, l \in Keys : low_u64(k) = low_u64(l) => k = l

Contents == [d \in DOMAIN dict_ptr |-> [k \in Keys |-> Lookup(dicts[d], low_u64(k), 0)]]
Entries == [d \in DOMAIN dict_ptr |->
              IF entry[d] = None THEN None
              ELSE [key |-> entry[d], read |-> get(memory, dict_ptr[d] + 1)]]

\* What an open entry shows is what its key had when it was opened.
EntriesShowContents ==
  Entries = [d \in DOMAIN dict_ptr |->
               IF entry[d] = None THEN None
               ELSE [key |-> entry[d], read |-> Contents[d][entry[d]]]]

LEMMA EntriesRead == Inductive /\ OpenInv => EntriesShowContents
<1> SUFFICES ASSUME Inductive, OpenInv PROVE EntriesShowContents
  OBVIOUS
<1>1. ASSUME NEW d \in DOMAIN dict_ptr, entry[d] # None
      PROVE  get(memory, dict_ptr[d] + 1) = Contents[d][entry[d]]
  <2>1. entry[d] \in Keys
    BY <1>1 DEF Inductive, Shape, FrameShape
  <2> QED BY <1>1, <2>1 DEF OpenInv, Contents
<1> QED BY <1>1 DEF Entries, EntriesShowContents

LEMMA RefineInit == Init => Abstract!Init
BY DEF Init, Abstract!Init, EmptyMap

LEMMA RefineAlloc ==
  ASSUME Inductive, ArenaInv, EntriesShowContents, EntriesShowContents', AllocFelt252Dict
  PROVE  \E d \in DictBases : Abstract!New(d)
<1> PICK base : base = next_segment_base
  OBVIOUS
<1>1. base \in DictBases
  <2>1. \E k \in 0 .. MaxSegments - 1 : base = SEGMENT_BASE_DEFAULT + k * SEGMENT_SIZE
    BY SegmentCount DEF AllocFelt252Dict
  <2> QED BY <2>1 DEF DictBases
<1>2. base \notin DOMAIN dict_ptr
  BY FreshBase DEF Inductive, Shape, FrameShape
<1>3. /\ DOMAIN dict_ptr' = DOMAIN dict_ptr \cup {base}
      /\ entry'[base] = None /\ dicts'[base] = EmptyMap
      /\ \A d \in DOMAIN dict_ptr : entry'[d] = entry[d] /\ dicts'[d] = dicts[d]
  <2>1. /\ dicts' = Insert(dicts, base, EmptyMap)
        /\ dict_ptr' = Insert(dict_ptr, base, base) /\ entry' = Insert(entry, base, None)
    BY DEF AllocFelt252Dict
  <2>2. DOMAIN entry = DOMAIN dict_ptr /\ DOMAIN dict_ptr \subseteq DOMAIN dicts
    BY DEF Inductive, Shape, FrameShape
  <2> QED BY <1>2, <2>1, <2>2 DEF Insert
<1>4. Contents' = [x \in DOMAIN Contents \cup {base} |->
                     IF x = base THEN [k \in Keys |-> 0] ELSE Contents[x]]
  <2>1. \A k : Lookup(EmptyMap, k, 0) = 0
    BY EmptyIsMap DEF Lookup
  <2> QED BY <1>2, <1>3, <2>1 DEF Contents
<1>5. Entries' = [x \in DOMAIN Entries \cup {base} |->
                    IF x = base THEN None ELSE Entries[x]]
  <2>1. Entries' = [d \in DOMAIN dict_ptr' |->
                      IF entry'[d] = None THEN None
                      ELSE [key |-> entry'[d], read |-> Contents'[d][entry'[d]]]]
    BY DEF EntriesShowContents
  <2>2. \A d \in DOMAIN dict_ptr : Contents'[d] = Contents[d]
    BY <1>2, <1>4 DEF Contents
  <2>3. Entries = [d \in DOMAIN dict_ptr |->
                     IF entry[d] = None THEN None
                     ELSE [key |-> entry[d], read |-> Contents[d][entry[d]]]]
    BY DEF EntriesShowContents
  <2> QED BY <1>2, <1>3, <2>1, <2>2, <2>3
<1>6. Abstract!New(base)
  BY <1>2, <1>4, <1>5 DEF Abstract!New, Contents, Entries
<1> QED BY <1>1, <1>6

LEMMA RefineOpen ==
  ASSUME Inductive, EntriesShowContents, EntriesShowContents',
         NEW d \in DOMAIN dict_ptr, NEW key \in Keys, Felt252DictEntryInit(d, key)
  PROVE  Abstract!Open(d, key)
<1>1. /\ UNCHANGED <<dicts, dict_ptr>> /\ entry[d] = None
      /\ entry' = [entry EXCEPT ![d] = key]
  BY DEF Felt252DictEntryInit, ctxVars
<1>2. DOMAIN entry = DOMAIN dict_ptr /\ key # None
  BY DataAssumption DEF Inductive, Shape, FrameShape
<1>3. UNCHANGED Contents
  BY <1>1 DEF Contents
<1>4. Entries[d] = None
  BY <1>1 DEF Entries
<1>5. Entries' = [Entries EXCEPT ![d] = [key |-> key, read |-> Contents[d][key]]]
  <2>1. Entries = [e \in DOMAIN dict_ptr |->
                     IF entry[e] = None THEN None
                     ELSE [key |-> entry[e], read |-> Contents[e][entry[e]]]]
    BY DEF EntriesShowContents
  <2>2. Entries' = [e \in DOMAIN dict_ptr' |->
                      IF entry'[e] = None THEN None
                      ELSE [key |-> entry'[e], read |-> Contents'[e][entry'[e]]]]
    BY DEF EntriesShowContents
  <2> QED BY <1>1, <1>2, <1>3, <2>1, <2>2
<1> QED BY <1>3, <1>4, <1>5 DEF Abstract!Open, Contents, Entries

LEMMA RefineFinalize ==
  ASSUME StayInSegment, ArenaFits, NarrowKeys, Inductive, ArenaInv, OpenInv,
         EntriesShowContents, EntriesShowContents',
         NEW d \in DOMAIN dict_ptr, NEW new \in Values, Felt252DictEntryUpdate(d, new)
  PROVE  Abstract!Finalize(d, low_u64(new))
<1> PICK key : key = entry[d]
  OBVIOUS
<1>1. /\ DOMAIN dict_ptr' = DOMAIN dict_ptr /\ key # None
      /\ entry' = [entry EXCEPT ![d] = None]
  BY DEF Felt252DictEntryUpdate
<1>2. /\ DOMAIN entry = DOMAIN dict_ptr /\ DOMAIN dict_ptr \subseteq DOMAIN dicts
      /\ key \in Keys
  BY <1>1 DEF Inductive, Shape, FrameShape
<1>3. dicts' = Insert(dicts, d, Insert(dicts[d], low_u64(key), low_u64(new)))
  BY EntryUpdateWrites
<1>4. Contents' = [Contents EXCEPT ![d][key] = low_u64(new)]
  <2>1. \A e \in DOMAIN dict_ptr : e # d => dicts'[e] = dicts[e]
    BY <1>2, <1>3 DEF Insert
  <2>2. ASSUME NEW k \in Keys
        PROVE  Lookup(dicts'[d], low_u64(k), 0) =
                 IF k = key THEN low_u64(new) ELSE Lookup(dicts[d], low_u64(k), 0)
    <3>1. dicts'[d] = Insert(dicts[d], low_u64(key), low_u64(new))
      BY <1>2, <1>3 DEF Insert
    <3>2. low_u64(k) = low_u64(key) <=> k = key
      BY <1>2 DEF NarrowKeys
    <3> HIDE DEF low_u64
    <3> QED BY <3>1, <3>2 DEF Insert, Lookup
  <2> QED BY <1>1, <1>2, <2>1, <2>2 DEF Contents
<1>5. Entries = [e \in DOMAIN dict_ptr |->
                   IF entry[e] = None THEN None
                   ELSE [key |-> entry[e], read |-> Contents[e][entry[e]]]]
  BY DEF EntriesShowContents
<1>6. Entries[d] # None /\ Entries[d].key = key
  <2>1. Entries[d] = [key |-> key, read |-> Lookup(dicts[d], low_u64(key), 0)]
    BY <1>1, <1>2, <1>5 DEF Contents
  <2>2. Lookup(dicts[d], low_u64(key), 0) \in Nat
    BY <1>2, LookupType DEF Inductive, Shape, CtxTypeOK
  <2> QED BY <1>2, <2>1, <2>2, DataAssumption
<1>7. Entries' = [Entries EXCEPT ![d] = None]
  <2>1. Entries' = [e \in DOMAIN dict_ptr' |->
                      IF entry'[e] = None THEN None
                      ELSE [key |-> entry'[e], read |-> Contents'[e][entry'[e]]]]
    BY DEF EntriesShowContents
  <2>2. \A e \in DOMAIN dict_ptr : e # d => Contents'[e] = Contents[e]
    BY <1>4 DEF Contents
  <2> QED BY <1>1, <1>2, <1>5, <2>1, <2>2
<1> QED BY <1>4, <1>6, <1>7 DEF Abstract!Finalize, Contents, Entries

LEMMA RefineStep ==
  ASSUME StayInSegment, ArenaFits, NarrowKeys, Inductive, ArenaInv, OpenInv,
         EntriesShowContents, EntriesShowContents', [Next]_vars
  PROVE  [Abstract!Next]_<<Contents, Entries>>
<1>1. CASE AllocFelt252Dict
  BY <1>1, RefineAlloc DEF Abstract!Next
<1>2. ASSUME NEW d \in DOMAIN dict_ptr, NEW key \in Keys, Felt252DictEntryInit(d, key)
      PROVE  Abstract!Next
  <2>1. d \in DictBases
    BY DEF ArenaInv, Inductive, Shape, FrameShape
  <2> QED BY <1>2, <2>1, RefineOpen DEF Abstract!Next
<1>3. ASSUME NEW d \in DOMAIN dict_ptr, NEW new \in Values, Felt252DictEntryUpdate(d, new)
      PROVE  Abstract!Next
  <2>1. d \in DictBases /\ low_u64(new) \in Words
    BY DEF ArenaInv, Inductive, Shape, FrameShape, Words
  <2> QED BY <1>3, <2>1, RefineFinalize DEF Abstract!Next
<1>4. CASE \/ AllocSegment \/ (\E d \in DOMAIN dict_ptr : GetSegmentArenaIndex(d))
           \/ UNCHANGED vars
  BY <1>4 DEF AllocSegment, GetSegmentArenaIndex, vars, ctxVars, frameVars, Contents, Entries
<1> QED BY <1>1, <1>2, <1>3, <1>4 DEF Next

\* A program that uses the hints sees plain dictionaries: whatever entries are
\* open, opening one reads what the program last put at that key of that
\* dictionary, and finalizing one changes that key of that dictionary alone.
THEOREM DictionaryCorrect ==
  ASSUME StayInSegment, ArenaFits, PointersFit, NarrowKeys
  PROVE  Spec => ImplementsDictSpec
<1> DEFINE Inv == Inductive /\ ArenaInv /\ OpenInv
<1>1. Inv /\ EntriesShowContents /\ EntriesShowContents' /\ [Next]_vars
        => [Abstract!Next]_<<Contents, Entries>>
  BY RefineStep
<1>2. Spec => []Inv
  BY MemoryAlways, PTL
<1> QED BY RefineInit, EntriesRead, <1>1, <1>2, PTL DEF Spec, ImplementsDictSpec, Abstract!Spec,
       Abstract!absVars, Contents, Entries


-----------------------------------------------------------------------------
(* The squash hints: for every log, every set of keys and every order of   *)
(* the hints, a squash walks the keys of its dictionary once each in       *)
(* ascending order, and takes all accesses of the first.                   *)

\* Every entry a handle has passed is a logged access of its dictionary and every
\* logged access is such an entry, one for one.
Entry(d, m) == d + ENTRY_SIZE * m
Placed(d) ==
  /\ \E n \in Nat : dict_ptr[d] = Entry(d, n)
  /\ \A m \in Nat : Entry(d, m) < dict_ptr[d] =>
       \E j \in AccessesTo(d) : dict_access_pointers[j] = Entry(d, m)
  /\ \A j \in AccessesTo(d) : \E m \in Nat :
       dict_access_pointers[j] = Entry(d, m) /\ Entry(d, m) < dict_ptr[d]
  /\ \A j, h \in AccessesTo(d) :
       dict_access_pointers[j] = dict_access_pointers[h] => j = h
PlaceInv ==
  /\ \A j \in 1 .. Len(owner) : dict_accesses[j].key = low_u64(dict_accesses_felt[j].key)
  /\ \A d \in DOMAIN dict_ptr : Placed(d)

\* The accesses the log has of a key of a dictionary.
Made(d, key) == {j \in AccessesTo(d) : dict_accesses[j].key = key}

SquashState == [sorted_keys : Seq(Nat), key_idx : Nat, accesses_for_key : Seq(Nat),
                access_idx : Nat, accesses_start : Nat, total_accesses : Nat]
Visit == [key : Nat, taken : SUBSET Nat]

NoSquash == squash = None /\ squashing = None /\ visits = <<>>

\* A squash has visited the first keys of a list of its dictionary's, which no hint
\* changes any more.
KeysInv ==
  LET d == squash.accesses_start
      keys == squash.sorted_keys
  IN
  /\ squash \in SquashState /\ visits \in Seq(Visit) /\ at \in {"ask", "index", "next"}
  /\ d \in DOMAIN dict_index
  /\ \A i, j \in 1 .. Len(keys) : i < j => keys[i] < keys[j]
  /\ {keys[i] : i \in 1 .. Len(keys)} = DOMAIN dicts[d]
  /\ Len(visits) \in 1 .. Len(keys)
  /\ \A i \in 1 .. Len(visits) : visits[i].key = keys[i]
  /\ squashing # None =>
       /\ squashing = d /\ Len(visits) = squash.key_idx + 1
       /\ next_key = visits[Len(visits)].key
  /\ squashing = None => Len(visits) = Len(keys)

\* Of the first key it has taken the first indices so far, and all in the end.
FirstKeyInv ==
  LET all == Len(squash.accesses_for_key)
      idx == squash.access_idx
  IN
  /\ all = Cardinality(Made(squash.accesses_start, visits[1].key))
  /\ IF squashing # None /\ Len(visits) = 1 /\ at # "next"
     THEN /\ visits[1].taken = 0 .. idx - 1 /\ idx <= all
          /\ at = "index" => idx < all
     ELSE visits[1].taken = 0 .. all - 1

SquashInv == NoSquash \/ (KeysInv /\ FirstKeyInv)

-----------------------------------------------------------------------------
\* Ascending lists a finite set of numbers: its ranks are as many as its members,
\* so each is taken.
LEMMA AscendingLists ==
  ASSUME NEW S, S \subseteq Nat, IsFiniteSet(S)
  PROVE  LET a == Ascending(S) IN
         /\ a \in Seq(S) /\ Len(a) = Cardinality(S) /\ Cardinality(S) \in Nat
         /\ \A x \in S : \E i \in 1 .. Len(a) : a[i] = x
         /\ \A i, j \in 1 .. Len(a) : i < j => a[i] < a[j]
<1> DEFINE a == Ascending(S)
           Below(x) == {y \in S : y < x}
           rank == [x \in S |-> Cardinality(Below(x))]
<1> PICK n : n = Cardinality(S)
  OBVIOUS
<1>1. n \in Nat
  BY FS_CardinalityType
<1>2. ASSUME NEW x \in S
      PROVE  IsFiniteSet(Below(x)) /\ Cardinality(Below(x)) \in 0 .. n - 1
  <2>1. Below(x) \in SUBSET S /\ x \notin Below(x)
    OBVIOUS
  <2> PICK T : T = Below(x)
    OBVIOUS
  <2>2. IsFiniteSet(T) /\ Cardinality(T) <= n /\ Cardinality(T) # n
    BY <2>1, FS_Subset
  <2>3. Cardinality(T) \in Nat
    BY <2>2, FS_CardinalityType
  <2> QED BY <1>1, <2>2, <2>3
<1>3. ASSUME NEW x \in S, NEW y \in S, x < y
      PROVE  Cardinality(Below(x)) < Cardinality(Below(y))
  <2> PICK T, U : T = Below(x) /\ U = Below(y)
    OBVIOUS
  <2>1. T \in SUBSET U /\ T # U
    <3>1. \A z \in S : z < x => z < y
      BY <1>3
    <3>2. x \in U /\ x \notin T
      BY <1>3
    <3> QED BY <3>1, <3>2
  <2>2. IsFiniteSet(U) /\ Cardinality(U) \in Nat /\ Cardinality(T) \in Nat
    BY <1>2
  <2>3. Cardinality(T) <= Cardinality(U) /\ Cardinality(T) # Cardinality(U)
    BY <2>1, <2>2, FS_Subset
  <2> QED BY <2>2, <2>3
<1> HIDE DEF Below
<1>4. \A x, y \in S : Cardinality(Below(x)) = Cardinality(Below(y)) => x = y
  <2> SUFFICES ASSUME NEW x \in S, NEW y \in S, x # y
               PROVE  Cardinality(Below(x)) # Cardinality(Below(y))
    OBVIOUS
  <2>1. Cardinality(Below(x)) \in Nat /\ Cardinality(Below(y)) \in Nat
    BY <1>1, <1>2
  <2>2. CASE x < y
    BY <1>3, <2>1, <2>2
  <2>3. CASE y < x
    BY <1>3, <2>1, <2>3
  <2> QED BY <2>2, <2>3
<1>5. rank \in Surjection(S, 0 .. n - 1)
  <2>1. rank \in Injection(S, 0 .. n - 1)
    <3>1. rank \in [S -> 0 .. n - 1]
      BY <1>2
    <3>2. \A x, y \in S : rank[x] = rank[y] => x = y
      BY <1>4
    <3> HIDE DEF rank
    <3> QED BY <3>1, <3>2 DEF Injection, IsInjective
  <2>2. IsFiniteSet(0 .. n - 1) /\ Cardinality(0 .. n - 1) = n
    <3>1. 0 \in Int /\ n - 1 \in Int
      BY <1>1
    <3>2. /\ IsFiniteSet(0 .. n - 1)
          /\ Cardinality(0 .. n - 1) = IF 0 > n - 1 THEN 0 ELSE n - 1 - 0 + 1
      BY <3>1, FS_Interval
    <3> QED BY <1>1, <3>2
  <2> HIDE DEF rank
  <2> QED BY <2>1, <2>2, FS_Injection
<1>6. \A i \in 1 .. n : \E x \in S : Cardinality(Below(x)) = i - 1
  <2> TAKE i \in 1 .. n
  <2>1. i - 1 \in 0 .. n - 1
    BY <1>1
  <2> QED BY <1>5, <2>1 DEF Surjection
<1>7. a = [i \in 1 .. n |-> CHOOSE x \in S : Cardinality(Below(x)) = i - 1]
  BY DEF Ascending, Below
<1>8. \A i \in 1 .. n : a[i] \in S /\ Cardinality(Below(a[i])) = i - 1
  BY <1>6, <1>7
<1>9. a \in Seq(S) /\ Len(a) = n
  BY <1>1, <1>7, <1>8
<1>10. ASSUME NEW i \in 1 .. n, NEW j \in 1 .. n, i < j
       PROVE  a[i] < a[j]
  <2> PICK x, y : x = a[i] /\ y = a[j]
    OBVIOUS
  <2>1. x \in S /\ y \in S /\ Cardinality(Below(x)) = i - 1 /\ Cardinality(Below(y)) = j - 1
    BY <1>8
  <2>2. x # y
    BY <1>10, <2>1
  <2>3. CASE y < x
    BY <1>3, <1>10, <2>1, <2>3
  <2> QED BY <2>1, <2>2, <2>3
<1>11. \A x \in S : \E i \in 1 .. n : a[i] = x
  <2> TAKE x \in S
  <2> PICK i : i = Cardinality(Below(x)) + 1
    OBVIOUS
  <2>1. i \in 1 .. n /\ i - 1 = Cardinality(Below(x))
    BY <1>1, <1>2
  <2>2. a[i] = x
    BY <1>4, <1>8, <2>1
  <2> QED BY <2>1, <2>2
<1> HIDE DEF a
<1> QED BY <1>1, <1>8, <1>9, <1>10, <1>11 DEF a

-----------------------------------------------------------------------------
\* Entries and accesses are the same things.

LEMMA PlaceInit == Init => PlaceInv
BY DEF Init, PlaceInv, EmptyMap

LEMMA PlaceUpdate ==
  ASSUME StayInSegment, ArenaFits, PointersFit, Inductive, ArenaInv, OpenInv, PlaceInv,
         NEW d \in DOMAIN dict_ptr, NEW new \in Values, Felt252DictEntryUpdate(d, new)
  PROVE  PlaceInv'
<1> PICK n, ptr : n = Len(owner) /\ ptr = dict_ptr[d]
  OBVIOUS
<1>1. /\ n \in Nat /\ Len(owner') = n + 1
      /\ owner'[n + 1] = d /\ dict_access_pointers'[n + 1] = ptr
      /\ dict_accesses'[n + 1].key = low_u64(entry[d])
      /\ dict_accesses_felt'[n + 1].key = entry[d]
      /\ \A i \in 1 .. n : /\ owner'[i] = owner[i]
                           /\ dict_accesses'[i] = dict_accesses[i]
                           /\ dict_accesses_felt'[i] = dict_accesses_felt[i]
                           /\ dict_access_pointers'[i] = dict_access_pointers[i]
  BY EntryUpdateLog
<1>2. dict_ptr' = [dict_ptr EXCEPT ![d] = ptr + 3]
  BY DEF Felt252DictEntryUpdate, ENTRY_SIZE
<1>3. \A e : AccessesTo(e) \subseteq 1 .. n
  BY DEF AccessesTo
<1>4. /\ AccessesTo(d)' = AccessesTo(d) \cup {n + 1}
      /\ \A e : e # d => AccessesTo(e)' = AccessesTo(e)
  BY <1>1 DEF AccessesTo
<1>5. \A j \in 1 .. Len(owner') :
        dict_accesses'[j].key = low_u64(dict_accesses_felt'[j].key)
  <2> TAKE j \in 1 .. Len(owner')
  <2>1. CASE j \in 1 .. n
    BY <1>1, <2>1 DEF PlaceInv
  <2>2. CASE j = n + 1
    BY <1>1, <2>2
  <2> QED BY <1>1, <2>1, <2>2
<1>6. ASSUME NEW e \in DOMAIN dict_ptr, e # d
      PROVE  Placed(e)'
  <2>1. dict_ptr'[e] = dict_ptr[e] /\ AccessesTo(e)' = AccessesTo(e)
    BY <1>2, <1>4, <1>6
  <2>2. \A j \in AccessesTo(e) : dict_access_pointers'[j] = dict_access_pointers[j]
    BY <1>1, <1>3
  <2>3. Placed(e)
    BY DEF PlaceInv
  <2> QED BY <2>1, <2>2, <2>3 DEF Placed, Entry
<1>7. Placed(d)'
  <2>1. d \in Nat /\ ptr \in Nat
    BY DEF Inductive, Shape, CtxTypeOK, FrameShape
  <2>2. Placed(d)
    BY DEF PlaceInv
  <2>3. PICK k \in Nat : ptr = d + 3 * k
    BY <2>2 DEF Placed, Entry, ENTRY_SIZE
  <2>4. dict_ptr'[d] = ptr + 3 /\ ptr + 3 = d + 3 * (k + 1) /\ k + 1 \in Nat
    BY <1>2, <2>1, <2>3
  <2>5. ASSUME NEW m \in Nat, d + 3 * m < ptr + 3
        PROVE  \E j \in AccessesTo(d)' : dict_access_pointers'[j] = d + 3 * m
    <3>1. CASE m = k
      BY <1>1, <1>4, <2>3, <3>1
    <3>2. CASE m # k
      <4>1. d + 3 * m < ptr
        BY <2>1, <2>3, <2>5, <3>2
      <4>2. PICK j \in AccessesTo(d) : dict_access_pointers[j] = d + 3 * m
        BY <2>2, <4>1 DEF Placed, Entry, ENTRY_SIZE
      <4> QED BY <1>1, <1>3, <1>4, <4>2
    <3> QED BY <3>1, <3>2
  <2>6. \A j \in AccessesTo(d) : \E m \in Nat :
          dict_access_pointers'[j] = d + 3 * m /\ d + 3 * m < ptr
    BY <1>1, <1>3, <2>2 DEF Placed, Entry, ENTRY_SIZE
  <2>7. ASSUME NEW j \in AccessesTo(d)'
        PROVE  \E m \in Nat : dict_access_pointers'[j] = d + 3 * m /\ d + 3 * m < ptr + 3
    <3>1. CASE j = n + 1
      BY <1>1, <2>1, <2>3, <3>1
    <3>2. CASE j \in AccessesTo(d)
      <4>1. PICK m \in Nat : dict_access_pointers'[j] = d + 3 * m /\ d + 3 * m < ptr
        BY <2>6, <3>2
      <4>2. d + 3 * m < ptr + 3
        BY <2>1, <4>1
      <4> QED BY <4>1, <4>2
    <3> QED BY <1>4, <3>1, <3>2
  <2>8. \A j \in AccessesTo(d) : dict_access_pointers'[j] # dict_access_pointers'[n + 1]
    <3> TAKE j \in AccessesTo(d)
    <3>1. PICK m \in Nat : dict_access_pointers'[j] = d + 3 * m /\ d + 3 * m < ptr
      BY <2>6
    <3>2. d + 3 * m # ptr
      BY <2>1, <3>1
    <3> QED BY <1>1, <3>1, <3>2
  <2>9. ASSUME NEW j \in AccessesTo(d)', NEW h \in AccessesTo(d)',
               dict_access_pointers'[j] = dict_access_pointers'[h]
        PROVE  j = h
    <3>1. CASE j \in AccessesTo(d) /\ h \in AccessesTo(d)
      <4>1. dict_access_pointers[j] = dict_access_pointers[h]
        BY <1>1, <1>3, <2>9, <3>1
      <4> QED BY <2>2, <3>1, <4>1 DEF Placed
    <3> QED BY <1>4, <2>8, <2>9, <3>1
  <2> PICK p : p = ptr + 3
    OBVIOUS
  <2>10. dict_ptr'[d] = p /\ \E m \in Nat : p = d + 3 * m
    BY <2>4
  <2>11. \A m \in Nat : d + 3 * m < p =>
           \E j \in AccessesTo(d)' : dict_access_pointers'[j] = d + 3 * m
    BY <2>5
  <2>12. \A j \in AccessesTo(d)' : \E m \in Nat :
           dict_access_pointers'[j] = d + 3 * m /\ d + 3 * m < p
    BY <2>7
  <2>13. \A j, h \in AccessesTo(d)' :
           dict_access_pointers'[j] = dict_access_pointers'[h] => j = h
    BY <2>9
  <2> QED BY <2>10, <2>11, <2>12, <2>13 DEF Placed, Entry, ENTRY_SIZE
<1> QED BY <1>2, <1>5, <1>6, <1>7 DEF PlaceInv

LEMMA PlaceStep ==
  ASSUME StayInSegment, ArenaFits, PointersFit, Inductive, ArenaInv, OpenInv, PlaceInv,
         [Next]_vars
  PROVE  PlaceInv'
<1>1. CASE \E d \in DOMAIN dict_ptr, new \in Values : Felt252DictEntryUpdate(d, new)
  BY <1>1, PlaceUpdate
<1>2. CASE AllocFelt252Dict
  <2> PICK base : base = next_segment_base
    OBVIOUS
  <2>1. /\ UNCHANGED logVars
        /\ dict_ptr' = Insert(dict_ptr, base, base)
    BY <1>2 DEF AllocFelt252Dict
  <2>2. base \in Nat /\ base \notin DOMAIN dicts /\ DOMAIN dict_ptr \subseteq DOMAIN dicts
    BY FreshBase DEF Inductive, Shape, CtxTypeOK, FrameShape
  <2>3. /\ UNCHANGED <<owner, dict_accesses, dict_accesses_felt, dict_access_pointers>>
        /\ \A e : AccessesTo(e)' = AccessesTo(e)
    BY <2>1 DEF logVars, AccessesTo
  <2>4. AccessesTo(base) = {}
    BY <2>2, ElementOfSeq DEF AccessesTo, Inductive, Shape, LogTypeOK
  <2>5. /\ DOMAIN dict_ptr' = DOMAIN dict_ptr \cup {base} /\ dict_ptr'[base] = base
        /\ \A e \in DOMAIN dict_ptr : dict_ptr'[e] = dict_ptr[e]
    BY <2>1, <2>2 DEF Insert
  <2>6. ASSUME NEW e \in DOMAIN dict_ptr PROVE Placed(e)'
    <3>1. Placed(e)
      BY DEF PlaceInv
    <3> QED BY <2>3, <2>5, <3>1 DEF Placed, Entry
  <2>7. Placed(base)'
    <3>1. base = base + 3 * 0 /\ \A m \in Nat : ~ (base + 3 * m < base)
      BY <2>2
    <3> QED BY <2>3, <2>4, <2>5, <3>1 DEF Placed, Entry, ENTRY_SIZE
  <2> QED BY <2>3, <2>5, <2>6, <2>7 DEF PlaceInv
<1>3. CASE ~ AllocFelt252Dict /\
           ~ \E d \in DOMAIN dict_ptr, new \in Values : Felt252DictEntryUpdate(d, new)
  <2>1. UNCHANGED logVars /\ UNCHANGED dict_ptr
    BY <1>3 DEF Next, vars, frameVars, AllocSegment, Felt252DictEntryInit,
       GetSegmentArenaIndex
  <2> QED BY <2>1 DEF PlaceInv, Placed, AccessesTo, logVars
<1> QED BY <1>1, <1>2, <1>3

-----------------------------------------------------------------------------
\* What InitSquashData reads.

\* The entries in memory are the accesses of the log: as many, with the same keys.
LEMMA EntriesAreAccesses ==
  ASSUME Inductive, BusInv, PlaceInv, NEW d \in DOMAIN dict_ptr, dict_ptr[d] > d
  PROVE  \E n \in Nat \ {0} :
           /\ n = (dict_ptr[d] - d) \div 3
           /\ \E f \in [1 .. n -> AccessesTo(d)] :
                /\ \A i, h \in 1 .. n : f[i] = f[h] => i = h
                /\ \A j \in AccessesTo(d) : \E i \in 1 .. n : f[i] = j
                /\ \A i \in 1 .. n : EntryKey(d, i) = dict_accesses[f[i]].key
<1>1. d \in Nat /\ Placed(d)
  BY DEF Inductive, Shape, CtxTypeOK, FrameShape, PlaceInv
<1>2. PICK n \in Nat : dict_ptr[d] = d + 3 * n
  BY <1>1 DEF Placed, Entry, ENTRY_SIZE
<1>3. n \in Nat \ {0} /\ n = (dict_ptr[d] - d) \div 3
  BY <1>1, <1>2
<1>4. \A i \in 1 .. n : \E j \in AccessesTo(d) :
        dict_access_pointers[j] = d + 3 * (i - 1)
  <2> TAKE i \in 1 .. n
  <2>1. i - 1 \in Nat /\ d + 3 * (i - 1) < d + 3 * n
    BY <1>1
  <2> QED BY <1>1, <1>2, <2>1 DEF Placed, Entry, ENTRY_SIZE
<1> DEFINE f == [i \in 1 .. n |->
                   CHOOSE j \in AccessesTo(d) : dict_access_pointers[j] = d + 3 * (i - 1)]
<1>5. /\ f \in [1 .. n -> AccessesTo(d)]
      /\ \A i \in 1 .. n : dict_access_pointers[f[i]] = d + 3 * (i - 1)
  BY <1>4
<1> HIDE DEF f
<1>6. \A i, h \in 1 .. n : f[i] = f[h] => i = h
  <2> TAKE i, h \in 1 .. n
  <2> HAVE f[i] = f[h]
  <2>1. d + 3 * (i - 1) = d + 3 * (h - 1)
    BY <1>5
  <2> QED BY <1>1, <2>1
<1>7. \A j \in AccessesTo(d) : \E i \in 1 .. n : f[i] = j
  <2> TAKE j \in AccessesTo(d)
  <2>1. PICK m \in Nat : dict_access_pointers[j] = d + 3 * m /\ d + 3 * m < d + 3 * n
    BY <1>1, <1>2 DEF Placed, Entry, ENTRY_SIZE
  <2>2. m + 1 \in 1 .. n /\ m + 1 - 1 = m
    BY <1>1, <2>1
  <2>3. f[m + 1] \in AccessesTo(d) /\ dict_access_pointers[f[m + 1]] = dict_access_pointers[j]
    BY <1>5, <2>1, <2>2
  <2> QED BY <1>1, <2>2, <2>3 DEF Placed
<1>8. \A i \in 1 .. n : EntryKey(d, i) = dict_accesses[f[i]].key
  <2> TAKE i \in 1 .. n
  <2>1. /\ f[i] \in 1 .. Len(owner) /\ Len(owner) = Len(dict_accesses)
        /\ dict_access_pointers[f[i]] = d + 3 * (i - 1)
    BY <1>5 DEF AccessesTo, Inductive, Shape, LogTypeOK
  <2>2. d + (i - 1) * 3 = d + 3 * (i - 1)
    BY <1>1
  <2>3. get_felt(memory, dict_access_pointers[f[i]]) = dict_accesses_felt[f[i]].key
    BY <2>1 DEF BusInv, MemoryBus
  <2>4. dict_accesses[f[i]].key = low_u64(dict_accesses_felt[f[i]].key)
    BY <2>1 DEF PlaceInv
  <2> QED BY <2>1, <2>2, <2>3, <2>4 DEF EntryKey, get, ENTRY_SIZE
<1> QED BY <1>3, <1>5, <1>6, <1>7, <1>8

\* So InitSquashData finds the dictionary's keys, and of each key all accesses.
LEMMA SquashReads ==
  ASSUME Inductive, BusInv, PlaceInv, SideStateIsLastWrite,
         NEW d \in DOMAIN dict_ptr, dict_ptr[d] > d
  PROVE  LET n == (dict_ptr[d] - d) \div 3
             keys == {EntryKey(d, i) : i \in 1 .. n}
         IN /\ n \in Nat \ {0}
            /\ keys = DOMAIN dicts[d] /\ keys \subseteq Nat
            /\ IsFiniteSet(keys) /\ keys # {}
            /\ \A key : /\ IsFiniteSet(EntriesOf(d, n, key))
                        /\ Cardinality(EntriesOf(d, n, key)) = Cardinality(Made(d, key))
<1>1. PICK n \in Nat \ {0} :
        /\ n = (dict_ptr[d] - d) \div 3
        /\ \E f \in [1 .. n -> AccessesTo(d)] :
             /\ \A i, h \in 1 .. n : f[i] = f[h] => i = h
             /\ \A j \in AccessesTo(d) : \E i \in 1 .. n : f[i] = j
             /\ \A i \in 1 .. n : EntryKey(d, i) = dict_accesses[f[i]].key
  BY EntriesAreAccesses
<1>2. PICK f \in [1 .. n -> AccessesTo(d)] :
        /\ \A i, h \in 1 .. n : f[i] = f[h] => i = h
        /\ \A j \in AccessesTo(d) : \E i \in 1 .. n : f[i] = j
        /\ \A i \in 1 .. n : EntryKey(d, i) = dict_accesses[f[i]].key
  BY <1>1
<1> DEFINE keys == {EntryKey(d, i) : i \in 1 .. n}
<1>3. d \in DOMAIN dicts /\ DOMAIN dicts[d] \subseteq Nat
  BY DEF Inductive, Shape, CtxTypeOK, FrameShape, IsMap
<1>4. \A k : k \in DOMAIN dicts[d] <=> \E j \in AccessesTo(d) : dict_accesses[j].key = k
  BY <1>3 DEF SideStateIsLastWrite
<1>5. keys = DOMAIN dicts[d]
  BY <1>2, <1>4
<1>6. IsFiniteSet(1 .. n)
  BY FS_Interval
<1>7. IsFiniteSet(keys)
  <2>1. [i \in 1 .. n |-> EntryKey(d, i)] \in Surjection(1 .. n, keys)
    BY DEF Surjection
  <2> HIDE DEF keys
  <2> QED BY <1>6, <2>1, FS_Surjection
<1>8. keys # {}
  BY <1>1
<1>9. ASSUME NEW key
      PROVE  /\ IsFiniteSet(EntriesOf(d, n, key))
             /\ Cardinality(EntriesOf(d, n, key)) = Cardinality(Made(d, key))
  <2> PICK S, T : S = EntriesOf(d, n, key) /\ T = Made(d, key)
    OBVIOUS
  <2>1. S \subseteq 1 .. n /\ IsFiniteSet(S)
    BY <1>6, FS_Subset DEF EntriesOf
  <2> DEFINE g == [i \in S |-> f[i]]
  <2>2. g \in [S -> T]
    BY <1>2 DEF EntriesOf, Made
  <2>3. \A i, h \in S : g[i] = g[h] => i = h
    BY <1>2, <2>1
  <2>4. \A j \in T : \E i \in S : g[i] = j
    BY <1>2 DEF EntriesOf, Made
  <2> HIDE DEF g
  <2>5. g \in Bijection(S, T)
    BY <2>2, <2>3, <2>4 DEF Bijection, Injection, IsInjective, Surjection
  <2> QED BY <2>1, <2>5, FS_Bijection DEF ExistsBijection
<1> QED BY <1>1, <1>3, <1>5, <1>7, <1>8, <1>9

-----------------------------------------------------------------------------
\* The squash, hint by hint.

\* The list of a key's accesses is as long as the log has accesses of it.
LEMMA AccessesListed ==
  ASSUME Inductive, NEW d, NEW n, NEW key,
         EntriesOf(d, n, key) \subseteq Nat, IsFiniteSet(EntriesOf(d, n, key))
  PROVE  /\ accesses_of(d, n, key) \in Seq(Nat)
         /\ Len(accesses_of(d, n, key)) = Cardinality(EntriesOf(d, n, key))
<1> PICK order : order = Ascending(EntriesOf(d, n, key))
  OBVIOUS
<1> PICK c : c = Cardinality(EntriesOf(d, n, key))
  OBVIOUS
<1>1. order \in Seq(EntriesOf(d, n, key)) /\ Len(order) = c /\ c \in Nat
  BY AscendingLists
<1>2. DOMAIN order = 1 .. c
  BY <1>1
<1>3. accesses_of(d, n, key) = [i \in 1 .. c |-> EntryNew(d, order[i])]
  BY <1>2 DEF accesses_of
<1>4. \A i \in 1 .. c : EntryNew(d, order[i]) \in Nat
  BY MemoryType DEF EntryNew, Inductive, Shape, FrameShape
<1> QED BY <1>1, <1>3, <1>4

LEMMA SquashBegins ==
  ASSUME Inductive, BusInv, PlaceInv, SideStateIsLastWrite,
         NEW d \in DOMAIN dict_index, InitSquashData(d)
  PROVE  SquashInv'
<1>n. PICK n : n = (dict_ptr[d] - d) \div 3
  OBVIOUS
<1>S. PICK S : S = {EntryKey(d, i) : i \in 1 .. n}
  OBVIOUS
<1>k. PICK keys : keys = Ascending(S)
  OBVIOUS
<1>f. PICK first : first = KeyAt(keys, 0)
  OBVIOUS
<1>1. d \in DOMAIN dict_ptr /\ d \in Nat /\ dict_ptr[d] > d /\ d # None
  BY DataAssumption DEF InitSquashData, Inductive, Shape, CtxTypeOK, FrameShape
<1>2. /\ n \in Nat \ {0}
      /\ S = DOMAIN dicts[d] /\ S \subseteq Nat /\ IsFiniteSet(S) /\ S # {}
      /\ \A key : /\ IsFiniteSet(EntriesOf(d, n, key))
                  /\ Cardinality(EntriesOf(d, n, key)) = Cardinality(Made(d, key))
  BY <1>n, <1>S, <1>1, SquashReads
<1>3. /\ keys \in Seq(S) /\ Len(keys) = Cardinality(S) /\ Cardinality(S) \in Nat
      /\ {keys[i] : i \in 1 .. Len(keys)} = S
      /\ \A i, j \in 1 .. Len(keys) : i < j => keys[i] < keys[j]
  <2>1. S \subseteq Nat /\ IsFiniteSet(S)
    BY <1>2
  <2>2. /\ keys \in Seq(S) /\ Len(keys) = Cardinality(S) /\ Cardinality(S) \in Nat
        /\ \A x \in S : \E i \in 1 .. Len(keys) : keys[i] = x
        /\ \A i, j \in 1 .. Len(keys) : i < j => keys[i] < keys[j]
    BY <1>k, <2>1, AscendingLists
  <2>3. \A i \in 1 .. Len(keys) : keys[i] \in S
    BY <2>2
  <2> QED BY <2>2, <2>3
<1>4. Len(keys) \in Nat \ {0} /\ keys \in Seq(Nat)
  <2>1. Len(keys) # 0
    BY <1>2, <1>3
  <2>2. keys \in Seq(Nat)
    BY <1>2, <1>3, SeqMonotonic
  <2> QED BY <1>3, <2>1, <2>2
<1>5. first = keys[1] /\ first \in Nat
  BY <1>f, <1>4 DEF KeyAt
<1>a. PICK accesses : accesses = accesses_of(d, n, first)
  OBVIOUS
<1>6. accesses \in Seq(Nat) /\ Len(accesses) = Cardinality(Made(d, first))
  <2>1. EntriesOf(d, n, first) \subseteq Nat
    BY DEF EntriesOf
  <2>2. IsFiniteSet(EntriesOf(d, n, first))
    BY <1>2
  <2> QED BY <1>a, <1>2, <2>1, <2>2, AccessesListed
<1>7. /\ squash' = [sorted_keys |-> keys, key_idx |-> 0, accesses_for_key |-> accesses,
                    access_idx |-> 0, accesses_start |-> d, total_accesses |-> n]
      /\ squashing' = d /\ at' = "ask" /\ next_key' = first
      /\ visits' = <<[key |-> first, taken |-> {}]>>
      /\ UNCHANGED vars
  BY <1>n, <1>S, <1>k, <1>f, <1>a DEF InitSquashData
<1>8. UNCHANGED <<dicts, dict_index>> /\ Made(d, first)' = Made(d, first)
  BY <1>7 DEF vars, ctxVars, logVars, frameVars, Made, AccessesTo
<1>9. squash' \in SquashState /\ visits' \in Seq(Visit)
  BY <1>1, <1>2, <1>4, <1>5, <1>6, <1>7 DEF SquashState, Visit
<1>10. /\ Len(visits') = 1 /\ visits'[1].key = first /\ visits'[1].taken = {}
       /\ squash'.sorted_keys = keys /\ squash'.key_idx = 0 /\ squash'.access_idx = 0
       /\ squash'.accesses_for_key = accesses /\ squash'.accesses_start = d
  BY <1>7
<1>11. KeysInv'
  <2>1. \A i \in 1 .. 1 : visits'[i].key = keys[i]
    BY <1>5, <1>10
  <2> QED BY <1>1, <1>2, <1>3, <1>4, <1>7, <1>8, <1>9, <1>10, <2>1 DEF KeysInv
<1>12. FirstKeyInv'
  <2>1. 0 .. 0 - 1 = {} /\ 0 <= Len(accesses)
    BY <1>6
  <2> QED BY <1>1, <1>6, <1>7, <1>8, <1>10, <2>1 DEF FirstKeyInv
<1> QED BY <1>11, <1>12 DEF SquashInv

\* While a squash runs only its own state changes, so what it read stays true.
LEMMA DictsRest ==
  ASSUME UNCHANGED vars
  PROVE  /\ UNCHANGED <<dicts, dict_index>>
         /\ \A d, key : Made(d, key)' = Made(d, key)
BY DEF vars, ctxVars, logVars, frameVars, Made, AccessesTo

LEMMA SquashAsks ==
  ASSUME SquashInv, ShouldSkipSquashLoop
  PROVE  SquashInv'
<1>1. KeysInv /\ FirstKeyInv /\ squash \in SquashState /\ squashing # None
  BY DEF SquashInv, NoSquash, ShouldSkipSquashLoop, KeysInv
<1> PICK all, idx : all = Len(squash.accesses_for_key) /\ idx = squash.access_idx
  OBVIOUS
<1>2. all \in Nat /\ idx \in Nat
  BY <1>1 DEF SquashState
<1>3. /\ squash' \in SquashState /\ squash'.sorted_keys = squash.sorted_keys
      /\ squash'.key_idx = squash.key_idx /\ squash'.accesses_start = squash.accesses_start
      /\ squash'.accesses_for_key = squash.accesses_for_key
      /\ idx < all => squash'.access_idx = idx /\ at' = "index"
      /\ idx >= all => at' = "next"
  <2>1. CASE idx < all
    BY <1>1, <1>2, <2>1 DEF ShouldSkipSquashLoop, NoAccessLeft
  <2>2. CASE idx >= all
    <3>1. squash' = [squash EXCEPT !.access_idx = 0] /\ at' = "next"
      BY <2>2 DEF ShouldSkipSquashLoop, NoAccessLeft
    <3>2. /\ squash' \in SquashState /\ squash'.key_idx = squash.key_idx
          /\ squash'.sorted_keys = squash.sorted_keys
          /\ squash'.accesses_start = squash.accesses_start
          /\ squash'.accesses_for_key = squash.accesses_for_key
      BY <1>1, <3>1 DEF SquashState
    <3> QED BY <1>2, <2>2, <3>1, <3>2
  <2> QED BY <1>2, <2>1, <2>2
<1>4. /\ UNCHANGED <<squashing, next_key, visits, dicts, dict_index>>
      /\ \A d, key : Made(d, key)' = Made(d, key)
      /\ at = "ask" /\ at' \in {"ask", "index", "next"}
  BY DictsRest DEF ShouldSkipSquashLoop
<1>5. KeysInv'
  BY <1>1, <1>3, <1>4 DEF KeysInv
<1>6. FirstKeyInv'
  <2>1. CASE idx < all
    BY <1>1, <1>2, <1>3, <1>4, <2>1 DEF FirstKeyInv
  <2>2. CASE idx >= all
    <3>1. Len(visits) = 1 => visits[1].taken = 0 .. all - 1
      BY <1>1, <1>2, <1>4, <2>2 DEF FirstKeyInv
    <3> QED BY <1>1, <1>3, <1>4, <2>2, <3>1 DEF FirstKeyInv
  <2> QED BY <1>2, <2>1, <2>2
<1> QED BY <1>5, <1>6 DEF SquashInv

LEMMA SquashTakes ==
  ASSUME SquashInv, GetCurrentAccessIndex
  PROVE  SquashInv'
<1>1. KeysInv /\ FirstKeyInv /\ squash \in SquashState /\ squashing # None
      /\ visits \in Seq(Visit)
  BY DEF SquashInv, NoSquash, GetCurrentAccessIndex, KeysInv
<1> PICK all, idx, last : /\ all = Len(squash.accesses_for_key) /\ idx = squash.access_idx
                         /\ last = Len(visits)
  OBVIOUS
<1>2. all \in Nat /\ idx \in Nat /\ last \in Nat \ {0}
  BY <1>1 DEF SquashState, KeysInv
<1>3. /\ squash' \in SquashState /\ squash'.sorted_keys = squash.sorted_keys
      /\ squash'.key_idx = squash.key_idx /\ squash'.accesses_start = squash.accesses_start
      /\ squash'.accesses_for_key = squash.accesses_for_key
      /\ squash'.access_idx = idx + 1
  <2>1. squash' = [squash EXCEPT !.access_idx = idx + 1] /\ idx + 1 \in Nat
    BY <1>2 DEF GetCurrentAccessIndex
  <2> QED BY <1>1, <2>1 DEF SquashState
<1>4. /\ UNCHANGED <<squashing, next_key, dicts, dict_index>>
      /\ \A d, key : Made(d, key)' = Made(d, key)
      /\ at = "index" /\ at' = "ask"
  BY DictsRest DEF GetCurrentAccessIndex
<1>5. visits' = [visits EXCEPT ![last].taken = @ \cup {idx}]
  BY DEF GetCurrentAccessIndex
<1>6. /\ Len(visits') = last /\ visits' \in Seq(Visit)
      /\ \A i \in 1 .. last : visits'[i].key = visits[i].key
      /\ \A i \in 1 .. last : i # last => visits'[i].taken = visits[i].taken
      /\ visits'[last].taken = visits[last].taken \cup {idx}
  <2>1. visits \in [1 .. last -> Visit] /\ last \in 1 .. last
    BY <1>1, <1>2
  <2> PICK v : v = [visits[last] EXCEPT !.taken = @ \cup {idx}]
    OBVIOUS
  <2>2. visits' = [visits EXCEPT ![last] = v]
    BY <1>5
  <2>3. /\ v \in Visit /\ v.key = visits[last].key
        /\ v.taken = visits[last].taken \cup {idx}
    BY <1>2, <2>1 DEF Visit
  <2>4. visits' \in [1 .. last -> Visit]
    BY <2>1, <2>2, <2>3
  <2>5. visits' \in Seq(Visit) /\ Len(visits') = last
    BY <1>2, <2>4
  <2> QED BY <2>1, <2>2, <2>3, <2>5
<1>7. KeysInv'
  BY <1>1, <1>2, <1>3, <1>4, <1>6 DEF KeysInv
<1>8. FirstKeyInv'
  <2>1. CASE last = 1
    <3>1. visits[1].taken = 0 .. idx - 1 /\ idx < all
      BY <1>1, <1>4, <2>1 DEF FirstKeyInv
    <3>2. (0 .. idx - 1) \cup {idx} = 0 .. idx + 1 - 1 /\ idx + 1 <= all
      BY <1>2, <3>1
    <3>3. visits'[1].taken = 0 .. idx + 1 - 1 /\ visits'[1].key = visits[1].key
      <4>1. visits'[1].taken = visits[1].taken \cup {idx} /\ visits'[1].key = visits[1].key
        BY <1>6, <2>1
      <4> QED BY <3>1, <3>2, <4>1
    <3>4. all = Cardinality(Made(squash.accesses_start, visits[1].key)')
      <4> PICK d, key : d = squash.accesses_start /\ key = visits[1].key
        OBVIOUS
      <4>1. squash'.accesses_start = d /\ visits'[1].key = key
        BY <1>3, <3>3
      <4>2. all = Cardinality(Made(d, key))
        BY <1>1 DEF FirstKeyInv
      <4> QED BY <1>4, <4>1, <4>2
    <3> QED BY <1>1, <1>2, <1>3, <1>4, <1>6, <2>1, <3>2, <3>3, <3>4 DEF FirstKeyInv
  <2>2. CASE last # 1
    <3>1. visits'[1].taken = visits[1].taken /\ visits'[1].key = visits[1].key
      BY <1>2, <1>6, <2>2
    <3> QED BY <1>1, <1>3, <1>4, <1>6, <2>2, <3>1 DEF FirstKeyInv
  <2> QED BY <2>1, <2>2
<1> QED BY <1>7, <1>8 DEF SquashInv

LEMMA SquashAdvances ==
  ASSUME SquashInv, GetNextDictKey
  PROVE  SquashInv'
<1>1. KeysInv /\ FirstKeyInv /\ squash \in SquashState /\ squashing # None
      /\ visits \in Seq(Visit) /\ at = "next"
  BY DEF SquashInv, NoSquash, GetNextDictKey, KeysInv
<1> PICK keys, last : keys = squash.sorted_keys /\ last = Len(visits)
  OBVIOUS
<1>2. /\ keys \in Seq(Nat) /\ Len(keys) \in Nat
      /\ last \in Nat \ {0} /\ last <= Len(keys) /\ last = squash.key_idx + 1
  BY <1>1 DEF SquashState, KeysInv
<1>3. /\ squash' \in SquashState /\ squash'.sorted_keys = keys
      /\ squash'.key_idx = last /\ squash'.accesses_start = squash.accesses_start
      /\ squash'.accesses_for_key = squash.accesses_for_key
  <2>1. squash' = [squash EXCEPT !.key_idx = last, !.access_idx = 0]
    BY <1>2 DEF GetNextDictKey
  <2> QED BY <1>1, <1>2, <2>1 DEF SquashState
<1>4. /\ UNCHANGED <<dicts, dict_index>>
      /\ \A d, key : Made(d, key)' = Made(d, key)
      /\ at' = "ask"
  BY DictsRest DEF GetNextDictKey
<1>5. CASE last < Len(keys)
  <2> PICK key : key = keys[last + 1]
    OBVIOUS
  <2>1. KeyAt(keys, last) = key /\ key \in Nat
    BY <1>2, <1>5 DEF KeyAt
  <2>2. /\ next_key' = key /\ squashing' = squashing
        /\ visits' = Append(visits, [key |-> key, taken |-> {}])
    BY <1>2, <1>5, <2>1 DEF GetNextDictKey
  <2>3. /\ visits' \in Seq(Visit) /\ Len(visits') = last + 1
        /\ visits'[last + 1].key = key
        /\ \A i \in 1 .. last : visits'[i] = visits[i]
    <3> PICK v : v = [key |-> key, taken |-> {}]
      OBVIOUS
    <3>1. v \in Visit /\ v.key = key
      BY <2>1 DEF Visit
    <3>2. visits' = Append(visits, v)
      BY <2>2
    <3>3. visits' \in Seq(Visit)
      BY <1>1, <3>1, <3>2
    <3>4. \E S : visits \in Seq(S)
      BY <1>1
    <3>5. /\ Len(visits') = Len(visits) + 1 /\ visits'[Len(visits) + 1] = v
          /\ \A i \in 1 .. Len(visits) : visits'[i] = visits[i]
      BY <3>2, <3>4, Appended
    <3> QED BY <3>1, <3>3, <3>5
  <2>4. \A i \in 1 .. last + 1 : visits'[i].key = keys[i]
    BY <1>1, <1>2, <2>3 DEF KeysInv
  <2>5. KeysInv'
    <3>1. /\ squash'.accesses_start \in DOMAIN dict_index'
          /\ \A i, j \in 1 .. Len(keys) : i < j => keys[i] < keys[j]
          /\ {keys[i] : i \in 1 .. Len(keys)} = DOMAIN dicts'[squash'.accesses_start]
          /\ squashing' = squash'.accesses_start
      BY <1>1, <1>3, <1>4, <2>2 DEF KeysInv
    <3>2. Len(visits') \in 1 .. Len(keys) /\ Len(visits') = squash'.key_idx + 1
      BY <1>2, <1>3, <1>5, <2>3
    <3>3. next_key' = visits'[Len(visits')].key /\ squashing' # None
      BY <1>1, <2>2, <2>3
    <3> QED BY <1>3, <1>4, <2>3, <2>4, <3>1, <3>2, <3>3 DEF KeysInv
  <2>6. FirstKeyInv'
    <3>1. visits'[1] = visits[1] /\ Len(visits') # 1
      BY <1>2, <2>3
    <3> QED BY <1>1, <1>3, <1>4, <3>1 DEF FirstKeyInv
  <2> QED BY <2>5, <2>6 DEF SquashInv
<1>6. CASE last >= Len(keys)
  <2>1. squashing' = None /\ visits' = visits
    BY <1>2, <1>6 DEF GetNextDictKey
  <2>2. last = Len(keys)
    BY <1>2, <1>6
  <2>3. KeysInv'
    BY <1>1, <1>2, <1>3, <1>4, <2>1, <2>2 DEF KeysInv
  <2>4. FirstKeyInv'
    BY <1>1, <1>3, <1>4, <2>1 DEF FirstKeyInv
  <2> QED BY <2>3, <2>4 DEF SquashInv
<1> QED BY <1>2, <1>5, <1>6

\* Nothing more happens to a dictionary whose arena index was asked for.
LEMMA AskedForRests ==
  ASSUME StayInSegment, Inductive, [Next]_vars, NEW d \in DOMAIN dict_index
  PROVE  /\ d \in DOMAIN dict_index' /\ dicts'[d] = dicts[d]
         /\ \A key : Made(d, key)' = Made(d, key)
<1>0. d \in DOMAIN dicts
  BY DEF Inductive, Shape, FrameShape
<1>1. ASSUME NEW e \in DOMAIN dict_ptr, NEW new \in Values, Felt252DictEntryUpdate(e, new)
      PROVE  /\ dict_index' = dict_index /\ dicts'[d] = dicts[d]
             /\ \A key : Made(d, key)' = Made(d, key)
  <2>1. e # d /\ e \in DOMAIN dicts /\ dict_index' = dict_index
    BY <1>1 DEF Felt252DictEntryUpdate, Live, Inductive, Shape, FrameShape
  <2>2. PICK key \in Nat, value \in Nat :
           /\ dict_accesses' = Append(dict_accesses,
                [step |-> step, key |-> key,
                 prev |-> Lookup(dicts[e], key, 0), new |-> value])
           /\ dicts' = Insert(dicts, e, Insert(dicts[e], key, value))
           /\ owner' = Append(owner, e)
    BY <1>1, UpdateLogs
  <2>3. dicts'[d] = dicts[d]
    BY <1>0, <2>1, <2>2 DEF Insert
  <2>4. /\ AccessesTo(d)' = AccessesTo(d)
        /\ \A j \in AccessesTo(d) : dict_accesses'[j] = dict_accesses[j]
    BY <1>0, <2>1, <2>2, AppendAccess
  <2> QED BY <2>1, <2>3, <2>4 DEF Made
<1>2. CASE ~ \E e \in DOMAIN dict_ptr, new \in Values : Felt252DictEntryUpdate(e, new)
  <2>1. /\ UNCHANGED <<dict_accesses, owner>>
        /\ UNCHANGED dicts \/ dicts' = Insert(dicts, next_segment_base, EmptyMap)
    BY <1>2, OthersDoNotLog
  <2>2. dicts'[d] = dicts[d]
    BY <1>0, <2>1, FreshBase DEF Insert, Inductive
  <2>3. d \in DOMAIN dict_index'
    BY <1>2 DEF Next, vars, frameVars, AllocSegment, AllocFelt252Dict,
       Felt252DictEntryInit, GetSegmentArenaIndex, Insert
  <2> QED BY <2>1, <2>2, <2>3 DEF Made, AccessesTo
<1> QED BY <1>1, <1>2

LEMMA SquashRests ==
  ASSUME StayInSegment, Inductive, SquashInv, [Next]_vars,
         UNCHANGED <<squash, squashing, at, next_key, squashed, visits>>
  PROVE  SquashInv'
<1>1. CASE NoSquash
  BY <1>1 DEF SquashInv, NoSquash
<1>2. CASE KeysInv /\ FirstKeyInv
  <2> PICK d, key : d = squash.accesses_start /\ key = visits[1].key
    OBVIOUS
  <2>1. squash'.accesses_start = d /\ visits'[1].key = key
    OBVIOUS
  <2>2. d \in DOMAIN dict_index
    BY <1>2 DEF KeysInv
  <2>3. d \in DOMAIN dict_index' /\ dicts'[d] = dicts[d] /\ Made(d, key)' = Made(d, key)
    BY <2>2, AskedForRests
  <2>4. KeysInv'
    BY <1>2, <2>1, <2>3 DEF KeysInv
  <2>5. FirstKeyInv'
    BY <1>2, <2>1, <2>3 DEF FirstKeyInv
  <2> QED BY <2>4, <2>5 DEF SquashInv
<1> QED BY <1>1, <1>2 DEF SquashInv

LEMMA SquashStep ==
  ASSUME StayInSegment, Inductive, BusInv, PlaceInv, SideStateIsLastWrite,
         SquashInv, [SquashNext]_squashVars
  PROVE  SquashInv'
<1>1. CASE OtherHint
  BY <1>1, SquashRests DEF OtherHint
<1>2. ASSUME NEW d \in DOMAIN dict_index, InitSquashData(d) PROVE SquashInv'
  BY <1>2, SquashBegins
<1>3. CASE ShouldSkipSquashLoop
  BY <1>3, SquashAsks
<1>4. CASE GetCurrentAccessIndex
  BY <1>4, SquashTakes
<1>5. CASE GetNextDictKey
  BY <1>5, SquashAdvances
<1>6. CASE UNCHANGED squashVars
  BY <1>6, SquashRests DEF squashVars
<1> QED BY <1>1, <1>2, <1>3, <1>4, <1>5, <1>6 DEF SquashNext

\* Between squashes the hints are those of DictHints, so what was proved of them
\* holds here.
LEMMA SquashRefines == SquashSpec => Spec
<1>1. SquashInit => Init
  BY DEF SquashInit
<1>2. [SquashNext]_squashVars => [Next]_vars
  BY DEF SquashNext, squashVars, OtherHint, InitSquashData, ShouldSkipSquashLoop,
     GetCurrentAccessIndex, GetNextDictKey
<1> QED BY <1>1, <1>2, PTL DEF SquashSpec, Spec

LEMMA SquashAlways ==
  ASSUME StayInSegment, ArenaFits, PointersFit
  PROVE  SquashSpec => []SquashInv
<1> DEFINE Hints == Inductive /\ AllHandles /\ ArenaInv /\ OpenInv /\ BusInv
<1>1. SquashSpec => [](Hints /\ SideStateIsLastWrite)
  <2>1. Spec => []Hints
    BY MemoryAlways
  <2> HIDE DEF Hints
  <2> QED BY <2>1, SquashRefines, SideStateCorrect, PTL
<1>2. SquashSpec => []PlaceInv
  <2>1. Hints /\ PlaceInv /\ [Next]_vars => PlaceInv'
    BY PlaceStep
  <2>2. Spec => []Hints
    BY MemoryAlways
  <2> HIDE DEF Hints
  <2> QED BY <2>1, <2>2, PlaceInit, SquashRefines, PTL DEF Spec
<1>3. SquashInit => SquashInv
  BY DEF SquashInit, SquashInv, NoSquash
<1>4. /\ Hints /\ SideStateIsLastWrite /\ PlaceInv /\ SquashInv /\ [SquashNext]_squashVars
      => SquashInv'
  BY SquashStep
<1> HIDE DEF Hints
<1> QED BY <1>1, <1>2, <1>3, <1>4, PTL DEF SquashSpec

\* A squash walks the keys of its dictionary in ascending order, each once, and
\* ends when it has walked them all, whatever was written and in what order.
THEOREM KeysCorrect ==
  ASSUME StayInSegment, ArenaFits, PointersFit
  PROVE  SquashSpec => []KeysVisitedInOrder
<1>1. ASSUME SquashInv PROVE KeysVisitedInOrder
  <2>1. CASE NoSquash
    BY <2>1 DEF NoSquash, KeysVisitedInOrder
  <2>2. CASE KeysInv
    <3> PICK keys, last : keys = squash.sorted_keys /\ last = Len(visits)
      OBVIOUS
    <3>1. /\ last \in 1 .. Len(keys) /\ Len(keys) \in Nat
          /\ \A i \in 1 .. last : visits[i].key = keys[i]
          /\ \A i, j \in 1 .. Len(keys) : i < j => keys[i] < keys[j]
          /\ {keys[i] : i \in 1 .. Len(keys)} = DOMAIN dicts[squash.accesses_start]
      BY <2>2 DEF KeysInv, SquashState
    <3>2. \A i, j \in 1 .. last : i < j => visits[i].key < visits[j].key
      BY <3>1
    <3>3. ASSUME squashing # None
          PROVE  /\ next_key = CurrentKey /\ visits[last].key = CurrentKey
                 /\ {visits[i].key : i \in 1 .. last} \subseteq DOMAIN dicts[squashing]
      <4>1. /\ squashing = squash.accesses_start /\ last = squash.key_idx + 1
            /\ next_key = visits[last].key /\ squash.key_idx \in Nat
        BY <2>2, <3>3 DEF KeysInv, SquashState
      <4>2. CurrentKey = keys[last]
        BY <3>1, <4>1 DEF CurrentKey, KeyAt
      <4> QED BY <3>1, <4>1, <4>2
    <3>4. ASSUME squashing = None
          PROVE  {visits[i].key : i \in 1 .. last} = DOMAIN dicts[squash.accesses_start]
      <4>1. last = Len(keys)
        BY <2>2, <3>4 DEF KeysInv
      <4> QED BY <3>1, <4>1
    <3> QED BY <3>2, <3>3, <3>4 DEF KeysVisitedInOrder
  <2> QED BY <1>1, <2>1, <2>2 DEF SquashInv
<1>2. SquashInv => KeysVisitedInOrder
  BY <1>1
<1> QED BY <1>2, SquashAlways, PTL

\* For the first key the program takes the index of every access the log has of it,
\* and no other, before it is told to stop.
THEOREM FirstKeyCorrect ==
  ASSUME StayInSegment, ArenaFits, PointersFit
  PROVE  SquashSpec => []FirstKeySquashedCompletely
<1>1. ASSUME SquashInv PROVE FirstKeySquashedCompletely
  <2>1. CASE NoSquash
    BY <2>1 DEF NoSquash, FirstKeySquashedCompletely
  <2>2. CASE FirstKeyInv
    <3> SUFFICES ASSUME Len(visits) > 1 \/ squashing = None
                 PROVE  visits[1].taken =
                          0 .. Cardinality(Made(squash.accesses_start, visits[1].key)) - 1
      BY DEF FirstKeySquashedCompletely, Made
    <3>1. ~ (squashing # None /\ Len(visits) = 1 /\ at # "next")
      OBVIOUS
    <3> QED BY <2>2, <3>1 DEF FirstKeyInv
  <2> QED BY <1>1, <2>1, <2>2 DEF SquashInv
<1>2. SquashInv => FirstKeySquashedCompletely
  BY <1>1
<1> QED BY <1>2, SquashAlways, PTL
=============================================================================
