--------------------------- MODULE DictProofProofs ---------------------------
(***************************************************************************)
(* Proofs about the dictionary part of the prover, for logs of any length. *)
(* The log is that of a run with cross-contract calls, to every depth of   *)
(* the call tree: the hints of a callee keep what DictHintsProofs shows of *)
(* a program's own, and the suspended frames join the invariant.           *)
(* verify_chain rebuilds the dictionary from the log as the side-state was *)
(* built from the hints; with one dictionary the two cannot disagree.  A   *)
(* log that passes it meets the sub-AIR, and without contract calls it is  *)
(* what the columns and the memory of the main trace hold as well.         *)
(***************************************************************************)
EXTENDS DictProof, DictHintsProofs, WellFoundedInduction

-----------------------------------------------------------------------------
\* Dictionaries under cross-contract calls.

\* A suspended frame still fits the shared context: its handles are of
\* dictionaries that are there and have not left their segments.
Resumable(f) ==
  /\ IsMap(f.memory, Nat, Felt) /\ f.step \in Nat
  /\ DOMAIN f.dict_ptr \subseteq DOMAIN dicts
  /\ f.dict_ptr \in [DOMAIN f.dict_ptr -> Nat]
  /\ f.entry \in [DOMAIN f.dict_ptr -> Keys \cup {None}]
  /\ DOMAIN f.dict_index \subseteq DOMAIN f.dict_ptr
  /\ \A d \in DOMAIN f.dict_index : f.dict_index[d] \in Nat
  /\ HandlesInside(f.dict_ptr, f.entry)

\* What holds of the whole call tree.
CallersInv ==
  /\ \E S : callers \in Seq(S)
  /\ \A i \in 1 .. Len(callers) :
       /\ Resumable(callers[i])
       /\ DOMAIN callers[i].dict_ptr \cap DOMAIN dict_ptr = {}
  /\ \A i, j \in 1 .. Len(callers) :
       i # j => DOMAIN callers[i].dict_ptr \cap DOMAIN callers[j].dict_ptr = {}

CallsInductive == Inductive /\ CallersInv

\* A hint drops no dictionary, and takes a handle of none but a new one.
LEMMA HandlesGrow ==
  ASSUME Inductive, [Next]_vars
  PROVE  /\ DOMAIN dicts \subseteq DOMAIN dicts'
         /\ DOMAIN dict_ptr' \subseteq DOMAIN dict_ptr \cup {next_segment_base}
<1>1. CASE AllocFelt252Dict
  <2>1. /\ dicts' = Insert(dicts, next_segment_base, EmptyMap)
        /\ dict_ptr' = Insert(dict_ptr, next_segment_base, next_segment_base)
    BY <1>1 DEF AllocFelt252Dict
  <2> QED BY <2>1 DEF Insert
<1>2. ASSUME NEW d \in DOMAIN dict_ptr, NEW new \in Values, Felt252DictEntryUpdate(d, new)
      PROVE  DOMAIN dicts' = DOMAIN dicts /\ DOMAIN dict_ptr' = DOMAIN dict_ptr
  <2>1. dict_ptr' = [dict_ptr EXCEPT ![d] = dict_ptr[d] + ENTRY_SIZE]
    BY <1>2 DEF Felt252DictEntryUpdate
  <2> QED BY <1>2, <2>1, EntryUpdateKeepsDicts
<1>3. CASE ~ AllocFelt252Dict /\
           ~ \E d \in DOMAIN dict_ptr, new \in Values : Felt252DictEntryUpdate(d, new)
  BY <1>3 DEF Next, vars, ctxVars, frameVars, AllocSegment, Felt252DictEntryInit,
     GetSegmentArenaIndex
<1> QED BY <1>1, <1>2, <1>3

LEMMA CallsInitInductive == CallsInit => CallsInductive
<1> SUFFICES ASSUME CallsInit PROVE CallsInductive
  OBVIOUS
<1>1. Inductive
  BY InductiveInit DEF CallsInit
<1>2. callers = <<>> /\ callers \in Seq({}) /\ Len(callers) = 0
  BY DEF CallsInit
<1> QED BY <1>1, <1>2 DEF CallsInductive, CallersInv

\* A frame that holds no handles fits any shared context.
LEMMA FreshFrameInductive ==
  ASSUME Inductive, FreshFrame, SharedContext
  PROVE  Inductive' /\ DOMAIN dict_ptr' = {}
<1> USE DEF SharedContext, ctxVars, logVars
<1>1. /\ DOMAIN dict_ptr' = {} /\ DOMAIN entry' = {} /\ DOMAIN dict_index' = {}
      /\ dict_ptr' = EmptyMap /\ entry' = EmptyMap
  BY EmptyIsMap DEF FreshFrame
<1>2. IsMap(memory', Nat, Felt) /\ step' \in Nat
  <2>1. PICK p \in InfosPtrs : memory' = set(EmptyMap, ArenaPtr, p)
    BY DEF FreshFrame
  <2> QED BY <2>1, LayoutAssumption, EmptyIsMap, MemoryType DEF FreshFrame
<1>3. CtxTypeOK' /\ LogTypeOK'
  BY DEF Inductive, Shape, CtxTypeOK, LogTypeOK
<1>4. FrameShape'
  BY <1>1, <1>2 DEF FrameShape, EmptyMap
<1>5. SegmentsOwned'
  BY <1>1 DEF Inductive, SegmentsOwned, HandlesInside
<1> QED BY <1>1, <1>3, <1>4, <1>5 DEF Inductive, Shape

\* A frame that is suspended can be resumed later: whatever its callee does, no
\* dictionary is dropped.
LEMMA StaysResumable ==
  ASSUME NEW f, Resumable(f), DOMAIN dicts \subseteq DOMAIN dicts'
  PROVE  Resumable(f)'
BY DEF Resumable

LEMMA EnterKeeps ==
  ASSUME CallsInductive, EnterCallee
  PROVE  CallsInductive'
<1>1. Inductive' /\ DOMAIN dict_ptr' = {}
  BY FreshFrameInductive DEF CallsInductive, EnterCallee
<1> PICK n, f : n = Len(callers) /\ f = Frame
  OBVIOUS
<1>2. callers' = Append(callers, f) /\ UNCHANGED dicts
  BY DEF EnterCallee, SharedContext, ctxVars
<1> PICK S : callers \in Seq(S)
  BY DEF CallsInductive, CallersInv
<1>3. /\ n \in Nat /\ Len(callers') = n + 1 /\ callers'[n + 1] = f
      /\ \A i \in 1 .. n : callers'[i] = callers[i]
      /\ callers' \in Seq(S \cup {f})
  <2> PICK T : T = S \cup {f}
    OBVIOUS
  <2>1. callers \in Seq(T) /\ f \in T
    BY SeqMonotonic
  <2> QED BY <1>2, <2>1, AppendProperties
<1>4. Resumable(f)
  BY DEF Frame, CallsInductive, Inductive, Shape, FrameShape, SegmentsOwned, Resumable
<1>5. f.dict_ptr = dict_ptr
  BY DEF Frame
<1>6. \A i \in 1 .. n + 1 : Resumable(callers'[i])
  BY <1>3, <1>4 DEF CallsInductive, CallersInv
<1>7. \A i, j \in 1 .. n + 1 :
        i # j => DOMAIN callers'[i].dict_ptr \cap DOMAIN callers'[j].dict_ptr = {}
  BY <1>3, <1>5 DEF CallsInductive, CallersInv
<1>8. \A g : Resumable(g)' <=> Resumable(g)
  BY <1>2 DEF Resumable
<1> QED BY <1>1, <1>3, <1>6, <1>7, <1>8 DEF CallsInductive, CallersInv

\* Returning from a call leaves the caller as it was, beside what the callee added
\* to the shared context.
LEMMA LeaveKeeps ==
  ASSUME CallsInductive, LeaveCallee
  PROVE  CallsInductive'
<1> PICK n, f : n = Len(callers) /\ f = callers[n]
  OBVIOUS
<1> PICK S : callers \in Seq(S)
  BY DEF CallsInductive, CallersInv
<1>1. /\ callers' = SubSeq(callers, 1, n - 1)
      /\ memory' = f.memory /\ step' = f.step + 1 /\ dict_ptr' = f.dict_ptr
      /\ entry' = f.entry /\ dict_index' = f.dict_index
      /\ UNCHANGED <<next_segment_base, dicts, dicts_felt, dict_arena_info, dict_accesses,
                     dict_access_pointers, dict_accesses_felt, owner>>
  BY DEF LeaveCallee, SharedContext, ctxVars, logVars
<1>2. n \in Nat /\ n # 0
  BY EmptySeq DEF LeaveCallee, InCallee
<1>3. /\ callers' \in Seq(S) /\ Len(callers') = n - 1
      /\ \A i \in 1 .. n - 1 : callers'[i] = callers[i]
  <2>1. n - 1 \in 1 - 1 .. n /\ 1 \in 1 .. n + 1
    BY <1>2
  <2> QED BY <1>1, <1>2, <2>1, SubSeqProperties
<1>4. Resumable(f) /\ n \in 1 .. n
  BY <1>2 DEF CallsInductive, CallersInv
<1>5. Inductive'
  <2>1. CtxTypeOK' /\ LogTypeOK'
    BY <1>1 DEF CallsInductive, Inductive, Shape, CtxTypeOK, LogTypeOK
  <2>2. FrameShape'
    BY <1>1, <1>4 DEF Resumable, FrameShape
  <2>3. SegmentsOwned'
    BY <1>1, <1>4 DEF Resumable, CallsInductive, Inductive, SegmentsOwned
  <2> QED BY <2>1, <2>2, <2>3 DEF Inductive, Shape
<1>6. \A i \in 1 .. n - 1 :
        Resumable(callers'[i]) /\ DOMAIN callers'[i].dict_ptr \cap DOMAIN dict_ptr' = {}
  BY <1>1, <1>2, <1>3 DEF CallsInductive, CallersInv
<1>7. \A i, j \in 1 .. n - 1 :
        i # j => DOMAIN callers'[i].dict_ptr \cap DOMAIN callers'[j].dict_ptr = {}
  BY <1>2, <1>3 DEF CallsInductive, CallersInv
<1>8. \A g : Resumable(g)' <=> Resumable(g)
  BY <1>1 DEF Resumable
<1> QED BY <1>3, <1>5, <1>6, <1>7, <1>8 DEF CallsInductive, CallersInv

LEMMA HintKeeps ==
  ASSUME CallsInductive, [Next]_vars, UNCHANGED callers
  PROVE  CallsInductive'
<1>1. Inductive'
  BY InductiveStep DEF CallsInductive
<1>2. /\ DOMAIN dicts \subseteq DOMAIN dicts'
      /\ DOMAIN dict_ptr' \subseteq DOMAIN dict_ptr \cup {next_segment_base}
  BY HandlesGrow DEF CallsInductive
<1>3. next_segment_base \notin DOMAIN dicts
  BY FreshBase DEF CallsInductive, Inductive
<1>4. ASSUME NEW i \in 1 .. Len(callers)
      PROVE  /\ Resumable(callers[i])'
             /\ DOMAIN callers[i].dict_ptr \cap DOMAIN dict_ptr' = {}
  <2> PICK f : f = callers[i]
    OBVIOUS
  <2>1. Resumable(f) /\ DOMAIN f.dict_ptr \cap DOMAIN dict_ptr = {}
    BY DEF CallsInductive, CallersInv
  <2>2. Resumable(f)'
    BY <1>2, <2>1, StaysResumable
  <2>3. next_segment_base \notin DOMAIN f.dict_ptr
    BY <1>3, <2>1 DEF Resumable
  <2> QED BY <1>2, <2>1, <2>2, <2>3
<1> QED BY <1>1, <1>4 DEF CallsInductive, CallersInv

LEMMA CallsStep == CallsInductive /\ [CallsNext]_callVars => CallsInductive'
<1>1. CallsInductive /\ [Next]_vars /\ UNCHANGED callers => CallsInductive'
  BY HintKeeps
<1> QED BY <1>1, EnterKeeps, LeaveKeeps DEF CallsNext, RunHint, callVars

LEMMA CallsAlways == CallsSpec => []CallsInductive
BY CallsInitInductive, CallsStep, PTL DEF CallsSpec

\* Wherever the calls stand, no two frames hold a handle of the same dictionary,
\* and every handle is of a dictionary the shared context still has: a callee can
\* neither advance nor squash its caller's, at any depth.
THEOREM FramesCorrect == CallsSpec => []FramesOwnTheirDicts
<1>1. CallsInductive => FramesOwnTheirDicts
  <2> SUFFICES ASSUME CallsInductive PROVE FramesOwnTheirDicts
    OBVIOUS
  <2> PICK n : n = Len(callers)
    OBVIOUS
  <2>1. n \in Nat
    BY DEF CallsInductive, CallersInv
  <2>2. /\ \A i \in 1 .. n : FrameHandles(i) = DOMAIN callers[i].dict_ptr
        /\ FrameHandles(n + 1) = DOMAIN dict_ptr
    BY <2>1 DEF FrameHandles
  <2>3. DOMAIN dict_ptr \subseteq DOMAIN dicts
    BY DEF CallsInductive, Inductive, Shape, FrameShape
  <2>4. \A i \in 1 .. n : /\ DOMAIN callers[i].dict_ptr \subseteq DOMAIN dicts
                          /\ DOMAIN callers[i].dict_ptr \cap DOMAIN dict_ptr = {}
    BY DEF CallsInductive, CallersInv, Resumable
  <2>5. \A i, j \in 1 .. n :
          i # j => DOMAIN callers[i].dict_ptr \cap DOMAIN callers[j].dict_ptr = {}
    BY DEF CallsInductive, CallersInv
  <2>6. \A i \in 1 .. n + 1 : i \in 1 .. n \/ i = n + 1
    BY <2>1
  <2> QED BY <2>2, <2>3, <2>4, <2>5, <2>6 DEF FramesOwnTheirDicts, call_depth
<1> QED BY <1>1, CallsAlways, PTL

-----------------------------------------------------------------------------
\* The log and the side-states of a call tree.

\* Only hints touch the log and the side-states.
LEMMA CallsLog ==
  ASSUME [CallsNext]_callVars
  PROVE  [Next]_vars \/ UNCHANGED <<dicts, dict_accesses, owner>>
BY DEF CallsNext, RunHint, EnterCallee, LeaveCallee, SharedContext, callVars, ctxVars, logVars

\* Across a call tree, each side-state is what the shared log wrote last to its
\* dictionary, and each access starts from what the one before it wrote, although
\* frames come and go between the two.
THEOREM CallsLogCorrect ==
  ASSUME StayInSegment
  PROVE  CallsSpec => [](SideStateIsLastWrite /\ ChainPerDict)
<1> DEFINE Log == SideStateIsLastWrite /\ ChainPerDict
<1>1. CallsInit => Log
  BY DEF CallsInit, Init, SideStateIsLastWrite, ChainPerDict, EmptyMap
<1>2. CallsInductive /\ Log /\ [CallsNext]_callVars => Log'
  <2> SUFFICES ASSUME CallsInductive, Log, [CallsNext]_callVars PROVE Log'
    OBVIOUS
  <2>1. CASE [Next]_vars
    BY <2>1, SideStateStep, ChainStep DEF CallsInductive
  <2>2. CASE UNCHANGED <<dicts, dict_accesses, owner>>
    BY <2>2 DEF SideStateIsLastWrite, ChainPerDict, AccessesTo, Earlier
  <2> QED BY <2>1, <2>2, CallsLog
<1> HIDE DEF Log
<1>3. CallsSpec => []Log
  BY <1>1, <1>2, CallsAlways, PTL DEF CallsSpec
<1> QED BY <1>3, PTL DEF Log

-----------------------------------------------------------------------------
\* The log and the prover.

\* Induction over the naturals: what fails somewhere fails first somewhere.
LEMMA LeastNumber ==
  ASSUME NEW S, S \subseteq Nat, S # {}
  PROVE  \E n \in S : \A m \in S : n <= m
<1> DEFINE R == {p \in Nat \X Nat : p[1] < p[2]}
<1>1. IsWellFoundedOn(R, Nat)
  BY NatLessThanWellFounded DEF OpToRel
<1> HIDE DEF R
<1>2. PICK n \in S : \A m \in S : ~ (<<m, n>> \in R)
  BY <1>1, WFMin
<1>3. \A m \in S : ~ (m < n)
  BY <1>2 DEF R
<1> QED BY <1>3

-----------------------------------------------------------------------------
\* The map verify_chain rebuilds.

\* f holds, after each of the first n accesses, what they wrote.
Rebuilds(f, log, n) ==
  f = [i \in 0 .. n |-> IF i = 0 THEN EmptyMap
                        ELSE Insert(f[i - 1], log[i].key, log[i].new)]

\* Access j is the last of the first i to its key.
LastTo(log, i, k, j) ==
  /\ j \in 1 .. i /\ log[j].key = k
  /\ \A h \in 1 .. i : log[h].key = k => h <= j

\* What the map says of key k after i accesses.
Agrees(map, log, i, k) ==
  \/ k \notin DOMAIN map /\ \A j \in 1 .. i : log[j].key # k
  \/ k \in DOMAIN map /\ \E j \in 1 .. i : LastTo(log, i, k, j) /\ map[k] = log[j].new

\* The recursion of verify_chain has a solution at every length.
LEMMA RebuildExists ==
  ASSUME NEW log, NEW n \in Nat
  PROVE  \E f : Rebuilds(f, log, n)
<1> DEFINE Fails == {m \in Nat : ~ \E f : Rebuilds(f, log, m)}
<1> SUFFICES ASSUME Fails # {} PROVE FALSE
  OBVIOUS
<1>1. PICK m \in Fails : \A l \in Fails : m <= l
  <2>1. Fails \subseteq Nat
    OBVIOUS
  <2> HIDE DEF Fails
  <2> QED BY <2>1, LeastNumber
<1>2. CASE m = 0
  <2> DEFINE f == [i \in 0 .. 0 |-> EmptyMap]
  <2>1. Rebuilds(f, log, 0)
    BY DEF Rebuilds
  <2> QED BY <1>2, <2>1
<1>3. CASE m # 0
  <2>1. m \in Nat /\ m - 1 \in Nat /\ m - 1 \notin Fails
    BY <1>1, <1>3
  <2>2. PICK f : Rebuilds(f, log, m - 1)
    BY <2>1
  <2> DEFINE g == [i \in 0 .. m |-> IF i = m THEN Insert(f[m - 1], log[m].key, log[m].new) ELSE f[i]]
  <2>3. \A i \in 0 .. m : g[i] = IF i = 0 THEN EmptyMap ELSE Insert(g[i - 1], log[i].key, log[i].new)
    <3> TAKE i \in 0 .. m
    <3>1. CASE i = 0
      <4>1. 0 \in 0 .. m - 1 /\ i # m
        BY <1>3, <2>1, <3>1
      <4> QED BY <2>2, <3>1, <4>1 DEF Rebuilds
    <3>2. CASE i = m
      <4>1. g[i - 1] = f[m - 1]
        BY <2>1, <3>2
      <4> QED BY <1>3, <3>2, <4>1
    <3>3. CASE i # 0 /\ i # m
      <4>1. i \in 0 .. m - 1 /\ i - 1 \in 0 .. m /\ i - 1 # m
        BY <2>1, <3>3
      <4>2. g[i] = f[i] /\ g[i - 1] = f[i - 1]
        BY <3>3, <4>1
      <4>3. f[i] = Insert(f[i - 1], log[i].key, log[i].new)
        BY <2>2, <3>3, <4>1 DEF Rebuilds
      <4> QED BY <3>3, <4>2, <4>3
    <3> QED BY <3>1, <3>2, <3>3
  <2>4. Rebuilds(g, log, m)
    BY <2>3 DEF Rebuilds
  <2> QED BY <1>1, <2>4
<1> QED BY <1>2, <1>3

\* One more access: the key it touches has its value, the others keep theirs.
LEMMA InsertAgrees ==
  ASSUME NEW map, NEW log, NEW i \in Nat \ {0}, NEW k, Agrees(map, log, i - 1, k)
  PROVE  Agrees(Insert(map, log[i].key, log[i].new), log, i, k)
<1> PICK a, v, w : a = log[i].key /\ v = log[i].new /\ w = Insert(map, a, v)
  OBVIOUS
<1>1. DOMAIN w = DOMAIN map \cup {a} /\ w[a] = v /\ \A x \in DOMAIN map : x # a => w[x] = map[x]
  BY DEF Insert
<1>2. CASE k = a
  <2>1. LastTo(log, i, k, i)
    BY <1>2 DEF LastTo
  <2> QED BY <1>1, <1>2, <2>1 DEF Agrees
<1>3. CASE k # a /\ k \notin DOMAIN map
  <2>1. \A j \in 1 .. i - 1 : log[j].key # k
    BY <1>3 DEF Agrees
  <2>2. \A j \in 1 .. i : log[j].key # k
    BY <1>3, <2>1
  <2> QED BY <1>1, <1>3, <2>2 DEF Agrees
<1>4. CASE k # a /\ k \in DOMAIN map
  <2>1. PICK j \in 1 .. i - 1 : LastTo(log, i - 1, k, j) /\ map[k] = log[j].new
    BY <1>4 DEF Agrees
  <2>2. LastTo(log, i, k, j)
    BY <1>4, <2>1 DEF LastTo
  <2> QED BY <1>1, <1>4, <2>1, <2>2 DEF Agrees
<1> QED BY <1>2, <1>3, <1>4

LEMMA RebuildAgrees ==
  ASSUME NEW log, NEW n \in Nat, NEW f, Rebuilds(f, log, n), NEW k, NEW i \in 0 .. n
  PROVE  Agrees(f[i], log, i, k)
<1> DEFINE Fails == {m \in 0 .. n : ~ Agrees(f[m], log, m, k)}
<1> SUFFICES ASSUME Fails # {} PROVE FALSE
  OBVIOUS
<1>1. PICK m \in Fails : \A l \in Fails : m <= l
  <2>1. Fails \subseteq Nat
    OBVIOUS
  <2> HIDE DEF Fails
  <2> QED BY <2>1, LeastNumber
<1>2. m # 0
  <2>1. f[0] = EmptyMap
    BY DEF Rebuilds
  <2>2. Agrees(f[0], log, 0, k)
    BY <2>1 DEF Agrees, EmptyMap
  <2> QED BY <1>1, <2>2
<1>3. m \in Nat \ {0} /\ m - 1 \in 0 .. n /\ m - 1 \notin Fails
  BY <1>1, <1>2
<1>4. Agrees(f[m - 1], log, m - 1, k)
  BY <1>3
<1>5. f[m] = Insert(f[m - 1], log[m].key, log[m].new)
  BY <1>1, <1>2 DEF Rebuilds
<1>6. Agrees(f[m], log, m, k)
  BY <1>3, <1>4, <1>5, InsertAgrees
<1> QED BY <1>1, <1>6

-----------------------------------------------------------------------------
\* A chained log of one dictionary passes verify_chain.

LEMMA OneDictChains ==
  ASSUME LogTypeOK, ChainPerDict,
         \A i, j \in 1 .. Len(dict_accesses) : owner[i] = owner[j]
  PROVE  verify_chain(dict_accesses)
<1> PICK log, n : log = dict_accesses /\ n = Len(log)
  OBVIOUS
<1>1. n \in Nat /\ Len(owner) = n
  BY DEF LogTypeOK
<1> DEFINE Built == CHOOSE f : Rebuilds(f, log, n)
<1>2. Rebuilds(Built, log, n)
  BY <1>1, RebuildExists
<1> HIDE DEF Built
<1>3. ASSUME NEW i \in 1 .. n PROVE log[i].prev = Lookup(Built[i - 1], log[i].key, 0)
  <2> PICK k, map : k = log[i].key /\ map = Built[i - 1]
    OBVIOUS
  <2>1. Agrees(map, log, i - 1, k)
    <3> PICK m, f : m = i - 1 /\ f = Built
      OBVIOUS
    <3>1. m \in 0 .. n /\ Rebuilds(f, log, n)
      BY <1>1, <1>2
    <3>2. Agrees(f[m], log, m, k)
      BY <1>1, <3>1, RebuildAgrees
    <3> QED BY <3>2
  <2>2. \A j : j \in Earlier(i) <=> j \in 1 .. i - 1 /\ log[j].key = k
    BY <1>1 DEF Earlier, AccessesTo
  <2>3. \/ Earlier(i) = {} /\ log[i].prev = 0
        \/ \E j \in Earlier(i) : /\ \A h \in Earlier(i) : h <= j
                                 /\ log[i].prev = log[j].new
    BY DEF ChainPerDict
  <2>4. CASE k \notin DOMAIN map
    <3>1. Earlier(i) = {}
      BY <2>1, <2>2, <2>4 DEF Agrees
    <3> QED BY <2>3, <2>4, <3>1 DEF Lookup
  <2>5. CASE k \in DOMAIN map
    <3>1. PICK j \in 1 .. i - 1 : LastTo(log, i - 1, k, j) /\ map[k] = log[j].new
      BY <2>1, <2>5 DEF Agrees
    <3>2. j \in Earlier(i) /\ \A h \in Earlier(i) : h <= j
      BY <2>2, <3>1 DEF LastTo
    <3>3. PICK l \in Earlier(i) : (\A h \in Earlier(i) : h <= l) /\ log[i].prev = log[l].new
      BY <2>3, <3>2
    <3>4. l = j
      BY <1>1, <2>2, <3>1, <3>2, <3>3
    <3> QED BY <2>5, <3>1, <3>3, <3>4 DEF Lookup
  <2> QED BY <2>4, <2>5
<1> QED BY <1>1, <1>3 DEF verify_chain, Built, Rebuilds, Indices

-----------------------------------------------------------------------------
\* The proof step and the verifier's step leave the run as it is.

LEMMA ProofRefines == ProofSpec => CallsSpec
<1>1. ProofInit => CallsInit
  BY DEF ProofInit
<1>2. [ProofNext]_proofVars => [CallsNext]_callVars
  BY DEF ProofNext, Execute, ProveDicts, VerifyDicts, proofVars
<1> QED BY <1>1, <1>2, PTL DEF ProofSpec, CallsSpec

\* The prover's refusal stands for what verify_chain said of the log.
RefusalIsChain == outcome = "DictConsistencyViolation" => ~verify_chain(dict_accesses)

LEMMA RefusalStep ==
  ASSUME RefusalIsChain, [ProofNext]_proofVars
  PROVE  RefusalIsChain'
<1>1. CASE Execute
  BY <1>1 DEF Execute, RefusalIsChain
<1>2. CASE ProveDicts
  <2>1. outcome' = ProverGate /\ dict_accesses' = dict_accesses
    BY <1>2 DEF ProveDicts, callVars, vars, ctxVars, logVars
  <2>2. ProverGate = "DictConsistencyViolation" => ~verify_chain(dict_accesses)
    BY DEF ProverGate
  <2> QED BY <2>1, <2>2 DEF RefusalIsChain
<1>3. CASE VerifyDicts
  BY <1>3 DEF VerifyDicts, RefusalIsChain
<1>4. CASE UNCHANGED proofVars
  <2>1. outcome' = outcome /\ dict_accesses' = dict_accesses
    BY <1>4 DEF proofVars, callVars, vars, logVars
  <2> QED BY <2>1 DEF RefusalIsChain
<1> QED BY <1>1, <1>2, <1>3, <1>4 DEF ProofNext

\* Dictionaries stand below the allocator, so there are finitely many.
LEMMA FewDictsOneOwner ==
  ASSUME CallsInductive, Cardinality(DOMAIN dicts) <= 1
  PROVE  \A i, j \in 1 .. Len(dict_accesses) : owner[i] = owner[j]
<1>1. IsFiniteSet(DOMAIN dicts)
  <2>1. \A d \in DOMAIN dicts : d \in 0 .. next_segment_base
    BY LayoutAssumption DEF CallsInductive, Inductive, Shape, CtxTypeOK, SegmentsOwned
  <2>2. next_segment_base \in Nat
    BY DEF CallsInductive, Inductive, Shape, CtxTypeOK
  <2>3. IsFiniteSet(0 .. next_segment_base)
    BY <2>2, FS_Interval
  <2> QED BY <2>1, <2>3, FS_Subset
<1>2. Cardinality(DOMAIN dicts) \in {0, 1}
  BY <1>1, FS_CardinalityType
<1>3. \A d, e \in DOMAIN dicts : d = e
  <2>1. CASE Cardinality(DOMAIN dicts) = 0
    BY <1>1, <2>1, FS_EmptySet
  <2>2. CASE Cardinality(DOMAIN dicts) = 1
    BY <1>1, <2>2, FS_Singleton
  <2> QED BY <1>2, <2>1, <2>2
<1>4. \A i \in 1 .. Len(dict_accesses) : owner[i] \in DOMAIN dicts
  BY ElementOfSeq DEF CallsInductive, Inductive, Shape, LogTypeOK
<1> QED BY <1>3, <1>4

\* prover.rs:49, dict_consistency.rs: however long the run, whatever it calls
\* and whatever it writes, a run of at most one dictionary is never refused
\* with DictConsistencyViolation.  With two, TLC has the counterexample.
THEOREM ChainCheckCorrect ==
  ASSUME StayInSegment
  PROVE  ProofSpec => []OneDictNeverRefused
<1>1. ProofInit => RefusalIsChain
  BY DEF ProofInit, RefusalIsChain
<1>2. RefusalIsChain /\ [ProofNext]_proofVars => RefusalIsChain'
  BY RefusalStep
<1>3. ProofSpec => []RefusalIsChain
  BY <1>1, <1>2, PTL DEF ProofSpec
<1>4. CallsInductive /\ SideStateIsLastWrite /\ ChainPerDict /\ RefusalIsChain => OneDictNeverRefused
  <2> SUFFICES ASSUME CallsInductive, ChainPerDict, RefusalIsChain, Cardinality(DOMAIN dicts) <= 1
               PROVE  outcome # "DictConsistencyViolation"
    BY DEF OneDictNeverRefused
  <2>1. LogTypeOK
    BY DEF CallsInductive, Inductive, Shape
  <2>2. verify_chain(dict_accesses)
    BY <2>1, FewDictsOneOwner, OneDictChains
  <2> QED BY <2>2 DEF RefusalIsChain
<1> QED BY <1>3, <1>4, ProofRefines, CallsAlways, CallsLogCorrect, PTL

-----------------------------------------------------------------------------
\* The rows of the traces.

RowsOf(f, n) == f = [m \in 1 .. n |-> IF m = 1 THEN 1 ELSE 2 * f[(m + 1) \div 2]]

LEMMA RowsExist ==
  ASSUME NEW n \in Nat
  PROVE  \E f : RowsOf(f, n)
<1> DEFINE Fails == {m \in Nat : ~ \E f : RowsOf(f, m)}
<1> SUFFICES ASSUME Fails # {} PROVE FALSE
  OBVIOUS
<1>1. PICK m \in Fails : \A l \in Fails : m <= l
  <2>1. Fails \subseteq Nat
    OBVIOUS
  <2> HIDE DEF Fails
  <2> QED BY <2>1, LeastNumber
<1>2. CASE m = 0
  <2> DEFINE f == [i \in 1 .. 0 |-> 0]
  <2>1. RowsOf(f, 0)
    BY DEF RowsOf
  <2> QED BY <1>2, <2>1
<1>3. CASE m # 0
  <2>1. m \in Nat /\ m - 1 \in Nat /\ m - 1 \notin Fails
    BY <1>1, <1>3
  <2>2. PICK f : RowsOf(f, m - 1)
    BY <2>1
  <2> DEFINE g == [i \in 1 .. m |-> IF i = m THEN (IF m = 1 THEN 1 ELSE 2 * f[(m + 1) \div 2]) ELSE f[i]]
  <2>3. \A i \in 1 .. m : g[i] = IF i = 1 THEN 1 ELSE 2 * g[(i + 1) \div 2]
    <3> TAKE i \in 1 .. m
    <3> PICK h : h = (i + 1) \div 2
      OBVIOUS
    <3>1. CASE i = 1
      <4>1. CASE m = 1
        BY <3>1, <4>1
      <4>2. CASE m # 1
        <5>1. 1 \in 1 .. m - 1 /\ i # m
          BY <2>1, <3>1, <4>2
        <5> QED BY <2>2, <3>1, <5>1 DEF RowsOf
      <4> QED BY <4>1, <4>2
    <3>2. CASE i # 1
      <4>1. h \in 1 .. m - 1 /\ h \in 1 .. m /\ h # m
        BY <2>1, <3>2
      <4>2. g[h] = f[h]
        BY <4>1
      <4>3. CASE i = m
        BY <3>2, <4>2, <4>3
      <4>4. CASE i # m
        <5>1. i \in 1 .. m - 1
          BY <2>1, <4>4
        <5>2. f[i] = 2 * f[h]
          BY <2>2, <3>2, <5>1 DEF RowsOf
        <5> QED BY <3>2, <4>2, <4>4, <5>2
      <4> QED BY <4>3, <4>4
    <3> QED BY <3>1, <3>2
  <2>4. RowsOf(g, m)
    BY <2>3 DEF RowsOf
  <2> QED BY <1>1, <2>4
<1> QED BY <1>2, <1>3

LEMMA RowsSuffice ==
  ASSUME NEW log, Len(log) \in Nat \ {0}
  PROVE  DictRows(log) \in Nat /\ Len(log) <= DictRows(log)
<1> PICK n : n = Len(log)
  OBVIOUS
<1> DEFINE f == CHOOSE g : RowsOf(g, n)
           Fails == {m \in 1 .. n : ~(f[m] \in Nat /\ m <= f[m])}
<1>1. n \in Nat \ {0} /\ RowsOf(f, n)
  BY RowsExist
<1>2. DictRows(log) = f[n]
  BY DEF DictRows, RowsOf
<1> HIDE DEF f
<1>3. Fails = {}
  <2> SUFFICES ASSUME Fails # {} PROVE FALSE
    OBVIOUS
  <2>1. PICK m \in Fails : \A l \in Fails : m <= l
    <3>1. Fails \subseteq Nat
      OBVIOUS
    <3> HIDE DEF Fails
    <3> QED BY <3>1, LeastNumber
  <2>2. m # 1
    BY <1>1, <2>1 DEF RowsOf
  <2>3. PICK h : h = (m + 1) \div 2
    OBVIOUS
  <2>4. h \in 1 .. n /\ h < m /\ m <= 2 * h
    BY <1>1, <2>1, <2>2, <2>3
  <2>5. f[h] \in Nat /\ h <= f[h]
    BY <2>1, <2>4
  <2>6. f[m] = 2 * f[h]
    BY <1>1, <2>1, <2>2, <2>3 DEF RowsOf
  <2>7. PICK x : x = f[h]
    OBVIOUS
  <2>8. f[m] \in Nat /\ m <= f[m]
    BY <2>1, <2>4, <2>5, <2>6, <2>7
  <2> QED BY <2>1, <2>8
<1> QED BY <1>1, <1>2, <1>3

-----------------------------------------------------------------------------
\* Sorting: places are as many as accesses, so each is taken.

Precedes(log, i, j) == log[i].key < log[j].key \/ (log[i].key = log[j].key /\ i < j)

\* s holds the accesses of the log, each once, in the order of their keys.
InOrder(log, n, s) ==
  /\ \A i \in 1 .. n : SortedPlace(log, i) \in 1 .. n
  /\ \A i, h \in 1 .. n : SortedPlace(log, i) < SortedPlace(log, h) <=> Precedes(log, i, h)
  /\ \A i, h \in 1 .. n : SortedPlace(log, i) = SortedPlace(log, h) => i = h
  /\ \A q \in 1 .. n : \E i \in 1 .. n : SortedPlace(log, i) = q /\ s[q] = log[i]

LEMMA SortedPlaces ==
  ASSUME NEW log, NEW n \in Nat, n = Len(log), \A i \in 1 .. n : log[i].key \in Nat
  PROVE  InOrder(log, n, sorted_log(log))
<1> DEFINE Upto(i) == {j \in 1 .. n : \/ log[j].key < log[i].key
                                      \/ log[j].key = log[i].key /\ j <= i}
           place == [i \in 1 .. n |-> SortedPlace(log, i)]
<1>1. \A i : SortedPlace(log, i) = Cardinality(Upto(i))
  BY DEF SortedPlace, Indices
<1>2. IsFiniteSet(1 .. n) /\ Cardinality(1 .. n) = n
  <2>1. 1 \in Int /\ n \in Int
    OBVIOUS
  <2>2. IsFiniteSet(1 .. n) /\ Cardinality(1 .. n) = IF 1 > n THEN 0 ELSE n - 1 + 1
    BY <2>1, FS_Interval
  <2> QED BY <2>2
<1>3. ASSUME NEW i \in 1 .. n
      PROVE  IsFiniteSet(Upto(i)) /\ Cardinality(Upto(i)) \in 1 .. n
  <2> PICK T : T = Upto(i)
    OBVIOUS
  <2>1. T \in SUBSET (1 .. n) /\ i \in T
    OBVIOUS
  <2>2. IsFiniteSet(T) /\ Cardinality(T) <= n
    BY <1>2, <2>1, FS_Subset
  <2>3. Cardinality(T) \in Nat /\ Cardinality(T) # 0
    BY <2>1, <2>2, FS_CardinalityType, FS_EmptySet
  <2> QED BY <2>2, <2>3
<1>4. ASSUME NEW i \in 1 .. n, NEW j \in 1 .. n, Precedes(log, i, j)
      PROVE  SortedPlace(log, i) < SortedPlace(log, j)
  <2> PICK T, U : T = Upto(i) /\ U = Upto(j)
    OBVIOUS
  <2>1. \A h \in T : h \in U
    <3> TAKE h \in T
    <3>1. h \in 1 .. n /\ log[h].key \in Nat /\ log[i].key \in Nat /\ log[j].key \in Nat
      OBVIOUS
    <3> PICK a, b, c : a = log[h].key /\ b = log[i].key /\ c = log[j].key
      OBVIOUS
    <3>2. (a < b \/ (a = b /\ h <= i)) /\ (b < c \/ (b = c /\ i < j))
      BY <1>4 DEF Precedes
    <3>3. a < c \/ (a = c /\ h <= j)
      BY <3>1, <3>2
    <3> QED BY <3>1, <3>3
  <2>2. j \in U /\ j \notin T
    <3> PICK b, c : b = log[i].key /\ c = log[j].key
      OBVIOUS
    <3>1. b \in Nat /\ c \in Nat /\ (b < c \/ (b = c /\ i < j))
      BY <1>4 DEF Precedes
    <3>2. ~(c < b \/ (c = b /\ j <= i))
      BY <3>1
    <3> QED BY <3>2
  <2>3. T \in SUBSET U /\ T # U
    BY <2>1, <2>2
  <2>4. IsFiniteSet(U) /\ Cardinality(U) \in Nat /\ Cardinality(T) \in Nat
    <3> HIDE DEF Upto
    <3> QED BY <1>3
  <2>5. Cardinality(T) <= Cardinality(U) /\ Cardinality(T) # Cardinality(U)
    BY <2>3, <2>4, FS_Subset
  <2> QED BY <1>1, <2>4, <2>5
<1> HIDE DEF Upto
<1>5. \A i \in 1 .. n : SortedPlace(log, i) \in 1 .. n
  BY <1>1, <1>3
<1>6. ASSUME NEW i \in 1 .. n, NEW j \in 1 .. n
      PROVE  i = j \/ Precedes(log, i, j) \/ Precedes(log, j, i)
  <2>1. log[i].key \in Nat /\ log[j].key \in Nat
    OBVIOUS
  <2> QED BY <2>1 DEF Precedes
<1>7. ASSUME NEW i \in 1 .. n, NEW j \in 1 .. n
      PROVE  /\ SortedPlace(log, i) = SortedPlace(log, j) => i = j
             /\ SortedPlace(log, i) < SortedPlace(log, j) => Precedes(log, i, j)
  <2> PICK a, b : a = SortedPlace(log, i) /\ b = SortedPlace(log, j)
    OBVIOUS
  <2>1. a \in Nat /\ b \in Nat
    BY <1>5
  <2>2. CASE i = j
    BY <2>1, <2>2
  <2>3. CASE Precedes(log, i, j)
    <3>1. a < b
      BY <1>4, <2>3
    <3> QED BY <2>1, <2>3, <3>1
  <2>4. CASE Precedes(log, j, i)
    <3>1. b < a
      BY <1>4, <2>4
    <3> QED BY <2>1, <3>1
  <2> QED BY <1>6, <2>2, <2>3, <2>4
<1>8. place \in Surjection(1 .. n, 1 .. n)
  <2>1. place \in [1 .. n -> 1 .. n]
    BY <1>5
  <2>2. \A i, j \in 1 .. n : place[i] = place[j] => i = j
    BY <1>7
  <2> HIDE DEF place
  <2>3. place \in Injection(1 .. n, 1 .. n)
    BY <2>1, <2>2 DEF Injection, IsInjective
  <2> QED BY <1>2, <2>3, FS_Injection
<1>9. ASSUME NEW r \in 1 .. n
      PROVE  \E i \in 1 .. n : SortedPlace(log, i) = r /\ sorted_log(log)[r] = log[i]
  <2>1. \E i \in 1 .. n : SortedPlace(log, i) = r
    BY <1>8 DEF Surjection
  <2>2. PICK i : i = CHOOSE j \in 1 .. n : SortedPlace(log, j) = r
    OBVIOUS
  <2>3. i \in 1 .. n /\ SortedPlace(log, i) = r
    BY <2>1, <2>2
  <2>4. sorted_log(log)[r] = log[i]
    BY <2>2 DEF sorted_log, Indices
  <2> QED BY <2>3, <2>4
<1> QED BY <1>4, <1>5, <1>7, <1>9 DEF InOrder

-----------------------------------------------------------------------------
\* The rows of the sorted trace.

LEMMA RowParts ==
  ASSUME NEW access, NEW first
  PROVE  LET row == Append(Row3(access), first) IN
         /\ row[1] = low31(access.key) /\ row[2] = low31(access.prev)
         /\ row[3] = low31(access.new) /\ row[4] = first
<1> PICK a, b, c : a = low31(access.key) /\ b = low31(access.prev) /\ c = low31(access.new)
  OBVIOUS
<1>0. PICK S, s : S = {a, b, c, first} /\ s = <<a, b, c>>
  OBVIOUS
<1>1. s \in Seq(S) /\ Len(s) = 3 /\ s[1] = a /\ s[2] = b /\ s[3] = c /\ first \in S
  BY <1>0
<1>2. Row3(access) = s
  BY <1>0 DEF Row3
<1> PICK t : t = Append(s, first)
  OBVIOUS
<1>3. t[1] = a /\ t[2] = b /\ t[3] = c /\ t[4] = first
  <2>1. s \in Seq(S) /\ first \in S
    BY <1>1
  <2>2. /\ \A i \in 1 .. Len(s) : Append(s, first)[i] = s[i]
        /\ Append(s, first)[Len(s) + 1] = first
    BY <2>1, AppendProperties
  <2> QED BY <1>1, <2>2
<1> QED BY <1>2, <1>3

\* The last access to a key ends the key's rows.
LEMMA LastAccessEndsRows ==
  ASSUME NEW log, NEW n \in Nat, n = Len(log), \A i \in 1 .. n : log[i].key \in Nat,
         NEW j \in 1 .. n, \A h \in 1 .. n : log[h].key = log[j].key => h <= j
  PROVE  \E r \in 1 .. n :
           /\ sorted_trace(log)[r][1] = low31(log[j].key)
           /\ sorted_trace(log)[r][3] = low31(log[j].new)
           /\ r = Len(sorted_trace(log)) \/ sorted_trace(log)[r + 1][4] = 1
<1> PICK s, t, rows, r : /\ s = sorted_log(log) /\ t = sorted_trace(log)
                         /\ rows = DictRows(log) /\ r = SortedPlace(log, j)
  OBVIOUS
<1>1. rows \in Nat /\ n <= rows
  BY RowsSuffice
<1>2. /\ \A i \in 1 .. n : SortedPlace(log, i) \in 1 .. n
      /\ \A i, h \in 1 .. n : SortedPlace(log, i) < SortedPlace(log, h) <=> Precedes(log, i, h)
      /\ \A i, h \in 1 .. n : SortedPlace(log, i) = SortedPlace(log, h) => i = h
      /\ \A q \in 1 .. n : \E i \in 1 .. n : SortedPlace(log, i) = q /\ s[q] = log[i]
  <2>1. InOrder(log, n, s)
    BY SortedPlaces
  <2> QED BY <2>1 DEF InOrder
<1> DEFINE first(i) == IF i = 1 \/ s[i - 1].key # s[i].key THEN 1 ELSE 0
<1>3. t = [i \in 1 .. rows |-> IF i <= n THEN Append(Row3(s[i]), first(i)) ELSE <<0, 0, 0, 1>>]
  BY DEF sorted_trace
<1>4. r \in 1 .. n /\ s[r] = log[j]
  BY <1>2
<1>5. t[r][1] = low31(log[j].key) /\ t[r][3] = low31(log[j].new)
  <2> HIDE DEF first
  <2>1. t[r] = Append(Row3(log[j]), first(r))
    BY <1>1, <1>3, <1>4
  <2> PICK f, a : f = first(r) /\ a = log[j]
    OBVIOUS
  <2> PICK row : row = Append(Row3(a), f)
    OBVIOUS
  <2>2. row[1] = low31(a.key) /\ row[3] = low31(a.new)
    BY RowParts
  <2> QED BY <2>1, <2>2
<1>6. CASE r < n
  <2>1. PICK i \in 1 .. n : SortedPlace(log, i) = r + 1 /\ s[r + 1] = log[i]
    <3> PICK q : q = r + 1
      OBVIOUS
    <3>1. q \in 1 .. n
      BY <1>4, <1>6
    <3> QED BY <1>2, <3>1
  <2>2. Precedes(log, j, i)
    BY <1>2, <1>4, <2>1
  <2>3. log[i].key # log[j].key
    BY <2>1, <2>2 DEF Precedes
  <2>4. first(r + 1) = 1
    BY <1>4, <2>1, <2>3
  <2>5. t[r + 1] = Append(Row3(log[i]), 1)
    <3>1. r + 1 \in 1 .. rows /\ r + 1 <= n
      BY <1>1, <1>4, <1>6
    <3> HIDE DEF first
    <3> QED BY <1>3, <2>1, <2>4, <3>1
  <2>6. t[r + 1][4] = 1
    <3> PICK a, row : a = log[i] /\ row = Append(Row3(a), 1)
      OBVIOUS
    <3>1. row[4] = 1
      BY RowParts
    <3> QED BY <2>5, <3>1
  <2> QED BY <1>4, <1>5, <2>6
<1>7. CASE r = n /\ n < rows
  <2>1. r + 1 \in 1 .. rows /\ ~(r + 1 <= n)
    BY <1>1, <1>4, <1>7
  <2>2. t[r + 1] = <<0, 0, 0, 1>>
    <3> HIDE DEF first
    <3> QED BY <1>3, <2>1
  <2> QED BY <1>4, <1>5, <2>2
<1>8. CASE r = n /\ n = rows
  <2>1. Len(t) = rows
    <3> HIDE DEF first
    <3> QED BY <1>1, <1>3
  <2> QED BY <1>4, <1>5, <1>8, <2>1
<1> QED BY <1>1, <1>4, <1>6, <1>7, <1>8

-----------------------------------------------------------------------------
\* The proof is of the run it stands beside.

Proven == {"proved", "accepted", "rejected"}
ProofInv ==
  outcome \in Proven =>
    /\ proof.n_accesses = Len(dict_accesses)
    /\ proof.sorted = sorted_trace(dict_accesses)

LEMMA ProofStep ==
  ASSUME ProofInv, [ProofNext]_proofVars
  PROVE  ProofInv'
<1>1. CASE Execute
  BY <1>1 DEF Execute, ProofInv, Proven
<1>2. CASE ProveDicts
  <2>1. outcome' = ProverGate /\ dict_accesses' = dict_accesses
    BY <1>2 DEF ProveDicts, callVars, vars, ctxVars, logVars
  <2>2. CASE ProverGate = "proved"
    <3>1. /\ proof'.n_accesses = Len(dict_accesses)
          /\ proof'.sorted = sorted_trace(dict_accesses)
      BY <1>2, <2>2 DEF ProveDicts
    <3> QED BY <2>1, <3>1 DEF ProofInv
  <2>3. CASE ProverGate # "proved"
    <3>1. ProverGate \notin Proven
      BY <2>3 DEF ProverGate, Proven
    <3> QED BY <2>1, <3>1 DEF ProofInv, Proven
  <2> QED BY <2>2, <2>3
<1>3. CASE VerifyDicts
  <2>1. outcome = "proved" /\ proof' = proof /\ dict_accesses' = dict_accesses
    BY <1>3 DEF VerifyDicts, callVars, vars, logVars
  <2> QED BY <2>1 DEF ProofInv, Proven
<1>4. CASE UNCHANGED proofVars
  <2>1. outcome' = outcome /\ proof' = proof /\ dict_accesses' = dict_accesses
    BY <1>4 DEF proofVars, callVars, vars, logVars
  <2> QED BY <2>1 DEF ProofInv, Proven
<1> QED BY <1>1, <1>2, <1>3, <1>4 DEF ProofNext

\* prover.rs, dict_air.rs: what an accepted proof says of a run with one
\* dictionary: for any log, the last of the sorted rows of each key holds the
\* value the side-state ended with.
THEOREM SortedTraceCorrect ==
  ASSUME StayInSegment
  PROVE  ProofSpec => []SortedTraceEndsInSideState
<1>1. ProofInit => ProofInv
  BY DEF ProofInit, ProofInv, Proven
<1>2. ProofInv /\ [ProofNext]_proofVars => ProofInv'
  BY ProofStep
<1>3. ProofSpec => []ProofInv
  BY <1>1, <1>2, PTL DEF ProofSpec
<1>4. CallsInductive /\ SideStateIsLastWrite /\ ChainPerDict /\ ProofInv => SortedTraceEndsInSideState
  <2> SUFFICES ASSUME CallsInductive, SideStateIsLastWrite, ProofInv,
                      outcome = "accepted", Cardinality(DOMAIN dicts) = 1,
                      NEW d \in DOMAIN dicts, NEW k \in DOMAIN dicts[d]
               PROVE  \E i \in 1 .. proof.n_accesses :
                        /\ proof.sorted[i][1] = low31(k)
                        /\ proof.sorted[i][3] = low31(dicts[d][k])
                        /\ i = Len(proof.sorted) \/ proof.sorted[i + 1][4] = 1
    BY DEF SortedTraceEndsInSideState
  <2> PICK log, n : log = dict_accesses /\ n = Len(log)
    OBVIOUS
  <2>1. n \in Nat /\ Len(owner) = n /\ \A i \in 1 .. n : log[i].key \in Nat
    <3>1. log \in Seq(Access(Nat)) /\ Len(owner) = n
      BY DEF CallsInductive, Inductive, Shape, LogTypeOK
    <3>2. \A i \in 1 .. n : log[i] \in Access(Nat)
      BY <3>1, ElementOfSeq
    <3> QED BY <3>1, <3>2, LenProperties DEF Access
  <2>2. \A i, j \in 1 .. n : owner[i] = owner[j]
    BY FewDictsOneOwner
  <2>3. PICK j \in AccessesTo(d) :
          /\ log[j].key = k /\ log[j].new = dicts[d][k]
          /\ \A h \in AccessesTo(d) : log[h].key = k => h <= j
    BY DEF SideStateIsLastWrite
  <2>4. j \in 1 .. n /\ \A h \in 1 .. n : h \in AccessesTo(d)
    BY <2>1, <2>2, <2>3 DEF AccessesTo
  <2>5. PICK r \in 1 .. n :
          /\ sorted_trace(log)[r][1] = low31(log[j].key)
          /\ sorted_trace(log)[r][3] = low31(log[j].new)
          /\ r = Len(sorted_trace(log)) \/ sorted_trace(log)[r + 1][4] = 1
    BY <2>1, <2>3, <2>4, LastAccessEndsRows
  <2>6. proof.n_accesses = n /\ proof.sorted = sorted_trace(log)
    BY DEF ProofInv, Proven
  <2> QED BY <2>3, <2>5, <2>6
<1> QED BY <1>3, <1>4, ProofRefines, CallsAlways, CallsLogCorrect, PTL

-----------------------------------------------------------------------------
\* C0-C3 over the sorted trace.

LEMMA ModuloFacts ==
  ASSUME NEW a \in Nat, NEW b \in Nat
  PROVE  /\ sub_m31(a, a) = 0 /\ sub_m31(a, b) \in Nat
         /\ mul_m31(a, 0) = 0 /\ mul_m31(0, a) = 0
<1>1. P \in Nat \ {0}
  BY ModulusAssumption
<1>2. (a + P - (a % P)) % P = 0
  BY <1>1
<1>3. (a + P - (b % P)) % P \in Nat
  BY <1>1
<1>4. (a * 0) % P = 0 /\ (0 * a) % P = 0
  BY <1>1
<1> QED BY <1>2, <1>3, <1>4 DEF sub_m31, mul_m31

LEMMA ConstraintsOfRows ==
  ASSUME NEW curr, NEW next,
         curr[1] \in Nat, curr[3] \in Nat, curr[4] \in {0, 1},
         next[1] \in Nat, next[2] \in Nat, next[4] \in {0, 1},
         next[4] = 0 => next[1] = curr[1] /\ next[2] = curr[3],
         next[4] = 1 => next[2] = 0
  PROVE  eval_sorted_constraints(curr, next) = <<0, 0, 0, 0>>
<1> PICK k, v, f, l, u, g : /\ k = curr[1] /\ v = curr[3] /\ f = curr[4]
                            /\ l = next[1] /\ u = next[2] /\ g = next[4]
  OBVIOUS
<1>1. mul_m31(f, sub_m31(1, f)) = 0
  <2>1. CASE f = 0
    <3>1. sub_m31(1, 0) \in Nat
      BY ModuloFacts
    <3> QED BY <2>1, <3>1, ModuloFacts
  <2>2. CASE f = 1
    <3>1. sub_m31(1, 1) = 0 /\ mul_m31(1, 0) = 0
      BY ModuloFacts
    <3> QED BY <2>2, <3>1
  <2> QED BY <2>1, <2>2
<1>2. sub_m31(l, k) \in Nat /\ sub_m31(u, v) \in Nat /\ sub_m31(1, g) \in Nat
  <2>1. g \in Nat /\ 1 \in Nat
    OBVIOUS
  <2> QED BY <2>1, ModuloFacts
<1>3. mul_m31(sub_m31(1, g), sub_m31(l, k)) = 0 /\ mul_m31(sub_m31(1, g), sub_m31(u, v)) = 0
  <2>1. CASE g = 0
    <3>1. sub_m31(l, k) = 0 /\ sub_m31(u, v) = 0
      BY <2>1, ModuloFacts
    <3> QED BY <1>2, <3>1, ModuloFacts
  <2>2. CASE g = 1
    <3>1. sub_m31(1, g) = 0
      BY <2>2, ModuloFacts
    <3> QED BY <1>2, <3>1, ModuloFacts
  <2> QED BY <2>1, <2>2
<1>4. mul_m31(g, u) = 0
  <2>1. CASE g = 0
    BY <2>1, ModuloFacts
  <2>2. CASE g = 1
    <3>1. u = 0 /\ mul_m31(1, 0) = 0
      BY <2>2, ModuloFacts
    <3> QED BY <2>2, <3>1
  <2> QED BY <2>1, <2>2
<1> QED BY <1>1, <1>3, <1>4 DEF eval_sorted_constraints

\* A log that passes verify_chain is chained key by key.
LEMMA ChainedByKey ==
  ASSUME NEW log, NEW n \in Nat, n = Len(log), verify_chain(log), NEW i \in 1 .. n
  PROVE  \/ log[i].prev = 0 /\ \A j \in 1 .. i - 1 : log[j].key # log[i].key
         \/ \E j \in 1 .. i - 1 : LastTo(log, i - 1, log[i].key, j) /\ log[i].prev = log[j].new
<1> DEFINE Built == CHOOSE f : Rebuilds(f, log, n)
<1>1. Rebuilds(Built, log, n)
  BY RebuildExists
<1>2. log[i].prev = Lookup(Built[i - 1], log[i].key, 0)
  BY DEF verify_chain, Rebuilds, Indices
<1> HIDE DEF Built
<1> PICK m, f, k, map : m = i - 1 /\ f = Built /\ k = log[i].key /\ map = Built[i - 1]
  OBVIOUS
<1>3. m \in 0 .. n /\ Rebuilds(f, log, n)
  BY <1>1
<1>4. Agrees(f[m], log, m, k)
  BY <1>3, RebuildAgrees
<1>5. CASE k \notin DOMAIN map
  BY <1>2, <1>4, <1>5 DEF Agrees, Lookup
<1>6. CASE k \in DOMAIN map
  BY <1>2, <1>4, <1>6 DEF Agrees, Lookup
<1> QED BY <1>5, <1>6

\* The rows of the sorted trace are those of the accesses in their places.
LEMMA SortedRows ==
  ASSUME NEW log, NEW n \in Nat \ {0}, n = Len(log), \A i \in 1 .. n : log[i].key \in Nat
  PROVE  LET t == sorted_trace(log)
             s == sorted_log(log)
         IN
         /\ Len(t) = DictRows(log) /\ DOMAIN t = 1 .. DictRows(log)
         /\ n <= DictRows(log) /\ DictRows(log) \in Nat
         /\ \A r \in 1 .. n : t[r] = Append(Row3(s[r]), IF r = 1 \/ s[r - 1].key # s[r].key THEN 1 ELSE 0)
         /\ \A r \in n + 1 .. DictRows(log) : t[r] = <<0, 0, 0, 1>>
<1> PICK s, t, rows : s = sorted_log(log) /\ t = sorted_trace(log) /\ rows = DictRows(log)
  OBVIOUS
<1>1. rows \in Nat /\ n <= rows
  BY RowsSuffice
<1> DEFINE first(i) == IF i = 1 \/ s[i - 1].key # s[i].key THEN 1 ELSE 0
<1>2. t = [i \in 1 .. rows |-> IF i <= n THEN Append(Row3(s[i]), first(i)) ELSE <<0, 0, 0, 1>>]
  BY DEF sorted_trace
<1> HIDE DEF first
<1>3. Len(t) = rows /\ DOMAIN t = 1 .. rows
  BY <1>1, <1>2
<1>4. \A r \in 1 .. n : t[r] = Append(Row3(s[r]), first(r))
  BY <1>1, <1>2
<1>5. \A r \in n + 1 .. rows : t[r] = <<0, 0, 0, 1>>
  BY <1>1, <1>2
<1> QED BY <1>1, <1>3, <1>4, <1>5 DEF first

LEMMA ChainMeetsConstraints ==
  ASSUME NEW log, log \in Seq(Access(Nat)), log # <<>>, verify_chain(log)
  PROVE  SortedConstraintsHold(sorted_trace(log))
<1> PICK n, s, t, rows : /\ n = Len(log) /\ s = sorted_log(log) /\ t = sorted_trace(log)
                         /\ rows = DictRows(log)
  OBVIOUS
<1>1. n \in Nat \ {0} /\ \A i \in 1 .. n : log[i] \in Access(Nat)
  BY ElementOfSeq, LenProperties, EmptySeq
<1>2. \A i \in 1 .. n : log[i].key \in Nat /\ log[i].prev \in Nat /\ log[i].new \in Nat
  BY <1>1 DEF Access
<1> DEFINE first(i) == IF i = 1 \/ s[i - 1].key # s[i].key THEN 1 ELSE 0
<1>3. /\ Len(t) = rows /\ n <= rows /\ rows \in Nat
      /\ \A r \in 1 .. n : t[r] = Append(Row3(s[r]), first(r))
      /\ \A r \in n + 1 .. rows : t[r] = <<0, 0, 0, 1>>
  BY <1>1, <1>2, SortedRows
<1>4. /\ \A i \in 1 .. n : SortedPlace(log, i) \in 1 .. n
      /\ \A i, h \in 1 .. n : SortedPlace(log, i) < SortedPlace(log, h) <=> Precedes(log, i, h)
      /\ \A i, h \in 1 .. n : SortedPlace(log, i) = SortedPlace(log, h) => i = h
      /\ \A q \in 1 .. n : \E i \in 1 .. n : SortedPlace(log, i) = q /\ s[q] = log[i]
  <2>1. n \in Nat /\ \A i \in 1 .. n : log[i].key \in Nat
    BY <1>1, <1>2
  <2>2. InOrder(log, n, s)
    BY <2>1, SortedPlaces
  <2> QED BY <2>2 DEF InOrder
<1>5. \A r \in 1 .. n : /\ t[r][1] = low31(s[r].key) /\ t[r][2] = low31(s[r].prev)
                        /\ t[r][3] = low31(s[r].new) /\ t[r][4] = first(r)
  <2> TAKE r \in 1 .. n
  <2>0. PICK a, f, row : a = s[r] /\ f = first(r) /\ row = Append(Row3(a), f)
    OBVIOUS
  <2>1. row[1] = low31(a.key) /\ row[2] = low31(a.prev) /\ row[3] = low31(a.new) /\ row[4] = f
    BY ONLY <2>0, RowParts
  <2>2. t[r] = row
    BY <1>3, <2>0
  <2> QED BY <2>0, <2>1, <2>2
<1>6. \A v \in Nat : low31(v) \in Nat
  <2>1. P + 1 \in Nat \ {0}
    BY ModulusAssumption
  <2> QED BY <2>1 DEF low31
<1>7. \A r \in 1 .. rows : /\ t[r][1] \in Nat /\ t[r][2] \in Nat /\ t[r][3] \in Nat
                           /\ t[r][4] \in {0, 1}
  <2> TAKE r \in 1 .. rows
  <2>1. CASE r <= n
    <3>1. r \in 1 .. n
      BY <2>1
    <3>2. PICK i \in 1 .. n : s[r] = log[i]
      BY <1>4, <3>1
    <3> PICK a, b, c : a = log[i].key /\ b = log[i].prev /\ c = log[i].new
      OBVIOUS
    <3>3. /\ t[r][1] = low31(s[r].key) /\ t[r][2] = low31(s[r].prev)
          /\ t[r][3] = low31(s[r].new) /\ t[r][4] = first(r)
      BY <1>5, <3>1
    <3>4. t[r][1] = low31(a) /\ t[r][2] = low31(b) /\ t[r][3] = low31(c)
      BY <3>2, <3>3
    <3>5. low31(a) \in Nat /\ low31(b) \in Nat /\ low31(c) \in Nat
      BY <1>2, <1>6
    <3> QED BY <3>3, <3>4, <3>5
  <2>2. CASE r > n
    <3>1. t[r] = <<0, 0, 0, 1>>
      BY <1>1, <1>3, <2>2
    <3> QED BY <3>1
  <2> QED BY <1>1, <2>1, <2>2
\* Next to each other: the same key, and the later starts from what the earlier wrote.
<1>8. ASSUME NEW r \in 1 .. n - 1, s[r].key = s[r + 1].key
      PROVE  s[r + 1].prev = s[r].new
  <2>0. PICK q : q = r + 1
    OBVIOUS
  <2>1. r \in 1 .. n /\ q \in 1 .. n /\ r < q
    BY <1>1, <2>0
  <2>2. PICK a \in 1 .. n : SortedPlace(log, a) = r /\ s[r] = log[a]
    BY <1>4, <2>1
  <2>3. PICK b \in 1 .. n : SortedPlace(log, b) = q /\ s[q] = log[b]
    BY <1>4, <2>1
  <2>4. log[a].key = log[b].key
    BY <1>8, <2>0, <2>2, <2>3
  <2>5. a < b
    <3>1. Precedes(log, a, b)
      BY <1>4, <2>1, <2>2, <2>3
    <3> QED BY <1>2, <2>4, <3>1 DEF Precedes
  <2>6. ASSUME NEW h \in 1 .. b - 1, log[h].key = log[b].key, h > a
        PROVE  FALSE
    <3>1. h \in 1 .. n /\ Precedes(log, a, h) /\ Precedes(log, h, b)
      BY <2>4, <2>6 DEF Precedes
    <3>2. PICK x : x = SortedPlace(log, h)
      OBVIOUS
    <3>3. x \in 1 .. n /\ r < x /\ x < q
      BY <1>4, <2>2, <2>3, <3>1, <3>2
    <3> QED BY <2>0, <3>3
  <2>7. PICK j \in 1 .. b - 1 : LastTo(log, b - 1, log[b].key, j) /\ log[b].prev = log[j].new
    <3>1. a \in 1 .. b - 1
      BY <2>5
    <3>2. \/ log[b].prev = 0 /\ \A j \in 1 .. b - 1 : log[j].key # log[b].key
          \/ \E j \in 1 .. b - 1 : LastTo(log, b - 1, log[b].key, j) /\ log[b].prev = log[j].new
      BY <1>1, ChainedByKey
    <3> QED BY <2>4, <3>1, <3>2
  <2>8. j = a
    <3>1. a \in 1 .. b - 1 /\ a <= j /\ log[j].key = log[b].key
      BY <2>4, <2>5, <2>7 DEF LastTo
    <3>2. ~(j > a)
      BY <2>6, <2>7, <3>1
    <3> QED BY <2>7, <3>1, <3>2
  <2> QED BY <2>0, <2>2, <2>3, <2>7, <2>8
\* A new key starts from 0.
<1>9. ASSUME NEW r \in 1 .. n - 1, s[r].key # s[r + 1].key
      PROVE  s[r + 1].prev = 0
  <2>0. PICK q : q = r + 1
    OBVIOUS
  <2>1. r \in 1 .. n /\ q \in 1 .. n /\ r < q
    BY <1>1, <2>0
  <2>2. PICK a \in 1 .. n : SortedPlace(log, a) = r /\ s[r] = log[a]
    BY <1>4, <2>1
  <2>3. PICK b \in 1 .. n : SortedPlace(log, b) = q /\ s[q] = log[b]
    BY <1>4, <2>1
  <2>4. log[a].key # log[b].key /\ Precedes(log, a, b)
    BY <1>4, <1>9, <2>0, <2>1, <2>2, <2>3
  <2>5. ASSUME NEW j \in 1 .. b - 1, log[j].key = log[b].key
        PROVE  FALSE
    <3>1. j \in 1 .. n /\ Precedes(log, j, b) /\ j # a
      BY <2>4, <2>5 DEF Precedes
    <3>2. PICK x : x = SortedPlace(log, j)
      OBVIOUS
    <3>3. x \in 1 .. n /\ x < q /\ x # r
      BY <1>4, <2>2, <2>3, <3>1, <3>2
    <3>4. x < r
      BY <2>0, <2>1, <3>3
    <3>5. Precedes(log, j, a)
      BY <1>4, <2>2, <3>1, <3>2, <3>4
    <3> PICK k, l : k = log[j].key /\ l = log[a].key
      OBVIOUS
    <3>6. k \in Nat /\ l \in Nat /\ l < k
      BY <1>2, <2>4, <2>5, <3>1 DEF Precedes
    <3> QED BY <3>5, <3>6 DEF Precedes
  <2>6. \/ log[b].prev = 0
        \/ \E j \in 1 .. b - 1 : LastTo(log, b - 1, log[b].key, j)
    BY <1>1, ChainedByKey
  <2> QED BY <2>0, <2>3, <2>5, <2>6 DEF LastTo
<1>10. ASSUME NEW r \in 1 .. rows - 1
       PROVE  eval_sorted_constraints(t[r], t[r + 1]) = <<0, 0, 0, 0>>
  <2> PICK q, curr, next : q = r + 1 /\ curr = t[r] /\ next = t[q]
    OBVIOUS
  <2>1. r \in 1 .. rows /\ q \in 1 .. rows
    BY <1>3
  <2>2. next[4] = 0 => next[1] = curr[1] /\ next[2] = curr[3]
    <3> SUFFICES ASSUME next[4] = 0 PROVE next[1] = curr[1] /\ next[2] = curr[3]
      OBVIOUS
    <3>1. q <= n
      <4> SUFFICES ASSUME ~(q <= n) PROVE FALSE
        OBVIOUS
      <4>1. t[q] = <<0, 0, 0, 1>>
        BY <1>1, <1>3, <2>1
      <4> QED BY <4>1
    <3>2. r \in 1 .. n - 1 /\ r \in 1 .. n /\ q \in 1 .. n
      BY <1>1, <2>1, <3>1
    <3>3. s[r].key = s[q].key
      BY <1>5, <3>2
    <3> QED BY <1>5, <1>8, <3>2, <3>3
  <2>3. next[4] = 1 => next[2] = 0
    <3> SUFFICES ASSUME next[4] = 1 PROVE next[2] = 0
      OBVIOUS
    <3>1. CASE q <= n
      <4>1. r \in 1 .. n - 1 /\ q \in 1 .. n /\ q # 1
        BY <1>1, <2>1, <3>1
      <4>2. s[r].key # s[q].key
        BY <1>5, <4>1
      <4>3. s[q].prev = 0
        BY <1>9, <4>1, <4>2
      <4>4. low31(0) = 0
        <5>1. P + 1 \in Nat \ {0}
          BY ModulusAssumption
        <5> QED BY <5>1 DEF low31
      <4> QED BY <1>5, <4>1, <4>3, <4>4
    <3>2. CASE ~(q <= n)
      <4>1. t[q] = <<0, 0, 0, 1>>
        BY <1>1, <1>3, <2>1, <3>2
      <4> QED BY <4>1
    <3> QED BY <3>1, <3>2
  <2>4. eval_sorted_constraints(curr, next) = <<0, 0, 0, 0>>
    BY <1>7, <2>1, <2>2, <2>3, ConstraintsOfRows
  <2> QED BY <2>4
<1> QED BY <1>3, <1>10 DEF SortedConstraintsHold

-----------------------------------------------------------------------------
\* Bags of rows, whatever order the rows are in.

LEMMA BagPermuted ==
  ASSUME NEW a, NEW b, IsFiniteSet(DOMAIN a), NEW p, p \in [DOMAIN a -> DOMAIN b],
         \A i, j \in DOMAIN a : p[i] = p[j] => i = j,
         \A j \in DOMAIN b : \E i \in DOMAIN a : p[i] = j,
         \A i \in DOMAIN a : b[p[i]] = a[i]
  PROVE  BagOf(a) = BagOf(b)
<1> DEFINE field(rows) == [i \in DOMAIN rows |-> [c \in DOMAIN rows[i] |-> to_m31(rows[i][c])]]
           At(f, r) == {i \in DOMAIN f : f[i] = r}
<1> PICK f, g : f = field(a) /\ g = field(b)
  OBVIOUS
<1>1. DOMAIN f = DOMAIN a /\ DOMAIN g = DOMAIN b
  OBVIOUS
<1>2. \A i \in DOMAIN f : p[i] \in DOMAIN g /\ g[p[i]] = f[i]
  OBVIOUS
<1>3. BagOf(a) = [r \in {f[i] : i \in DOMAIN a} |-> Cardinality({i \in DOMAIN a : f[i] = r})]
  BY DEF BagOf
<1>4. BagOf(b) = [r \in {g[i] : i \in DOMAIN b} |-> Cardinality({i \in DOMAIN b : g[i] = r})]
  BY DEF BagOf
<1> HIDE DEF field
<1>5. {f[i] : i \in DOMAIN a} = {g[i] : i \in DOMAIN b}
  <2>1. ASSUME NEW i \in DOMAIN a PROVE \E j \in DOMAIN b : g[j] = f[i]
    BY <1>1, <1>2
  <2>2. ASSUME NEW j \in DOMAIN b PROVE \E i \in DOMAIN a : f[i] = g[j]
    BY <1>1, <1>2
  <2> QED BY <2>1, <2>2
<1> PICK V : V = {f[i] : i \in DOMAIN a}
  OBVIOUS
<1> DEFINE F == [r \in V |-> Cardinality({i \in DOMAIN a : f[i] = r})]
           G == [r \in V |-> Cardinality({i \in DOMAIN b : g[i] = r})]
<1>6. ASSUME NEW r \in V PROVE F[r] = G[r]
  <2> PICK S, T : S = {i \in DOMAIN a : f[i] = r} /\ T = {i \in DOMAIN b : g[i] = r}
    OBVIOUS
  <2>1. IsFiniteSet(S)
    <3>1. S \in SUBSET DOMAIN a
      OBVIOUS
    <3> QED BY <3>1, FS_Subset
  <2> DEFINE q == [i \in S |-> p[i]]
  <2>2. q \in [S -> T]
    BY <1>1, <1>2
  <2>3. \A i, j \in S : q[i] = q[j] => i = j
    OBVIOUS
  <2>4. \A j \in T : \E i \in S : q[i] = j
    <3> TAKE j \in T
    <3>1. PICK i \in DOMAIN a : p[i] = j
      OBVIOUS
    <3>2. i \in S
      BY <1>1, <1>2, <3>1
    <3> QED BY <3>1, <3>2
  <2> HIDE DEF q
  <2>5. q \in Bijection(S, T)
    BY <2>2, <2>3, <2>4 DEF Bijection, Injection, Surjection, IsInjective
  <2>6. Cardinality(T) = Cardinality(S)
    BY <2>1, <2>5, FS_Bijection DEF ExistsBijection
  <2> QED BY <2>6
<1>7. BagOf(a) = F
  BY <1>3
<1>8. BagOf(b) = G
  BY <1>4, <1>5
<1>9. F = [r \in V |-> F[r]] /\ G = [r \in V |-> G[r]]
  OBVIOUS
<1> HIDE DEF F, G
<1>10. F = G
  BY <1>6, <1>9
<1> QED BY <1>7, <1>8, <1>10

LEMMA FirstThreeOf ==
  ASSUME NEW S, NEW t, \A i \in 1 .. 3 : t[i] \in S
  PROVE  /\ SubSeq(t, 1, 3) \in Seq(S) /\ Len(SubSeq(t, 1, 3)) = 3
         /\ \A i \in 1 .. 3 : SubSeq(t, 1, 3)[i] = t[i]
BY SubSeqProperties

\* A sorted row without its flag.
LEMMA FirstThree ==
  ASSUME NEW access, NEW first
  PROVE  SubSeq(Append(Row3(access), first), 1, 3) = Row3(access)
<1> PICK a, b, c : a = low31(access.key) /\ b = low31(access.prev) /\ c = low31(access.new)
  OBVIOUS
<1>0. PICK S, s : S = {a, b, c, first} /\ s = <<a, b, c>>
  OBVIOUS
<1>1. s \in Seq(S) /\ Len(s) = 3 /\ first \in S
  BY <1>0
<1>2. Row3(access) = s
  BY <1>0 DEF Row3
<1>3. /\ Append(s, first) \in Seq(S) /\ Len(Append(s, first)) = Len(s) + 1
      /\ \A i \in 1 .. Len(s) : Append(s, first)[i] = s[i]
  <2>1. s \in Seq(S) /\ first \in S
    BY <1>1
  <2> QED BY <2>1, AppendProperties
<1> PICK t : t = Append(s, first)
  OBVIOUS
<1>4. /\ t \in Seq(S) /\ \A i \in 1 .. 3 : t[i] = s[i]
      /\ \A i \in 1 .. 3 : t[i] \in S
  <2>1. t \in Seq(S) /\ Len(t) = 4 /\ \A i \in 1 .. 3 : t[i] = s[i]
    BY <1>1, <1>3
  <2> QED BY <2>1, ElementOfSeq
<1>5. /\ SubSeq(t, 1, 3) \in Seq(S) /\ Len(SubSeq(t, 1, 3)) = 3
      /\ \A i \in 1 .. 3 : SubSeq(t, 1, 3)[i] = t[i]
  <2>1. \A i \in 1 .. 3 : t[i] \in S
    BY <1>4
  <2> QED BY <2>1, FirstThreeOf
<1> PICK u : u = SubSeq(t, 1, 3)
  OBVIOUS
<1>6. \A i \in 1 .. Len(u) : u[i] = s[i]
  BY <1>4, <1>5
<1>7. u = s
  BY <1>1, <1>5, <1>6, SeqEqual
<1> QED BY <1>2, <1>7

LEMMA PaddingRow == SubSeq(<<0, 0, 0, 1>>, 1, 3) = <<0, 0, 0>>
<1> PICK s, t : s = <<0, 0, 0, 1>> /\ t = <<0, 0, 0>>
  OBVIOUS
<1>1. /\ t \in Seq({0, 1}) /\ Len(t) = 3 /\ \A i \in 1 .. 3 : t[i] = 0
      /\ \A i \in 1 .. 3 : s[i] = 0
  OBVIOUS
<1>2. \A i \in 1 .. 3 : s[i] \in {0, 1}
  BY <1>1
<1>3. /\ SubSeq(s, 1, 3) \in Seq({0, 1}) /\ Len(SubSeq(s, 1, 3)) = 3
      /\ \A i \in 1 .. 3 : SubSeq(s, 1, 3)[i] = s[i]
  BY <1>2, FirstThreeOf
<1> PICK u : u = SubSeq(s, 1, 3)
  OBVIOUS
<1>4. \A i \in 1 .. Len(u) : u[i] = t[i]
  BY <1>1, <1>3
<1>5. u = t
  BY <1>1, <1>3, <1>4, SeqEqual
<1> QED BY <1>5

\* Sorting rearranges the rows, padding included.
LEMMA SortingPermutes ==
  ASSUME NEW log, log \in Seq(Access(Nat)), log # <<>>
  PROVE  IsPermutation(exec_trace(log), sorted_trace(log))
<1> PICK n, s, t, rows, e : /\ n = Len(log) /\ s = sorted_log(log) /\ t = sorted_trace(log)
                            /\ rows = DictRows(log) /\ e = exec_trace(log)
  OBVIOUS
<1>1. n \in Nat \ {0} /\ \A i \in 1 .. n : log[i].key \in Nat
  <2>1. n \in Nat \ {0} /\ \A i \in 1 .. n : log[i] \in Access(Nat)
    BY ElementOfSeq, LenProperties, EmptySeq
  <2> QED BY <2>1 DEF Access
<1> DEFINE first(i) == IF i = 1 \/ s[i - 1].key # s[i].key THEN 1 ELSE 0
<1>2. /\ Len(t) = rows /\ n <= rows /\ rows \in Nat
      /\ \A r \in 1 .. n : t[r] = Append(Row3(s[r]), first(r))
      /\ \A r \in n + 1 .. rows : t[r] = <<0, 0, 0, 1>>
  BY <1>1, SortedRows
<1>3. /\ \A i \in 1 .. n : SortedPlace(log, i) \in 1 .. n
      /\ \A i, h \in 1 .. n : SortedPlace(log, i) < SortedPlace(log, h) <=> Precedes(log, i, h)
      /\ \A i, h \in 1 .. n : SortedPlace(log, i) = SortedPlace(log, h) => i = h
      /\ \A q \in 1 .. n : \E i \in 1 .. n : SortedPlace(log, i) = q /\ s[q] = log[i]
  <2>1. n \in Nat /\ \A i \in 1 .. n : log[i].key \in Nat
    BY <1>1
  <2>2. InOrder(log, n, s)
    BY <2>1, SortedPlaces
  <2> QED BY <2>2 DEF InOrder
<1> HIDE DEF first
<1>4. e = [i \in 1 .. rows |-> IF i <= n THEN Row3(log[i]) ELSE <<0, 0, 0>>]
  BY DEF exec_trace
<1> DEFINE u == [i \in Indices(t) |-> SubSeq(t[i], 1, 3)]
           p == [i \in 1 .. rows |-> IF i <= n THEN SortedPlace(log, i) ELSE i]
<1>5. DOMAIN e = 1 .. rows /\ DOMAIN u = 1 .. rows
  BY <1>2, <1>4 DEF Indices
<1>6. IsFiniteSet(1 .. rows)
  <2>1. 1 \in Int /\ rows \in Int
    BY <1>2
  <2> QED BY <2>1, FS_Interval
<1>7. \A i \in 1 .. rows : p[i] \in 1 .. rows
  BY <1>1, <1>2, <1>3
<1>8. \A i, j \in 1 .. rows : p[i] = p[j] => i = j
  <2> TAKE i, j \in 1 .. rows
  <2>1. CASE i <= n /\ j <= n
    <3>1. i \in 1 .. n /\ j \in 1 .. n
      BY <1>1, <2>1
    <3> QED BY <1>3, <2>1, <3>1
  <2>2. CASE ~(i <= n) /\ ~(j <= n)
    BY <2>2
  <2>3. CASE i <= n /\ ~(j <= n)
    <3>1. i \in 1 .. n
      BY <1>1, <2>3
    <3>2. SortedPlace(log, i) \in 1 .. n
      BY <1>3, <3>1
    <3> QED BY <1>1, <2>3, <3>2
  <2>4. CASE ~(i <= n) /\ j <= n
    <3>1. j \in 1 .. n
      BY <1>1, <2>4
    <3>2. SortedPlace(log, j) \in 1 .. n
      BY <1>3, <3>1
    <3> QED BY <1>1, <2>4, <3>2
  <2> QED BY <2>1, <2>2, <2>3, <2>4
<1>9. \A j \in 1 .. rows : \E i \in 1 .. rows : p[i] = j
  <2> TAKE j \in 1 .. rows
  <2>1. CASE j <= n
    <3>1. j \in 1 .. n
      BY <1>1, <2>1
    <3>2. PICK i \in 1 .. n : SortedPlace(log, i) = j
      BY <1>3, <3>1
    <3>3. i \in 1 .. rows /\ i <= n
      BY <1>1, <1>2
    <3> QED BY <3>2, <3>3
  <2>2. CASE ~(j <= n)
    BY <2>2
  <2> QED BY <2>1, <2>2
<1>10. \A i \in 1 .. rows : u[p[i]] = e[i]
  <2> TAKE i \in 1 .. rows
  <2>1. CASE i <= n
    <3>1. i \in 1 .. n
      BY <1>1, <2>1
    <3> PICK r : r = SortedPlace(log, i)
      OBVIOUS
    <3>2. r \in 1 .. n /\ r \in 1 .. rows /\ s[r] = log[i]
      <4>1. r \in 1 .. n
        BY <1>3, <3>1
      <4>2. PICK j \in 1 .. n : SortedPlace(log, j) = r /\ s[r] = log[j]
        BY <1>3, <4>1
      <4>3. j = i
        BY <1>3, <3>1, <4>2
      <4> QED BY <1>1, <1>2, <4>1, <4>2, <4>3
    <3>3. u[r] = SubSeq(t[r], 1, 3) /\ t[r] = Append(Row3(log[i]), first(r))
      BY <1>2, <3>2 DEF Indices
    <3> PICK a, f : a = log[i] /\ f = first(r)
      OBVIOUS
    <3>4. SubSeq(Append(Row3(a), f), 1, 3) = Row3(a)
      BY FirstThree
    <3>5. e[i] = Row3(a) /\ p[i] = r
      BY <1>4, <2>1
    <3> QED BY <3>3, <3>4, <3>5
  <2>2. CASE ~(i <= n)
    <3>1. t[i] = <<0, 0, 0, 1>> /\ p[i] = i /\ e[i] = <<0, 0, 0>> /\ i \in Indices(t)
      BY <1>1, <1>2, <1>4, <2>2 DEF Indices
    <3>2. u[i] = SubSeq(t[i], 1, 3)
      BY <3>1
    <3>3. SubSeq(<<0, 0, 0, 1>>, 1, 3) = <<0, 0, 0>>
      BY PaddingRow
    <3> QED BY <3>1, <3>2, <3>3
  <2> QED BY <2>1, <2>2
<1> HIDE DEF u, p
<1>11. p \in [1 .. rows -> 1 .. rows]
  BY <1>7 DEF p
<1>12. BagOf(e) = BagOf(u)
  <2> PICK v, q : v = u /\ q = p
    OBVIOUS
  <2>1. IsFiniteSet(DOMAIN e) /\ q \in [DOMAIN e -> DOMAIN v]
    BY <1>5, <1>6, <1>11
  <2>2. /\ \A i, j \in DOMAIN e : q[i] = q[j] => i = j
        /\ \A j \in DOMAIN v : \E i \in DOMAIN e : q[i] = j
        /\ \A i \in DOMAIN e : v[q[i]] = e[i]
    BY <1>5, <1>8, <1>9, <1>10
  <2>3. BagOf(e) = BagOf(v)
    BY <2>1, <2>2, BagPermuted
  <2> QED BY <2>3
<1> QED BY <1>12 DEF IsPermutation, u

-----------------------------------------------------------------------------
\* The dict columns of the main trace.

\* Without calls the log is written row by row: its steps climb, and the next
\* access lands on a row of its own.
RowsClimb ==
  /\ callers = <<>> /\ step <= TRACE_ROWS
  /\ \A i \in 1 .. Len(dict_accesses) : dict_accesses[i].step < step
  /\ LogFollowsTrace

LEMMA RowsClimbStep ==
  ASSUME StayInSegment, MAX_CALL_DEPTH = 0, CallsInductive, RowsClimb, [CallsNext]_callVars
  PROVE  RowsClimb'
<1>1. CASE RunHint
  <2>1. step \in Nat /\ Inductive
    BY DEF CallsInductive, Inductive, Shape, FrameShape
  <2>2. step < TRACE_ROWS /\ Next /\ callers' = <<>>
    BY <1>1 DEF RunHint, StepLeft, InCallee, RowsClimb
  <2>3. step' = step + 1
    BY <2>2 DEF Next, AllocSegment, AllocFelt252Dict, Felt252DictEntryInit,
                Felt252DictEntryUpdate, GetSegmentArenaIndex
  <2> PICK n : n = Len(dict_accesses)
    OBVIOUS
  <2>4. n \in Nat /\ \A i \in 1 .. n : dict_accesses[i].step \in Nat
    <3>1. dict_accesses \in Seq(Access(Nat))
      BY <2>1 DEF Inductive, Shape, LogTypeOK
    <3>2. \A i \in 1 .. n : dict_accesses[i] \in Access(Nat)
      BY <3>1, ElementOfSeq
    <3> QED BY <3>1, <3>2, LenProperties DEF Access
  <2>5. CASE \E d \in DOMAIN dict_ptr, new \in Values : Felt252DictEntryUpdate(d, new)
    <3>1. PICK d \in DOMAIN dict_ptr, new \in Values : Felt252DictEntryUpdate(d, new)
      BY <2>5
    <3>2. PICK key \in Nat, value \in Nat :
            /\ dict_accesses' = Append(dict_accesses,
                 [step |-> step, key |-> key,
                  prev |-> Lookup(dicts[d], key, 0), new |-> value])
            /\ owner' = Append(owner, d)
      BY <2>1, <3>1, UpdateLogs
    <3> PICK a : a = [step |-> step, key |-> key,
                      prev |-> Lookup(dicts[d], key, 0), new |-> value]
      OBVIOUS
    <3>3. d \in DOMAIN dicts
      BY <2>1, <3>1 DEF Inductive, Shape, FrameShape
    <3>4. /\ Len(dict_accesses') = n + 1 /\ dict_accesses'[n + 1] = a
          /\ \A j \in 1 .. n : dict_accesses'[j] = dict_accesses[j]
      BY <2>1, <3>2, <3>3, AppendAccess
    <3>5. a.step = step
      OBVIOUS
    <3>6. \A i \in 1 .. n + 1 : i \in 1 .. n \/ i = n + 1
      BY <2>4
    <3>7. \A i \in 1 .. n + 1 : dict_accesses'[i].step < step + 1
      <4> TAKE i \in 1 .. n + 1
      <4>1. CASE i \in 1 .. n
        <5> PICK v : v = dict_accesses[i].step
          OBVIOUS
        <5>1. v \in Nat /\ v < step
          BY <2>4, <4>1 DEF RowsClimb
        <5>2. dict_accesses'[i].step = v
          BY <3>4, <4>1
        <5> QED BY <2>1, <5>1, <5>2
      <4>2. CASE i = n + 1
        BY <2>1, <3>4, <3>5, <4>2
      <4> QED BY <3>6, <4>1, <4>2
    <3>8. \A i, j \in 1 .. n + 1 : i < j => dict_accesses'[i].step < dict_accesses'[j].step
      <4> SUFFICES ASSUME NEW i \in 1 .. n + 1, NEW j \in 1 .. n + 1, i < j
                   PROVE  dict_accesses'[i].step < dict_accesses'[j].step
        OBVIOUS
      <4>1. i \in 1 .. n
        BY <2>4
      <4>2. CASE j \in 1 .. n
        BY <3>4, <4>1, <4>2 DEF RowsClimb, LogFollowsTrace
      <4>3. CASE j = n + 1
        BY <3>4, <3>5, <4>1, <4>3 DEF RowsClimb
      <4> QED BY <3>6, <4>2, <4>3
    <3>9. step' <= TRACE_ROWS
      BY <2>1, <2>2, <2>3, CallAssumption
    <3> QED BY <2>2, <2>3, <3>4, <3>7, <3>8, <3>9 DEF RowsClimb, LogFollowsTrace
  <2>6. CASE ~ \E d \in DOMAIN dict_ptr, new \in Values : Felt252DictEntryUpdate(d, new)
    <3>1. dict_accesses' = dict_accesses
      BY <2>1, <2>2, <2>6, OthersDoNotLog
    <3>2. step' <= TRACE_ROWS
      BY <2>1, <2>2, <2>3, CallAssumption
    <3>3. \A i \in 1 .. n : dict_accesses[i].step < step + 1
      <4> TAKE i \in 1 .. n
      <4> PICK v : v = dict_accesses[i].step
        OBVIOUS
      <4>1. v \in Nat /\ v < step
        BY <2>4 DEF RowsClimb
      <4> QED BY <2>1, <4>1
    <3> QED BY <2>2, <2>3, <3>1, <3>2, <3>3 DEF RowsClimb, LogFollowsTrace
  <2> QED BY <2>5, <2>6
<1>2. CASE EnterCallee
  <2>1. Len(callers) = 0
    BY DEF RowsClimb
  <2> QED BY <1>2, <2>1 DEF EnterCallee, call_depth
<1>3. CASE LeaveCallee
  BY <1>3 DEF LeaveCallee, InCallee, RowsClimb
<1>4. CASE UNCHANGED callVars
  BY <1>4 DEF callVars, vars, logVars, frameVars, RowsClimb, LogFollowsTrace
<1> QED BY <1>1, <1>2, <1>3, <1>4 DEF CallsNext

LEMMA RowsAlways ==
  ASSUME StayInSegment, MAX_CALL_DEPTH = 0
  PROVE  CallsSpec => [](CallsInductive /\ RowsClimb)
<1>1. CallsInit => RowsClimb
  BY CallAssumption DEF CallsInit, Init, RowsClimb, LogFollowsTrace
<1>2. CallsInductive /\ RowsClimb /\ [CallsNext]_callVars => RowsClimb'
  BY RowsClimbStep
<1> QED BY <1>1, <1>2, CallsInitInductive, CallsStep, PTL DEF CallsSpec

\* Each access then has a row of the columns to itself, so they hold what the
\* execution-order trace holds.
LEMMA LinkHolds ==
  ASSUME NEW log, log \in Seq(Access(Nat)), log # <<>>,
         \A i \in 1 .. Len(log) : log[i].step < TRACE_ROWS,
         \A i, j \in 1 .. Len(log) : i < j => log[i].step < log[j].step
  PROVE  s_dict_final(log) = exec_key_new_sum(exec_trace(log), Len(log))
<1> PICK n, rows, e : n = Len(log) /\ rows = DictRows(log) /\ e = exec_trace(log)
  OBVIOUS
<1>1. n \in Nat \ {0} /\ \A i \in 1 .. n : log[i].step \in Nat
  <2>1. n \in Nat \ {0} /\ \A i \in 1 .. n : log[i] \in Access(Nat)
    BY ElementOfSeq, LenProperties, EmptySeq
  <2> QED BY <2>1 DEF Access
<1>2. rows \in Nat /\ n <= rows
  BY <1>1, RowsSuffice
<1>3. \A i \in 1 .. n : e[i] = Row3(log[i])
  BY <1>1, <1>2 DEF exec_trace
<1>4. \A i, j \in 1 .. n : log[i].step = log[j].step => i = j
  <2> SUFFICES ASSUME NEW i \in 1 .. n, NEW j \in 1 .. n, log[i].step = log[j].step, i # j
               PROVE  FALSE
    OBVIOUS
  <2>1. i < j \/ j < i
    BY <1>1
  <2>2. log[i].step \in Nat
    BY <1>1
  <2>3. log[i].step < log[j].step \/ log[j].step < log[i].step
    BY <2>1
  <2> QED BY <2>2, <2>3
<1> DEFINE a == [i \in 1 .. n |-> <<e[i][1], e[i][3]>>]
           b == [row \in ActiveRows(log) |-> ColumnEntry(log, row)]
           p == [i \in 1 .. n |-> log[i].step]
<1>5. \A i \in 1 .. n : p[i] \in ActiveRows(log)
  <2> TAKE i \in 1 .. n
  <2>1. log[i].step \in 0 .. TRACE_ROWS - 1
    BY <1>1, CallAssumption
  <2> QED BY <2>1 DEF ActiveRows, Indices
<1>6. \A row \in ActiveRows(log) : \E i \in 1 .. n : p[i] = row
  BY DEF ActiveRows, Indices
<1>7. \A i \in 1 .. n : b[p[i]] = a[i]
  <2> TAKE i \in 1 .. n
  <2> PICK row : row = log[i].step
    OBVIOUS
  <2>1. ColumnEntry(log, row) = <<low31(log[i].key), low31(log[i].new)>>
    <3> DEFINE Wins(h) == log[h].step = row /\ \A j \in Indices(log) : log[j].step = row => j <= h
    <3>1. \A h \in 1 .. n : Wins(h) => h = i
      BY <1>4
    <3>2. Wins(i)
      <4> SUFFICES ASSUME NEW j \in Indices(log), log[j].step = row PROVE j <= i
        OBVIOUS
      <4>1. j = i
        BY <1>4 DEF Indices
      <4> QED BY <1>1, <4>1
    <3> PICK w : w = CHOOSE h \in Indices(log) : Wins(h)
      OBVIOUS
    <3>3. i \in Indices(log)
      BY DEF Indices
    <3>4. w \in Indices(log) /\ Wins(w)
      <4> HIDE DEF Wins
      <4> QED BY <3>2, <3>3
    <3>5. w = i
      <4> HIDE DEF Wins
      <4> QED BY <3>1, <3>4 DEF Indices
    <3>6. ColumnEntry(log, row) = <<low31(log[w].key), low31(log[w].new)>>
      BY DEF ColumnEntry
    <3> QED BY <3>5, <3>6
  <2>2. e[i][1] = low31(log[i].key) /\ e[i][3] = low31(log[i].new)
    BY <1>3 DEF Row3
  <2>3. p[i] = row /\ row \in ActiveRows(log)
    BY <1>5
  <2> QED BY <2>1, <2>2, <2>3
<1>8. /\ s_dict_final(log) = BagOf(b)
      /\ exec_key_new_sum(e, n) = BagOf(a)
  BY DEF s_dict_final, exec_key_new_sum
<1>9. IsFiniteSet(1 .. n)
  <2>1. 1 \in Int /\ n \in Int
    BY <1>1
  <2> QED BY <2>1, FS_Interval
<1>10. DOMAIN a = 1 .. n /\ DOMAIN b = ActiveRows(log) /\ p \in [1 .. n -> ActiveRows(log)]
  BY <1>5
<1>11. \A i, j \in 1 .. n : p[i] = p[j] => i = j
  BY <1>4
<1> PICK f, g, q : f = a /\ g = b /\ q = p
  OBVIOUS
<1> HIDE DEF a, b, p
<1>12. IsFiniteSet(DOMAIN f) /\ q \in [DOMAIN f -> DOMAIN g]
  BY <1>9, <1>10
<1>13. /\ \A i, j \in DOMAIN f : q[i] = q[j] => i = j
       /\ \A j \in DOMAIN g : \E i \in DOMAIN f : q[i] = j
       /\ \A i \in DOMAIN f : g[q[i]] = f[i]
  BY <1>6, <1>7, <1>10, <1>11
<1>14. BagOf(f) = BagOf(g)
  BY <1>12, <1>13, BagPermuted
<1> QED BY <1>8, <1>14

\* What the prover hands its three assertions, they accept.
LEMMA GatePasses ==
  ASSUME CallsInductive, RowsClimb, dict_accesses # <<>>
  PROVE  ProverGate \in {"DictConsistencyViolation", "proved"}
<1> PICK log : log = dict_accesses
  OBVIOUS
<1>1. log \in Seq(Access(Nat)) /\ log # <<>>
  BY DEF CallsInductive, Inductive, Shape, LogTypeOK
<1>2. IsPermutation(exec_trace(log), sorted_trace(log))
  BY <1>1, SortingPermutes
<1>3. s_dict_final(log) = exec_key_new_sum(exec_trace(log), Len(log))
  <2>1. step \in Nat /\ TRACE_ROWS \in Nat /\ step <= TRACE_ROWS
    BY CallAssumption DEF CallsInductive, Inductive, Shape, FrameShape, RowsClimb
  <2>2. \A i \in 1 .. Len(log) : log[i].step \in Nat
    <3>1. \A i \in 1 .. Len(log) : log[i] \in Access(Nat)
      BY <1>1, ElementOfSeq
    <3> QED BY <3>1 DEF Access
  <2>3. ASSUME NEW i \in 1 .. Len(log) PROVE log[i].step < TRACE_ROWS
    <3> PICK v : v = log[i].step
      OBVIOUS
    <3>1. v \in Nat /\ v < step
      BY <2>2 DEF RowsClimb
    <3> QED BY <2>1, <3>1
  <2>4. \A i, j \in 1 .. Len(log) : i < j => log[i].step < log[j].step
    BY DEF RowsClimb, LogFollowsTrace
  <2> QED BY <1>1, <2>3, <2>4, LinkHolds
<1>4. verify_chain(log) => SortedConstraintsHold(sorted_trace(log))
  BY <1>1, ChainMeetsConstraints
<1> QED BY <1>2, <1>3, <1>4 DEF ProverGate

\* prover.rs:1437 and its neighbours: on every run without contract calls, of
\* any number of dictionaries, the prover's own assertions hold.  It proves the
\* run or refuses it, and never panics half-way; its log is then always of main.
THEOREM NoPanicCorrect ==
  ASSUME StayInSegment, MAX_CALL_DEPTH = 0
  PROVE  ProofSpec => [](ProverPasses /\ ProverDoesNotPanic)
<1>1. ProofInit => ProverPasses
  BY DEF ProofInit, ProverPasses
<1>2. CallsInductive /\ RowsClimb /\ ProverPasses /\ [ProofNext]_proofVars
        => ProverPasses'
  <2> SUFFICES ASSUME CallsInductive, RowsClimb, ProverPasses, [ProofNext]_proofVars
               PROVE  ProverPasses'
    OBVIOUS
  <2>1. CASE Execute
    BY <2>1 DEF Execute, ProverPasses
  <2>2. CASE ProveDicts
    <3>1. outcome' = ProverGate /\ dict_accesses # <<>>
      BY <2>2 DEF ProveDicts, Finished
    <3>2. ProverGate \in {"DictConsistencyViolation", "proved"}
      BY <3>1, GatePasses
    <3> QED BY <3>1, <3>2 DEF ProverPasses
  <2>3. CASE VerifyDicts
    BY <2>3 DEF VerifyDicts, ProverPasses
  <2>4. CASE UNCHANGED proofVars
    BY <2>4 DEF proofVars, ProverPasses
  <2> QED BY <2>1, <2>2, <2>3, <2>4 DEF ProofNext
<1>3. ProverPasses => ProverDoesNotPanic
  BY DEF ProverDoesNotPanic
<1> QED BY <1>1, <1>2, <1>3, RowsAlways, ProofRefines, PTL DEF ProofSpec

-----------------------------------------------------------------------------
\* The words a dictionary proof commits to: those of the program's keys and
\* values, each narrowed from the felt in the full-precision log.

KeyWords == {low_u64(k) : k \in Keys}
FeltSide(d) == Lookup(dicts_felt, d, EmptyMap)

WordsInv ==
  /\ \A i \in 1 .. Len(dict_accesses) :
       /\ dict_accesses[i].key \in KeyWords
       /\ dict_accesses[i].prev \in Words /\ dict_accesses[i].new \in Words
  /\ LogIsNarrowedFelts
  /\ \A d \in DOMAIN dicts :
       /\ \A w \in DOMAIN dicts[d] : dicts[d][w] \in Words
       /\ \A k \in DOMAIN FeltSide(d) :
            /\ k \in Keys /\ low_u64(k) \in DOMAIN dicts[d]
            /\ low_u64(FeltSide(d)[k]) = dicts[d][low_u64(k)]

\* What an entry update makes of the two side-states and of the two value logs.
LEMMA EntryUpdateValues ==
  ASSUME StayInSegment, Inductive, OpenInv,
         NEW d \in DOMAIN dict_ptr, NEW new \in Values, Felt252DictEntryUpdate(d, new)
  PROVE  LET key == low_u64(entry[d])
             prev == Lookup(dicts[d], key, 0)
             prev_felt == Lookup(FeltSide(d), entry[d], from_u64(prev))
         IN /\ entry[d] \in Keys /\ owner' = Append(owner, d)
            /\ dicts' = Insert(dicts, d, Insert(dicts[d], key, low_u64(new)))
            /\ dicts_felt' = Insert(dicts_felt, d, Insert(FeltSide(d), entry[d], new))
            /\ dict_accesses' = Append(dict_accesses,
                 [step |-> step, key |-> key, prev |-> prev, new |-> low_u64(new)])
            /\ dict_accesses_felt' = Append(dict_accesses_felt,
                 [step |-> step, key |-> entry[d], prev |-> prev_felt, new |-> new])
            /\ \E p : dict_access_pointers' = Append(dict_access_pointers, p)
<1> PICK ptr : ptr = dict_ptr[d]
  OBVIOUS
<1> DEFINE stored == set_felt(memory, ptr + 2, new)
<1>1. ptr \in Nat /\ d \in DOMAIN dicts /\ d # None
  BY DataAssumption DEF Inductive, Shape, CtxTypeOK, FrameShape
<1>2. entry[d] # None /\ entry[d] \in Keys
  <2>1. entry[d] # None
    BY DEF Felt252DictEntryUpdate
  <2>2. entry \in [DOMAIN dict_ptr -> Keys \cup {None}]
    BY DEF Inductive, Shape, FrameShape
  <2> QED BY <2>1, <2>2
<1>3. find_dict_base(ptr) = {d}
  BY <1>2, OneOwner DEF Inductive
<1>4. LogAccess(stored, ptr, d) /\ owner' = Append(owner, d)
  BY <1>1, <1>3 DEF Felt252DictEntryUpdate
<1>5. get_felt(stored, ptr) = entry[d] /\ get_felt(stored, ptr + 2) = new
  <2>1. get_felt(memory, ptr) = entry[d] /\ ptr # ptr + 2
    BY <1>1, <1>2 DEF OpenInv
  <2> QED BY <2>1, ReadWrite
<1> HIDE DEF stored
<1> QED BY <1>2, <1>4, <1>5 DEF LogAccess, PushAccess, UpdateSideState, FeltSide

LEMMA WordsStep ==
  ASSUME StayInSegment, NarrowKeys, Inductive, OpenInv, WordsInv, [Next]_vars
  PROVE  WordsInv'
<1>0. /\ DOMAIN dict_ptr \subseteq DOMAIN dicts /\ DOMAIN dicts_felt \subseteq DOMAIN dicts
  BY DEF Inductive, Shape, CtxTypeOK, FrameShape
<1>1. CASE \E d \in DOMAIN dict_ptr, new \in Values : Felt252DictEntryUpdate(d, new)
  <2> PICK d \in DOMAIN dict_ptr, new \in Values : Felt252DictEntryUpdate(d, new)
    BY <1>1
  <2> PICK open, key, prev, side, prev_felt :
        /\ open = entry[d] /\ key = low_u64(open) /\ prev = Lookup(dicts[d], key, 0)
        /\ side = FeltSide(d) /\ prev_felt = Lookup(side, open, from_u64(prev))
    OBVIOUS
  <2> PICK a, f :
        /\ a = [step |-> step, key |-> key, prev |-> prev, new |-> low_u64(new)]
        /\ f = [step |-> step, key |-> open, prev |-> prev_felt, new |-> new]
    OBVIOUS
  <2>1. /\ open \in Keys /\ owner' = Append(owner, d)
        /\ dicts' = Insert(dicts, d, Insert(dicts[d], key, low_u64(new)))
        /\ dicts_felt' = Insert(dicts_felt, d, Insert(side, open, new))
        /\ dict_accesses' = Append(dict_accesses, a)
        /\ dict_accesses_felt' = Append(dict_accesses_felt, f)
        /\ \E p : dict_access_pointers' = Append(dict_access_pointers, p)
    BY EntryUpdateValues
  <2>2. d \in DOMAIN dicts
    BY <1>0
  <2>3. prev \in Words
    BY <2>2 DEF Lookup, Words, WordsInv
  <2>4. low_u64(new) \in Words /\ key \in KeyWords
    BY <2>1 DEF Words, KeyWords
  <2>5. low_u64(prev_felt) = prev
    <3>1. CASE open \in DOMAIN side
      <4>1. prev_felt = side[open] /\ key \in DOMAIN dicts[d]
            /\ low_u64(side[open]) = dicts[d][key]
        BY <2>2, <3>1 DEF Lookup, WordsInv
      <4> QED BY <4>1 DEF Lookup
    <3>2. CASE open \notin DOMAIN side
      BY <3>2 DEF Lookup, from_u64, low_u64
    <3> QED BY <3>1, <3>2
  <2> PICK n : n = Len(dict_accesses)
    OBVIOUS
  <2>6. /\ n \in Nat /\ Len(dict_accesses') = n + 1
        /\ dict_accesses'[n + 1] = a /\ dict_accesses_felt'[n + 1] = f
        /\ \A i \in 1 .. n : /\ dict_accesses'[i] = dict_accesses[i]
                             /\ dict_accesses_felt'[i] = dict_accesses_felt[i]
    <3>1. PICK p : dict_access_pointers' = Append(dict_access_pointers, p)
      BY <2>1
    <3>2. /\ dict_accesses' = Append(dict_accesses, a) /\ owner' = Append(owner, d)
          /\ dict_accesses_felt' = Append(dict_accesses_felt, f)
          /\ dict_access_pointers' = Append(dict_access_pointers, p)
      BY <2>1, <3>1
    <3> PICK m : m = Len(owner)
      OBVIOUS
    <3>3. /\ m \in Nat /\ m = Len(dict_accesses) /\ Len(dict_accesses') = m + 1
          /\ dict_accesses'[m + 1] = a /\ dict_accesses_felt'[m + 1] = f
          /\ \A i \in 1 .. m : /\ dict_accesses'[i] = dict_accesses[i]
                               /\ dict_accesses_felt'[i] = dict_accesses_felt[i]
      BY <3>2, LogGrows
    <3> QED BY <3>3
  <2>7. /\ a.key \in KeyWords /\ a.prev \in Words /\ a.new \in Words
        /\ a.key = low_u64(f.key) /\ a.prev = low_u64(f.prev) /\ a.new = low_u64(f.new)
    BY <2>3, <2>4, <2>5
  <2>8. \A i \in 1 .. n + 1 : i \in 1 .. n \/ i = n + 1
    BY <2>6
  <2>9. \A i \in 1 .. n + 1 :
          /\ dict_accesses'[i].key \in KeyWords
          /\ dict_accesses'[i].prev \in Words /\ dict_accesses'[i].new \in Words
          /\ dict_accesses'[i].key = low_u64(dict_accesses_felt'[i].key)
          /\ dict_accesses'[i].prev = low_u64(dict_accesses_felt'[i].prev)
          /\ dict_accesses'[i].new = low_u64(dict_accesses_felt'[i].new)
    BY <2>6, <2>7, <2>8 DEF WordsInv, LogIsNarrowedFelts
  <2>10. ASSUME NEW e \in DOMAIN dicts'
         PROVE  /\ \A w \in DOMAIN dicts'[e] : dicts'[e][w] \in Words
                /\ \A k \in DOMAIN FeltSide(e)' :
                     /\ k \in Keys /\ low_u64(k) \in DOMAIN dicts'[e]
                     /\ low_u64(FeltSide(e)'[k]) = dicts'[e][low_u64(k)]
    <3>1. DOMAIN dicts' = DOMAIN dicts
      BY <2>1, <2>2 DEF Insert
    <3>2. CASE e # d
      <4>1. dicts'[e] = dicts[e] /\ FeltSide(e)' = FeltSide(e)
        BY <2>1, <3>1, <3>2 DEF Insert, FeltSide, Lookup
      <4> QED BY <3>1, <4>1 DEF WordsInv
    <3>3. CASE e = d
      <4>1. /\ dicts'[e] = Insert(dicts[d], key, low_u64(new))
            /\ FeltSide(e)' = Insert(side, open, new)
        BY <2>1, <2>2, <3>3 DEF Insert, FeltSide, Lookup
      <4>2. \A w \in DOMAIN dicts'[e] : dicts'[e][w] \in Words
        BY <2>2, <2>4, <4>1 DEF Insert, WordsInv
      <4>3. ASSUME NEW k \in DOMAIN Insert(side, open, new)
            PROVE  /\ k \in Keys /\ low_u64(k) \in DOMAIN Insert(dicts[d], key, low_u64(new))
                   /\ low_u64(Insert(side, open, new)[k])
                        = Insert(dicts[d], key, low_u64(new))[low_u64(k)]
        <5>1. CASE k = open
          BY <2>1, <5>1 DEF Insert
        <5>2. CASE k # open
          <6>1. k \in DOMAIN side /\ Insert(side, open, new)[k] = side[k]
            BY <5>2 DEF Insert
          <6>2. k \in Keys /\ low_u64(k) \in DOMAIN dicts[d]
                /\ low_u64(side[k]) = dicts[d][low_u64(k)]
            BY <2>2, <6>1 DEF WordsInv
          <6>3. low_u64(k) # key
            BY <2>1, <5>2, <6>2 DEF NarrowKeys
          <6> QED BY <6>1, <6>2, <6>3 DEF Insert
        <5> QED BY <5>1, <5>2
      <4> QED BY <4>1, <4>2, <4>3
    <3> QED BY <3>2, <3>3
  <2> QED BY <2>6, <2>9, <2>10 DEF WordsInv, LogIsNarrowedFelts
<1>2. CASE ~ \E d \in DOMAIN dict_ptr, new \in Values : Felt252DictEntryUpdate(d, new)
  <2>1. UNCHANGED <<dict_accesses, dict_accesses_felt, dicts_felt>>
    BY <1>2 DEF Next, vars, ctxVars, logVars, AllocSegment, AllocFelt252Dict,
                Felt252DictEntryInit, GetSegmentArenaIndex
  <2>2. UNCHANGED dicts \/ dicts' = Insert(dicts, next_segment_base, EmptyMap)
    BY <1>2, OthersDoNotLog
  <2>3. CASE UNCHANGED dicts
    BY <2>1, <2>3 DEF WordsInv, LogIsNarrowedFelts, FeltSide
  <2>4. CASE dicts' = Insert(dicts, next_segment_base, EmptyMap)
    <3> PICK base : base = next_segment_base
      OBVIOUS
    <3>1. ASSUME NEW e \in DOMAIN dicts'
          PROVE  /\ \A w \in DOMAIN dicts'[e] : dicts'[e][w] \in Words
                 /\ \A k \in DOMAIN FeltSide(e)' :
                      /\ k \in Keys /\ low_u64(k) \in DOMAIN dicts'[e]
                      /\ low_u64(FeltSide(e)'[k]) = dicts'[e][low_u64(k)]
      <4>1. FeltSide(e)' = FeltSide(e)
        BY <2>1 DEF FeltSide
      <4>2. CASE e = base
        <5>1. base \notin DOMAIN dicts_felt
          BY <1>0, FreshBase DEF Inductive
        <5>2. FeltSide(e) = EmptyMap /\ dicts'[e] = EmptyMap
          BY <2>4, <4>2, <5>1 DEF FeltSide, Lookup, Insert
        <5> QED BY <4>1, <5>2, EmptyIsMap
      <4>3. CASE e # base
        <5>1. e \in DOMAIN dicts /\ dicts'[e] = dicts[e]
          BY <2>4, <4>3 DEF Insert
        <5> QED BY <4>1, <5>1 DEF WordsInv
      <4> QED BY <4>2, <4>3
    <3> QED BY <2>1, <3>1 DEF WordsInv, LogIsNarrowedFelts
  <2> QED BY <2>2, <2>3, <2>4
<1> QED BY <1>1, <1>2

-----------------------------------------------------------------------------
\* What the prover emits, the verifier accepts.

\* The words the program's keys and values narrow to are elements of the field
\* as they stand.  That is for the program to see to: 2^31 - 1 stays itself under
\* the mask of the dictionary columns and becomes 0 in the operand columns, and
\* the two then disagree on the memory bus.
SmallWords == \A w \in KeyWords \cup Words : w < P

LEMMA SmallWord ==
  ASSUME NEW w \in Nat, w < P
  PROVE  low31(w) = w /\ to_m31(w) = w
<1>1. P \in Nat /\ P + 1 \in Nat /\ w < P + 1
  BY ModulusAssumption
<1>2. w % P = w /\ w % (P + 1) = w
  BY <1>1, SmallMod
<1> QED BY <1>2 DEF low31, to_m31

LEMMA GreatestOf ==
  ASSUME NEW n \in Nat, NEW S, S \subseteq 1 .. n, S # {}
  PROVE  \E i \in S : \A j \in S : j <= i
<1> DEFINE T == {n - i : i \in S}
<1>1. \A i \in S : i \in Nat /\ i <= n /\ n - i \in Nat
  OBVIOUS
<1>2. T \subseteq Nat /\ T # {}
  BY <1>1
<1>3. PICK m \in T : \A k \in T : m <= k
  BY <1>2, LeastNumber
<1>4. PICK i \in S : m = n - i
  BY <1>3
<1>5. ASSUME NEW j \in S PROVE j <= i
  <2>1. n - i <= n - j
    BY <1>3, <1>4
  <2> QED BY <1>1, <2>1
<1> QED BY <1>5

\* Key, previous and new value of an access, in the memory cells, in the log
\* and in the execution-order trace.
LEMMA AccessCells ==
  ASSUME SmallWords, Inductive, MemoryBus, WordsInv,
         NEW i \in 1 .. Len(dict_accesses), NEW c \in 0 .. 2
  PROVE  to_m31(get(memory, dict_access_pointers[i] + c)) = Row3(dict_accesses[i])[c + 1]
<1> PICK a, f, ptr : /\ a = dict_accesses[i] /\ f = dict_accesses_felt[i]
                     /\ ptr = dict_access_pointers[i]
  OBVIOUS
<1>1. /\ a.key = low_u64(f.key) /\ a.new = low_u64(f.new)
      /\ a.key \in KeyWords /\ a.prev \in Words /\ a.new \in Words
  BY DEF WordsInv, LogIsNarrowedFelts
<1>2. /\ get_felt(memory, ptr) = f.key /\ get(memory, ptr + 1) = a.prev
      /\ get_felt(memory, ptr + 2) = f.new
  BY DEF MemoryBus
<1>3. /\ get(memory, ptr) = a.key /\ get(memory, ptr + 1) = a.prev
      /\ get(memory, ptr + 2) = a.new
  BY <1>1, <1>2 DEF get
<1>4. /\ a.key \in Nat /\ a.prev \in Nat /\ a.new \in Nat
      /\ a.key < P /\ a.prev < P /\ a.new < P
  <2>1. KeyWords \subseteq Nat /\ Words \subseteq Nat
    BY DataAssumption, FeltType DEF KeyWords, Words
  <2> QED BY <1>1, <2>1 DEF SmallWords
<1>5. /\ to_m31(a.key) = low31(a.key) /\ to_m31(a.prev) = low31(a.prev)
      /\ to_m31(a.new) = low31(a.new)
  BY <1>4, SmallWord
<1>6. ptr \in Nat
  <2>1. /\ dict_access_pointers \in Seq(0 .. PtrWidth - 1)
        /\ i \in 1 .. Len(dict_access_pointers)
    BY DEF Inductive, Shape, LogTypeOK
  <2>2. ptr \in 0 .. PtrWidth - 1
    BY <2>1, ElementOfSeq
  <2> QED BY <2>2
<1>7. /\ Row3(a)[1] = low31(a.key) /\ Row3(a)[2] = low31(a.prev)
      /\ Row3(a)[3] = low31(a.new)
  BY DEF Row3
<1>8. CASE c = 0
  BY <1>3, <1>5, <1>6, <1>7, <1>8
<1>9. CASE c = 1
  BY <1>3, <1>5, <1>6, <1>7, <1>9
<1>10. CASE c = 2
  BY <1>3, <1>5, <1>6, <1>7, <1>10
<1> QED BY <1>8, <1>9, <1>10

LEMMA AcceptsHonest ==
  ASSUME SmallWords, Inductive, MemoryBus, WordsInv, dict_accesses # <<>>,
         ProverGate = "proved", NEW p,
         p = [n_accesses |-> Len(dict_accesses),
              exec |-> exec_trace(dict_accesses),
              sorted |-> sorted_trace(dict_accesses),
              link_final |-> s_dict_final(dict_accesses),
              side |-> side_table(dict_accesses_felt),
              pointers |-> dict_access_pointers,
              table |-> memory_table]
  PROVE  VerifierAccepts(p)
<1> PICK log, n, rows : log = dict_accesses /\ n = Len(log) /\ rows = DictRows(log)
  OBVIOUS
<1> PICK flog, ptrs : flog = dict_accesses_felt /\ ptrs = dict_access_pointers
  OBVIOUS
<1>1. /\ log \in Seq(Access(Nat)) /\ log # <<>> /\ n \in Nat \ {0}
      /\ Len(flog) = n /\ Len(ptrs) = n /\ ptrs \in Seq(0 .. PtrWidth - 1)
  <2>1. /\ log \in Seq(Access(Nat)) /\ log # <<>> /\ Len(flog) = n /\ Len(ptrs) = n
        /\ ptrs \in Seq(0 .. PtrWidth - 1)
    BY DEF Inductive, Shape, LogTypeOK
  <2> QED BY <2>1, LenProperties, EmptySeq
<1>2. rows \in Nat /\ n <= rows
  BY <1>1, RowsSuffice
<1>3. /\ p.n_accesses = n /\ p.exec = exec_trace(log) /\ p.sorted = sorted_trace(log)
      /\ p.link_final = s_dict_final(log) /\ p.side = side_table(flog)
      /\ p.pointers = ptrs /\ p.table = memory_table
  OBVIOUS
<1> PICK exec : exec = exec_trace(log)
  OBVIOUS
<1>4. /\ Len(exec) = rows /\ \A i \in 1 .. n : exec[i] = Row3(log[i])
      /\ \A i \in n + 1 .. rows : exec[i] = <<0, 0, 0>>
  BY <1>1, <1>2 DEF exec_trace
<1>5. Len(sorted_trace(log)) = rows
  BY <1>2 DEF sorted_trace
<1>6. /\ IsPermutation(exec, sorted_trace(log))
      /\ s_dict_final(log) = exec_key_new_sum(exec, n)
      /\ SortedConstraintsHold(sorted_trace(log))
  BY DEF ProverGate
<1>7. Len(side_table(flog)) = n /\ \A i \in 1 .. n : side_table(flog)[i] = exec[i]
  <2>1. Len(side_table(flog)) = n
    BY <1>1 DEF side_table, Indices
  <2>2. ASSUME NEW i \in 1 .. n PROVE side_table(flog)[i] = exec[i]
    <3>1. /\ log[i].key = low_u64(flog[i].key) /\ log[i].prev = low_u64(flog[i].prev)
          /\ log[i].new = low_u64(flog[i].new)
      BY DEF WordsInv, LogIsNarrowedFelts
    <3>2. side_table(flog)[i] = <<low31(low_u64(flog[i].key)), low31(low_u64(flog[i].prev)),
                                  low31(low_u64(flog[i].new))>>
      BY <1>1 DEF side_table, Indices
    <3> QED BY <1>4, <3>1, <3>2 DEF Row3
  <2> QED BY <2>1, <2>2
<1>8. BusHolds(p)
  <2> DEFINE At(cell) == {i \in Indices(ptrs) : cell[1] - ptrs[i] \in 0 .. 2}
             LastOf(S) == CHOOSE h \in S : \A j \in S : j <= h
             Holds(cell) == LET i == LastOf(At(cell)) IN
                              cell[2] = exec[i][cell[1] - ptrs[i] + 1]
  <2>0. BusHolds(p) <=> \A cell \in memory_table : At(cell) # {} => Holds(cell)
    BY <1>3 DEF BusHolds
  <2> SUFFICES ASSUME NEW cell \in memory_table, At(cell) # {} PROVE Holds(cell)
    BY <2>0
  <2> PICK hits : hits = At(cell)
    OBVIOUS
  <2>1. PICK a \in UNION {d .. dict_ptr[d] - 1 : d \in DOMAIN dict_ptr} :
          cell = <<a, to_m31(get(memory, a))>>
    BY DEF memory_table
  <2>2. a \in Int
    BY <2>1
  <2>3. \E i \in hits : \A j \in hits : j <= i
    <3>1. n \in Nat /\ hits \subseteq 1 .. n /\ hits # {}
      BY <1>1 DEF Indices
    <3> QED BY <3>1, GreatestOf
  <2> PICK i : i = LastOf(hits)
    OBVIOUS
  <2>4. i \in 1 .. n /\ cell[1] - ptrs[i] \in 0 .. 2
    <3>1. i \in hits
      BY <2>3
    <3> QED BY <1>1, <3>1 DEF Indices
  <2>5. ptrs[i] \in Int
    <3>1. i \in 1 .. Len(ptrs)
      BY <1>1, <2>4
    <3>2. ptrs[i] \in 0 .. PtrWidth - 1
      BY <1>1, <3>1, ElementOfSeq
    <3> QED BY <3>2
  <2> PICK ptr, c : ptr = ptrs[i] /\ c = a - ptr
    OBVIOUS
  <2>6. c \in 0 .. 2 /\ a = ptr + c
    BY <2>1, <2>2, <2>4, <2>5
  <2>7. to_m31(get(memory, ptr + c)) = Row3(log[i])[c + 1]
    <3>1. i \in 1 .. Len(dict_accesses) /\ c \in 0 .. 2
      BY <2>4, <2>6
    <3>2. to_m31(get(memory, dict_access_pointers[i] + c)) = Row3(dict_accesses[i])[c + 1]
      BY <3>1, AccessCells
    <3> QED BY <3>2
  <2>8. exec[i] = Row3(log[i]) /\ cell[1] = a /\ cell[2] = to_m31(get(memory, a))
    BY <1>4, <2>1, <2>4
  <2> QED BY <2>6, <2>7, <2>8
<1> QED BY <1>1, <1>2, <1>3, <1>4, <1>5, <1>6, <1>7, <1>8 DEF VerifierAccepts

\* The memory and the words of a run without calls, as DictHintsProofs has them.
LEMMA WordsAlways ==
  ASSUME StayInSegment, MAX_CALL_DEPTH = 0, ArenaFits, PointersFit, NarrowKeys
  PROVE  CallsSpec => [](Inductive /\ MemoryBus /\ WordsInv)
<1>1. RowsClimb /\ [CallsNext]_callVars => [Next]_vars
  <2> SUFFICES ASSUME RowsClimb, [CallsNext]_callVars PROVE [Next]_vars
    OBVIOUS
  <2>1. Len(callers) = 0
    BY DEF RowsClimb
  <2> QED BY <2>1 DEF RowsClimb, CallsNext, RunHint, EnterCallee, call_depth, LeaveCallee,
                      InCallee, callVars
<1>2. CallsSpec => Spec
  <2>1. CallsInit => Init
    BY DEF CallsInit
  <2> QED BY <1>1, <2>1, RowsAlways, PTL DEF CallsSpec, Spec
<1>3. Init => WordsInv
  BY DEF Init, WordsInv, LogIsNarrowedFelts, EmptyMap
<1>4. Inductive /\ OpenInv /\ WordsInv /\ [Next]_vars => WordsInv'
  BY WordsStep
<1>5. BusInv => MemoryBus
  BY DEF BusInv
<1> QED BY <1>2, <1>3, <1>4, <1>5, MemoryAlways, PTL DEF Spec

\* prover.rs, cairo_verify: completeness of the dictionary part.  Whatever number
\* of dictionaries and accesses a run without contract calls has, if the prover
\* emits a proof of it the verifier accepts that proof: padding, link sum, side
\* table, permutation, C0-C3 and the memory bus all agree with the run.
THEOREM HonestCorrect ==
  ASSUME StayInSegment, MAX_CALL_DEPTH = 0, ArenaFits, PointersFit, NarrowKeys, SmallWords
  PROVE  ProofSpec => [](VerifierPasses /\ HonestProofAccepted)
<1> DEFINE Emitted == outcome # "rejected" /\ (outcome = "proved" => VerifierAccepts(proof))
<1>1. ProofInit => Emitted
  BY DEF ProofInit
<1>2. Inductive /\ MemoryBus /\ WordsInv /\ Emitted /\ [ProofNext]_proofVars => Emitted'
  <2> SUFFICES ASSUME Inductive, MemoryBus, WordsInv, Emitted, [ProofNext]_proofVars
               PROVE  Emitted'
    OBVIOUS
  <2>1. CASE Execute
    BY <2>1 DEF Execute
  <2>2. CASE ProveDicts
    <3>1. outcome' = ProverGate /\ dict_accesses # <<>>
      BY <2>2 DEF ProveDicts, Finished
    <3>2. ProverGate # "rejected"
      BY DEF ProverGate
    <3>3. ASSUME ProverGate = "proved" PROVE VerifierAccepts(proof')
      <4> PICK p : p = proof'
        OBVIOUS
      <4>1. p = [n_accesses |-> Len(dict_accesses),
                 exec |-> exec_trace(dict_accesses),
                 sorted |-> sorted_trace(dict_accesses),
                 link_final |-> s_dict_final(dict_accesses),
                 side |-> side_table(dict_accesses_felt),
                 pointers |-> dict_access_pointers,
                 table |-> memory_table]
        BY <2>2, <3>3 DEF ProveDicts
      <4>2. VerifierAccepts(p)
        BY <3>1, <3>3, <4>1, AcceptsHonest
      <4> QED BY <4>2
    <3> QED BY <3>1, <3>2, <3>3 DEF VerifierAccepts, BusHolds
  <2>3. CASE VerifyDicts
    BY <2>3 DEF VerifyDicts
  <2>4. CASE UNCHANGED proofVars
    BY <2>4 DEF proofVars
  <2> QED BY <2>1, <2>2, <2>3, <2>4 DEF ProofNext
<1>3. Emitted => VerifierPasses /\ HonestProofAccepted
  BY DEF VerifierPasses, HonestProofAccepted
<1> HIDE DEF Emitted
<1> QED BY <1>1, <1>2, <1>3, WordsAlways, ProofRefines, PTL DEF ProofSpec

=============================================================================
