------------------------------ MODULE DictCalls ------------------------------
(***************************************************************************)
(* Dictionary hints under cross-contract calls (execute_callee,            *)
(* hints.rs:792).  A callee runs to completion inside the caller's         *)
(* SystemCall hint, in a memory of its own and with steps counted from 0,  *)
(* but on the caller's HintContext: segments, dictionaries and access logs *)
(* are shared by the whole call tree.                                      *)
(***************************************************************************)
EXTENDS DictHints

CONSTANTS
  TRACE_ROWS,            \* n = 2^log_n: main executes this many steps
  MAX_CALL_DEPTH,        \* nesting at which a call returns empty retdata instead
  MAX_CALLEE_STEPS       \* a callee still running after this many is halted

ASSUME CallAssumption ==
  TRACE_ROWS \in Nat /\ MAX_CALL_DEPTH \in Nat /\ MAX_CALLEE_STEPS \in Nat

VARIABLE callers         \* the suspended frames, innermost last

callVars == <<vars, callers>>

Frame == [memory |-> memory, step |-> step, dict_ptr |-> dict_ptr,
          entry |-> entry, dict_index |-> dict_index]

\* call_depth of the HintContext: main runs at depth 0.
call_depth == Len(callers)

CallsInit == Init /\ callers = <<>>

\* main runs as long as the trace; a callee at most MAX_CALLEE_STEPS steps.
InCallee == callers # <<>>
StepLeft == step < IF InCallee THEN MAX_CALLEE_STEPS ELSE TRACE_ROWS

RunHint == StepLeft /\ Next /\ UNCHANGED callers

\* SharedContext that hands the callee an allocator of its own.
RewoundAllocator ==
  /\ next_segment_base' = SEGMENT_BASE_DEFAULT
  /\ UNCHANGED <<dicts, dicts_felt, dict_arena_info, logVars>>

\* The callee works on the caller's HintContext: nothing of it is saved or reset.
SharedContext == UNCHANGED <<ctxVars, logVars>>

\* FreshFrame in which the caller's handles stay usable.
FrameWithHandles ==
  /\ \E p \in InfosPtrs : memory' = set(EmptyMap, ArenaPtr, p)
  /\ step' = 0
  /\ UNCHANGED <<dict_ptr, entry, dict_index>>

\* An empty memory with a segment arena, and steps counted from 0.
FreshFrame ==
  /\ \E p \in InfosPtrs : memory' = set(EmptyMap, ArenaPtr, p)
  /\ step' = 0
  /\ dict_ptr' = EmptyMap /\ entry' = EmptyMap /\ dict_index' = EmptyMap

\* CallContract on a registered contract below the depth limit: a fresh frame.
EnterCallee ==
  /\ StepLeft /\ call_depth < MAX_CALL_DEPTH /\ SegmentLeft
  /\ callers' = Append(callers, Frame)
  /\ FreshFrame
  /\ SharedContext

\* The callee reached its halt sentinel, or ran out of steps.  Its memory is
\* dropped, the shared context is not rolled back, and the caller's SystemCall
\* instruction is executed.
LeaveCallee ==
  LET caller == callers[Len(callers)] IN
  /\ InCallee
  /\ OpenEntries = {} \/ step = MAX_CALLEE_STEPS
  /\ callers' = SubSeq(callers, 1, Len(callers) - 1)
  /\ memory' = caller.memory /\ step' = caller.step + 1
  /\ dict_ptr' = caller.dict_ptr /\ entry' = caller.entry
  /\ dict_index' = caller.dict_index
  /\ SharedContext

CallsNext == RunHint \/ EnterCallee \/ LeaveCallee

CallsSpec == CallsInit /\ [][CallsNext]_callVars

-----------------------------------------------------------------------------
\* Properties.

\* Frames hold disjoint dictionaries: no handle is live in two frames, so a
\* callee can neither advance nor squash a dictionary of its caller.
FrameHandles(i) == DOMAIN IF i > Len(callers) THEN dict_ptr ELSE callers[i].dict_ptr
FramesOwnTheirDicts ==
  /\ \A i, j \in 1 .. call_depth + 1 :
       i # j => FrameHandles(i) \cap FrameHandles(j) = {}
  /\ \A i \in 1 .. call_depth + 1 : FrameHandles(i) \subseteq DOMAIN dicts

\* "step is the trace row index (0-based) at which the access occurred"
\* (hints.rs:244): rows of one trace, so no two accesses share one and the log,
\* which is in execution order, never goes back.
LogFollowsTrace ==
  \A i, j \in 1 .. Len(dict_accesses) :
    i < j => dict_accesses[i].step < dict_accesses[j].step

\* "Each entry's dict_ptr is the memory address where the 3-cell entry lives"
\* (hints.rs:254), read back by the verifier from the trace of the main frame.
MainMemoryBus == ~InCallee => MemoryBus
=============================================================================
