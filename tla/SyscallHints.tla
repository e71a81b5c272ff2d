---------------------------- MODULE SyscallHints ----------------------------
(***************************************************************************)
(* The SystemCall hint of src/src/cairo_air/hints.rs: dispatch on the      *)
(* selector word, gas, storage, events, execution info, cross-contract     *)
(* calls run in process by execute_callee, and the RPC resolver that       *)
(* fetches contracts the registry does not have.                           *)
(*                                                                         *)
(* The program is the environment: in each frame it either executes an     *)
(* ordinary instruction, which may push a word, or a syscall with          *)
(* parameters of its choice.  A syscall buffer is abstracted to the gas    *)
(* counter the program carries from one syscall to the next and to the     *)
(* response; of the memory only the execution-info regions are kept.       *)
(***************************************************************************)
EXTENDS Integers, Sequences, FiniteSets

CONSTANTS
  SEGMENT_BASE_DEFAULT, SEGMENT_SIZE,
  MAX_CALL_DEPTH, MAX_CALLEE_STEPS,
  TRACE_ROWS,            \* instructions main executes
  gas_cost,              \* syscall name -> gas; EmitEventWord per key and datum
  low64,                 \* syscall name -> low 64 bits of its ASCII name
  sel,                   \* syscall name -> the constant of mod sel
  InitialGas,            \* gas main starts with
  MainAddress,           \* contract_address of the SyscallState, a felt
  Registered,            \* contract_registry at the start: word -> selector -> pc
  HasResolver,           \* whether an RPC resolver is set
  Published,             \* the classes the node can serve
  Targets, Selectors,    \* words the program calls
  Felts,                 \* felts it stores and emits
  MaxSyscalls, MaxPushes,\* bounds: syscalls in a behaviour, words pushed per frame
  None

ASSUME LimitsAssumption ==
  /\ SEGMENT_BASE_DEFAULT \in Nat /\ SEGMENT_SIZE \in Nat \ {0}
  /\ MAX_CALL_DEPTH \in Nat /\ MAX_CALLEE_STEPS \in Nat \ {0} /\ TRACE_ROWS \in Nat
  /\ MaxSyscalls \in Nat /\ MaxPushes \in Nat /\ InitialGas \in Nat

Felt == Nat \X Nat
from_u64(n) == <<0, n>>
low_u64(f) == f[2]

SyscallNames == {"StorageRead", "StorageWrite", "EmitEvent", "GetExecutionInfo",
                 "GetBlockHash", "CallContract", "LibraryCall", "Deploy", "SendMessageToL1"}
ASSUME GasAssumption == gas_cost \in [SyscallNames \cup {"EmitEventWord"} -> Nat]

ASSUME ContractAssumption ==
  /\ MainAddress \in Felt /\ Felts \subseteq Felt
  /\ Targets \subseteq Nat /\ Selectors \subseteq Nat /\ Published \subseteq Targets
  /\ \A t \in DOMAIN Registered :
       /\ t \in Targets /\ DOMAIN Registered[t] \in SUBSET Nat /\ DOMAIN Registered[t] # {}
       /\ Registered[t] \in [DOMAIN Registered[t] -> Nat]
  /\ HasResolver \in BOOLEAN /\ None \notin Nat

VARIABLES
  storage, events, cross_contract_calls, deployed_contracts, l1_messages,
  caller_address, contract_address, entry_point_selector,
  total_gas_used, exec_info_base,
  contract_registry,
  cache,                 \* RpcResolver: class -> found or not, positive or negative
  next_segment_base,
  callers,               \* suspended frames, innermost last
  memory,                \* exec_info pointer -> execution info, in this frame
  step,                  \* loop counter of this frame
  gas,                   \* the gas counter the program holds
  pushed,                \* words pushed since the frame began: memory[initial_ap..ap]
  entry_pc,              \* where this frame started
  response,              \* what the last syscall of this frame answered
  budget,                \* history: gas handed to the frames, less what was dropped
  asked                  \* history: every syscall, in the order issued

effects == <<storage, events, deployed_contracts, l1_messages>>
context == <<caller_address, contract_address, entry_point_selector, exec_info_base>>
registry == <<contract_registry, cache>>
frame == <<memory, step, gas, pushed, entry_pc, response>>
vars == <<effects, cross_contract_calls, context, total_gas_used, registry,
          next_segment_base, callers, frame, budget, asked>>

Insert(f, k, v) == [x \in DOMAIN f \cup {k} |-> IF x = k THEN v ELSE f[x]]
Lookup(f, k, default) == IF k \in DOMAIN f THEN f[k] ELSE default
EmptyMap == [x \in {} |-> 0]
Min2(a, b) == IF a < b THEN a ELSE b

-----------------------------------------------------------------------------
Init ==
  /\ storage = EmptyMap /\ events = <<>> /\ cross_contract_calls = <<>>
  /\ deployed_contracts = <<>> /\ l1_messages = <<>>
  /\ caller_address = from_u64(0) /\ contract_address = MainAddress
  /\ entry_point_selector = from_u64(0) /\ exec_info_base = None
  /\ total_gas_used = 0
  /\ contract_registry = Registered /\ cache = EmptyMap
  /\ next_segment_base = SEGMENT_BASE_DEFAULT
  /\ callers = <<>>
  /\ memory = EmptyMap /\ step = 0 /\ gas = InitialGas /\ pushed = <<>>
  /\ entry_pc = 0 /\ response = <<>>
  /\ budget = InitialGas /\ asked = <<>>

call_depth == Len(callers)
InCallee == callers # <<>>
StepLeft == step < IF InCallee THEN MAX_CALLEE_STEPS ELSE TRACE_ROWS

\* The program issues the syscall called name: the word in its buffer is the one
\* the hint dispatches on.
IssueWith(name, word, keys, call) ==
  /\ StepLeft /\ Len(asked) < MaxSyscalls
  /\ word = sel[name]
  /\ asked' = Append(asked, [word |-> word, keys |-> keys, call |-> call])
Issue(name, word) == IssueWith(name, word, <<>>, None)

\* charge_gas that accounts for the whole cost whatever the program has.
ChargeInFull(cost) ==
  /\ gas' = gas - Min2(gas, cost)
  /\ total_gas_used' = total_gas_used + cost

\* charge_gas: take what the program has, at most cost, and answer the rest.
charge_gas(cost) ==
  /\ gas' = gas - Min2(gas, cost)
  /\ total_gas_used' = total_gas_used + Min2(gas, cost)

\* The end of every syscall but a call: the response, and the next instruction.
Respond(value) ==
  /\ response' = value
  /\ step' = step + 1
  /\ UNCHANGED <<cross_contract_calls, registry, callers, pushed, entry_pc, budget>>

StorageRead(word, key) ==
  /\ Issue("StorageRead", word)
  /\ charge_gas(gas_cost.StorageRead)
  /\ Respond(<<Lookup(storage, key, from_u64(0))>>)
  /\ UNCHANGED <<effects, context, next_segment_base, memory>>

StorageWrite(word, key, value) ==
  /\ Issue("StorageWrite", word)
  /\ storage' = Insert(storage, key, value)
  /\ charge_gas(gas_cost.StorageWrite)
  /\ Respond(<<>>)
  /\ UNCHANGED <<events, deployed_contracts, l1_messages, context, next_segment_base, memory>>

\* Keys and data are read as u64 words and widened again.
EmitEvent(word, keys, data) ==
  LET widened(s) == [i \in DOMAIN s |-> from_u64(low_u64(s[i]))] IN
  /\ IssueWith("EmitEvent", word, keys, None)
  /\ events' = Append(events, [keys |-> widened(keys), data |-> widened(data)])
  /\ charge_gas(gas_cost.EmitEvent + gas_cost.EmitEventWord * (Len(keys) + Len(data)))
  /\ Respond(<<>>)
  /\ UNCHANGED <<storage, deployed_contracts, l1_messages, context, next_segment_base, memory>>

\* syscall_exec_info_ptr: the region of this frame, written when first asked for.
EXEC_INFO_OFFSET == 23
exec_info ==
  [account |-> caller_address, caller |-> caller_address,
   contract |-> contract_address, selector |-> entry_point_selector]

GetExecutionInfo(word) ==
  LET made == next_segment_base + EXEC_INFO_OFFSET IN
  /\ Issue("GetExecutionInfo", word)
  /\ IF exec_info_base # None
     THEN /\ UNCHANGED <<exec_info_base, next_segment_base, memory>>
          /\ Respond(<<from_u64(exec_info_base)>>)
     ELSE /\ exec_info_base' = made
          /\ next_segment_base' = next_segment_base + SEGMENT_SIZE
          /\ memory' = Insert(memory, made, exec_info)
          /\ Respond(<<from_u64(made)>>)
  /\ charge_gas(gas_cost.GetExecutionInfo)
  /\ UNCHANGED <<effects, caller_address, contract_address, entry_point_selector>>

\* A mock hash: the number of the current block, whichever block was asked for.
BLOCK_NUMBER == 1000
GetBlockHash(word) ==
  /\ Issue("GetBlockHash", word)
  /\ charge_gas(gas_cost.GetBlockHash)
  /\ Respond(<<from_u64(BLOCK_NUMBER)>>)
  /\ UNCHANGED <<effects, context, next_segment_base, memory>>

\* The mock address of a deployed contract is salt XOR class_hash.
xor[p \in Nat \X Nat] ==
  IF 0 \in {p[1], p[2]} THEN p[1] + p[2]
  ELSE 2 * xor[<<p[1] \div 2, p[2] \div 2>>] + ((p[1] + p[2]) % 2)

Deploy(word, class_hash, salt) ==
  LET mock_addr == xor[<<salt, class_hash>>]
      deployed == [class_hash |-> from_u64(class_hash), salt |-> from_u64(salt),
                   contract_address |-> from_u64(mock_addr)]
  IN
  /\ Issue("Deploy", word)
  /\ charge_gas(gas_cost.Deploy)
  /\ Respond(<<from_u64(mock_addr)>>)
  /\ deployed_contracts' = Append(deployed_contracts, deployed)
  /\ UNCHANGED <<storage, events, l1_messages, context, next_segment_base, memory>>

SendMessageToL1(word, to) ==
  /\ Issue("SendMessageToL1", word)
  /\ charge_gas(gas_cost.SendMessageToL1)
  /\ Respond(<<>>)
  /\ l1_messages' = Append(l1_messages, from_u64(to))
  /\ UNCHANGED <<storage, events, deployed_contracts, context, next_segment_base, memory>>

\* The default arm: a selector the hint does not know is answered by nothing, and
\* the cell the program reads its remaining gas from holds the 0 it always held.
UnknownSyscall(word) ==
  /\ StepLeft /\ Len(asked) < MaxSyscalls
  /\ \A name \in DOMAIN sel : word # sel[name]
  /\ asked' = Append(asked, [word |-> word, keys |-> <<>>, call |-> None])
  /\ gas' = 0 /\ budget' = budget - gas
  /\ response' = <<>> /\ step' = step + 1
  /\ UNCHANGED <<effects, cross_contract_calls, context, total_gas_used, registry,
                 next_segment_base, callers, memory, pushed, entry_pc>>

-----------------------------------------------------------------------------
\* Calls.

\* try_resolve: a cached answer, or a fetch that may fail even for a published class.
try_resolve(target) ==
  IF target \in DOMAIN cache THEN {cache[target]}
  ELSE IF target \in Published THEN BOOLEAN ELSE {FALSE}

\* On a registry miss either answer is cached and a found class registered with one
\* entry point, under the selector asked for and under 0.
ResolvedPc == 7
Resolve(target, entry_pt) ==
  IF target \in DOMAIN contract_registry \/ ~HasResolver
  THEN UNCHANGED registry
  ELSE \E found \in try_resolve(target) :
         /\ cache' = Insert(cache, target, found)
         /\ contract_registry' =
              IF found
              THEN Insert(contract_registry, target, [s \in {0, entry_pt} |-> ResolvedPc])
              ELSE contract_registry

\* The entry of a selector; of an unknown one, any value of the HashMap.
EntryPc(entry_points, entry_pt) ==
  IF entry_pt \in DOMAIN entry_points THEN {entry_points[entry_pt]}
  ELSE {entry_points[s] : s \in DOMAIN entry_points}

\* What execute_callee saves of the caller, and what the Rust stack keeps.
Suspended(call) ==
  [caller_address |-> caller_address, contract_address |-> contract_address,
   entry_point_selector |-> entry_point_selector, exec_info_base |-> exec_info_base,
   memory |-> memory, step |-> step, gas |-> gas, pushed |-> pushed,
   entry_pc |-> entry_pc, call |-> call]

CallRecord(name, target, entry_pt) ==
  [target |-> from_u64(target), selector |-> from_u64(entry_pt),
   is_library |-> name = "LibraryCall"]

\* The context of a callee that leaves it the caller's execution-info region, ...
KeptExecInfo(target, entry_pt) ==
  /\ caller_address' = from_u64(low_u64(contract_address))
  /\ contract_address' = from_u64(target)
  /\ entry_point_selector' = from_u64(entry_pt)
  /\ UNCHANGED exec_info_base

\* ... and one that passes the caller's own caller on.
KeptCaller(target, entry_pt) ==
  /\ contract_address' = from_u64(target)
  /\ entry_point_selector' = from_u64(entry_pt)
  /\ exec_info_base' = None
  /\ UNCHANGED caller_address

\* The callee's execution context; the caller's address is narrowed to 64 bits.
CalleeContext(target, entry_pt) ==
  /\ caller_address' = from_u64(low_u64(contract_address))
  /\ contract_address' = from_u64(target)
  /\ entry_point_selector' = from_u64(entry_pt)
  /\ exec_info_base' = None

\* A call the hint runs in process.  The callee's gas counter is whatever word its
\* program puts there: here the caller's, passed on in the calldata, or 0.
EnterCallee(name, word, target, entry_pt, forwarded) ==
  LET call == CallRecord(name, target, entry_pt) IN
  /\ IssueWith(name, word, <<>>, call)
  /\ Resolve(target, entry_pt)
  /\ target \in DOMAIN contract_registry' /\ call_depth < MAX_CALL_DEPTH
  /\ \E pc \in EntryPc(contract_registry'[target], entry_pt) : entry_pc' = pc
  /\ callers' = Append(callers, Suspended(call))
  /\ CalleeContext(target, entry_pt)
  /\ memory' = EmptyMap /\ step' = 0 /\ gas' = forwarded /\ pushed' = <<>>
  /\ response' = <<>>
  /\ budget' = budget + forwarded
  /\ UNCHANGED <<effects, cross_contract_calls, total_gas_used, next_segment_base>>

\* A call to a contract nobody has, or beyond the depth limit: empty retdata.
CallWithoutCallee(name, word, target, entry_pt) ==
  LET call == CallRecord(name, target, entry_pt) IN
  /\ IssueWith(name, word, <<>>, call)
  /\ Resolve(target, entry_pt)
  /\ target \notin DOMAIN contract_registry' \/ call_depth >= MAX_CALL_DEPTH
  /\ charge_gas(gas_cost[name])
  /\ cross_contract_calls' = Append(cross_contract_calls, call)
  /\ response' = <<>>
  /\ step' = step + 1
  /\ UNCHANGED <<effects, context, next_segment_base, callers, memory, pushed, entry_pc, budget>>

\* The callee is over: it has returned, or used up its steps.  The caller's context
\* comes back, everything else the callee did stays; then the call is charged to the
\* caller's gas counter, answered and recorded.
LeaveCallee ==
  LET caller == callers[Len(callers)]
      name == IF caller.call.is_library THEN "LibraryCall" ELSE "CallContract"
      consumed == Min2(caller.gas, gas_cost[name])
  IN
  /\ InCallee
  /\ callers' = SubSeq(callers, 1, Len(callers) - 1)
  /\ caller_address' = caller.caller_address
  /\ contract_address' = caller.contract_address
  /\ entry_point_selector' = caller.entry_point_selector
  /\ exec_info_base' = caller.exec_info_base
  /\ memory' = caller.memory /\ step' = caller.step + 1
  /\ pushed' = caller.pushed /\ entry_pc' = caller.entry_pc
  /\ gas' = caller.gas - consumed
  /\ total_gas_used' = total_gas_used + consumed
  /\ response' = pushed
  /\ cross_contract_calls' = Append(cross_contract_calls, caller.call)
  /\ budget' = budget - gas
  /\ UNCHANGED <<effects, registry, next_segment_base, asked>>

\* A loop with no limit: only the callee's own return ends it.
RunsOn == LeaveCallee /\ FALSE
CutOff == LeaveCallee /\ step = MAX_CALLEE_STEPS
Halt == LeaveCallee /\ step < MAX_CALLEE_STEPS

\* Any other instruction.
Instruction ==
  /\ StepLeft
  /\ step' = step + 1
  /\ \/ UNCHANGED pushed
     \/ Len(pushed) < MaxPushes /\ pushed' = Append(pushed, from_u64(step))
  /\ UNCHANGED <<effects, cross_contract_calls, context, total_gas_used, registry,
                 next_segment_base, callers, memory, gas, entry_pc, response, budget, asked>>

-----------------------------------------------------------------------------
\* A program finds its selectors by name, or uses the words of mod sel (as the
\* repository's tests do).
Words == {low64[n] : n \in DOMAIN low64} \cup {sel[n] : n \in DOMAIN sel}

Syscall(word) ==
  \/ \E key \in Felts : StorageRead(word, key)
  \/ \E key, value \in Felts : StorageWrite(word, key, value)
  \/ \E key \in Felts : EmitEvent(word, <<key>>, <<>>)
  \/ GetExecutionInfo(word)
  \/ GetBlockHash(word)
  \/ \E t \in Targets, salt \in Selectors : Deploy(word, t, salt)
  \/ \E t \in Targets : SendMessageToL1(word, t)
  \/ UnknownSyscall(word)

Call(name, word, target, entry_pt) ==
  \/ \E forwarded \in {0, gas} : EnterCallee(name, word, target, entry_pt, forwarded)
  \/ CallWithoutCallee(name, word, target, entry_pt)

Next ==
  \/ \E word \in Words : Syscall(word)
  \/ \E name \in {"CallContract", "LibraryCall"}, word \in Words,
        target \in Targets, entry_pt \in Selectors : Call(name, word, target, entry_pt)
  \/ CutOff
  \/ Halt
  \/ Instruction

\* The interpreter's loop never waits: some step is taken while one is left.  That a
\* callee returns of its own accord is not assumed.
Advance == Instruction \/ CutOff
Spec == Init /\ [][Next]_vars /\ WF_vars(Advance)

-----------------------------------------------------------------------------
\* Properties.

\* The shape of SyscallState and of the suspended frames (hints.rs:136-175).
TypeOK ==
  /\ \A k \in DOMAIN storage : k \in Felt /\ storage[k] \in Felt
  /\ caller_address \in Felt /\ contract_address \in Felt /\ entry_point_selector \in Felt
  /\ exec_info_base \in DOMAIN memory \cup {None}
  /\ total_gas_used \in Nat /\ gas \in Nat /\ step \in Nat /\ next_segment_base \in Nat
  /\ DOMAIN contract_registry \subseteq Targets /\ DOMAIN cache \subseteq Targets
  /\ Len(callers) <= MAX_CALL_DEPTH
  /\ Len(cross_contract_calls) + Len(callers) <= Len(asked)

\* "GetExecutionInfo returns correct data at every depth" (hints.rs:782): the
\* region a frame is pointed at lies in its own memory and holds its own context,
\* also after calls it made have swapped that context out and back.
InfoOf(f) == [account |-> f.caller_address, caller |-> f.caller_address,
              contract |-> f.contract_address, selector |-> f.entry_point_selector]
ExecInfoIsOwn ==
  /\ exec_info_base # None =>
       exec_info_base \in DOMAIN memory /\ memory[exec_info_base] = exec_info
  /\ \A i \in 1 .. Len(callers) : LET f == callers[i] IN
       f.exec_info_base # None =>
         f.exec_info_base \in DOMAIN f.memory /\ f.memory[f.exec_info_base] = InfoOf(f)

\* The caller a frame is told of is the contract that called it, in full (hints.rs:156
\* and 670).
ContextAt(i) == IF i > Len(callers)
                THEN [caller |-> caller_address, contract |-> contract_address]
                ELSE [caller |-> callers[i].caller_address,
                      contract |-> callers[i].contract_address]
CallerIsParent ==
  \A i \in 1 .. Len(callers) : ContextAt(i + 1).caller = ContextAt(i).contract

\* Every unit of gas is accounted for once: consumed, or still held by a frame of
\* the call tree, or dropped with a callee that is over or a syscall the hint does
\* not know (charge_gas, hints.rs:551).
GasHeld ==
  LET held[i \in 0 .. Len(callers)] ==
        IF i = 0 THEN gas ELSE held[i - 1] + callers[i].gas
  IN held[Len(callers)]
GasAccounted == total_gas_used + GasHeld = budget

\* A call comes back however its callee runs: what it calls in turn is bounded by
\* MAX_CALL_DEPTH and every frame by MAX_CALLEE_STEPS.
CallsReturn == InCallee ~> ~InCallee

\* "total_gas_used never exceeds the gas the program actually had available"
\* (hints.rs:550).
GasWithinMeans == total_gas_used <= InitialGas

\* "Returns an empty Vec if ... the callee exceeds MAX_CALLEE_STEPS without halting"
\* (hints.rs:788-790).
CutOffReturnsNothing == [][CutOff => response' = <<>>]_vars

\* "Event keys (full Felt252)" (hints.rs:82).
AskedFor(name) == SelectSeq(asked, LAMBDA a : a.word = sel[name])
EventsAreFull ==
  \A i \in 1 .. Len(events) : events[i].keys = AskedFor("EmitEvent")[i].keys

\* "Records of call_contract / library_call syscalls (in order)" (hints.rs:150).
CallsRecordedInOrder ==
  LET issued == SelectSeq(asked, LAMBDA a : a.word \in {sel.CallContract, sel.LibraryCall})
  IN \A i \in 1 .. Len(cross_contract_calls) : cross_contract_calls[i] = issued[i].call

\* "Fall back to entry_points[0] if selector not found" (hints.rs:665).
FallbackIsDefault ==
  InCallee =>
    LET entry_points == contract_registry[low_u64(contract_address)] IN
    low_u64(entry_point_selector) \notin DOMAIN entry_points /\ 0 \in DOMAIN entry_points
      => entry_pc = entry_points[0]

\* The selectors "equal the last 8 bytes of the ASCII name" (hints.rs:59-62): a
\* message sent by the syscall's name is recorded.
MessagesAreRecorded ==
  Len(SelectSeq(asked, LAMBDA a : a.word = low64.SendMessageToL1)) <= Len(l1_messages)
=============================================================================
