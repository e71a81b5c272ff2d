------------------------- MODULE SyscallHintsProofs -------------------------
(***************************************************************************)
(* Proofs about SyscallHints, for every depth limit, step limit, registry  *)
(* and set of targets.                                                     *)
(***************************************************************************)
EXTENDS SyscallHints, SequenceTheorems, WellFoundedInduction, TLAPS

-----------------------------------------------------------------------------
\* The sets the variables range over.
Info == [account : Felt, caller : Felt, contract : Felt, selector : Felt]
Memories == UNION {[D -> Info] : D \in SUBSET Nat}
EntryPoints == UNION {[S -> Nat] : S \in (SUBSET Nat) \ {{}}}
CallRecords == [target : Felt, selector : Felt, is_library : BOOLEAN]
Frame == [caller_address : Felt, contract_address : Felt, entry_point_selector : Felt,
          exec_info_base : Nat \cup {None}, memory : Memories, step : Nat, gas : Nat,
          pushed : Seq(Felt), entry_pc : Nat, call : CallRecords]
Asked == [word : Words, keys : Seq(Felt), call : CallRecords \cup {None}]

ContextType ==
  /\ caller_address \in Felt /\ contract_address \in Felt /\ entry_point_selector \in Felt
  /\ exec_info_base \in Nat \cup {None}
StorageType == \A k \in DOMAIN storage : k \in Felt /\ storage[k] \in Felt
RegistryType ==
  /\ DOMAIN contract_registry \subseteq Targets /\ DOMAIN cache \subseteq Targets
  /\ \A t \in DOMAIN contract_registry : contract_registry[t] \in EntryPoints
FrameType ==
  /\ memory \in Memories /\ step \in Nat /\ gas \in Nat
  /\ pushed \in Seq(Felt) /\ entry_pc \in Nat
CallersType == callers \in Seq(Frame) /\ Len(callers) <= MAX_CALL_DEPTH
CountersType == total_gas_used \in Nat /\ next_segment_base \in Nat
HistoryType ==
  /\ cross_contract_calls \in Seq(CallRecords) /\ asked \in Seq(Asked)
  /\ Len(cross_contract_calls) + Len(callers) <= Len(asked)

Types == ContextType /\ StorageType /\ RegistryType /\ FrameType /\ CallersType
         /\ CountersType /\ HistoryType

\* A step that is not the beginning or the end of a call.
PlainSyscall == \E word \in Words : Syscall(word)
Callee == \E name \in {"CallContract", "LibraryCall"}, word \in Words, target \in Targets,
             entry_pt \in Selectors : \E forwarded \in {0, gas} :
               EnterCallee(name, word, target, entry_pt, forwarded)
NoCallee == \E name \in {"CallContract", "LibraryCall"}, word \in Words, target \in Targets,
               entry_pt \in Selectors : CallWithoutCallee(name, word, target, entry_pt)

\* The steps of the specification, by their effect on the frames.
LEMMA StepCases ==
  ASSUME [Next]_vars
  PROVE  PlainSyscall \/ Callee \/ NoCallee \/ LeaveCallee \/ Instruction \/ UNCHANGED vars
BY DEF Next, PlainSyscall, Callee, NoCallee, Call, CutOff, Halt

-----------------------------------------------------------------------------
\* Data.

LEMMA FeltType ==
  /\ \A n \in Nat : from_u64(n) \in Felt
  /\ \A f \in Felt : low_u64(f) \in Nat
BY DEF Felt, from_u64, low_u64

\* Insert adds one key and changes no other.
LEMMA InsertMap ==
  ASSUME NEW f, NEW k, NEW v
  PROVE  /\ DOMAIN Insert(f, k, v) = DOMAIN f \cup {k}
         /\ Insert(f, k, v)[k] = v
         /\ \A x \in DOMAIN f : x # k => Insert(f, k, v)[x] = f[x]
BY DEF Insert

LEMMA EmptyMemory == EmptyMap \in Memories /\ DOMAIN EmptyMap = {}
<1>1. EmptyMap \in [{} -> Info] /\ DOMAIN EmptyMap = {}
  BY DEF EmptyMap
<1> QED BY <1>1 DEF Memories

LEMMA InsertMemory ==
  ASSUME NEW m \in Memories, NEW a \in Nat, NEW i \in Info
  PROVE  Insert(m, a, i) \in Memories
<1>1. PICK D \in SUBSET Nat : m \in [D -> Info]
  BY DEF Memories
<1>2. Insert(m, a, i) \in [D \cup {a} -> Info]
  BY <1>1 DEF Insert
<1>3. D \cup {a} \in SUBSET Nat
  OBVIOUS
<1> QED BY <1>2, <1>3 DEF Memories

LEMMA GasType ==
  /\ \A n \in SyscallNames \cup {"EmitEventWord"} : gas_cost[n] \in Nat
BY GasAssumption

LEMMA MinType ==
  ASSUME NEW a \in Nat, NEW b \in Nat
  PROVE  Min2(a, b) \in Nat /\ Min2(a, b) <= a
BY DEF Min2

\* A sequence without its last element.
LEMMA Pop ==
  ASSUME NEW S, NEW s \in Seq(S), s # <<>>, NEW t, t = SubSeq(s, 1, Len(s) - 1)
  PROVE  /\ t \in Seq(S) /\ Len(t) = Len(s) - 1
         /\ \A i \in 1 .. Len(s) - 1 : t[i] = s[i]
         /\ Len(s) \in 1 .. Len(s) /\ s[Len(s)] \in S
<1>1. Len(s) \in Nat /\ Len(s) # 0
  BY EmptySeq
<1>2. \A i \in 1 .. Len(s) - 1 : s[i] \in S
  BY <1>1
<1>3. Len(s) \in 1 .. Len(s) /\ s[Len(s)] \in S
  BY <1>1
<1>4. /\ t \in Seq(S)
      /\ Len(t) = IF 1 <= Len(s) - 1 THEN Len(s) - 1 - 1 + 1 ELSE 0
      /\ \A i \in 1 .. Len(s) - 1 - 1 + 1 : t[i] = s[1 + i - 1]
  <2>1. 1 \in Int /\ Len(s) - 1 \in Int
    BY <1>1
  <2> QED BY <2>1, <1>2, SubSeqProperties
<1>5. Len(t) = Len(s) - 1
  <2>1. \A n \in Nat : n # 0 => (IF 1 <= n - 1 THEN n - 1 - 1 + 1 ELSE 0) = n - 1
    OBVIOUS
  <2> QED BY <2>1, <1>1, <1>4
<1>6. ASSUME NEW i \in 1 .. Len(s) - 1 PROVE t[i] = s[i]
  <2>1. i \in 1 .. Len(s) - 1 - 1 + 1 /\ 1 + i - 1 = i
    BY <1>1
  <2> QED BY <2>1, <1>4
<1> QED BY <1>3, <1>4, <1>5, <1>6

-----------------------------------------------------------------------------
\* What the parts of a syscall do to the types.

LEMMA ChargeType ==
  ASSUME Types, NEW cost \in Nat, charge_gas(cost)
  PROVE  gas' \in Nat /\ total_gas_used' \in Nat
<1>1. gas \in Nat /\ total_gas_used \in Nat
  BY DEF Types, FrameType, CountersType
<1>2. Min2(gas, cost) \in Nat /\ Min2(gas, cost) <= gas
  BY <1>1, MinType
<1> QED BY <1>1, <1>2 DEF charge_gas

LEMMA IssueType ==
  ASSUME Types, NEW name, NEW word \in Words, NEW keys \in Seq(Felt),
         NEW call \in CallRecords \cup {None}, IssueWith(name, word, keys, call)
  PROVE  asked' \in Seq(Asked) /\ Len(asked') = Len(asked) + 1
<1>1. asked \in Seq(Asked)
  BY DEF Types, HistoryType
<1>2. [word |-> word, keys |-> keys, call |-> call] \in Asked
  BY DEF Asked
<1> QED BY <1>1, <1>2 DEF IssueWith

\* A syscall that makes no call changes neither the frames nor the context, and
\* memory only with the execution-info pointer.
LEMMA PlainSyscallKeeps ==
  ASSUME PlainSyscall
  PROVE  /\ UNCHANGED <<caller_address, contract_address, entry_point_selector>>
         /\ UNCHANGED <<registry, callers, pushed, entry_pc, cross_contract_calls>>
         /\ step' = step + 1
         /\ \/ UNCHANGED <<exec_info_base, memory, next_segment_base>>
            \/ /\ exec_info_base = None
               /\ exec_info_base' = next_segment_base + EXEC_INFO_OFFSET
               /\ next_segment_base' = next_segment_base + SEGMENT_SIZE
               /\ memory' = Insert(memory, next_segment_base + EXEC_INFO_OFFSET, exec_info)
<1>1. PICK word \in Words : Syscall(word)
  BY DEF PlainSyscall
<1>2. CASE GetExecutionInfo(word)
  BY <1>2 DEF GetExecutionInfo, Respond, registry
<1>3. CASE UnknownSyscall(word)
  BY <1>3 DEF UnknownSyscall, context, registry
<1>4. CASE ~ GetExecutionInfo(word) /\ ~ UnknownSyscall(word)
  BY <1>1, <1>4 DEF Syscall, StorageRead, StorageWrite, EmitEvent, GetBlockHash, Deploy,
     SendMessageToL1, Respond, context, registry
<1> QED BY <1>2, <1>3, <1>4

\* Every syscall that makes no call records what was asked and leaves Nat counters
\* and felts in storage.
LEMMA PlainSyscallCounts ==
  ASSUME Types, PlainSyscall
  PROVE  /\ asked' \in Seq(Asked) /\ Len(asked') = Len(asked) + 1
         /\ gas' \in Nat /\ total_gas_used' \in Nat
         /\ StorageType'
<1>1. PICK word \in Words : Syscall(word)
  BY DEF PlainSyscall
<1>2. /\ gas \in Nat /\ total_gas_used \in Nat /\ asked \in Seq(Asked) /\ StorageType
      /\ gas_cost.StorageRead \in Nat /\ gas_cost.StorageWrite \in Nat
      /\ gas_cost.EmitEvent \in Nat /\ gas_cost.EmitEventWord \in Nat
      /\ gas_cost.GetExecutionInfo \in Nat /\ gas_cost.GetBlockHash \in Nat
      /\ gas_cost.Deploy \in Nat /\ gas_cost.SendMessageToL1 \in Nat
  BY GasType DEF Types, FrameType, CountersType, HistoryType, SyscallNames
<1>3. ASSUME NEW name, Issue(name, word)
      PROVE  asked' \in Seq(Asked) /\ Len(asked') = Len(asked) + 1
  <2>1. <<>> \in Seq(Felt) /\ None \in CallRecords \cup {None}
    OBVIOUS
  <2>2. IssueWith(name, word, <<>>, None)
    BY <1>3 DEF Issue
  <2> QED BY <2>1, <2>2, IssueType
<1>4. ASSUME NEW cost \in Nat, charge_gas(cost)
      PROVE  gas' \in Nat /\ total_gas_used' \in Nat
  BY <1>4, ChargeType
<1>5. ASSUME storage' = storage PROVE StorageType'
  BY <1>2, <1>5 DEF StorageType
<1>6. ASSUME NEW key \in Felts, StorageRead(word, key)
      PROVE  asked' \in Seq(Asked) /\ Len(asked') = Len(asked) + 1
             /\ gas' \in Nat /\ total_gas_used' \in Nat /\ StorageType'
  <2>1. storage' = storage
    BY <1>6 DEF StorageRead, effects
  <2> QED BY <2>1, <1>2, <1>3, <1>4, <1>5, <1>6 DEF StorageRead
<1>7. ASSUME NEW key \in Felts, NEW value \in Felts, StorageWrite(word, key, value)
      PROVE  asked' \in Seq(Asked) /\ Len(asked') = Len(asked) + 1
             /\ gas' \in Nat /\ total_gas_used' \in Nat /\ StorageType'
  <2>1. key \in Felt /\ value \in Felt
    BY ContractAssumption
  <2>2. storage' = Insert(storage, key, value)
    BY <1>7 DEF StorageWrite
  <2>3. StorageType'
    <3>1. StorageType
      BY <1>2
    <3>2. /\ DOMAIN storage' = DOMAIN storage \cup {key} /\ storage'[key] = value
          /\ \A x \in DOMAIN storage : x # key => storage'[x] = storage[x]
      BY <2>2 DEF Insert
    <3> QED BY <2>1, <3>1, <3>2 DEF StorageType
  <2> QED BY <2>3, <1>2, <1>3, <1>4, <1>7 DEF StorageWrite
<1>8. ASSUME NEW key \in Felts, EmitEvent(word, <<key>>, <<>>)
      PROVE  asked' \in Seq(Asked) /\ Len(asked') = Len(asked) + 1
             /\ gas' \in Nat /\ total_gas_used' \in Nat /\ StorageType'
  <2>1. <<key>> \in Seq(Felt) /\ key \in Felt /\ Len(<<key>>) = 1 /\ Len(<<>>) = 0
    BY ContractAssumption
  <2>2. IssueWith("EmitEvent", word, <<key>>, None) /\ storage' = storage
    BY <1>8 DEF EmitEvent
  <2>3. gas_cost.EmitEvent + gas_cost.EmitEventWord * (Len(<<key>>) + Len(<<>>)) \in Nat
    BY <2>1, <1>2
  <2>4. gas' \in Nat /\ total_gas_used' \in Nat
    BY <2>3, <1>4, <1>8 DEF EmitEvent
  <2> QED BY <2>1, <2>2, <2>4, <1>5, IssueType
<1>9. ASSUME GetExecutionInfo(word)
      PROVE  asked' \in Seq(Asked) /\ Len(asked') = Len(asked) + 1
             /\ gas' \in Nat /\ total_gas_used' \in Nat /\ StorageType'
  <2>1. storage' = storage
    BY <1>9 DEF GetExecutionInfo, effects
  <2> QED BY <2>1, <1>2, <1>3, <1>4, <1>5, <1>9 DEF GetExecutionInfo
<1>10. ASSUME GetBlockHash(word)
      PROVE  asked' \in Seq(Asked) /\ Len(asked') = Len(asked) + 1
             /\ gas' \in Nat /\ total_gas_used' \in Nat /\ StorageType'
  <2>1. storage' = storage
    BY <1>10 DEF GetBlockHash, effects
  <2> QED BY <2>1, <1>2, <1>3, <1>4, <1>5, <1>10 DEF GetBlockHash
<1>11. ASSUME NEW t \in Targets, NEW salt \in Selectors, Deploy(word, t, salt)
      PROVE  asked' \in Seq(Asked) /\ Len(asked') = Len(asked) + 1
             /\ gas' \in Nat /\ total_gas_used' \in Nat /\ StorageType'
  BY <1>2, <1>3, <1>4, <1>5, <1>11 DEF Deploy
<1>12. ASSUME NEW t \in Targets, SendMessageToL1(word, t)
      PROVE  asked' \in Seq(Asked) /\ Len(asked') = Len(asked) + 1
             /\ gas' \in Nat /\ total_gas_used' \in Nat /\ StorageType'
  BY <1>2, <1>3, <1>4, <1>5, <1>12 DEF SendMessageToL1
<1>13. ASSUME UnknownSyscall(word)
      PROVE  asked' \in Seq(Asked) /\ Len(asked') = Len(asked) + 1
             /\ gas' \in Nat /\ total_gas_used' \in Nat /\ StorageType'
  <2>1. <<>> \in Seq(Felt)
    OBVIOUS
  <2>2. [word |-> word, keys |-> <<>>, call |-> None] \in Asked
    BY <2>1 DEF Asked
  <2>3. asked' = Append(asked, [word |-> word, keys |-> <<>>, call |-> None])
        /\ gas' = 0 /\ total_gas_used' = total_gas_used /\ storage' = storage
    BY <1>13 DEF UnknownSyscall, effects
  <2> QED BY <2>2, <2>3, <1>2, <1>5
<1> QED BY <1>1, <1>6, <1>7, <1>8, <1>9, <1>10, <1>11, <1>12, <1>13 DEF Syscall

\* A contract the node answers with is registered with entry points.
LEMMA ResolveType ==
  ASSUME Types, NEW target \in Targets, NEW entry_pt \in Selectors, Resolve(target, entry_pt)
  PROVE  RegistryType'
<1>1. RegistryType /\ entry_pt \in Nat
  BY ContractAssumption DEF Types
<1>2. CASE UNCHANGED registry
  BY <1>1, <1>2 DEF RegistryType, registry
<1>3. ASSUME NEW found,
             cache' = Insert(cache, target, found),
             contract_registry' = IF found
               THEN Insert(contract_registry, target, [s \in {0, entry_pt} |-> ResolvedPc])
               ELSE contract_registry
      PROVE  RegistryType'
  <2>1. DOMAIN cache' = DOMAIN cache \cup {target}
    BY <1>3 DEF Insert
  <2>2. [s \in {0, entry_pt} |-> ResolvedPc] \in EntryPoints
    <3>1. [s \in {0, entry_pt} |-> ResolvedPc] \in [{0, entry_pt} -> Nat]
      BY DEF ResolvedPc
    <3>2. {0, entry_pt} \in (SUBSET Nat) \ {{}}
      BY <1>1
    <3> QED BY <3>1, <3>2 DEF EntryPoints
  <2>3. CASE found
    <3>1. /\ DOMAIN contract_registry' = DOMAIN contract_registry \cup {target}
          /\ contract_registry'[target] = [s \in {0, entry_pt} |-> ResolvedPc]
          /\ \A t \in DOMAIN contract_registry :
               t # target => contract_registry'[t] = contract_registry[t]
      BY <1>3, <2>3 DEF Insert
    <3> HIDE DEF EntryPoints
    <3> QED BY <1>1, <2>1, <2>2, <3>1 DEF RegistryType
  <2>4. CASE ~ found
    BY <1>1, <1>3, <2>1, <2>4 DEF RegistryType
  <2> QED BY <2>3, <2>4
<1> QED BY <1>2, <1>3 DEF Resolve

LEMMA RecordType ==
  ASSUME NEW name, NEW target \in Targets, NEW entry_pt \in Selectors
  PROVE  CallRecord(name, target, entry_pt) \in CallRecords
<1>1. from_u64(target) \in Felt /\ from_u64(entry_pt) \in Felt
  BY ContractAssumption, FeltType
<1> QED BY <1>1 DEF CallRecord, CallRecords

LEMMA SuspendedType ==
  ASSUME Types, NEW call \in CallRecords
  PROVE  Suspended(call) \in Frame
BY DEF Types, ContextType, FrameType, Suspended, Frame

LEMMA InitTypes == Init => Types
<1> SUFFICES ASSUME Init PROVE Types
  OBVIOUS
<1>1. ContextType
  BY ContractAssumption, FeltType DEF Init, ContextType
<1>2. StorageType /\ DOMAIN cache = {}
  BY DEF Init, StorageType, EmptyMap
<1>3. RegistryType
  BY <1>2, ContractAssumption DEF Init, RegistryType, EntryPoints
<1>4. FrameType
  BY LimitsAssumption, EmptyMemory DEF Init, FrameType
<1>5. CallersType /\ CountersType /\ HistoryType
  BY LimitsAssumption DEF Init, CallersType, CountersType, HistoryType
<1> QED BY <1>1, <1>2, <1>3, <1>4, <1>5 DEF Types

-----------------------------------------------------------------------------
\* Type preservation, one lemma per kind of step.

LEMMA PlainSyscallTypes ==
  ASSUME Types, PlainSyscall
  PROVE  Types'
<1>1. /\ ContextType /\ RegistryType /\ FrameType /\ CallersType
      /\ CountersType /\ HistoryType
  BY DEF Types
<1>2. /\ UNCHANGED <<caller_address, contract_address, entry_point_selector>>
      /\ UNCHANGED <<contract_registry, cache, callers, pushed, entry_pc, cross_contract_calls>>
      /\ step' = step + 1
  BY PlainSyscallKeeps DEF registry
<1>3. /\ exec_info_base' \in Nat \cup {None} /\ next_segment_base' \in Nat
      /\ memory' \in Memories
  <2>1. CASE UNCHANGED <<exec_info_base, memory, next_segment_base>>
    BY <1>1, <2>1 DEF ContextType, FrameType, CountersType
  <2>2. CASE /\ exec_info_base' = next_segment_base + EXEC_INFO_OFFSET
             /\ next_segment_base' = next_segment_base + SEGMENT_SIZE
             /\ memory' = Insert(memory, next_segment_base + EXEC_INFO_OFFSET, exec_info)
    <3>1. exec_info \in Info
      BY <1>1 DEF ContextType, exec_info, Info
    <3>2. next_segment_base + EXEC_INFO_OFFSET \in Nat
          /\ next_segment_base + SEGMENT_SIZE \in Nat
      BY <1>1, LimitsAssumption DEF CountersType, EXEC_INFO_OFFSET
    <3>3. memory' \in Memories
      BY <3>1, <3>2, <2>2, <1>1, InsertMemory DEF FrameType
    <3> QED BY <2>2, <3>2, <3>3
  <2> QED BY <2>1, <2>2, PlainSyscallKeeps
<1>4. ContextType' /\ RegistryType' /\ CallersType'
  BY <1>1, <1>2, <1>3 DEF ContextType, RegistryType, CallersType
<1>5. FrameType' /\ CountersType' /\ StorageType'
  BY <1>1, <1>2, <1>3, PlainSyscallCounts DEF FrameType, CountersType
<1>6. HistoryType'
  BY <1>1, <1>2, PlainSyscallCounts DEF HistoryType, CallersType
<1> QED BY <1>4, <1>5, <1>6 DEF Types

LEMMA CalleeTypes ==
  ASSUME Types, Callee
  PROVE  Types'
<1>1. PICK name \in {"CallContract", "LibraryCall"}, word \in Words, target \in Targets,
           entry_pt \in Selectors, forwarded \in {0, gas} :
             EnterCallee(name, word, target, entry_pt, forwarded)
  BY DEF Callee
<1> DEFINE call == CallRecord(name, target, entry_pt)
<1>2. call \in CallRecords
  BY RecordType
<1> HIDE DEF call
<1>3. /\ IssueWith(name, word, <<>>, call) /\ Resolve(target, entry_pt)
      /\ target \in DOMAIN contract_registry' /\ call_depth < MAX_CALL_DEPTH
      /\ callers' = Append(callers, Suspended(call))
      /\ CalleeContext(target, entry_pt)
      /\ memory' = EmptyMap /\ step' = 0 /\ gas' = forwarded /\ pushed' = <<>>
      /\ storage' = storage
      /\ UNCHANGED <<cross_contract_calls, total_gas_used, next_segment_base>>
      /\ \E pc \in EntryPc(contract_registry'[target], entry_pt) : entry_pc' = pc
  BY <1>1 DEF EnterCallee, call, effects
<1>4. RegistryType'
  BY <1>3, ResolveType
<1>5. ContextType'
  <2>1. target \in Nat /\ entry_pt \in Nat /\ low_u64(contract_address) \in Nat
    BY ContractAssumption, FeltType DEF Types, ContextType
  <2> QED BY <2>1, <1>3, FeltType DEF CalleeContext, ContextType
<1>6. entry_pc' \in Nat
  <2>1. contract_registry'[target] \in EntryPoints
    BY <1>3, <1>4 DEF RegistryType
  <2>2. PICK S \in SUBSET Nat : contract_registry'[target] \in [S -> Nat]
    BY <2>1 DEF EntryPoints
  <2>3. EntryPc(contract_registry'[target], entry_pt) \subseteq Nat
    BY <2>2 DEF EntryPc
  <2> QED BY <1>3, <2>3
<1>7. FrameType'
  BY <1>3, <1>6, EmptyMemory DEF Types, FrameType
<1>8. callers' \in Seq(Frame) /\ Len(callers') = Len(callers) + 1
      /\ Len(callers) + 1 <= MAX_CALL_DEPTH
  <2>1. callers \in Seq(Frame) /\ Suspended(call) \in Frame
    BY <1>2, SuspendedType DEF Types, CallersType
  <2> HIDE DEF Frame
  <2>2. Len(callers) \in Nat /\ Len(callers) < MAX_CALL_DEPTH
    BY <2>1, <1>3 DEF call_depth
  <2> QED BY <2>1, <2>2, <1>3, LimitsAssumption
<1>9. asked' \in Seq(Asked) /\ Len(asked') = Len(asked) + 1
  <2>1. <<>> \in Seq(Felt)
    OBVIOUS
  <2> QED BY <2>1, <1>2, <1>3, IssueType
<1>10. HistoryType'
  BY <1>3, <1>8, <1>9 DEF Types, HistoryType, CallersType
<1>11. CallersType' /\ CountersType' /\ StorageType'
  BY <1>3, <1>8 DEF Types, CallersType, CountersType, StorageType
<1> QED BY <1>4, <1>5, <1>7, <1>10, <1>11 DEF Types

LEMMA NoCalleeTypes ==
  ASSUME Types, NoCallee
  PROVE  Types'
<1>1. PICK name \in {"CallContract", "LibraryCall"}, word \in Words, target \in Targets,
           entry_pt \in Selectors : CallWithoutCallee(name, word, target, entry_pt)
  BY DEF NoCallee
<1> DEFINE call == CallRecord(name, target, entry_pt)
<1>2. call \in CallRecords
  BY RecordType
<1> HIDE DEF call
<1>3. /\ IssueWith(name, word, <<>>, call) /\ Resolve(target, entry_pt)
      /\ charge_gas(gas_cost[name])
      /\ cross_contract_calls' = Append(cross_contract_calls, call)
      /\ step' = step + 1 /\ storage' = storage
      /\ UNCHANGED <<caller_address, contract_address, entry_point_selector, exec_info_base>>
      /\ UNCHANGED <<next_segment_base, callers, memory, pushed, entry_pc>>
  BY <1>1 DEF CallWithoutCallee, call, effects, context
<1>4. RegistryType'
  BY <1>3, ResolveType
<1>5. gas' \in Nat /\ total_gas_used' \in Nat
  <2>1. gas_cost[name] \in Nat
    BY GasType DEF SyscallNames
  <2> QED BY <2>1, <1>3, ChargeType
<1>6. ContextType' /\ StorageType' /\ CallersType'
  BY <1>3 DEF Types, ContextType, StorageType, CallersType
<1>7. FrameType' /\ CountersType'
  BY <1>3, <1>5 DEF Types, FrameType, CountersType
<1>8. HistoryType'
  <2>1. <<>> \in Seq(Felt)
    OBVIOUS
  <2>2. asked' \in Seq(Asked) /\ Len(asked') = Len(asked) + 1
    BY <2>1, <1>2, <1>3, IssueType
  <2> QED BY <2>2, <1>2, <1>3 DEF Types, HistoryType, CallersType
<1> QED BY <1>4, <1>6, <1>7, <1>8 DEF Types

LEMMA LeaveCalleeTypes ==
  ASSUME Types, LeaveCallee
  PROVE  Types'
<1> DEFINE caller == callers[Len(callers)]
<1>1. /\ callers \in Seq(Frame) /\ callers # <<>>
      /\ callers' = SubSeq(callers, 1, Len(callers) - 1)
  BY DEF Types, CallersType, LeaveCallee, InCallee
<1>2. /\ callers' \in Seq(Frame) /\ Len(callers') = Len(callers) - 1
      /\ caller \in Frame /\ Len(callers) \in Nat /\ Len(callers) >= 1
  <2>1. /\ callers' \in Seq(Frame) /\ Len(callers') = Len(callers) - 1
        /\ Len(callers) \in 1 .. Len(callers) /\ callers[Len(callers)] \in Frame
    BY <1>1, Pop, Zenon
  <2>2. Len(callers) \in Nat
    BY <1>1
  <2> QED BY <2>1, <2>2
<1>3. /\ caller.caller_address \in Felt /\ caller.contract_address \in Felt
      /\ caller.entry_point_selector \in Felt
      /\ caller.exec_info_base \in Nat \cup {None}
      /\ caller.memory \in Memories /\ caller.step \in Nat /\ caller.gas \in Nat
      /\ caller.pushed \in Seq(Felt) /\ caller.entry_pc \in Nat
      /\ caller.call \in CallRecords
  <2>1. caller \in Frame
    BY <1>2
  <2> HIDE DEF caller, Memories
  <2> QED BY <2>1 DEF Frame
<1>4. /\ gas' \in Nat /\ total_gas_used' \in Nat
  <2> DEFINE name == IF caller.call.is_library THEN "LibraryCall" ELSE "CallContract"
             consumed == Min2(caller.gas, gas_cost[name])
  <2>1. gas_cost[name] \in Nat
    BY GasType DEF SyscallNames
  <2>2. consumed \in Nat /\ consumed <= caller.gas
    BY <2>1, <1>3, MinType
  <2>3. gas' = caller.gas - consumed /\ total_gas_used' = total_gas_used + consumed
    BY DEF LeaveCallee
  <2> HIDE DEF consumed, caller
  <2> QED BY <2>2, <2>3, <1>3 DEF Types, CountersType
<1>5. /\ caller_address' = caller.caller_address /\ contract_address' = caller.contract_address
      /\ entry_point_selector' = caller.entry_point_selector
      /\ exec_info_base' = caller.exec_info_base
      /\ memory' = caller.memory /\ step' = caller.step + 1
      /\ pushed' = caller.pushed /\ entry_pc' = caller.entry_pc
      /\ cross_contract_calls' = Append(cross_contract_calls, caller.call)
      /\ UNCHANGED <<storage, contract_registry, cache, next_segment_base, asked>>
  BY DEF LeaveCallee, effects, registry
<1> HIDE DEF caller
<1>6. ContextType' /\ FrameType'
  <2> HIDE DEF Memories
  <2> QED BY <1>3, <1>4, <1>5 DEF ContextType, FrameType
<1>7. StorageType' /\ RegistryType' /\ CountersType'
  BY <1>4, <1>5 DEF Types, StorageType, RegistryType, CountersType
<1>8. CallersType'
  BY <1>2, LimitsAssumption DEF Types, CallersType
<1>9. HistoryType'
  <2> HIDE DEF Frame
  <2> QED BY <1>2, <1>3, <1>5 DEF Types, HistoryType, CallersType
<1> QED BY <1>6, <1>7, <1>8, <1>9 DEF Types

LEMMA InstructionTypes ==
  ASSUME Types, Instruction
  PROVE  Types'
<1>1. /\ UNCHANGED <<storage, cross_contract_calls, caller_address, contract_address,
                     entry_point_selector, exec_info_base, total_gas_used, contract_registry,
                     cache, next_segment_base, callers, memory, gas, entry_pc, asked>>
      /\ step' = step + 1
      /\ pushed' = pushed \/ pushed' = Append(pushed, from_u64(step))
  BY DEF Instruction, effects, context, registry
<1>2. FrameType'
  <2>1. pushed \in Seq(Felt) /\ from_u64(step) \in Felt
    BY FeltType DEF Types, FrameType
  <2>2. pushed' \in Seq(Felt)
    BY <2>1, <1>1
  <2> QED BY <2>2, <1>1 DEF Types, FrameType
<1>3. ContextType' /\ StorageType' /\ RegistryType' /\ CallersType' /\ CountersType'
      /\ HistoryType'
  BY <1>1 DEF Types, ContextType, StorageType, RegistryType, CallersType, CountersType,
     HistoryType
<1> QED BY <1>2, <1>3 DEF Types

LEMMA NextTypes == Types /\ [Next]_vars => Types'
<1> SUFFICES ASSUME Types, [Next]_vars PROVE Types'
  OBVIOUS
<1>1. CASE UNCHANGED vars
  BY <1>1 DEF vars, effects, context, registry, frame, Types, ContextType, StorageType,
     RegistryType, FrameType, CallersType, CountersType, HistoryType
<1> QED BY <1>1, StepCases, PlainSyscallTypes, CalleeTypes, NoCalleeTypes, LeaveCalleeTypes,
     InstructionTypes

-----------------------------------------------------------------------------
\* What steps do to the frames, given the types.

\* A call pushes the caller's context and gives the callee one of its own.
LEMMA CalleeFrames ==
  ASSUME Types, Callee
  PROVE  \E call \in CallRecords :
           /\ callers' = Append(callers, Suspended(call))
           /\ callers \in Seq(Frame) /\ Suspended(call) \in Frame
           /\ caller_address' = from_u64(low_u64(contract_address))
           /\ \E target \in Targets : contract_address' = from_u64(target)
           /\ exec_info_base' = None
<1>1. PICK name \in {"CallContract", "LibraryCall"}, word \in Words, target \in Targets,
           entry_pt \in Selectors, forwarded \in {0, gas} :
             EnterCallee(name, word, target, entry_pt, forwarded)
  BY DEF Callee
<1> DEFINE call == CallRecord(name, target, entry_pt)
<1>2. call \in CallRecords
  BY RecordType
<1> HIDE DEF call
<1>3. /\ callers' = Append(callers, Suspended(call))
      /\ CalleeContext(target, entry_pt)
  BY <1>1 DEF EnterCallee, call
<1>4. callers \in Seq(Frame) /\ Suspended(call) \in Frame
  BY <1>2, SuspendedType DEF Types, CallersType
<1> QED BY <1>2, <1>3, <1>4 DEF CalleeContext

\* The end of a call takes one frame off and restores what it holds.
LEMMA LeaveCalleeFrames ==
  ASSUME Types, LeaveCallee
  PROVE  /\ Len(callers) \in Nat /\ Len(callers) >= 1
         /\ callers' \in Seq(Frame) /\ Len(callers') = Len(callers) - 1
         /\ \A i \in 1 .. Len(callers) - 1 : callers'[i] = callers[i]
         /\ caller_address' = callers[Len(callers)].caller_address
         /\ contract_address' = callers[Len(callers)].contract_address
         /\ entry_point_selector' = callers[Len(callers)].entry_point_selector
         /\ exec_info_base' = callers[Len(callers)].exec_info_base
         /\ memory' = callers[Len(callers)].memory
<1>1. /\ callers \in Seq(Frame) /\ callers # <<>>
      /\ callers' = SubSeq(callers, 1, Len(callers) - 1)
  BY DEF Types, CallersType, LeaveCallee, InCallee
<1>2. /\ callers' \in Seq(Frame) /\ Len(callers') = Len(callers) - 1
      /\ \A i \in 1 .. Len(callers) - 1 : callers'[i] = callers[i]
      /\ Len(callers) \in 1 .. Len(callers)
  BY <1>1, Pop, Zenon
<1>3. Len(callers) \in Nat /\ Len(callers) >= 1
  BY <1>1, <1>2
<1> QED BY <1>2, <1>3 DEF LeaveCallee

\* Other steps leave the frames alone.
LEMMA OtherFrames ==
  ASSUME NoCallee \/ Instruction \/ UNCHANGED vars
  PROVE  UNCHANGED <<callers, caller_address, contract_address, entry_point_selector,
                     exec_info_base, memory>>
BY DEF NoCallee, CallWithoutCallee, Instruction, vars, effects, context, registry, frame

-----------------------------------------------------------------------------
\* Every frame is pointed at execution info of its own.

LEMMA ExecInfoInit == Init => ExecInfoIsOwn
<1> SUFFICES ASSUME Init PROVE ExecInfoIsOwn
  OBVIOUS
<1>1. exec_info_base = None /\ callers = <<>>
  BY DEF Init
<1> QED BY <1>1 DEF ExecInfoIsOwn

LEMMA ExecInfoNext == Types /\ ExecInfoIsOwn /\ [Next]_vars => ExecInfoIsOwn'
<1> SUFFICES ASSUME Types, ExecInfoIsOwn, [Next]_vars PROVE ExecInfoIsOwn'
  OBVIOUS
<1> DEFINE FrameOwn(f) == f.exec_info_base # None =>
             f.exec_info_base \in DOMAIN f.memory /\ f.memory[f.exec_info_base] = InfoOf(f)
           Own == exec_info_base # None =>
             exec_info_base \in DOMAIN memory /\ memory[exec_info_base] = exec_info
<1>1. Own /\ \A i \in 1 .. Len(callers) : FrameOwn(callers[i])
  BY DEF ExecInfoIsOwn
<1>2. SUFFICES Own' /\ \A i \in 1 .. Len(callers') : FrameOwn(callers'[i])
  BY DEF ExecInfoIsOwn
<1>3. CASE PlainSyscall
  <2>1. UNCHANGED <<callers, caller_address, contract_address, entry_point_selector>>
    BY <1>3, PlainSyscallKeeps
  <2>2. exec_info' = exec_info
    BY <2>1 DEF exec_info
  <2>3. CASE UNCHANGED <<exec_info_base, memory, next_segment_base>>
    BY <1>1, <2>1, <2>2, <2>3
  <2>4. CASE /\ exec_info_base' = next_segment_base + EXEC_INFO_OFFSET
             /\ memory' = Insert(memory, next_segment_base + EXEC_INFO_OFFSET, exec_info)
    <3>1. exec_info_base' \in DOMAIN memory' /\ memory'[exec_info_base'] = exec_info
      BY <2>4 DEF Insert
    <3> HIDE DEF FrameOwn
    <3> QED BY <1>1, <2>1, <2>2, <3>1
  <2> QED BY <1>3, <2>3, <2>4, PlainSyscallKeeps
<1>4. CASE Callee
  <2>1. PICK call \in CallRecords :
           /\ callers' = Append(callers, Suspended(call))
           /\ callers \in Seq(Frame) /\ Suspended(call) \in Frame
           /\ exec_info_base' = None
    BY <1>4, CalleeFrames
  <2>2. FrameOwn(Suspended(call))
    BY <1>1 DEF Suspended, InfoOf, exec_info
  <2> HIDE DEF FrameOwn, Frame
  <2>3. \A i \in 1 .. Len(callers') : callers'[i] = IF i <= Len(callers) THEN callers[i]
                                                    ELSE Suspended(call)
    BY <2>1
  <2>4. \A i \in 1 .. Len(callers') : i <= Len(callers) => i \in 1 .. Len(callers)
    BY <2>1
  <2> QED BY <1>1, <2>1, <2>2, <2>3, <2>4
<1>5. CASE LeaveCallee
  <2> DEFINE n == Len(callers)
  <2>1. /\ n \in Nat /\ n >= 1 /\ Len(callers') = n - 1
        /\ \A i \in 1 .. n - 1 : callers'[i] = callers[i]
    BY <1>5, LeaveCalleeFrames
  <2>2. /\ exec_info_base' = callers[n].exec_info_base /\ memory' = callers[n].memory
        /\ exec_info' = InfoOf(callers[n])
    BY <1>5, LeaveCalleeFrames DEF exec_info, InfoOf
  <2>3. FrameOwn(callers[n])
    BY <1>1, <2>1
  <2>4. Own'
    BY <2>2, <2>3
  <2>5. \A i \in 1 .. Len(callers') : FrameOwn(callers'[i])
    <3> HIDE DEF FrameOwn
    <3> QED BY <1>1, <2>1
  <2> QED BY <2>4, <2>5
<1>6. CASE NoCallee \/ Instruction \/ UNCHANGED vars
  <2>1. UNCHANGED <<callers, exec_info_base, memory, exec_info>>
    BY <1>6, OtherFrames DEF exec_info
  <2> HIDE DEF FrameOwn
  <2> QED BY <1>1, <2>1
<1> QED BY <1>3, <1>4, <1>5, <1>6, StepCases

-----------------------------------------------------------------------------
\* The caller a frame is told of, when the program's own address fits a word.

\* An address that narrowing does not change.
Narrow(f) == f = from_u64(low_u64(f))

\* What CallerIsParent rests on: every address in use fits a word.
CallerInv ==
  /\ Narrow(contract_address)
  /\ \A i \in 1 .. Len(callers) : Narrow(callers[i].contract_address)
  /\ \A i \in 1 .. Len(callers) - 1 :
       callers[i + 1].caller_address = callers[i].contract_address
  /\ Len(callers) > 0 => caller_address = callers[Len(callers)].contract_address

LEMMA CallerInit == Narrow(MainAddress) /\ Init => CallerInv
BY DEF Init, CallerInv

LEMMA CallerNext == Types /\ CallerInv /\ [Next]_vars => CallerInv'
<1> SUFFICES ASSUME Types, CallerInv, [Next]_vars PROVE CallerInv'
  OBVIOUS
<1>1. CASE PlainSyscall \/ NoCallee \/ Instruction \/ UNCHANGED vars
  <2>1. UNCHANGED <<callers, caller_address, contract_address>>
    BY <1>1, PlainSyscallKeeps, OtherFrames
  <2> QED BY <2>1 DEF CallerInv
<1>2. CASE Callee
  <2>1. PICK call \in CallRecords :
           /\ callers' = Append(callers, Suspended(call))
           /\ callers \in Seq(Frame) /\ Suspended(call) \in Frame
           /\ caller_address' = from_u64(low_u64(contract_address))
           /\ \E target \in Targets : contract_address' = from_u64(target)
    BY <1>2, CalleeFrames
  <2>2. Narrow(contract_address')
    BY <2>1 DEF Narrow, from_u64, low_u64
  <2>3. /\ Suspended(call).contract_address = contract_address
        /\ Suspended(call).caller_address = caller_address
    BY DEF Suspended
  <2> DEFINE s == Suspended(call)
             n == Len(callers)
  <2> HIDE DEF Frame, s
  <2>4. /\ n \in Nat /\ Len(callers') = n + 1 /\ callers'[n + 1] = s
        /\ \A i \in 1 .. n : callers'[i] = callers[i]
    BY <2>1 DEF s
  <2>5. s.contract_address = contract_address /\ s.caller_address = caller_address
    BY <2>3 DEF s
  <2> HIDE DEF n
  <2>6. /\ Narrow(contract_address)
        /\ \A i \in 1 .. n : Narrow(callers[i].contract_address)
        /\ \A i \in 1 .. n - 1 : callers[i + 1].caller_address = callers[i].contract_address
        /\ n > 0 => caller_address = callers[n].contract_address
    BY DEF CallerInv, n
  <2>7. \A i \in 1 .. n + 1 : Narrow(callers'[i].contract_address)
    <3> TAKE i \in 1 .. n + 1
    <3>1. CASE i \in 1 .. n
      BY <3>1, <2>4, <2>6
    <3>2. CASE i = n + 1
      BY <3>2, <2>4, <2>5, <2>6
    <3> QED BY <3>1, <3>2, <2>4
  <2>8. \A i \in 1 .. n : callers'[i + 1].caller_address = callers'[i].contract_address
    <3> TAKE i \in 1 .. n
    <3>1. CASE i \in 1 .. n - 1
      <4>1. i \in 1 .. n /\ i + 1 \in 1 .. n
        BY <3>1, <2>4
      <4> QED BY <4>1, <3>1, <2>4, <2>6
    <3>2. CASE i = n
      BY <3>2, <2>4, <2>5, <2>6
    <3> QED BY <3>1, <3>2, <2>4
  <2>9. caller_address' = callers'[n + 1].contract_address
    BY <2>1, <2>4, <2>5, <2>6 DEF Narrow
  <2>10. n + 1 - 1 = n
    BY <2>4
  <2> QED BY <2>2, <2>4, <2>7, <2>8, <2>9, <2>10 DEF CallerInv
<1>3. CASE LeaveCallee
  <2> DEFINE n == Len(callers)
  <2>1. /\ n \in Nat /\ n >= 1 /\ Len(callers') = n - 1
        /\ \A i \in 1 .. n - 1 : callers'[i] = callers[i]
        /\ caller_address' = callers[n].caller_address
        /\ contract_address' = callers[n].contract_address
    BY <1>3, LeaveCalleeFrames
  <2>2. /\ \A i \in 1 .. n : Narrow(callers[i].contract_address)
        /\ \A i \in 1 .. n - 1 : callers[i + 1].caller_address = callers[i].contract_address
    BY DEF CallerInv
  <2> HIDE DEF n
  <2>3. Narrow(contract_address')
    BY <2>1, <2>2
  <2>4. \A i \in 1 .. n - 1 : Narrow(callers'[i].contract_address)
    BY <2>1, <2>2
  <2>5. \A i \in 1 .. n - 1 - 1 :
          callers'[i + 1].caller_address = callers'[i].contract_address
    <3> TAKE i \in 1 .. n - 1 - 1
    <3>1. i \in 1 .. n - 1 /\ i + 1 \in 1 .. n - 1
      BY <2>1
    <3> QED BY <3>1, <2>1, <2>2
  <2>6. n - 1 > 0 => caller_address' = callers'[n - 1].contract_address
    <3> HAVE n - 1 > 0
    <3>1. n - 1 \in 1 .. n - 1 /\ n - 1 + 1 = n
      BY <2>1
    <3> QED BY <3>1, <2>1, <2>2
  <2> QED BY <2>1, <2>3, <2>4, <2>5, <2>6 DEF CallerInv
<1> QED BY <1>1, <1>2, <1>3, StepCases

LEMMA CallerImplied == CallerInv /\ CallersType => CallerIsParent
<1> SUFFICES ASSUME CallerInv, CallersType, NEW i \in 1 .. Len(callers)
             PROVE  ContextAt(i + 1).caller = ContextAt(i).contract
  BY DEF CallerIsParent
<1>1. Len(callers) \in Nat /\ i \in Nat /\ i <= Len(callers)
  BY DEF CallersType
<1>2. CASE i + 1 > Len(callers)
  <2>1. i = Len(callers)
    BY <1>1, <1>2
  <2> QED BY <1>1, <1>2, <2>1 DEF CallerInv, ContextAt
<1>3. CASE ~ (i + 1 > Len(callers))
  <2>1. i \in 1 .. Len(callers) - 1 /\ ~ (i > Len(callers))
    BY <1>1, <1>3
  <2>2. callers[i + 1].caller_address = callers[i].contract_address
    BY <2>1 DEF CallerInv
  <2> QED BY <1>3, <2>1, <2>2 DEF ContextAt
<1> QED BY <1>2, <1>3

-----------------------------------------------------------------------------
\* Gas.  What the suspended frames hold is a sum over them: s is its partial sums.

PartialSums(s) ==
  /\ s \in [0 .. Len(callers) -> Nat] /\ s[0] = 0
  /\ \A i \in 1 .. Len(callers) : s[i] = s[i - 1] + callers[i].gas

\* GasAccounted with the sum as a witness, which calls extend and returns cut.
GasInv ==
  \E s \in [0 .. Len(callers) -> Nat] :
    PartialSums(s) /\ total_gas_used + gas + s[Len(callers)] = budget

\* Induction over the naturals: what fails somewhere fails first somewhere.
LEMMA LeastNumber ==
  ASSUME NEW S, S \subseteq Nat, S # {}
  PROVE  \E n \in S : \A m \in S : n <= m
<1> DEFINE R == {p \in Nat \X Nat : p[1] < p[2]}
<1>1. IsWellFoundedOn(R, Nat)
  BY NatLessThanWellFounded DEF OpToRel
<1> HIDE DEF R
<1>2. PICK n \in S : \A m \in S : ~ (<<m, n>> \in R)
  BY <1>1, WFMin
<1>3. \A m \in S : ~ (m < n)
  BY <1>2 DEF R
<1> QED BY <1>3

LEMMA GasInit == Init => GasInv
<1> SUFFICES ASSUME Init PROVE GasInv
  OBVIOUS
<1> DEFINE s == [i \in 0 .. 0 |-> 0]
<1>1. Len(callers) = 0 /\ total_gas_used = 0 /\ gas = InitialGas /\ budget = InitialGas
  BY DEF Init
<1>2. s \in [0 .. Len(callers) -> Nat] /\ PartialSums(s) /\ s[Len(callers)] = 0
  BY <1>1 DEF PartialSums
<1>3. total_gas_used + gas + s[Len(callers)] = budget
  BY <1>1, <1>2, LimitsAssumption
<1> QED BY <1>2, <1>3 DEF GasInv

\* A step that suspends no frame and ends none, and spends what it takes.
LEMMA GasSpent ==
  ASSUME Types, GasInv, callers' = callers,
         gas' \in Nat, total_gas_used' \in Nat,
         total_gas_used' + gas' - budget' = total_gas_used + gas - budget,
         budget' \in Int, budget \in Int
  PROVE  GasInv'
<1>1. PICK s \in [0 .. Len(callers) -> Nat] :
        PartialSums(s) /\ total_gas_used + gas + s[Len(callers)] = budget
  BY DEF GasInv
<1>2. Len(callers) \in Nat /\ gas \in Nat /\ total_gas_used \in Nat
  BY DEF Types, CallersType, FrameType, CountersType
<1>3. s[Len(callers)] \in Nat
  BY <1>1, <1>2
<1>4. total_gas_used' + gas' + s[Len(callers)] = budget'
  <2>1. PICK x \in Nat : x = s[Len(callers)]
    BY <1>3
  <2>2. total_gas_used + gas + x = budget
    BY <2>1, <1>1
  <2>3. total_gas_used' + gas' + x = budget'
    BY <2>2, <1>2
  <2> QED BY <2>1, <2>3
<1>5. PartialSums(s)' <=> PartialSums(s)
  BY DEF PartialSums
<1> QED BY <1>1, <1>4, <1>5 DEF GasInv

\* What a syscall the hint knows is charged.
LEMMA ChargedCost ==
  ASSUME NEW word \in Words, Syscall(word), ~ UnknownSyscall(word)
  PROVE  \E cost : charge_gas(cost) /\ cost \in Nat /\ budget' = budget
<1>1. /\ gas_cost.StorageRead \in Nat /\ gas_cost.StorageWrite \in Nat
      /\ gas_cost.EmitEvent \in Nat /\ gas_cost.EmitEventWord \in Nat
      /\ gas_cost.GetExecutionInfo \in Nat /\ gas_cost.GetBlockHash \in Nat
      /\ gas_cost.Deploy \in Nat /\ gas_cost.SendMessageToL1 \in Nat
  BY GasType DEF SyscallNames
<1>2. ASSUME NEW value, Respond(value) PROVE budget' = budget
  BY <1>2 DEF Respond
<1>3. ASSUME NEW key \in Felts, EmitEvent(word, <<key>>, <<>>)
      PROVE  \E cost : charge_gas(cost) /\ cost \in Nat /\ budget' = budget
  <2>1. Len(<<key>>) = 1 /\ Len(<<>>) = 0
    OBVIOUS
  <2>2. gas_cost.EmitEvent + gas_cost.EmitEventWord * (Len(<<key>>) + Len(<<>>)) \in Nat
    BY <1>1, <2>1
  <2> QED BY <2>2, <1>2, <1>3 DEF EmitEvent
<1>4. CASE GetExecutionInfo(word)
  BY <1>4, <1>1 DEF GetExecutionInfo, Respond
<1>5. CASE \/ \E key \in Felts : StorageRead(word, key)
           \/ \E key, value \in Felts : StorageWrite(word, key, value)
           \/ GetBlockHash(word)
           \/ \E t \in Targets, salt \in Selectors : Deploy(word, t, salt)
           \/ \E t \in Targets : SendMessageToL1(word, t)
  BY <1>5, <1>1, <1>2 DEF StorageRead, StorageWrite, GetBlockHash, Deploy, SendMessageToL1
<1> QED BY <1>3, <1>4, <1>5 DEF Syscall

\* Every syscall that makes no call takes from the counter what it adds to the
\* total; one the hint does not know loses what is left.
LEMMA PlainSyscallGas ==
  ASSUME Types, budget \in Int, PlainSyscall \/ NoCallee \/ Instruction \/ UNCHANGED vars
  PROVE  /\ budget' \in Int
         /\ total_gas_used' + gas' - budget' = total_gas_used + gas - budget
<1>1. gas \in Nat /\ total_gas_used \in Nat
  BY DEF Types, FrameType, CountersType
<1>2. ASSUME NEW cost, charge_gas(cost), cost \in Nat, budget' = budget
      PROVE  total_gas_used' + gas' - budget' = total_gas_used + gas - budget
  <2>1. Min2(gas, cost) \in Nat
    BY <1>1, <1>2, MinType
  <2>2. gas' = gas - Min2(gas, cost) /\ total_gas_used' = total_gas_used + Min2(gas, cost)
    BY <1>2 DEF charge_gas
  <2>3. \A t, g, b, c \in Int : t + c + (g - c) - b = t + g - b
    OBVIOUS
  <2> QED BY <2>1, <2>2, <2>3, <1>1, <1>2
<1>3. CASE PlainSyscall
  <2>1. PICK word \in Words : Syscall(word)
    BY <1>3 DEF PlainSyscall
  <2>2. CASE UnknownSyscall(word)
    BY <2>2, <1>1 DEF UnknownSyscall
  <2>3. CASE ~ UnknownSyscall(word)
    <3>1. \E cost : charge_gas(cost) /\ cost \in Nat /\ budget' = budget
      BY <2>1, <2>3, ChargedCost
    <3> QED BY <3>1, <1>2
  <2> QED BY <2>2, <2>3
<1>4. CASE NoCallee
  <2>1. PICK name \in {"CallContract", "LibraryCall"} : charge_gas(gas_cost[name]) /\ budget' = budget
    BY <1>4 DEF NoCallee, CallWithoutCallee
  <2>2. gas_cost[name] \in Nat
    BY GasType DEF SyscallNames
  <2> QED BY <2>1, <2>2, <1>2
<1>5. CASE Instruction \/ UNCHANGED vars
  BY <1>5 DEF Instruction, vars, frame
<1> QED BY <1>3, <1>4, <1>5

\* A call hands the callee what is forwarded, and the frame keeps what it held.
LEMMA CalleeGas ==
  ASSUME Types, budget \in Int, GasInv, Callee
  PROVE  GasInv' /\ budget' \in Int
<1>1. PICK name \in {"CallContract", "LibraryCall"}, word \in Words, target \in Targets,
           entry_pt \in Selectors, forwarded \in {0, gas} :
             EnterCallee(name, word, target, entry_pt, forwarded)
  BY DEF Callee
<1> DEFINE call == CallRecord(name, target, entry_pt)
           f == Suspended(call)
           n == Len(callers)
<1>2. /\ callers' = Append(callers, f) /\ f.gas = gas
      /\ gas' = forwarded /\ budget' = budget + forwarded /\ total_gas_used' = total_gas_used
  BY <1>1 DEF EnterCallee, Suspended
<1>3. callers \in Seq(Frame) /\ f \in Frame
  BY RecordType, SuspendedType DEF Types, CallersType
<1>4. n \in Nat /\ gas \in Nat /\ total_gas_used \in Nat /\ forwarded \in Nat
  BY DEF Types, CallersType, FrameType, CountersType
<1> HIDE DEF f, Frame
<1>5. /\ Len(callers') = n + 1 /\ callers'[n + 1] = f
      /\ \A i \in 1 .. n : callers'[i] = callers[i]
  BY <1>2, <1>3
<1>6. PICK s \in [0 .. n -> Nat] : PartialSums(s) /\ total_gas_used + gas + s[n] = budget
  BY DEF GasInv
<1> HIDE DEF n
<1>7. s[0] = 0 /\ \A i \in 1 .. n : s[i] = s[i - 1] + callers[i].gas
  BY <1>6 DEF PartialSums, n
<1>8. PICK t \in [0 .. n + 1 -> Nat] :
        t[0] = 0 /\ t[n + 1] = s[n] + gas /\ \A i \in 0 .. n : t[i] = s[i]
  <2> DEFINE u == [i \in 0 .. n + 1 |-> IF i = n + 1 THEN s[n] + gas ELSE s[i]]
  <2>1. /\ u \in [0 .. n + 1 -> Nat] /\ u[0] = 0 /\ u[n + 1] = s[n] + gas
        /\ \A i \in 0 .. n : u[i] = s[i]
    BY <1>4, <1>6, <1>7
  <2> HIDE DEF u
  <2> QED BY <2>1
<1>9. \A i \in 1 .. n + 1 : t[i] = t[i - 1] + callers'[i].gas
  <2> TAKE i \in 1 .. n + 1
  <2>1. CASE i = n + 1
    BY <2>1, <1>2, <1>4, <1>5, <1>8
  <2>2. CASE i \in 1 .. n
    <3>1. i \in 0 .. n /\ i - 1 \in 0 .. n
      BY <2>2, <1>4
    <3> QED BY <2>2, <3>1, <1>5, <1>7, <1>8
  <2> QED BY <2>1, <2>2, <1>4
<1>10. total_gas_used' + gas' + t[n + 1] = budget'
  <2>1. PICK x \in Nat : x = s[n]
    BY <1>4, <1>6
  <2>2. total_gas_used + gas + x = budget /\ t[n + 1] = x + gas
    BY <2>1, <1>6, <1>8
  <2>3. total_gas_used + forwarded + (x + gas) = budget + forwarded
    BY <2>2, <1>4
  <2> QED BY <2>2, <2>3, <1>2
<1>11. budget' \in Int
  BY <1>2, <1>4
<1>12. t \in [0 .. Len(callers') -> Nat] /\ PartialSums(t)'
  BY <1>5, <1>8, <1>9 DEF PartialSums
<1>13. total_gas_used' + gas' + t[Len(callers')] = budget'
  BY <1>5, <1>10
<1> QED BY <1>11, <1>12, <1>13 DEF GasInv

\* A return drops what the callee holds and charges the caller for the call.
LEMMA LeaveCalleeGas ==
  ASSUME Types, budget \in Int, GasInv, LeaveCallee
  PROVE  GasInv' /\ budget' \in Int
<1> DEFINE n == Len(callers)
           caller == callers[n]
           name == IF caller.call.is_library THEN "LibraryCall" ELSE "CallContract"
           consumed == Min2(caller.gas, gas_cost[name])
<1>1. /\ n \in Nat /\ n >= 1 /\ Len(callers') = n - 1
      /\ \A i \in 1 .. n - 1 : callers'[i] = callers[i]
  BY LeaveCalleeFrames
<1>2. /\ gas' = caller.gas - consumed /\ total_gas_used' = total_gas_used + consumed
      /\ budget' = budget - gas
  BY DEF LeaveCallee
<1>3. /\ gas \in Nat /\ total_gas_used \in Nat /\ caller \in Frame
  BY <1>1 DEF Types, CallersType, FrameType, CountersType
<1>4. caller.gas \in Nat
  <2> HIDE DEF caller
  <2> QED BY <1>3 DEF Frame
<1>5. consumed \in Nat
  <2>1. gas_cost[name] \in Nat
    BY GasType DEF SyscallNames
  <2> HIDE DEF name
  <2> QED BY <2>1, <1>4, MinType
<1>6. PICK s \in [0 .. n -> Nat] : PartialSums(s) /\ total_gas_used + gas + s[n] = budget
  BY DEF GasInv
<1>7. s[0] = 0 /\ \A i \in 1 .. n : s[i] = s[i - 1] + callers[i].gas
  BY <1>6 DEF PartialSums
<1> HIDE DEF n, consumed
<1>8. s[n] = s[n - 1] + caller.gas /\ s[n - 1] \in Nat
  BY <1>1, <1>6, <1>7
<1> DEFINE t == [i \in 0 .. n - 1 |-> s[i]]
<1>9. t \in [0 .. n - 1 -> Nat] /\ t[0] = 0 /\ \A i \in 0 .. n - 1 : t[i] = s[i]
  BY <1>1, <1>6, <1>7
<1> HIDE DEF t
<1>10. \A i \in 1 .. n - 1 : t[i] = t[i - 1] + callers'[i].gas
  <2> TAKE i \in 1 .. n - 1
  <2>1. i \in 0 .. n - 1 /\ i - 1 \in 0 .. n - 1 /\ i \in 1 .. n
    BY <1>1
  <2> QED BY <2>1, <1>1, <1>7, <1>9
<1>11. total_gas_used' + gas' + t[n - 1] = budget'
  <2>1. PICK x \in Nat : x = s[n - 1]
    BY <1>8
  <2>2. PICK p \in Nat : p = caller.gas
    BY <1>4
  <2>3. total_gas_used + gas + (x + p) = budget /\ t[n - 1] = x
    BY <2>1, <2>2, <1>1, <1>6, <1>8, <1>9
  <2>4. (total_gas_used + consumed) + (p - consumed) + x = budget - gas
    BY <2>3, <1>3, <1>5
  <2> QED BY <2>2, <2>3, <2>4, <1>2
<1>12. budget' \in Int
  BY <1>2, <1>3
<1> QED BY <1>1, <1>9, <1>10, <1>11, <1>12 DEF GasInv, PartialSums

LEMMA GasNext ==
  Types /\ budget \in Int /\ GasInv /\ [Next]_vars => (budget \in Int /\ GasInv)'
<1> SUFFICES ASSUME Types, budget \in Int, GasInv, [Next]_vars
             PROVE  budget' \in Int /\ GasInv'
  OBVIOUS
<1>1. CASE PlainSyscall \/ NoCallee \/ Instruction \/ UNCHANGED vars
  <2>1. callers' = callers
    BY <1>1, PlainSyscallKeeps, OtherFrames
  <2>2. gas' \in Nat /\ total_gas_used' \in Nat
    BY NextTypes DEF Types, FrameType, CountersType
  <2> QED BY <2>1, <2>2, <1>1, PlainSyscallGas, GasSpent
<1> QED BY <1>1, CalleeGas, LeaveCalleeGas, StepCases

\* The recursive sum of GasHeld is the last partial sum, on top of the frame that runs.
LEMMA GasImplied == Types /\ GasInv => GasAccounted
<1> SUFFICES ASSUME Types, GasInv PROVE GasAccounted
  OBVIOUS
<1> DEFINE n == Len(callers)
<1>1. n \in Nat /\ gas \in Nat /\ total_gas_used \in Nat
  BY DEF Types, CallersType, FrameType, CountersType
<1>2. PICK s \in [0 .. n -> Nat] : PartialSums(s) /\ total_gas_used + gas + s[n] = budget
  BY DEF GasInv
<1>3. s[0] = 0 /\ \A i \in 1 .. n : s[i] = s[i - 1] + callers[i].gas
  BY <1>2 DEF PartialSums
<1> DEFINE IsHeld(h) == h = [i \in 0 .. n |-> IF i = 0 THEN gas ELSE h[i - 1] + callers[i].gas]
           held == CHOOSE h : IsHeld(h)
           t == [i \in 0 .. n |-> gas + s[i]]
<1>4. IsHeld(t)
  <2>1. \A i \in 0 .. n : t[i] = IF i = 0 THEN gas ELSE t[i - 1] + callers[i].gas
    <3> TAKE i \in 0 .. n
    <3>1. CASE i = 0
      BY <3>1, <1>1, <1>3
    <3>2. CASE i # 0
      <4>1. i \in 1 .. n /\ i - 1 \in 0 .. n
        BY <3>2, <1>1
      <4>2. s[i] = s[i - 1] + callers[i].gas /\ s[i - 1] \in Nat /\ s[i] \in Nat
        BY <4>1, <1>3
      <4> QED BY <3>2, <4>1, <4>2, <1>1
    <3> QED BY <3>1, <3>2
  <2> QED BY <2>1
<1>5. IsHeld(held)
  BY <1>4
<1>6. \A i \in 0 .. n : held[i] = t[i]
  <2> DEFINE Differ == {i \in 0 .. n : held[i] # t[i]}
  <2> SUFFICES ASSUME Differ # {} PROVE FALSE
    OBVIOUS
  <2>0. Differ \subseteq Nat
    BY <1>1
  <2>1. PICK i \in Differ : \A j \in Differ : i <= j
    <3> HIDE DEF Differ
    <3> QED BY <2>0, LeastNumber
  <2> HIDE DEF held, t
  <2>2. i # 0
    BY <1>1, <1>4, <1>5
  <2>3. i - 1 \in 0 .. n /\ i - 1 \notin Differ
    BY <2>1, <2>2, <1>1
  <2>4. held[i - 1] = t[i - 1]
    BY <2>3
  <2>5. held[i] = held[i - 1] + callers[i].gas /\ t[i] = t[i - 1] + callers[i].gas
    BY <2>2, <1>4, <1>5
  <2> QED BY <2>4, <2>5
<1>7. GasHeld = held[n]
  BY DEF GasHeld
<1>8. held[n] = gas + s[n]
  BY <1>1, <1>6
<1>9. s[n] \in Nat
  BY <1>1, <1>2
<1> HIDE DEF held
<1> QED BY <1>1, <1>2, <1>7, <1>8, <1>9 DEF GasAccounted

-----------------------------------------------------------------------------
\* The shape of the syscall state and of the suspended frames is kept by every
\* syscall and every call (hint_system_call and execute_callee).
THEOREM SyscallTypeCorrect == Spec => []TypeOK
<1>1. Init => Types /\ ExecInfoIsOwn
  BY InitTypes, ExecInfoInit
<1>2. Types /\ ExecInfoIsOwn /\ [Next]_vars => (Types /\ ExecInfoIsOwn)'
  BY NextTypes, ExecInfoNext
<1>3. Types /\ ExecInfoIsOwn => TypeOK
  <2> SUFFICES ASSUME Types, ExecInfoIsOwn PROVE TypeOK
    OBVIOUS
  <2>1. exec_info_base \in DOMAIN memory \cup {None}
    BY DEF ExecInfoIsOwn
  <2> QED BY <2>1 DEF Types, ContextType, StorageType, RegistryType, FrameType, CallersType,
          CountersType, HistoryType, TypeOK
<1> QED BY <1>1, <1>2, <1>3, PTL DEF Spec

\* At every call depth the execution info a frame is pointed at is its own, whatever
\* calls it has made (syscall_exec_info_ptr and the swap in execute_callee).
THEOREM ExecInfoCorrect == Spec => []ExecInfoIsOwn
<1>1. Init => Types /\ ExecInfoIsOwn
  BY InitTypes, ExecInfoInit
<1>2. Types /\ ExecInfoIsOwn /\ [Next]_vars => (Types /\ ExecInfoIsOwn)'
  BY NextTypes, ExecInfoNext
<1> QED BY <1>1, <1>2, PTL DEF Spec

\* When the address of the program fits a word, every frame is told of the contract
\* that called it, at every depth (the swap in execute_callee).
THEOREM CallerCorrect ==
  ASSUME Narrow(MainAddress)
  PROVE  Spec => []CallerIsParent
<1>1. Init => Types /\ CallerInv
  BY InitTypes, CallerInit
<1>2. Types /\ CallerInv /\ [Next]_vars => (Types /\ CallerInv)'
  BY NextTypes, CallerNext
<1>3. Types /\ CallerInv => CallerIsParent
  BY CallerImplied DEF Types
<1> QED BY <1>1, <1>2, <1>3, PTL DEF Spec

\* Every unit of gas is accounted for once, whatever the gas table and however calls
\* nest (charge_gas, and the charge after execute_callee).
THEOREM GasCorrect == Spec => []GasAccounted
<1>1. Init => Types /\ budget \in Int /\ GasInv
  <2>1. Init => budget \in Int
    BY LimitsAssumption DEF Init
  <2> QED BY <2>1, InitTypes, GasInit
<1>2. Types /\ budget \in Int /\ GasInv /\ [Next]_vars => (Types /\ budget \in Int /\ GasInv)'
  BY NextTypes, GasNext
<1>3. Types /\ GasInv => GasAccounted
  BY GasImplied
<1> QED BY <1>1, <1>2, <1>3, PTL DEF Spec
=============================================================================
