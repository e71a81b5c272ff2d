--------------------------- MODULE MCSyscallHints ---------------------------
(***************************************************************************)
(* Small instances of SyscallHints.  Contract 1 is registered with two     *)
(* entry points, contract 2 is on the node only, contract 3 nowhere.       *)
(***************************************************************************)
EXTENDS SyscallHints, TLC

MCgas_cost == [StorageRead |-> 1, StorageWrite |-> 1, EmitEvent |-> 1, EmitEventWord |-> 1,
               GetExecutionInfo |-> 1, GetBlockHash |-> 1, CallContract |-> 2,
               LibraryCall |-> 2, Deploy |-> 2, SendMessageToL1 |-> 1]

\* The last eight bytes of each name, and the constants of mod sel.
MClow64 == [StorageRead |-> "rageRead", StorageWrite |-> "ageWrite",
            EmitEvent |-> "mitEvent", GetExecutionInfo |-> "tionInfo",
            GetBlockHash |-> "lockHash", CallContract |-> "Contract",
            LibraryCall |-> "raryCall", Deploy |-> "Deploy",
            SendMessageToL1 |-> "sageToL1"]
MCsel == [MClow64 EXCEPT !.SendMessageToL1 = "ageToL1_"]

MCRegistered == 1 :> [s \in {0, 5} |-> IF s = 0 THEN 3 ELSE 4]
MCTargets == {1, 2, 3}
MCTwoTargets == {1, 2}
MCPublished == {2}
MCSelectors == {5, 6}
MCOneSelector == {5}
MCWideFelt == {<<1, 1>>}
MCAddress == <<0, 9>>
MCFelts == {<<0, 1>>, <<1, 1>>}
=============================================================================
