----------------------------- MODULE MCVmMemory -----------------------------
(***************************************************************************)
(* Small instances of VmMemory: the dense page is 0 to 5, the sparse one   *)
(* 6 to 9, and the builtin's page begins at 10 with two invocations; 20    *)
(* lies beyond it.  U32 is 2, so that a word can exceed it.                *)
(***************************************************************************)
EXTENDS VmMemory

MCPrograms == {[i \in {0} |-> 1], [i \in {} |-> 0]}
MCAddrs == {0, 4, 6, 10, 11, 12, 15, 16, 18, 20}
MCWords == {0, 3}
MCFelts == {<<0, 2>>, <<1, 1>>}
=============================================================================
