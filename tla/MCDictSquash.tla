---------------------------- MODULE MCDictSquash ----------------------------
(***************************************************************************)
(* Small instances of DictHints and DictSquash: two segments of 10 cells   *)
(* (a size that, like 2^20, is not a multiple of the 3-cell entry), an     *)
(* arena at 1 and its DictInfo table behind the header or at 10.  0, which *)
(* GetNextDictKey also answers when the keys have run out, is a key.       *)
(***************************************************************************)
EXTENDS DictSquash

MCInfosPtrs == {0, 10}
MCKeys == {<<0, 0>>, <<0, 2>>}
MCValues == {<<0, 0>>, <<1, 5>>}
=============================================================================
