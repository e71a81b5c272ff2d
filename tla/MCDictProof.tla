----------------------------- MODULE MCDictProof -----------------------------
(***************************************************************************)
(* A small instance of DictProof over the field of P = 3 elements, so that *)
(* 2 bits stand for 31: low words are all the elements of the field, and   *)
(* one value is wider than a word.  Calls nest twice, and the main trace   *)
(* has room for every dictionary and access in one frame.                  *)
(***************************************************************************)
EXTENDS DictProof

MCInfosPtr == {0}
MCKeys == {<<0, 1>>, <<0, 2>>}
MCValues == {<<0, 0>>, <<0, 1>>, <<1, 2>>}
=============================================================================
