----------------------------- MODULE MCBytecode -----------------------------
(***************************************************************************)
(* Small instance of Bytecode: up to four traced values of every pattern   *)
(* of sharing, one constraint, two fractions.  The device limits are cut   *)
(* so that logUp programs pass both; the register index keeps its width.   *)
(***************************************************************************)
EXTENDS Bytecode

MCMasks == {<<1, <<1>>>>}
MCSecure == {<<3, 5, 11, 2>>}
AllKinds == {"Added", "Subtracted", "Multiplied", "Negated", "Widened", "PlusBase",
             "TimesBase", "PlusSecure", "MinusSecure", "TimesSecure"}
MCKindsAt == <<AllKinds, AllKinds, {"Subtracted", "Multiplied"}>>
=============================================================================
