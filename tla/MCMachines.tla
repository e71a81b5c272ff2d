----------------------------- MODULE MCMachines -----------------------------
(* The field of 12289 elements, a curve of 12421 points over it, scalars of *)
(* 14 bits in windows of two, instructions with two-bit offsets.            *)
EXTENDS Machines

MCPoints == <<<<2, 111>>, <<8253, 7491>>, <<12159, 2700>>, <<9043, 11763>>, <<1673, 5715>>>>
MCLogOf == <<1, 2357, 6101, 911, 4999>>

Boundary == {0, 1, 2, 15, 16, 17, 255, 256, 4095, 4096, 4097, 8191, 8192, 12287, 12288}
FieldJobs == [kind : {"field"}, x : Boundary, y : Boundary]
\* No walk of these meets one of the points it adds.
HashJobs == [kind : {"hash"}, a : {1, 2730, 4096, 9002}, b : {3, 1365, 8191}]

Word(dst, op0, op1, set) ==
  encode([f \in DecodedFields |-> CASE f = "off_dst" -> dst [] f = "off_op0" -> op0 [] f = "off_op1" -> op1
                                    [] OTHER -> IF f \in set THEN 1 ELSE 0])
Program(cells) == [a \in {cells[i][1] : i \in DOMAIN cells} |->
                     (CHOOSE c \in {cells[i] : i \in DOMAIN cells} : c[1] = a)[2]]
Run(cells, steps) ==
  [kind |-> "cairo", memory |-> Program(cells), start |-> [pc |-> 1, ap |-> 100, fp |-> 100], steps |-> steps]

AssertImm == Word(0, -1, 1, {"op1_imm", "ap_add1", "opcode_assert_eq"})
AssertAdd == Word(0, -1, -2, {"op1_ap", "res_add", "ap_add1", "opcode_assert_eq"})
AssertMul == Word(0, 0, -1, {"op0_reg", "op1_ap", "res_mul", "ap_add1", "opcode_assert_eq"})
Jnz == Word(-1, 0, 1, {"op1_imm", "pc_jnz"})
JmpRel == Word(0, 0, 1, {"op1_imm", "pc_jump_rel"})
JmpAbs == Word(0, 0, 1, {"op1_imm", "pc_jump_abs"})
AddAp == Word(0, 0, 1, {"op1_imm", "ap_add"})
Call == Word(0, 1, 1, {"op1_imm", "pc_jump_rel", "opcode_call"})
Ret == Word(-2, -1, -1, {"dst_reg", "op0_reg", "op1_fp", "pc_jump_abs", "opcode_ret"})

\* What the asserts find in the cells they write: the value, or nothing.
CairoJobs ==
  {Run(<<<<1, AssertImm>>, <<2, 5>>, <<3, AssertImm>>, <<4, 7>>, <<5, AssertAdd>>, <<6, AssertMul>>,
         <<7, Jnz>>, <<8, 3>>, <<10, JmpAbs>>, <<11, 3>>, <<100, 5>>, <<101, 7>>, <<102, 12>>, <<103, 60>>,
         <<104, 3>>>>, 8),
   Run(<<<<1, AssertImm>>, <<2, 0>>, <<3, Jnz>>, <<4, 3>>, <<5, JmpRel>>, <<6, 4>>, <<9, AssertImm>>,
         <<10, 6>>, <<11, JmpRel>>, <<12, PRIME - 3>>, <<100, 0>>, <<101, 4>>>>, 8),
   Run(<<<<1, Call>>, <<2, 4>>, <<3, AssertImm>>, <<4, 9>>, <<5, AddAp>>, <<6, 2>>, <<7, AssertImm>>, <<8, 3>>,
         <<9, Ret>>, <<10, 0>>>>, 8)}

\* The M31 machine: the field of 8191 elements, four-bit offsets, words of 28 bits.
VmWord(dst, op0, op1, set) ==
  Vm!encode([off0 |-> dst + Vm!BIAS, off1 |-> op0 + Vm!BIAS, off2 |-> op1 + Vm!BIAS] @@
            [f \in Range(Vm!Flags) |-> IF f \in set THEN 1 ELSE 0])
VmRun(words, steps) == [kind |-> "vm", memory |-> [a \in 0 .. Len(words) - 1 |-> words[a + 1]], steps |-> steps]
Imm == VmWord(0, 0, 1, {"op1_imm", "opcode_assert", "ap_add1"})
Sum == VmWord(0, -2, -1, {"op1_ap", "res_add", "opcode_assert", "ap_add1"})
SumFp == VmWord(0, 0, -1, {"op0_reg", "op1_ap", "res_add", "opcode_assert", "ap_add1"})
SumImm == VmWord(0, -1, 1, {"op1_imm", "res_add", "opcode_assert", "ap_add1"})
Product == VmWord(0, 0, -1, {"op0_reg", "op1_ap", "res_mul", "opcode_assert", "ap_add1"})
Deref == VmWord(0, 0, 0, {"op0_reg", "opcode_assert", "ap_add1"})
ToFp == VmWord(1, 0, -1, {"dst_reg", "op1_fp", "opcode_assert"})
VmJnz(offset) == VmWord(offset, 1, 1, {"op1_imm", "pc_jnz"})
VmJmp == VmWord(0, 0, 1, {"op1_imm", "pc_jump_rel"})
VmJmpAbs == VmWord(0, 0, 1, {"op1_imm", "pc_jump_abs"})
VmAddAp == VmWord(0, 0, 1, {"op1_imm", "ap_add"})
VmCall == VmWord(0, 1, 1, {"op1_imm", "pc_jump_rel", "opcode_call"})
VmRet == VmWord(-2, -1, -1, {"dst_reg", "op0_reg", "op1_fp", "pc_jump_abs", "opcode_ret"})

VmJobs ==
  {\* sums that reach P, the fourth word being the dominant one
   VmRun(<<Imm, Vm!MODULUS - 1, Imm, 1, Sum, Sum, Sum, SumFp, Sum, Product, Sum, VmJmp, 0>>, 12),
   \* the same in a run too short for the fast path
   VmRun(<<Imm, Vm!MODULUS - 1, Imm, 1, Sum, Imm, Vm!MODULUS - 1, Product>>, 5),
   \* a call and its return, both ways of a conditional jump, a jump back
   VmRun(<<VmCall, 5, VmJmpAbs, 12, 0, Imm, 9, Product, VmAddAp, 2, VmRet, 0,
           VmJnz(-3), 3, 0, VmJnz(5), 9, VmJmp, Vm!WORD - 5>>, 12),
   \* operands that have outgrown the field, and a cell that is 0 in it only
   VmRun(<<Imm, 101, Imm, 7, Deref, Imm, Vm!MODULUS, VmJnz(-1), 3, 0, SumImm, Vm!MODULUS + 1, ToFp,
           VmAddAp, Vm!WORD - 1, Deref, SumImm, 2 * Vm!MODULUS + 1, SumImm, 3>>, 12)}

MCJobs == FieldJobs \cup HashJobs \cup CairoJobs \cup VmJobs
\* A sum whose first operand is a local variable or an argument, at the fourth word.
MCDominantOfFp == {VmRun(<<Imm, 5, Imm, 1, SumFp, SumFp, SumFp>>, 6)}
=============================================================================
