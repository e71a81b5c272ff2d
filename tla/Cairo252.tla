------------------------------ MODULE Cairo252 ------------------------------
(***************************************************************************)
(* The Cairo machine over Stark252 and its AIR (src/stark252/cairo_air.rs).*)
(* Memory maps addresses to numbers: instruction words, or field elements, *)
(* of which addresses and jumps use the low limb, a machine word.          *)
(***************************************************************************)
EXTENDS Felt252Field

CONSTANTS
  WORD_BITS,   \* of the low limb, 64
  OFFSET_BITS  \* of an instruction's offset, 16

WORD == 2^WORD_BITS
OFF_BIAS == 2^(OFFSET_BITS - 1)
OFFSETS == 3 * OFFSET_BITS
N_FLAGS == 16

ASSUME WordAssumption == PRIME % WORD = 1

Flags == <<"dst_reg", "op0_reg", "op1_imm", "op1_fp", "op1_ap", "res_add", "res_mul",
           "pc_jump_abs", "pc_jump_rel", "pc_jnz", "ap_add", "ap_add1",
           "opcode_call", "opcode_ret", "opcode_assert_eq">>
DecodedFields == {Flags[i] : i \in 1 .. 15} \cup {"off_dst", "off_op0", "off_op1"}
stored(word, k) == (word \div 2^(k * OFFSET_BITS)) % 2^OFFSET_BITS
decode(word) ==
  [f \in DecodedFields |->
     CASE f = "off_dst" -> stored(word, 0) - OFF_BIAS
       [] f = "off_op0" -> stored(word, 1) - OFF_BIAS
       [] f = "off_op1" -> stored(word, 2) - OFF_BIAS
       [] OTHER -> LET i == CHOOSE k \in 1 .. 15 : Flags[k] = f
                   IN (word \div 2^(OFFSETS + i - 1)) % 2]
encode(inst) ==
  (inst.off_dst + OFF_BIAS) + 2^OFFSET_BITS * (inst.off_op0 + OFF_BIAS)
    + 2^(2 * OFFSET_BITS) * (inst.off_op1 + OFF_BIAS)
    + FoldFunctionOnSet(LAMBDA x, y : x + y, 0,
        [i \in 1 .. 15 |-> inst[Flags[i]] * 2^(OFFSETS + i - 1)], 1 .. 15)

-----------------------------------------------------------------------------
(* The machine. *)

\* Machine words wrap.
word(x) == x % WORD
read(mem, addr) == IF addr \in DOMAIN mem THEN mem[addr] ELSE 0
write(mem, addr, v) == [a \in DOMAIN mem \cup {addr} |-> IF a = addr THEN v ELSE mem[a]]

\* A call that leaves fp to its callee.
next_fp_not_called(s, inst, dst) == IF inst.opcode_ret = 1 THEN word(dst) ELSE s.fp
next_fp(s, inst, dst) ==
  IF inst.opcode_call = 1 THEN s.ap + 2 ELSE IF inst.opcode_ret = 1 THEN word(dst) ELSE s.fp
compute_next_state(s, inst, dst, op1, res) ==
  LET size == 1 + inst.op1_imm IN
  [pc |-> CASE inst.pc_jump_abs = 1 -> word(res)
            [] inst.pc_jump_abs = 0 /\ inst.pc_jump_rel = 1 -> word(s.pc + word(res))
            [] inst.pc_jump_abs = 0 /\ inst.pc_jump_rel = 0 ->
                 IF inst.pc_jnz = 1 /\ dst # 0 THEN word(s.pc + word(op1)) ELSE s.pc + size,
   ap |-> IF inst.opcode_call = 1 THEN s.ap + 2
          ELSE IF inst.ap_add = 1 THEN word(s.ap + word(res)) ELSE s.ap + inst.ap_add1,
   fp |-> next_fp(s, inst, dst)]

\* One step: the trace row, with the operands read before anything is written.
row_of(mem, s) ==
  LET inst == decode(read(mem, s.pc))
      base(fp_based) == IF fp_based = 1 THEN s.fp ELSE s.ap
      dst_addr == word(base(inst.dst_reg) + inst.off_dst)
      op0_addr == word(base(inst.op0_reg) + inst.off_op0)
      op1_addr == CASE inst.op1_imm = 1 -> s.pc + 1
                    [] inst.op1_imm = 0 /\ inst.op1_fp = 1 -> word(s.fp + inst.off_op1)
                    [] inst.op1_imm = 0 /\ inst.op1_fp = 0 ->
                         word((IF inst.op1_ap = 1 THEN s.ap ELSE word(read(mem, op0_addr))) + inst.off_op1)
      dst == read(mem, dst_addr)
      op0 == read(mem, op0_addr)
      op1 == read(mem, op1_addr)
      res == IF inst.res_add = 1 THEN add(op0, op1)
             ELSE IF inst.res_mul = 1 THEN mul(op0, op1) ELSE op1
  IN [pc |-> s.pc, ap |-> s.ap, fp |-> s.fp, inst |-> read(mem, s.pc),
      dst_addr |-> dst_addr, op0_addr |-> op0_addr, op1_addr |-> op1_addr,
      dst |-> dst, op0 |-> op0, op1 |-> op1, res |-> res,
      tmp0 |-> IF inst.res_mul = 1 THEN mul(op0, op1) ELSE 0,
      next |-> compute_next_state(s, inst, dst, op1, res),
      \* the sixteenth flag column is padding
      flags |-> [i \in 0 .. 15 |-> IF i = 15 THEN 0 ELSE inst[Flags[i + 1]]]]
\* What the step leaves in memory.
written(mem, r) ==
  LET m == IF r.flags[12] = 1 THEN write(write(mem, r.ap, r.fp), r.ap + 1, r.pc + 2) ELSE mem
  IN IF r.flags[14] = 1 THEN write(m, r.dst_addr, r.res) ELSE m

-----------------------------------------------------------------------------
(* eval_cairo_constraints: the value of each, 0 where it holds. *)

Sum3(a, b, c) == add(a, add(b, c))
constraints(cur, nxt) ==
  LET f == cur.flags
      off(k) == stored(cur.inst, k)
      one_minus(x) == sub(1, x)
      based(flag, k) == sub(Sum3(mul(cur.fp, flag), mul(cur.ap, one_minus(flag)), off(k)), OFF_BIAS)
      op1_from(x) == sub(add(x, off(2)), OFF_BIAS)
      other(a, b, c) == sub(sub(sub(1, a), b), c)
      flag_sum == FoldFunctionOnSet(LAMBDA x, y : x + y, 0,
                    [i \in 0 .. 15 |-> f[i] * 2^(OFFSETS + i)], 0 .. 15)
  IN [C0 |-> cur.inst - flag_sum - (cur.inst % 2^OFFSETS),
      C1 |-> sub(cur.dst_addr, based(f[0], 0)),
      C2 |-> sub(cur.op0_addr, based(f[1], 1)),
      C3 |-> sub(cur.op1_addr,
                 add(Sum3(mul(f[2], cur.pc + 1), mul(f[3], op1_from(cur.fp)), mul(f[4], op1_from(cur.ap))),
                     mul(other(f[2], f[3], f[4]), op1_from(cur.op0)))),
      C4 |-> Sum3(mul(f[5], sub(cur.res, add(cur.op0, cur.op1))), mul(f[6], sub(cur.res, cur.tmp0)),
                  mul(other(f[5], f[6], 0), sub(cur.res, cur.op1))),
      C4b |-> mul(f[6], sub(cur.tmp0, mul(cur.op0, cur.op1))),
      C5 |-> mul(sub(cur.res, cur.dst), one_minus(f[9])),
      C6 |-> mul(sub(cur.next.pc,
                     Sum3(mul(f[7], cur.res), mul(f[8], add(cur.pc, cur.res)),
                          mul(other(f[7], f[8], f[9]), Sum3(cur.pc, 1, f[2])))), one_minus(f[9])),
      C7 |-> sub(cur.next.ap,
                 add(Sum3(mul(f[12], cur.ap + 2), mul(f[10], add(cur.ap, cur.res)), mul(f[11], cur.ap + 1)),
                     mul(other(f[12], f[10], f[11]), cur.ap))),
      C8 |-> sub(cur.next.fp,
                 Sum3(mul(f[12], cur.ap + 2), mul(f[13], cur.dst), mul(other(f[12], f[13], 0), cur.fp))),
      C9_pc |-> sub(nxt.pc, cur.next.pc),
      C9_ap |-> sub(nxt.ap, cur.next.ap),
      C9_fp |-> sub(nxt.fp, cur.next.fp),
      \* the 16 flag constraints, as one: some flag is neither 0 nor 1
      Flag |-> IF \E i \in 0 .. 15 : mul(f[i], one_minus(f[i])) # 0 THEN 1 ELSE 0]
Broken(cur, nxt) == LET c == constraints(cur, nxt) IN {k \in DOMAIN c : c[k] # 0}
=============================================================================
