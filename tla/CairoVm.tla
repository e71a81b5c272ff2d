------------------------------ MODULE CairoVm ------------------------------
(***************************************************************************)
(* The Cairo machine whose trace is committed over M31 (vm.rs, decode.rs)  *)
(* and the transition constraints of its rows (trace.rs).  The memory is   *)
(* flat: VmMemory shows that its pages are.  The step is written four      *)
(* times; three of them are one text but for the reduction of results, the *)
(* fourth is the fast path of execute_to_columns.                          *)
(***************************************************************************)
EXTENDS Integers, TLC, Functions

CONSTANTS
  BITS,         \* of the field, 31
  OFFSET_BITS,  \* of an instruction's offset, 16
  WORD_BITS,    \* of a memory word, 64
  START,        \* where ap and fp begin, 100
  LONG_RUN,     \* steps above which execute_to_columns looks for a dominant instruction, 100
  DOMINANT      \* the address it looks at, 4

MODULUS == 2^BITS - 1
WORD == 2^WORD_BITS
BIAS == 2^(OFFSET_BITS - 1)

\* Machine words, and the field.
wrapping(x) == x % WORD
add(a, b) == (a + b) % MODULUS
sub(a, b) == (a + MODULUS - (b % MODULUS)) % MODULUS
mul(a, b) == (a * b) % MODULUS
inverse(a) ==
  LET power[n \in 0 .. MODULUS] ==
        IF n = 0 THEN 1
        ELSE LET half == power[n \div 2]
             IN mul(mul(half, half), IF n % 2 = 1 THEN a ELSE 1)
  IN IF a = 0 THEN 0 ELSE power[MODULUS - 2]

-----------------------------------------------------------------------------
(* Instructions. *)

Flags == <<"dst_reg", "op0_reg", "op1_imm", "op1_fp", "op1_ap", "res_add", "res_mul",
           "pc_jump_abs", "pc_jump_rel", "pc_jnz", "ap_add", "ap_add1",
           "opcode_call", "opcode_ret", "opcode_assert">>
Offsets == <<"off0", "off1", "off2">>
Places(names) == [f \in {names[i] : i \in DOMAIN names} |-> (CHOOSE i \in DOMAIN names : names[i] = f) - 1]
raw_offset(encoded, k) == (encoded \div 2^(k * OFFSET_BITS)) % 2^OFFSET_BITS
raw_flag(encoded, i) == (encoded \div 2^(3 * OFFSET_BITS + i)) % 2
decode(encoded) ==
  LET offset == Places(Offsets)
      flag == Places(Flags)
  IN [f \in DOMAIN offset |-> raw_offset(encoded, offset[f])]
       @@ [f \in DOMAIN flag |-> raw_flag(encoded, flag[f])]
encode(instr) ==
  SumFunction([k \in 1 .. 3 |-> instr[Offsets[k]] * 2^((k - 1) * OFFSET_BITS)])
    + SumFunction([i \in 1 .. 15 |-> instr[Flags[i]] * 2^(3 * OFFSET_BITS + i - 1)])
size(instr) == 1 + instr.op1_imm

-----------------------------------------------------------------------------
(* A step: what it reads, its result, the memory and registers it leaves,  *)
(* and its row.                                                            *)

read(mem, a) == IF a \in DOMAIN mem THEN mem[a] ELSE 0
write(mem, a, v) == (a :> v) @@ mem
at(base, offset) == wrapping(base + offset - BIAS)

operands(mem, s, instr) ==
  LET op0_addr == at(IF instr.op0_reg = 1 THEN s.fp ELSE s.ap, instr.off1)
      op0 == read(mem, op0_addr)
      op1_addr == at(IF instr.op1_imm = 1 THEN s.pc ELSE IF instr.op1_fp = 1 THEN s.fp
                     ELSE IF instr.op1_ap = 1 THEN s.ap ELSE op0, instr.off2)
  IN [dst_addr |-> at(IF instr.dst_reg = 1 THEN s.fp ELSE s.ap, instr.off0),
      op0_addr |-> op0_addr, op0 |-> op0, op1_addr |-> op1_addr, op1 |-> read(mem, op1_addr)]

\* Mutant: the sum MODULUS is left as it is.
res_folded_late(instr, o) ==
  LET reduce(x) == IF x > MODULUS THEN x - MODULUS ELSE x IN
  IF instr.pc_jnz = 1 THEN 0
  ELSE IF instr.res_add = 1 THEN reduce(wrapping(o.op0 + o.op1))
  ELSE IF instr.res_mul = 1
  THEN LET product == o.op0 * o.op1 IN reduce((product % 2^BITS) + (product \div 2^BITS))
  ELSE o.op1
\* With one comparison and one subtraction, for operands below MODULUS, ...
res_folded(instr, o) ==
  LET reduce(x) == IF x >= MODULUS THEN x - MODULUS ELSE x IN
  IF instr.pc_jnz = 1 THEN 0
  ELSE IF instr.res_add = 1 THEN reduce(wrapping(o.op0 + o.op1))
  ELSE IF instr.res_mul = 1
  THEN LET product == o.op0 * o.op1 IN reduce((product % 2^BITS) + (product \div 2^BITS))
  ELSE o.op1
\* ... and by division.
res_divided(instr, o) ==
  IF instr.pc_jnz = 1 THEN 0
  ELSE IF instr.res_add = 1 THEN add(o.op0, o.op1)
  ELSE IF instr.res_mul = 1 THEN mul(o.op0, o.op1)
  ELSE o.op1

dst_of(mem, s, instr, o, res) ==
  IF instr.opcode_assert = 1 THEN res
  ELSE IF instr.opcode_call = 1 THEN s.fp ELSE read(mem, o.dst_addr)
written(mem, s, instr, o, res) ==
  IF instr.opcode_assert = 1 THEN write(mem, o.dst_addr, res)
  ELSE IF instr.opcode_call = 1
  THEN write(write(mem, o.dst_addr, s.fp), o.dst_addr + 1, s.pc + size(instr))
  ELSE mem
next_state(s, instr, o, dst, res) ==
  [pc |-> IF instr.pc_jump_abs = 1 THEN res
          ELSE IF instr.pc_jump_rel = 1 THEN wrapping(s.pc + res)
          ELSE IF instr.pc_jnz = 1 /\ dst # 0 THEN wrapping(s.pc + o.op1)
          ELSE s.pc + size(instr),
   ap |-> IF instr.ap_add = 1 THEN wrapping(s.ap + res)
          ELSE IF instr.ap_add1 = 1 THEN s.ap + 1
          ELSE IF instr.opcode_call = 1 THEN s.ap + 2 ELSE s.ap,
   fp |-> IF instr.opcode_call = 1 THEN s.ap + 2
          ELSE IF instr.opcode_ret = 1 THEN dst ELSE s.fp]

\* Two folds of the bits above the field's.
to_m31(v) ==
  LET fold(x) == (x % 2^BITS) + (x \div 2^BITS)
      s == fold(fold(v))
  IN IF s >= MODULUS THEN s - MODULUS ELSE s
\* Mutant: the 63rd bit, opcode_assert, is masked off.
inst_hi_masked(encoded) == (encoded \div 2^BITS) % 2^BITS
inst_hi(encoded) == add((encoded \div 2^BITS) % 2^BITS, (encoded \div 2^(2 * BITS)) % 2)
words_of(s, o, dst, res) ==
  [pc |-> s.pc, ap |-> s.ap, fp |-> s.fp, dst_addr |-> o.dst_addr, dst |-> dst,
   op0_addr |-> o.op0_addr, op0 |-> o.op0, op1_addr |-> o.op1_addr, op1 |-> o.op1, res |-> res]
columns(words, encoded, flags, fold(_)) ==
  [c \in DOMAIN words |-> fold(words[c])]
    @@ [inst_lo |-> encoded % 2^BITS, inst_hi |-> inst_hi(encoded),
        off0 |-> raw_offset(encoded, 0), off1 |-> raw_offset(encoded, 1), off2 |-> raw_offset(encoded, 2),
        dst_inv |-> inverse(fold(words.dst))]
    @@ [f \in DOMAIN Places(Flags) |-> flags[f]]

Left(memory, next, encoded, flags, words) ==
  [memory |-> memory, next |-> next, instruction |-> encoded, flags |-> flags, words |-> words,
   row |-> columns(words, encoded, flags, to_m31)]
Executed(mem, s, encoded, instr, o, dst, res) ==
  Left(written(mem, s, instr, o, res), next_state(s, instr, o, dst, res), encoded, instr,
       words_of(s, o, dst, res))
Resolved(mem, s, encoded, instr, o, res) ==
  Executed(mem, s, encoded, instr, o, dst_of(mem, s, instr, o, res), res)
WithOperands(mem, s, encoded, instr, o, res(_, _)) == Resolved(mem, s, encoded, instr, o, res(instr, o))
StepOf(mem, s, encoded, instr, res(_, _)) ==
  WithOperands(mem, s, encoded, instr, operands(mem, s, instr), res)

\* execute_step, of execute and of step, and the row that trace_to_columns makes of it:
\* with one fold, of words cut to 32 bits.
to_m31_once(v) ==
  LET r == ((v % 2^BITS) + ((v \div 2^BITS) % 2^(BITS + 1))) % 2^(BITS + 1)
  IN IF r >= MODULUS THEN r - MODULUS ELSE r
trace_to_columns(done) == columns(done.words, done.instruction, done.flags, to_m31_once)
execute_step(mem, s) == StepOf(mem, s, read(mem, s.pc), decode(read(mem, s.pc)), res_divided)
\* execute_to_columns_with_hints after the hints, and execute_to_columns_into.
step_to_columns(mem, s) == StepOf(mem, s, read(mem, s.pc), decode(read(mem, s.pc)), res_folded)

\* The operands a step of execute_to_columns_with_hints counts as overflows.
execution_overflows(mem, s) ==
  LET instr == decode(read(mem, s.pc))
      o == operands(mem, s, instr)
  IN IF instr.res_add + instr.res_mul = 0 THEN 0
     ELSE (IF o.op0 >= MODULUS THEN 1 ELSE 0) + (IF o.op1 >= MODULUS THEN 1 ELSE 0)

\* execute_to_columns: the word at DOMINANT, if it adds two cells and stores the
\* sum, is executed without being decoded.  The columns of its flags and of fp
\* have been filled once; ap is taken for every base.
is_simple_add(instr) ==
  /\ instr.res_add = 1 /\ instr.opcode_assert = 1 /\ instr.ap_add1 = 1 /\ instr.op1_ap = 1
  /\ \A f \in {"pc_jnz", "pc_jump_abs", "pc_jump_rel", "opcode_call", "opcode_ret"} : instr[f] = 0
FastStep(mem, s, encoded, flags, o, sum) ==
  Left(write(mem, o.dst_addr, sum), [s EXCEPT !.pc = @ + 1, !.ap = @ + 1], encoded, flags,
       words_of([s EXCEPT !.fp = START], o, sum, sum))
FromAp == [f \in {"dst_reg", "op0_reg", "op1_imm", "op1_fp", "res_mul", "pc_jnz"} |-> 0] @@
          [f \in {"op1_ap", "res_add"} |-> 1]
FastOperands(mem, s, encoded, flags, o) == FastStep(mem, s, encoded, flags, o, res_folded(FromAp, o))
fast_step(mem, s, encoded, flags) == FastOperands(mem, s, encoded, flags, operands(mem, s, FromAp @@ flags))
execute_to_columns_step(mem, s, n_steps, program) ==
  LET dominant == read(program, DOMINANT) IN
  IF n_steps > LONG_RUN /\ is_simple_add(decode(dominant)) /\ read(mem, s.pc) = dominant
  THEN fast_step(mem, s, dominant, decode(dominant))
  ELSE step_to_columns(mem, s)

-----------------------------------------------------------------------------
(* eval_transition_constraints: the value of each, 0 where it holds. *)

transition_constraints(r, n) ==
  LET not(x) == sub(1, x)
      base(flag) == add(mul(not(r[flag]), r.ap), mul(r[flag], r.fp))
      from(x, offset) == sub(add(x, offset), BIAS)
      inst_size == 1 + r.op1_imm
      step_pc(x) == sub(sub(n.pc, r.pc), x)
      power(k) == 2^(k % BITS)
      jumps == r.pc_jump_abs + r.pc_jump_rel + r.pc_jnz
      no_source == sub(1, r.op1_imm + r.op1_fp + r.op1_ap)
      dst_nonzero == mul(r.dst, r.dst_inv)
      sum(x, y, z) == add(x, add(y, z))
      pairs(x, y, z) == sum(mul(x, y), mul(x, z), mul(y, z))
  IN [Flag |-> IF \E i \in 1 .. 15 : mul(r[Flags[i]], not(r[Flags[i]])) # 0 THEN 1 ELSE 0,
      Res |-> mul(not(r.pc_jnz),
                  sub(r.res, sum(mul(sub(1, r.res_add + r.res_mul), r.op1),
                                 mul(r.res_add, add(r.op0, r.op1)), mul(r.res_mul, mul(r.op0, r.op1))))),
      Pc |-> add(mul(not(r.pc_jnz),
                     sub(n.pc, sum(mul(sub(1, jumps), add(r.pc, inst_size)),
                                   mul(r.pc_jump_abs, r.res), mul(r.pc_jump_rel, add(r.pc, r.res))))),
                 mul(r.pc_jnz, mul(r.dst, step_pc(r.op1)))),
      Ap |-> sub(n.ap, sum(r.ap, mul(r.ap_add, r.res), r.ap_add1 + 2 * r.opcode_call)),
      Fp |-> sub(n.fp, sum(mul(sub(1, r.opcode_call + r.opcode_ret), r.fp),
                           mul(r.opcode_call, add(r.ap, 2)), mul(r.opcode_ret, r.dst))),
      Assert |-> mul(r.opcode_assert, sub(r.dst, r.res)),
      DstAddr |-> sub(r.dst_addr, from(base("dst_reg"), r.off0)),
      Op0Addr |-> sub(r.op0_addr, from(base("op0_reg"), r.off1)),
      Op1Addr |-> sub(r.op1_addr,
                      from(add(sum(mul(r.op1_imm, r.pc), mul(r.op1_fp, r.fp), mul(r.op1_ap, r.ap)),
                               mul(no_source, r.op0)), r.off2)),
      JnzFalls |-> mul(r.pc_jnz, mul(not(dst_nonzero), step_pc(inst_size))),
      JnzInverse |-> mul(r.pc_jnz, mul(r.dst, not(dst_nonzero))),
      OneSource |-> pairs(r.op1_imm, r.op1_fp, r.op1_ap),
      OneJump |-> pairs(r.pc_jump_abs, r.pc_jump_rel, r.pc_jnz),
      OneOpcode |-> pairs(r.opcode_call, r.opcode_ret, r.opcode_assert),
      Instruction |->
        sub(add(r.inst_lo, r.inst_hi),
            add(sum(r.off0, mul(r.off1, power(OFFSET_BITS)), mul(r.off2, power(2 * OFFSET_BITS))),
                FoldFunction(add, 0, [i \in 1 .. 15 |-> mul(r[Flags[i]], power(3 * OFFSET_BITS + i - 1))])))]
Broken(r, n) == LET c == transition_constraints(r, n) IN {k \in DOMAIN c : c[k] # 0}
=============================================================================
