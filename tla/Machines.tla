------------------------------ MODULE Machines ------------------------------
(***************************************************************************)
(* What the program computes step by step.  Over Stark252: a Pedersen hash *)
(* with the trace of its scalar multiplications (ec_constraint.rs,         *)
(* generate_ec_trace), a run of the Cairo machine (cairo_air.rs), and the  *)
(* field operations both rest on.  Over M31: a run of the Cairo VM (vm.rs).*)
(* A job is one of them.                                                   *)
(***************************************************************************)
EXTENDS Curve252, Cairo252

CONSTANTS
  Jobs,   \* [kind |-> "field", x, y], "hash" with inputs a and b, "cairo" with memory, start, steps,
          \* "vm" with memory, steps
  ORDER,  \* of the curve's group, a prime
  LogOf,  \* the points' logarithms to the base P0
  VM_BITS, VM_OFFSET_BITS, VM_WORD_BITS, START, LONG_RUN, DOMINANT \* of CairoVm

\* 63 bits are two halves and one bit more.
ASSUME InstructionAssumption == 3 * VM_OFFSET_BITS + 15 = 2 * VM_BITS + 1 /\ 2 * VM_BITS < VM_WORD_BITS

Vm == INSTANCE CairoVm WITH BITS <- VM_BITS, OFFSET_BITS <- VM_OFFSET_BITS, WORD_BITS <- VM_WORD_BITS

VARIABLES
  job,
  rows,   \* the trace so far
  acc,    \* hash: the accumulated point
  mem,    \* cairo, vm: memory and registers
  regs

vars == <<job, rows, acc, mem, regs>>

WINDOWS == LOW_BITS \div WINDOW_BITS
ROWS_PER_INVOCATION == 2 * WINDOWS * (WINDOW_BITS + 1) + 2

\* The point (0, 0) stands for infinity.
EcZero == <<0, 0>>
Table == [i \in 1 .. 4 |-> window_table(i)]

Init ==
  /\ job \in Jobs
  /\ rows = <<>> /\ acc = EcZero
  /\ mem = IF job.kind \in {"cairo", "vm"} THEN job.memory ELSE <<>>
  /\ regs = IF job.kind = "cairo" THEN job.start ELSE [pc |-> 0, ap |-> START, fp |-> START]

\* A row is written with the point before the operation.
EcRow(lambda, op) == rows' = Append(rows, [pt |-> acc, lambda |-> lambda, op |-> op])
OnLine(p, lambda, x2) ==
  LET x == sub(sub(mul(lambda, lambda), p[1]), x2) IN <<x, sub(mul(lambda, sub(p[1], x)), p[2])>>

EcInit ==
  /\ job.kind = "hash" /\ rows = <<>>
  /\ acc' = P[1]
  /\ rows' = <<[pt |-> P[1], lambda |-> 0, op |-> "init"]>>
  /\ UNCHANGED <<job, mem, regs>>

\* Where the trace is: of scalar si, window w from the highest, operation o in it.
Walked == Len(rows) - 1
InScalars == job.kind = "hash" /\ rows # <<>> /\ Walked < 2 * WINDOWS * (WINDOW_BITS + 1)
si == (Walked \div (WINDOWS * (WINDOW_BITS + 1))) + 1
w_index == WINDOWS - 1 - ((Walked \div (WINDOW_BITS + 1)) % WINDOWS)
in_window == Walked % (WINDOW_BITS + 1)
Scalar(k) == IF k = 1 THEN job.a ELSE job.b
nibble == (Scalar(si) \div 2^(w_index * WINDOW_BITS)) % 2^WINDOW_BITS

EcDouble ==
  /\ InScalars /\ in_window < WINDOW_BITS
  /\ IF acc = EcZero THEN EcRow(0, "double") /\ UNCHANGED acc
     ELSE LET lambda == mul(add(mul(3, mul(acc[1], acc[1])), 1), inverse(mul(2, acc[2])))
          IN EcRow(lambda, "double") /\ acc' = OnLine(acc, lambda, acc[1])
  /\ UNCHANGED <<job, mem, regs>>

\* Adding a table entry; nothing is added for a zero window.
TableAdd(entry) ==
  IF entry = CurveInfinity THEN EcRow(0, "add") /\ UNCHANGED acc
  ELSE LET lambda == mul(sub(entry[2], acc[2]), inverse(sub(entry[1], acc[1])))
       IN EcRow(lambda, "add") /\ acc' = OnLine(acc, lambda, entry[1])

EcWindowAdd ==
  /\ InScalars /\ in_window = WINDOW_BITS
  /\ LET entry == Table[2 * si - 1][nibble] IN
     IF acc = EcZero /\ entry # CurveInfinity
     THEN acc' = entry /\ rows' = Append(rows, [pt |-> entry, lambda |-> 0, op |-> "init"])
     ELSE TableAdd(entry)
  /\ UNCHANGED <<job, mem, regs>>

EcSmallAdd ==
  /\ job.kind = "hash" /\ rows # <<>> /\ ~InScalars /\ Len(rows) <= ROWS_PER_INVOCATION
  /\ LET s == Walked - 2 * WINDOWS * (WINDOW_BITS + 1) + 1
     IN TableAdd(Table[2 * s][Scalar(s) \div 2^LOW_BITS])
  /\ UNCHANGED <<job, mem, regs>>

HashDone == job.kind = "hash" /\ Len(rows) > ROWS_PER_INVOCATION

Step ==
  /\ job.kind = "cairo" /\ Len(rows) < job.steps
  /\ LET r == row_of(mem, regs) IN
     /\ rows' = Append(rows, r)
     /\ mem' = written(mem, r)
     /\ regs' = r.next
  /\ UNCHANGED <<job, acc>>

\* The constraints that a step cannot meet: a jump or an advance whose machine word
\* wraps, which the field does not see, and a jump on a cell that is 0 in the field only.
OutOfField(r) ==
  LET instr == Vm!decode(Vm!read(mem, regs.pc))
      o == Vm!operands(mem, regs, instr)
      back == regs.pc + o.op1 >= Vm!WORD
      dst == Vm!dst_of(mem, regs, instr, o, 0)
  IN {k \in {"Pc", "Ap", "JnzFalls"} :
        CASE k = "Pc" -> back /\ (instr.pc_jump_rel = 1 \/ (instr.pc_jnz = 1 /\ r.dst # 0))
          [] k = "Ap" -> instr.ap_add = 1 /\ regs.ap + o.op1 >= Vm!WORD
          [] OTHER -> instr.pc_jnz = 1 /\ dst # 0 /\ r.dst = 0}
VmStep ==
  /\ job.kind = "vm" /\ Len(rows) < job.steps
  /\ \E done \in {Vm!step_to_columns(mem, regs)} :
       /\ rows' = Append(rows, [row |-> done.row, exempt |-> OutOfField(done.row)])
       /\ mem' = done.memory
       /\ regs' = done.next
  /\ UNCHANGED <<job, acc>>

Finished ==
  /\ job.kind = "field" \/ HashDone \/ (job.kind \in {"cairo", "vm"} /\ Len(rows) = job.steps)
  /\ UNCHANGED vars

Next == EcInit \/ EcDouble \/ EcWindowAdd \/ EcSmallAdd \/ Step \/ VmStep \/ Finished
Spec == Init /\ [][Next]_vars

-----------------------------------------------------------------------------
\* Limb arithmetic with carries, borrows and folding is arithmetic modulo the
\* prime, halves and M31 limbs lose nothing, and Montgomery's constant is -1/p.
LimbsComputeField ==
  job.kind = "field" =>
    LET v == Limbs(job.x)
        w == Limbs(job.y)
    IN  /\ ValueOf(fp_add(v, w)) = add(job.x, job.y)
        /\ ValueOf(fp_sub(v, w)) = sub(job.x, job.y)
        /\ ValueOf(fp_neg(v)) = sub(0, job.x)
        /\ ValueOf(fp_mul(v, w)) = mul(job.x, job.y)
        /\ ge_rhs(v, w) <=> job.x >= job.y
        /\ from_halves(to_halves(v)) = v
        /\ stark252_to_fp(fp_to_stark252(v)) = v
        /\ mul_low_256(PRIME_LIMBS, compute_mont_p_prime) = Limbs(B^4 - 1)
        /\ batch_inverse(<<job.x, job.y, 2>>)
             = IF 0 \in {job.x, job.y} THEN <<0, 0, 0>> ELSE <<inverse(job.x), inverse(job.y), inverse(2)>>

\* verify_ec_double_cpu and verify_ec_step.
verify_ec_double(p, q, lambda) ==
  /\ mul(lambda, mul(2, p[2])) = add(mul(3, mul(p[1], p[1])), 1)
  /\ mul(lambda, lambda) = add(q[1], mul(2, p[1]))
  /\ mul(lambda, sub(p[1], q[1])) = add(q[2], p[2])
verify_ec_add(p, t, q, lambda) ==
  /\ mul(lambda, sub(t[1], p[1])) = sub(t[2], p[2])
  /\ mul(lambda, lambda) = Sum3(q[1], p[1], t[1])
  /\ mul(lambda, sub(p[1], q[1])) = add(q[2], p[2])
verify_ec_step(r, n) ==
  CASE r.op = "init" -> TRUE
    [] r.op = "double" -> r.pt = EcZero \/ verify_ec_double(r.pt, n.pt, r.lambda)
    [] r.op = "add" -> r.lambda = 0 \/ mul(r.lambda, sub(r.pt[1], n.pt[1])) = add(n.pt[2], r.pt[2])

\* Reference: multiples by chords and tangents.
chord(p, q) ==
  IF p = CurveInfinity THEN q ELSE IF q = CurveInfinity THEN p
  ELSE IF p[1] = q[1] /\ add(p[2], q[2]) = 0 THEN CurveInfinity
  ELSE OnLine(p, IF p = q THEN mul(add(mul(3, mul(p[1], p[1])), 1), inverse(mul(2, p[2])))
                 ELSE mul(sub(q[2], p[2]), inverse(sub(q[1], p[1]))), q[1])
Multiple(n) ==
  LET m[k \in 0 .. n] == IF k = 0 THEN CurveInfinity
                         ELSE IF k % 2 = 1 THEN chord(m[k - 1], P[1])
                         ELSE LET h == m[k \div 2] IN chord(h, h)
  IN m[n % ORDER]

\* The Pedersen hash is the combination of the points by the parts of its inputs;
\* the rows of its trace pass the checks and stay on the curve; and what the
\* trace accumulates is the point that its doublings make of the five points.
\* The tables the GPU gets are the same ones, in Montgomery form.
CurveWalksAreLinear ==
  job.kind = "hash" =>
    LET low(x) == x % 2^LOW_BITS
        high(x) == x \div 2^LOW_BITS
        times(x, y) == (x * y) % ORDER
        up == 2^LOW_BITS % ORDER
        fixed == times(high(job.a), LogOf[3]) + times(low(job.b), LogOf[4]) + times(high(job.b), LogOf[5])
    IN  /\ \A i \in DOMAIN rows : IsOnCurve(rows[i].pt)
        /\ \A i \in 1 .. Len(rows) - 1 :
             /\ verify_ec_step(rows[i], rows[i + 1])
             /\ rows[i].op = "add" /\ rows[i].lambda # 0 =>
                  \E t \in 1 .. 4 : \E k \in 1 .. 2^WINDOW_BITS - 1 :
                    verify_ec_add(rows[i].pt, Table[t][k], rows[i + 1].pt, rows[i].lambda)
        /\ rows = <<>> => pedersen_hash(job.a, job.b) = Multiple(1 + times(low(job.a), LogOf[2]) + fixed)[1]
        /\ \A t \in 1 .. 4 : \A k \in 0 .. 2^WINDOW_BITS - 1 :
             LET e == gpu_entry(Table[t][k])
             IN to_affine([c \in 1 .. 3 |-> mul(e[c], inverse(R_MOD_P))]) = Table[t][k]
        /\ HashDone => acc = Multiple(times(up, times(up, 1) + times(low(job.a), LogOf[2])) + fixed)

\* ec_constraint.rs:3-4: the trace proves that the hash output is correct.
EcTraceEndsInHash == HashDone => acc[1] = pedersen_hash(job.a, job.b)

Unused(r) ==
  (IF r.flags[6] = 0 THEN {"tmp0"} ELSE {})
    \cup (IF r.flags[9] = 1 THEN {"dst"} ELSE {})
    \cup (IF r.flags[5] + r.flags[6] = 0 /\ r.flags[2] + r.flags[3] + r.flags[4] > 0 THEN {"op0"} ELSE {})
Columns == {"pc", "ap", "fp", "inst", "dst_addr", "op0_addr", "op1_addr", "dst", "op0", "op1", "res", "tmp0"}
OneOff(r) ==
  {[r EXCEPT ![c] = add(@, 1)] : c \in Columns \ Unused(r)}
    \cup {[r EXCEPT !.next[c] = add(@, 1)] : c \in {"pc", "ap", "fp"}}
    \cup {[r EXCEPT !.flags[i] = 1 - @] : i \in 0 .. 15}

\* A word decodes and encodes back.  A step of the machine satisfies every
\* constraint but two: C5 where the result is not what the destination held
\* before the step, and C6 where a relative jump goes back.  In a row that
\* satisfies all of them no used column can be another value.
CairoRowsSatisfyAir ==
  job.kind = "cairo" =>
    /\ \A i \in DOMAIN rows : encode(decode(rows[i].inst)) = rows[i].inst
    /\ \A i \in 1 .. Len(rows) - 1 :
         LET r == rows[i] IN
         Broken(r, rows[i + 1]) =
           (IF r.flags[9] = 0 /\ r.res # r.dst THEN {"C5"} ELSE {})
             \cup (IF r.flags[8] = 1 /\ r.res > WORD \div 2 THEN {"C6"} ELSE {})
    /\ \A i \in 2 .. Len(rows) - 1 :
         (Broken(rows[i - 1], rows[i]) = {} /\ Broken(rows[i], rows[i + 1]) = {})
           => \A r \in OneOff(rows[i]) : Broken(rows[i - 1], r) \cup Broken(r, rows[i + 1]) # {}

\* vm.rs:485 and 655: "Same as `execute_to_columns` but runs hints before each
\* instruction", "Same logic as execute_to_columns but avoids Vec allocation": in every
\* state of a run the four step functions leave the same memory and registers, if no
\* operand of a sum or a product has outgrown the field, and the same row, where
\* trace_to_columns reads a word of at most 62 bits.
StepFunctionsAgree ==
  job.kind = "vm" /\ Vm!execution_overflows(mem, regs) = 0 =>
    \E done \in {Vm!step_to_columns(mem, regs)}, step \in {Vm!execute_step(mem, regs)},
       fast \in {Vm!execute_to_columns_step(mem, regs, job.steps, job.memory)} :
      /\ fast.memory = done.memory /\ fast.next = done.next /\ fast.row = done.row
      /\ step.memory = done.memory /\ step.next = done.next
      /\ LET row == Vm!trace_to_columns(step)
             wide == {c \in DOMAIN step.words : step.words[c] >= 2^(2 * VM_BITS) - 1}
         IN \A c \in DOMAIN row \ (wide \cup IF "dst" \in wide THEN {"dst_inv"} ELSE {}) :
              row[c] = done.row[c]

VmUnused(r) ==
  (IF r.opcode_assert + r.opcode_ret + r.pc_jnz = 0 THEN {"dst"} ELSE {})
    \cup (IF r.res_add + r.res_mul = 0 /\ r.op1_imm + r.op1_fp + r.op1_ap > 0 THEN {"op0"} ELSE {})
    \cup (IF r.pc_jnz = 1 /\ r.dst = 0 THEN {"op1"} ELSE {})
    \cup (IF r.pc_jnz = 1 THEN {"res"} ELSE {})
    \cup (IF r.pc_jnz = 0 \/ r.dst = 0 THEN {"dst_inv"} ELSE {})
VmOneOff(r) ==
  {[r EXCEPT ![c] = Vm!add(@, 1)] : c \in DOMAIN r \ (VmUnused(r) \cup Range(Vm!Flags))}
    \cup {[r EXCEPT ![f] = 1 - @] : f \in Range(Vm!Flags)}

\* trace.rs:127-135: a row of the VM meets every transition constraint of the AIR but
\* those that its machine words cannot, and in a row between two others that meets
\* all of them no used column can hold another value.
VmRowsSatisfyAir ==
  job.kind = "vm" =>
    /\ \A i \in 1 .. Len(rows) - 1 : Vm!Broken(rows[i].row, rows[i + 1].row) = rows[i].exempt
    /\ \A i \in 2 .. Len(rows) - 1 :
         rows[i - 1].exempt \cup rows[i].exempt = {} =>
           \A r \in VmOneOff(rows[i].row) :
             Vm!Broken(rows[i - 1].row, r) \cup Vm!Broken(r, rows[i + 1].row) # {}
=============================================================================
