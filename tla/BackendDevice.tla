---------------------------- MODULE BackendDevice ----------------------------
(***************************************************************************)
(* What the stwo backend (crates/cuda-backend) asks of the device: column, *)
(* polynomial, FRI, quotient, Merkle, lookup and grinding operations, with *)
(* the twiddles and workspaces it keeps for the life of the process.       *)
(*                                                                         *)
(* A column argument is a buffer; a secure column's four coordinates are   *)
(* one.  What the code takes by value is dropped at the end of its script. *)
(***************************************************************************)
EXTENDS M31Device

Key(what, log) == what \o ToString(log)
AtLog(what, log) == <<what, log>>

-----------------------------------------------------------------------------
(* Buffers of the process (poly_ops.rs, fri_ops.rs, quotient_ops.rs). *)

GpuTwiddlePair(log) == {AtLog("d_twiddles", log), AtLog("d_itwiddles", log)}
cached_gpu_twiddles(log) ==
  get_or_make(Key("gpu_twiddles", log), GpuTwiddlePair(log),
              from_host({AtLog("d_twiddles", log)}) \o from_host({AtLog("d_itwiddles", log)}))
WithTwiddles(log, uses) == cached_gpu_twiddles(log) \o uses \o release(GpuTwiddlePair(log))

FoldTwiddles(kind, log) == AtLog("fold_twiddles_" \o kind, log)
cached_fold_twiddles_vc(kind, log) ==
  get_or_make(Key("fold_twiddles_" \o kind, log), {FoldTwiddles(kind, log)},
              compute_fold_twiddles_gpu(FoldTwiddles(kind, log)))
get_or_compute_circle_fold_twiddles(log) ==
  get_or_adopt(Key("circle_fold_twiddles", log), {AtLog("inv_y", log)}, from_host({AtLog("inv_y", log)}))
get_or_compute_line_fold_twiddles(log) ==
  get_or_adopt(Key("line_fold_twiddles", log), {AtLog("inv_x", log)}, from_host({AtLog("inv_x", log)}))
DomainPointBuffers(log) == {AtLog("xs", log), AtLog("ys", log)}
get_or_compute_domain_points(log) ==
  get_or_adopt(Key("domain_points", log), DomainPointBuffers(log),
               from_host({AtLog("xs", log)}) \o from_host({AtLog("ys", log)}))

\* Workspaces: whoever holds the mutex may use the buffers.
ping == Buf("ping")
pong == Buf("pong")
FoldWorkspace == {ping, pong, Buf("zeros")}
get_fold_workspace(log) ==
  get_or_make(Key("fold_workspace", log), FoldWorkspace,
              alloc({ping}) \o alloc({pong}) \o alloc({Buf("zeros")}) \o zero({Buf("zeros")}))
EvalAtPointWorkspace == Bufs({"scratch1", "scratch2", "factors"})
get_eval_at_point_workspace(log) ==
  get_or_make(Key("eval_at_point_workspace", log), EvalAtPointWorkspace, alloc(EvalAtPointWorkspace))
WithWorkspace(get, bufs, mutex, uses) ==
  get \o lock_workspace(mutex) \o uses \o unlock_workspace(mutex) \o release(bufs)

-----------------------------------------------------------------------------
(* Columns (column.rs). *)

zeros_column(col) == alloc({col}) \o zero({col})
to_cpu(col) == to_host({col})
at(col) == copy({col}, {})
set(col) == copy({}, {col})
gather(col) ==
  from_host({Buf("d_idx")}) \o alloc({Buf("d_out")}) \o kernel({col, Buf("d_idx")}, {Buf("d_out")})
    \o to_host({Buf("d_out")}) \o drop(Bufs({"d_out", "d_idx"}))
gather_indices(col) ==
  from_host({Buf("d_idx")}) \o alloc({Buf("d_out")}) \o kernel({col, Buf("d_idx")}, {Buf("d_out")})
    \o cuda_device_sync \o to_host({Buf("d_out")}) \o drop(Bufs({"d_out", "d_idx"}))
split_at_mid(col, left, right) == to_host({col}) \o from_host({left}) \o from_host({right}) \o drop({col})
from_iter(col) == from_host({col})
bit_reverse_base(col) == kernel({col}, {col}) \o cuda_device_sync
\* Into a buffer that takes the place of the column's.
bit_reverse_secure(col, new) == alloc({new}) \o kernel({col}, {new}) \o cuda_device_sync \o drop({col})
bit_reverse_hashes(col, new) == to_host({col}) \o from_host({new}) \o drop({col})

-----------------------------------------------------------------------------
(* Polynomials (poly_ops.rs). *)

interpolate_eval(col, log) ==
  WithTwiddles(log, kernel({col, AtLog("d_itwiddles", log)}, {col}))
extend(poly, out, grows) ==
  IF grows THEN alloc({out}) \o zero({out}) \o copy({poly}, {out}) ELSE clone_device(poly, out)
evaluate_poly(poly, out, grows, log) ==
  extend(poly, out, grows) \o WithTwiddles(log, kernel({out, AtLog("d_twiddles", log)}, {out}))

\* The columns of one size, in one launch; a coefficient buffer that is kept is
\* replaced by one of one element, the others go at the end.
evaluate_polynomials(polys, evals, kept, log) ==
  LET outs == ToSet(evals)
      Placeholder(i) == <<"placeholder", i>>
  IN  WithTwiddles(log,
        FlattenSeq([i \in DOMAIN polys |->
          alloc({evals[i]}) \o zero({evals[i]}) \o copy({polys[i]}, {evals[i]})])
          \o kernel(outs \cup {AtLog("d_twiddles", log)}, outs) \o cuda_device_sync)
      \o IF kept THEN FlattenSeq([i \in DOMAIN polys |-> alloc({Placeholder(i)})])
                        \o drop({Placeholder(i) : i \in DOMAIN polys})
                 ELSE drop(ToSet(polys))
interpolate_columns(cols, log) ==
  WithTwiddles(log, kernel(cols \cup {AtLog("d_itwiddles", log)}, cols) \o cuda_device_sync)

\* A polynomial of less than 1024 coefficients is read back.
eval_at_point_small(poly) == to_cpu(poly)
eval_at_point(poly, log) ==
  WithWorkspace(get_eval_at_point_workspace(log), EvalAtPointWorkspace, Buf("scratch1"),
    copy({}, {Buf("factors")})
      \o kernel({poly, Buf("factors")}, {Buf("scratch1")})
      \o kernel({Buf("scratch1"), Buf("factors")}, {Buf("scratch2")})
      \o copy({Buf("scratch2")}, {}))
barycentric_weights(weights) == from_iter(weights)
barycentric_eval_at_point(evals, weights) ==
  alloc({Buf("d_partial")}) \o kernel({evals, weights}, {Buf("d_partial")})
    \o to_host({Buf("d_partial")}) \o drop({Buf("d_partial")})

\* The circle fold adds to ping; each line fold goes to the other of the two.
LineFold(from, to, log) ==
  cached_fold_twiddles_vc("line", log) \o kernel({from, FoldTwiddles("line", log)}, {to})
    \o cuda_device_sync \o release({FoldTwiddles("line", log)})
Source(log, current) == IF (log - current) % 2 = 1 THEN ping ELSE pong
eval_at_point_by_folding(evals, log) ==
  WithWorkspace(get_fold_workspace(log), FoldWorkspace, ping,
    zero({ping}) \o cached_fold_twiddles_vc("circle", log)
      \o kernel({ping, evals, Buf("zeros"), FoldTwiddles("circle", log)}, {ping}) \o cuda_device_sync
      \o FlattenSeq([i \in 1..(log - 1) |-> LineFold(Source(log, log - i), Source(log, log - i - 1), log - i)])
      \o to_host({Source(log, 0)}) \o release({FoldTwiddles("circle", log)}))

precompute_twiddles == compute_forward_twiddles_gpu("fwd") \o compute_forward_twiddles_gpu("inv")
TwiddleTree == Forward("fwd") \cup Forward("inv")

-----------------------------------------------------------------------------
(* FRI and quotients (fri_ops.rs, quotient_ops.rs). *)

gpu_fold_line_single(eval, out, log) ==
  get_or_compute_line_fold_twiddles(log) \o alloc({out}) \o kernel({eval, AtLog("inv_x", log)}, {out})
    \o cuda_device_sync \o release({AtLog("inv_x", log)})
\* Each fold but the last drops what it made for the next.
fold_line_evaluation(eval, layers, log) ==
  FlattenSeq([i \in DOMAIN layers |->
    LET from == IF i = 1 THEN eval ELSE layers[i - 1]
    IN  gpu_fold_line_single(from, layers[i], log - i + 1) \o (IF i = 1 THEN <<>> ELSE drop({from}))])
fold_circle_evaluation(src, out, log) ==
  get_or_compute_circle_fold_twiddles(log) \o alloc({out}) \o zero({out})
    \o kernel({out, src, AtLog("inv_y", log)}, {out}) \o cuda_device_sync \o release({AtLog("inv_y", log)})
decompose(eval, out) == to_cpu(eval) \o from_iter(out)

NumeratorParams == Bufs({"d_col_indices", "d_b", "d_c"})
accumulate_numerators(cols, outs) ==
  from_host({Buf("d_col_ptrs")})
    \o FlattenSeq([i \in DOMAIN outs |->
         from_host(NumeratorParams) \o alloc({outs[i]})
           \o kernel(cols \cup NumeratorParams \cup {Buf("d_col_ptrs")}, {outs[i]}) \o cuda_device_sync
           \o drop(NumeratorParams)])
    \o drop({Buf("d_col_ptrs")})
CombineParams == Bufs({"d_sp", "d_fla", "d_acc_log_sizes", "d_numer"})
\* On the subdomain; then the four coordinates are interpolated and evaluated
\* one by one on the whole domain.
compute_quotients_and_combine(accs, lifted, log, log_blowup) ==
  LET sub == log - log_blowup
      out == Buf("quotients")
  IN  get_or_compute_domain_points(sub) \o from_host(CombineParams) \o alloc({out})
        \o kernel(accs \cup CombineParams \cup DomainPointBuffers(sub), {out}) \o cuda_device_sync
        \o precompute_twiddles \o interpolate_columns({out}, sub)
        \o evaluate_poly(out, lifted, log_blowup > 0, log) \o drop({out})
        \o drop(TwiddleTree) \o drop(CombineParams) \o release(DomainPointBuffers(sub))
        \o drop(accs)

-----------------------------------------------------------------------------
(* Merkle trees and accumulation (merkle_ops.rs, accumulation_ops.rs). *)

\* A failed launch is done again on the CPU.
build_leaves(cols, hashes, cpu_hashes, fails) ==
  from_host({Buf("d_col_ptrs")}) \o from_host({Buf("d_schedule")}) \o alloc({hashes})
    \o kernel(cols \cup Bufs({"d_col_ptrs", "d_schedule"}), {hashes}) \o cuda_device_sync
    \o (IF fails THEN to_host(cols) \o from_iter(cpu_hashes) \o drop({hashes}) ELSE <<>>)
    \o drop({Buf("d_schedule")}) \o drop({Buf("d_col_ptrs")})
build_next_layer(prev, parents) == alloc({parents}) \o kernel({prev}, {parents}) \o cuda_device_sync
pack_leaves_input(values, outs) ==
  FlattenSeq([i \in DOMAIN outs |-> zeros_column(outs[i])])
    \o from_host({Buf("d_in_ptrs")}) \o from_host({Buf("d_out_ptrs")})
    \o kernel({values} \cup Bufs({"d_in_ptrs", "d_out_ptrs"}), ToSet(outs)) \o cuda_device_sync
    \o drop(Bufs({"d_in_ptrs", "d_out_ptrs"}))
build_leaves_poseidon(cols, hashes) ==
  from_host({Buf("d_meta")}) \o alloc({hashes}) \o kernel(cols \cup {Buf("d_meta")}, {hashes})
    \o cuda_device_sync \o drop({Buf("d_meta")})
commit_leaves_gpu(cols, hashes) ==
  from_host({Buf("d_col_ptrs")}) \o alloc({hashes}) \o kernel(cols \cup {Buf("d_col_ptrs")}, {hashes})
    \o cuda_device_sync \o drop({Buf("d_col_ptrs")})

accumulate(col, other) == kernel({col, other}, {col}) \o cuda_device_sync
\* From the smallest column up, each added into the next.
lift_and_accumulate(cols) ==
  zeros_column(Buf("smallest"))
    \o FlattenSeq([i \in DOMAIN cols |->
         LET curr == IF i = 1 THEN Buf("smallest") ELSE cols[i - 1]
         IN  kernel({curr, cols[i]}, {cols[i]}) \o cuda_device_sync \o drop({curr})])

-----------------------------------------------------------------------------
(* The lookup argument and grinding (gkr_ops.rs, grind_ops.rs). *)

upload_qm31(buf) == from_host({buf})
fix_first_variable(mle, out) ==
  upload_qm31(Buf("d_r")) \o alloc({out}) \o kernel({mle, Buf("d_r")}, {out}) \o cuda_device_sync
    \o drop({Buf("d_r")}) \o drop({mle})
gen_eq_evals(out, k) ==
  alloc({out}) \o upload_qm31(Buf("d_v")) \o kernel({Buf("d_v")}, {out}) \o cuda_device_sync
    \o Repeat(k, upload_qm31(Buf("d_yi")) \o kernel({out, Buf("d_yi")}, {out}) \o cuda_device_sync
                   \o drop({Buf("d_yi")}))
    \o drop({Buf("d_v")})
next_layer(layer, outs) == alloc(outs) \o kernel(layer, outs) \o cuda_device_sync
next_layer_cpu(layer, outs) == to_host(layer) \o from_host(outs)
sum_as_poly_in_first_variable(eq_evals, layer) ==
  alloc({Buf("d_partial")}) \o upload_qm31(Buf("lambda"))
    \o kernel(layer \cup {eq_evals, Buf("lambda")}, {Buf("d_partial")}) \o cuda_device_sync
    \o to_host({Buf("d_partial")}) \o drop({Buf("lambda")}) \o drop({Buf("d_partial")})

\* These two buffers are cudaMalloc's whatever the flag says.  The Poseidon
\* search does not reset the result before each batch.
GrindBuffers == Bufs({"d_digest", "d_result"})
GrindBatch == kernel({Buf("d_digest"), Buf("d_result")}, {Buf("d_result")}) \o cuda_device_sync
                \o copy({Buf("d_result")}, {})
Grind(batch, batches) ==
  cudaMalloc(GrindBuffers) \o copy({}, {Buf("d_digest")}) \o copy({}, {Buf("d_result")})
    \o Repeat(batches, batch) \o cudaFree({Buf("d_digest")}) \o cudaFree({Buf("d_result")})
grind_gpu_blake2s(batches) == Grind(copy({}, {Buf("d_result")}) \o GrindBatch, batches)
grind_poseidon(batches) == Grind(GrindBatch, batches)

-----------------------------------------------------------------------------
(* Constraint quotients (component_prover.rs). *)

\* The columns are those of the trace, or are evaluated on a larger domain.
get_constraint_quotients_inputs_cuda(polys, evals, log) ==
  precompute_twiddles
    \o FlattenSeq([i \in DOMAIN polys |-> evaluate_poly(polys[i], evals[i], TRUE, log)])
    \o drop(TwiddleTree)
BytecodeParams == Bufs({"d_bytecode", "d_col_ptrs", "d_col_sizes", "d_coeff", "d_denom_inv"})
\* "refused": nothing was asked of the device; "error": it had failed before.
try_gpu_bytecode_eval(cols, accum, outcome) ==
  LET Params(uses) == from_host(BytecodeParams) \o cuda_device_sync \o uses \o drop(BytecodeParams)
      Kernel == kernel(cols \cup BytecodeParams \cup {accum}, {accum}) \o cuda_device_sync
  IN  CASE outcome = "refused" -> <<>>
        [] outcome = "error" -> Params(<<>>)
        [] outcome = "failed" -> Params(Kernel \o zero({accum}))
        [] outcome = "done" -> Params(Kernel)
Fallback(cols, accum, result) ==
  to_host(cols) \o to_host({accum}) \o from_iter(result) \o drop({accum})
evaluate_constraint_quotients(polys, evals, accum, result, outcome, log) ==
  get_constraint_quotients_inputs_cuda(polys, evals, log)
    \o try_gpu_bytecode_eval(ToSet(evals), accum, outcome)
    \o (IF outcome = "done" THEN <<>> ELSE Fallback(ToSet(evals), accum, result))
    \o drop(ToSet(evals))
=============================================================================
