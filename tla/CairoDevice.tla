----------------------------- MODULE CairoDevice -----------------------------
(***************************************************************************)
(* What the Cairo prover (cairo_air/prover.rs) and the Pedersen and EC     *)
(* kernels ask of the device.  A buffer's number is how many columns of    *)
(* the evaluation domain it stands for; smaller buffers count as none.     *)
(***************************************************************************)
EXTENDS M31Device

\* Columns of the trace groups.
TRACE_LO == 16
TRACE_MID == 15
TRACE_DICT == 3
CairoGroups == <<<<"lo", TRACE_LO>>, <<"hi", TRACE_MID>>, <<"dict", TRACE_DICT>>>>
Hc(t, k) == <<t \o "_hc", k>>

from_host_chunked(buf) == from_host_via(buf, N_CHUNKS)

CairoProverCache ==
  compute_inverse_twiddles_gpu("inv") \o compute_forward_twiddles_gpu("fwd")
    \o compute_inverse_twiddles_gpu("eval_inv") \o StwoNttCache("trace_ntt") \o StwoNttCache("eval_ntt")
CairoCacheDrop ==
  drop(Inverse_("inv") \cup Forward("fwd") \cup Inverse_("eval_inv")
         \cup Bufs({"trace_ntt_fwd", "trace_ntt_inv", "eval_ntt_fwd", "eval_ntt_inv"}))

-----------------------------------------------------------------------------
(* Low-degree extensions and commitments of the trace. *)

\* From trace columns to evaluations; the permutation and the padding write new buffers.
Extend(src, out) ==
  alloc({Buf("d_col")}) \o kernel({src}, {Buf("d_col")}) \o drop({src})
    \o interpolate_stwo(Buf("d_col"), "trace_ntt")
    \o alloc({out}) \o kernel({Buf("d_col")}, {out}) \o drop({Buf("d_col")})
    \o evaluate_stwo(out, "eval_ntt")
\* Its coefficients are kept for the point z.
ntt_col_save(out) ==
  from_host_chunked(Buf("d_src")) \o alloc({Buf("d_col")}) \o kernel({Buf("d_src")}, {Buf("d_col")})
    \o drop({Buf("d_src")}) \o interpolate_stwo(Buf("d_col"), "trace_ntt") \o to_host({Buf("d_col")})
    \o alloc({out}) \o kernel({Buf("d_col")}, {out}) \o drop({Buf("d_col")})
    \o evaluate_stwo(out, "eval_ntt")
stwo_ntt_lde(src, out) == Extend(src, out)
\* The quotient's order, kept on the device when it fits there.
build_d_hc(from, to) == alloc({to}) \o kernel({from}, {to}) \o cuda_device_sync

TraceGroup(t, k, resident) ==
  LET group == <<"group", k>>
  IN  ntt_col_save(group) \o kernel({group, <<"d_zh", 1>>}, {group}) \o cuda_device_sync
        \o to_host_fast(group)
        \o (IF resident THEN build_d_hc(group, Hc(t, k)) ELSE <<>>)
        \o commit_root_only_with_subtrees({group}) \o drop({group})
CairoTrace(resident) ==
  from_host_chunked(<<"d_zh", 1>>)
    \o FlattenSeq([i \in 1..3 |-> TraceGroup(CairoGroups[i][1], CairoGroups[i][2], resident)])
    \o drop({<<"d_zh", 1>>})

\* A committed value of four limbs.
commit_qm31_keep_hc(t, resident) ==
  to_host({<<t, 4>>}) \o (IF resident THEN build_d_hc(<<t, 4>>, Hc(t, 4)) ELSE <<>>)
    \o commit_root_soa4_with_subtrees(<<t, 4>>) \o drop({<<t, 4>>})
ntt_qm31(t) == from_host_chunked(<<t \o "_trace", 0>>) \o stwo_ntt_lde(<<t \o "_trace", 0>>, <<t, 4>>)

\* Scan of blocks, of the blocks' sums, and the sums added; one level is enough here.
block_scan(col) == kernel({col}, {col}) \o cuda_device_sync
gpu_prefix_sum(col) ==
  alloc({Buf("d_bs")}) \o kernel({col}, {col, Buf("d_bs")}) \o cuda_device_sync
    \o block_scan(Buf("d_bs")) \o kernel({col, Buf("d_bs")}, {col}) \o cuda_device_sync \o drop({Buf("d_bs")})
\* The running sum is shifted by a row on the host.
gpu_compute_interaction_trace(t) ==
  from_host({Buf("d_in")}) \o alloc({Buf("d_delta")}) \o kernel({Buf("d_in")}, {Buf("d_delta")})
    \o cuda_device_sync \o gpu_prefix_sum(Buf("d_delta")) \o to_host({Buf("d_delta")})
    \o from_host({<<t \o "_trace", 0>>}) \o drop({Buf("d_delta"), Buf("d_in")})

\* Each trace is extended once all are made, and then committed.
CairoInteraction(resident) ==
  gpu_compute_interaction_trace("logup") \o gpu_compute_interaction_trace("rc")
    \o to_host({<<"logup_trace", 0>>}) \o to_host({<<"rc_trace", 0>>})
    \o stwo_ntt_lde(<<"logup_trace", 0>>, <<"logup", 4>>) \o stwo_ntt_lde(<<"rc_trace", 0>>, <<"rc", 4>>)
    \o commit_qm31_keep_hc("logup", resident) \o commit_qm31_keep_hc("rc", resident)
    \o FlattenSeq([i \in 1..5 |->
         ntt_qm31(<<"t1", "t2", "t3", "u1", "u2">>[i])
           \o commit_qm31_keep_hc(<<"t1", "t2", "t3", "u1", "u2">>[i], resident)])
CairoDictMain(resident) == ntt_qm31("sdict") \o commit_qm31_keep_hc("sdict", resident)
\* The dictionary's own two traces are committed as they are.
CairoDictTraces ==
  Repeat(2, from_host({Buf("d_dict")}) \o commit_root_only({Buf("d_dict")}) \o drop({Buf("d_dict")}))

-----------------------------------------------------------------------------
(* Pedersen and EC kernels, on a stream of their own. *)

\* Uploads and the kernel on the stream; the zeros and the pointers on the default one.
gpu_generate_ec_trace ==
  alloc({Buf("d_a")}) \o upload_async_pageable(Buf("d_a"), "ec")
    \o alloc({Buf("d_ec_raw")}) \o launch("ec", {Buf("d_a")}, {Buf("d_ec_raw")})
    \o alloc({Buf("d_cols")}) \o zero({Buf("d_cols")}) \o from_host({Buf("d_col_ptrs")})
    \o launch("ec", {Buf("d_ec_raw"), Buf("d_col_ptrs")}, {Buf("d_cols")}) \o sync("ec")
    \o drop({Buf("d_col_ptrs"), Buf("d_ec_raw"), Buf("d_a")})
gpu_pedersen_trace ==
  alloc({Buf("d_a")}) \o upload_async_pageable(Buf("d_a"), "pedersen")
    \o alloc({Buf("d_cols")}) \o zero({Buf("d_cols")}) \o from_host({Buf("d_col_ptrs")})
    \o launch("pedersen", {Buf("d_a"), Buf("d_col_ptrs")}, {Buf("d_cols")}) \o sync("pedersen")
    \o drop({Buf("d_col_ptrs"), Buf("d_a")})
gpu_hash_batch ==
  alloc({Buf("d_a"), Buf("d_out")}) \o upload_async_pageable(Buf("d_a"), "pedersen")
    \o launch("pedersen", {Buf("d_a")}, {Buf("d_out")}) \o launch("pedersen", {Buf("d_out")}, {})
    \o sync("pedersen") \o drop({Buf("d_out"), Buf("d_a")})
gpu_hash_batch_timed ==
  from_host({Buf("d_a")}) \o alloc({Buf("d_out")}) \o kernel({Buf("d_a")}, {Buf("d_out")})
    \o cuda_device_sync \o download_into({Buf("d_out")}) \o drop({Buf("d_out"), Buf("d_a")})
EcTrace ==
  gpu_generate_ec_trace \o compute_inverse_twiddles_gpu("ec_inv") \o compute_forward_twiddles_gpu("ec_fwd")
    \o interpolate(Buf("d_cols"), "ec_inv") \o alloc({Buf("d_ec_eval")})
    \o kernel({Buf("d_cols")}, {Buf("d_ec_eval")}) \o drop({Buf("d_cols")}) \o evaluate(Buf("d_ec_eval"), "ec_fwd")
    \o Repeat(2, commit_root_only({Buf("d_ec_eval")})) \o to_host({Buf("d_ec_eval")})
    \o drop({Buf("d_ec_eval")}) \o drop(Inverse_("ec_inv") \cup Forward("ec_fwd"))

-----------------------------------------------------------------------------
(* The quotient, in one kernel or slab by slab. *)

QuotientInputs == {<<"d_vh_inv", 1>>, <<"d_trans_factor", 1>>, Buf("d_alpha"), Buf("d_challenges")}
Sides == {"logup", "rc", "sdict", "t1", "t2", "t3", "u1", "u2"}
HcBuffers == {Hc(t, 4) : t \in Sides} \cup {Hc(CairoGroups[i][1], CairoGroups[i][2]) : i \in 1..3}
Quotient == <<"q", 4>>
ResidentQuotient ==
  from_host({Buf("d_col_ptrs")})
    \o kernel(HcBuffers \cup QuotientInputs \cup {Buf("d_col_ptrs")}, {Quotient}) \o cuda_device_sync
    \o drop(HcBuffers \cup {Buf("d_col_ptrs")})
Slabs == {Buf("trace_slab"), Buf("side_slab")}
SlabQuotient ==
  Repeat(N_CHUNKS,
    from_host_chunked(Buf("trace_slab")) \o from_host({Buf("d_trace_ptrs")}) \o from_host_chunked(Buf("side_slab"))
      \o kernel(Slabs \cup {Buf("d_trace_ptrs")} \cup QuotientInputs, {Quotient}) \o cuda_device_sync
      \o drop(Slabs \cup {Buf("d_trace_ptrs")}))
CairoQuotient(resident) ==
  from_host({Buf("d_alpha")}) \o from_host_chunked(<<"d_vh_inv", 1>>) \o from_host_chunked(<<"d_trans_factor", 1>>)
    \o from_host({Buf("d_challenges")}) \o alloc({Quotient})
    \o (IF resident THEN ResidentQuotient ELSE SlabQuotient) \o drop(QuotientInputs)
CairoQuotientCommit ==
  alloc({<<"d_hq", 4>>}) \o kernel({Quotient}, {<<"d_hq", 4>>}) \o cuda_device_sync \o to_host({<<"d_hq", 4>>})
    \o commit_root_soa4_with_subtrees(<<"d_hq", 4>>) \o drop({<<"d_hq", 4>>})

-----------------------------------------------------------------------------
(* The values at z, the quotient they open, FRI and the openings. *)

\* Copies are interpolated, so that the evaluations remain for the numerators.
InteractionAtZ ==
  from_host_chunked(<<"d_interaction_eval", 12>>) \o clone_device(<<"d_interaction_eval", 12>>, <<"d", 1>>)
    \o interpolate_stwo(<<"d", 1>>, "eval_ntt") \o to_host({<<"d", 1>>}) \o drop({<<"d", 1>>})
QuotientAtZ ==
  alloc({<<"d_canonic", 1>>}) \o kernel({Quotient}, {<<"d_canonic", 1>>})
    \o interpolate_stwo(<<"d_canonic", 1>>, "eval_ntt") \o to_host({<<"d_canonic", 1>>}) \o drop({<<"d_canonic", 1>>})
NumeratorInputs == {<<"d_eval_cols", 34>>, <<"d_q", 4>>, <<"d_interaction_eval", 12>>, Buf("d_coeffs")}
Numerators ==
  from_host_chunked(<<"d_eval_cols", 34>>) \o from_host_chunked(<<"d_q", 4>>) \o from_host({Buf("d_coeffs")})
    \o alloc({<<"numer", 8>>}) \o kernel(NumeratorInputs, {<<"numer", 8>>}) \o cuda_device_sync
    \o drop(NumeratorInputs)
OodsQuotient ==
  from_host({<<"d_dom", 2>>}) \o from_host({Buf("d_points")}) \o alloc({<<"oods_q", 4>>})
    \o kernel({<<"numer", 8>>, <<"d_dom", 2>>, Buf("d_points")}, {<<"oods_q", 4>>}) \o cuda_device_sync
    \o drop({<<"numer", 8>>, <<"d_dom", 2>>, Buf("d_points")}) \o drop({Quotient})
    \o commit_root_soa4_with_subtrees(<<"oods_q", 4>>) \o to_host_fast(<<"oods_q", 4>>)

CairoLayer(log) == <<"line" \o ToString(log), 0>>
CairoTop == LOG_EVAL - 1
CairoFri ==
  from_host({Buf("d_twid")}) \o zeros(CairoLayer(CairoTop))
    \o fold_circle_into_line_with_twiddles(CairoLayer(CairoTop), <<"oods_q", 4>>, Buf("d_twid"))
    \o drop({Buf("d_twid")}) \o drop({<<"oods_q", 4>>})
    \o Down([log \in LAST_LAYER_LOG + 1 .. CairoTop |->
               commit_root_soa4(CairoLayer(log)) \o compute_fold_twiddles_gpu(Buf("d_twid"))
                 \o fold_line_with_twiddles(CairoLayer(log), Buf("d_twid"), CairoLayer(log - 1))
                 \o drop({Buf("d_twid")})],
            CairoTop, LAST_LAYER_LOG + 1)
    \o to_host({CairoLayer(LAST_LAYER_LOG)})
\* Batches of nonces until one has the bits.
grind_pow ==
  from_host({Buf("d_prefix")}) \o from_host({Buf("d_result")})
    \o Repeat(2, kernel({Buf("d_prefix"), Buf("d_result")}, {Buf("d_result")}) \o cuda_device_sync
                   \o to_host({Buf("d_result")}))
    \o drop({Buf("d_prefix"), Buf("d_result")})
cairo_decommit_fri_layer(log) == to_host({CairoLayer(log)}) \o commit_root_soa4_with_subtrees(CairoLayer(log))
CairoOpenings ==
  Down([log \in LAST_LAYER_LOG + 1 .. CairoTop |-> cairo_decommit_fri_layer(log)], CairoTop, LAST_LAYER_LOG + 1)
    \o drop({CairoLayer(log) : log \in LAST_LAYER_LOG .. CairoTop})

cairo_prove(resident, pedersen) ==
  init_memory_pool \o CairoProverCache \o CairoTrace(resident) \o CairoDictMain(resident)
    \o (IF pedersen THEN EcTrace ELSE <<>>) \o CairoDictTraces \o CairoInteraction(resident)
    \o CairoQuotient(resident) \o CairoQuotientCommit \o InteractionAtZ \o QuotientAtZ \o Numerators
    \o OodsQuotient \o CairoFri \o grind_pow \o CairoOpenings \o CairoCacheDrop
=============================================================================
