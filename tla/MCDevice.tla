------------------------------ MODULE MCDevice ------------------------------
(* Seven layers: one in pinned memory, two resident, the rest with trees. *)
EXTENDS Device, CairoDevice, BackendDevice

Alone(script) == [main |-> script]
\* One group's extension and commitment, by threads that share the staging buffer.
Extending(group, k) ==
  init_memory_pool \o StwoNttCache("trace_ntt") \o StwoNttCache("eval_ntt") \o from_host_chunked(<<"d_zh", 1>>)
    \o TraceGroup(group, k, TRUE) \o drop(Bufs({"trace_ntt_fwd", "trace_ntt_inv", "eval_ntt_fwd", "eval_ntt_inv"}))
    \o drop({<<"d_zh", 1>>, Hc(group, k)})

\* A proof of the stwo backend: two columns of size 3 on a domain of size 4.
\* Its operations are in the order stwo's prover calls them.
Polys == <<Buf("poly_1"), Buf("poly_2")>>
Evals == <<Buf("eval_1"), Buf("eval_2")>>
ConstraintEvals == <<Buf("constraint_1"), Buf("constraint_2")>>
StwoCommit(fails) ==
  from_iter(Polys[1]) \o zeros_column(Polys[2]) \o set(Polys[2]) \o bit_reverse_base(Polys[1])
    \o interpolate_eval(Polys[1], 3) \o interpolate_columns({Polys[2]}, 3)
    \o evaluate_polynomials(Polys, Evals, TRUE, 4)
    \o build_leaves(ToSet(Evals), Buf("leaves"), Buf("cpu_leaves"), fails)
    \o build_next_layer(Buf(IF fails THEN "cpu_leaves" ELSE "leaves"), Buf("parents"))
    \o gather(Buf("parents")) \o at(Buf("parents"))
    \o drop(Bufs({"parents", IF fails THEN "cpu_leaves" ELSE "leaves"}))
StwoConstraints(outcome) ==
  LET result == Buf(IF outcome = "done" THEN "accum" ELSE "result")
  IN  zeros_column(Buf("accum"))
        \o evaluate_constraint_quotients(Polys, ConstraintEvals, Buf("accum"), Buf("result"), outcome, 4)
        \o zeros_column(Buf("other")) \o accumulate(result, Buf("other"))
        \o lift_and_accumulate(<<Buf("other"), result>>) \o drop({result})
StwoOpen ==
  eval_at_point_small(Polys[1]) \o eval_at_point(Polys[1], 3) \o eval_at_point(Polys[2], 3)
    \o eval_at_point_by_folding(Evals[1], 4)
    \o barycentric_weights(Buf("weights")) \o barycentric_eval_at_point(Evals[2], Buf("weights"))
    \o drop({Buf("weights")})
    \o accumulate_numerators(ToSet(Evals), <<Buf("acc_1"), Buf("acc_2")>>)
    \o compute_quotients_and_combine(Bufs({"acc_1", "acc_2"}), Buf("lifted"), 4, 1)
    \o drop(ToSet(Polys) \cup ToSet(Evals))
StwoFri ==
  fold_circle_evaluation(Buf("lifted"), Buf("line"), 4) \o drop({Buf("lifted")})
    \o fold_line_evaluation(Buf("line"), <<Buf("line_2"), Buf("line_3")>>, 3)
    \o pack_leaves_input(Buf("line"), <<Buf("packed_1"), Buf("packed_2")>>)
    \o commit_leaves_gpu(Bufs({"packed_1", "packed_2"}), Buf("hashes"))
    \o build_leaves_poseidon({Buf("line")}, Buf("felts"))
    \o gather_indices(Buf("hashes")) \o drop(Bufs({"packed_1", "packed_2", "hashes", "felts", "line"}))
    \o decompose(Buf("line_3"), Buf("rest")) \o bit_reverse_secure(Buf("rest"), Buf("rest_2"))
    \o split_at_mid(Buf("rest_2"), Buf("left"), Buf("right")) \o bit_reverse_hashes(Buf("left"), Buf("left_2"))
    \o drop(Bufs({"line_3", "left_2", "right"})) \o grind_gpu_blake2s(2) \o grind_poseidon(2)
StwoLookup ==
  gen_eq_evals(Buf("eq"), 2) \o from_iter(Buf("layer")) \o next_layer({Buf("layer")}, {Buf("next")})
    \o next_layer_cpu({Buf("next")}, {Buf("top")}) \o sum_as_poly_in_first_variable(Buf("eq"), {Buf("next")})
    \o fix_first_variable(Buf("layer"), Buf("fixed")) \o drop(Bufs({"fixed", "next", "top", "eq"}))
StwoProof(fails, outcome) ==
  StwoCommit(fails) \o StwoConstraints(outcome) \o StwoOpen \o StwoFri \o StwoLookup

\* Two threads at the cached twiddles and workspaces.
Column(uses) == from_iter(Buf("column")) \o uses \o drop({Buf("column")})
FoldsAndLines ==
  Column(interpolate_eval(Buf("column"), 2) \o gpu_fold_line_single(Buf("column"), Buf("folded"), 2)
           \o drop({Buf("folded")}))
Both(script) == [main |-> script, other |-> script]
Programs ==
  <<Alone(prove_inner), Alone(prove_batch(2)), Alone(prove_lean_inner), Alone(prove_lean_fused),
    Alone(prewarm_eval_pool \o prove_lean_fused \o prove_lean_fused),
    [main |-> prove_lean_fused, other |-> pool_take \o pool_put],
    Alone(cairo_prove(TRUE, TRUE)), Alone(cairo_prove(FALSE, FALSE)),
    Alone(gpu_pedersen_trace \o drop({Buf("d_cols")}) \o gpu_hash_batch \o gpu_hash_batch_timed),
    [main |-> Extending("lo", 3), other |-> Extending("hi", 3)],
    Alone(StwoProof(FALSE, "done")), Alone(StwoProof(TRUE, "failed")), Alone(StwoCommit(FALSE) \o StwoConstraints("refused") \o StwoConstraints("error") \o drop(ToSet(Polys) \cup ToSet(Evals))),
    Both(Column(eval_at_point(Buf("column"), 3))), Both(Column(eval_at_point_by_folding(Buf("column"), 2))),
    Both(FoldsAndLines)>>
MCWorkloads == Programs

CairoPrograms == <<Alone(cairo_prove(TRUE, FALSE)), Alone(cairo_prove(FALSE, FALSE))>>
MCCairoWorkloads == CairoPrograms

\* cairo_vram_required: "only the largest column group (16 cols) plus the ZH
\* blinding buffer (1 col) are ever live on GPU simultaneously".
EvalColumns == MapThenSumSet(LAMBDA b : b[2][2], {a \in DOMAIN mem : mem[a].kind # "pinned"})
ColumnsWithinGate == EvalColumns <= TRACE_LO + 1
=============================================================================
