----------------------------- MODULE M31Device -----------------------------
(***************************************************************************)
(* What the M31 provers (prover.rs) ask of the device: the scripts of      *)
(* prove_with_cache, prove_lean_inner and prove_lean_fused, and of the     *)
(* transforms, folds, commitments and openings they call.                  *)
(*                                                                         *)
(* A name given to a script is a prefix: the script's own buffers are      *)
(* named after it.  One buffer stands for the four columns of a QM31 value *)
(* and one for all the levels of a Merkle tree that lie on the device.     *)
(***************************************************************************)
EXTENDS DeviceScript

CONSTANTS
  LOG_EVAL,                 \* size of the evaluation domain
  FRI_CPU_TAIL_LOG,         \* layers of at most this size are folded on the CPU
  FRI_LEAN_THRESHOLD_LOG,   \* from here on only the subtree roots of a layer are kept
  LAST_LAYER_LOG,
  RESIDENT_LOG,             \* larger layers go to pinned memory
  N_CHUNKS                  \* of the quotient

ASSUME DeviceLogs ==
  LAST_LAYER_LOG < LOG_EVAL /\ FRI_CPU_TAIL_LOG < LOG_EVAL - 1 /\ N_CHUNKS \in Nat \ {0}

Seqs(f, from, to) == FlattenSeq([i \in 1..(to - from + 1) |-> f[from + i - 1]])
Down(f, from, to) == FlattenSeq([i \in 1..(from - to + 1) |-> f[from - i + 1]])

-----------------------------------------------------------------------------
(* Twiddles (circle.rs, ntt.rs, fri.rs). *)

\* The squashed points of a layer replace those of the layer before.
compute_forward_twiddles_gpu(t) ==
  LET x == <<t \o "_x", 0>>  y == <<t \o "_y", 0>>  s == <<t \o "_squashed", 0>>
      line == <<t \o "_line", 0>>  circle == <<t \o "_circle", 0>>
  IN  alloc({x, y}) \o kernel({}, {x, y}) \o cuda_device_sync
        \o alloc({circle}) \o copy({y}, {circle}) \o drop({y})
        \o alloc({line, s}) \o kernel({x}, {line, s}) \o cuda_device_sync \o drop({x})
        \o drop({s})
Forward(t) == {<<t \o "_line", 0>>, <<t \o "_circle", 0>>}
Inverse_(t) == {<<t \o "_iline", 0>>, <<t \o "_icircle", 0>>}
compute_both_twiddles_gpu(t) ==
  compute_forward_twiddles_gpu(t) \o alloc(Inverse_(t)) \o kernel(Forward(t), Inverse_(t)) \o cuda_device_sync
compute_inverse_twiddles_gpu(t) == compute_both_twiddles_gpu(t) \o drop(Forward(t))
compute_twiddles(t) ==
  compute_forward_twiddles_gpu(t) \o cuda_device_sync \o to_host(Forward(t)) \o drop(Forward(t))
gpu_batch_inverse(t) ==
  LET in == <<t \o "_in", 0>>  out == <<t \o "_out", 0>>
  IN  from_host({in}) \o alloc({out}) \o kernel({in}, {out}) \o cuda_device_sync
        \o to_host({out}) \o drop({in, out})
compute_itwiddles(t) == compute_twiddles(t) \o gpu_batch_inverse(t) \o gpu_batch_inverse(t)

evaluate(data, t) == kernel({data} \cup Forward(t), {data})
interpolate(data, t) == kernel({data} \cup Inverse_(t), {data})
bit_reverse(data) == kernel({data}, {data}) \o cuda_device_sync
WithPointers(columns, uses) == from_host({Buf("ptrs")}) \o uses \o drop({Buf("ptrs")})
evaluate_batch(columns, t) ==
  WithPointers(columns, kernel(columns \cup Forward(t) \cup {Buf("ptrs")}, columns))
interpolate_batch(columns, t) ==
  WithPointers(columns, kernel(columns \cup Inverse_(t) \cup {Buf("ptrs")}, columns))
StwoNttCache(t) == from_host({<<t \o "_fwd", 0>>, <<t \o "_inv", 0>>})
evaluate_stwo(data, t) == kernel({data, <<t \o "_fwd", 0>>}, {data})
interpolate_stwo(data, t) == kernel({data, <<t \o "_inv", 0>>}, {data})

\* The sources of a fold's twiddles are released while they may still be in use.
compute_fold_twiddles_gpu(result) ==
  LET sources == <<"sources_of_" \o result[1], result[2]>>
  IN  alloc({sources}) \o kernel({}, {sources}) \o alloc({result}) \o kernel({sources}, {result})
        \o drop({sources})
Sources(result) == <<"sources_of_" \o result[1], result[2]>>
compute_fold_twiddles_async(result, stream) ==
  alloc({Sources(result)}) \o launch(stream, {}, {Sources(result)})
    \o alloc({result}) \o launch(stream, {Sources(result)}, {result})
FriTwiddles(i) == <<"fri_twiddles", i>>
precompute_fri_twiddles ==
  Seqs([i \in 0..(LOG_EVAL - LAST_LAYER_LOG - 1) |-> compute_fold_twiddles_gpu(FriTwiddles(i))],
       0, LOG_EVAL - LAST_LAYER_LOG - 1)

\* The circle fold adds to its destination, the line fold makes its own.
zeros(col) == alloc({col}) \o zero({col})
fold_circle_into_line_with_twiddles(dst, src, twid) == kernel({dst, src, twid}, {dst})
fold_line_with_twiddles(src, twid, out) == alloc({out}) \o kernel({src, twid}, {out})
fold_circle_into_line(dst, src) ==
  compute_fold_twiddles_gpu(Buf("fold_twid")) \o fold_circle_into_line_with_twiddles(dst, src, Buf("fold_twid"))
    \o drop({Buf("fold_twid")})
fold_line(src, out) ==
  compute_fold_twiddles_gpu(Buf("fold_twid")) \o fold_line_with_twiddles(src, Buf("fold_twid"), out)
    \o drop({Buf("fold_twid")})

-----------------------------------------------------------------------------
(* Merkle commitments (merkle.rs). *)

Tree(t) == <<t \o "_tree", 0>>
\* The kernels of the levels, each reading what the one before wrote.
commit(columns, t) ==
  from_host({Buf("col_ptrs")}) \o alloc({Tree(t)})
    \o kernel(columns \cup {Buf("col_ptrs")}, {Tree(t)}) \o kernel({Tree(t)}, {Tree(t)})
    \o drop({Buf("col_ptrs")})
commit_soa4(col, t) ==
  alloc({Tree(t)}) \o kernel({col}, {Tree(t)})
    \o from_host({Buf("col_ptrs")}) \o kernel({col, Buf("col_ptrs")}, {Tree(t)})
    \o kernel({Tree(t)}, {Tree(t)}) \o drop({Buf("col_ptrs")})
root(t) == to_host({Tree(t)})

\* Levels down to 1024 nodes, each in a buffer of its own, then one kernel.
ReduceToRoot(current) ==
  alloc({Buf("parents")}) \o kernel({current}, {Buf("parents")}) \o drop({current})
    \o alloc({Buf("d_root")}) \o kernel({Buf("parents")}, {Buf("d_root")})
    \o to_host({Buf("d_root")}) \o drop({Buf("d_root"), Buf("parents")})
reduce_subtree_roots_to_root == from_host({Buf("current")}) \o ReduceToRoot(Buf("current"))
commit_root_only(columns) ==
  from_host({Buf("col_ptrs")}) \o alloc({Buf("current")})
    \o kernel(columns \cup {Buf("col_ptrs")}, {Buf("current")}) \o drop({Buf("col_ptrs")})
    \o ReduceToRoot(Buf("current"))
commit_root_only_with_subtrees(columns) ==
  from_host({Buf("col_ptrs")}) \o alloc({Buf("d_subtrees")})
    \o kernel(columns \cup {Buf("col_ptrs")}, {Buf("d_subtrees")}) \o drop({Buf("col_ptrs")})
    \o to_host({Buf("d_subtrees")}) \o ReduceToRoot(Buf("d_subtrees"))
commit_root_soa4(col) ==
  alloc({Buf("current")}) \o kernel({col}, {Buf("current")}) \o ReduceToRoot(Buf("current"))
commit_root_soa4_with_subtrees(col) ==
  alloc({Buf("d_subtrees")}) \o kernel({col}, {Buf("d_subtrees")})
    \o to_host({Buf("d_subtrees")}) \o ReduceToRoot(Buf("d_subtrees"))
batch_auth_paths(t) == to_host({Tree(t)})

-----------------------------------------------------------------------------
(* Openings (prover.rs). *)

gpu_build_upper_tree ==
  from_host({Buf("current")}) \o alloc({Buf("parents")}) \o kernel({Buf("current")}, {Buf("parents")})
    \o to_host({Buf("parents")}) \o drop({Buf("current")}) \o drop({Buf("parents")})
decommit_trace(t, d_eval) == to_host({d_eval}) \o batch_auth_paths(t) \o batch_auth_paths(t)
decommit_soa4_from_host(t) == batch_auth_paths(t) \o batch_auth_paths(t)
decommit_fri_layer(t, col) == to_host({col}) \o decommit_soa4_from_host(t)

\* The trees of the tiles are made from views into one buffer, which is
\* released once they are; only then are their paths read.
gpu_tile_auth_paths_single ==
  from_host({Buf("d_batched")}) \o commit({Buf("d_batched")}, "tile_1") \o commit({Buf("d_batched")}, "tile_2")
    \o drop({Buf("d_batched")}) \o gpu_build_upper_tree
    \o to_host({Tree("tile_1"), Tree("tile_2")}) \o drop({Tree("tile_1"), Tree("tile_2")})
\* The trace is in ordinary or in pinned memory.
decommit_trace_gpu(pinned) == host(pinned, {}) \o gpu_tile_auth_paths_single
\* These build the trees of the tiles on the CPU.
decommit_soa4_gpu(pinned) == host(pinned, {}) \o gpu_build_upper_tree
decommit_soa4_from_gpu_resident(col) ==
  alloc({Buf("d_batch")}) \o launch("gather", {col}, {Buf("d_batch")})
    \o pinned_alloc({Buf("host_batch")})
    \o download_into_async(Buf("d_batch"), Buf("host_batch"), "gather") \o sync("gather")
    \o drop({Buf("d_batch")}) \o host({Buf("host_batch")}, {}) \o gpu_build_upper_tree
    \o pinned_free({Buf("host_batch")})
decommit_trace_from_gpu_resident(d_eval) ==
  alloc({Buf("d_tile")}) \o copy({d_eval}, {Buf("d_tile")}) \o commit({Buf("d_tile")}, "tile_1")
    \o to_host({Buf("d_tile")}) \o drop({Buf("d_tile")}) \o gpu_build_upper_tree
    \o to_host({Tree("tile_1")}) \o drop({Tree("tile_1")})
TileTree ==
  from_host({Buf("c")}) \o commit_soa4(Buf("c"), "tile_1") \o drop({Buf("c")})
decommit_quotient_from_gpu(d_eval) ==
  alloc({Buf("d_tile")}) \o copy({d_eval}, {Buf("d_tile")}) \o to_host({Buf("d_tile")}) \o to_host({d_eval})
    \o drop({Buf("d_tile")}) \o TileTree
    \o gpu_build_upper_tree \o to_host({Tree("tile_1")}) \o drop({Tree("tile_1")})
decommit_quotient_recompute(pinned) ==
  host(pinned, {}) \o TileTree \o gpu_build_upper_tree \o to_host({Tree("tile_1")}) \o drop({Tree("tile_1")})

-----------------------------------------------------------------------------
(* The provers.  They differ in what they keep: prove_with_cache every tree, *)
(* prove_lean_inner the host data of large layers, prove_lean_fused large    *)
(* layers in pinned memory or on the device, with the evaluation downloaded  *)
(* behind the folds.                                                         *)

\* The first line layer and the last one folded on the device.
Top == LOG_EVAL - 1
Lowest == IF FRI_CPU_TAIL_LOG > LAST_LAYER_LOG THEN FRI_CPU_TAIL_LOG ELSE LAST_LAYER_LOG

Layer(log) == <<"fri", log>>
LayerTree(log) == "fri" \o ToString(log)
Twid(log) == <<"d_twid", log>>
Lean(log) == <<"fri_lean", log>>
Pinned(log) == <<"fri_pinned", log>>

GenerateTrace == host({}, {Buf("pinned_trace")})
\* Low layers are folded on the CPU with twiddles made on the device.
CpuTail ==
  Down([log \in LAST_LAYER_LOG + 1 .. Lowest |->
          compute_fold_twiddles_gpu(Twid(log)) \o to_host({Twid(log)}) \o drop({Twid(log)})],
       Lowest, LAST_LAYER_LOG + 1)

-----------------------------------------------------------------------------
(* ProverCache and prove_with_cache. *)

CacheNew ==
  init_memory_pool \o compute_both_twiddles_gpu("trace") \o compute_both_twiddles_gpu("eval") \o precompute_fri_twiddles
    \o to_host({FriTwiddles(i) : i \in 0..(LOG_EVAL - LAST_LAYER_LOG - 1)})
    \o pinned_alloc({Buf("pinned_trace")})
CacheDrop ==
  pinned_free({Buf("pinned_trace")})
    \o drop(Forward("trace") \cup Inverse_("trace") \cup Forward("eval") \cup Inverse_("eval")
              \cup {FriTwiddles(i) : i \in 0..(LOG_EVAL - LAST_LAYER_LOG - 1)})

CachedTrace ==
  GenerateTrace \o from_pinned(Buf("pinned_trace"), Buf("d_trace")) \o interpolate(Buf("d_trace"), "trace")
    \o alloc({Buf("d_eval")}) \o kernel({Buf("d_trace")}, {Buf("d_eval")}) \o drop({Buf("d_trace")})
    \o evaluate(Buf("d_eval"), "eval")
    \o commit({Buf("d_eval")}, "trace") \o root("trace")
    \o alloc({Buf("q")}) \o kernel({Buf("d_eval")}, {Buf("q")})
    \o commit_soa4(Buf("q"), "quotient") \o root("quotient") \o to_host({Buf("q")})
CachedLayer(log) == commit_soa4(Layer(log), LayerTree(log)) \o root(LayerTree(log))
CachedFri ==
  zeros(Layer(Top)) \o fold_circle_into_line_with_twiddles(Layer(Top), Buf("q"), FriTwiddles(0))
    \o drop({Buf("q")}) \o CachedLayer(Top)
    \o Down([log \in Lowest .. Top |->
               fold_line_with_twiddles(Layer(log), FriTwiddles(Top - log + 1), Layer(log - 1))
                 \o CachedLayer(log - 1)], Top, Lowest + 1)
    \o to_host({Layer(Lowest)})
CachedQueries ==
  decommit_trace("trace", Buf("d_eval")) \o drop({Buf("d_eval"), Tree("trace")})
    \o decommit_soa4_from_host("quotient") \o drop({Tree("quotient")})
    \o Down([log \in Lowest .. Top |-> decommit_fri_layer(LayerTree(log), Layer(log))], Top, Lowest)
    \o drop({Layer(log) : log \in Lowest .. Top} \cup {Tree(LayerTree(log)) : log \in Lowest .. Top})
prove_with_cache == CachedTrace \o CachedFri \o CachedQueries
prove_inner == CacheNew \o GenerateTrace \o prove_with_cache \o CacheDrop
\* ProverPipeline: a batch is proved one after the other with one cache.
prove_batch(n) ==
  CacheNew \o pinned_alloc({Buf("pinned_trace_b")}) \o Repeat(n, prove_with_cache)
    \o pinned_free({Buf("pinned_trace_b")}) \o CacheDrop

-----------------------------------------------------------------------------
(* prove_lean_inner. *)

LeanTrace ==
  init_memory_pool \o pinned_alloc({Buf("pinned_trace")}) \o GenerateTrace
    \o from_pinned(Buf("pinned_trace"), Buf("d_trace")) \o pinned_free({Buf("pinned_trace")})
    \o compute_inverse_twiddles_gpu("trace") \o interpolate(Buf("d_trace"), "trace") \o drop(Inverse_("trace"))
    \o alloc({Buf("d_eval")}) \o kernel({Buf("d_trace")}, {Buf("d_eval")}) \o drop({Buf("d_trace")})
    \o compute_forward_twiddles_gpu("eval") \o evaluate(Buf("d_eval"), "eval") \o drop(Forward("eval"))
    \o commit_root_only_with_subtrees({Buf("d_eval")}) \o to_host({Buf("d_eval")})
LeanQuotient ==
  alloc({Buf("q")}) \o kernel({Buf("d_eval")}, {Buf("q")}) \o drop({Buf("d_eval")})
    \o commit_root_soa4_with_subtrees(Buf("q")) \o to_host({Buf("q")})

IsLean(log) == log >= FRI_LEAN_THRESHOLD_LOG
\* A layer is left on the host, or on the device with its tree.
LeanLayer(log) ==
  IF IsLean(log) THEN commit_root_soa4_with_subtrees(Layer(log)) \o to_host({Layer(log)})
  ELSE commit_soa4(Layer(log), LayerTree(log)) \o root(LayerTree(log))
\* The twiddles of the next layer are made on a stream of their own meanwhile.
Prefetch(log) == IF log > Lowest THEN compute_fold_twiddles_async(Twid(log), "twid") ELSE <<>>
LeanFold(log) ==
  sync("twid") \o Prefetch(log - 1)
    \o (IF IsLean(log)
        THEN from_host({Buf("src")}) \o fold_line_with_twiddles(Buf("src"), Twid(log), Layer(log - 1))
               \o drop({Buf("src")})
        ELSE fold_line_with_twiddles(Layer(log), Twid(log), Layer(log - 1)))
    \o drop({Twid(log)}) \o LeanLayer(log - 1)
    \o (IF IsLean(log - 1) THEN drop({Layer(log - 1)}) ELSE <<>>) \o drop({Sources(Twid(log))})
LeanFri ==
  zeros(Layer(Top)) \o compute_fold_twiddles_gpu(Buf("d_twid"))
    \o fold_circle_into_line_with_twiddles(Layer(Top), Buf("q"), Buf("d_twid"))
    \o drop({Buf("d_twid")}) \o drop({Buf("q")}) \o LeanLayer(Top)
    \o Prefetch(Top) \o Down([log \in Lowest .. Top |-> LeanFold(log)], Top, Lowest + 1)
    \o (IF IsLean(Lowest) THEN <<>> ELSE to_host({Layer(Lowest)})) \o CpuTail
LeanQueries ==
  decommit_trace_gpu({}) \o decommit_soa4_gpu({})
    \o Down([log \in Lowest .. Top |->
               IF IsLean(log) THEN decommit_soa4_gpu({}) ELSE decommit_fri_layer(LayerTree(log), Layer(log))],
            Top, Lowest)
    \o drop({Layer(log) : log \in {l \in Lowest .. Top : ~IsLean(l)}}
              \cup {Tree(LayerTree(log)) : log \in {l \in Lowest .. Top : ~IsLean(l)}})
    \o (IF IsLean(Top) THEN drop({Layer(Top)}) ELSE <<>>)
prove_lean_inner == LeanTrace \o LeanQuotient \o LeanFri \o LeanQueries

-----------------------------------------------------------------------------
(* prove_lean_fused. *)

\* The host generates the trace while the device makes the twiddles.
FusedTrace ==
  init_memory_pool \o pool_take \o compute_inverse_twiddles_gpu("trace") \o compute_forward_twiddles_gpu("eval")
    \o pinned_alloc({Buf("pinned_trace")}) \o GenerateTrace
    \o from_pinned(Buf("pinned_trace"), Buf("d_coeffs")) \o cuda_device_sync
    \o pinned_free({Buf("pinned_trace")})
    \o interpolate(Buf("d_coeffs"), "trace") \o drop(Inverse_("trace")) \o cuda_device_sync
    \o alloc({Buf("d_eval_full")}) \o kernel({Buf("d_coeffs")}, {Buf("d_eval_full")})
    \o drop({Buf("d_coeffs")}) \o evaluate(Buf("d_eval_full"), "eval") \o drop(Forward("eval"))
    \o cuda_device_sync \o commit_root_only_with_subtrees({Buf("d_eval_full")})

\* The quotient is made chunk by chunk, for its subtree roots and again for the fold.
QuotientChunk == alloc({Buf("dq")}) \o kernel({Buf("d_eval_full")}, {Buf("dq")})
FusedQuotient ==
  Repeat(N_CHUNKS,
         QuotientChunk \o alloc({Buf("d_subtrees")}) \o kernel({Buf("dq")}, {Buf("d_subtrees")})
           \o to_host({Buf("d_subtrees")}) \o drop({Buf("d_subtrees"), Buf("dq")}))
    \o reduce_subtree_roots_to_root
FusedFold ==
  compute_fold_twiddles_gpu(Buf("d_fold_twid")) \o cuda_device_sync \o zeros(Layer(Top))
    \o Repeat(N_CHUNKS,
              QuotientChunk \o kernel({Layer(Top), Buf("dq"), Buf("d_fold_twid")}, {Layer(Top)})
                \o drop({Buf("dq")}))
    \o drop({Buf("d_fold_twid")}) \o cuda_device_sync
    \o download_to_pinned_async(Buf("d_eval_full"), EVAL_PINNED, FALSE, "eval_dl")
    \o commit_root_soa4_with_subtrees(Layer(Top))

GoesToHost(log) == IsLean(log) /\ log > RESIDENT_LOG
\* A layer that is being downloaded is waited for before its buffer is dropped.
FlushDownload(log) == IF log < Top /\ GoesToHost(log) THEN sync("fri_dl") ELSE <<>>
FusedLayer(log) ==
  IF ~IsLean(log) THEN commit_soa4(Layer(log), LayerTree(log)) \o root(LayerTree(log))
  ELSE commit_root_soa4_with_subtrees(Layer(log))
         \o (IF GoesToHost(log)
             THEN pinned_alloc({Pinned(log)}) \o download_into_async(Layer(log), Pinned(log), "fri_dl")
             ELSE clone_device(Layer(log), Lean(log)))
FusedLineFold(log) ==
  FlushDownload(log) \o sync("twid") \o Prefetch(log - 1)
    \o fold_line_with_twiddles(Layer(log), Twid(log), Layer(log - 1)) \o drop({Twid(log)})
    \o (IF IsLean(log) /\ log # Top THEN drop({Layer(log)}) ELSE <<>>)
    \o FusedLayer(log - 1) \o drop({Sources(Twid(log))})
FusedLayers ==
  Prefetch(Top) \o Down([log \in Lowest .. Top |-> FusedLineFold(log)], Top, Lowest + 1)
    \o FlushDownload(Lowest) \o (IF IsLean(Lowest) THEN drop({Layer(Lowest)}) ELSE <<>>)
    \o (IF ~IsLean(Lowest) THEN to_host({Layer(Lowest)})
        ELSE IF GoesToHost(Lowest) THEN host({Pinned(Lowest)}, {}) ELSE to_host({Lean(Lowest)}))
    \o CpuTail

FusedOpening(log) ==
  IF ~IsLean(log)
  THEN decommit_fri_layer(LayerTree(log), Layer(log)) \o drop({Layer(log), Tree(LayerTree(log))})
  ELSE IF GoesToHost(log) THEN decommit_soa4_gpu({Pinned(log)}) \o pinned_free({Pinned(log)})
  ELSE decommit_soa4_from_gpu_resident(Lean(log)) \o drop({Lean(log)})
FusedQueries ==
  sync("eval_dl") \o drop({Buf("d_eval_full")})
    \o decommit_trace_gpu({EVAL_PINNED}) \o decommit_quotient_recompute({EVAL_PINNED})
    \o decommit_soa4_from_gpu_resident(Layer(Top)) \o drop({Layer(Top)})
    \o Down([log \in Lowest .. Top |-> FusedOpening(log)], Top - 1, Lowest) \o pool_put
prove_lean_fused == FusedTrace \o FusedQuotient \o FusedFold \o FusedLayers \o FusedQueries
=============================================================================
