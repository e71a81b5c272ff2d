----------------------------- MODULE StarkScript -----------------------------
(***************************************************************************)
(* The STARKs with a proof of their own as transcript scripts: the         *)
(* Fibonacci STARK over M31, and the four provers over Felt252.            *)
(***************************************************************************)
EXTENDS Transcript

(* The Fibonacci STARK over M31 (src/prover.rs, src/verifier.rs).  s is its *)
(* shape, of which only log_n matters here.  The prover draws a fold        *)
(* challenge at the start of each fold, the verifier one after each         *)
(* commitment: it draws one more than the prover.                           *)

M31BlowupBits == 2
M31LogLastLayer == 3
M31FriLayers(s) == s.log_n + M31BlowupBits - M31LogLastLayer
M31Layers(s) == 1..M31FriLayers(s)

prove_lean_inner(s) ==
  LET fold == [i \in M31Layers(s) |->
                 draw(FriAlpha[i - 1]) \o commit(FriCommitment[i], {FriAlpha[i - 1]})]
  IN  make({"public_inputs"}, {}) \o commit("trace_commitment", {})
        \o draw("alpha") \o commit("quotient_commitment", {"alpha"})
        \o rounds(M31FriLayers(s), fold)
        \o commit("fri_last_layer", {FriAlpha[M31FriLayers(s) - 1]})
        \o draw("query_indices") \o make({"query_indices"}, {"query_indices"})
        \o make({"trace_decommitment", "quotient_decommitment"}
                  \cup {FriDecommitment[i] : i \in M31Layers(s)}, {"query_indices"})

\* The AIR constraint is not evaluated and the public inputs are only range-checked.
verify(v) ==
  LET layer == [i \in M31Layers(v) |-> mix(FriCommitment[i]) \o draw(FriAlpha[i])]
  IN  loose({"public_inputs"}) \o mix("trace_commitment") \o draw("alpha")
        \o mix("quotient_commitment") \o draw(FriAlpha[0]) \o rounds(M31FriLayers(v), layer)
        \o mix("fri_last_layer")
        \o draw("query_indices") \o check({"query_indices"}, {"query_indices"})
        \o check({"trace_commitment", "trace_decommitment"}, {"query_indices"})
        \o check({"quotient_commitment", "quotient_decommitment"}, {"query_indices"})
        \o check({FriCommitment[i] : i \in M31Layers(v)} \cup {FriDecommitment[i] : i \in M31Layers(v)},
                 {"query_indices"})
        \o check({"quotient_decommitment", FriDecommitment[1]}, {"query_indices", FriAlpha[0]})
        \o check({FriDecommitment[i] : i \in M31Layers(v)} \cup {"fri_last_layer"},
                 {"query_indices"} \cup {FriAlpha[i] : i \in 0..M31FriLayers(v) - 1})

-----------------------------------------------------------------------------
(* The four provers over Stark252 (src/stark252) as transcript scripts:    *)
(* the Fibonacci prover, the single-column prover with FRI, the            *)
(* multi-column prover, and the Cairo proof, which chains three proofs on  *)
(* one channel.  p names a sub-proof's fields and challenges.  A list with *)
(* a member per query has its length (n_...) as a field of its own: a      *)
(* verifier that goes through the queries and the list together stops at   *)
(* the end of the shorter one.                                             *)

Exec == [alpha_0 |-> "alpha_0", inner_root |-> "inner_root", alpha_1 |-> "alpha_1",
         last_layer_evals |-> "last_layer_evals", queries |-> "queries",
         query_indices |-> "query_indices", query_decommits |-> "query_decommits"]
Mem == [alpha_0 |-> "mem_alpha_0", inner_root |-> "mem_inner_root", alpha_1 |-> "mem_alpha_1",
        last_layer_evals |-> "mem_last_layer_evals", queries |-> "mem_queries",
        query_indices |-> "mem_query_indices", query_decommits |-> "mem_query_decommits"]
Rc == [alpha_0 |-> "rc_alpha_0", inner_root |-> "rc_inner_root", alpha_1 |-> "rc_alpha_1",
       last_layer_evals |-> "rc_last_layer_evals", queries |-> "rc_queries",
       query_indices |-> "rc_query_indices", query_decommits |-> "rc_query_decommits"]

\* Two folds: alpha_0, one inner root, alpha_1, then the raw last layer.
fri_commit(p) ==
  draw(p.alpha_0) \o commit(p.inner_root, {p.alpha_0})
    \o draw(p.alpha_1) \o commit(p.last_layer_evals, {p.alpha_1})

DrawQueries(p) ==
  draw(p.queries) \o make({p.query_indices}, {p.queries})

fri_build_proof(p) == make({p.query_decommits}, {p.queries})

ReplayFriCommit(p) ==
  draw(p.alpha_0) \o mix(p.inner_root) \o draw(p.alpha_1)
    \o mix(p.last_layer_evals)

ReplayQueries(p) ==
  ReplayFriCommit(p) \o draw(p.queries) \o check({p.query_indices}, {p.queries})

fri_verify(p, root) ==
  ReplayFriCommit(p)
    \o check({p.query_decommits, p.inner_root, p.last_layer_evals, root},
             {p.alpha_0, p.alpha_1, p.queries})

-----------------------------------------------------------------------------
fib_prove ==
  commit("public_a", {}) \o commit("public_b", {}) \o commit("trace_root", {})
    \o commit("quotient_root", {}) \o commit("q_a", {}) \o commit("q_b", {})
    \o DrawQueries(Exec) \o make({"trace_decommits", "quotient_decommits",
                               "n_trace_decommits", "n_quotient_decommits"}, {"queries"})

fib_verify ==
  mix("public_a") \o mix("public_b") \o mix("trace_root") \o mix("quotient_root")
    \o mix("q_a") \o mix("q_b") \o draw("queries")
    \o check({"query_indices"}, {"queries"})
    \o check({"trace_root", "trace_decommits", "quotient_root", "quotient_decommits",
              "q_a", "q_b", "n_trace_decommits", "n_quotient_decommits"}, {"queries"})

-----------------------------------------------------------------------------
air_prove ==
  commit("public_inputs", {}) \o commit("trace_root", {}) \o commit("quotient_root", {})
    \o fri_commit(Exec) \o DrawQueries(Exec)
    \o make({"trace_decommits", "n_trace_decommits"}, {"queries"}) \o fri_build_proof(Exec)

\* trace_decommits are not counted.  fri_verify is given a second channel, brought to
\* the state fri_commit started from.
verify_with_air ==
  LET upTo == mix("public_inputs") \o mix("trace_root") \o mix("quotient_root")
  IN  check({"public_inputs"}, {}) \o upTo \o ReplayQueries(Exec)
        \o check({"trace_root", "trace_decommits", "query_decommits"}, {"queries"})
        \o restart \o upTo \o fri_verify(Exec, "quotient_root")

-----------------------------------------------------------------------------
prove_multi ==
  commit("public_inputs", {}) \o commit("col_roots", {}) \o draw("alphas")
    \o commit("quotient_root", {"alphas"}) \o fri_commit(Exec) \o DrawQueries(Exec)
    \o make({"trace_decommits", "n_trace_decommits"}, {"queries"}) \o fri_build_proof(Exec)

MultiUpToQuotient ==
  mix("public_inputs") \o mix("col_roots") \o draw("alphas") \o mix("quotient_root")

verify_multi ==
  check({"public_inputs"}, {}) \o MultiUpToQuotient \o ReplayQueries(Exec)
    \o check({"col_roots", "trace_decommits", "n_trace_decommits", "query_decommits"},
             {"queries", "alphas"})
    \o restart \o MultiUpToQuotient \o fri_verify(Exec, "quotient_root")

-----------------------------------------------------------------------------
\* The channel as the execution proof left it, the drawn query indices included.
replay_exec_channel == restart \o MultiUpToQuotient \o ReplayFriCommit(Exec) \o draw("queries")

prove_memory_logup ==
  draw("mem_z") \o draw("mem_alpha") \o make({"mem_exec_sum"}, {"mem_z", "mem_alpha"})
    \o commit("mem_s_root", {"mem_z", "mem_alpha"}) \o make({"mem_table"}, {})
    \o commit("mem_q_root", {"mem_z", "mem_alpha"}) \o fri_commit(Mem) \o DrawQueries(Mem)
    \o make({"mem_decommits", "n_mem_decommits", "mem_access_paths"}, {"mem_queries"})
    \o fri_build_proof(Mem)

\* mem_decommits are not counted.  fri_verify runs on a clone taken before the channel is advanced: both are
\* the same steps on the same state, so the clone's equations stand alone here.
verify_memory_logup ==
  draw("mem_z") \o draw("mem_alpha") \o mix("mem_s_root")
    \o check({"mem_exec_sum", "mem_table"}, {"mem_z", "mem_alpha"})
    \o mix("mem_q_root") \o ReplayQueries(Mem)
    \o check({"mem_s_root", "mem_decommits", "mem_query_decommits"},
             {"mem_queries", "mem_z", "mem_alpha"})
    \o check({"mem_query_decommits", "mem_inner_root", "mem_last_layer_evals", "mem_q_root"},
             {"mem_alpha_0", "mem_alpha_1", "mem_queries"})

prove_range_check ==
  draw("rc_z") \o make({"rc_exec_sum"}, {"rc_z"}) \o commit("rc_s_root", {"rc_z"})
    \o make({"rc_mults"}, {}) \o commit("rc_q_root", {"rc_z"}) \o fri_commit(Rc)
    \o DrawQueries(Rc) \o make({"rc_decommits", "n_rc_decommits"}, {"rc_queries"}) \o fri_build_proof(Rc)

\* rc_decommits are not counted.
verify_range_check ==
  draw("rc_z") \o mix("rc_s_root") \o check({"rc_exec_sum", "rc_mults"}, {"rc_z"})
    \o mix("rc_q_root") \o ReplayQueries(Rc)
    \o check({"rc_s_root", "rc_decommits", "rc_query_decommits", "col_roots"},
             {"rc_queries", "rc_z"})
    \o check({"rc_query_decommits", "rc_inner_root", "rc_last_layer_evals", "rc_q_root"},
             {"rc_alpha_0", "rc_alpha_1", "rc_queries"})

prove_cairo == prove_multi \o replay_exec_channel \o prove_memory_logup \o prove_range_check
verify_cairo == verify_multi \o replay_exec_channel \o verify_memory_logup \o verify_range_check
=============================================================================
