---------------------------- MODULE CairoScript ----------------------------
(***************************************************************************)
(* The Cairo prover and verifier of src/cairo_air/prover.rs as transcript  *)
(* scripts, one definition per phase of cairo_prove_cached_with_columns    *)
(* (the phase_tag names) and per section of cairo_verify.  A shape says    *)
(* which optional parts the proof has: dict accesses, bitwise invocations, *)
(* the Pedersen EC trace, and its trace size.                              *)
(***************************************************************************)
EXTENDS Transcript

BLOWUP_BITS == 2
LOG_LAST_LAYER_DEGREE_BOUND == 3
\* Committed FRI layers: one per size between the circle fold and the last layer.
FriLayers(s) == s.log_n + BLOWUP_BITS - 1 - LOG_LAST_LAYER_DEGREE_BOUND

DictLink == {"z_dict_link", "alpha_dict_link"}
MemLink == {"z_mem", "alpha_mem"}
LogUpChallenges == MemLink \cup {"z_rc"} \cup DictLink
Intermediates == <<"logup_t1", "logup_t2", "logup_t3", "rc_u1", "rc_u2">>
InteractionDecoms == {"interaction_decommitment", "rc_interaction_decommitment",
                      "dict_main_interaction_decommitment"}
IntermediateDecoms == {"logup_t1_decom", "logup_t2_decom", "logup_t3_decom",
                       "rc_u1_decom", "rc_u2_decom"}

-----------------------------------------------------------------------------
(* The prover *)

\* The hash is blake2s_hash of the program's bytes, and that takes one block of 64,
\* padded with zeros: "program" is this block of eight words, "program_rest" the
\* words behind it and the length.
PublicInputs(s) ==
  make({"program", "program_rest", "run_inputs", "version"}, {}) \o commit("program_hash", {})

NttBlindCommit(s) ==
  commit("trace_commitment", {}) \o commit("trace_commitment_hi", {})
    \o commit("dict_trace_commitment", {})

SideTable(s) ==
  when(s.dict, make({"dict_side_table", "dict_access_pointers"}, {})
                 \o commit("dict_side_table_commitment", {}))

SDictInteraction(s) ==
  draw("z_dict_link") \o draw("alpha_dict_link")
    \o commit("dict_main_interaction_commitment", DictLink)
    \o commit("dict_link_final", DictLink)

EcTrace(s) ==
  when(s.ec, commit("ec_trace_commitment", {}) \o commit("ec_trace_commitment_hi", {})
               \o make({"ec_log_eval"}, {}))

DictSubAir(s) ==
  when(s.dict, make({"dict_exec_data", "dict_sorted_data", "dict_n_accesses"}, {})
                 \o commit("dict_exec_commitment", {}) \o commit("dict_sorted_commitment", {})
                 \o draw("z_dict") \o draw("alpha_dict")
                 \o commit("dict_final_sums", {"z_dict", "alpha_dict"}))

DrawLogUp(s) == draw("z_mem") \o draw("alpha_mem") \o draw("z_rc")

CommitInteraction(s) ==
  commit("interaction_commitment", MemLink) \o commit("rc_interaction_commitment", {"z_rc"})

CommitIntermediates(s) ==
  LET each(i) == commit(Intermediates[i], IF i <= 3 THEN MemLink ELSE {"z_rc"})
  IN  each(1) \o each(2) \o each(3) \o each(4) \o each(5)

FinalSums(s) == commit("final_sums", MemLink \cup {"z_rc"})

BitwiseCommit(s) ==
  when(s.bitwise, make({"bitwise_rows"}, {}) \o commit("bitwise_commitment", {}))

MemTableCommit(s) == make({"memory_table"}, {}) \o commit("memory_table_commitment", {})

\* RcCountsCommit that leaves the commitment out of the transcript.
RcCountsUnmixed(s) == make({"rc_counts", "rc_counts_commitment"}, {})

RcCountsCommit(s) == make({"rc_counts"}, {}) \o commit("rc_counts_commitment", {})

Quotient(s) ==
  draw("constraint_alphas") \o make({"logup_challenges"}, LogUpChallenges)
    \o commit("quotient_commitment", LogUpChallenges \cup {"constraint_alphas"})

OodsSample(s) ==
  draw("oods_z") \o make({"oods_z"}, {"oods_z"})
    \o commit("oods_sampled_values", {"oods_z"})
    \o draw("oods_alpha") \o make({"oods_alpha"}, {"oods_alpha"})

OodsQuotient(s) ==
  make({"fri_start_channel_state"}, {})
    \o commit("oods_quotient_commitment", {"oods_z", "oods_alpha"})

Fri(s) ==
  LET layer == [i \in 1..FriLayers(s) |->
                  commit(FriCommitment[i], {FriAlpha[i - 1]}) \o draw(FriAlpha[i])]
  IN  draw(FriAlpha[0]) \o rounds(FriLayers(s), layer)
        \o make({"fri_last_layer"}, {FriAlpha[FriLayers(s)]})
        \o commit("fri_last_layer_poly", {FriAlpha[FriLayers(s)]})

PowGrind(s) ==
  peek("pow_prefix") \o commit("pow_nonce", {"pow_prefix"})
    \o draw("query_indices") \o make({"query_indices"}, {"query_indices"})

TraceDecommit(s) == make({"trace_values_at_queries", "trace_auth_paths"}, {"query_indices"})

EcDecommit(s) ==
  when(s.ec, make({"ec_trace_at_queries", "ec_trace_auth_paths"}, {"query_indices"}))

Decommit(s) ==
  make({"quotient_decommitment", "oods_quotient_decommitment"} \cup InteractionDecoms
         \cup IntermediateDecoms \cup {FriDecommitment[i] : i \in 1..FriLayers(s)},
       {"query_indices"})

cairo_prove(s) ==
  PublicInputs(s) \o NttBlindCommit(s) \o SideTable(s) \o SDictInteraction(s) \o EcTrace(s)
    \o DictSubAir(s) \o DrawLogUp(s) \o CommitInteraction(s) \o CommitIntermediates(s)
    \o FinalSums(s) \o BitwiseCommit(s) \o MemTableCommit(s) \o RcCountsCommit(s) \o Quotient(s)
    \o OodsSample(s) \o OodsQuotient(s) \o Fri(s) \o PowGrind(s) \o TraceDecommit(s)
    \o EcDecommit(s) \o Decommit(s)

-----------------------------------------------------------------------------
(* The verifier.  v is a shape and the field the received proof has lost   *)
(* (it fell back to its default when the proof was read): a section whose  *)
(* governing field is lost is skipped.                                     *)

Has(v, f) == v.lost # f

VersionGate(v) == check({"version"}, {})

\* initial_pc must lie inside the program, which may not be too long; every
\* list has its length.
SizeGates(v) ==
  loose({"program_rest", "run_inputs"}) \o present({"query_indices", "oods_sampled_values"}
            \cup {FriDecommitment[i] : i \in 1..FriLayers(v)})

ZeroCommitmentGates(v) ==
  present({"trace_commitment", "trace_commitment_hi", "dict_trace_commitment",
           "quotient_commitment", "interaction_commitment", "oods_quotient_commitment",
           "memory_table_commitment", "rc_counts_commitment",
           "dict_main_interaction_commitment"}
            \cup {Intermediates[i] : i \in 1..5}
            \cup {FriCommitment[i] : i \in 1..FriLayers(v)})

\* ProgramHash that takes the hash in the proof at its word.
ProgramHashTrusted(v) == check({"program_hash"}, {})

\* compute_program_hash: one block of the program's bytes.
ProgramHash(v) == check({"program", "program_hash"}, {})

ReplayTrace(v) ==
  mix("program_hash") \o mix("trace_commitment") \o mix("trace_commitment_hi")
    \o mix("dict_trace_commitment")

ReplaySideTable(v) ==
  when(v.dict /\ Has(v, "dict_side_table"),
       check({"dict_side_table", "dict_side_table_commitment"}, {})
         \o mix("dict_side_table_commitment"))

ReplaySDict(v) ==
  draw("z_dict_link") \o draw("alpha_dict_link")
    \o mix("dict_main_interaction_commitment") \o mix("dict_link_final")

DictLinkCheck(v) ==
  when(v.dict, present({"dict_exec_commitment"})
                 \o check({"dict_exec_data", "dict_n_accesses", "dict_link_final"}, DictLink)
                 \o when(Has(v, "dict_side_table"),
                         check({"dict_side_table", "dict_exec_data", "dict_n_accesses"}, {})))

ReplayEc(v) ==
  when(v.ec /\ Has(v, "ec_trace_commitment"),
       mix("ec_trace_commitment") \o present({"ec_trace_commitment_hi"})
         \o mix("ec_trace_commitment_hi"))

ReplayDictSubAir(v) ==
  when(v.dict, present({"dict_sorted_commitment", "dict_final_sums"})
                 \o check({"dict_exec_data", "dict_exec_commitment"}, {})
                 \o check({"dict_sorted_data", "dict_sorted_commitment"}, {})
                 \o mix("dict_exec_commitment") \o mix("dict_sorted_commitment")
                 \o draw("z_dict") \o draw("alpha_dict")
                 \o check({"dict_exec_data", "dict_sorted_data", "dict_final_sums"},
                          {"z_dict", "alpha_dict"})
                 \o mix("dict_final_sums"))

ReplayLogUp(v) ==
  draw("z_mem") \o draw("alpha_mem") \o draw("z_rc")
    \o check({"logup_challenges"}, LogUpChallenges)

ReplayInteraction(v) ==
  LET each(i) == mix(Intermediates[i])
  IN  mix("interaction_commitment") \o present({"rc_interaction_commitment"})
        \o mix("rc_interaction_commitment")
        \o each(1) \o each(2) \o each(3) \o each(4) \o each(5) \o mix("final_sums")

ReplayBitwise(v) ==
  when(v.bitwise, present({"bitwise_commitment"})
                    \o check({"bitwise_rows", "bitwise_commitment"}, {}) \o mix("bitwise_commitment"))

\* The pointers are in no commitment: a wrong one may point beside the table.
DictBusLink(v) ==
  when(v.dict /\ Has(v, "dict_access_pointers"),
       check({"memory_table", "dict_exec_data", "dict_n_accesses"}, {})
         \o loose({"dict_access_pointers"}))

BitwiseBusLink(v) == when(v.bitwise, check({"memory_table", "bitwise_rows"}, {}))

ReplayMemTable(v) ==
  check({"memory_table", "memory_table_commitment"}, {}) \o mix("memory_table_commitment")
    \o check({"memory_table", "final_sums"}, MemLink)

ReplayRcCounts(v) ==
  check({"rc_counts", "rc_counts_commitment"}, {}) \o mix("rc_counts_commitment")
    \o check({"rc_counts", "final_sums"}, {"z_rc"})

ReplayOods(v) ==
  draw("constraint_alphas") \o mix("quotient_commitment")
    \o draw("oods_z") \o check({"oods_z"}, {"oods_z"})
    \o mix("oods_sampled_values")
    \o draw("oods_alpha") \o check({"oods_alpha"}, {"oods_alpha"})

ReplayFri(v) ==
  LET layer == [i \in 1..FriLayers(v) |-> mix(FriCommitment[i]) \o draw(FriAlpha[i])]
  IN  mix("oods_quotient_commitment") \o draw(FriAlpha[0])
        \o rounds(FriLayers(v), layer) \o mix("fri_last_layer_poly")

ReplayPow(v) ==
  peek("pow_prefix") \o check({"pow_nonce"}, {"pow_prefix"}) \o mix("pow_nonce")
    \o draw("query_indices") \o check({"query_indices"}, {"query_indices"})

FoldChecks(v) ==
  check({"oods_quotient_decommitment", "fri_last_layer"}
          \cup {FriDecommitment[i] : i \in 1..FriLayers(v)},
        {FriAlpha[i] : i \in 0..FriLayers(v)} \cup {"query_indices"})

TraceAuthPaths(v) ==
  check({"trace_values_at_queries", "trace_auth_paths", "trace_commitment",
         "trace_commitment_hi", "dict_trace_commitment"}, {"query_indices"})

EcAuthPaths(v) ==
  when(v.ec /\ Has(v, "ec_trace_commitment") /\ Has(v, "ec_log_eval"),
       loose({"ec_log_eval"})
         \o check({"ec_trace_at_queries", "ec_trace_auth_paths", "ec_trace_commitment",
                   "ec_trace_commitment_hi"}, {"query_indices"}))

ConstraintChecks(v) ==
  check({"trace_values_at_queries", "quotient_decommitment", "logup_challenges"}
          \cup InteractionDecoms \cup IntermediateDecoms,
        LogUpChallenges \cup {"constraint_alphas", "query_indices"})

OodsFormula(v) ==
  check({"trace_values_at_queries", "quotient_decommitment", "oods_sampled_values",
         "oods_quotient_decommitment", "oods_z", "oods_alpha"} \cup InteractionDecoms,
        {"oods_z", "oods_alpha", "query_indices"})

DecommitAuthPaths(v) ==
  check({"quotient_decommitment", "oods_quotient_decommitment", "quotient_commitment",
         "oods_quotient_commitment"} \cup InteractionDecoms \cup IntermediateDecoms
          \cup {FriDecommitment[i] : i \in 1..FriLayers(v)}
          \cup {FriCommitment[i] : i \in 1..FriLayers(v)}, {"query_indices"})

cairo_verify(v) ==
  VersionGate(v) \o SizeGates(v) \o ZeroCommitmentGates(v) \o ProgramHash(v) \o ReplayTrace(v)
    \o ReplaySideTable(v) \o ReplaySDict(v) \o DictLinkCheck(v) \o ReplayEc(v)
    \o ReplayDictSubAir(v) \o ReplayLogUp(v) \o ReplayInteraction(v) \o ReplayBitwise(v)
    \o DictBusLink(v) \o BitwiseBusLink(v) \o ReplayMemTable(v) \o ReplayRcCounts(v)
    \o ReplayOods(v) \o ReplayFri(v)
    \o ReplayPow(v) \o FoldChecks(v) \o TraceAuthPaths(v) \o EcAuthPaths(v)
    \o ConstraintChecks(v) \o OodsFormula(v) \o DecommitAuthPaths(v)

\* verify_cairo_statement: the caller's statement, then the proof.
verify_cairo_statement(v) ==
  check({"program", "program_hash"}, {}) \o check({"run_inputs"}, {}) \o cairo_verify(v)
=============================================================================
