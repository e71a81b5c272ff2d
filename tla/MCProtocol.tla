----------------------------- MODULE MCProtocol -----------------------------
(* Every combination of the optional parts of a Cairo proof, two sizes, and *)
(* the other provers once each.                                             *)
EXTENDS Protocol, TLC

Shape(p, dict, bitwise, ec, log_n, statement) ==
  [protocol |-> p, dict |-> dict, bitwise |-> bitwise, ec |-> ec, log_n |-> log_n,
   statement |-> statement]
Plain(p, log_n) == Shape(p, FALSE, FALSE, FALSE, log_n, FALSE)

MCFriAlpha == [i \in 0..MaxLayers |-> "fri_alpha_" \o ToString(i)]
MCFriCommitment == [i \in 0..MaxLayers |-> "fri_commitment_" \o ToString(i)]
MCFriDecommitment == [i \in 0..MaxLayers |-> "fri_decommitment_" \o ToString(i)]

MCShapes ==
  {Shape("cairo", d, b, FALSE, 3, FALSE) : d \in BOOLEAN, b \in BOOLEAN}
    \cup {Shape("cairo", TRUE, TRUE, FALSE, 4, FALSE), Shape("cairo", FALSE, FALSE, TRUE, 3, FALSE),
          Shape("cairo", FALSE, FALSE, FALSE, 3, TRUE)}
    \cup {Plain("m31", 4)} \cup {Plain(p, 2) : p \in {"fib252", "air252", "multi252", "cairo252"}}

\* A proof for a statement, for ProgramBound.
MCProgramShapes == {Shape("cairo", FALSE, FALSE, FALSE, 3, TRUE)}

MCDroppable ==
  {"version", "dict_side_table", "dict_side_table_commitment", "oods_quotient_commitment",
   "oods_quotient_decommitment", "fri_start_channel_state", "fri_last_layer_poly",
   "dict_access_pointers", "oods_z", "oods_alpha", "oods_sampled_values",
   "dict_exec_commitment", "dict_sorted_commitment", "dict_final_sums", "bitwise_commitment",
   "ec_trace_commitment", "ec_trace_commitment_hi", "ec_log_eval"}
    \cup {Intermediates[i] : i \in 1..5} \cup IntermediateDecoms
=============================================================================
