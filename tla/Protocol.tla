------------------------------ MODULE Protocol ------------------------------
(***************************************************************************)
(* The provers and verifiers of the repository run over a Fiat-Shamir      *)
(* channel.  A prover runs its script and leaves a proof; the proof is     *)
(* stored and read back, in which one field may come back damaged or, when *)
(* its type has a default (serde(default) or Option), lost; a verifier     *)
(* runs its script on what was read.  Damaged is any other value of what   *)
(* the verifier could read, a length another length.                       *)
(*                                                                         *)
(* The hash is taken as collision-free: a channel state is the sequence of *)
(* what was absorbed, and a challenge agrees when it is drawn from the     *)
(* state the prover drew it from.                                          *)
(***************************************************************************)
EXTENDS CairoScript, StarkScript

CONSTANTS
  Shapes,     \* the proofs to consider: a protocol and its optional parts
  Droppable   \* the fields whose type has a default

\* Every FRI folds at least once: cairo_verify refuses a log_n below 3, and
\* prove_lean_inner asserts that it is at least 4.
ASSUME ShapesAssumption ==
  \A s \in Shapes :
    /\ s \in [protocol : {"cairo", "m31", "fib252", "air252", "multi252", "cairo252"},
              dict : BOOLEAN, bitwise : BOOLEAN, ec : BOOLEAN, log_n : Nat, statement : BOOLEAN]
    /\ s.protocol = "cairo" => FriLayers(s) \in 1..MaxLayers
    /\ s.protocol = "m31" => M31FriLayers(s) \in 1..MaxLayers

\* The names that go with a number are no others.
ASSUME NamesAssumption ==
  \A i \in 0..MaxLayers :
    /\ FriAlpha[i] \notin {"z_dict_link", "alpha_dict_link", "z_dict", "alpha_dict", "z_mem",
         "alpha_mem", "z_rc", "constraint_alphas", "oods_z", "oods_alpha", "pow_prefix",
         "query_indices", "alpha", "queries", "mem_z", "mem_alpha", "rc_z"}
    /\ {FriCommitment[i], FriDecommitment[i]} \cap {"none", "damaged"} = {}

ProverScript(s) ==
  CASE s.protocol = "cairo" -> cairo_prove(s)
    [] s.protocol = "m31" -> prove_lean_inner(s)
    [] s.protocol = "fib252" -> fib_prove
    [] s.protocol = "air252" -> air_prove
    [] s.protocol = "multi252" -> prove_multi
    [] s.protocol = "cairo252" -> prove_cairo

VerifierScript(v) ==
  CASE v.protocol = "cairo" -> IF v.statement THEN verify_cairo_statement(v) ELSE cairo_verify(v)
    [] v.protocol = "m31" -> verify(v)
    [] v.protocol = "fib252" -> fib_verify
    [] v.protocol = "air252" -> verify_with_air
    [] v.protocol = "multi252" -> verify_multi
    [] v.protocol = "cairo252" -> verify_cairo

Nothing == [kind |-> "none", field |-> "none"]
Received(s, f) ==
  [protocol |-> s.protocol, dict |-> s.dict, bitwise |-> s.bitwise, ec |-> s.ec,
   log_n |-> s.log_n, statement |-> s.statement,
   lost |-> IF f.kind = "lost" THEN f.field ELSE "none"]

Fields(script) == UNION {script[i].fields : i \in {j \in DOMAIN script : script[j].op = "make"}}
Faults(s) ==
  {Nothing} \cup [kind : {"damaged"}, field : Fields(ProverScript(s))]
            \cup [kind : {"lost"}, field : Fields(ProverScript(s)) \cap Droppable]

\* Scripts are fixed: evaluated once for every shape and fault.
Proving == [s \in Shapes |-> ProverScript(s)]
Verifying == [s \in Shapes |-> [f \in Faults(s) |-> VerifierScript(Received(s, f))]]

-----------------------------------------------------------------------------
VARIABLES
  shape,    \* the proof being made
  phase,    \* "prove", "store", "verify" or "done"
  step,     \* the next step of the script that runs
  channel,  \* its channel: what was absorbed, and the draws since
  made,     \* proof fields computed
  drawn,    \* challenges of the prover with the channel each was drawn from
  fault,    \* what happened to the stored proof
  agreed,   \* challenges of the verifier that are the prover's
  verdict   \* what the verifier answered

vars == <<shape, phase, step, channel, made, drawn, fault, agreed, verdict>>

new == [state |-> <<>>, n_draws |-> 0]
\* mix_digest that does not start the draw counter again.
mix_keeping_draws(ch, item) == [ch EXCEPT !.state = Append(@, item)]
mix_digest(ch, item) == [state |-> Append(ch.state, item), n_draws |-> 0]
squeeze(ch) == [ch EXCEPT !.n_draws = @ + 1]

Init ==
  /\ shape \in Shapes
  /\ phase = "prove" /\ step = 1 /\ channel = new
  /\ made = {} /\ drawn = <<>> /\ fault = Nothing /\ agreed = {} /\ verdict = "none"

\* A field can only be computed once the challenges it uses are drawn.
Make(op) ==
  /\ op.op = "make" /\ op.uses \subseteq DOMAIN drawn
  /\ made' = made \cup op.fields /\ UNCHANGED <<channel, drawn>>
Absorb(op) ==
  /\ op.op = "mix" /\ op.field \in made
  /\ channel' = mix_digest(channel, op.field) /\ UNCHANGED <<made, drawn>>
Draw(op) ==
  /\ op.op \in {"draw", "peek"}
  /\ drawn' = [c \in DOMAIN drawn \cup {op.challenge} |->
                 IF c = op.challenge THEN channel ELSE drawn[c]]
  /\ channel' = IF op.op = "draw" THEN squeeze(channel) ELSE channel
  /\ UNCHANGED made
NewChannel(op) == op.op = "restart" /\ channel' = new /\ UNCHANGED <<made, drawn>>

Prove ==
  /\ phase = "prove"
  /\ LET script == Proving[shape]
         op == script[step]
     IN  /\ Make(op) \/ Absorb(op) \/ Draw(op) \/ NewChannel(op)
         /\ IF step = Len(script) THEN phase' = "store" /\ step' = 1
            ELSE step' = step + 1 /\ UNCHANGED phase
  /\ UNCHANGED <<shape, fault, agreed, verdict>>

\* The proof is written to a file and read by the verifier.
Store ==
  /\ phase = "store"
  /\ fault' \in Faults(shape)
  /\ phase' = "verify" /\ channel' = new
  /\ UNCHANGED <<shape, step, made, drawn, agreed, verdict>>

Intact(fields) == fault.field \notin fields

Mix(op) ==
  /\ op.op = "mix"
  /\ channel' = mix_digest(channel, IF Intact({op.field}) THEN op.field ELSE "damaged")
  /\ UNCHANGED <<agreed, verdict>>
Squeeze(op) ==
  /\ op.op \in {"draw", "peek"}
  /\ agreed' = IF op.challenge \in DOMAIN drawn /\ drawn[op.challenge] = channel
               THEN agreed \cup {op.challenge} ELSE agreed \ {op.challenge}
  /\ channel' = IF op.op = "draw" THEN squeeze(channel) ELSE channel
  /\ UNCHANGED verdict
Restart(op) == op.op = "restart" /\ channel' = new /\ UNCHANGED <<agreed, verdict>>

Holds(op) ==
  \/ op.op = "check" /\ Intact(op.fields) /\ op.challenges \subseteq agreed
  \/ op.op = "loose"
  \/ op.op = "present" /\ (fault.kind # "lost" \/ Intact(op.fields))
Fails(op) ==
  \/ op.op = "check" /\ ~(Intact(op.fields) /\ op.challenges \subseteq agreed)
  \/ op.op = "loose" /\ ~Intact(op.fields)
  \/ op.op = "present" /\ fault.kind = "lost" /\ ~Intact(op.fields)

Verify ==
  /\ phase = "verify"
  /\ LET script == Verifying[shape][fault]
         op == script[step]
     IN  \/ /\ \/ Mix(op) \/ Squeeze(op) \/ Restart(op)
               \/ Holds(op) /\ UNCHANGED <<channel, agreed, verdict>>
            /\ step' = step + 1
            /\ phase' = IF step = Len(script) THEN "done" ELSE "verify"
         \/ /\ Fails(op)
            /\ verdict' = "refused" /\ phase' = "done"
            /\ UNCHANGED <<step, channel, agreed>>
  /\ UNCHANGED <<shape, made, drawn, fault>>

Accept ==
  /\ phase = "done" /\ verdict = "none"
  /\ verdict' = "accepted"
  /\ UNCHANGED <<shape, phase, step, channel, made, drawn, fault, agreed>>

Answered == verdict # "none" /\ UNCHANGED vars

Next == Prove \/ Store \/ Verify \/ Accept \/ Answered
Spec == Init /\ [][Next]_vars

-----------------------------------------------------------------------------
\* The variables have their types.
TypeOK ==
  /\ shape \in Shapes /\ phase \in {"prove", "store", "verify", "done"} /\ step \in Nat \ {0}
  /\ channel.n_draws \in Nat /\ fault \in Faults(shape)
  /\ made \subseteq Fields(Proving[shape]) /\ agreed \subseteq DOMAIN drawn
  /\ verdict \in {"none", "accepted", "refused"}

\* A proof that comes back as it was made is accepted: prover and verifier go
\* through the same transcript in every phase, whatever optional parts it has.
HonestProofAccepted == fault = Nothing => verdict # "refused"

\* Fields that nothing is proved of: diagnostic ones, the inputs of a run when no
\* statement is given, and values no equation reads.
Unread(s) ==
  CASE s.protocol = "cairo" ->
         {"fri_start_channel_state"} \cup (IF s.statement THEN {} ELSE {"run_inputs"})
    [] s.protocol = "m31" -> {"public_inputs"}
    [] s.protocol = "cairo252" -> {"mem_access_paths"}
    [] OTHER -> {}

\* Fields whose fault goes unnoticed although a comment promises that it does not:
\* the properties below quote them.
Overlooked(s) ==
  CASE s.protocol = "cairo" -> {"program_rest", "ec_log_eval", "dict_access_pointers"}
    [] s.protocol = "air252" -> {"n_trace_decommits"}
    [] s.protocol = "cairo252" -> {"n_mem_decommits", "n_rc_decommits"}
    [] OTHER -> {}

Unbound(s) == Unread(s) \cup Overlooked(s)

\* A proof with a damaged or a lost field is refused, but for the fields that
\* nothing reads and those that the verifiers overlook.
FaultyProofRefused ==
  verdict = "accepted" => fault = Nothing \/ fault.field \in Unbound(shape)

\* "the verifier now binds the proof to the exact bytecode it claims to have run"
\* (prover.rs:3443-3447): no other program is accepted.  Its hash covers eight words.
ProgramBound == verdict = "accepted" => fault.field \notin {"program", "program_rest"}

\* The verifier has an equation over these fields.
Compared(fields) ==
  LET script == Verifying[shape][fault]
  IN  \E i \in DOMAIN script : script[i].op = "check" /\ fields \subseteq script[i].fields

\* "auth paths bind all 29 EC trace columns" (prover.rs:4176): an accepted proof with
\* an EC trace had its openings verified.  Without ec_log_eval they are skipped.
EcTraceChecked ==
  verdict = "accepted" /\ shape.ec => Compared({"ec_trace_at_queries", "ec_trace_auth_paths"})

\* "Empty dict_access_pointers => no dicts used => nothing to check" (prover.rs:3813):
\* the accesses of an accepted proof were compared with its memory.
DictBusChecked ==
  verdict = "accepted" /\ shape.dict => Compared({"dict_exec_data", "memory_table"})

\* "Per-query: Q.Z == S_next - S_cur - contrib" (logup.rs:405): an accepted proof has
\* an opening for every query.  The queries are zipped with the openings.
EveryQueryChecked ==
  verdict = "accepted" =>
    fault.field \notin {"n_trace_decommits", "n_quotient_decommits", "n_mem_decommits",
                        "n_rc_decommits"}

\* What must be in the transcript before a challenge is drawn, as the comments
\* at the draws of prover.rs, channel.rs and cairo_proof.rs say.
MustPrecede(s, c) ==
  LET trace == {"program_hash", "trace_commitment", "trace_commitment_hi", "dict_trace_commitment"}
      dicts == IF s.dict THEN {"dict_side_table_commitment", "dict_exec_commitment",
                               "dict_sorted_commitment", "dict_final_sums"} ELSE {}
      ec == IF s.ec THEN {"ec_trace_commitment", "ec_trace_commitment_hi"} ELSE {}
      logup == trace \cup dicts \cup ec
                 \cup {"dict_main_interaction_commitment", "dict_link_final"}
      tables == {"interaction_commitment", "rc_interaction_commitment", "final_sums",
                 "memory_table_commitment", "rc_counts_commitment"}
                  \cup {Intermediates[i] : i \in 1..5}
                  \cup (IF s.bitwise THEN {"bitwise_commitment"} ELSE {})
  IN  CASE c \in DictLink -> trace \cup (dicts \cap {"dict_side_table_commitment"})
        [] c \in {"z_dict", "alpha_dict"} -> dicts \ {"dict_final_sums"}
        [] c \in MemLink \cup {"z_rc"} -> logup
        [] c = "constraint_alphas" -> logup \cup tables
        [] c = "oods_z" -> logup \cup tables \cup {"quotient_commitment"}
        [] c = "oods_alpha" -> {"quotient_commitment", "oods_sampled_values"}
        [] s.protocol = "cairo" /\ c = FriAlpha[0] ->
             {"oods_sampled_values", "oods_quotient_commitment"}
        [] c = "query_indices" ->
             IF s.protocol = "cairo"
             THEN {"fri_last_layer_poly", "pow_nonce"}
                    \cup {FriCommitment[i] : i \in 1..FriLayers(s)}
             ELSE {"fri_last_layer"} \cup {FriCommitment[i] : i \in M31Layers(s)}
        [] c \in {"mem_z", "mem_alpha"} -> {"col_roots", "quotient_root", "last_layer_evals"}
        [] c = "rc_z" -> {"mem_s_root", "mem_q_root", "mem_last_layer_evals"}
        [] c = "queries" ->
             IF s.protocol = "fib252" THEN {"trace_root", "quotient_root", "q_a", "q_b"}
             ELSE {"quotient_root", "inner_root", "last_layer_evals"}
        [] OTHER -> {}

\* No challenge is drawn before the commitments it is meant to bind are in.
ChallengesBound ==
  \A c \in DOMAIN drawn :
    \A f \in MustPrecede(shape, c) : \E i \in DOMAIN drawn[c].state : drawn[c].state[i] = f
=============================================================================
