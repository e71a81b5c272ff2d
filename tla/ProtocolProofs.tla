--------------------------- MODULE ProtocolProofs ---------------------------
(***************************************************************************)
(* The protocols of the repository, for every shape: any set of statements *)
(* and trace sizes, so any number of FRI layers.  Each prover is built up  *)
(* section by section, with the challenges it draws and the fields it      *)
(* absorbs and sends; each verifier with the challenges it draws and the   *)
(* fields it absorbs, reads and uses.  What the two lists say of a pair is *)
(* Paired, and from it follows the invariant that the theorems at the end  *)
(* of the module rest on.                                                  *)
(***************************************************************************)
EXTENDS ScriptProofs

-----------------------------------------------------------------------------
\* The Cairo prover, section by section.

Trace == {"program_hash", "trace_commitment", "trace_commitment_hi", "dict_trace_commitment"}
Dicts(s) == IF s.dict THEN {"dict_side_table_commitment", "dict_exec_commitment",
                            "dict_sorted_commitment", "dict_final_sums"} ELSE {}
EcTraces(s) == IF s.ec THEN {"ec_trace_commitment", "ec_trace_commitment_hi"} ELSE {}
LogUp(s) == Trace \cup Dicts(s) \cup EcTraces(s)
              \cup {"dict_main_interaction_commitment", "dict_link_final"}
Tables(s) == {"interaction_commitment", "rc_interaction_commitment", "final_sums",
              "memory_table_commitment", "rc_counts_commitment"}
               \cup {"logup_t1", "logup_t2", "logup_t3", "rc_u1", "rc_u2"}
               \cup (IF s.bitwise THEN {"bitwise_commitment"} ELSE {})

LEMMA IntermediateNames ==
  /\ Intermediates[1] = "logup_t1" /\ Intermediates[2] = "logup_t2" /\ Intermediates[3] = "logup_t3"
  /\ Intermediates[4] = "rc_u1" /\ Intermediates[5] = "rc_u2"
  /\ {Intermediates[i] : i \in 1 .. 5} = {"logup_t1", "logup_t2", "logup_t3", "rc_u1", "rc_u2"}
<1>1. /\ Intermediates[1] = "logup_t1" /\ Intermediates[2] = "logup_t2" /\ Intermediates[3] = "logup_t3"
      /\ Intermediates[4] = "rc_u1" /\ Intermediates[5] = "rc_u2"
  BY DEF Intermediates
<1>2. 1 .. 5 = {1, 2, 3, 4, 5}
  OBVIOUS
<1> QED BY <1>1, <1>2

\* MustPrecede of the challenges of a Cairo proof.
LEMMA CairoPrecedence ==
  ASSUME NEW s, s.protocol = "cairo", 0 \in 0 .. MaxLayers
  PROVE  /\ \A c \in DictLink :
              MustPrecede(s, c) = Trace \cup (Dicts(s) \cap {"dict_side_table_commitment"})
         /\ \A c \in {"z_dict", "alpha_dict"} : MustPrecede(s, c) = Dicts(s) \ {"dict_final_sums"}
         /\ \A c \in MemLink \cup {"z_rc"} : MustPrecede(s, c) = LogUp(s)
         /\ MustPrecede(s, "constraint_alphas") = LogUp(s) \cup Tables(s)
         /\ MustPrecede(s, "oods_z") = LogUp(s) \cup Tables(s) \cup {"quotient_commitment"}
         /\ MustPrecede(s, "oods_alpha") = {"quotient_commitment", "oods_sampled_values"}
         /\ MustPrecede(s, FriAlpha[0]) = {"oods_sampled_values", "oods_quotient_commitment"}
         /\ \A i \in 1 .. MaxLayers : MustPrecede(s, FriAlpha[i]) = {}
         /\ MustPrecede(s, "pow_prefix") = {}
         /\ MustPrecede(s, "query_indices") =
              {"fri_last_layer_poly", "pow_nonce"} \cup {FriCommitment[i] : i \in 1 .. FriLayers(s)}
<1> DEFINE Fixed == DictLink \cup {"z_dict", "alpha_dict"} \cup MemLink
                      \cup {"z_rc", "constraint_alphas", "oods_z", "oods_alpha", "pow_prefix",
                            "query_indices", "mem_z", "mem_alpha", "rc_z", "queries"}
<1>1. \A i \in 0 .. MaxLayers : FriAlpha[i] \notin Fixed
  BY NamesAssumption DEF DictLink, MemLink
<1>2. FriAlpha[0] \notin Fixed
  BY <1>1
<1>3. \A c \in DictLink : MustPrecede(s, c) = Trace \cup (Dicts(s) \cap {"dict_side_table_commitment"})
  BY <1>2 DEF MustPrecede, DictLink, MemLink, Trace, Dicts
<1>4. \A c \in {"z_dict", "alpha_dict"} : MustPrecede(s, c) = Dicts(s) \ {"dict_final_sums"}
  BY <1>2 DEF MustPrecede, DictLink, MemLink, Trace, Dicts
<1>5. \A c \in MemLink \cup {"z_rc"} : MustPrecede(s, c) = LogUp(s)
  BY <1>2 DEF MustPrecede, DictLink, MemLink, Trace, Dicts, EcTraces, LogUp
<1>6. MustPrecede(s, "constraint_alphas") = LogUp(s) \cup Tables(s)
  BY <1>2, IntermediateNames DEF MustPrecede, DictLink, MemLink, Trace, Dicts, EcTraces, LogUp, Tables
<1>7. MustPrecede(s, "oods_z") = LogUp(s) \cup Tables(s) \cup {"quotient_commitment"}
  BY <1>2, IntermediateNames DEF MustPrecede, DictLink, MemLink, Trace, Dicts, EcTraces, LogUp, Tables
<1>8. MustPrecede(s, "oods_alpha") = {"quotient_commitment", "oods_sampled_values"}
  BY <1>2 DEF MustPrecede, DictLink, MemLink
<1>9. MustPrecede(s, FriAlpha[0]) = {"oods_sampled_values", "oods_quotient_commitment"}
  BY <1>2 DEF MustPrecede
<1>10. ASSUME NEW i \in 1 .. MaxLayers PROVE MustPrecede(s, FriAlpha[i]) = {}
  <2>1. i \in 0 .. MaxLayers /\ FriAlpha[i] # FriAlpha[0]
    BY LayersAssumption
  <2> QED BY <1>1, <2>1 DEF MustPrecede
<1>11. MustPrecede(s, "pow_prefix") = {}
  BY <1>2 DEF MustPrecede, DictLink, MemLink
<1>12. MustPrecede(s, "query_indices") =
              {"fri_last_layer_poly", "pow_nonce"} \cup {FriCommitment[i] : i \in 1 .. FriLayers(s)}
  BY <1>2 DEF MustPrecede, DictLink, MemLink
<1> QED BY <1>3, <1>4, <1>5, <1>6, <1>7, <1>8, <1>9, <1>10, <1>11, <1>12

\* A section of one or two steps is what its steps are, by the tables.
LEMMA CommitSections ==
  ASSUME NEW s
  PROVE  /\ Section(PublicInputs(s), {}, {"program_hash"},
                    {"program", "program_rest", "run_inputs", "version", "program_hash"})
         /\ Section(NttBlindCommit(s), {}, Trace \ {"program_hash"}, Trace \ {"program_hash"})
         /\ Section(SideTable(s), {}, Dicts(s) \cap {"dict_side_table_commitment"},
                    IF s.dict THEN {"dict_side_table", "dict_access_pointers",
                                    "dict_side_table_commitment"}
                    ELSE {})
         /\ Section(SDictInteraction(s), DictLink,
                    {"dict_main_interaction_commitment", "dict_link_final"},
                    {"dict_main_interaction_commitment", "dict_link_final"})
         /\ Section(EcTrace(s), {}, EcTraces(s), EcTraces(s)
                    \cup (IF s.ec THEN {"ec_log_eval"} ELSE {}))
<1> USE DEF Section
<1>1. Section(PublicInputs(s), {}, {"program_hash"},
              {"program", "program_rest", "run_inputs", "version", "program_hash"})
  BY ScriptTable, RestartTable, DistinctTable, DrawsTable, AbsorbsTable, MakesTable DEF PublicInputs
<1>2. Section(NttBlindCommit(s), {}, Trace \ {"program_hash"}, Trace \ {"program_hash"})
  BY ScriptTable, RestartTable, DistinctTable, DrawsTable, AbsorbsTable, MakesTable
     DEF NttBlindCommit, Trace
<1>3. ASSUME s.dict
      PROVE  Section(SideTable(s), {}, {"dict_side_table_commitment"},
                     {"dict_side_table", "dict_access_pointers", "dict_side_table_commitment"})
  BY <1>3, ScriptTable, RestartTable, DistinctTable, DrawsTable, AbsorbsTable, MakesTable
     DEF SideTable, when
<1>4. ~ s.dict => Section(SideTable(s), {}, {}, {})
  BY ScriptTable, RestartTable, DistinctTable, DrawsTable, AbsorbsTable, MakesTable DEF SideTable, when
<1>5. Section(SDictInteraction(s), DictLink, {"dict_main_interaction_commitment", "dict_link_final"},
              {"dict_main_interaction_commitment", "dict_link_final"})
  BY ScriptTable, RestartTable, DistinctTable, DrawsTable, AbsorbsTable, MakesTable
     DEF SDictInteraction, DictLink
<1>6. ASSUME s.ec PROVE Section(EcTrace(s), {}, EcTraces(s), EcTraces(s) \cup {"ec_log_eval"})
  BY <1>6, ScriptTable, RestartTable, DistinctTable, DrawsTable, AbsorbsTable, MakesTable
     DEF EcTrace, EcTraces, when
<1>7. ~ s.ec => Section(EcTrace(s), {}, {}, {})
  BY ScriptTable, RestartTable, DistinctTable, DrawsTable, AbsorbsTable, MakesTable DEF EcTrace, when
<1> QED BY <1>1, <1>2, <1>3, <1>4, <1>5, <1>6, <1>7 DEF Dicts, EcTraces

\* A FRI that draws its first challenge and one after each commitment.
Layer(i) == commit(FriCommitment[i], {FriAlpha[i - 1]}) \o draw(FriAlpha[i])
Layers(n) == draw(FriAlpha[0]) \o rounds(n, [i \in 1 .. n |-> Layer(i)])

LEMMA LayersSection ==
  ASSUME NEW s, NEW n \in 1 .. MaxLayers, \A i \in 1 .. MaxLayers : MustPrecede(s, FriAlpha[i]) = {}
  PROVE  /\ Section(Layers(n), {FriAlpha[i] : i \in 0 .. n}, {FriCommitment[i] : i \in 1 .. n},
                    {FriCommitment[i] : i \in 1 .. n})
         /\ \A B : MustPrecede(s, FriAlpha[0]) \subseteq B => Bound(Layers(n), s, B)
<1> DEFINE layer == [i \in 1 .. n |-> Layer(i)]
           L == rounds(n, layer)
           X == draw(FriAlpha[0])
<1>0. n \in Nat /\ 0 \in 0 .. n /\ 0 \in 0 .. MaxLayers /\ \A i \in 1 .. n : i \in 0 .. MaxLayers
  BY LayersAssumption
<1>1. Layers(n) = X \o L
  BY DEF Layers
<1>2. ASSUME NEW i \in 1 .. n
      PROVE  /\ IsScript(layer[i]) /\ ~ Restarts(layer[i]) /\ Distinct(layer[i])
             /\ Draws(layer[i]) = {FriAlpha[i]} /\ Absorbs(layer[i]) = {FriCommitment[i]}
             /\ Makes(layer[i]) = {FriCommitment[i]}
  <2>1. layer[i] = commit(FriCommitment[i], {FriAlpha[i - 1]}) \o draw(FriAlpha[i])
    BY DEF Layer
  <2> HIDE DEF layer
  <2> QED BY <2>1, ScriptTable, RestartTable, DistinctTable, DrawsTable, AbsorbsTable, MakesTable
<1>3. /\ IsScript(L) /\ ~ Restarts(L)
      /\ Draws(L) = UNION {Draws(layer[i]) : i \in 1 .. n}
      /\ Absorbs(L) = UNION {Absorbs(layer[i]) : i \in 1 .. n}
      /\ Makes(L) = UNION {Makes(layer[i]) : i \in 1 .. n}
  <2> HIDE DEF layer
  <2> QED BY <1>0, <1>2, RoundsSets
<1>4. /\ Draws(L) = {FriAlpha[i] : i \in 1 .. n}
      /\ Absorbs(L) = {FriCommitment[i] : i \in 1 .. n}
      /\ Makes(L) = {FriCommitment[i] : i \in 1 .. n}
  <2> HIDE DEF layer, L
  <2>1. \A x : x \in Draws(L) <=> \E i \in 1 .. n : x \in Draws(layer[i])
    BY <1>3
  <2>2. \A x : x \in Absorbs(L) <=> \E i \in 1 .. n : x \in Absorbs(layer[i])
    BY <1>3
  <2>3. \A x : x \in Makes(L) <=> \E i \in 1 .. n : x \in Makes(layer[i])
    BY <1>3
  <2>4. Draws(L) = {FriAlpha[i] : i \in 1 .. n}
    <3>1. \A i \in 1 .. n : Draws(layer[i]) = {FriAlpha[i]}
      BY <1>2
    <3>2. \A x : x \in Draws(L) <=> \E i \in 1 .. n : x = FriAlpha[i]
      BY <2>1, <3>1
    <3> QED BY <3>2
  <2>5. Absorbs(L) = {FriCommitment[i] : i \in 1 .. n}
    BY <1>2, <2>2
  <2>6. Makes(L) = {FriCommitment[i] : i \in 1 .. n}
    BY <1>2, <2>3
  <2> QED BY <2>4, <2>5, <2>6
<1>5. (\A B : Bound(L, s, B)) /\ Distinct(L)
  <2>1. \A i \in 1 .. n : \A j \in 1 .. i - 1 : Draws(layer[i]) \cap Draws(layer[j]) = {}
    <3> SUFFICES ASSUME NEW i \in 1 .. n, NEW j \in 1 .. i - 1
                 PROVE  Draws(layer[i]) \cap Draws(layer[j]) = {}
      OBVIOUS
    <3>1. i # j /\ j \in 1 .. n /\ i \in 0 .. MaxLayers /\ j \in 0 .. MaxLayers
      BY LayersAssumption
    <3>2. FriAlpha[i] # FriAlpha[j]
      BY <3>1, LayersAssumption
    <3> HIDE DEF layer
    <3> QED BY <1>2, <3>1, <3>2
  <2>2. ASSUME NEW i \in 1 .. n, NEW B PROVE Bound(layer[i], s, B)
    <3>1. MustPrecede(s, FriAlpha[i]) = {}
      BY <1>0
    <3>2. layer[i] = commit(FriCommitment[i], {FriAlpha[i - 1]}) \o draw(FriAlpha[i])
      BY DEF Layer
    <3> HIDE DEF layer
    <3> QED BY <3>1, <3>2, ScriptTable, BoundTable
  <2> HIDE DEF layer, L
  <2>3. \A i \in 1 .. n :
          /\ IsScript(layer[i]) /\ ~ Restarts(layer[i]) /\ Distinct(layer[i])
          /\ \A B : Bound(layer[i], s, B)
          /\ \A j \in 1 .. i - 1 : Draws(layer[i]) \cap Draws(layer[j]) = {}
    BY <1>2, <2>1, <2>2
  <2> QED BY <1>0, <2>3, RoundsOrders DEF L
<1>6. {FriAlpha[0]} \cap Draws(L) = {}
  <2> HIDE DEF layer, L
  <2>1. \A i \in 1 .. n : FriAlpha[i] # FriAlpha[0]
    BY <1>0, LayersAssumption
  <2> QED BY <1>4, <2>1
<1> HIDE DEF L
<1>7. Section(X \o L, {FriAlpha[i] : i \in 0 .. n}, {FriCommitment[i] : i \in 1 .. n},
              {FriCommitment[i] : i \in 1 .. n})
  <2>1. Section(X, {FriAlpha[0]}, {}, {})
    BY ScriptTable, RestartTable, DistinctTable, DrawsTable, AbsorbsTable, MakesTable DEF Section
  <2>2. Section(L, {FriAlpha[i] : i \in 1 .. n}, {FriCommitment[i] : i \in 1 .. n},
                {FriCommitment[i] : i \in 1 .. n})
    BY <1>3, <1>4, <1>5 DEF Section
  <2>3. {FriAlpha[0]} \cup {FriAlpha[i] : i \in 1 .. n} = {FriAlpha[i] : i \in 0 .. n}
    <3>1. \A i : i \in 0 .. n <=> i = 0 \/ i \in 1 .. n
      BY <1>0
    <3> QED BY <3>1
  <2> HIDE DEF X
  <2>4. Section(X \o L, {FriAlpha[0]} \cup {FriAlpha[i] : i \in 1 .. n},
                {} \cup {FriCommitment[i] : i \in 1 .. n}, {} \cup {FriCommitment[i] : i \in 1 .. n})
    BY <1>4, <1>6, <2>1, <2>2, SectionsJoin
  <2> QED BY <2>3, <2>4
<1>8. ASSUME NEW B, MustPrecede(s, FriAlpha[0]) \subseteq B PROVE Bound(Layers(n), s, B)
  <2>1. Bound(X, s, B) /\ IsScript(X)
    BY <1>8, ScriptTable, BoundTable
  <2>2. Bound(L, s, B \cup Absorbs(X))
    BY <1>5
  <2> HIDE DEF X
  <2> QED BY <1>1, <1>3, <2>1, <2>2, BoundsJoin
<1> QED BY <1>1, <1>7, <1>8

LEMMA FriSection ==
  ASSUME NEW s, s.protocol = "cairo", NEW n \in 1 .. MaxLayers, FriLayers(s) = n
  PROVE  /\ Section(Fri(s), {FriAlpha[i] : i \in 0 .. n} \cup {},
                    {FriCommitment[i] : i \in 1 .. n} \cup {"fri_last_layer_poly"},
                    {FriCommitment[i] : i \in 1 .. n} \cup {"fri_last_layer", "fri_last_layer_poly"})
         /\ \A B : MustPrecede(s, FriAlpha[0]) \subseteq B => Bound(Fri(s), s, B)
<1> DEFINE X == Layers(n)
           Y == make({"fri_last_layer"}, {FriAlpha[n]})
           Z == commit("fri_last_layer_poly", {FriAlpha[n]})
<1>1. Fri(s) = X \o Y \o Z
  BY DEF Fri, Layers, Layer
<1>2. /\ Section(X, {FriAlpha[i] : i \in 0 .. n}, {FriCommitment[i] : i \in 1 .. n},
                 {FriCommitment[i] : i \in 1 .. n})
      /\ \A B : MustPrecede(s, FriAlpha[0]) \subseteq B => Bound(X, s, B)
  <2>1. \A i \in 1 .. MaxLayers : MustPrecede(s, FriAlpha[i]) = {}
    <3>1. 0 \in 0 .. MaxLayers
      BY LayersAssumption
    <3> QED BY <3>1, CairoPrecedence
  <2> QED BY <2>1, LayersSection
<1>3. IsScript(X) /\ IsScript(Y) /\ IsScript(Z)
  BY <1>2, ScriptTable DEF Section
<1>4. Section(Y \o Z, {}, {"fri_last_layer_poly"}, {"fri_last_layer", "fri_last_layer_poly"})
  BY ScriptTable, RestartTable, DistinctTable, DrawsTable, AbsorbsTable, MakesTable DEF Section
<1> HIDE DEF X, Y, Z
<1>5. Fri(s) = X \o (Y \o Z)
  <2>1. X \o Y \o Z = X \o (Y \o Z)
    BY ONLY <1>3, Regroup
  <2> QED BY ONLY <1>1, <2>1
<1>6. ASSUME NEW B, MustPrecede(s, FriAlpha[0]) \subseteq B PROVE Bound(Fri(s), s, B)
  <2>1. Bound(X, s, B) /\ Bound(Y \o Z, s, B \cup Absorbs(X)) /\ IsScript(Y \o Z)
    BY <1>2, <1>4, <1>6, NoDraws DEF Section
  <2> QED BY <1>3, <1>5, <2>1, BoundsJoin
<1>7. {FriAlpha[i] : i \in 0 .. n} \cap {} = {}
  OBVIOUS
<1> DEFINE W == Y \o Z
<1>8. Section(W, {}, {"fri_last_layer_poly"}, {"fri_last_layer", "fri_last_layer_poly"})
  BY <1>4
<1> HIDE DEF W
<1>9. Section(X \o W, {FriAlpha[i] : i \in 0 .. n} \cup {},
              {FriCommitment[i] : i \in 1 .. n} \cup {"fri_last_layer_poly"},
              {FriCommitment[i] : i \in 1 .. n} \cup {"fri_last_layer", "fri_last_layer_poly"})
  BY <1>2, <1>7, <1>8, SectionsJoin
<1> QED BY <1>5, <1>6, <1>9 DEF W

LEMMA DictSection ==
  ASSUME NEW s, s.protocol = "cairo", 0 \in 0 .. MaxLayers
  PROVE  /\ Section(DictSubAir(s), IF s.dict THEN {"z_dict", "alpha_dict"} ELSE {},
                    Dicts(s) \ {"dict_side_table_commitment"},
                    (IF s.dict THEN {"dict_exec_data", "dict_sorted_data", "dict_n_accesses"} ELSE {})
                      \cup (Dicts(s) \ {"dict_side_table_commitment"}))
         /\ \A B : (s.dict => "dict_side_table_commitment" \in B) => Bound(DictSubAir(s), s, B)
<1>1. ASSUME s.dict
      PROVE  Section(DictSubAir(s), {"z_dict", "alpha_dict"}, Dicts(s) \ {"dict_side_table_commitment"},
                     {"dict_exec_data", "dict_sorted_data", "dict_n_accesses"}
                       \cup (Dicts(s) \ {"dict_side_table_commitment"}))
  <2> DEFINE X == make({"dict_exec_data", "dict_sorted_data", "dict_n_accesses"}, {})
                    \o commit("dict_exec_commitment", {}) \o commit("dict_sorted_commitment", {})
             Y == draw("z_dict") \o draw("alpha_dict")
                  \o commit("dict_final_sums", {"z_dict", "alpha_dict"})
  <2>1. Section(X, {}, {"dict_exec_commitment", "dict_sorted_commitment"},
                {"dict_exec_data", "dict_sorted_data", "dict_n_accesses", "dict_exec_commitment",
                 "dict_sorted_commitment"})
    BY ScriptTable, RestartTable, DistinctTable, DrawsTable, AbsorbsTable, MakesTable DEF Section
  <2>2. Section(Y, {"z_dict", "alpha_dict"}, {"dict_final_sums"}, {"dict_final_sums"})
    BY ScriptTable, RestartTable, DistinctTable, DrawsTable, AbsorbsTable, MakesTable DEF Section
  <2>3. DictSubAir(s) = X \o Y
    <3> DEFINE a == draw("z_dict")
               b == draw("alpha_dict")
               c == commit("dict_final_sums", {"z_dict", "alpha_dict"})
    <3>1. IsScript(X) /\ IsScript(a) /\ IsScript(b) /\ IsScript(c)
      BY <2>1, ScriptTable DEF Section
    <3>2. DictSubAir(s) = X \o a \o b \o c /\ Y = a \o b \o c
      BY <1>1 DEF DictSubAir, when
    <3> HIDE DEF X, Y, a, b, c
    <3>3. X \o a \o b = X \o (a \o b) /\ IsScript(a \o b)
      BY <3>1, Regroup, Joins
    <3> DEFINE d == a \o b
    <3> HIDE DEF d
    <3>4. (X \o d) \o c = X \o (d \o c)
      BY <3>1, <3>3, Regroup DEF d
    <3> QED BY <3>2, <3>3, <3>4 DEF d
  <2> HIDE DEF X, Y
  <2> QED BY <1>1, <2>1, <2>2, <2>3, SectionsJoin DEF Dicts
<1>2. ~ s.dict => Section(DictSubAir(s), {}, {}, {})
  BY ScriptTable, RestartTable, DistinctTable, DrawsTable, AbsorbsTable, MakesTable
     DEF Section, DictSubAir, when
<1>3. ASSUME NEW B, s.dict => "dict_side_table_commitment" \in B PROVE Bound(DictSubAir(s), s, B)
  <2>1. CASE ~ s.dict
    BY <2>1, BoundTable DEF DictSubAir, when
  <2>2. CASE s.dict
    <3> DEFINE X == make({"dict_exec_data", "dict_sorted_data", "dict_n_accesses"}, {})
                      \o commit("dict_exec_commitment", {}) \o commit("dict_sorted_commitment", {})
               Y == draw("z_dict")
               Z == draw("alpha_dict")
               C == commit("dict_final_sums", {"z_dict", "alpha_dict"})
    <3>1. DictSubAir(s) = X \o Y \o Z \o C
      BY <2>2 DEF DictSubAir, when
    <3>2. IsScript(X) /\ Absorbs(X) = {"dict_exec_commitment", "dict_sorted_commitment"}
            /\ Bound(X, s, B)
      <4>1. IsScript(X)
        BY ScriptTable
      <4>2. Absorbs(X) = {"dict_exec_commitment", "dict_sorted_commitment"}
        BY ScriptTable, AbsorbsTable
      <4>3. Bound(X, s, B)
        BY ScriptTable, BoundTable
      <4> QED BY <4>1, <4>2, <4>3
    <3>3. \A c \in {"z_dict", "alpha_dict"} : MustPrecede(s, c) \subseteq B \cup Absorbs(X)
      BY <1>3, <2>2, <3>2, CairoPrecedence DEF Dicts
    <3> HIDE DEF X
    <3>4. Bound(X \o Y, s, B) /\ IsScript(X \o Y) /\ Absorbs(X \o Y) = Absorbs(X)
      <4>1. IsScript(X \o Y) /\ Bound(X \o Y, s, B)
        BY <3>2, <3>3, ScriptTable, BoundTable
      <4>2. Absorbs(X \o Y) = Absorbs(X)
        BY <3>2, ScriptTable, AbsorbsTable
      <4> QED BY <4>1, <4>2
    <3>5. Bound(X \o Y \o Z, s, B) /\ IsScript(X \o Y \o Z)
      BY <3>3, <3>4, ScriptTable, BoundTable
    <3> QED BY <3>1, <3>5, ScriptTable, BoundTable
  <2> QED BY <2>1, <2>2
<1> QED BY <1>1, <1>2, <1>3 DEF Dicts

LEMMA LogUpSections ==
  ASSUME NEW s
  PROVE  /\ Section(DrawLogUp(s), MemLink \cup {"z_rc"}, {}, {})
         /\ Section(CommitInteraction(s), {}, {"interaction_commitment", "rc_interaction_commitment"},
                    {"interaction_commitment", "rc_interaction_commitment"})
         /\ Section(CommitIntermediates(s), {}, {"logup_t1", "logup_t2", "logup_t3", "rc_u1", "rc_u2"},
                    {"logup_t1", "logup_t2", "logup_t3", "rc_u1", "rc_u2"})
         /\ Section(FinalSums(s), {}, {"final_sums"}, {"final_sums"})
         /\ Section(BitwiseCommit(s), {}, IF s.bitwise THEN {"bitwise_commitment"} ELSE {},
                    IF s.bitwise THEN {"bitwise_rows", "bitwise_commitment"} ELSE {})
         /\ Section(MemTableCommit(s), {}, {"memory_table_commitment"},
                    {"memory_table", "memory_table_commitment"})
         /\ Section(RcCountsCommit(s), {}, {"rc_counts_commitment"},
                    {"rc_counts", "rc_counts_commitment"})
<1> USE DEF Section
<1>1. Section(DrawLogUp(s), MemLink \cup {"z_rc"}, {}, {})
  BY ScriptTable, RestartTable, DistinctTable, DrawsTable, AbsorbsTable, MakesTable
     DEF DrawLogUp, MemLink
<1>2. Section(CommitInteraction(s), {}, {"interaction_commitment", "rc_interaction_commitment"},
              {"interaction_commitment", "rc_interaction_commitment"})
  BY ScriptTable, RestartTable, DistinctTable, DrawsTable, AbsorbsTable, MakesTable
     DEF CommitInteraction
<1>3. Section(CommitIntermediates(s), {}, {"logup_t1", "logup_t2", "logup_t3", "rc_u1", "rc_u2"},
              {"logup_t1", "logup_t2", "logup_t3", "rc_u1", "rc_u2"})
  BY IntermediateNames, ScriptTable, RestartTable, DistinctTable, DrawsTable, AbsorbsTable, MakesTable
     DEF CommitIntermediates
<1>4. Section(FinalSums(s), {}, {"final_sums"}, {"final_sums"})
  BY ScriptTable, RestartTable, DistinctTable, DrawsTable, AbsorbsTable, MakesTable DEF FinalSums
<1>5. ASSUME s.bitwise
      PROVE  Section(BitwiseCommit(s), {}, {"bitwise_commitment"},
                     {"bitwise_rows", "bitwise_commitment"})
  BY <1>5, ScriptTable, RestartTable, DistinctTable, DrawsTable, AbsorbsTable, MakesTable
     DEF BitwiseCommit, when
<1>6. ~ s.bitwise => Section(BitwiseCommit(s), {}, {}, {})
  BY ScriptTable, RestartTable, DistinctTable, DrawsTable, AbsorbsTable, MakesTable
     DEF BitwiseCommit, when
<1>7. Section(MemTableCommit(s), {}, {"memory_table_commitment"},
              {"memory_table", "memory_table_commitment"})
  BY ScriptTable, RestartTable, DistinctTable, DrawsTable, AbsorbsTable, MakesTable DEF MemTableCommit
<1>8. Section(RcCountsCommit(s), {}, {"rc_counts_commitment"}, {"rc_counts", "rc_counts_commitment"})
  BY ScriptTable, RestartTable, DistinctTable, DrawsTable, AbsorbsTable, MakesTable DEF RcCountsCommit
<1> QED BY <1>1, <1>2, <1>3, <1>4, <1>5, <1>6, <1>7, <1>8

LEMMA QuotientSections ==
  ASSUME NEW s, s.protocol = "cairo", 0 \in 0 .. MaxLayers
  PROVE  /\ Section(Quotient(s), {"constraint_alphas"}, {"quotient_commitment"},
                    {"logup_challenges", "quotient_commitment"})
         /\ Section(OodsSample(s), {"oods_z", "oods_alpha"}, {"oods_sampled_values"},
                    {"oods_z", "oods_sampled_values", "oods_alpha"})
         /\ Section(OodsQuotient(s), {}, {"oods_quotient_commitment"},
                    {"fri_start_channel_state", "oods_quotient_commitment"})
         /\ \A B : LogUp(s) \cup Tables(s) \subseteq B => Bound(Quotient(s), s, B)
         /\ \A B : LogUp(s) \cup Tables(s) \cup {"quotient_commitment"} \subseteq B
              => Bound(OodsSample(s), s, B)
         /\ \A B : Bound(OodsQuotient(s), s, B)
<1>1. Section(Quotient(s), {"constraint_alphas"}, {"quotient_commitment"},
              {"logup_challenges", "quotient_commitment"})
  BY ScriptTable, RestartTable, DistinctTable, DrawsTable, AbsorbsTable, MakesTable
     DEF Section, Quotient
<1>2. Section(OodsSample(s), {"oods_z", "oods_alpha"}, {"oods_sampled_values"},
              {"oods_z", "oods_sampled_values", "oods_alpha"})
  BY ScriptTable, RestartTable, DistinctTable, DrawsTable, AbsorbsTable, MakesTable
     DEF Section, OodsSample
<1>3. Section(OodsQuotient(s), {}, {"oods_quotient_commitment"},
              {"fri_start_channel_state", "oods_quotient_commitment"})
  BY ScriptTable, RestartTable, DistinctTable, DrawsTable, AbsorbsTable, MakesTable
     DEF Section, OodsQuotient
<1>4. ASSUME NEW B, LogUp(s) \cup Tables(s) \subseteq B PROVE Bound(Quotient(s), s, B)
  <2>1. MustPrecede(s, "constraint_alphas") \subseteq B
    BY <1>4, CairoPrecedence
  <2> QED BY <2>1, ScriptTable, BoundTable DEF Quotient
<1>5. ASSUME NEW B, LogUp(s) \cup Tables(s) \cup {"quotient_commitment"} \subseteq B
      PROVE  Bound(OodsSample(s), s, B)
  <2> DEFINE X == draw("oods_z") \o make({"oods_z"}, {"oods_z"})
                  \o commit("oods_sampled_values", {"oods_z"})
             Y == draw("oods_alpha")
             Z == make({"oods_alpha"}, {"oods_alpha"})
  <2>1. MustPrecede(s, "oods_z") \subseteq B
    BY <1>5, CairoPrecedence
  <2>2. IsScript(X) /\ Absorbs(X) = {"oods_sampled_values"} /\ Bound(X, s, B)
    <3>1. IsScript(X)
      BY ScriptTable
    <3>2. Absorbs(X) = {"oods_sampled_values"}
      BY ScriptTable, AbsorbsTable
    <3>3. Bound(X, s, B)
      BY <2>1, ScriptTable, BoundTable
    <3> QED BY <3>1, <3>2, <3>3
  <2>3. MustPrecede(s, "oods_alpha") \subseteq B \cup Absorbs(X)
    BY <1>5, <2>2, CairoPrecedence
  <2>4. OodsSample(s) = X \o Y \o Z
    BY DEF OodsSample
  <2> HIDE DEF X
  <2>5. IsScript(X \o Y) /\ Bound(X \o Y, s, B)
    BY <2>2, <2>3, ScriptTable, BoundTable
  <2> QED BY <2>4, <2>5, ScriptTable, BoundTable
<1>6. \A B : Bound(OodsQuotient(s), s, B)
  BY ScriptTable, BoundTable DEF OodsQuotient
<1> QED BY <1>1, <1>2, <1>3, <1>4, <1>5, <1>6

LEMMA QuerySections ==
  ASSUME NEW s, s.protocol = "cairo", 0 \in 0 .. MaxLayers
  PROVE  /\ Section(PowGrind(s), {"pow_prefix", "query_indices"}, {"pow_nonce"},
                    {"pow_nonce", "query_indices"})
         /\ Section(TraceDecommit(s), {}, {}, {"trace_values_at_queries", "trace_auth_paths"})
         /\ Section(EcDecommit(s), {}, {}, IF s.ec
                    THEN {"ec_trace_at_queries", "ec_trace_auth_paths"} ELSE {})
         /\ Section(Decommit(s), {}, {}, {"quotient_decommitment", "oods_quotient_decommitment"}
                    \cup InteractionDecoms \cup IntermediateDecoms
                    \cup {FriDecommitment[i] : i \in 1 .. FriLayers(s)})
         /\ \A B : {"fri_last_layer_poly"} \cup {FriCommitment[i] : i \in 1 .. FriLayers(s)} \subseteq B
                      => Bound(PowGrind(s), s, B)
<1>1. Section(PowGrind(s), {"pow_prefix", "query_indices"}, {"pow_nonce"},
              {"pow_nonce", "query_indices"})
  BY ScriptTable, RestartTable, DistinctTable, DrawsTable, AbsorbsTable, MakesTable
     DEF Section, PowGrind
<1>2. Section(TraceDecommit(s), {}, {}, {"trace_values_at_queries", "trace_auth_paths"})
  BY ScriptTable, RestartTable, DistinctTable, DrawsTable, AbsorbsTable, MakesTable
     DEF Section, TraceDecommit
<1>3. ASSUME s.ec PROVE Section(EcDecommit(s), {}, {}, {"ec_trace_at_queries", "ec_trace_auth_paths"})
  BY <1>3, ScriptTable, RestartTable, DistinctTable, DrawsTable, AbsorbsTable, MakesTable
     DEF Section, EcDecommit, when
<1>4. ~ s.ec => Section(EcDecommit(s), {}, {}, {})
  BY ScriptTable, RestartTable, DistinctTable, DrawsTable, AbsorbsTable, MakesTable
     DEF Section, EcDecommit, when
<1>5. Section(Decommit(s), {}, {}, {"quotient_decommitment", "oods_quotient_decommitment"}
                    \cup InteractionDecoms \cup IntermediateDecoms
                    \cup {FriDecommitment[i] : i \in 1 .. FriLayers(s)})
  BY ScriptTable, RestartTable, DistinctTable, DrawsTable, AbsorbsTable, MakesTable
     DEF Section, Decommit
<1>6. ASSUME NEW B,
             {"fri_last_layer_poly"} \cup {FriCommitment[i] : i \in 1 .. FriLayers(s)} \subseteq B
      PROVE  Bound(PowGrind(s), s, B)
  <2> DEFINE X == peek("pow_prefix") \o commit("pow_nonce", {"pow_prefix"})
             Y == draw("query_indices")
             Z == make({"query_indices"}, {"query_indices"})
  <2>1. MustPrecede(s, "pow_prefix") \subseteq B
    BY CairoPrecedence
  <2>2. IsScript(X) /\ Absorbs(X) = {"pow_nonce"} /\ Bound(X, s, B)
    <3>1. IsScript(X)
      BY ScriptTable
    <3>2. Absorbs(X) = {"pow_nonce"}
      BY ScriptTable, AbsorbsTable
    <3>3. Bound(X, s, B)
      BY <2>1, ScriptTable, BoundTable
    <3> QED BY <3>1, <3>2, <3>3
  <2>3. MustPrecede(s, "query_indices") \subseteq B \cup Absorbs(X)
    BY <1>6, <2>2, CairoPrecedence
  <2>4. PowGrind(s) = X \o Y \o Z
    BY DEF PowGrind
  <2> HIDE DEF X
  <2>5. IsScript(X \o Y) /\ Bound(X \o Y, s, B)
    BY <2>2, <2>3, ScriptTable, BoundTable
  <2> QED BY <2>4, <2>5, ScriptTable, BoundTable
<1> QED BY <1>1, <1>2, <1>3, <1>4, <1>5, <1>6

\* The Cairo prover up to the LogUp challenges, the quotient, the FRI and the end.
Committed(s) ==
  PublicInputs(s) \o NttBlindCommit(s) \o SideTable(s) \o SDictInteraction(s) \o EcTrace(s)
    \o DictSubAir(s)
Interacted(s) ==
  Committed(s) \o DrawLogUp(s) \o CommitInteraction(s) \o CommitIntermediates(s)
    \o FinalSums(s) \o BitwiseCommit(s) \o MemTableCommit(s) \o RcCountsCommit(s)
Sampled(s) == Interacted(s) \o Quotient(s) \o OodsSample(s) \o OodsQuotient(s)

CommittedFields(s) ==
  {"program", "program_rest", "run_inputs", "version"} \cup LogUp(s)
    \cup (IF s.ec THEN {"ec_log_eval"} ELSE {})
    \cup (IF s.dict THEN {"dict_side_table", "dict_access_pointers", "dict_exec_data",
                          "dict_sorted_data", "dict_n_accesses"} ELSE {})
InteractedFields(s) ==
  CommittedFields(s) \cup Tables(s) \cup {"memory_table", "rc_counts"}
    \cup (IF s.bitwise THEN {"bitwise_rows"} ELSE {})
SampledFields(s) ==
  InteractedFields(s)
    \cup {"logup_challenges", "quotient_commitment", "oods_z", "oods_sampled_values", "oods_alpha",
          "fri_start_channel_state", "oods_quotient_commitment"}
CairoFields(s) ==
  SampledFields(s) \cup {FriCommitment[i] : i \in 1 .. FriLayers(s)}
    \cup {"fri_last_layer", "fri_last_layer_poly", "pow_nonce", "query_indices",
          "trace_values_at_queries", "trace_auth_paths"}
    \cup (IF s.ec THEN {"ec_trace_at_queries", "ec_trace_auth_paths"} ELSE {})
    \cup {"quotient_decommitment", "oods_quotient_decommitment"}
    \cup InteractionDecoms \cup IntermediateDecoms
    \cup {FriDecommitment[i] : i \in 1 .. FriLayers(s)}

DictDraws(s) == IF s.dict THEN {"z_dict", "alpha_dict"} ELSE {}
CommittedDraws(s) == DictLink \cup DictDraws(s)
InteractedDraws(s) == CommittedDraws(s) \cup MemLink \cup {"z_rc"}
SampledDraws(s) == InteractedDraws(s) \cup {"constraint_alphas", "oods_z", "oods_alpha"}
CairoDraws(s) ==
  SampledDraws(s) \cup {FriAlpha[i] : i \in 0 .. FriLayers(s)} \cup {"pow_prefix", "query_indices"}

LEMMA SDictBound ==
  ASSUME NEW s, s.protocol = "cairo", 0 \in 0 .. MaxLayers, NEW B,
         Trace \cup (Dicts(s) \cap {"dict_side_table_commitment"}) \subseteq B
  PROVE  Bound(SDictInteraction(s), s, B)
<1>1. \A c \in DictLink : MustPrecede(s, c) \subseteq B
  BY CairoPrecedence
<1> DEFINE X == draw("z_dict_link")
           Y == draw("alpha_dict_link")
<1>2. Bound(X, s, B) /\ \A A : Bound(Y, s, B \cup A)
  <2>1. \A A : MustPrecede(s, "alpha_dict_link") \subseteq B \cup A
    BY <1>1 DEF DictLink
  <2> QED BY <1>1, <2>1, BoundTable DEF DictLink
<1>3. IsScript(X) /\ IsScript(Y)
  BY ScriptTable
<1> HIDE DEF X, Y
<1>4. IsScript(X \o Y) /\ Bound(X \o Y, s, B)
  BY <1>2, <1>3, ScriptTable, BoundTable
<1>5. SDictInteraction(s) = X \o Y \o commit("dict_main_interaction_commitment", DictLink)
                              \o commit("dict_link_final", DictLink)
  BY DEF SDictInteraction, X, Y
<1> QED BY <1>4, <1>5, ScriptTable, BoundTable

LEMMA DrawLogUpBound ==
  ASSUME NEW s, s.protocol = "cairo", 0 \in 0 .. MaxLayers, NEW B, LogUp(s) \subseteq B
  PROVE  Bound(DrawLogUp(s), s, B)
<1>1. \A c \in {"z_mem", "alpha_mem", "z_rc"} : \A A : MustPrecede(s, c) \subseteq B \cup A
  BY CairoPrecedence DEF MemLink
<1>2. \A c \in {"z_mem", "alpha_mem", "z_rc"} : \A A : Bound(draw(c), s, B \cup A)
  BY <1>1, BoundTable
<1> DEFINE X == draw("z_mem")
           Y == draw("alpha_mem")
           Z == draw("z_rc")
<1>3. /\ IsScript(X) /\ IsScript(Y) /\ IsScript(Z) /\ Bound(X, s, B)
      /\ \A A : Bound(Y, s, B \cup A) /\ Bound(Z, s, B \cup A)
  <2>1. B \cup {} = B
    OBVIOUS
  <2> QED BY <1>2, <2>1, ScriptTable
<1>4. DrawLogUp(s) = X \o Y \o Z
  BY DEF DrawLogUp
<1> HIDE DEF X, Y, Z
<1>5. IsScript(X \o Y) /\ Bound(X \o Y, s, B)
  BY <1>3, Joins, BoundsJoin
<1> QED BY <1>3, <1>4, <1>5, BoundsJoin

LEMMA CommittedSection ==
  ASSUME NEW s, s.protocol = "cairo", 0 \in 0 .. MaxLayers
  PROVE  /\ Section(Committed(s), CommittedDraws(s), LogUp(s), CommittedFields(s))
         /\ Bound(Committed(s), s, {})
<1> DEFINE C0 == PublicInputs(s)
           C1 == C0 \o NttBlindCommit(s)
           C2 == C1 \o SideTable(s)
           C3 == C2 \o SDictInteraction(s)
           C4 == C3 \o EcTrace(s)
           C5 == C4 \o DictSubAir(s)
           D0 == {}
           D1 == D0
           D2 == D1
           D3 == D2 \cup DictLink
           D4 == D3
           D5 == D4 \cup (IF s.dict THEN {"z_dict", "alpha_dict"} ELSE {})
           A0 == {"program_hash"}
           A1 == A0 \cup (Trace \ {"program_hash"})
           A2 == A1 \cup (Dicts(s) \cap {"dict_side_table_commitment"})
           A3 == A2 \cup {"dict_main_interaction_commitment", "dict_link_final"}
           A4 == A3 \cup EcTraces(s)
           A5 == A4 \cup (Dicts(s) \ {"dict_side_table_commitment"})
           M0 == {"program", "program_rest", "run_inputs", "version", "program_hash"}
           M1 == M0 \cup (Trace \ {"program_hash"})
           M2 == M1 \cup (IF s.dict THEN {"dict_side_table", "dict_access_pointers",
                                          "dict_side_table_commitment"} ELSE {})
           M3 == M2 \cup {"dict_main_interaction_commitment", "dict_link_final"}
           M4 == M3 \cup (EcTraces(s) \cup (IF s.ec THEN {"ec_log_eval"} ELSE {}))
           M5 == M4 \cup ((IF s.dict THEN {"dict_exec_data", "dict_sorted_data",
                                           "dict_n_accesses"} ELSE {})
                        \cup (Dicts(s) \ {"dict_side_table_commitment"}))
<1>0. Section(C0, D0, A0, M0) /\ Bound(C0, s, {})
  BY CommitSections, NoDraws DEF Section
<1> HIDE DEF C0, C1, C2, C3, C4, C5
<1>1. Section(C1, D1, A1, M1) /\ Bound(C1, s, {})
  <2>1. Section(NttBlindCommit(s), {}, (Trace \ {"program_hash"}), (Trace \ {"program_hash"}))
    BY CommitSections
  <2>2. Bound(NttBlindCommit(s), s, {} \cup A0)
    BY <2>1, NoDraws DEF Section
  <2>3. D0 \cap {} = {}
    OBVIOUS
  <2> HIDE DEF D0, A0, M0
  <2>4. Section(C0 \o NttBlindCommit(s), D0 \cup {}, A0 \cup (Trace \ {"program_hash"}), M0
                \cup (Trace \ {"program_hash"}))
    BY <1>0, <2>1, <2>3, SectionsJoin
  <2>5. Bound(C0 \o NttBlindCommit(s), s, {})
    BY <1>0, <2>1, <2>2, BoundsJoin DEF Section
  <2> QED BY <2>4, <2>5 DEF C1
<1>2. Section(C2, D2, A2, M2) /\ Bound(C2, s, {})
  <2>1. Section(SideTable(s), {}, (Dicts(s) \cap {"dict_side_table_commitment"}),
                (IF s.dict THEN {"dict_side_table", "dict_access_pointers",
                                 "dict_side_table_commitment"} ELSE {}))
    BY CommitSections
  <2>2. Bound(SideTable(s), s, {} \cup A1)
    BY <2>1, NoDraws DEF Section
  <2>3. D1 \cap {} = {}
    OBVIOUS
  <2> HIDE DEF D1, A1, M1
  <2>4. Section(C1 \o SideTable(s), D1 \cup {}, A1 \cup (Dicts(s) \cap {"dict_side_table_commitment"}),
                M1 \cup (IF s.dict THEN {"dict_side_table", "dict_access_pointers",
                                         "dict_side_table_commitment"} ELSE {}))
    BY <1>1, <2>1, <2>3, SectionsJoin
  <2>5. Bound(C1 \o SideTable(s), s, {})
    BY <1>1, <2>1, <2>2, BoundsJoin DEF Section
  <2> QED BY <2>4, <2>5 DEF C2
<1>3. Section(C3, D3, A3, M3) /\ Bound(C3, s, {})
  <2>1. Section(SDictInteraction(s), DictLink, {"dict_main_interaction_commitment", "dict_link_final"},
                {"dict_main_interaction_commitment", "dict_link_final"})
    BY CommitSections
  <2>2. Bound(SDictInteraction(s), s, {} \cup A2)
    BY SDictBound DEF Trace, Dicts
  <2>3. D2 \cap DictLink = {}
    BY DEF DictLink
  <2> HIDE DEF D2, A2, M2
  <2>4. Section(C2 \o SDictInteraction(s), D2 \cup DictLink, A2
                \cup {"dict_main_interaction_commitment", "dict_link_final"}, M2
                \cup {"dict_main_interaction_commitment", "dict_link_final"})
    BY <1>2, <2>1, <2>3, SectionsJoin
  <2>5. Bound(C2 \o SDictInteraction(s), s, {})
    BY <1>2, <2>1, <2>2, BoundsJoin DEF Section
  <2> QED BY <2>4, <2>5 DEF C3
<1>4. Section(C4, D4, A4, M4) /\ Bound(C4, s, {})
  <2>1. Section(EcTrace(s), {}, EcTraces(s), (EcTraces(s) \cup (IF s.ec THEN {"ec_log_eval"} ELSE {})))
    BY CommitSections
  <2>2. Bound(EcTrace(s), s, {} \cup A3)
    BY <2>1, NoDraws DEF Section
  <2>3. D3 \cap {} = {}
    OBVIOUS
  <2> HIDE DEF D3, A3, M3
  <2>4. Section(C3 \o EcTrace(s), D3 \cup {}, A3 \cup EcTraces(s), M3
                \cup (EcTraces(s) \cup (IF s.ec THEN {"ec_log_eval"} ELSE {})))
    BY <1>3, <2>1, <2>3, SectionsJoin
  <2>5. Bound(C3 \o EcTrace(s), s, {})
    BY <1>3, <2>1, <2>2, BoundsJoin DEF Section
  <2> QED BY <2>4, <2>5 DEF C4
<1>5. Section(C5, D5, A5, M5) /\ Bound(C5, s, {})
  <2>1. Section(DictSubAir(s), (IF s.dict THEN {"z_dict", "alpha_dict"} ELSE {}),
                (Dicts(s) \ {"dict_side_table_commitment"}),
                ((IF s.dict THEN {"dict_exec_data", "dict_sorted_data", "dict_n_accesses"} ELSE {})
                        \cup (Dicts(s) \ {"dict_side_table_commitment"})))
    BY DictSection
  <2>2. Bound(DictSubAir(s), s, {} \cup A4)
    BY DictSection DEF Dicts
  <2>3. D4 \cap (IF s.dict THEN {"z_dict", "alpha_dict"} ELSE {}) = {}
    BY DEF DictLink
  <2> HIDE DEF D4, A4, M4
  <2>4. Section(C4 \o DictSubAir(s), D4 \cup (IF s.dict THEN {"z_dict", "alpha_dict"} ELSE {}), A4
                \cup (Dicts(s) \ {"dict_side_table_commitment"}), M4
                \cup ((IF s.dict THEN {"dict_exec_data", "dict_sorted_data", "dict_n_accesses"} ELSE {})
                        \cup (Dicts(s) \ {"dict_side_table_commitment"})))
    BY <1>4, <2>1, <2>3, SectionsJoin
  <2>5. Bound(C4 \o DictSubAir(s), s, {})
    BY <1>4, <2>1, <2>2, BoundsJoin DEF Section
  <2> QED BY <2>4, <2>5 DEF C5
<1>6. D5 = CommittedDraws(s)
  BY DEF CommittedDraws, DictDraws
<1>7. A5 = LogUp(s)
  BY DEF LogUp, Trace, Dicts, EcTraces
<1>8. M5 = CommittedFields(s)
  BY DEF CommittedFields, LogUp, Trace, Dicts, EcTraces
<1>9. Committed(s) = C5
  BY DEF Committed, C0, C1, C2, C3, C4, C5
<1> HIDE DEF D5, A5, M5
<1> QED BY <1>5, <1>6, <1>7, <1>8, <1>9

LEMMA InteractedSection ==
  ASSUME NEW s, s.protocol = "cairo", 0 \in 0 .. MaxLayers
  PROVE  /\ Section(Interacted(s), InteractedDraws(s), LogUp(s) \cup Tables(s), InteractedFields(s))
         /\ Bound(Interacted(s), s, {})
<1> DEFINE C0 == Committed(s)
           C1 == C0 \o DrawLogUp(s)
           C2 == C1 \o CommitInteraction(s)
           C3 == C2 \o CommitIntermediates(s)
           C4 == C3 \o FinalSums(s)
           C5 == C4 \o BitwiseCommit(s)
           C6 == C5 \o MemTableCommit(s)
           C7 == C6 \o RcCountsCommit(s)
           D0 == CommittedDraws(s)
           D1 == D0 \cup (MemLink \cup {"z_rc"})
           D2 == D1
           D3 == D2
           D4 == D3
           D5 == D4
           D6 == D5
           D7 == D6
           A0 == LogUp(s)
           A1 == A0
           A2 == A1 \cup {"interaction_commitment", "rc_interaction_commitment"}
           A3 == A2 \cup {"logup_t1", "logup_t2", "logup_t3", "rc_u1", "rc_u2"}
           A4 == A3 \cup {"final_sums"}
           A5 == A4 \cup (IF s.bitwise THEN {"bitwise_commitment"} ELSE {})
           A6 == A5 \cup {"memory_table_commitment"}
           A7 == A6 \cup {"rc_counts_commitment"}
           M0 == CommittedFields(s)
           M1 == M0
           M2 == M1 \cup {"interaction_commitment", "rc_interaction_commitment"}
           M3 == M2 \cup {"logup_t1", "logup_t2", "logup_t3", "rc_u1", "rc_u2"}
           M4 == M3 \cup {"final_sums"}
           M5 == M4 \cup (IF s.bitwise THEN {"bitwise_rows", "bitwise_commitment"} ELSE {})
           M6 == M5 \cup {"memory_table", "memory_table_commitment"}
           M7 == M6 \cup {"rc_counts", "rc_counts_commitment"}
<1>0. Section(C0, D0, A0, M0) /\ Bound(C0, s, {})
  BY CommittedSection
<1> HIDE DEF C0, C1, C2, C3, C4, C5, C6, C7
<1>1. Section(C1, D1, A1, M1) /\ Bound(C1, s, {})
  <2>1. Section(DrawLogUp(s), (MemLink \cup {"z_rc"}), {}, {})
    BY LogUpSections
  <2>2. Bound(DrawLogUp(s), s, {} \cup A0)
    BY DrawLogUpBound
  <2>3. D0 \cap (MemLink \cup {"z_rc"}) = {}
    BY DEF DictLink, MemLink, CommittedDraws, DictDraws
  <2> HIDE DEF D0, A0, M0
  <2>4. Section(C0 \o DrawLogUp(s), D0 \cup (MemLink \cup {"z_rc"}), A0 \cup {}, M0 \cup {})
    BY <1>0, <2>1, <2>3, SectionsJoin
  <2>5. Bound(C0 \o DrawLogUp(s), s, {})
    BY <1>0, <2>1, <2>2, BoundsJoin DEF Section
  <2> QED BY <2>4, <2>5 DEF C1
<1>2. Section(C2, D2, A2, M2) /\ Bound(C2, s, {})
  <2>1. Section(CommitInteraction(s), {}, {"interaction_commitment", "rc_interaction_commitment"},
                {"interaction_commitment", "rc_interaction_commitment"})
    BY LogUpSections
  <2>2. Bound(CommitInteraction(s), s, {} \cup A1)
    BY <2>1, NoDraws DEF Section
  <2>3. D1 \cap {} = {}
    OBVIOUS
  <2> HIDE DEF D1, A1, M1
  <2>4. Section(C1 \o CommitInteraction(s), D1 \cup {}, A1
                \cup {"interaction_commitment", "rc_interaction_commitment"}, M1
                \cup {"interaction_commitment", "rc_interaction_commitment"})
    BY <1>1, <2>1, <2>3, SectionsJoin
  <2>5. Bound(C1 \o CommitInteraction(s), s, {})
    BY <1>1, <2>1, <2>2, BoundsJoin DEF Section
  <2> QED BY <2>4, <2>5 DEF C2
<1>3. Section(C3, D3, A3, M3) /\ Bound(C3, s, {})
  <2>1. Section(CommitIntermediates(s), {}, {"logup_t1", "logup_t2", "logup_t3", "rc_u1", "rc_u2"},
                {"logup_t1", "logup_t2", "logup_t3", "rc_u1", "rc_u2"})
    BY LogUpSections
  <2>2. Bound(CommitIntermediates(s), s, {} \cup A2)
    BY <2>1, NoDraws DEF Section
  <2>3. D2 \cap {} = {}
    OBVIOUS
  <2> HIDE DEF D2, A2, M2
  <2>4. Section(C2 \o CommitIntermediates(s), D2 \cup {}, A2
                \cup {"logup_t1", "logup_t2", "logup_t3", "rc_u1", "rc_u2"}, M2
                \cup {"logup_t1", "logup_t2", "logup_t3", "rc_u1", "rc_u2"})
    BY <1>2, <2>1, <2>3, SectionsJoin
  <2>5. Bound(C2 \o CommitIntermediates(s), s, {})
    BY <1>2, <2>1, <2>2, BoundsJoin DEF Section
  <2> QED BY <2>4, <2>5 DEF C3
<1>4. Section(C4, D4, A4, M4) /\ Bound(C4, s, {})
  <2>1. Section(FinalSums(s), {}, {"final_sums"}, {"final_sums"})
    BY LogUpSections
  <2>2. Bound(FinalSums(s), s, {} \cup A3)
    BY <2>1, NoDraws DEF Section
  <2>3. D3 \cap {} = {}
    OBVIOUS
  <2> HIDE DEF D3, A3, M3
  <2>4. Section(C3 \o FinalSums(s), D3 \cup {}, A3 \cup {"final_sums"}, M3 \cup {"final_sums"})
    BY <1>3, <2>1, <2>3, SectionsJoin
  <2>5. Bound(C3 \o FinalSums(s), s, {})
    BY <1>3, <2>1, <2>2, BoundsJoin DEF Section
  <2> QED BY <2>4, <2>5 DEF C4
<1>5. Section(C5, D5, A5, M5) /\ Bound(C5, s, {})
  <2>1. Section(BitwiseCommit(s), {}, (IF s.bitwise THEN {"bitwise_commitment"} ELSE {}),
                (IF s.bitwise THEN {"bitwise_rows", "bitwise_commitment"} ELSE {}))
    BY LogUpSections
  <2>2. Bound(BitwiseCommit(s), s, {} \cup A4)
    BY <2>1, NoDraws DEF Section
  <2>3. D4 \cap {} = {}
    OBVIOUS
  <2> HIDE DEF D4, A4, M4
  <2>4. Section(C4 \o BitwiseCommit(s), D4 \cup {}, A4
                \cup (IF s.bitwise THEN {"bitwise_commitment"} ELSE {}), M4
                \cup (IF s.bitwise THEN {"bitwise_rows", "bitwise_commitment"} ELSE {}))
    BY <1>4, <2>1, <2>3, SectionsJoin
  <2>5. Bound(C4 \o BitwiseCommit(s), s, {})
    BY <1>4, <2>1, <2>2, BoundsJoin DEF Section
  <2> QED BY <2>4, <2>5 DEF C5
<1>6. Section(C6, D6, A6, M6) /\ Bound(C6, s, {})
  <2>1. Section(MemTableCommit(s), {}, {"memory_table_commitment"},
                {"memory_table", "memory_table_commitment"})
    BY LogUpSections
  <2>2. Bound(MemTableCommit(s), s, {} \cup A5)
    BY <2>1, NoDraws DEF Section
  <2>3. D5 \cap {} = {}
    OBVIOUS
  <2> HIDE DEF D5, A5, M5
  <2>4. Section(C5 \o MemTableCommit(s), D5 \cup {}, A5 \cup {"memory_table_commitment"}, M5
                \cup {"memory_table", "memory_table_commitment"})
    BY <1>5, <2>1, <2>3, SectionsJoin
  <2>5. Bound(C5 \o MemTableCommit(s), s, {})
    BY <1>5, <2>1, <2>2, BoundsJoin DEF Section
  <2> QED BY <2>4, <2>5 DEF C6
<1>7. Section(C7, D7, A7, M7) /\ Bound(C7, s, {})
  <2>1. Section(RcCountsCommit(s), {}, {"rc_counts_commitment"}, {"rc_counts", "rc_counts_commitment"})
    BY LogUpSections
  <2>2. Bound(RcCountsCommit(s), s, {} \cup A6)
    BY <2>1, NoDraws DEF Section
  <2>3. D6 \cap {} = {}
    OBVIOUS
  <2> HIDE DEF D6, A6, M6
  <2>4. Section(C6 \o RcCountsCommit(s), D6 \cup {}, A6 \cup {"rc_counts_commitment"}, M6
                \cup {"rc_counts", "rc_counts_commitment"})
    BY <1>6, <2>1, <2>3, SectionsJoin
  <2>5. Bound(C6 \o RcCountsCommit(s), s, {})
    BY <1>6, <2>1, <2>2, BoundsJoin DEF Section
  <2> QED BY <2>4, <2>5 DEF C7
<1>8. D7 = InteractedDraws(s)
  BY DEF InteractedDraws
<1>9. A7 = LogUp(s) \cup Tables(s)
  BY DEF Tables
<1>10. M7 = InteractedFields(s)
  BY DEF InteractedFields, Tables
<1>11. Interacted(s) = C7
  BY DEF Interacted, C0, C1, C2, C3, C4, C5, C6, C7
<1> HIDE DEF D7, A7, M7
<1> QED BY <1>7, <1>8, <1>9, <1>10, <1>11

LEMMA SampledSection ==
  ASSUME NEW s, s.protocol = "cairo", 0 \in 0 .. MaxLayers
  PROVE  /\ Section(Sampled(s), SampledDraws(s), LogUp(s) \cup Tables(s)
                    \cup {"quotient_commitment", "oods_sampled_values", "oods_quotient_commitment"},
                    SampledFields(s))
         /\ Bound(Sampled(s), s, {})
<1> DEFINE C0 == Interacted(s)
           C1 == C0 \o Quotient(s)
           C2 == C1 \o OodsSample(s)
           C3 == C2 \o OodsQuotient(s)
           D0 == InteractedDraws(s)
           D1 == D0 \cup {"constraint_alphas"}
           D2 == D1 \cup {"oods_z", "oods_alpha"}
           D3 == D2
           A0 == LogUp(s) \cup Tables(s)
           A1 == A0 \cup {"quotient_commitment"}
           A2 == A1 \cup {"oods_sampled_values"}
           A3 == A2 \cup {"oods_quotient_commitment"}
           M0 == InteractedFields(s)
           M1 == M0 \cup {"logup_challenges", "quotient_commitment"}
           M2 == M1 \cup {"oods_z", "oods_sampled_values", "oods_alpha"}
           M3 == M2 \cup {"fri_start_channel_state", "oods_quotient_commitment"}
<1>0. Section(C0, D0, A0, M0) /\ Bound(C0, s, {})
  BY InteractedSection
<1> HIDE DEF C0, C1, C2, C3
<1>1. Section(C1, D1, A1, M1) /\ Bound(C1, s, {})
  <2>1. Section(Quotient(s), {"constraint_alphas"}, {"quotient_commitment"},
                {"logup_challenges", "quotient_commitment"})
    BY QuotientSections
  <2>2. Bound(Quotient(s), s, {} \cup A0)
    BY QuotientSections
  <2>3. D0 \cap {"constraint_alphas"} = {}
    BY DEF DictLink, MemLink, CommittedDraws, DictDraws, InteractedDraws
  <2> HIDE DEF D0, A0, M0
  <2>4. Section(C0 \o Quotient(s), D0 \cup {"constraint_alphas"}, A0 \cup {"quotient_commitment"}, M0
                \cup {"logup_challenges", "quotient_commitment"})
    BY <1>0, <2>1, <2>3, SectionsJoin
  <2>5. Bound(C0 \o Quotient(s), s, {})
    BY <1>0, <2>1, <2>2, BoundsJoin DEF Section
  <2> QED BY <2>4, <2>5 DEF C1
<1>2. Section(C2, D2, A2, M2) /\ Bound(C2, s, {})
  <2>1. Section(OodsSample(s), {"oods_z", "oods_alpha"}, {"oods_sampled_values"},
                {"oods_z", "oods_sampled_values", "oods_alpha"})
    BY QuotientSections
  <2>2. Bound(OodsSample(s), s, {} \cup A1)
    BY QuotientSections
  <2>3. D1 \cap {"oods_z", "oods_alpha"} = {}
    BY DEF DictLink, MemLink, CommittedDraws, DictDraws, InteractedDraws
  <2> HIDE DEF D1, A1, M1
  <2>4. Section(C1 \o OodsSample(s), D1 \cup {"oods_z", "oods_alpha"}, A1 \cup {"oods_sampled_values"},
                M1 \cup {"oods_z", "oods_sampled_values", "oods_alpha"})
    BY <1>1, <2>1, <2>3, SectionsJoin
  <2>5. Bound(C1 \o OodsSample(s), s, {})
    BY <1>1, <2>1, <2>2, BoundsJoin DEF Section
  <2> QED BY <2>4, <2>5 DEF C2
<1>3. Section(C3, D3, A3, M3) /\ Bound(C3, s, {})
  <2>1. Section(OodsQuotient(s), {}, {"oods_quotient_commitment"},
                {"fri_start_channel_state", "oods_quotient_commitment"})
    BY QuotientSections
  <2>2. Bound(OodsQuotient(s), s, {} \cup A2)
    BY QuotientSections
  <2>3. D2 \cap {} = {}
    OBVIOUS
  <2> HIDE DEF D2, A2, M2
  <2>4. Section(C2 \o OodsQuotient(s), D2 \cup {}, A2 \cup {"oods_quotient_commitment"}, M2
                \cup {"fri_start_channel_state", "oods_quotient_commitment"})
    BY <1>2, <2>1, <2>3, SectionsJoin
  <2>5. Bound(C2 \o OodsQuotient(s), s, {})
    BY <1>2, <2>1, <2>2, BoundsJoin DEF Section
  <2> QED BY <2>4, <2>5 DEF C3
<1>4. D3 = SampledDraws(s)
  BY DEF SampledDraws
<1>5. A3 = LogUp(s) \cup Tables(s) \cup {"quotient_commitment", "oods_sampled_values",
                                         "oods_quotient_commitment"}
  BY DEF Trace
<1>6. M3 = SampledFields(s)
  BY DEF SampledFields
<1>7. Sampled(s) = C3
  BY DEF Sampled, C0, C1, C2, C3
<1> HIDE DEF D3, A3, M3
<1> QED BY <1>3, <1>4, <1>5, <1>6, <1>7

LEMMA CairoSection ==
  ASSUME NEW s, s.protocol = "cairo", 0 \in 0 .. MaxLayers,
         NEW n \in 1 .. MaxLayers, FriLayers(s) = n
  PROVE  /\ Section(cairo_prove(s), CairoDraws(s), LogUp(s) \cup Tables(s)
                    \cup {"quotient_commitment", "oods_sampled_values", "oods_quotient_commitment",
                          "fri_last_layer_poly", "pow_nonce"}
                \cup {FriCommitment[i] : i \in 1 .. FriLayers(s)}, CairoFields(s))
         /\ Bound(cairo_prove(s), s, {})
<1> DEFINE C0 == Sampled(s)
           C1 == C0 \o Fri(s)
           C2 == C1 \o PowGrind(s)
           C3 == C2 \o TraceDecommit(s)
           C4 == C3 \o EcDecommit(s)
           C5 == C4 \o Decommit(s)
           D0 == SampledDraws(s)
           D1 == D0 \cup ({FriAlpha[i] : i \in 0 .. n} \cup {})
           D2 == D1 \cup {"pow_prefix", "query_indices"}
           D3 == D2
           D4 == D3
           D5 == D4
           A0 == LogUp(s) \cup Tables(s) \cup {"quotient_commitment", "oods_sampled_values",
                                               "oods_quotient_commitment"}
           A1 == A0 \cup ({FriCommitment[i] : i \in 1 .. n} \cup {"fri_last_layer_poly"})
           A2 == A1 \cup {"pow_nonce"}
           A3 == A2
           A4 == A3
           A5 == A4
           M0 == SampledFields(s)
           M1 == M0 \cup ({FriCommitment[i] : i \in 1 .. n}
                          \cup {"fri_last_layer", "fri_last_layer_poly"})
           M2 == M1 \cup {"pow_nonce", "query_indices"}
           M3 == M2 \cup {"trace_values_at_queries", "trace_auth_paths"}
           M4 == M3 \cup (IF s.ec THEN {"ec_trace_at_queries", "ec_trace_auth_paths"} ELSE {})
           M5 == M4 \cup ({"quotient_decommitment", "oods_quotient_decommitment"}
                        \cup InteractionDecoms \cup IntermediateDecoms
                        \cup {FriDecommitment[i] : i \in 1 .. FriLayers(s)})
<1>0. Section(C0, D0, A0, M0) /\ Bound(C0, s, {})
  BY SampledSection
<1>a. n \in 1 .. MaxLayers /\ FriLayers(s) = n /\ n \in Nat /\ \A i \in 0 .. n : i \in 0 .. MaxLayers
  BY LayersAssumption
<1>b. SampledDraws(s) \cap ({FriAlpha[i] : i \in 0 .. n} \cup {}) = {}
  BY <1>a, NamesAssumption DEF SampledDraws, InteractedDraws, CommittedDraws, DictDraws,
     DictLink, MemLink
<1>c. D1 \cap {"pow_prefix", "query_indices"} = {}
  BY <1>a, NamesAssumption DEF SampledDraws, InteractedDraws, CommittedDraws, DictDraws,
     DictLink, MemLink
<1> HIDE DEF C0, C1, C2, C3, C4, C5
<1>1. Section(C1, D1, A1, M1) /\ Bound(C1, s, {})
  <2>1. Section(Fri(s), ({FriAlpha[i] : i \in 0 .. n} \cup {}),
                ({FriCommitment[i] : i \in 1 .. n} \cup {"fri_last_layer_poly"}),
                ({FriCommitment[i] : i \in 1 .. n} \cup {"fri_last_layer", "fri_last_layer_poly"}))
    BY <1>a, FriSection
  <2>2. Bound(Fri(s), s, {} \cup A0)
    BY <1>a, FriSection, CairoPrecedence
  <2>3. D0 \cap ({FriAlpha[i] : i \in 0 .. n} \cup {}) = {}
    BY <1>b
  <2> HIDE DEF D0, A0, M0
  <2>4. Section(C0 \o Fri(s), D0 \cup ({FriAlpha[i] : i \in 0 .. n} \cup {}), A0
                \cup ({FriCommitment[i] : i \in 1 .. n} \cup {"fri_last_layer_poly"}), M0
                \cup ({FriCommitment[i] : i \in 1 .. n} \cup {"fri_last_layer", "fri_last_layer_poly"}))
    BY <1>0, <2>1, <2>3, SectionsJoin
  <2>5. Bound(C0 \o Fri(s), s, {})
    BY <1>0, <2>1, <2>2, BoundsJoin DEF Section
  <2> QED BY <2>4, <2>5 DEF C1
<1>2. Section(C2, D2, A2, M2) /\ Bound(C2, s, {})
  <2>1. Section(PowGrind(s), {"pow_prefix", "query_indices"}, {"pow_nonce"},
                {"pow_nonce", "query_indices"})
    BY <1>a, QuerySections
  <2>2. Bound(PowGrind(s), s, {} \cup A1)
    BY <1>a, QuerySections
  <2>3. D1 \cap {"pow_prefix", "query_indices"} = {}
    BY <1>c
  <2> HIDE DEF D1, A1, M1
  <2>4. Section(C1 \o PowGrind(s), D1 \cup {"pow_prefix", "query_indices"}, A1 \cup {"pow_nonce"}, M1
                \cup {"pow_nonce", "query_indices"})
    BY <1>1, <2>1, <2>3, SectionsJoin
  <2>5. Bound(C1 \o PowGrind(s), s, {})
    BY <1>1, <2>1, <2>2, BoundsJoin DEF Section
  <2> QED BY <2>4, <2>5 DEF C2
<1>3. Section(C3, D3, A3, M3) /\ Bound(C3, s, {})
  <2>1. Section(TraceDecommit(s), {}, {}, {"trace_values_at_queries", "trace_auth_paths"})
    BY <1>a, QuerySections
  <2>2. Bound(TraceDecommit(s), s, {} \cup A2)
    BY <2>1, NoDraws DEF Section
  <2>3. D2 \cap {} = {}
    OBVIOUS
  <2> HIDE DEF D2, A2, M2
  <2>4. Section(C2 \o TraceDecommit(s), D2 \cup {}, A2 \cup {}, M2
                \cup {"trace_values_at_queries", "trace_auth_paths"})
    BY <1>2, <2>1, <2>3, SectionsJoin
  <2>5. Bound(C2 \o TraceDecommit(s), s, {})
    BY <1>2, <2>1, <2>2, BoundsJoin DEF Section
  <2> QED BY <2>4, <2>5 DEF C3
<1>4. Section(C4, D4, A4, M4) /\ Bound(C4, s, {})
  <2>1. Section(EcDecommit(s), {}, {}, (IF s.ec
                                        THEN {"ec_trace_at_queries", "ec_trace_auth_paths"} ELSE {}))
    BY <1>a, QuerySections
  <2>2. Bound(EcDecommit(s), s, {} \cup A3)
    BY <2>1, NoDraws DEF Section
  <2>3. D3 \cap {} = {}
    OBVIOUS
  <2> HIDE DEF D3, A3, M3
  <2>4. Section(C3 \o EcDecommit(s), D3 \cup {}, A3 \cup {}, M3
                \cup (IF s.ec THEN {"ec_trace_at_queries", "ec_trace_auth_paths"} ELSE {}))
    BY <1>3, <2>1, <2>3, SectionsJoin
  <2>5. Bound(C3 \o EcDecommit(s), s, {})
    BY <1>3, <2>1, <2>2, BoundsJoin DEF Section
  <2> QED BY <2>4, <2>5 DEF C4
<1>5. Section(C5, D5, A5, M5) /\ Bound(C5, s, {})
  <2>1. Section(Decommit(s), {}, {}, ({"quotient_decommitment", "oods_quotient_decommitment"}
                        \cup InteractionDecoms \cup IntermediateDecoms
                        \cup {FriDecommitment[i] : i \in 1 .. FriLayers(s)}))
    BY <1>a, QuerySections
  <2>2. Bound(Decommit(s), s, {} \cup A4)
    BY <2>1, NoDraws DEF Section
  <2>3. D4 \cap {} = {}
    OBVIOUS
  <2> HIDE DEF D4, A4, M4
  <2>4. Section(C4 \o Decommit(s), D4 \cup {}, A4 \cup {}, M4
                \cup ({"quotient_decommitment", "oods_quotient_decommitment"}
                        \cup InteractionDecoms \cup IntermediateDecoms
                        \cup {FriDecommitment[i] : i \in 1 .. FriLayers(s)}))
    BY <1>4, <2>1, <2>3, SectionsJoin
  <2>5. Bound(C4 \o Decommit(s), s, {})
    BY <1>4, <2>1, <2>2, BoundsJoin DEF Section
  <2> QED BY <2>4, <2>5 DEF C5
<1>6. D5 = CairoDraws(s)
  BY DEF CairoDraws
<1>7. A5 = LogUp(s) \cup Tables(s) \cup {"quotient_commitment", "oods_sampled_values",
                                         "oods_quotient_commitment", "fri_last_layer_poly", "pow_nonce"}
                \cup {FriCommitment[i] : i \in 1 .. FriLayers(s)}
  BY DEF Trace
<1>8. M5 = CairoFields(s)
  BY DEF CairoFields
<1>9. cairo_prove(s) = C5
  BY DEF cairo_prove, Sampled, Interacted, Committed, C0, C1, C2, C3, C4, C5
<1> HIDE DEF D5, A5, M5
<1> QED BY <1>5, <1>6, <1>7, <1>8, <1>9

LEMMA CairoProverOrderly ==
  ASSUME NEW s, s.protocol = "cairo", NEW n \in 1 .. MaxLayers, FriLayers(s) = n
  PROVE  Orderly(cairo_prove(s), s)
<1>1. 0 \in 0 .. MaxLayers /\ \A i \in 1 .. n : i \in 0 .. MaxLayers
  BY LayersAssumption
<1>2. {"none", "damaged"} \cap {FriCommitment[i] : i \in 1 .. FriLayers(s)} = {}
  BY <1>1, NamesAssumption
<1>3. {"none", "damaged"} \cap (LogUp(s) \cup Tables(s)
         \cup {"quotient_commitment", "oods_sampled_values", "oods_quotient_commitment",
               "fri_last_layer_poly", "pow_nonce"}) = {}
  BY DEF LogUp, Tables, Trace, Dicts, EcTraces
<1>4. {"none", "damaged"} \cap Absorbs(cairo_prove(s)) = {}
  BY <1>1, <1>2, <1>3, CairoSection DEF Section
<1> QED BY <1>1, <1>4, CairoSection DEF Section, Orderly

-----------------------------------------------------------------------------
\* The STARKs with a proof of their own.

LEMMA StarkPrecedence ==
  ASSUME NEW s, s.protocol # "cairo"
  PROVE  /\ \A c \in {"alpha", "alphas", "alpha_0", "alpha_1", "mem_alpha_0", "mem_alpha_1",
                      "mem_queries",
                      "rc_alpha_0", "rc_alpha_1", "rc_queries"} : MustPrecede(s, c) = {}
         /\ \A i \in 0 .. MaxLayers : MustPrecede(s, FriAlpha[i]) = {}
         /\ MustPrecede(s, "query_indices") =
              {"fri_last_layer"} \cup {FriCommitment[i] : i \in M31Layers(s)}
         /\ MustPrecede(s, "queries") =
              IF s.protocol = "fib252" THEN {"trace_root", "quotient_root", "q_a", "q_b"}
              ELSE {"quotient_root", "inner_root", "last_layer_evals"}
         /\ \A c \in {"mem_z", "mem_alpha"} :
              MustPrecede(s, c) = {"col_roots", "quotient_root", "last_layer_evals"}
         /\ MustPrecede(s, "rc_z") = {"mem_s_root", "mem_q_root", "mem_last_layer_evals"}
<1>1. \A c \in {"alpha", "alphas", "alpha_0", "alpha_1", "mem_alpha_0", "mem_alpha_1", "mem_queries",
                "rc_alpha_0", "rc_alpha_1", "rc_queries"} : MustPrecede(s, c) = {}
  BY DEF MustPrecede, DictLink, MemLink
<1>2. ASSUME NEW i \in 0 .. MaxLayers PROVE MustPrecede(s, FriAlpha[i]) = {}
  BY NamesAssumption DEF MustPrecede, DictLink, MemLink
<1>3. MustPrecede(s, "query_indices") = {"fri_last_layer"} \cup {FriCommitment[i] : i \in M31Layers(s)}
  BY DEF MustPrecede, DictLink, MemLink
<1>4. MustPrecede(s, "queries") =
              IF s.protocol = "fib252" THEN {"trace_root", "quotient_root", "q_a", "q_b"}
              ELSE {"quotient_root", "inner_root", "last_layer_evals"}
  BY DEF MustPrecede, DictLink, MemLink
<1>5. \A c \in {"mem_z", "mem_alpha"} : MustPrecede(s, c) = {"col_roots", "quotient_root",
                                                             "last_layer_evals"}
  BY DEF MustPrecede, DictLink, MemLink
<1>6. MustPrecede(s, "rc_z") = {"mem_s_root", "mem_q_root", "mem_last_layer_evals"}
  BY DEF MustPrecede, DictLink, MemLink
<1> QED BY <1>1, <1>2, <1>3, <1>4, <1>5, <1>6

\* The M31 prover with the verifier's extra fold challenge: it draws what both draw.
M31Opening == commit("trace_commitment", {}) \o draw("alpha")
              \o commit("quotient_commitment", {"alpha"})
M31Lean(n) == M31Opening \o Layers(n) \o mix("fri_last_layer") \o draw("query_indices")

LEMMA M31Section ==
  ASSUME NEW s, s.protocol = "m31",
         NEW n \in 1 .. MaxLayers, M31FriLayers(s) = n
  PROVE  /\ Section(M31Lean(n),
                    {"alpha"} \cup {FriAlpha[i] : i \in 0 .. n} \cup {"query_indices"},
                    {"trace_commitment", "quotient_commitment"} \cup {FriCommitment[i] : i \in 1 .. n}
                    \cup {"fri_last_layer"},
                    {"trace_commitment", "quotient_commitment"} \cup {FriCommitment[i] : i \in 1 .. n})
         /\ Bound(M31Lean(n), s, {})
<1> DEFINE C1 == M31Opening
           C2 == C1 \o Layers(n)
           C3 == C2 \o mix("fri_last_layer")
           C4 == C3 \o draw("query_indices")
           D1 == {"alpha"}
           D2 == D1 \cup {FriAlpha[i] : i \in 0 .. n}
           D3 == D2
           D4 == D3 \cup {"query_indices"}
           A1 == {"trace_commitment", "quotient_commitment"}
           A2 == A1 \cup {FriCommitment[i] : i \in 1 .. n}
           A3 == A2 \cup {"fri_last_layer"}
           A4 == A3
           M1 == {"trace_commitment", "quotient_commitment"}
           M2 == M1 \cup {FriCommitment[i] : i \in 1 .. n}
           M3 == M2
           M4 == M3
<1>a. n \in Nat /\ 0 \in 0 .. MaxLayers /\ \A i \in 0 .. n : i \in 0 .. MaxLayers
  BY LayersAssumption
<1>b. (\A i \in 1 .. MaxLayers : MustPrecede(s, FriAlpha[i]) = {}) /\ MustPrecede(s, FriAlpha[0]) = {}
  BY <1>a, StarkPrecedence
<1>c. MustPrecede(s, "query_indices") \subseteq {} \cup A3
  BY StarkPrecedence DEF M31Layers
<1>d. Bound(M31Opening, s, {})
  BY StarkPrecedence, ScriptTable, BoundTable DEF M31Opening
<1>1. Section(C1, D1, A1, M1) /\ Bound(C1, s, {})
  <2>1. Section(C1, D1, A1, M1)
    BY ScriptTable, RestartTable, DistinctTable, DrawsTable, AbsorbsTable, MakesTable
       DEF Section, M31Opening
  <2> QED BY <2>1, <1>d
<1> HIDE DEF C1, C2, C3, C4
<1>2. Section(C2, D2, A2, M2) /\ Bound(C2, s, {})
  <2> DEFINE Q == Layers(n)
  <2>1. Section(Q, {FriAlpha[i] : i \in 0 .. n}, {FriCommitment[i] : i \in 1 .. n},
                {FriCommitment[i] : i \in 1 .. n})
    BY <1>a, <1>b, LayersSection
  <2>2. Bound(Q, s, {} \cup A1)
    BY <1>a, <1>b, LayersSection
  <2>3. D1 \cap {FriAlpha[i] : i \in 0 .. n} = {}
    BY <1>a, NamesAssumption
  <2>4. C2 = C1 \o Q
    BY DEF C2
  <2> HIDE DEF D1, A1, M1, Q
  <2>5. Section(C1 \o Q, D1 \cup {FriAlpha[i] : i \in 0 .. n}, A1
                \cup {FriCommitment[i] : i \in 1 .. n}, M1 \cup {FriCommitment[i] : i \in 1 .. n})
    BY <1>1, <2>1, <2>3, SectionsJoin
  <2>6. Bound(C1 \o Q, s, {})
    BY <1>1, <2>1, <2>2, BoundsJoin DEF Section
  <2> QED BY <2>4, <2>5, <2>6
<1>3. Section(C3, D3, A3, M3) /\ Bound(C3, s, {})
  <2> DEFINE Q == mix("fri_last_layer")
  <2>1. Section(Q, {}, {"fri_last_layer"}, {})
    BY ScriptTable, RestartTable, DistinctTable, DrawsTable, AbsorbsTable, MakesTable DEF Section
  <2>2. Bound(Q, s, {} \cup A2)
    BY <2>1, NoDraws DEF Section
  <2>3. D2 \cap {} = {}
    OBVIOUS
  <2>4. C3 = C2 \o Q
    BY DEF C3
  <2> HIDE DEF D2, A2, M2, Q
  <2>5. Section(C2 \o Q, D2 \cup {}, A2 \cup {"fri_last_layer"}, M2 \cup {})
    BY <1>2, <2>1, <2>3, SectionsJoin
  <2>6. Bound(C2 \o Q, s, {})
    BY <1>2, <2>1, <2>2, BoundsJoin DEF Section
  <2> QED BY <2>4, <2>5, <2>6
<1>4. Section(C4, D4, A4, M4) /\ Bound(C4, s, {})
  <2> DEFINE Q == draw("query_indices")
  <2>1. Section(Q, {"query_indices"}, {}, {})
    BY ScriptTable, RestartTable, DistinctTable, DrawsTable, AbsorbsTable, MakesTable DEF Section
  <2>2. Bound(Q, s, {} \cup A3)
    BY <1>c, BoundTable
  <2>3. D3 \cap {"query_indices"} = {}
    BY <1>a, NamesAssumption
  <2>4. C4 = C3 \o Q
    BY DEF C4
  <2> HIDE DEF D3, A3, M3, Q
  <2>5. Section(C3 \o Q, D3 \cup {"query_indices"}, A3 \cup {}, M3 \cup {})
    BY <1>3, <2>1, <2>3, SectionsJoin
  <2>6. Bound(C3 \o Q, s, {})
    BY <1>3, <2>1, <2>2, BoundsJoin DEF Section
  <2> QED BY <2>4, <2>5, <2>6
<1>5. M31Lean(n) = C4
  BY DEF M31Lean, C1, C2, C3, C4
<1> QED BY <1>4, <1>5


\* The Felt252 provers.

LEMMA Fri252Sections ==
  ASSUME NEW p, p.alpha_0 # p.alpha_1, NEW s, NEW B,
         MustPrecede(s, p.alpha_0) = {}, MustPrecede(s, p.alpha_1) = {}
  PROVE  /\ Section(fri_commit(p), {p.alpha_0, p.alpha_1}, {p.inner_root, p.last_layer_evals},
                    {p.inner_root, p.last_layer_evals})
         /\ Section(DrawQueries(p), {p.queries}, {}, {p.query_indices})
         /\ Section(fri_build_proof(p), {}, {}, {p.query_decommits})
         /\ Bound(fri_commit(p), s, B)
         /\ MustPrecede(s, p.queries) \subseteq B => Bound(DrawQueries(p), s, B)
<1>1. Section(fri_commit(p), {p.alpha_0, p.alpha_1}, {p.inner_root, p.last_layer_evals},
              {p.inner_root, p.last_layer_evals})
  BY ScriptTable, RestartTable, DistinctTable, DrawsTable, AbsorbsTable, MakesTable
     DEF Section, fri_commit
<1>2. Section(DrawQueries(p), {p.queries}, {}, {p.query_indices})
  BY ScriptTable, RestartTable, DistinctTable, DrawsTable, AbsorbsTable, MakesTable
     DEF Section, DrawQueries
<1>3. Section(fri_build_proof(p), {}, {}, {p.query_decommits})
  BY ScriptTable, RestartTable, DistinctTable, DrawsTable, AbsorbsTable, MakesTable
     DEF Section, fri_build_proof
<1>4. Bound(fri_commit(p), s, B)
  BY ScriptTable, BoundTable DEF fri_commit
<1>5. MustPrecede(s, p.queries) \subseteq B => Bound(DrawQueries(p), s, B)
  BY ScriptTable, BoundTable DEF DrawQueries
<1> QED BY <1>1, <1>2, <1>3, <1>4, <1>5

\* The names of the three proofs of a Cairo proof.
LEMMA SubProofs ==
  /\ Exec.alpha_0 = "alpha_0" /\ Exec.inner_root = "inner_root" /\ Exec.alpha_1 = "alpha_1"
  /\ Exec.last_layer_evals = "last_layer_evals" /\ Exec.queries = "queries"
  /\ Exec.query_indices = "query_indices" /\ Exec.query_decommits = "query_decommits"
  /\ Mem.alpha_0 = "mem_alpha_0" /\ Mem.inner_root = "mem_inner_root" /\ Mem.alpha_1 = "mem_alpha_1"
  /\ Mem.last_layer_evals = "mem_last_layer_evals" /\ Mem.queries = "mem_queries"
  /\ Mem.query_indices = "mem_query_indices" /\ Mem.query_decommits = "mem_query_decommits"
  /\ Rc.alpha_0 = "rc_alpha_0" /\ Rc.inner_root = "rc_inner_root" /\ Rc.alpha_1 = "rc_alpha_1"
  /\ Rc.last_layer_evals = "rc_last_layer_evals" /\ Rc.queries = "rc_queries"
  /\ Rc.query_indices = "rc_query_indices" /\ Rc.query_decommits = "rc_query_decommits"
BY DEF Exec, Mem, Rc

LEMMA Fri252 ==
  ASSUME NEW s, s.protocol # "cairo", NEW B
  PROVE  /\ Section(fri_commit(Exec), {"alpha_0", "alpha_1"}, {"inner_root", "last_layer_evals"},
                    {"inner_root", "last_layer_evals"})
         /\ Section(DrawQueries(Exec), {"queries"}, {}, {"query_indices"})
         /\ Section(fri_build_proof(Exec), {}, {}, {"query_decommits"})
         /\ Bound(fri_commit(Exec), s, B)
         /\ MustPrecede(s, "queries") \subseteq B => Bound(DrawQueries(Exec), s, B)
         /\ Section(fri_commit(Mem), {"mem_alpha_0", "mem_alpha_1"},
                    {"mem_inner_root", "mem_last_layer_evals"},
                    {"mem_inner_root", "mem_last_layer_evals"})
         /\ Section(DrawQueries(Mem), {"mem_queries"}, {}, {"mem_query_indices"})
         /\ Section(fri_build_proof(Mem), {}, {}, {"mem_query_decommits"})
         /\ Bound(fri_commit(Mem), s, B) /\ Bound(DrawQueries(Mem), s, B)
         /\ Section(fri_commit(Rc), {"rc_alpha_0", "rc_alpha_1"},
                    {"rc_inner_root", "rc_last_layer_evals"},
                    {"rc_inner_root", "rc_last_layer_evals"})
         /\ Section(DrawQueries(Rc), {"rc_queries"}, {}, {"rc_query_indices"})
         /\ Section(fri_build_proof(Rc), {}, {}, {"rc_query_decommits"})
         /\ Bound(fri_commit(Rc), s, B) /\ Bound(DrawQueries(Rc), s, B)
<1>1. /\ Section(fri_commit(Exec), {"alpha_0", "alpha_1"}, {"inner_root", "last_layer_evals"},
              {"inner_root", "last_layer_evals"})
      /\ Section(DrawQueries(Exec), {"queries"}, {}, {"query_indices"})
      /\ Section(fri_build_proof(Exec), {}, {}, {"query_decommits"})
      /\ Bound(fri_commit(Exec), s, B)
      /\ MustPrecede(s, "queries") \subseteq B => Bound(DrawQueries(Exec), s, B)
  <2>1. Exec.alpha_0 # Exec.alpha_1 /\ MustPrecede(s, Exec.alpha_0) = {}
          /\ MustPrecede(s, Exec.alpha_1) = {}
    BY SubProofs, StarkPrecedence
  <2> QED BY <2>1, SubProofs, Fri252Sections
<1>2. /\ Section(fri_commit(Mem), {"mem_alpha_0", "mem_alpha_1"},
                 {"mem_inner_root", "mem_last_layer_evals"},
              {"mem_inner_root", "mem_last_layer_evals"})
      /\ Section(DrawQueries(Mem), {"mem_queries"}, {}, {"mem_query_indices"})
      /\ Section(fri_build_proof(Mem), {}, {}, {"mem_query_decommits"})
      /\ Bound(fri_commit(Mem), s, B)
      /\ MustPrecede(s, "mem_queries") \subseteq B => Bound(DrawQueries(Mem), s, B)
  <2>1. Mem.alpha_0 # Mem.alpha_1 /\ MustPrecede(s, Mem.alpha_0) = {}
          /\ MustPrecede(s, Mem.alpha_1) = {}
    BY SubProofs, StarkPrecedence
  <2> QED BY <2>1, SubProofs, Fri252Sections
<1>3. /\ Section(fri_commit(Rc), {"rc_alpha_0", "rc_alpha_1"}, {"rc_inner_root", "rc_last_layer_evals"},
              {"rc_inner_root", "rc_last_layer_evals"})
      /\ Section(DrawQueries(Rc), {"rc_queries"}, {}, {"rc_query_indices"})
      /\ Section(fri_build_proof(Rc), {}, {}, {"rc_query_decommits"})
      /\ Bound(fri_commit(Rc), s, B)
      /\ MustPrecede(s, "rc_queries") \subseteq B => Bound(DrawQueries(Rc), s, B)
  <2>1. Rc.alpha_0 # Rc.alpha_1 /\ MustPrecede(s, Rc.alpha_0) = {} /\ MustPrecede(s, Rc.alpha_1) = {}
    BY SubProofs, StarkPrecedence
  <2> QED BY <2>1, SubProofs, Fri252Sections
<1>4. MustPrecede(s, "mem_queries") = {} /\ MustPrecede(s, "rc_queries") = {}
  BY StarkPrecedence
<1> QED BY <1>1, <1>2, <1>3, <1>4

FibOpening ==
  commit("public_a", {}) \o commit("public_b", {}) \o commit("trace_root", {})
    \o commit("quotient_root", {}) \o commit("q_a", {}) \o commit("q_b", {})

LEMMA FibSection ==
  ASSUME NEW s, s.protocol = "fib252"
  PROVE  /\ Section(fib_prove,
                    {"queries"},
                    {"public_a", "public_b", "trace_root", "quotient_root", "q_a", "q_b"},
                    {"public_a", "public_b", "trace_root", "quotient_root", "q_a", "q_b"}
                    \cup {"query_indices"} \cup {"trace_decommits", "quotient_decommits",
                                                 "n_trace_decommits", "n_quotient_decommits"})
         /\ Bound(fib_prove, s, {})
<1> DEFINE C1 == FibOpening
           C2 == C1 \o DrawQueries(Exec)
           C3 == C2 \o make({"trace_decommits", "quotient_decommits", "n_trace_decommits",
                             "n_quotient_decommits"}, {"queries"})
           D1 == {}
           D2 == D1 \cup {"queries"}
           D3 == D2
           A1 == {"public_a", "public_b", "trace_root", "quotient_root", "q_a", "q_b"}
           A2 == A1
           A3 == A2
           M1 == {"public_a", "public_b", "trace_root", "quotient_root", "q_a", "q_b"}
           M2 == M1 \cup {"query_indices"}
           M3 == M2 \cup {"trace_decommits", "quotient_decommits", "n_trace_decommits",
                          "n_quotient_decommits"}
<1>a. s.protocol # "cairo"
  OBVIOUS
<1>1. Section(C1, D1, A1, M1) /\ Bound(C1, s, {})
  <2>1. Section(C1, D1, A1, M1)
    BY ScriptTable, RestartTable, DistinctTable, DrawsTable, AbsorbsTable, MakesTable
       DEF Section, FibOpening
  <2> QED BY <2>1, NoDraws DEF Section
<1> HIDE DEF C1, C2, C3
<1>2. Section(C2, D2, A2, M2) /\ Bound(C2, s, {})
  <2> DEFINE Q == DrawQueries(Exec)
  <2>1. Section(Q, {"queries"}, {}, {"query_indices"})
    BY <1>a, Fri252
  <2>2. Bound(Q, s, {} \cup A1)
    BY <1>a, Fri252, StarkPrecedence
  <2>3. D1 \cap {"queries"} = {}
    OBVIOUS
  <2>4. C2 = C1 \o Q
    BY DEF C2
  <2> HIDE DEF D1, A1, M1, Q
  <2>5. Section(C1 \o Q, D1 \cup {"queries"}, A1 \cup {}, M1 \cup {"query_indices"})
    BY <1>1, <2>1, <2>3, SectionsJoin
  <2>6. Bound(C1 \o Q, s, {})
    BY <1>1, <2>1, <2>2, BoundsJoin DEF Section
  <2> QED BY <2>4, <2>5, <2>6
<1>3. Section(C3, D3, A3, M3) /\ Bound(C3, s, {})
  <2> DEFINE Q == make({"trace_decommits", "quotient_decommits", "n_trace_decommits",
                        "n_quotient_decommits"}, {"queries"})
  <2>1. Section(Q, {}, {}, {"trace_decommits", "quotient_decommits", "n_trace_decommits",
                            "n_quotient_decommits"})
    BY ScriptTable, RestartTable, DistinctTable, DrawsTable, AbsorbsTable, MakesTable DEF Section
  <2>2. Bound(Q, s, {} \cup A2)
    BY <2>1, NoDraws DEF Section
  <2>3. D2 \cap {} = {}
    OBVIOUS
  <2>4. C3 = C2 \o Q
    BY DEF C3
  <2> HIDE DEF D2, A2, M2, Q
  <2>5. Section(C2 \o Q, D2 \cup {}, A2 \cup {},
                M2 \cup {"trace_decommits", "quotient_decommits", "n_trace_decommits",
                         "n_quotient_decommits"})
    BY <1>2, <2>1, <2>3, SectionsJoin
  <2>6. Bound(C2 \o Q, s, {})
    BY <1>2, <2>1, <2>2, BoundsJoin DEF Section
  <2> QED BY <2>4, <2>5, <2>6
<1>4. fib_prove = C3
  BY DEF fib_prove, FibOpening, C1, C2, C3
<1> QED BY <1>3, <1>4

AirOpening == commit("public_inputs", {}) \o commit("trace_root", {}) \o commit("quotient_root", {})

LEMMA AirSection ==
  ASSUME NEW s, s.protocol = "air252"
  PROVE  /\ Section(air_prove,
                    {"alpha_0", "alpha_1"} \cup {"queries"},
                    {"public_inputs", "trace_root", "quotient_root"}
                    \cup {"inner_root", "last_layer_evals"},
                    {"public_inputs", "trace_root", "quotient_root"}
                    \cup {"inner_root", "last_layer_evals"} \cup {"query_indices"}
                    \cup {"trace_decommits", "n_trace_decommits"} \cup {"query_decommits"})
         /\ Bound(air_prove, s, {})
<1> DEFINE C1 == AirOpening
           C2 == C1 \o fri_commit(Exec)
           C3 == C2 \o DrawQueries(Exec)
           C4 == C3 \o make({"trace_decommits", "n_trace_decommits"}, {"queries"})
           C5 == C4 \o fri_build_proof(Exec)
           D1 == {}
           D2 == D1 \cup {"alpha_0", "alpha_1"}
           D3 == D2 \cup {"queries"}
           D4 == D3
           D5 == D4
           A1 == {"public_inputs", "trace_root", "quotient_root"}
           A2 == A1 \cup {"inner_root", "last_layer_evals"}
           A3 == A2
           A4 == A3
           A5 == A4
           M1 == {"public_inputs", "trace_root", "quotient_root"}
           M2 == M1 \cup {"inner_root", "last_layer_evals"}
           M3 == M2 \cup {"query_indices"}
           M4 == M3 \cup {"trace_decommits", "n_trace_decommits"}
           M5 == M4 \cup {"query_decommits"}
<1>a. s.protocol # "cairo"
  OBVIOUS
<1>1. Section(C1, D1, A1, M1) /\ Bound(C1, s, {})
  <2>1. Section(C1, D1, A1, M1)
    BY ScriptTable, RestartTable, DistinctTable, DrawsTable, AbsorbsTable, MakesTable
       DEF Section, AirOpening
  <2> QED BY <2>1, NoDraws DEF Section
<1> HIDE DEF C1, C2, C3, C4, C5
<1>2. Section(C2, D2, A2, M2) /\ Bound(C2, s, {})
  <2> DEFINE Q == fri_commit(Exec)
  <2>1. Section(Q, {"alpha_0", "alpha_1"}, {"inner_root", "last_layer_evals"},
                {"inner_root", "last_layer_evals"})
    BY <1>a, Fri252
  <2>2. Bound(Q, s, {} \cup A1)
    BY <1>a, Fri252
  <2>3. D1 \cap {"alpha_0", "alpha_1"} = {}
    OBVIOUS
  <2>4. C2 = C1 \o Q
    BY DEF C2
  <2> HIDE DEF D1, A1, M1, Q
  <2>5. Section(C1 \o Q, D1 \cup {"alpha_0", "alpha_1"}, A1 \cup {"inner_root", "last_layer_evals"}, M1
                \cup {"inner_root", "last_layer_evals"})
    BY <1>1, <2>1, <2>3, SectionsJoin
  <2>6. Bound(C1 \o Q, s, {})
    BY <1>1, <2>1, <2>2, BoundsJoin DEF Section
  <2> QED BY <2>4, <2>5, <2>6
<1>3. Section(C3, D3, A3, M3) /\ Bound(C3, s, {})
  <2> DEFINE Q == DrawQueries(Exec)
  <2>1. Section(Q, {"queries"}, {}, {"query_indices"})
    BY <1>a, Fri252
  <2>2. Bound(Q, s, {} \cup A2)
    BY <1>a, Fri252, StarkPrecedence
  <2>3. D2 \cap {"queries"} = {}
    OBVIOUS
  <2>4. C3 = C2 \o Q
    BY DEF C3
  <2> HIDE DEF D2, A2, M2, Q
  <2>5. Section(C2 \o Q, D2 \cup {"queries"}, A2 \cup {}, M2 \cup {"query_indices"})
    BY <1>2, <2>1, <2>3, SectionsJoin
  <2>6. Bound(C2 \o Q, s, {})
    BY <1>2, <2>1, <2>2, BoundsJoin DEF Section
  <2> QED BY <2>4, <2>5, <2>6
<1>4. Section(C4, D4, A4, M4) /\ Bound(C4, s, {})
  <2> DEFINE Q == make({"trace_decommits", "n_trace_decommits"}, {"queries"})
  <2>1. Section(Q, {}, {}, {"trace_decommits", "n_trace_decommits"})
    BY ScriptTable, RestartTable, DistinctTable, DrawsTable, AbsorbsTable, MakesTable DEF Section
  <2>2. Bound(Q, s, {} \cup A3)
    BY <2>1, NoDraws DEF Section
  <2>3. D3 \cap {} = {}
    OBVIOUS
  <2>4. C4 = C3 \o Q
    BY DEF C4
  <2> HIDE DEF D3, A3, M3, Q
  <2>5. Section(C3 \o Q, D3 \cup {}, A3 \cup {}, M3 \cup {"trace_decommits", "n_trace_decommits"})
    BY <1>3, <2>1, <2>3, SectionsJoin
  <2>6. Bound(C3 \o Q, s, {})
    BY <1>3, <2>1, <2>2, BoundsJoin DEF Section
  <2> QED BY <2>4, <2>5, <2>6
<1>5. Section(C5, D5, A5, M5) /\ Bound(C5, s, {})
  <2> DEFINE Q == fri_build_proof(Exec)
  <2>1. Section(Q, {}, {}, {"query_decommits"})
    BY <1>a, Fri252
  <2>2. Bound(Q, s, {} \cup A4)
    BY <2>1, NoDraws DEF Section
  <2>3. D4 \cap {} = {}
    OBVIOUS
  <2>4. C5 = C4 \o Q
    BY DEF C5
  <2> HIDE DEF D4, A4, M4, Q
  <2>5. Section(C4 \o Q, D4 \cup {}, A4 \cup {}, M4 \cup {"query_decommits"})
    BY <1>4, <2>1, <2>3, SectionsJoin
  <2>6. Bound(C4 \o Q, s, {})
    BY <1>4, <2>1, <2>2, BoundsJoin DEF Section
  <2> QED BY <2>4, <2>5, <2>6
<1>6. air_prove = C5
  BY DEF air_prove, AirOpening, C1, C2, C3, C4, C5
<1> QED BY <1>5, <1>6

MultiOpening ==
  commit("public_inputs", {}) \o commit("col_roots", {}) \o draw("alphas")
    \o commit("quotient_root", {"alphas"})

LEMMA MultiSection ==
  ASSUME NEW s, s.protocol \in {"multi252", "cairo252"}
  PROVE  /\ Section(prove_multi,
                    {"alphas"} \cup {"alpha_0", "alpha_1"} \cup {"queries"},
                    {"public_inputs", "col_roots", "quotient_root"}
                    \cup {"inner_root", "last_layer_evals"},
                    {"public_inputs", "col_roots", "quotient_root"}
                    \cup {"inner_root", "last_layer_evals"} \cup {"query_indices"}
                    \cup {"trace_decommits", "n_trace_decommits"} \cup {"query_decommits"})
         /\ Bound(prove_multi, s, {})
<1> DEFINE C1 == MultiOpening
           C2 == C1 \o fri_commit(Exec)
           C3 == C2 \o DrawQueries(Exec)
           C4 == C3 \o make({"trace_decommits", "n_trace_decommits"}, {"queries"})
           C5 == C4 \o fri_build_proof(Exec)
           D1 == {"alphas"}
           D2 == D1 \cup {"alpha_0", "alpha_1"}
           D3 == D2 \cup {"queries"}
           D4 == D3
           D5 == D4
           A1 == {"public_inputs", "col_roots", "quotient_root"}
           A2 == A1 \cup {"inner_root", "last_layer_evals"}
           A3 == A2
           A4 == A3
           A5 == A4
           M1 == {"public_inputs", "col_roots", "quotient_root"}
           M2 == M1 \cup {"inner_root", "last_layer_evals"}
           M3 == M2 \cup {"query_indices"}
           M4 == M3 \cup {"trace_decommits", "n_trace_decommits"}
           M5 == M4 \cup {"query_decommits"}
<1>a. s.protocol # "cairo"
  OBVIOUS
<1>b. Bound(MultiOpening, s, {})
  BY StarkPrecedence, ScriptTable, BoundTable DEF MultiOpening
<1>1. Section(C1, D1, A1, M1) /\ Bound(C1, s, {})
  <2>1. Section(C1, D1, A1, M1)
    BY ScriptTable, RestartTable, DistinctTable, DrawsTable, AbsorbsTable, MakesTable
       DEF Section, MultiOpening
  <2> QED BY <2>1, <1>b
<1> HIDE DEF C1, C2, C3, C4, C5
<1>2. Section(C2, D2, A2, M2) /\ Bound(C2, s, {})
  <2> DEFINE Q == fri_commit(Exec)
  <2>1. Section(Q, {"alpha_0", "alpha_1"}, {"inner_root", "last_layer_evals"},
                {"inner_root", "last_layer_evals"})
    BY <1>a, Fri252
  <2>2. Bound(Q, s, {} \cup A1)
    BY <1>a, Fri252
  <2>3. D1 \cap {"alpha_0", "alpha_1"} = {}
    OBVIOUS
  <2>4. C2 = C1 \o Q
    BY DEF C2
  <2> HIDE DEF D1, A1, M1, Q
  <2>5. Section(C1 \o Q, D1 \cup {"alpha_0", "alpha_1"}, A1 \cup {"inner_root", "last_layer_evals"}, M1
                \cup {"inner_root", "last_layer_evals"})
    BY <1>1, <2>1, <2>3, SectionsJoin
  <2>6. Bound(C1 \o Q, s, {})
    BY <1>1, <2>1, <2>2, BoundsJoin DEF Section
  <2> QED BY <2>4, <2>5, <2>6
<1>3. Section(C3, D3, A3, M3) /\ Bound(C3, s, {})
  <2> DEFINE Q == DrawQueries(Exec)
  <2>1. Section(Q, {"queries"}, {}, {"query_indices"})
    BY <1>a, Fri252
  <2>2. Bound(Q, s, {} \cup A2)
    BY <1>a, Fri252, StarkPrecedence
  <2>3. D2 \cap {"queries"} = {}
    OBVIOUS
  <2>4. C3 = C2 \o Q
    BY DEF C3
  <2> HIDE DEF D2, A2, M2, Q
  <2>5. Section(C2 \o Q, D2 \cup {"queries"}, A2 \cup {}, M2 \cup {"query_indices"})
    BY <1>2, <2>1, <2>3, SectionsJoin
  <2>6. Bound(C2 \o Q, s, {})
    BY <1>2, <2>1, <2>2, BoundsJoin DEF Section
  <2> QED BY <2>4, <2>5, <2>6
<1>4. Section(C4, D4, A4, M4) /\ Bound(C4, s, {})
  <2> DEFINE Q == make({"trace_decommits", "n_trace_decommits"}, {"queries"})
  <2>1. Section(Q, {}, {}, {"trace_decommits", "n_trace_decommits"})
    BY ScriptTable, RestartTable, DistinctTable, DrawsTable, AbsorbsTable, MakesTable DEF Section
  <2>2. Bound(Q, s, {} \cup A3)
    BY <2>1, NoDraws DEF Section
  <2>3. D3 \cap {} = {}
    OBVIOUS
  <2>4. C4 = C3 \o Q
    BY DEF C4
  <2> HIDE DEF D3, A3, M3, Q
  <2>5. Section(C3 \o Q, D3 \cup {}, A3 \cup {}, M3 \cup {"trace_decommits", "n_trace_decommits"})
    BY <1>3, <2>1, <2>3, SectionsJoin
  <2>6. Bound(C3 \o Q, s, {})
    BY <1>3, <2>1, <2>2, BoundsJoin DEF Section
  <2> QED BY <2>4, <2>5, <2>6
<1>5. Section(C5, D5, A5, M5) /\ Bound(C5, s, {})
  <2> DEFINE Q == fri_build_proof(Exec)
  <2>1. Section(Q, {}, {}, {"query_decommits"})
    BY <1>a, Fri252
  <2>2. Bound(Q, s, {} \cup A4)
    BY <2>1, NoDraws DEF Section
  <2>3. D4 \cap {} = {}
    OBVIOUS
  <2>4. C5 = C4 \o Q
    BY DEF C5
  <2> HIDE DEF D4, A4, M4, Q
  <2>5. Section(C4 \o Q, D4 \cup {}, A4 \cup {}, M4 \cup {"query_decommits"})
    BY <1>4, <2>1, <2>3, SectionsJoin
  <2>6. Bound(C4 \o Q, s, {})
    BY <1>4, <2>1, <2>2, BoundsJoin DEF Section
  <2> QED BY <2>4, <2>5, <2>6
<1>6. prove_multi = C5
  BY DEF prove_multi, MultiOpening, C1, C2, C3, C4, C5
<1> QED BY <1>5, <1>6

MemOpening ==
  draw("mem_z") \o draw("mem_alpha") \o make({"mem_exec_sum"}, {"mem_z", "mem_alpha"})
    \o commit("mem_s_root", {"mem_z", "mem_alpha"}) \o make({"mem_table"}, {})
    \o commit("mem_q_root", {"mem_z", "mem_alpha"})
RcOpening ==
  draw("rc_z") \o make({"rc_exec_sum"}, {"rc_z"}) \o commit("rc_s_root", {"rc_z"})
    \o make({"rc_mults"}, {}) \o commit("rc_q_root", {"rc_z"})

LEMMA OpeningsBound ==
  ASSUME NEW s, s.protocol # "cairo", NEW B
  PROVE  /\ {"col_roots", "quotient_root", "last_layer_evals"} \subseteq B => Bound(MemOpening, s, B)
         /\ {"mem_s_root", "mem_q_root", "mem_last_layer_evals"} \subseteq B => Bound(RcOpening, s, B)
<1>1. ASSUME {"col_roots", "quotient_root", "last_layer_evals"} \subseteq B
      PROVE Bound(MemOpening, s, B)
  <2> DEFINE X == draw("mem_z")
             Y == draw("mem_alpha")
  <2>1. Bound(X, s, B) /\ \A A : Bound(Y, s, B \cup A)
    <3>1. MustPrecede(s, "mem_z") \subseteq B /\ \A A : MustPrecede(s, "mem_alpha") \subseteq B \cup A
      BY <1>1, StarkPrecedence
    <3> QED BY <3>1, BoundTable
  <2>2. IsScript(X) /\ IsScript(Y)
    BY ScriptTable
  <2>3. MemOpening = X \o Y \o make({"mem_exec_sum"}, {"mem_z", "mem_alpha"})
                       \o commit("mem_s_root", {"mem_z", "mem_alpha"}) \o make({"mem_table"}, {})
                       \o commit("mem_q_root", {"mem_z", "mem_alpha"})
    BY DEF MemOpening
  <2> HIDE DEF X, Y
  <2>4. IsScript(X \o Y) /\ Bound(X \o Y, s, B)
    BY <2>1, <2>2, Joins, BoundsJoin
  <2> QED BY <2>3, <2>4, ScriptTable, BoundTable
<1>2. ASSUME {"mem_s_root", "mem_q_root", "mem_last_layer_evals"} \subseteq B
      PROVE Bound(RcOpening, s, B)
  <2>1. MustPrecede(s, "rc_z") \subseteq B
    BY <1>2, StarkPrecedence
  <2> QED BY <2>1, ScriptTable, BoundTable DEF RcOpening
<1> QED BY <1>1, <1>2

LEMMA MemSection ==
  ASSUME NEW s, s.protocol = "cairo252", NEW B,
         {"col_roots", "quotient_root", "last_layer_evals"} \subseteq B
  PROVE  /\ Section(prove_memory_logup,
                    {"mem_z", "mem_alpha"} \cup {"mem_alpha_0", "mem_alpha_1"} \cup {"mem_queries"},
                    {"mem_s_root", "mem_q_root"} \cup {"mem_inner_root", "mem_last_layer_evals"},
                    {"mem_exec_sum", "mem_s_root", "mem_table", "mem_q_root"}
                    \cup {"mem_inner_root", "mem_last_layer_evals"} \cup {"mem_query_indices"}
                    \cup {"mem_decommits", "n_mem_decommits", "mem_access_paths"}
                        \cup {"mem_query_decommits"})
         /\ Bound(prove_memory_logup, s, B)
<1> DEFINE C1 == MemOpening
           C2 == C1 \o fri_commit(Mem)
           C3 == C2 \o DrawQueries(Mem)
           C4 == C3 \o make({"mem_decommits", "n_mem_decommits", "mem_access_paths"},
                            {"mem_queries"})
           C5 == C4 \o fri_build_proof(Mem)
           D1 == {"mem_z", "mem_alpha"}
           D2 == D1 \cup {"mem_alpha_0", "mem_alpha_1"}
           D3 == D2 \cup {"mem_queries"}
           D4 == D3
           D5 == D4
           A1 == {"mem_s_root", "mem_q_root"}
           A2 == A1 \cup {"mem_inner_root", "mem_last_layer_evals"}
           A3 == A2
           A4 == A3
           A5 == A4
           M1 == {"mem_exec_sum", "mem_s_root", "mem_table", "mem_q_root"}
           M2 == M1 \cup {"mem_inner_root", "mem_last_layer_evals"}
           M3 == M2 \cup {"mem_query_indices"}
           M4 == M3 \cup {"mem_decommits", "n_mem_decommits", "mem_access_paths"}
           M5 == M4 \cup {"mem_query_decommits"}
<1>a. s.protocol # "cairo"
  OBVIOUS
<1>1. Section(C1, D1, A1, M1) /\ Bound(C1, s, B)
  <2>1. Section(C1, D1, A1, M1)
    BY ScriptTable, RestartTable, DistinctTable, DrawsTable, AbsorbsTable, MakesTable
       DEF Section, MemOpening
  <2> QED BY <2>1, <1>a, OpeningsBound
<1> HIDE DEF C1, C2, C3, C4, C5
<1>2. Section(C2, D2, A2, M2) /\ Bound(C2, s, B)
  <2> DEFINE Q == fri_commit(Mem)
  <2>1. Section(Q, {"mem_alpha_0", "mem_alpha_1"}, {"mem_inner_root", "mem_last_layer_evals"},
                {"mem_inner_root", "mem_last_layer_evals"})
    BY <1>a, Fri252
  <2>2. Bound(Q, s, B \cup A1)
    BY <1>a, Fri252
  <2>3. D1 \cap {"mem_alpha_0", "mem_alpha_1"} = {}
    OBVIOUS
  <2>4. C2 = C1 \o Q
    BY DEF C2
  <2> HIDE DEF D1, A1, M1, Q
  <2>5. Section(C1 \o Q, D1 \cup {"mem_alpha_0", "mem_alpha_1"}, A1
                \cup {"mem_inner_root", "mem_last_layer_evals"}, M1
                \cup {"mem_inner_root", "mem_last_layer_evals"})
    BY <1>1, <2>1, <2>3, SectionsJoin
  <2>6. Bound(C1 \o Q, s, B)
    BY <1>1, <2>1, <2>2, BoundsJoin DEF Section
  <2> QED BY <2>4, <2>5, <2>6
<1>3. Section(C3, D3, A3, M3) /\ Bound(C3, s, B)
  <2> DEFINE Q == DrawQueries(Mem)
  <2>1. Section(Q, {"mem_queries"}, {}, {"mem_query_indices"})
    BY <1>a, Fri252
  <2>2. Bound(Q, s, B \cup A2)
    BY <1>a, Fri252
  <2>3. D2 \cap {"mem_queries"} = {}
    OBVIOUS
  <2>4. C3 = C2 \o Q
    BY DEF C3
  <2> HIDE DEF D2, A2, M2, Q
  <2>5. Section(C2 \o Q, D2 \cup {"mem_queries"}, A2 \cup {}, M2 \cup {"mem_query_indices"})
    BY <1>2, <2>1, <2>3, SectionsJoin
  <2>6. Bound(C2 \o Q, s, B)
    BY <1>2, <2>1, <2>2, BoundsJoin DEF Section
  <2> QED BY <2>4, <2>5, <2>6
<1>4. Section(C4, D4, A4, M4) /\ Bound(C4, s, B)
  <2> DEFINE Q == make({"mem_decommits", "n_mem_decommits", "mem_access_paths"}, {"mem_queries"})
  <2>1. Section(Q, {}, {}, {"mem_decommits", "n_mem_decommits", "mem_access_paths"})
    BY ScriptTable, RestartTable, DistinctTable, DrawsTable, AbsorbsTable, MakesTable DEF Section
  <2>2. Bound(Q, s, B \cup A3)
    BY <2>1, NoDraws DEF Section
  <2>3. D3 \cap {} = {}
    OBVIOUS
  <2>4. C4 = C3 \o Q
    BY DEF C4
  <2> HIDE DEF D3, A3, M3, Q
  <2>5. Section(C3 \o Q, D3 \cup {}, A3 \cup {}, M3 \cup {"mem_decommits", "n_mem_decommits",
                                                          "mem_access_paths"})
    BY <1>3, <2>1, <2>3, SectionsJoin
  <2>6. Bound(C3 \o Q, s, B)
    BY <1>3, <2>1, <2>2, BoundsJoin DEF Section
  <2> QED BY <2>4, <2>5, <2>6
<1>5. Section(C5, D5, A5, M5) /\ Bound(C5, s, B)
  <2> DEFINE Q == fri_build_proof(Mem)
  <2>1. Section(Q, {}, {}, {"mem_query_decommits"})
    BY <1>a, Fri252
  <2>2. Bound(Q, s, B \cup A4)
    BY <2>1, NoDraws DEF Section
  <2>3. D4 \cap {} = {}
    OBVIOUS
  <2>4. C5 = C4 \o Q
    BY DEF C5
  <2> HIDE DEF D4, A4, M4, Q
  <2>5. Section(C4 \o Q, D4 \cup {}, A4 \cup {}, M4 \cup {"mem_query_decommits"})
    BY <1>4, <2>1, <2>3, SectionsJoin
  <2>6. Bound(C4 \o Q, s, B)
    BY <1>4, <2>1, <2>2, BoundsJoin DEF Section
  <2> QED BY <2>4, <2>5, <2>6
<1>6. prove_memory_logup = C5
  BY DEF prove_memory_logup, MemOpening, C1, C2, C3, C4, C5
<1> QED BY <1>5, <1>6

LEMMA RcSection ==
  ASSUME NEW s, s.protocol = "cairo252", NEW B,
         {"mem_s_root", "mem_q_root", "mem_last_layer_evals"} \subseteq B
  PROVE  /\ Section(prove_range_check,
                    {"rc_z"} \cup {"rc_alpha_0", "rc_alpha_1"} \cup {"rc_queries"},
                    {"rc_s_root", "rc_q_root"} \cup {"rc_inner_root", "rc_last_layer_evals"},
                    {"rc_exec_sum", "rc_s_root", "rc_mults", "rc_q_root"}
                    \cup {"rc_inner_root", "rc_last_layer_evals"} \cup {"rc_query_indices"}
                    \cup {"rc_decommits", "n_rc_decommits"} \cup {"rc_query_decommits"})
         /\ Bound(prove_range_check, s, B)
<1> DEFINE C1 == RcOpening
           C2 == C1 \o fri_commit(Rc)
           C3 == C2 \o DrawQueries(Rc)
           C4 == C3 \o make({"rc_decommits", "n_rc_decommits"}, {"rc_queries"})
           C5 == C4 \o fri_build_proof(Rc)
           D1 == {"rc_z"}
           D2 == D1 \cup {"rc_alpha_0", "rc_alpha_1"}
           D3 == D2 \cup {"rc_queries"}
           D4 == D3
           D5 == D4
           A1 == {"rc_s_root", "rc_q_root"}
           A2 == A1 \cup {"rc_inner_root", "rc_last_layer_evals"}
           A3 == A2
           A4 == A3
           A5 == A4
           M1 == {"rc_exec_sum", "rc_s_root", "rc_mults", "rc_q_root"}
           M2 == M1 \cup {"rc_inner_root", "rc_last_layer_evals"}
           M3 == M2 \cup {"rc_query_indices"}
           M4 == M3 \cup {"rc_decommits", "n_rc_decommits"}
           M5 == M4 \cup {"rc_query_decommits"}
<1>a. s.protocol # "cairo"
  OBVIOUS
<1>1. Section(C1, D1, A1, M1) /\ Bound(C1, s, B)
  <2>1. Section(C1, D1, A1, M1)
    BY ScriptTable, RestartTable, DistinctTable, DrawsTable, AbsorbsTable, MakesTable
       DEF Section, RcOpening
  <2> QED BY <2>1, <1>a, OpeningsBound
<1> HIDE DEF C1, C2, C3, C4, C5
<1>2. Section(C2, D2, A2, M2) /\ Bound(C2, s, B)
  <2> DEFINE Q == fri_commit(Rc)
  <2>1. Section(Q, {"rc_alpha_0", "rc_alpha_1"}, {"rc_inner_root", "rc_last_layer_evals"},
                {"rc_inner_root", "rc_last_layer_evals"})
    BY <1>a, Fri252
  <2>2. Bound(Q, s, B \cup A1)
    BY <1>a, Fri252
  <2>3. D1 \cap {"rc_alpha_0", "rc_alpha_1"} = {}
    OBVIOUS
  <2>4. C2 = C1 \o Q
    BY DEF C2
  <2> HIDE DEF D1, A1, M1, Q
  <2>5. Section(C1 \o Q, D1 \cup {"rc_alpha_0", "rc_alpha_1"}, A1
                \cup {"rc_inner_root", "rc_last_layer_evals"}, M1
                \cup {"rc_inner_root", "rc_last_layer_evals"})
    BY <1>1, <2>1, <2>3, SectionsJoin
  <2>6. Bound(C1 \o Q, s, B)
    BY <1>1, <2>1, <2>2, BoundsJoin DEF Section
  <2> QED BY <2>4, <2>5, <2>6
<1>3. Section(C3, D3, A3, M3) /\ Bound(C3, s, B)
  <2> DEFINE Q == DrawQueries(Rc)
  <2>1. Section(Q, {"rc_queries"}, {}, {"rc_query_indices"})
    BY <1>a, Fri252
  <2>2. Bound(Q, s, B \cup A2)
    BY <1>a, Fri252
  <2>3. D2 \cap {"rc_queries"} = {}
    OBVIOUS
  <2>4. C3 = C2 \o Q
    BY DEF C3
  <2> HIDE DEF D2, A2, M2, Q
  <2>5. Section(C2 \o Q, D2 \cup {"rc_queries"}, A2 \cup {}, M2 \cup {"rc_query_indices"})
    BY <1>2, <2>1, <2>3, SectionsJoin
  <2>6. Bound(C2 \o Q, s, B)
    BY <1>2, <2>1, <2>2, BoundsJoin DEF Section
  <2> QED BY <2>4, <2>5, <2>6
<1>4. Section(C4, D4, A4, M4) /\ Bound(C4, s, B)
  <2> DEFINE Q == make({"rc_decommits", "n_rc_decommits"}, {"rc_queries"})
  <2>1. Section(Q, {}, {}, {"rc_decommits", "n_rc_decommits"})
    BY ScriptTable, RestartTable, DistinctTable, DrawsTable, AbsorbsTable, MakesTable DEF Section
  <2>2. Bound(Q, s, B \cup A3)
    BY <2>1, NoDraws DEF Section
  <2>3. D3 \cap {} = {}
    OBVIOUS
  <2>4. C4 = C3 \o Q
    BY DEF C4
  <2> HIDE DEF D3, A3, M3, Q
  <2>5. Section(C3 \o Q, D3 \cup {}, A3 \cup {}, M3 \cup {"rc_decommits", "n_rc_decommits"})
    BY <1>3, <2>1, <2>3, SectionsJoin
  <2>6. Bound(C3 \o Q, s, B)
    BY <1>3, <2>1, <2>2, BoundsJoin DEF Section
  <2> QED BY <2>4, <2>5, <2>6
<1>5. Section(C5, D5, A5, M5) /\ Bound(C5, s, B)
  <2> DEFINE Q == fri_build_proof(Rc)
  <2>1. Section(Q, {}, {}, {"rc_query_decommits"})
    BY <1>a, Fri252
  <2>2. Bound(Q, s, B \cup A4)
    BY <2>1, NoDraws DEF Section
  <2>3. D4 \cap {} = {}
    OBVIOUS
  <2>4. C5 = C4 \o Q
    BY DEF C5
  <2> HIDE DEF D4, A4, M4, Q
  <2>5. Section(C4 \o Q, D4 \cup {}, A4 \cup {}, M4 \cup {"rc_query_decommits"})
    BY <1>4, <2>1, <2>3, SectionsJoin
  <2>6. Bound(C4 \o Q, s, B)
    BY <1>4, <2>1, <2>2, BoundsJoin DEF Section
  <2> QED BY <2>4, <2>5, <2>6
<1>6. prove_range_check = C5
  BY DEF prove_range_check, RcOpening, C1, C2, C3, C4, C5
<1> QED BY <1>5, <1>6

\* The three proofs of a Cairo proof, without the channel made again between them.
Cairo252Lean == prove_multi \o prove_memory_logup \o prove_range_check

LEMMA Cairo252Section ==
  ASSUME NEW s, s.protocol = "cairo252"
  PROVE  /\ Section(Cairo252Lean,
                    ({"alphas"} \cup {"alpha_0", "alpha_1"} \cup {"queries"})
                    \cup ({"mem_z", "mem_alpha"} \cup {"mem_alpha_0", "mem_alpha_1"}
                          \cup {"mem_queries"})
                          \cup ({"rc_z"} \cup {"rc_alpha_0", "rc_alpha_1"} \cup {"rc_queries"}),
                    ({"public_inputs", "col_roots", "quotient_root"}
                     \cup {"inner_root", "last_layer_evals"})
                     \cup ({"mem_s_root", "mem_q_root"}
                           \cup {"mem_inner_root", "mem_last_layer_evals"})
                           \cup ({"rc_s_root", "rc_q_root"}
                                 \cup {"rc_inner_root", "rc_last_layer_evals"}),
                    ({"public_inputs", "col_roots", "quotient_root"}
                     \cup {"inner_root", "last_layer_evals"} \cup {"query_indices"}
                     \cup {"trace_decommits", "n_trace_decommits"} \cup {"query_decommits"})
                     \cup ({"mem_exec_sum", "mem_s_root", "mem_table", "mem_q_root"}
                           \cup {"mem_inner_root", "mem_last_layer_evals"} \cup {"mem_query_indices"}
                           \cup {"mem_decommits", "n_mem_decommits", "mem_access_paths"}
                               \cup {"mem_query_decommits"})
                           \cup ({"rc_exec_sum", "rc_s_root", "rc_mults", "rc_q_root"}
                                 \cup {"rc_inner_root", "rc_last_layer_evals"}
                                 \cup {"rc_query_indices"} \cup {"rc_decommits", "n_rc_decommits"}
                                 \cup {"rc_query_decommits"}))
         /\ Bound(Cairo252Lean, s, {})
<1> DEFINE C1 == prove_multi
           C2 == C1 \o prove_memory_logup
           C3 == C2 \o prove_range_check
           D1 == ({"alphas"} \cup {"alpha_0", "alpha_1"} \cup {"queries"})
           D2 == D1 \cup ({"mem_z", "mem_alpha"} \cup {"mem_alpha_0", "mem_alpha_1"}
                          \cup {"mem_queries"})
           D3 == D2 \cup ({"rc_z"} \cup {"rc_alpha_0", "rc_alpha_1"} \cup {"rc_queries"})
           A1 == ({"public_inputs", "col_roots", "quotient_root"}
                  \cup {"inner_root", "last_layer_evals"})
           A2 == A1 \cup ({"mem_s_root", "mem_q_root"} \cup {"mem_inner_root", "mem_last_layer_evals"})
           A3 == A2 \cup ({"rc_s_root", "rc_q_root"} \cup {"rc_inner_root", "rc_last_layer_evals"})
           M1 == ({"public_inputs", "col_roots", "quotient_root"}
                  \cup {"inner_root", "last_layer_evals"} \cup {"query_indices"}
                  \cup {"trace_decommits", "n_trace_decommits"} \cup {"query_decommits"})
           M2 == M1 \cup ({"mem_exec_sum", "mem_s_root", "mem_table", "mem_q_root"}
                          \cup {"mem_inner_root", "mem_last_layer_evals"} \cup {"mem_query_indices"}
                          \cup {"mem_decommits", "n_mem_decommits", "mem_access_paths"}
                              \cup {"mem_query_decommits"})
           M3 == M2 \cup ({"rc_exec_sum", "rc_s_root", "rc_mults", "rc_q_root"}
                          \cup {"rc_inner_root", "rc_last_layer_evals"} \cup {"rc_query_indices"}
                          \cup {"rc_decommits", "n_rc_decommits"} \cup {"rc_query_decommits"})
<1>a. {"col_roots", "quotient_root", "last_layer_evals"} \subseteq {} \cup A1
  OBVIOUS
<1>b. {"mem_s_root", "mem_q_root", "mem_last_layer_evals"} \subseteq {} \cup A2
  OBVIOUS
<1>1. Section(C1, D1, A1, M1) /\ Bound(C1, s, {})
  <2>1. Section(C1, D1, A1, M1)
    BY MultiSection
  <2> QED BY <2>1, MultiSection
<1> HIDE DEF C1, C2, C3
<1>2. Section(C2, D2, A2, M2) /\ Bound(C2, s, {})
  <2> DEFINE Q == prove_memory_logup
  <2>1. Section(Q, ({"mem_z", "mem_alpha"} \cup {"mem_alpha_0", "mem_alpha_1"} \cup {"mem_queries"}),
                ({"mem_s_root", "mem_q_root"} \cup {"mem_inner_root", "mem_last_layer_evals"}),
                ({"mem_exec_sum", "mem_s_root", "mem_table", "mem_q_root"}
                 \cup {"mem_inner_root", "mem_last_layer_evals"} \cup {"mem_query_indices"}
                 \cup {"mem_decommits", "n_mem_decommits", "mem_access_paths"}
                     \cup {"mem_query_decommits"}))
    BY <1>a, MemSection
  <2>2. Bound(Q, s, {} \cup A1)
    BY <1>a, MemSection
  <2>3. D1 \cap ({"mem_z", "mem_alpha"} \cup {"mem_alpha_0", "mem_alpha_1"} \cup {"mem_queries"}) = {}
    OBVIOUS
  <2>4. C2 = C1 \o Q
    BY DEF C2
  <2> HIDE DEF D1, A1, M1, Q
  <2>5. Section(C1 \o Q, D1 \cup ({"mem_z", "mem_alpha"} \cup {"mem_alpha_0", "mem_alpha_1"}
                                  \cup {"mem_queries"}), A1
                                  \cup ({"mem_s_root", "mem_q_root"}
                                        \cup {"mem_inner_root", "mem_last_layer_evals"}), M1
                                        \cup ({"mem_exec_sum", "mem_s_root", "mem_table", "mem_q_root"}
                                              \cup {"mem_inner_root", "mem_last_layer_evals"}
                                              \cup {"mem_query_indices"}
                                              \cup {"mem_decommits", "n_mem_decommits",
                                                    "mem_access_paths"}
                                              \cup {"mem_query_decommits"}))
    BY <1>1, <2>1, <2>3, SectionsJoin
  <2>6. Bound(C1 \o Q, s, {})
    BY <1>1, <2>1, <2>2, BoundsJoin DEF Section
  <2> QED BY <2>4, <2>5, <2>6
<1>3. Section(C3, D3, A3, M3) /\ Bound(C3, s, {})
  <2> DEFINE Q == prove_range_check
  <2>1. Section(Q, ({"rc_z"} \cup {"rc_alpha_0", "rc_alpha_1"} \cup {"rc_queries"}),
                ({"rc_s_root", "rc_q_root"} \cup {"rc_inner_root", "rc_last_layer_evals"}),
                ({"rc_exec_sum", "rc_s_root", "rc_mults", "rc_q_root"}
                 \cup {"rc_inner_root", "rc_last_layer_evals"} \cup {"rc_query_indices"}
                 \cup {"rc_decommits", "n_rc_decommits"} \cup {"rc_query_decommits"}))
    BY <1>b, RcSection
  <2>2. Bound(Q, s, {} \cup A2)
    BY <1>b, RcSection
  <2>3. D2 \cap ({"rc_z"} \cup {"rc_alpha_0", "rc_alpha_1"} \cup {"rc_queries"}) = {}
    OBVIOUS
  <2>4. C3 = C2 \o Q
    BY DEF C3
  <2> HIDE DEF D2, A2, M2, Q
  <2>5. Section(C2 \o Q, D2 \cup ({"rc_z"} \cup {"rc_alpha_0", "rc_alpha_1"} \cup {"rc_queries"}), A2
                \cup ({"rc_s_root", "rc_q_root"} \cup {"rc_inner_root", "rc_last_layer_evals"}), M2
                \cup ({"rc_exec_sum", "rc_s_root", "rc_mults", "rc_q_root"}
                      \cup {"rc_inner_root", "rc_last_layer_evals"} \cup {"rc_query_indices"}
                      \cup {"rc_decommits", "n_rc_decommits"} \cup {"rc_query_decommits"}))
    BY <1>2, <2>1, <2>3, SectionsJoin
  <2>6. Bound(C2 \o Q, s, {})
    BY <1>2, <2>1, <2>2, BoundsJoin DEF Section
  <2> QED BY <2>4, <2>5, <2>6
<1>4. Cairo252Lean = C3
  BY DEF Cairo252Lean, C1, C2, C3
<1> QED BY <1>3, <1>4

-----------------------------------------------------------------------------
\* The Cairo verifier, section by section.

LEMMA MixDrawRounds ==
  ASSUME NEW n \in Nat
  PROVE  LET P == rounds(n, [i \in 1 .. n |-> mix(FriCommitment[i]) \o draw(FriAlpha[i])])
         IN  Audit(P, {FriAlpha[i] : i \in 1 .. n}, {FriCommitment[i] : i \in 1 .. n}, {}, {})
<1> DEFINE layer == [i \in 1 .. n |-> mix(FriCommitment[i]) \o draw(FriAlpha[i])]
           L == rounds(n, layer)
<1>1. ASSUME NEW i \in 1 .. n
      PROVE  /\ IsScript(layer[i]) /\ ~ Restarts(layer[i]) /\ Gates(layer[i]) = {}
             /\ Draws(layer[i]) = {FriAlpha[i]} /\ Absorbs(layer[i]) = {FriCommitment[i]}
             /\ Reads(layer[i]) = {} /\ Uses(layer[i]) = {}
  <2>1. layer[i] = mix(FriCommitment[i]) \o draw(FriAlpha[i])
    OBVIOUS
  <2> HIDE DEF layer
  <2>2. IsScript(layer[i]) /\ ~ Restarts(layer[i])
    BY <2>1, ScriptTable, RestartTable
  <2>3. Draws(layer[i]) = {FriAlpha[i]}
    BY <2>1, ScriptTable, DrawsTable
  <2>4. Absorbs(layer[i]) = {FriCommitment[i]}
    BY <2>1, ScriptTable, AbsorbsTable
  <2>5. Gates(layer[i]) = {}
    BY <2>1, ScriptTable, GatesTable
  <2>6. Reads(layer[i]) = {}
    BY <2>1, ScriptTable, ReadsTable
  <2>7. Uses(layer[i]) = {}
    BY <2>1, ScriptTable, UsesTable
  <2> QED BY <2>2, <2>3, <2>4, <2>5, <2>6, <2>7
<1> HIDE DEF layer
<1>2. /\ IsScript(L) /\ ~ Restarts(L)
      /\ \A x : x \in Draws(L) <=> \E i \in 1 .. n : x \in Draws(layer[i])
      /\ \A x : x \in Absorbs(L) <=> \E i \in 1 .. n : x \in Absorbs(layer[i])
      /\ \A x : x \in Reads(L) <=> \E i \in 1 .. n : x \in Reads(layer[i])
      /\ \A x : x \in Gates(L) <=> \E i \in 1 .. n : x \in Gates(layer[i])
      /\ \A x : x \in Uses(L) <=> \E i \in 1 .. n : x \in Uses(layer[i])
  <2>1. \A i \in 1 .. n : IsScript(layer[i]) /\ ~ Restarts(layer[i])
    BY <1>1
  <2>2. /\ IsScript(L) /\ ~ Restarts(L)
        /\ Draws(L) = UNION {Draws(layer[i]) : i \in 1 .. n}
        /\ Absorbs(L) = UNION {Absorbs(layer[i]) : i \in 1 .. n}
        /\ Reads(L) = UNION {Reads(layer[i]) : i \in 1 .. n}
        /\ Gates(L) = UNION {Gates(layer[i]) : i \in 1 .. n}
        /\ Uses(L) = UNION {Uses(layer[i]) : i \in 1 .. n}
    BY <2>1, RoundsSets
  <2> HIDE DEF L
  <2> QED BY <2>2
<1> HIDE DEF L
<1>3. Draws(L) = {FriAlpha[i] : i \in 1 .. n}
  <2>1. \A i \in 1 .. n : \A x : x \in Draws(layer[i]) <=> x = FriAlpha[i]
    BY <1>1
  <2>2. \A x : x \in Draws(L) <=> \E i \in 1 .. n : x = FriAlpha[i]
    BY <1>2, <2>1
  <2> QED BY <2>2
<1>4. Absorbs(L) = {FriCommitment[i] : i \in 1 .. n}
  <2>1. \A i \in 1 .. n : \A x : x \in Absorbs(layer[i]) <=> x = FriCommitment[i]
    BY <1>1
  <2>2. \A x : x \in Absorbs(L) <=> \E i \in 1 .. n : x = FriCommitment[i]
    BY <1>2, <2>1
  <2> QED BY <2>2
<1>5. Reads(L) = {} /\ Gates(L) = {} /\ Uses(L) = {}
  BY <1>1, <1>2
<1> QED BY <1>2, <1>3, <1>4, <1>5 DEF Audit, L, layer

LEMMA GateSections ==
  ASSUME NEW v,
         NEW n \in 1 .. MaxLayers, FriLayers(v) = n
  PROVE  /\ Audit(VersionGate(v), {},
                  {},
                  {"version"},
                  {})
         /\ Audit(SizeGates(v), {},
                  {},
                  {},
                  {})
         /\ Audit(ZeroCommitmentGates(v), {},
                  {},
                  {},
                  {})
         /\ Audit(ProgramHash(v), {},
                  {},
                  {"program", "program_hash"},
                  {})
<1> USE DEF Audit
<1>m. n \in Nat /\ \A i \in 0 .. n : i \in 0 .. MaxLayers
  BY LayersAssumption
<1>n. \A i \in 1 .. FriLayers(v) : FriCommitment[i] # "none" /\ FriDecommitment[i] # "none"
  <2>1. \A i \in 1 .. FriLayers(v) : i \in 0 .. MaxLayers
    BY <1>m
  <2> QED BY <2>1, NamesAssumption
<1>1. Audit(VersionGate(v), {},
              {},
              {"version"},
              {})
  BY ScriptTable, RestartTable, GatesTable, DrawsTable, AbsorbsTable, ReadsTable, UsesTable
     DEF VersionGate
<1>2. Audit(SizeGates(v), {},
              {},
              {},
              {})
  BY <1>n, ScriptTable, RestartTable, GatesTable, DrawsTable, AbsorbsTable, ReadsTable, UsesTable
     DEF SizeGates
<1>3. Audit(ZeroCommitmentGates(v), {},
              {},
              {},
              {})
  BY <1>n, IntermediateNames, ScriptTable, RestartTable, GatesTable, DrawsTable, AbsorbsTable,
     ReadsTable, UsesTable DEF ZeroCommitmentGates
<1>4. Audit(ProgramHash(v), {},
              {},
              {"program", "program_hash"},
              {})
  BY ScriptTable, RestartTable, GatesTable, DrawsTable, AbsorbsTable, ReadsTable, UsesTable
     DEF ProgramHash
<1> QED BY <1>1, <1>2, <1>3, <1>4

LEMMA ReplayTraceSections ==
  ASSUME NEW v
  PROVE  /\ Audit(ReplayTrace(v), {},
                  Trace,
                  {},
                  {})
         /\ Audit(ReplaySideTable(v), {},
                  (IF v.dict /\ Has(v, "dict_side_table") THEN {"dict_side_table_commitment"} ELSE {}),
                  (IF v.dict /\ Has(v, "dict_side_table")
                   THEN {"dict_side_table", "dict_side_table_commitment"} ELSE {}),
                  {})
         /\ Audit(ReplaySDict(v), DictLink,
                  {"dict_main_interaction_commitment", "dict_link_final"},
                  {},
                  {})
         /\ Audit(DictLinkCheck(v), {},
                  {},
                  (IF v.dict THEN {"dict_exec_data", "dict_n_accesses", "dict_link_final"} ELSE {})
                  \cup (IF v.dict /\ Has(v, "dict_side_table") THEN {"dict_side_table"} ELSE {}),
                  (IF v.dict THEN DictLink ELSE {}))
         /\ Audit(ReplayEc(v), {},
                  (IF v.ec /\ Has(v, "ec_trace_commitment")
                   THEN {"ec_trace_commitment", "ec_trace_commitment_hi"} ELSE {}),
                  {},
                  {})
         /\ Audit(ReplayDictSubAir(v), DictDraws(v),
                  (IF v.dict THEN {"dict_exec_commitment", "dict_sorted_commitment",
                                   "dict_final_sums"} ELSE {}),
                  (IF v.dict THEN {"dict_exec_data", "dict_exec_commitment", "dict_sorted_data",
                                   "dict_sorted_commitment",
                       "dict_final_sums"} ELSE {}),
                  DictDraws(v))
<1> USE DEF Audit
<1>1. Audit(ReplayTrace(v), {},
              Trace,
              {},
              {})
  BY ScriptTable, RestartTable, GatesTable, DrawsTable, AbsorbsTable, ReadsTable, UsesTable
     DEF ReplayTrace, Trace
<1>2. Audit(ReplaySideTable(v), {},
              (IF v.dict /\ Has(v, "dict_side_table") THEN {"dict_side_table_commitment"} ELSE {}),
              (IF v.dict /\ Has(v, "dict_side_table")
               THEN {"dict_side_table", "dict_side_table_commitment"} ELSE {}),
              {})
  <2>1. CASE ~ v.dict
    BY <2>1, ScriptTable, RestartTable, GatesTable, DrawsTable, AbsorbsTable, ReadsTable, UsesTable
       DEF ReplaySideTable, when
  <2>2. CASE v.dict /\ Has(v, "dict_side_table")
    BY <2>2, ScriptTable, RestartTable, GatesTable, DrawsTable, AbsorbsTable, ReadsTable, UsesTable
       DEF ReplaySideTable, when
  <2>3. CASE v.dict /\ ~ (Has(v, "dict_side_table"))
    BY <2>3, ScriptTable, RestartTable, GatesTable, DrawsTable, AbsorbsTable, ReadsTable, UsesTable
       DEF ReplaySideTable, when
  <2> QED BY <2>1, <2>2, <2>3
<1>3. Audit(ReplaySDict(v), DictLink,
              {"dict_main_interaction_commitment", "dict_link_final"},
              {},
              {})
  BY ScriptTable, RestartTable, GatesTable, DrawsTable, AbsorbsTable, ReadsTable, UsesTable
     DEF ReplaySDict, DictLink
<1>4. Audit(DictLinkCheck(v), {},
              {},
              (IF v.dict THEN {"dict_exec_data", "dict_n_accesses", "dict_link_final"} ELSE {})
              \cup (IF v.dict /\ Has(v, "dict_side_table") THEN {"dict_side_table"} ELSE {}),
              (IF v.dict THEN DictLink ELSE {}))
  <2>1. CASE ~ v.dict
    BY <2>1, ScriptTable, RestartTable, GatesTable, DrawsTable, AbsorbsTable, ReadsTable, UsesTable
       DEF DictLinkCheck, DictLink, when
  <2>2. CASE v.dict /\ Has(v, "dict_side_table")
    BY <2>2, ScriptTable, RestartTable, GatesTable, DrawsTable, AbsorbsTable, ReadsTable, UsesTable
       DEF DictLinkCheck, DictLink, when
  <2>3. CASE v.dict /\ ~ (Has(v, "dict_side_table"))
    BY <2>3, ScriptTable, RestartTable, GatesTable, DrawsTable, AbsorbsTable, ReadsTable, UsesTable
       DEF DictLinkCheck, DictLink, when
  <2> QED BY <2>1, <2>2, <2>3
<1>5. Audit(ReplayEc(v), {},
              (IF v.ec /\ Has(v, "ec_trace_commitment")
               THEN {"ec_trace_commitment", "ec_trace_commitment_hi"} ELSE {}),
              {},
              {})
  <2>1. CASE ~ v.ec
    BY <2>1, ScriptTable, RestartTable, GatesTable, DrawsTable, AbsorbsTable, ReadsTable, UsesTable
       DEF ReplayEc, when
  <2>2. CASE v.ec /\ Has(v, "ec_trace_commitment")
    BY <2>2, ScriptTable, RestartTable, GatesTable, DrawsTable, AbsorbsTable, ReadsTable, UsesTable
       DEF ReplayEc, when
  <2>3. CASE v.ec /\ ~ (Has(v, "ec_trace_commitment"))
    BY <2>3, ScriptTable, RestartTable, GatesTable, DrawsTable, AbsorbsTable, ReadsTable, UsesTable
       DEF ReplayEc, when
  <2> QED BY <2>1, <2>2, <2>3
<1>6. Audit(ReplayDictSubAir(v), DictDraws(v),
              (IF v.dict THEN {"dict_exec_commitment", "dict_sorted_commitment",
                               "dict_final_sums"} ELSE {}),
              (IF v.dict THEN {"dict_exec_data", "dict_exec_commitment", "dict_sorted_data",
                               "dict_sorted_commitment",
                   "dict_final_sums"} ELSE {}),
              DictDraws(v))
  <2>1. CASE ~ v.dict
    BY <2>1, ScriptTable, RestartTable, GatesTable, DrawsTable, AbsorbsTable, ReadsTable, UsesTable
       DEF ReplayDictSubAir, DictDraws, when
  <2>2. CASE v.dict
    <3>1. IsScript(ReplayDictSubAir(v)) /\ ~ Restarts(ReplayDictSubAir(v))
      BY <2>2, ScriptTable, RestartTable DEF ReplayDictSubAir, DictDraws, when
    <3>2. "none" \notin Gates(ReplayDictSubAir(v))
      BY <2>2, ScriptTable, GatesTable DEF ReplayDictSubAir, DictDraws, when
    <3>3. Draws(ReplayDictSubAir(v)) = DictDraws(v)
      BY <2>2, ScriptTable, DrawsTable DEF ReplayDictSubAir, DictDraws, when
    <3>4. Absorbs(ReplayDictSubAir(v)) = (IF v.dict
                                          THEN {"dict_exec_commitment", "dict_sorted_commitment",
                                                "dict_final_sums"} ELSE {})
      BY <2>2, ScriptTable, AbsorbsTable DEF ReplayDictSubAir, DictDraws, when
    <3>5. Reads(ReplayDictSubAir(v)) = (IF v.dict
                                        THEN {"dict_exec_data", "dict_exec_commitment",
                                              "dict_sorted_data", "dict_sorted_commitment",
                   "dict_final_sums"} ELSE {})
      BY <2>2, ScriptTable, ReadsTable DEF ReplayDictSubAir, DictDraws, when
    <3>6. Uses(ReplayDictSubAir(v)) = DictDraws(v)
      BY <2>2, ScriptTable, UsesTable DEF ReplayDictSubAir, DictDraws, when
    <3> QED BY <3>1, <3>2, <3>3, <3>4, <3>5, <3>6
  <2> QED BY <2>1, <2>2
<1> QED BY <1>1, <1>2, <1>3, <1>4, <1>5, <1>6

LEMMA ReplayLogUpSections ==
  ASSUME NEW v
  PROVE  /\ Audit(ReplayLogUp(v), (MemLink \cup {"z_rc"}),
                  {},
                  {"logup_challenges"},
                  LogUpChallenges)
         /\ Audit(ReplayInteraction(v), {},
                  ({"interaction_commitment", "rc_interaction_commitment", "final_sums"}
                    \cup {"logup_t1", "logup_t2", "logup_t3", "rc_u1", "rc_u2"}),
                  {},
                  {})
         /\ Audit(ReplayBitwise(v), {},
                  (IF v.bitwise THEN {"bitwise_commitment"} ELSE {}),
                  (IF v.bitwise THEN {"bitwise_rows", "bitwise_commitment"} ELSE {}),
                  {})
         /\ Audit(DictBusLink(v), {},
                  {},
                  (IF v.dict /\ Has(v, "dict_access_pointers")
                   THEN {"memory_table", "dict_exec_data", "dict_n_accesses"} ELSE {}),
                  {})
         /\ Audit(BitwiseBusLink(v), {},
                  {},
                  (IF v.bitwise THEN {"memory_table", "bitwise_rows"} ELSE {}),
                  {})
         /\ Audit(ReplayMemTable(v), {},
                  {"memory_table_commitment"},
                  {"memory_table", "memory_table_commitment", "final_sums"},
                  MemLink)
         /\ Audit(ReplayRcCounts(v), {},
                  {"rc_counts_commitment"},
                  {"rc_counts", "rc_counts_commitment", "final_sums"},
                  {"z_rc"})
<1> USE DEF Audit
<1>1. Audit(ReplayLogUp(v), (MemLink \cup {"z_rc"}),
              {},
              {"logup_challenges"},
              LogUpChallenges)
  <2>1. IsScript(ReplayLogUp(v)) /\ ~ Restarts(ReplayLogUp(v))
    BY ScriptTable, RestartTable DEF ReplayLogUp, MemLink
  <2>2. "none" \notin Gates(ReplayLogUp(v))
    BY ScriptTable, GatesTable DEF ReplayLogUp, MemLink
  <2>3. Draws(ReplayLogUp(v)) = (MemLink \cup {"z_rc"})
    BY ScriptTable, DrawsTable DEF ReplayLogUp, MemLink
  <2>4. Absorbs(ReplayLogUp(v)) = {}
    BY ScriptTable, AbsorbsTable DEF ReplayLogUp, MemLink
  <2>5. Reads(ReplayLogUp(v)) = {"logup_challenges"}
    BY ScriptTable, ReadsTable DEF ReplayLogUp, MemLink
  <2>6. Uses(ReplayLogUp(v)) = LogUpChallenges
    <3> DEFINE X == draw("z_mem") \o draw("alpha_mem") \o draw("z_rc")
               Y == check({"logup_challenges"}, LogUpChallenges)
    <3>1. IsScript(X) /\ IsScript(Y)
      BY ScriptTable
    <3>2. Uses(X) = {}
      BY ScriptTable, UsesTable
    <3>3. Uses(Y) = LogUpChallenges
      BY UsesTable
    <3>4. ReplayLogUp(v) = X \o Y
      BY DEF ReplayLogUp
    <3> HIDE DEF X, Y
    <3>5. Uses(X \o Y) = Uses(X) \cup Uses(Y)
      BY <3>1, SetsJoin
    <3> QED BY <3>2, <3>3, <3>4, <3>5
  <2> QED BY <2>1, <2>2, <2>3, <2>4, <2>5, <2>6
<1>2. Audit(ReplayInteraction(v), {},
              ({"interaction_commitment", "rc_interaction_commitment", "final_sums"}
                \cup {"logup_t1", "logup_t2", "logup_t3", "rc_u1", "rc_u2"}),
              {},
              {})
  BY IntermediateNames, ScriptTable, RestartTable, GatesTable, DrawsTable, AbsorbsTable, ReadsTable,
     UsesTable DEF ReplayInteraction
<1>3. Audit(ReplayBitwise(v), {},
              (IF v.bitwise THEN {"bitwise_commitment"} ELSE {}),
              (IF v.bitwise THEN {"bitwise_rows", "bitwise_commitment"} ELSE {}),
              {})
  <2>1. CASE ~ v.bitwise
    BY <2>1, ScriptTable, RestartTable, GatesTable, DrawsTable, AbsorbsTable, ReadsTable, UsesTable
       DEF ReplayBitwise, when
  <2>2. CASE v.bitwise
    BY <2>2, ScriptTable, RestartTable, GatesTable, DrawsTable, AbsorbsTable, ReadsTable, UsesTable
       DEF ReplayBitwise, when
  <2> QED BY <2>1, <2>2
<1>4. Audit(DictBusLink(v), {},
              {},
              (IF v.dict /\ Has(v, "dict_access_pointers")
               THEN {"memory_table", "dict_exec_data", "dict_n_accesses"} ELSE {}),
              {})
  <2>1. CASE ~ v.dict
    BY <2>1, ScriptTable, RestartTable, GatesTable, DrawsTable, AbsorbsTable, ReadsTable, UsesTable
       DEF DictBusLink, when
  <2>2. CASE v.dict /\ Has(v, "dict_access_pointers")
    BY <2>2, ScriptTable, RestartTable, GatesTable, DrawsTable, AbsorbsTable, ReadsTable, UsesTable
       DEF DictBusLink, when
  <2>3. CASE v.dict /\ ~ (Has(v, "dict_access_pointers"))
    BY <2>3, ScriptTable, RestartTable, GatesTable, DrawsTable, AbsorbsTable, ReadsTable, UsesTable
       DEF DictBusLink, when
  <2> QED BY <2>1, <2>2, <2>3
<1>5. Audit(BitwiseBusLink(v), {},
              {},
              (IF v.bitwise THEN {"memory_table", "bitwise_rows"} ELSE {}),
              {})
  <2>1. CASE ~ v.bitwise
    BY <2>1, ScriptTable, RestartTable, GatesTable, DrawsTable, AbsorbsTable, ReadsTable, UsesTable
       DEF BitwiseBusLink, when
  <2>2. CASE v.bitwise
    BY <2>2, ScriptTable, RestartTable, GatesTable, DrawsTable, AbsorbsTable, ReadsTable, UsesTable
       DEF BitwiseBusLink, when
  <2> QED BY <2>1, <2>2
<1>6. Audit(ReplayMemTable(v), {},
              {"memory_table_commitment"},
              {"memory_table", "memory_table_commitment", "final_sums"},
              MemLink)
  <2>1. IsScript(ReplayMemTable(v)) /\ ~ Restarts(ReplayMemTable(v))
    BY ScriptTable, RestartTable DEF ReplayMemTable
  <2>2. "none" \notin Gates(ReplayMemTable(v))
    BY ScriptTable, GatesTable DEF ReplayMemTable
  <2>3. Draws(ReplayMemTable(v)) = {}
    BY ScriptTable, DrawsTable DEF ReplayMemTable
  <2>4. Absorbs(ReplayMemTable(v)) = {"memory_table_commitment"}
    BY ScriptTable, AbsorbsTable DEF ReplayMemTable
  <2>5. Reads(ReplayMemTable(v)) = {"memory_table", "memory_table_commitment", "final_sums"}
    BY ScriptTable, ReadsTable DEF ReplayMemTable
  <2>6. Uses(ReplayMemTable(v)) = MemLink
    BY ScriptTable, UsesTable DEF ReplayMemTable
  <2> QED BY <2>1, <2>2, <2>3, <2>4, <2>5, <2>6
<1>7. Audit(ReplayRcCounts(v), {},
              {"rc_counts_commitment"},
              {"rc_counts", "rc_counts_commitment", "final_sums"},
              {"z_rc"})
  BY ScriptTable, RestartTable, GatesTable, DrawsTable, AbsorbsTable, ReadsTable, UsesTable
     DEF ReplayRcCounts
<1> QED BY <1>1, <1>2, <1>3, <1>4, <1>5, <1>6, <1>7

LEMMA ReplayFriSections ==
  ASSUME NEW v,
         NEW n \in 1 .. MaxLayers, FriLayers(v) = n
  PROVE  /\ Audit(ReplayOods(v), {"constraint_alphas", "oods_z", "oods_alpha"},
                  {"quotient_commitment", "oods_sampled_values"},
                  {"oods_z", "oods_alpha"},
                  {"oods_z", "oods_alpha"})
         /\ Audit(ReplayFri(v), {FriAlpha[i] : i \in 0 .. n},
                  ({FriCommitment[i] : i \in 1 .. n}
                   \cup {"oods_quotient_commitment", "fri_last_layer_poly"}),
                  {},
                  {})
         /\ Audit(ReplayPow(v), {"pow_prefix", "query_indices"},
                  {"pow_nonce"},
                  {"pow_nonce", "query_indices"},
                  {"pow_prefix", "query_indices"})
<1> USE DEF Audit
<1>m. n \in Nat /\ \A i \in 0 .. n : i \in 0 .. MaxLayers
  BY LayersAssumption
<1>n. \A i \in 1 .. FriLayers(v) : FriCommitment[i] # "none" /\ FriDecommitment[i] # "none"
  <2>1. \A i \in 1 .. FriLayers(v) : i \in 0 .. MaxLayers
    BY <1>m
  <2> QED BY <2>1, NamesAssumption
<1>1. Audit(ReplayOods(v), {"constraint_alphas", "oods_z", "oods_alpha"},
              {"quotient_commitment", "oods_sampled_values"},
              {"oods_z", "oods_alpha"},
              {"oods_z", "oods_alpha"})
  BY ScriptTable, RestartTable, GatesTable, DrawsTable, AbsorbsTable, ReadsTable, UsesTable
     DEF ReplayOods
<1>2. Audit(ReplayFri(v), {FriAlpha[i] : i \in 0 .. n},
              ({FriCommitment[i] : i \in 1 .. n}
               \cup {"oods_quotient_commitment", "fri_last_layer_poly"}),
              {},
              {})
  <2> DEFINE layer == [i \in 1 .. n |-> mix(FriCommitment[i]) \o draw(FriAlpha[i])]
             L == rounds(n, layer)
             X == mix("oods_quotient_commitment") \o draw(FriAlpha[0])
  <2>1. ReplayFri(v) = X \o L \o mix("fri_last_layer_poly")
    BY DEF ReplayFri
  <2>2. Audit(X, {FriAlpha[0]}, {"oods_quotient_commitment"}, {}, {})
    BY ScriptTable, RestartTable, GatesTable, DrawsTable, AbsorbsTable, ReadsTable, UsesTable
  <2>3. Audit(L, {FriAlpha[i] : i \in 1 .. n}, {FriCommitment[i] : i \in 1 .. n}, {}, {})
    BY <1>m, MixDrawRounds
  <2>4. Audit(mix("fri_last_layer_poly"), {}, {"fri_last_layer_poly"}, {}, {})
    BY ScriptTable, RestartTable, GatesTable, DrawsTable, AbsorbsTable, ReadsTable, UsesTable
  <2>5. {FriAlpha[0]} \cup {FriAlpha[i] : i \in 1 .. n} = {FriAlpha[i] : i \in 0 .. n}
    <3>1. \A i : i \in 0 .. n <=> i = 0 \/ i \in 1 .. n
      BY <1>m
    <3> QED BY <3>1
  <2> HIDE DEF X, L, Audit
  <2>6. Audit(X \o L, {FriAlpha[i] : i \in 0 .. n}, {"oods_quotient_commitment"}
              \cup {FriCommitment[i] : i \in 1 .. n}, {} \cup {}, {} \cup {})
    BY <2>2, <2>3, <2>5, AuditsJoin
  <2>7. Audit(X \o L \o mix("fri_last_layer_poly"), {FriAlpha[i] : i \in 0 .. n} \cup {},
              ({"oods_quotient_commitment"} \cup {FriCommitment[i] : i \in 1 .. n})
              \cup {"fri_last_layer_poly"},
              ({} \cup {}) \cup {}, ({} \cup {}) \cup {})
    BY <2>4, <2>6, AuditsJoin
  <2> QED BY <2>1, <2>7 DEF Audit
<1>3. Audit(ReplayPow(v), {"pow_prefix", "query_indices"},
              {"pow_nonce"},
              {"pow_nonce", "query_indices"},
              {"pow_prefix", "query_indices"})
  BY ScriptTable, RestartTable, GatesTable, DrawsTable, AbsorbsTable, ReadsTable, UsesTable
     DEF ReplayPow
<1> QED BY <1>1, <1>2, <1>3

LEMMA QueryCheckSections ==
  ASSUME NEW v,
         NEW n \in 1 .. MaxLayers, FriLayers(v) = n
  PROVE  /\ Audit(FoldChecks(v), {},
                  {},
                  ({"oods_quotient_decommitment", "fri_last_layer"}
                   \cup {FriDecommitment[i] : i \in 1 .. n}),
                  ({FriAlpha[i] : i \in 0 .. n} \cup {"query_indices"}))
         /\ Audit(TraceAuthPaths(v), {},
                  {},
                  {"trace_values_at_queries", "trace_auth_paths", "trace_commitment",
                   "trace_commitment_hi",
                   "dict_trace_commitment"},
                  {"query_indices"})
         /\ Audit(EcAuthPaths(v), {},
                  {},
                  (IF v.ec /\ Has(v, "ec_trace_commitment") /\ Has(v, "ec_log_eval")
                   THEN {"ec_trace_at_queries", "ec_trace_auth_paths", "ec_trace_commitment",
                        "ec_trace_commitment_hi"} ELSE {}),
                  (IF v.ec /\ Has(v, "ec_trace_commitment") /\ Has(v, "ec_log_eval")
                   THEN {"query_indices"} ELSE {}))
         /\ Audit(ConstraintChecks(v), {},
                  {},
                  ({"trace_values_at_queries", "quotient_decommitment", "logup_challenges"}
                    \cup InteractionDecoms \cup IntermediateDecoms),
                  (LogUpChallenges \cup {"constraint_alphas", "query_indices"}))
         /\ Audit(OodsFormula(v), {},
                  {},
                  ({"trace_values_at_queries", "quotient_decommitment", "oods_sampled_values",
                    "oods_quotient_decommitment", "oods_z", "oods_alpha"} \cup InteractionDecoms),
                  {"oods_z", "oods_alpha", "query_indices"})
         /\ Audit(DecommitAuthPaths(v), {},
                  {},
                  ({"quotient_decommitment", "oods_quotient_decommitment", "quotient_commitment",
                    "oods_quotient_commitment"} \cup InteractionDecoms \cup IntermediateDecoms
                    \cup {FriDecommitment[i] : i \in 1 .. n} \cup {FriCommitment[i] : i \in 1 .. n}),
                  {"query_indices"})
<1> USE DEF Audit
<1>1. Audit(FoldChecks(v), {},
              {},
              ({"oods_quotient_decommitment", "fri_last_layer"}
               \cup {FriDecommitment[i] : i \in 1 .. n}),
              ({FriAlpha[i] : i \in 0 .. n} \cup {"query_indices"}))
  BY ScriptTable, RestartTable, GatesTable, DrawsTable, AbsorbsTable, ReadsTable, UsesTable
     DEF FoldChecks
<1>2. Audit(TraceAuthPaths(v), {},
              {},
              {"trace_values_at_queries", "trace_auth_paths", "trace_commitment", "trace_commitment_hi",
               "dict_trace_commitment"},
              {"query_indices"})
  BY ScriptTable, RestartTable, GatesTable, DrawsTable, AbsorbsTable, ReadsTable, UsesTable
     DEF TraceAuthPaths
<1>3. Audit(EcAuthPaths(v), {},
              {},
              (IF v.ec /\ Has(v, "ec_trace_commitment") /\ Has(v, "ec_log_eval")
               THEN {"ec_trace_at_queries", "ec_trace_auth_paths", "ec_trace_commitment",
                    "ec_trace_commitment_hi"} ELSE {}),
              (IF v.ec /\ Has(v, "ec_trace_commitment") /\ Has(v, "ec_log_eval")
               THEN {"query_indices"} ELSE {}))
  <2>1. CASE ~ v.ec
    BY <2>1, ScriptTable, RestartTable, GatesTable, DrawsTable, AbsorbsTable, ReadsTable, UsesTable
       DEF EcAuthPaths, when
  <2>2. CASE v.ec /\ Has(v, "ec_trace_commitment") /\ Has(v, "ec_log_eval")
    BY <2>2, ScriptTable, RestartTable, GatesTable, DrawsTable, AbsorbsTable, ReadsTable, UsesTable
       DEF EcAuthPaths, when
  <2>3. CASE v.ec /\ ~ (Has(v, "ec_trace_commitment") /\ Has(v, "ec_log_eval"))
    BY <2>3, ScriptTable, RestartTable, GatesTable, DrawsTable, AbsorbsTable, ReadsTable, UsesTable
       DEF EcAuthPaths, when
  <2> QED BY <2>1, <2>2, <2>3
<1>4. Audit(ConstraintChecks(v), {},
              {},
              ({"trace_values_at_queries", "quotient_decommitment", "logup_challenges"}
                \cup InteractionDecoms \cup IntermediateDecoms),
              (LogUpChallenges \cup {"constraint_alphas", "query_indices"}))
  BY ScriptTable, RestartTable, GatesTable, DrawsTable, AbsorbsTable, ReadsTable, UsesTable
     DEF ConstraintChecks
<1>5. Audit(OodsFormula(v), {},
              {},
              ({"trace_values_at_queries", "quotient_decommitment", "oods_sampled_values",
                "oods_quotient_decommitment", "oods_z", "oods_alpha"} \cup InteractionDecoms),
              {"oods_z", "oods_alpha", "query_indices"})
  BY ScriptTable, RestartTable, GatesTable, DrawsTable, AbsorbsTable, ReadsTable, UsesTable
     DEF OodsFormula
<1>6. Audit(DecommitAuthPaths(v), {},
              {},
              ({"quotient_decommitment", "oods_quotient_decommitment", "quotient_commitment",
                "oods_quotient_commitment"} \cup InteractionDecoms \cup IntermediateDecoms
                \cup {FriDecommitment[i] : i \in 1 .. n} \cup {FriCommitment[i] : i \in 1 .. n}),
              {"query_indices"})
  BY ScriptTable, RestartTable, GatesTable, DrawsTable, AbsorbsTable, ReadsTable, UsesTable
     DEF DecommitAuthPaths
<1> QED BY <1>1, <1>2, <1>3, <1>4, <1>5, <1>6

\* Every check of the Cairo verifier uses challenges drawn before it.
LEMMA OwnChallenges ==
  ASSUME NEW v, NEW A
  PROVE  /\ Ready(ReplayDictSubAir(v), A)
         /\ DictLink \subseteq A => Ready(ReplayLogUp(v), A)
         /\ Ready(ReplayOods(v), A)
         /\ Ready(ReplayPow(v), A)
<1>1. Ready(ReplayDictSubAir(v), A)
  <2> DEFINE X == present({"dict_sorted_commitment", "dict_final_sums"})
                 \o check({"dict_exec_data", "dict_exec_commitment"}, {})
                 \o check({"dict_sorted_data", "dict_sorted_commitment"}, {})
                 \o mix("dict_exec_commitment") \o mix("dict_sorted_commitment")
                 \o draw("z_dict") \o draw("alpha_dict")
             Y == check({"dict_exec_data", "dict_sorted_data", "dict_final_sums"},
                        {"z_dict", "alpha_dict"})
             Z == mix("dict_final_sums")
  <2>1. ReplayDictSubAir(v) = when(v.dict, X \o Y \o Z)
    BY DEF ReplayDictSubAir
  <2>2. IsScript(X) /\ IsScript(Y) /\ IsScript(Z)
    BY ScriptTable
  <2>3. Draws(X) = {"z_dict", "alpha_dict"}
    BY ScriptTable, DrawsTable
  <2>4. Ready(X, A)
    <3>1. Uses(X) = {}
      BY ScriptTable, UsesTable
    <3> QED BY <3>1, UsesReady
  <2>5. Ready(Y, A \cup Draws(X))
    BY <2>3, ReadyTable
  <2>6. \A B : Ready(Z, B)
    BY ReadyTable
  <2> HIDE DEF X, Y, Z
  <2>7. IsScript(X \o Y) /\ Ready(X \o Y, A)
    BY <2>2, <2>4, <2>5, Joins, ReadiesJoin
  <2>8. Ready(X \o Y \o Z, A)
    BY <2>2, <2>6, <2>7, ReadiesJoin
  <2> QED BY <2>1, <2>8, ReadyTable
<1>2. ASSUME DictLink \subseteq A PROVE Ready(ReplayLogUp(v), A)
  <2> DEFINE X == draw("z_mem") \o draw("alpha_mem") \o draw("z_rc")
             Y == check({"logup_challenges"}, LogUpChallenges)
  <2>1. IsScript(X) /\ IsScript(Y) /\ ReplayLogUp(v) = X \o Y
    BY ScriptTable DEF ReplayLogUp
  <2>2. Draws(X) = MemLink \cup {"z_rc"}
    BY ScriptTable, DrawsTable DEF MemLink
  <2>3. Ready(X, A)
    <3>1. Uses(X) = {}
      BY ScriptTable, UsesTable
    <3> QED BY <3>1, UsesReady
  <2>4. Ready(Y, A \cup Draws(X))
    <3>1. LogUpChallenges \subseteq A \cup Draws(X)
      BY <1>2, <2>2 DEF LogUpChallenges
    <3> QED BY <3>1, ReadyTable
  <2> HIDE DEF X, Y
  <2> QED BY <2>1, <2>3, <2>4, ReadiesJoin
<1>3. Ready(ReplayOods(v), A)
  <2> DEFINE X == draw("constraint_alphas") \o mix("quotient_commitment") \o draw("oods_z")
             Y == check({"oods_z"}, {"oods_z"})
             Z == mix("oods_sampled_values")
             W == draw("oods_alpha")
             C == check({"oods_alpha"}, {"oods_alpha"})
  <2>1. ReplayOods(v) = X \o Y \o Z \o W \o C
    BY DEF ReplayOods
  <2>2. IsScript(X) /\ IsScript(Y) /\ IsScript(Z) /\ IsScript(W) /\ IsScript(C)
    BY ScriptTable
  <2>3. "oods_z" \in Draws(X)
    BY ScriptTable, DrawsTable
  <2>4. Ready(X, A)
    <3>1. Uses(X) = {}
      BY ScriptTable, UsesTable
    <3> QED BY <3>1, UsesReady
  <2>5. Ready(Y, A \cup Draws(X))
    BY <2>3, ReadyTable
  <2>6. (\A B : Ready(Z, B)) /\ (\A B : Ready(W, B)) /\ Draws(W) = {"oods_alpha"}
    BY ReadyTable, DrawsTable
  <2>7. \A B : "oods_alpha" \in B => Ready(C, B)
    BY ReadyTable
  <2> HIDE DEF X, Y, Z, W, C
  <2>8. IsScript(X \o Y) /\ Ready(X \o Y, A)
    BY <2>2, <2>4, <2>5, Joins, ReadiesJoin
  <2>9. IsScript(X \o Y \o Z) /\ Ready(X \o Y \o Z, A)
    BY <2>2, <2>6, <2>8, Joins, ReadiesJoin
  <2>10. IsScript(X \o Y \o Z \o W) /\ Ready(X \o Y \o Z \o W, A)
    BY <2>2, <2>6, <2>9, Joins, ReadiesJoin
  <2>11. Ready(C, A \cup Draws(X \o Y \o Z \o W))
    <3>1. "oods_alpha" \in Draws(X \o Y \o Z \o W)
      BY <2>2, <2>6, <2>9, SetsJoin
    <3> QED BY <2>7, <3>1
  <2> QED BY <2>1, <2>2, <2>10, <2>11, ReadiesJoin
<1>4. Ready(ReplayPow(v), A)
  <2> DEFINE X == peek("pow_prefix")
             Y == check({"pow_nonce"}, {"pow_prefix"})
             Z == mix("pow_nonce")
             W == draw("query_indices")
             C == check({"query_indices"}, {"query_indices"})
  <2>1. ReplayPow(v) = X \o Y \o Z \o W \o C
    BY DEF ReplayPow
  <2>2. IsScript(X) /\ IsScript(Y) /\ IsScript(Z) /\ IsScript(W) /\ IsScript(C)
    BY ScriptTable
  <2>3. Draws(X) = {"pow_prefix"} /\ Ready(X, A)
    BY DrawsTable, ReadyTable
  <2>5. Ready(Y, A \cup Draws(X))
    BY <2>3, ReadyTable
  <2>6. (\A B : Ready(Z, B)) /\ (\A B : Ready(W, B)) /\ Draws(W) = {"query_indices"}
    BY ReadyTable, DrawsTable
  <2>7. \A B : "query_indices" \in B => Ready(C, B)
    BY ReadyTable
  <2> HIDE DEF X, Y, Z, W, C
  <2>8. IsScript(X \o Y) /\ Ready(X \o Y, A)
    BY <2>2, <2>3, <2>5, Joins, ReadiesJoin
  <2>9. IsScript(X \o Y \o Z) /\ Ready(X \o Y \o Z, A)
    BY <2>2, <2>6, <2>8, Joins, ReadiesJoin
  <2>10. IsScript(X \o Y \o Z \o W) /\ Ready(X \o Y \o Z \o W, A)
    BY <2>2, <2>6, <2>9, Joins, ReadiesJoin
  <2>11. Ready(C, A \cup Draws(X \o Y \o Z \o W))
    <3>1. "query_indices" \in Draws(X \o Y \o Z \o W)
      BY <2>2, <2>6, <2>9, SetsJoin
    <3> QED BY <2>7, <3>1
  <2> QED BY <2>1, <2>2, <2>10, <2>11, ReadiesJoin
<1> QED BY <1>1, <1>2, <1>3, <1>4

\* The Cairo verifier up to the dict link, the LogUp challenges, the quotient
\* and the proof of work.
VOpened(v) ==
  VersionGate(v) \o SizeGates(v) \o ZeroCommitmentGates(v) \o ProgramHash(v) \o ReplayTrace(v)
    \o ReplaySideTable(v)
VCommitted(v) ==
  VOpened(v) \o ReplaySDict(v) \o DictLinkCheck(v) \o ReplayEc(v) \o ReplayDictSubAir(v)
VInteracted(v) ==
  VCommitted(v) \o ReplayLogUp(v) \o ReplayInteraction(v) \o ReplayBitwise(v) \o DictBusLink(v)
    \o BitwiseBusLink(v) \o ReplayMemTable(v) \o ReplayRcCounts(v)
VSampled(v) == VInteracted(v) \o ReplayOods(v) \o ReplayFri(v)

OpenedVDraws(v) ==
  {}
OpenedVAbsorbs(v) ==
  Trace
    \cup (IF v.dict /\ Has(v, "dict_side_table") THEN {"dict_side_table_commitment"} ELSE {})
OpenedVReads(v) ==
  {"version"}
    \cup {"program", "program_hash"}
    \cup (IF v.dict /\ Has(v, "dict_side_table")
          THEN {"dict_side_table", "dict_side_table_commitment"} ELSE {})
OpenedVUses(v) ==
  {}
CommittedVDraws(v) ==
  OpenedVDraws(v)
    \cup DictLink
    \cup DictDraws(v)
CommittedVAbsorbs(v) ==
  OpenedVAbsorbs(v)
    \cup {"dict_main_interaction_commitment", "dict_link_final"}
    \cup (IF v.ec /\ Has(v, "ec_trace_commitment")
          THEN {"ec_trace_commitment", "ec_trace_commitment_hi"} ELSE {})
    \cup (IF v.dict THEN {"dict_exec_commitment", "dict_sorted_commitment", "dict_final_sums"} ELSE {})
CommittedVReads(v) ==
  OpenedVReads(v)
    \cup (IF v.dict THEN {"dict_exec_data", "dict_n_accesses", "dict_link_final"} ELSE {})
    \cup (IF v.dict /\ Has(v, "dict_side_table") THEN {"dict_side_table"} ELSE {})
    \cup (IF v.dict THEN {"dict_exec_data", "dict_exec_commitment", "dict_sorted_data",
                          "dict_sorted_commitment", "dict_final_sums"} ELSE {})
CommittedVUses(v) ==
  OpenedVUses(v)
    \cup (IF v.dict THEN DictLink ELSE {})
    \cup DictDraws(v)
InteractedVDraws(v) ==
  CommittedVDraws(v)
    \cup (MemLink \cup {"z_rc"})
InteractedVAbsorbs(v) ==
  CommittedVAbsorbs(v)
    \cup ({"interaction_commitment", "rc_interaction_commitment", "final_sums"}
          \cup {"logup_t1", "logup_t2", "logup_t3", "rc_u1", "rc_u2"})
    \cup (IF v.bitwise THEN {"bitwise_commitment"} ELSE {})
    \cup {"memory_table_commitment"}
    \cup {"rc_counts_commitment"}
InteractedVReads(v) ==
  CommittedVReads(v)
    \cup {"logup_challenges"}
    \cup (IF v.bitwise THEN {"bitwise_rows", "bitwise_commitment"} ELSE {})
    \cup (IF v.dict /\ Has(v, "dict_access_pointers")
          THEN {"memory_table", "dict_exec_data", "dict_n_accesses"} ELSE {})
    \cup (IF v.bitwise THEN {"memory_table", "bitwise_rows"} ELSE {})
    \cup {"memory_table", "memory_table_commitment", "final_sums"}
    \cup {"rc_counts", "rc_counts_commitment", "final_sums"}
InteractedVUses(v) ==
  CommittedVUses(v)
    \cup LogUpChallenges
    \cup MemLink
    \cup {"z_rc"}
SampledVDraws(v) ==
  InteractedVDraws(v)
    \cup {"constraint_alphas", "oods_z", "oods_alpha"}
    \cup {FriAlpha[i] : i \in 0 .. FriLayers(v)}
SampledVAbsorbs(v) ==
  InteractedVAbsorbs(v)
    \cup {"quotient_commitment", "oods_sampled_values"}
    \cup ({FriCommitment[i] : i \in 1 .. FriLayers(v)}
          \cup {"oods_quotient_commitment", "fri_last_layer_poly"})
SampledVReads(v) ==
  InteractedVReads(v)
    \cup {"oods_z", "oods_alpha"}
SampledVUses(v) ==
  InteractedVUses(v)
    \cup {"oods_z", "oods_alpha"}
CairoVDraws(v) ==
  SampledVDraws(v)
    \cup {"pow_prefix", "query_indices"}
CairoVAbsorbs(v) ==
  SampledVAbsorbs(v)
    \cup {"pow_nonce"}
CairoVReads(v) ==
  SampledVReads(v)
    \cup {"pow_nonce", "query_indices"}
    \cup ({"oods_quotient_decommitment", "fri_last_layer"}
          \cup {FriDecommitment[i] : i \in 1 .. FriLayers(v)})
    \cup {"trace_values_at_queries", "trace_auth_paths", "trace_commitment", "trace_commitment_hi",
          "dict_trace_commitment"}
    \cup (IF v.ec /\ Has(v, "ec_trace_commitment") /\ Has(v, "ec_log_eval")
          THEN {"ec_trace_at_queries", "ec_trace_auth_paths", "ec_trace_commitment",
                "ec_trace_commitment_hi"} ELSE {})
    \cup ({"trace_values_at_queries", "quotient_decommitment", "logup_challenges"}
          \cup InteractionDecoms \cup IntermediateDecoms)
    \cup ({"trace_values_at_queries", "quotient_decommitment", "oods_sampled_values",
           "oods_quotient_decommitment", "oods_z", "oods_alpha"} \cup InteractionDecoms)
    \cup ({"quotient_decommitment", "oods_quotient_decommitment", "quotient_commitment",
           "oods_quotient_commitment"} \cup InteractionDecoms \cup IntermediateDecoms
           \cup {FriDecommitment[i] : i \in 1 .. FriLayers(v)}
           \cup {FriCommitment[i] : i \in 1 .. FriLayers(v)})
CairoVUses(v) ==
  SampledVUses(v)
    \cup {"pow_prefix", "query_indices"}
    \cup ({FriAlpha[i] : i \in 0 .. FriLayers(v)} \cup {"query_indices"})
    \cup {"query_indices"}
    \cup (IF v.ec /\ Has(v, "ec_trace_commitment") /\ Has(v, "ec_log_eval")
          THEN {"query_indices"} ELSE {})
    \cup (LogUpChallenges \cup {"constraint_alphas", "query_indices"})
    \cup {"oods_z", "oods_alpha", "query_indices"}
    \cup {"query_indices"}

LEMMA VOpenedAudit ==
  ASSUME NEW v, NEW n \in 1 .. MaxLayers, FriLayers(v) = n
  PROVE  /\ Audit(VOpened(v), OpenedVDraws(v), OpenedVAbsorbs(v), OpenedVReads(v), OpenedVUses(v))
         /\ Ready(VOpened(v), {})
<1> DEFINE C1 == VersionGate(v)
           C2 == C1 \o SizeGates(v)
           C3 == C2 \o ZeroCommitmentGates(v)
           C4 == C3 \o ProgramHash(v)
           C5 == C4 \o ReplayTrace(v)
           C6 == C5 \o ReplaySideTable(v)
           D1 == {}
           D2 == D1
           D3 == D2
           D4 == D3
           D5 == D4
           D6 == D5
           A1 == {}
           A2 == A1
           A3 == A2
           A4 == A3
           A5 == A4 \cup Trace
           A6 == A5 \cup (IF v.dict /\ Has(v, "dict_side_table")
                          THEN {"dict_side_table_commitment"} ELSE {})
           R1 == {"version"}
           R2 == R1
           R3 == R2
           R4 == R3 \cup {"program", "program_hash"}
           R5 == R4
           R6 == R5 \cup (IF v.dict /\ Has(v, "dict_side_table")
                          THEN {"dict_side_table", "dict_side_table_commitment"} ELSE {})
           U1 == {}
           U2 == U1
           U3 == U2
           U4 == U3
           U5 == U4
           U6 == U5
<1>1. Audit(C1, D1, A1, R1, U1) /\ Ready(C1, {})
  BY GateSections, UsesReady DEF Audit
<1> HIDE DEF C1, C2, C3, C4, C5, C6
<1>2. Audit(C2, D2, A2, R2, U2) /\ Ready(C2, {})
  <2>1. Audit(SizeGates(v), {},
              {},
              {},
              {})
    BY GateSections
  <2>2. Ready(SizeGates(v), {} \cup D1)
    BY <2>1, UsesReady DEF Audit
  <2> HIDE DEF D1, A1, R1, U1
  <2>3. Audit(C1 \o SizeGates(v), D1 \cup {}, A1 \cup {},
              R1 \cup {}, U1 \cup {})
    BY <1>1, <2>1, AuditsJoin
  <2>4. Ready(C1 \o SizeGates(v), {})
    BY <1>1, <2>1, <2>2, ReadiesJoin DEF Audit
  <2> QED BY <2>3, <2>4 DEF C2
<1>3. Audit(C3, D3, A3, R3, U3) /\ Ready(C3, {})
  <2>1. Audit(ZeroCommitmentGates(v), {},
              {},
              {},
              {})
    BY GateSections
  <2>2. Ready(ZeroCommitmentGates(v), {} \cup D2)
    BY <2>1, UsesReady DEF Audit
  <2> HIDE DEF D2, A2, R2, U2
  <2>3. Audit(C2 \o ZeroCommitmentGates(v), D2 \cup {}, A2 \cup {},
              R2 \cup {}, U2 \cup {})
    BY <1>2, <2>1, AuditsJoin
  <2>4. Ready(C2 \o ZeroCommitmentGates(v), {})
    BY <1>2, <2>1, <2>2, ReadiesJoin DEF Audit
  <2> QED BY <2>3, <2>4 DEF C3
<1>4. Audit(C4, D4, A4, R4, U4) /\ Ready(C4, {})
  <2>1. Audit(ProgramHash(v), {},
              {},
              {"program", "program_hash"},
              {})
    BY GateSections
  <2>2. Ready(ProgramHash(v), {} \cup D3)
    BY <2>1, UsesReady DEF Audit
  <2> HIDE DEF D3, A3, R3, U3
  <2>3. Audit(C3 \o ProgramHash(v), D3 \cup {}, A3 \cup {},
              R3 \cup {"program", "program_hash"}, U3 \cup {})
    BY <1>3, <2>1, AuditsJoin
  <2>4. Ready(C3 \o ProgramHash(v), {})
    BY <1>3, <2>1, <2>2, ReadiesJoin DEF Audit
  <2> QED BY <2>3, <2>4 DEF C4
<1>5. Audit(C5, D5, A5, R5, U5) /\ Ready(C5, {})
  <2>1. Audit(ReplayTrace(v), {},
              Trace,
              {},
              {})
    BY ReplayTraceSections
  <2>2. Ready(ReplayTrace(v), {} \cup D4)
    BY <2>1, UsesReady DEF Audit
  <2> HIDE DEF D4, A4, R4, U4
  <2>3. Audit(C4 \o ReplayTrace(v), D4 \cup {}, A4 \cup Trace,
              R4 \cup {}, U4 \cup {})
    BY <1>4, <2>1, AuditsJoin
  <2>4. Ready(C4 \o ReplayTrace(v), {})
    BY <1>4, <2>1, <2>2, ReadiesJoin DEF Audit
  <2> QED BY <2>3, <2>4 DEF C5
<1>6. Audit(C6, D6, A6, R6, U6) /\ Ready(C6, {})
  <2>1. Audit(ReplaySideTable(v), {},
              (IF v.dict /\ Has(v, "dict_side_table") THEN {"dict_side_table_commitment"} ELSE {}),
              (IF v.dict /\ Has(v, "dict_side_table")
               THEN {"dict_side_table", "dict_side_table_commitment"} ELSE {}),
              {})
    BY ReplayTraceSections
  <2>2. Ready(ReplaySideTable(v), {} \cup D5)
    BY <2>1, UsesReady DEF Audit
  <2> HIDE DEF D5, A5, R5, U5
  <2>3. Audit(C5 \o ReplaySideTable(v), D5 \cup {}, A5
              \cup (IF v.dict /\ Has(v, "dict_side_table") THEN {"dict_side_table_commitment"} ELSE {}),
              R5 \cup (IF v.dict /\ Has(v, "dict_side_table")
                       THEN {"dict_side_table", "dict_side_table_commitment"} ELSE {}), U5 \cup {})
    BY <1>5, <2>1, AuditsJoin
  <2>4. Ready(C5 \o ReplaySideTable(v), {})
    BY <1>5, <2>1, <2>2, ReadiesJoin DEF Audit
  <2> QED BY <2>3, <2>4 DEF C6
<1>7. D6 = OpenedVDraws(v)
  BY DEF OpenedVDraws
<1>8. A6 = OpenedVAbsorbs(v)
  BY DEF OpenedVAbsorbs
<1>9. R6 = OpenedVReads(v)
  BY DEF OpenedVReads
<1>10. U6 = OpenedVUses(v)
  BY DEF OpenedVUses
<1>11. VOpened(v) = C6
  BY DEF VOpened, C1, C2, C3, C4, C5, C6
<1> HIDE DEF D6, A6, R6, U6
<1> QED BY <1>6, <1>7, <1>8, <1>9, <1>10, <1>11

LEMMA VCommittedAudit ==
  ASSUME NEW v, NEW n \in 1 .. MaxLayers, FriLayers(v) = n
  PROVE  /\ Audit(VCommitted(v), CommittedVDraws(v), CommittedVAbsorbs(v), CommittedVReads(v),
                  CommittedVUses(v))
         /\ Ready(VCommitted(v), {})
<1> DEFINE C0 == VOpened(v)
           C1 == C0 \o ReplaySDict(v)
           C2 == C1 \o DictLinkCheck(v)
           C3 == C2 \o ReplayEc(v)
           C4 == C3 \o ReplayDictSubAir(v)
           D0 == OpenedVDraws(v)
           D1 == D0 \cup DictLink
           D2 == D1
           D3 == D2
           D4 == D3 \cup DictDraws(v)
           A0 == OpenedVAbsorbs(v)
           A1 == A0 \cup {"dict_main_interaction_commitment", "dict_link_final"}
           A2 == A1
           A3 == A2 \cup (IF v.ec /\ Has(v, "ec_trace_commitment")
                          THEN {"ec_trace_commitment", "ec_trace_commitment_hi"} ELSE {})
           A4 == A3 \cup (IF v.dict THEN {"dict_exec_commitment", "dict_sorted_commitment",
                                          "dict_final_sums"} ELSE {})
           R0 == OpenedVReads(v)
           R1 == R0
           R2 == R1 \cup (IF v.dict THEN {"dict_exec_data", "dict_n_accesses", "dict_link_final"}
                          ELSE {}) \cup (IF v.dict /\ Has(v, "dict_side_table")
                                         THEN {"dict_side_table"} ELSE {})
           R3 == R2
           R4 == R3 \cup (IF v.dict THEN {"dict_exec_data", "dict_exec_commitment", "dict_sorted_data",
                                          "dict_sorted_commitment",
                   "dict_final_sums"} ELSE {})
           U0 == OpenedVUses(v)
           U1 == U0
           U2 == U1 \cup (IF v.dict THEN DictLink ELSE {})
           U3 == U2
           U4 == U3 \cup DictDraws(v)
<1>0. Audit(C0, D0, A0, R0, U0) /\ Ready(C0, {})
  BY VOpenedAudit
<1> HIDE DEF C0, C1, C2, C3, C4
<1>1. Audit(C1, D1, A1, R1, U1) /\ Ready(C1, {})
  <2>1. Audit(ReplaySDict(v), DictLink,
              {"dict_main_interaction_commitment", "dict_link_final"},
              {},
              {})
    BY ReplayTraceSections
  <2>2. Ready(ReplaySDict(v), {} \cup D0)
    BY <2>1, UsesReady DEF Audit
  <2> HIDE DEF D0, A0, R0, U0
  <2>3. Audit(C0 \o ReplaySDict(v), D0 \cup DictLink, A0
              \cup {"dict_main_interaction_commitment", "dict_link_final"},
              R0 \cup {}, U0 \cup {})
    BY <1>0, <2>1, AuditsJoin
  <2>4. Ready(C0 \o ReplaySDict(v), {})
    BY <1>0, <2>1, <2>2, ReadiesJoin DEF Audit
  <2> QED BY <2>3, <2>4 DEF C1
<1>2. Audit(C2, D2, A2, R2, U2) /\ Ready(C2, {})
  <2>1. Audit(DictLinkCheck(v), {},
              {},
              (IF v.dict THEN {"dict_exec_data", "dict_n_accesses", "dict_link_final"} ELSE {})
              \cup (IF v.dict /\ Has(v, "dict_side_table") THEN {"dict_side_table"} ELSE {}),
              (IF v.dict THEN DictLink ELSE {}))
    BY ReplayTraceSections
  <2>2. Ready(DictLinkCheck(v), {} \cup D1)
    <3>1. (IF v.dict THEN DictLink ELSE {}) \subseteq {} \cup D1
      BY DEF OpenedVDraws, DictLink, MemLink, DictDraws, LogUpChallenges
    <3> QED BY <2>1, <3>1, UsesReady DEF Audit
  <2> HIDE DEF D1, A1, R1, U1
  <2>3. Audit(C1 \o DictLinkCheck(v), D1 \cup {}, A1 \cup {},
              R1 \cup (IF v.dict THEN {"dict_exec_data", "dict_n_accesses", "dict_link_final"} ELSE {})
              \cup (IF v.dict /\ Has(v, "dict_side_table") THEN {"dict_side_table"} ELSE {}), U1
              \cup (IF v.dict THEN DictLink ELSE {}))
    BY <1>1, <2>1, AuditsJoin
  <2>4. Ready(C1 \o DictLinkCheck(v), {})
    BY <1>1, <2>1, <2>2, ReadiesJoin DEF Audit
  <2> QED BY <2>3, <2>4 DEF C2
<1>3. Audit(C3, D3, A3, R3, U3) /\ Ready(C3, {})
  <2>1. Audit(ReplayEc(v), {},
              (IF v.ec /\ Has(v, "ec_trace_commitment")
               THEN {"ec_trace_commitment", "ec_trace_commitment_hi"} ELSE {}),
              {},
              {})
    BY ReplayTraceSections
  <2>2. Ready(ReplayEc(v), {} \cup D2)
    BY <2>1, UsesReady DEF Audit
  <2> HIDE DEF D2, A2, R2, U2
  <2>3. Audit(C2 \o ReplayEc(v), D2 \cup {}, A2
              \cup (IF v.ec /\ Has(v, "ec_trace_commitment")
                    THEN {"ec_trace_commitment", "ec_trace_commitment_hi"} ELSE {}),
              R2 \cup {}, U2 \cup {})
    BY <1>2, <2>1, AuditsJoin
  <2>4. Ready(C2 \o ReplayEc(v), {})
    BY <1>2, <2>1, <2>2, ReadiesJoin DEF Audit
  <2> QED BY <2>3, <2>4 DEF C3
<1>4. Audit(C4, D4, A4, R4, U4) /\ Ready(C4, {})
  <2>1. Audit(ReplayDictSubAir(v), DictDraws(v),
              (IF v.dict THEN {"dict_exec_commitment", "dict_sorted_commitment",
                               "dict_final_sums"} ELSE {}),
              (IF v.dict THEN {"dict_exec_data", "dict_exec_commitment", "dict_sorted_data",
                               "dict_sorted_commitment",
                   "dict_final_sums"} ELSE {}),
              DictDraws(v))
    BY ReplayTraceSections
  <2>2. Ready(ReplayDictSubAir(v), {} \cup D3)
    BY OwnChallenges
  <2> HIDE DEF D3, A3, R3, U3
  <2>3. Audit(C3 \o ReplayDictSubAir(v), D3 \cup DictDraws(v), A3
              \cup (IF v.dict THEN {"dict_exec_commitment", "dict_sorted_commitment",
                                    "dict_final_sums"} ELSE {}),
              R3 \cup (IF v.dict THEN {"dict_exec_data", "dict_exec_commitment", "dict_sorted_data",
                                       "dict_sorted_commitment",
                   "dict_final_sums"} ELSE {}), U3 \cup DictDraws(v))
    BY <1>3, <2>1, AuditsJoin
  <2>4. Ready(C3 \o ReplayDictSubAir(v), {})
    BY <1>3, <2>1, <2>2, ReadiesJoin DEF Audit
  <2> QED BY <2>3, <2>4 DEF C4
<1>5. D4 = CommittedVDraws(v)
  BY DEF CommittedVDraws
<1>6. A4 = CommittedVAbsorbs(v)
  BY DEF CommittedVAbsorbs
<1>7. R4 = CommittedVReads(v)
  BY DEF CommittedVReads
<1>8. U4 = CommittedVUses(v)
  BY DEF CommittedVUses
<1>9. VCommitted(v) = C4
  BY DEF VCommitted, C0, C1, C2, C3, C4
<1> HIDE DEF D4, A4, R4, U4
<1> QED BY <1>4, <1>5, <1>6, <1>7, <1>8, <1>9

LEMMA VInteractedAudit ==
  ASSUME NEW v, NEW n \in 1 .. MaxLayers, FriLayers(v) = n
  PROVE  /\ Audit(VInteracted(v), InteractedVDraws(v), InteractedVAbsorbs(v), InteractedVReads(v),
                  InteractedVUses(v))
         /\ Ready(VInteracted(v), {})
<1> DEFINE C0 == VCommitted(v)
           C1 == C0 \o ReplayLogUp(v)
           C2 == C1 \o ReplayInteraction(v)
           C3 == C2 \o ReplayBitwise(v)
           C4 == C3 \o DictBusLink(v)
           C5 == C4 \o BitwiseBusLink(v)
           C6 == C5 \o ReplayMemTable(v)
           C7 == C6 \o ReplayRcCounts(v)
           D0 == CommittedVDraws(v)
           D1 == D0 \cup (MemLink \cup {"z_rc"})
           D2 == D1
           D3 == D2
           D4 == D3
           D5 == D4
           D6 == D5
           D7 == D6
           A0 == CommittedVAbsorbs(v)
           A1 == A0
           A2 == A1 \cup ({"interaction_commitment", "rc_interaction_commitment", "final_sums"}
                \cup {"logup_t1", "logup_t2", "logup_t3", "rc_u1", "rc_u2"})
           A3 == A2 \cup (IF v.bitwise THEN {"bitwise_commitment"} ELSE {})
           A4 == A3
           A5 == A4
           A6 == A5 \cup {"memory_table_commitment"}
           A7 == A6 \cup {"rc_counts_commitment"}
           R0 == CommittedVReads(v)
           R1 == R0 \cup {"logup_challenges"}
           R2 == R1
           R3 == R2 \cup (IF v.bitwise THEN {"bitwise_rows", "bitwise_commitment"} ELSE {})
           R4 == R3 \cup (IF v.dict /\ Has(v, "dict_access_pointers")
                          THEN {"memory_table", "dict_exec_data", "dict_n_accesses"} ELSE {})
           R5 == R4 \cup (IF v.bitwise THEN {"memory_table", "bitwise_rows"} ELSE {})
           R6 == R5 \cup {"memory_table", "memory_table_commitment", "final_sums"}
           R7 == R6 \cup {"rc_counts", "rc_counts_commitment", "final_sums"}
           U0 == CommittedVUses(v)
           U1 == U0 \cup LogUpChallenges
           U2 == U1
           U3 == U2
           U4 == U3
           U5 == U4
           U6 == U5 \cup MemLink
           U7 == U6 \cup {"z_rc"}
<1>0. Audit(C0, D0, A0, R0, U0) /\ Ready(C0, {})
  BY VCommittedAudit
<1> HIDE DEF C0, C1, C2, C3, C4, C5, C6, C7
<1>1. Audit(C1, D1, A1, R1, U1) /\ Ready(C1, {})
  <2>1. Audit(ReplayLogUp(v), (MemLink \cup {"z_rc"}),
              {},
              {"logup_challenges"},
              LogUpChallenges)
    BY ReplayLogUpSections
  <2>2. Ready(ReplayLogUp(v), {} \cup D0)
    BY OwnChallenges DEF CommittedVDraws
  <2> HIDE DEF D0, A0, R0, U0
  <2>3. Audit(C0 \o ReplayLogUp(v), D0 \cup (MemLink \cup {"z_rc"}), A0 \cup {},
              R0 \cup {"logup_challenges"}, U0 \cup LogUpChallenges)
    BY <1>0, <2>1, AuditsJoin
  <2>4. Ready(C0 \o ReplayLogUp(v), {})
    BY <1>0, <2>1, <2>2, ReadiesJoin DEF Audit
  <2> QED BY <2>3, <2>4 DEF C1
<1>2. Audit(C2, D2, A2, R2, U2) /\ Ready(C2, {})
  <2>1. Audit(ReplayInteraction(v), {},
              ({"interaction_commitment", "rc_interaction_commitment", "final_sums"}
                \cup {"logup_t1", "logup_t2", "logup_t3", "rc_u1", "rc_u2"}),
              {},
              {})
    BY ReplayLogUpSections
  <2>2. Ready(ReplayInteraction(v), {} \cup D1)
    BY <2>1, UsesReady DEF Audit
  <2> HIDE DEF D1, A1, R1, U1
  <2>3. Audit(C1 \o ReplayInteraction(v), D1 \cup {}, A1
              \cup ({"interaction_commitment", "rc_interaction_commitment", "final_sums"}
                \cup {"logup_t1", "logup_t2", "logup_t3", "rc_u1", "rc_u2"}),
              R1 \cup {}, U1 \cup {})
    BY <1>1, <2>1, AuditsJoin
  <2>4. Ready(C1 \o ReplayInteraction(v), {})
    BY <1>1, <2>1, <2>2, ReadiesJoin DEF Audit
  <2> QED BY <2>3, <2>4 DEF C2
<1>3. Audit(C3, D3, A3, R3, U3) /\ Ready(C3, {})
  <2>1. Audit(ReplayBitwise(v), {},
              (IF v.bitwise THEN {"bitwise_commitment"} ELSE {}),
              (IF v.bitwise THEN {"bitwise_rows", "bitwise_commitment"} ELSE {}),
              {})
    BY ReplayLogUpSections
  <2>2. Ready(ReplayBitwise(v), {} \cup D2)
    BY <2>1, UsesReady DEF Audit
  <2> HIDE DEF D2, A2, R2, U2
  <2>3. Audit(C2 \o ReplayBitwise(v), D2 \cup {}, A2
              \cup (IF v.bitwise THEN {"bitwise_commitment"} ELSE {}),
              R2 \cup (IF v.bitwise THEN {"bitwise_rows", "bitwise_commitment"} ELSE {}), U2 \cup {})
    BY <1>2, <2>1, AuditsJoin
  <2>4. Ready(C2 \o ReplayBitwise(v), {})
    BY <1>2, <2>1, <2>2, ReadiesJoin DEF Audit
  <2> QED BY <2>3, <2>4 DEF C3
<1>4. Audit(C4, D4, A4, R4, U4) /\ Ready(C4, {})
  <2>1. Audit(DictBusLink(v), {},
              {},
              (IF v.dict /\ Has(v, "dict_access_pointers")
               THEN {"memory_table", "dict_exec_data", "dict_n_accesses"} ELSE {}),
              {})
    BY ReplayLogUpSections
  <2>2. Ready(DictBusLink(v), {} \cup D3)
    BY <2>1, UsesReady DEF Audit
  <2> HIDE DEF D3, A3, R3, U3
  <2>3. Audit(C3 \o DictBusLink(v), D3 \cup {}, A3 \cup {},
              R3 \cup (IF v.dict /\ Has(v, "dict_access_pointers")
                       THEN {"memory_table", "dict_exec_data", "dict_n_accesses"} ELSE {}), U3 \cup {})
    BY <1>3, <2>1, AuditsJoin
  <2>4. Ready(C3 \o DictBusLink(v), {})
    BY <1>3, <2>1, <2>2, ReadiesJoin DEF Audit
  <2> QED BY <2>3, <2>4 DEF C4
<1>5. Audit(C5, D5, A5, R5, U5) /\ Ready(C5, {})
  <2>1. Audit(BitwiseBusLink(v), {},
              {},
              (IF v.bitwise THEN {"memory_table", "bitwise_rows"} ELSE {}),
              {})
    BY ReplayLogUpSections
  <2>2. Ready(BitwiseBusLink(v), {} \cup D4)
    BY <2>1, UsesReady DEF Audit
  <2> HIDE DEF D4, A4, R4, U4
  <2>3. Audit(C4 \o BitwiseBusLink(v), D4 \cup {}, A4 \cup {},
              R4 \cup (IF v.bitwise THEN {"memory_table", "bitwise_rows"} ELSE {}), U4 \cup {})
    BY <1>4, <2>1, AuditsJoin
  <2>4. Ready(C4 \o BitwiseBusLink(v), {})
    BY <1>4, <2>1, <2>2, ReadiesJoin DEF Audit
  <2> QED BY <2>3, <2>4 DEF C5
<1>6. Audit(C6, D6, A6, R6, U6) /\ Ready(C6, {})
  <2>1. Audit(ReplayMemTable(v), {},
              {"memory_table_commitment"},
              {"memory_table", "memory_table_commitment", "final_sums"},
              MemLink)
    BY ReplayLogUpSections
  <2>2. Ready(ReplayMemTable(v), {} \cup D5)
    <3>1. MemLink \subseteq {} \cup D5
      BY DEF CommittedVDraws, OpenedVDraws, DictLink, MemLink, DictDraws, LogUpChallenges
    <3> QED BY <2>1, <3>1, UsesReady DEF Audit
  <2> HIDE DEF D5, A5, R5, U5
  <2>3. Audit(C5 \o ReplayMemTable(v), D5 \cup {}, A5 \cup {"memory_table_commitment"},
              R5 \cup {"memory_table", "memory_table_commitment", "final_sums"}, U5 \cup MemLink)
    BY <1>5, <2>1, AuditsJoin
  <2>4. Ready(C5 \o ReplayMemTable(v), {})
    BY <1>5, <2>1, <2>2, ReadiesJoin DEF Audit
  <2> QED BY <2>3, <2>4 DEF C6
<1>7. Audit(C7, D7, A7, R7, U7) /\ Ready(C7, {})
  <2>1. Audit(ReplayRcCounts(v), {},
              {"rc_counts_commitment"},
              {"rc_counts", "rc_counts_commitment", "final_sums"},
              {"z_rc"})
    BY ReplayLogUpSections
  <2>2. Ready(ReplayRcCounts(v), {} \cup D6)
    <3>1. {"z_rc"} \subseteq {} \cup D6
      BY DEF CommittedVDraws, OpenedVDraws, DictLink, MemLink, DictDraws, LogUpChallenges
    <3> QED BY <2>1, <3>1, UsesReady DEF Audit
  <2> HIDE DEF D6, A6, R6, U6
  <2>3. Audit(C6 \o ReplayRcCounts(v), D6 \cup {}, A6 \cup {"rc_counts_commitment"},
              R6 \cup {"rc_counts", "rc_counts_commitment", "final_sums"}, U6 \cup {"z_rc"})
    BY <1>6, <2>1, AuditsJoin
  <2>4. Ready(C6 \o ReplayRcCounts(v), {})
    BY <1>6, <2>1, <2>2, ReadiesJoin DEF Audit
  <2> QED BY <2>3, <2>4 DEF C7
<1>8. D7 = InteractedVDraws(v)
  BY DEF InteractedVDraws
<1>9. A7 = InteractedVAbsorbs(v)
  BY DEF InteractedVAbsorbs
<1>10. R7 = InteractedVReads(v)
  BY DEF InteractedVReads
<1>11. U7 = InteractedVUses(v)
  BY DEF InteractedVUses
<1>12. VInteracted(v) = C7
  BY DEF VInteracted, C0, C1, C2, C3, C4, C5, C6, C7
<1> HIDE DEF D7, A7, R7, U7
<1> QED BY <1>7, <1>8, <1>9, <1>10, <1>11, <1>12

LEMMA VSampledAudit ==
  ASSUME NEW v, NEW n \in 1 .. MaxLayers, FriLayers(v) = n
  PROVE  /\ Audit(VSampled(v), SampledVDraws(v), SampledVAbsorbs(v), SampledVReads(v), SampledVUses(v))
         /\ Ready(VSampled(v), {})
<1> DEFINE C0 == VInteracted(v)
           C1 == C0 \o ReplayOods(v)
           C2 == C1 \o ReplayFri(v)
           D0 == InteractedVDraws(v)
           D1 == D0 \cup {"constraint_alphas", "oods_z", "oods_alpha"}
           D2 == D1 \cup {FriAlpha[i] : i \in 0 .. n}
           A0 == InteractedVAbsorbs(v)
           A1 == A0 \cup {"quotient_commitment", "oods_sampled_values"}
           A2 == A1 \cup ({FriCommitment[i] : i \in 1 .. n}
                          \cup {"oods_quotient_commitment", "fri_last_layer_poly"})
           R0 == InteractedVReads(v)
           R1 == R0 \cup {"oods_z", "oods_alpha"}
           R2 == R1
           U0 == InteractedVUses(v)
           U1 == U0 \cup {"oods_z", "oods_alpha"}
           U2 == U1
<1>0. Audit(C0, D0, A0, R0, U0) /\ Ready(C0, {})
  BY VInteractedAudit
<1> HIDE DEF C0, C1, C2
<1>1. Audit(C1, D1, A1, R1, U1) /\ Ready(C1, {})
  <2>1. Audit(ReplayOods(v), {"constraint_alphas", "oods_z", "oods_alpha"},
              {"quotient_commitment", "oods_sampled_values"},
              {"oods_z", "oods_alpha"},
              {"oods_z", "oods_alpha"})
    BY ReplayFriSections
  <2>2. Ready(ReplayOods(v), {} \cup D0)
    BY OwnChallenges
  <2> HIDE DEF D0, A0, R0, U0
  <2>3. Audit(C0 \o ReplayOods(v), D0 \cup {"constraint_alphas", "oods_z", "oods_alpha"}, A0
              \cup {"quotient_commitment", "oods_sampled_values"},
              R0 \cup {"oods_z", "oods_alpha"}, U0 \cup {"oods_z", "oods_alpha"})
    BY <1>0, <2>1, AuditsJoin
  <2>4. Ready(C0 \o ReplayOods(v), {})
    BY <1>0, <2>1, <2>2, ReadiesJoin DEF Audit
  <2> QED BY <2>3, <2>4 DEF C1
<1>2. Audit(C2, D2, A2, R2, U2) /\ Ready(C2, {})
  <2>1. Audit(ReplayFri(v), {FriAlpha[i] : i \in 0 .. n},
              ({FriCommitment[i] : i \in 1 .. n}
               \cup {"oods_quotient_commitment", "fri_last_layer_poly"}),
              {},
              {})
    BY ReplayFriSections
  <2>2. Ready(ReplayFri(v), {} \cup D1)
    BY <2>1, UsesReady DEF Audit
  <2> HIDE DEF D1, A1, R1, U1
  <2>3. Audit(C1 \o ReplayFri(v), D1 \cup {FriAlpha[i] : i \in 0 .. n}, A1
              \cup ({FriCommitment[i] : i \in 1 .. n}
                    \cup {"oods_quotient_commitment", "fri_last_layer_poly"}),
              R1 \cup {}, U1 \cup {})
    BY <1>1, <2>1, AuditsJoin
  <2>4. Ready(C1 \o ReplayFri(v), {})
    BY <1>1, <2>1, <2>2, ReadiesJoin DEF Audit
  <2> QED BY <2>3, <2>4 DEF C2
<1>3. D2 = SampledVDraws(v)
  BY DEF SampledVDraws
<1>4. A2 = SampledVAbsorbs(v)
  BY DEF SampledVAbsorbs
<1>5. R2 = SampledVReads(v)
  BY DEF SampledVReads
<1>6. U2 = SampledVUses(v)
  BY DEF SampledVUses
<1>7. VSampled(v) = C2
  BY DEF VSampled, C0, C1, C2
<1> HIDE DEF D2, A2, R2, U2
<1> QED BY <1>2, <1>3, <1>4, <1>5, <1>6, <1>7

LEMMA CairoVerifyAudit ==
  ASSUME NEW v, NEW n \in 1 .. MaxLayers, FriLayers(v) = n
  PROVE  /\ Audit(cairo_verify(v), CairoVDraws(v), CairoVAbsorbs(v), CairoVReads(v), CairoVUses(v))
         /\ Ready(cairo_verify(v), {})
<1> DEFINE C0 == VSampled(v)
           C1 == C0 \o ReplayPow(v)
           C2 == C1 \o FoldChecks(v)
           C3 == C2 \o TraceAuthPaths(v)
           C4 == C3 \o EcAuthPaths(v)
           C5 == C4 \o ConstraintChecks(v)
           C6 == C5 \o OodsFormula(v)
           C7 == C6 \o DecommitAuthPaths(v)
           D0 == SampledVDraws(v)
           D1 == D0 \cup {"pow_prefix", "query_indices"}
           D2 == D1
           D3 == D2
           D4 == D3
           D5 == D4
           D6 == D5
           D7 == D6
           A0 == SampledVAbsorbs(v)
           A1 == A0 \cup {"pow_nonce"}
           A2 == A1
           A3 == A2
           A4 == A3
           A5 == A4
           A6 == A5
           A7 == A6
           R0 == SampledVReads(v)
           R1 == R0 \cup {"pow_nonce", "query_indices"}
           R2 == R1 \cup ({"oods_quotient_decommitment", "fri_last_layer"}
                          \cup {FriDecommitment[i] : i \in 1 .. n})
           R3 == R2 \cup {"trace_values_at_queries", "trace_auth_paths", "trace_commitment",
                          "trace_commitment_hi",
               "dict_trace_commitment"}
           R4 == R3 \cup (IF v.ec /\ Has(v, "ec_trace_commitment") /\ Has(v, "ec_log_eval")
                          THEN {"ec_trace_at_queries", "ec_trace_auth_paths", "ec_trace_commitment",
                    "ec_trace_commitment_hi"} ELSE {})
           R5 == R4 \cup ({"trace_values_at_queries", "quotient_decommitment", "logup_challenges"}
                \cup InteractionDecoms \cup IntermediateDecoms)
           R6 == R5 \cup ({"trace_values_at_queries", "quotient_decommitment", "oods_sampled_values",
                "oods_quotient_decommitment", "oods_z", "oods_alpha"} \cup InteractionDecoms)
           R7 == R6 \cup ({"quotient_decommitment", "oods_quotient_decommitment", "quotient_commitment",
                "oods_quotient_commitment"} \cup InteractionDecoms \cup IntermediateDecoms
                \cup {FriDecommitment[i] : i \in 1 .. n} \cup {FriCommitment[i] : i \in 1 .. n})
           U0 == SampledVUses(v)
           U1 == U0 \cup {"pow_prefix", "query_indices"}
           U2 == U1 \cup ({FriAlpha[i] : i \in 0 .. n} \cup {"query_indices"})
           U3 == U2 \cup {"query_indices"}
           U4 == U3 \cup (IF v.ec /\ Has(v, "ec_trace_commitment") /\ Has(v, "ec_log_eval")
                          THEN {"query_indices"} ELSE {})
           U5 == U4 \cup (LogUpChallenges \cup {"constraint_alphas", "query_indices"})
           U6 == U5 \cup {"oods_z", "oods_alpha", "query_indices"}
           U7 == U6 \cup {"query_indices"}
<1>0. Audit(C0, D0, A0, R0, U0) /\ Ready(C0, {})
  BY VSampledAudit
<1> HIDE DEF C0, C1, C2, C3, C4, C5, C6, C7
<1>1. Audit(C1, D1, A1, R1, U1) /\ Ready(C1, {})
  <2>1. Audit(ReplayPow(v), {"pow_prefix", "query_indices"},
              {"pow_nonce"},
              {"pow_nonce", "query_indices"},
              {"pow_prefix", "query_indices"})
    BY ReplayFriSections
  <2>2. Ready(ReplayPow(v), {} \cup D0)
    BY OwnChallenges
  <2> HIDE DEF D0, A0, R0, U0
  <2>3. Audit(C0 \o ReplayPow(v), D0 \cup {"pow_prefix", "query_indices"}, A0 \cup {"pow_nonce"},
              R0 \cup {"pow_nonce", "query_indices"}, U0 \cup {"pow_prefix", "query_indices"})
    BY <1>0, <2>1, AuditsJoin
  <2>4. Ready(C0 \o ReplayPow(v), {})
    BY <1>0, <2>1, <2>2, ReadiesJoin DEF Audit
  <2> QED BY <2>3, <2>4 DEF C1
<1>2. Audit(C2, D2, A2, R2, U2) /\ Ready(C2, {})
  <2>1. Audit(FoldChecks(v), {},
              {},
              ({"oods_quotient_decommitment", "fri_last_layer"}
               \cup {FriDecommitment[i] : i \in 1 .. n}),
              ({FriAlpha[i] : i \in 0 .. n} \cup {"query_indices"}))
    BY QueryCheckSections
  <2>2. Ready(FoldChecks(v), {} \cup D1)
    <3>1. ({FriAlpha[i] : i \in 0 .. n} \cup {"query_indices"}) \subseteq {} \cup D1
      BY DEF SampledVDraws, InteractedVDraws, CommittedVDraws, OpenedVDraws, DictLink, MemLink,
         DictDraws, LogUpChallenges
    <3> QED BY <2>1, <3>1, UsesReady DEF Audit
  <2> HIDE DEF D1, A1, R1, U1
  <2>3. Audit(C1 \o FoldChecks(v), D1 \cup {}, A1 \cup {},
              R1 \cup ({"oods_quotient_decommitment", "fri_last_layer"}
                       \cup {FriDecommitment[i] : i \in 1 .. n}), U1
                       \cup ({FriAlpha[i] : i \in 0 .. n} \cup {"query_indices"}))
    BY <1>1, <2>1, AuditsJoin
  <2>4. Ready(C1 \o FoldChecks(v), {})
    BY <1>1, <2>1, <2>2, ReadiesJoin DEF Audit
  <2> QED BY <2>3, <2>4 DEF C2
<1>3. Audit(C3, D3, A3, R3, U3) /\ Ready(C3, {})
  <2>1. Audit(TraceAuthPaths(v), {},
              {},
              {"trace_values_at_queries", "trace_auth_paths", "trace_commitment", "trace_commitment_hi",
               "dict_trace_commitment"},
              {"query_indices"})
    BY QueryCheckSections
  <2>2. Ready(TraceAuthPaths(v), {} \cup D2)
    <3>1. {"query_indices"} \subseteq {} \cup D2
      BY DEF SampledVDraws, InteractedVDraws, CommittedVDraws, OpenedVDraws, DictLink, MemLink,
         DictDraws, LogUpChallenges
    <3> QED BY <2>1, <3>1, UsesReady DEF Audit
  <2> HIDE DEF D2, A2, R2, U2
  <2>3. Audit(C2 \o TraceAuthPaths(v), D2 \cup {}, A2 \cup {},
              R2 \cup {"trace_values_at_queries", "trace_auth_paths", "trace_commitment",
                       "trace_commitment_hi",
               "dict_trace_commitment"}, U2 \cup {"query_indices"})
    BY <1>2, <2>1, AuditsJoin
  <2>4. Ready(C2 \o TraceAuthPaths(v), {})
    BY <1>2, <2>1, <2>2, ReadiesJoin DEF Audit
  <2> QED BY <2>3, <2>4 DEF C3
<1>4. Audit(C4, D4, A4, R4, U4) /\ Ready(C4, {})
  <2>1. Audit(EcAuthPaths(v), {},
              {},
              (IF v.ec /\ Has(v, "ec_trace_commitment") /\ Has(v, "ec_log_eval")
               THEN {"ec_trace_at_queries", "ec_trace_auth_paths", "ec_trace_commitment",
                    "ec_trace_commitment_hi"} ELSE {}),
              (IF v.ec /\ Has(v, "ec_trace_commitment") /\ Has(v, "ec_log_eval")
               THEN {"query_indices"} ELSE {}))
    BY QueryCheckSections
  <2>2. Ready(EcAuthPaths(v), {} \cup D3)
    <3>1. (IF v.ec /\ Has(v, "ec_trace_commitment") /\ Has(v, "ec_log_eval") THEN {"query_indices"}
           ELSE {}) \subseteq {} \cup D3
      BY DEF SampledVDraws, InteractedVDraws, CommittedVDraws, OpenedVDraws, DictLink, MemLink,
         DictDraws, LogUpChallenges
    <3> QED BY <2>1, <3>1, UsesReady DEF Audit
  <2> HIDE DEF D3, A3, R3, U3
  <2>3. Audit(C3 \o EcAuthPaths(v), D3 \cup {}, A3 \cup {},
              R3 \cup (IF v.ec /\ Has(v, "ec_trace_commitment") /\ Has(v, "ec_log_eval")
                       THEN {"ec_trace_at_queries", "ec_trace_auth_paths", "ec_trace_commitment",
                    "ec_trace_commitment_hi"} ELSE {}), U3
                    \cup (IF v.ec /\ Has(v, "ec_trace_commitment") /\ Has(v, "ec_log_eval")
                          THEN {"query_indices"} ELSE {}))
    BY <1>3, <2>1, AuditsJoin
  <2>4. Ready(C3 \o EcAuthPaths(v), {})
    BY <1>3, <2>1, <2>2, ReadiesJoin DEF Audit
  <2> QED BY <2>3, <2>4 DEF C4
<1>5. Audit(C5, D5, A5, R5, U5) /\ Ready(C5, {})
  <2>1. Audit(ConstraintChecks(v), {},
              {},
              ({"trace_values_at_queries", "quotient_decommitment", "logup_challenges"}
                \cup InteractionDecoms \cup IntermediateDecoms),
              (LogUpChallenges \cup {"constraint_alphas", "query_indices"}))
    BY QueryCheckSections
  <2>2. Ready(ConstraintChecks(v), {} \cup D4)
    <3>1. (LogUpChallenges \cup {"constraint_alphas", "query_indices"}) \subseteq {} \cup D4
      BY DEF SampledVDraws, InteractedVDraws, CommittedVDraws, OpenedVDraws, DictLink, MemLink,
         DictDraws, LogUpChallenges
    <3> QED BY <2>1, <3>1, UsesReady DEF Audit
  <2> HIDE DEF D4, A4, R4, U4
  <2>3. Audit(C4 \o ConstraintChecks(v), D4 \cup {}, A4 \cup {},
              R4 \cup ({"trace_values_at_queries", "quotient_decommitment", "logup_challenges"}
                \cup InteractionDecoms \cup IntermediateDecoms), U4
                \cup (LogUpChallenges \cup {"constraint_alphas", "query_indices"}))
    BY <1>4, <2>1, AuditsJoin
  <2>4. Ready(C4 \o ConstraintChecks(v), {})
    BY <1>4, <2>1, <2>2, ReadiesJoin DEF Audit
  <2> QED BY <2>3, <2>4 DEF C5
<1>6. Audit(C6, D6, A6, R6, U6) /\ Ready(C6, {})
  <2>1. Audit(OodsFormula(v), {},
              {},
              ({"trace_values_at_queries", "quotient_decommitment", "oods_sampled_values",
                "oods_quotient_decommitment", "oods_z", "oods_alpha"} \cup InteractionDecoms),
              {"oods_z", "oods_alpha", "query_indices"})
    BY QueryCheckSections
  <2>2. Ready(OodsFormula(v), {} \cup D5)
    <3>1. {"oods_z", "oods_alpha", "query_indices"} \subseteq {} \cup D5
      BY DEF SampledVDraws, InteractedVDraws, CommittedVDraws, OpenedVDraws, DictLink, MemLink,
         DictDraws, LogUpChallenges
    <3> QED BY <2>1, <3>1, UsesReady DEF Audit
  <2> HIDE DEF D5, A5, R5, U5
  <2>3. Audit(C5 \o OodsFormula(v), D5 \cup {}, A5 \cup {},
              R5 \cup ({"trace_values_at_queries", "quotient_decommitment", "oods_sampled_values",
                "oods_quotient_decommitment", "oods_z", "oods_alpha"} \cup InteractionDecoms), U5
                \cup {"oods_z", "oods_alpha", "query_indices"})
    BY <1>5, <2>1, AuditsJoin
  <2>4. Ready(C5 \o OodsFormula(v), {})
    BY <1>5, <2>1, <2>2, ReadiesJoin DEF Audit
  <2> QED BY <2>3, <2>4 DEF C6
<1>7. Audit(C7, D7, A7, R7, U7) /\ Ready(C7, {})
  <2>1. Audit(DecommitAuthPaths(v), {},
              {},
              ({"quotient_decommitment", "oods_quotient_decommitment", "quotient_commitment",
                "oods_quotient_commitment"} \cup InteractionDecoms \cup IntermediateDecoms
                \cup {FriDecommitment[i] : i \in 1 .. n} \cup {FriCommitment[i] : i \in 1 .. n}),
              {"query_indices"})
    BY QueryCheckSections
  <2>2. Ready(DecommitAuthPaths(v), {} \cup D6)
    <3>1. {"query_indices"} \subseteq {} \cup D6
      BY DEF SampledVDraws, InteractedVDraws, CommittedVDraws, OpenedVDraws, DictLink, MemLink,
         DictDraws, LogUpChallenges
    <3> QED BY <2>1, <3>1, UsesReady DEF Audit
  <2> HIDE DEF D6, A6, R6, U6
  <2>3. Audit(C6 \o DecommitAuthPaths(v), D6 \cup {}, A6 \cup {},
              R6 \cup ({"quotient_decommitment", "oods_quotient_decommitment", "quotient_commitment",
                "oods_quotient_commitment"} \cup InteractionDecoms \cup IntermediateDecoms
                \cup {FriDecommitment[i] : i \in 1 .. n} \cup {FriCommitment[i] : i \in 1 .. n}), U6
                \cup {"query_indices"})
    BY <1>6, <2>1, AuditsJoin
  <2>4. Ready(C6 \o DecommitAuthPaths(v), {})
    BY <1>6, <2>1, <2>2, ReadiesJoin DEF Audit
  <2> QED BY <2>3, <2>4 DEF C7
<1>8. D7 = CairoVDraws(v)
  BY DEF CairoVDraws
<1>9. A7 = CairoVAbsorbs(v)
  BY DEF CairoVAbsorbs
<1>10. R7 = CairoVReads(v)
  BY DEF CairoVReads
<1>11. U7 = CairoVUses(v)
  BY DEF CairoVUses
<1>12. cairo_verify(v) = C7
  BY DEF cairo_verify, VSampled, VInteracted, VCommitted, VOpened, C0, C1, C2, C3, C4, C5, C6, C7
<1> HIDE DEF D7, A7, R7, U7
<1> QED BY <1>7, <1>8, <1>9, <1>10, <1>11, <1>12

\* What the Cairo verifier replays of an intact proof is what the prover did.
LEMMA OpeningAlike ==
  ASSUME NEW s, NEW v, v.dict = s.dict, v.ec = s.ec, v.lost = "none"
  PROVE  /\ Alike(PublicInputs(s) \o NttBlindCommit(s), ReplayTrace(v))
         /\ Alike(SideTable(s), ReplaySideTable(v))
         /\ Alike(SDictInteraction(s), ReplaySDict(v))
         /\ Alike(EcTrace(s), ReplayEc(v))
         /\ Alike(DictSubAir(s), ReplayDictSubAir(v))
<1>1. Alike(PublicInputs(s) \o NttBlindCommit(s), ReplayTrace(v))
  <2> DEFINE P == PublicInputs(s)
             a == commit("trace_commitment", {})
             b == commit("trace_commitment_hi", {})
             c == commit("dict_trace_commitment", {})
             x == mix("trace_commitment")
             y == mix("trace_commitment_hi")
             z == mix("dict_trace_commitment")
             V == mix("program_hash")
  <2>1. Alike(P, V)
    BY AlikeTable DEF PublicInputs
  <2>2. Alike(a, x) /\ Alike(b, y) /\ Alike(c, z)
    BY AlikeTable
  <2>3. IsScript(P) /\ IsScript(a) /\ IsScript(b)
    BY ScriptTable DEF PublicInputs
  <2>4. NttBlindCommit(s) = (a \o b) \o c /\ ReplayTrace(v) = V \o x \o y \o z
    BY DEF NttBlindCommit, ReplayTrace
  <2> HIDE DEF P, V, a, b, c, x, y, z
  <2>5. Alike(P \o a, V \o x)
    BY <2>1, <2>2, AlikeJoin
  <2>6. Alike(P \o (a \o b), V \o x \o y) /\ IsScript(a \o b)
    BY <2>2, <2>3, <2>5, AlikeSplice, Joins
  <2>7. Alike(P \o ((a \o b) \o c), V \o x \o y \o z)
    BY <2>2, <2>3, <2>6, AlikeSplice
  <2> QED BY <2>4, <2>7 DEF P
<1>2. Alike(SideTable(s), ReplaySideTable(v))
  BY AlikeTable DEF SideTable, ReplaySideTable, Has, when
<1>3. Alike(SDictInteraction(s), ReplaySDict(v))
  BY AlikeTable DEF SDictInteraction, ReplaySDict
<1>4. Alike(EcTrace(s), ReplayEc(v))
  BY AlikeTable DEF EcTrace, ReplayEc, Has, when
<1>5. Alike(DictSubAir(s), ReplayDictSubAir(v))
  <2>1. CASE ~ s.dict
    BY <2>1, AlikeTable DEF DictSubAir, ReplayDictSubAir, when
  <2>2. CASE s.dict
    <3> DEFINE P == make({"dict_exec_data", "dict_sorted_data", "dict_n_accesses"}, {})
                      \o commit("dict_exec_commitment", {}) \o commit("dict_sorted_commitment", {})
               V == present({"dict_sorted_commitment", "dict_final_sums"})
                      \o check({"dict_exec_data", "dict_exec_commitment"}, {})
                      \o check({"dict_sorted_data", "dict_sorted_commitment"}, {})
                      \o mix("dict_exec_commitment") \o mix("dict_sorted_commitment")
               X == check({"dict_exec_data", "dict_sorted_data", "dict_final_sums"},
                          {"z_dict", "alpha_dict"})
    <3>1. DictSubAir(s) = P \o draw("z_dict") \o draw("alpha_dict")
                            \o commit("dict_final_sums", {"z_dict", "alpha_dict"})
      BY <2>2 DEF DictSubAir, when
    <3>2. ReplayDictSubAir(v) = V \o draw("z_dict") \o draw("alpha_dict") \o X \o mix("dict_final_sums")
      BY <2>2 DEF ReplayDictSubAir, when
    <3>3. Alike(P, V)
      <4> DEFINE W == present({"dict_sorted_commitment", "dict_final_sums"})
                        \o check({"dict_exec_data", "dict_exec_commitment"}, {})
                        \o check({"dict_sorted_data", "dict_sorted_commitment"}, {})
                 M == make({"dict_exec_data", "dict_sorted_data", "dict_n_accesses"}, {})
      <4>1. Silent(W) /\ Silent(M)
        BY SilentTable
      <4>2. Alike(commit("dict_exec_commitment", {}), mix("dict_exec_commitment"))
        BY AlikeTable
      <4> HIDE DEF W, M
      <4>3. Alike(M \o commit("dict_exec_commitment", {}), W \o mix("dict_exec_commitment"))
        BY <4>1, <4>2, SilentJoin
      <4>4. Alike(commit("dict_sorted_commitment", {}), mix("dict_sorted_commitment"))
        BY AlikeTable
      <4> QED BY <4>3, <4>4, AlikeJoin DEF W, M
    <3> HIDE DEF P, V
    <3>4. Alike(P \o draw("z_dict") \o draw("alpha_dict"), V \o draw("z_dict") \o draw("alpha_dict"))
      BY <3>3, AlikeTable
    <3>5. Silent(X)
      BY SilentTable
    <3> HIDE DEF X
    <3>6. Alike(P \o draw("z_dict") \o draw("alpha_dict"), V \o draw("z_dict")
                \o draw("alpha_dict") \o X)
      BY <3>4, <3>5, SilentJoin
    <3>7. Alike(commit("dict_final_sums", {"z_dict", "alpha_dict"}), mix("dict_final_sums"))
      BY AlikeTable
    <3> QED BY <3>1, <3>2, <3>6, <3>7, AlikeJoin
  <2> QED BY <2>1, <2>2
<1> QED BY <1>1, <1>2, <1>3, <1>4, <1>5

LEMMA InteractionAlike ==
  ASSUME NEW s, NEW v, v.bitwise = s.bitwise
  PROVE  /\ Alike(DrawLogUp(s), ReplayLogUp(v))
         /\ Alike(CommitInteraction(s) \o CommitIntermediates(s) \o FinalSums(s), ReplayInteraction(v))
         /\ Alike(BitwiseCommit(s), ReplayBitwise(v))
         /\ Alike(MemTableCommit(s), ReplayMemTable(v))
         /\ Alike(RcCountsCommit(s), ReplayRcCounts(v))
<1>1. Alike(DrawLogUp(s), ReplayLogUp(v))
  BY AlikeTable DEF DrawLogUp, ReplayLogUp
<1>2. Alike(CommitInteraction(s) \o CommitIntermediates(s) \o FinalSums(s), ReplayInteraction(v))
  <2> DEFINE P == CommitInteraction(s)
             V == mix("interaction_commitment") \o present({"rc_interaction_commitment"})
                    \o mix("rc_interaction_commitment")
             p(i) == commit(Intermediates[i], IF i <= 3 THEN MemLink ELSE {"z_rc"})
             v1(i) == mix(Intermediates[i])
  <2>1. Alike(P, V)
    BY AlikeTable DEF CommitInteraction
  <2>2. \A i \in 1 .. 5 : Alike(p(i), v1(i)) /\ IsScript(p(i))
    BY AlikeTable, ScriptTable
  <2>3. CommitIntermediates(s) = p(1) \o p(2) \o p(3) \o p(4) \o p(5)
    BY DEF CommitIntermediates
  <2>4. ReplayInteraction(v) = V \o v1(1) \o v1(2) \o v1(3) \o v1(4) \o v1(5) \o mix("final_sums")
    BY DEF ReplayInteraction
  <2>5. Alike(FinalSums(s), mix("final_sums"))
    BY AlikeTable DEF FinalSums
  <2>6. IsScript(P)
    BY ScriptTable DEF CommitInteraction
  <2> DEFINE p1 == p(1)
             p2 == p1 \o p(2)
             p3 == p2 \o p(3)
             p4 == p3 \o p(4)
             q1 == V \o v1(1)
             q2 == q1 \o v1(2)
             q3 == q2 \o v1(3)
             q4 == q3 \o v1(4)
  <2> HIDE DEF P, V, p, v1, p1, p2, p3, p4, q1, q2, q3, q4
  <2>7. IsScript(p1) /\ Alike(P \o p1, q1)
    BY <2>1, <2>2, AlikeJoin DEF p1, q1
  <2>8. IsScript(p2) /\ Alike(P \o p2, q2)
    BY <2>2, <2>6, <2>7, AlikeSplice, Joins DEF p2, q2
  <2>9. IsScript(p3) /\ Alike(P \o p3, q3)
    BY <2>2, <2>6, <2>8, AlikeSplice, Joins DEF p3, q3
  <2>10. IsScript(p4) /\ Alike(P \o p4, q4)
    BY <2>2, <2>6, <2>9, AlikeSplice, Joins DEF p4, q4
  <2>11. Alike(P \o (p4 \o p(5)), q4 \o v1(5))
    BY <2>2, <2>6, <2>10, AlikeSplice
  <2>12. P \o (p4 \o p(5)) = P \o CommitIntermediates(s)
    BY <2>3 DEF p1, p2, p3, p4
  <2>13. ReplayInteraction(v) = q4 \o v1(5) \o mix("final_sums")
    BY <2>4 DEF q1, q2, q3, q4
  <2>14. Alike(P \o CommitIntermediates(s) \o FinalSums(s), q4 \o v1(5) \o mix("final_sums"))
    BY <2>5, <2>11, <2>12, AlikeJoin
  <2> QED BY <2>13, <2>14 DEF P
<1>3. Alike(BitwiseCommit(s), ReplayBitwise(v))
  <2>1. CASE ~ s.bitwise
    BY <2>1, AlikeTable DEF BitwiseCommit, ReplayBitwise, when
  <2>2. CASE s.bitwise
    <3> DEFINE M == make({"bitwise_rows"}, {})
               W == present({"bitwise_commitment"})
                      \o check({"bitwise_rows", "bitwise_commitment"}, {})
    <3>1. Silent(M) /\ Silent(W)
      BY SilentTable
    <3>2. BitwiseCommit(s) = M \o commit("bitwise_commitment", {})
      BY <2>2 DEF BitwiseCommit, when
    <3>3. ReplayBitwise(v) = W \o mix("bitwise_commitment")
      BY <2>2 DEF ReplayBitwise, when
    <3>4. Alike(commit("bitwise_commitment", {}), mix("bitwise_commitment"))
      BY AlikeTable
    <3> HIDE DEF M, W
    <3> QED BY <3>1, <3>2, <3>3, <3>4, SilentJoin
  <2> QED BY <2>1, <2>2
<1>4. Alike(MemTableCommit(s), ReplayMemTable(v))
  BY AlikeTable DEF MemTableCommit, ReplayMemTable
<1>5. Alike(RcCountsCommit(s), ReplayRcCounts(v))
  BY AlikeTable DEF RcCountsCommit, ReplayRcCounts
<1> QED BY <1>1, <1>2, <1>3, <1>4, <1>5

LEMMA SamplingAlike ==
  ASSUME NEW s, NEW v, NEW n \in 1 .. MaxLayers, FriLayers(s) = n, FriLayers(v) = n
  PROVE  /\ Alike(Quotient(s) \o OodsSample(s), ReplayOods(v))
         /\ Alike(OodsQuotient(s) \o Fri(s), ReplayFri(v))
         /\ Alike(PowGrind(s), ReplayPow(v))
<1>1. Alike(Quotient(s) \o OodsSample(s), ReplayOods(v))
  <2> DEFINE P == Quotient(s)
             V == draw("constraint_alphas") \o mix("quotient_commitment")
             a == draw("oods_z")
             b == make({"oods_z"}, {"oods_z"})
             c == commit("oods_sampled_values", {"oods_z"})
             d == draw("oods_alpha")
             e == make({"oods_alpha"}, {"oods_alpha"})
             w == check({"oods_z"}, {"oods_z"})
             x == mix("oods_sampled_values")
             y == check({"oods_alpha"}, {"oods_alpha"})
             p2 == a \o b
             p3 == p2 \o c
             p4 == p3 \o d
             v1 == V \o a
             v2 == v1 \o w
             v3 == v2 \o x
             v4 == v3 \o d
  <2>1. Alike(P, V)
    BY AlikeTable DEF Quotient
  <2>2. Alike(a, a) /\ Alike(c, x) /\ Alike(d, d)
    BY AlikeTable
  <2>3. Silent(b) /\ Silent(e) /\ Silent(w) /\ Silent(y)
    BY SilentTable
  <2>4. IsScript(P) /\ IsScript(a) /\ IsScript(b) /\ IsScript(c) /\ IsScript(d)
    BY ScriptTable DEF Quotient
  <2>5. OodsSample(s) = p4 \o e /\ ReplayOods(v) = v4 \o y
    BY DEF OodsSample, ReplayOods
  <2> HIDE DEF P, V, a, b, c, d, e, w, x, y, p2, p3, p4, v1, v2, v3, v4
  <2>6. Alike(P \o a, v1)
    BY <2>1, <2>2, AlikeJoin DEF v1
  <2>7. Alike(P \o p2, v1) /\ IsScript(p2)
    BY <2>3, <2>4, <2>6, SilentSplice, Joins DEF p2
  <2>8. Alike(P \o p2, v2)
    BY <2>3, <2>7, SilentJoin DEF v2
  <2>9. Alike(P \o p3, v3) /\ IsScript(p3)
    BY <2>2, <2>4, <2>7, <2>8, AlikeSplice, Joins DEF p3, v3
  <2>10. Alike(P \o p4, v4) /\ IsScript(p4)
    BY <2>2, <2>4, <2>9, AlikeSplice, Joins DEF p4, v4
  <2>11. Alike(P \o (p4 \o e), v4)
    BY <2>3, <2>4, <2>10, SilentSplice
  <2>12. Alike(P \o (p4 \o e), v4 \o y)
    BY <2>3, <2>11, SilentJoin
  <2> QED BY <2>5, <2>12 DEF P
<1>2. Alike(OodsQuotient(s) \o Fri(s), ReplayFri(v))
  <2> DEFINE layer == [i \in 1 .. n |-> commit(FriCommitment[i], {FriAlpha[i - 1]})
                       \o draw(FriAlpha[i])]
             vlayer == [i \in 1 .. n |-> mix(FriCommitment[i]) \o draw(FriAlpha[i])]
             P == OodsQuotient(s)
             V == mix("oods_quotient_commitment")
             a == draw(FriAlpha[0])
             L == rounds(n, layer)
             M == rounds(n, vlayer)
             b == make({"fri_last_layer"}, {FriAlpha[n]})
             c == commit("fri_last_layer_poly", {FriAlpha[n]})
             x == mix("fri_last_layer_poly")
             p2 == a \o L
             p3 == p2 \o b
             v2 == (V \o a) \o M
  <2>1. Alike(P, V)
    BY AlikeTable DEF OodsQuotient
  <2>2. Alike(L, M)
    <3>1. ASSUME NEW i \in 1 .. n PROVE Alike(layer[i], vlayer[i])
      <4>1. layer[i] = commit(FriCommitment[i], {FriAlpha[i - 1]}) \o draw(FriAlpha[i])
            /\ vlayer[i] = mix(FriCommitment[i]) \o draw(FriAlpha[i])
        OBVIOUS
      <4> HIDE DEF layer, vlayer
      <4> QED BY <4>1, AlikeTable
    <3>2. n \in Nat
      BY LayersAssumption
    <3> HIDE DEF layer, vlayer
    <3> QED BY <3>1, <3>2, RoundsAlike
  <2>3. Alike(a, a) /\ Alike(c, x) /\ Silent(b)
    BY AlikeTable, SilentTable
  <2>4. IsScript(P) /\ IsScript(a) /\ IsScript(L) /\ IsScript(b)
    BY <2>2, ScriptTable DEF OodsQuotient, Alike
  <2>5. Fri(s) = p3 \o c /\ ReplayFri(v) = v2 \o x
    BY DEF Fri, ReplayFri
  <2> HIDE DEF P, V, L, M, a, b, c, x, p2, p3, v2
  <2>6. Alike(P \o a, V \o a)
    BY <2>1, <2>3, AlikeJoin
  <2>7. Alike(P \o p2, v2) /\ IsScript(p2)
    BY <2>2, <2>4, <2>6, AlikeSplice, Joins DEF p2, v2
  <2>8. Alike(P \o p3, v2) /\ IsScript(p3)
    BY <2>3, <2>4, <2>7, SilentSplice, Joins DEF p3
  <2>9. Alike(P \o (p3 \o c), v2 \o x)
    BY <2>3, <2>4, <2>8, AlikeSplice
  <2> QED BY <2>5, <2>9 DEF P
<1>3. Alike(PowGrind(s), ReplayPow(v))
  <2> DEFINE P == peek("pow_prefix") \o commit("pow_nonce", {"pow_prefix"})
             V == peek("pow_prefix") \o check({"pow_nonce"}, {"pow_prefix"}) \o mix("pow_nonce")
  <2>1. Alike(P, V)
    BY AlikeTable
  <2>2. PowGrind(s) = P \o draw("query_indices") \o make({"query_indices"}, {"query_indices"})
    BY DEF PowGrind
  <2>3. ReplayPow(v) = V \o draw("query_indices") \o check({"query_indices"}, {"query_indices"})
    BY DEF ReplayPow
  <2> HIDE DEF P, V
  <2> QED BY <2>1, <2>2, <2>3, AlikeTable
<1> QED BY <1>1, <1>2, <1>3

\* The whole Cairo verifier draws what the prover drew, from the same channel.
LEMMA CairoAlike ==
  ASSUME NEW s, s.protocol = "cairo", NEW v, v.dict = s.dict, v.ec = s.ec, v.bitwise = s.bitwise,
         v.lost = "none", NEW n \in 1 .. MaxLayers, FriLayers(s) = n, FriLayers(v) = n
  PROVE  Alike(cairo_prove(s), cairo_verify(v))
<1> DEFINE gates == VersionGate(v) \o SizeGates(v) \o ZeroCommitmentGates(v) \o ProgramHash(v)
           p1 == PublicInputs(s) \o NttBlindCommit(s)
           p2 == p1 \o SideTable(s) \o SDictInteraction(s) \o EcTrace(s) \o DictSubAir(s)
                    \o DrawLogUp(s)
           p3 == p2 \o CommitInteraction(s) \o CommitIntermediates(s) \o FinalSums(s)
           p4 == p3 \o BitwiseCommit(s) \o MemTableCommit(s) \o RcCountsCommit(s)
           p5 == p4 \o Quotient(s) \o OodsSample(s)
           p6 == p5 \o OodsQuotient(s) \o Fri(s)
           p7 == p6 \o PowGrind(s) \o TraceDecommit(s) \o EcDecommit(s) \o Decommit(s)
           v1 == gates \o ReplayTrace(v)
           v2 == v1 \o ReplaySideTable(v) \o ReplaySDict(v) \o DictLinkCheck(v) \o ReplayEc(v)
                    \o ReplayDictSubAir(v) \o ReplayLogUp(v)
           v3 == v2 \o ReplayInteraction(v)
           v4 == v3 \o ReplayBitwise(v) \o DictBusLink(v) \o BitwiseBusLink(v)
                    \o ReplayMemTable(v) \o ReplayRcCounts(v)
           v5 == v4 \o ReplayOods(v)
           v6 == v5 \o ReplayFri(v)
           v7 == v6 \o ReplayPow(v) \o FoldChecks(v) \o TraceAuthPaths(v) \o EcAuthPaths(v)
                    \o ConstraintChecks(v) \o OodsFormula(v) \o DecommitAuthPaths(v)
<1>1. Silent(gates)
  BY SilentTable DEF VersionGate, SizeGates, ZeroCommitmentGates, ProgramHash
<1>2. Silent(DictLinkCheck(v)) /\ Silent(DictBusLink(v)) /\ Silent(BitwiseBusLink(v))
  <2>1. Silent(DictLinkCheck(v))
    BY SilentTable DEF DictLinkCheck
  <2>2. Silent(DictBusLink(v)) /\ Silent(BitwiseBusLink(v))
    BY SilentTable DEF DictBusLink, BitwiseBusLink
  <2> QED BY <2>1, <2>2
<1>3. Silent(TraceDecommit(s)) /\ Silent(EcDecommit(s)) /\ Silent(Decommit(s))
  BY SilentTable DEF TraceDecommit, EcDecommit, Decommit
<1>4. /\ Silent(FoldChecks(v)) /\ Silent(TraceAuthPaths(v)) /\ Silent(EcAuthPaths(v))
      /\ Silent(ConstraintChecks(v)) /\ Silent(OodsFormula(v)) /\ Silent(DecommitAuthPaths(v))
  BY SilentTable DEF FoldChecks, TraceAuthPaths, EcAuthPaths, ConstraintChecks, OodsFormula,
                     DecommitAuthPaths
<1>5. /\ IsScript(CommitInteraction(s)) /\ IsScript(CommitIntermediates(s)) /\ IsScript(FinalSums(s))
      /\ IsScript(Quotient(s)) /\ IsScript(OodsSample(s)) /\ IsScript(OodsQuotient(s))
      /\ IsScript(Fri(s))
  <2>1. /\ IsScript(CommitInteraction(s)) /\ IsScript(CommitIntermediates(s))
        /\ IsScript(FinalSums(s)) /\ IsScript(Quotient(s)) /\ IsScript(OodsSample(s))
        /\ IsScript(OodsQuotient(s))
    BY ScriptTable DEF CommitInteraction, CommitIntermediates, FinalSums, Quotient, OodsSample,
                       OodsQuotient
  <2>2. IsScript(Fri(s))
    BY FriSection DEF Section
  <2> QED BY <2>1, <2>2
<1> HIDE DEF gates
<1>6. Alike(p1, v1)
  BY <1>1, OpeningAlike, SilentJoin DEF p1, v1
<1>7. Alike(p2, v2)
  <2> HIDE DEF p1, v1
  <2>1. Alike(p1 \o SideTable(s) \o SDictInteraction(s),
              v1 \o ReplaySideTable(v) \o ReplaySDict(v))
    BY <1>6, OpeningAlike, AlikeJoin
  <2>2. Alike(p1 \o SideTable(s) \o SDictInteraction(s),
              v1 \o ReplaySideTable(v) \o ReplaySDict(v) \o DictLinkCheck(v))
    BY <1>2, <2>1, SilentJoin
  <2>3. Alike(p1 \o SideTable(s) \o SDictInteraction(s) \o EcTrace(s) \o DictSubAir(s),
              v1 \o ReplaySideTable(v) \o ReplaySDict(v) \o DictLinkCheck(v) \o ReplayEc(v)
                 \o ReplayDictSubAir(v))
    BY <2>2, OpeningAlike, AlikeJoin
  <2>4. Alike(DrawLogUp(s), ReplayLogUp(v))
    BY InteractionAlike
  <2> QED BY <2>3, <2>4, AlikeJoin DEF p2, v2
<1>8. Alike(p3, v3)
  <2> DEFINE a == CommitInteraction(s)
             b == CommitIntermediates(s)
             c == FinalSums(s)
             w == ReplayInteraction(v)
  <2>1. IsScript(a) /\ IsScript(b) /\ IsScript(c) /\ Alike(a \o b \o c, w)
    BY <1>5, InteractionAlike
  <2> HIDE DEF p2, v2, a, b, c, w
  <2>2. Alike(p2 \o a \o b \o c, v2 \o w)
    BY <1>7, <2>1, AlikeThree
  <2> QED BY <2>2 DEF p3, v3, a, b, c, w
<1>9. Alike(p4, v4)
  <2> HIDE DEF p3, v3
  <2>1. Alike(BitwiseCommit(s), ReplayBitwise(v))
    BY InteractionAlike
  <2>2. Alike(MemTableCommit(s), ReplayMemTable(v)) /\ Alike(RcCountsCommit(s), ReplayRcCounts(v))
    BY InteractionAlike
  <2>3. Alike(p3 \o BitwiseCommit(s), v3 \o ReplayBitwise(v))
    BY <1>8, <2>1, AlikeJoin
  <2>4. Alike(p3 \o BitwiseCommit(s), v3 \o ReplayBitwise(v) \o DictBusLink(v) \o BitwiseBusLink(v))
    BY <1>2, <2>3, SilentJoin
  <2> QED BY <2>2, <2>4, AlikeJoin DEF p4, v4
<1>10. Alike(p5, v5)
  <2> DEFINE a == Quotient(s)
             b == OodsSample(s)
             w == ReplayOods(v)
  <2>1. IsScript(a) /\ IsScript(b) /\ Alike(a \o b, w)
    BY <1>5, SamplingAlike
  <2> HIDE DEF p4, v4, a, b, w
  <2>2. Alike(p4 \o a \o b, v4 \o w)
    BY <1>9, <2>1, AlikeTwo
  <2> QED BY <2>2 DEF p5, v5, a, b, w
<1>11. Alike(p6, v6)
  <2> DEFINE a == OodsQuotient(s)
             b == Fri(s)
             w == ReplayFri(v)
  <2>1. IsScript(a) /\ IsScript(b) /\ Alike(a \o b, w)
    BY <1>5, SamplingAlike
  <2> HIDE DEF p5, v5, a, b, w
  <2>2. Alike(p5 \o a \o b, v5 \o w)
    BY <1>10, <2>1, AlikeTwo
  <2> QED BY <2>2 DEF p6, v6, a, b, w
<1>12. Alike(p7, v7)
  <2> HIDE DEF p6, v6
  <2>1. Alike(PowGrind(s), ReplayPow(v))
    BY SamplingAlike
  <2>2. Alike(p6 \o PowGrind(s), v6 \o ReplayPow(v))
    BY <1>11, <2>1, AlikeJoin
  <2>3. Alike(p7, v6 \o ReplayPow(v))
    BY <1>3, <2>2, SilentJoin DEF p7
  <2>4. Alike(p7, v6 \o ReplayPow(v) \o FoldChecks(v) \o TraceAuthPaths(v) \o EcAuthPaths(v))
    <3> HIDE DEF p7
    <3> QED BY <1>4, <2>3, SilentJoin
  <2> HIDE DEF p7
  <2> QED BY <1>4, <2>4, SilentJoin DEF v7
<1> HIDE DEF p7, v7
<1>13. cairo_prove(s) = p7
  BY DEF cairo_prove, p1, p2, p3, p4, p5, p6, p7
<1>14. cairo_verify(v) = v7
  BY DEF cairo_verify, gates, v1, v2, v3, v4, v5, v6, v7
<1> QED BY <1>12, <1>13, <1>14

\* What an early section of the Cairo verifier finds is found by the whole.
LEMMA FoundEarly ==
  ASSUME NEW v, NEW n \in 1 .. MaxLayers, FriLayers(v) = n, NEW bad, NEW R,
         \/ Refutes(VOpened(v) \o ReplaySDict(v) \o DictLinkCheck(v), new, bad, R)
         \/ Refutes(VCommitted(v) \o ReplayLogUp(v), new, bad, R)
         \/ Refutes(VSampled(v) \o ReplayPow(v), new, bad, R)
  PROVE  Refutes(cairo_verify(v), new, bad, R)
<1> DEFINE C0 == VOpened(v) \o ReplaySDict(v) \o DictLinkCheck(v)
           C1 == C0 \o ReplayEc(v)
           C2 == C1 \o ReplayDictSubAir(v)
           C3 == C2 \o ReplayLogUp(v)
           C4 == C3 \o ReplayInteraction(v)
           C5 == C4 \o ReplayBitwise(v)
           C6 == C5 \o DictBusLink(v)
           C7 == C6 \o BitwiseBusLink(v)
           C8 == C7 \o ReplayMemTable(v)
           C9 == C8 \o ReplayRcCounts(v)
           C10 == C9 \o ReplayOods(v)
           C11 == C10 \o ReplayFri(v)
           C12 == C11 \o ReplayPow(v)
           C13 == C12 \o FoldChecks(v)
           C14 == C13 \o TraceAuthPaths(v)
           C15 == C14 \o EcAuthPaths(v)
           C16 == C15 \o ConstraintChecks(v)
           C17 == C16 \o OodsFormula(v)
           C18 == C17 \o DecommitAuthPaths(v)
           S(X) == IsScript(X)
           F(X) == Refutes(X, new, bad, R)
<1>0. IsChannel(new) /\ \A X, Y : S(X) /\ S(Y) => S(X \o Y) /\ (F(X) => F(X \o Y))
  <2>1. IsChannel(new)
    BY AbsorbedLaws
  <2>2. ASSUME NEW X, NEW Y, S(X), S(Y) PROVE S(X \o Y) /\ (F(X) => F(X \o Y))
    BY <2>1, <2>2, Joins, StraysJoin
  <2> QED BY <2>1, <2>2
<1>s1. S(VOpened(v)) /\ S(ReplaySDict(v)) /\ S(DictLinkCheck(v)) /\ S(ReplayEc(v))
         /\ S(ReplayDictSubAir(v))
  BY VOpenedAudit, ReplayTraceSections DEF Audit
<1>s2. /\ S(ReplayLogUp(v)) /\ S(ReplayInteraction(v)) /\ S(ReplayBitwise(v)) /\ S(DictBusLink(v))
       /\ S(BitwiseBusLink(v)) /\ S(ReplayMemTable(v)) /\ S(ReplayRcCounts(v))
  BY ReplayLogUpSections DEF Audit
<1>s3. S(ReplayOods(v)) /\ S(ReplayFri(v)) /\ S(ReplayPow(v))
  BY ReplayFriSections DEF Audit
<1>s4. /\ S(FoldChecks(v)) /\ S(TraceAuthPaths(v)) /\ S(EcAuthPaths(v))
       /\ S(ConstraintChecks(v)) /\ S(OodsFormula(v)) /\ S(DecommitAuthPaths(v))
  BY QueryCheckSections DEF Audit
<1> HIDE DEF S, F
<1>c0. S(C0)
  BY <1>0, <1>s1
<1>c1. S(C1) /\ (F(C0) => F(C1))
  <2> HIDE DEF C0
  <2> QED BY <1>0, <1>s1, <1>c0 DEF C1
<1>c2. S(C2) /\ (F(C1) => F(C2))
  <2> HIDE DEF C1
  <2> QED BY <1>0, <1>s1, <1>c1 DEF C2
<1>c3. S(C3) /\ (F(C2) => F(C3))
  <2> HIDE DEF C2
  <2> QED BY <1>0, <1>s2, <1>c2 DEF C3
<1>c4. S(C4) /\ (F(C3) => F(C4))
  <2> HIDE DEF C3
  <2> QED BY <1>0, <1>s2, <1>c3 DEF C4
<1>c5. S(C5) /\ (F(C4) => F(C5))
  <2> HIDE DEF C4
  <2> QED BY <1>0, <1>s2, <1>c4 DEF C5
<1>c6. S(C6) /\ (F(C5) => F(C6))
  <2> HIDE DEF C5
  <2> QED BY <1>0, <1>s2, <1>c5 DEF C6
<1>c7. S(C7) /\ (F(C6) => F(C7))
  <2> HIDE DEF C6
  <2> QED BY <1>0, <1>s2, <1>c6 DEF C7
<1>c8. S(C8) /\ (F(C7) => F(C8))
  <2> HIDE DEF C7
  <2> QED BY <1>0, <1>s2, <1>c7 DEF C8
<1>c9. S(C9) /\ (F(C8) => F(C9))
  <2> HIDE DEF C8
  <2> QED BY <1>0, <1>s2, <1>c8 DEF C9
<1>c10. S(C10) /\ (F(C9) => F(C10))
  <2> HIDE DEF C9
  <2> QED BY <1>0, <1>s3, <1>c9 DEF C10
<1>c11. S(C11) /\ (F(C10) => F(C11))
  <2> HIDE DEF C10
  <2> QED BY <1>0, <1>s3, <1>c10 DEF C11
<1>c12. S(C12) /\ (F(C11) => F(C12))
  <2> HIDE DEF C11
  <2> QED BY <1>0, <1>s3, <1>c11 DEF C12
<1>c13. S(C13) /\ (F(C12) => F(C13))
  <2> HIDE DEF C12
  <2> QED BY <1>0, <1>s4, <1>c12 DEF C13
<1>c14. S(C14) /\ (F(C13) => F(C14))
  <2> HIDE DEF C13
  <2> QED BY <1>0, <1>s4, <1>c13 DEF C14
<1>c15. S(C15) /\ (F(C14) => F(C15))
  <2> HIDE DEF C14
  <2> QED BY <1>0, <1>s4, <1>c14 DEF C15
<1>c16. S(C16) /\ (F(C15) => F(C16))
  <2> HIDE DEF C15
  <2> QED BY <1>0, <1>s4, <1>c15 DEF C16
<1>c17. S(C17) /\ (F(C16) => F(C17))
  <2> HIDE DEF C16
  <2> QED BY <1>0, <1>s4, <1>c16 DEF C17
<1>c18. S(C18) /\ (F(C17) => F(C18))
  <2> HIDE DEF C17
  <2> QED BY <1>0, <1>s4, <1>c17 DEF C18
<1>1. /\ C3 = VCommitted(v) \o ReplayLogUp(v) /\ C12 = VSampled(v) \o ReplayPow(v)
      /\ C18 = cairo_verify(v)
  BY DEF cairo_verify, VSampled, VInteracted, VCommitted, VOpened
<1>2. F(C0) \/ F(C3) \/ F(C12)
  BY <1>1 DEF F
<1> HIDE DEF C0, C1, C2, C3, C4, C5, C6, C7, C8, C9, C10, C11, C12, C13, C14, C15, C16, C17, C18
<1>3. F(C12)
  BY <1>2, <1>c1, <1>c2, <1>c3, <1>c4, <1>c5, <1>c6, <1>c7, <1>c8, <1>c9, <1>c10, <1>c11, <1>c12
<1>4. F(C18)
  BY <1>3, <1>c13, <1>c14, <1>c15, <1>c16, <1>c17, <1>c18
<1> QED BY <1>1, <1>4 DEF F

\* A field that is only absorbed shows in the query indices.
LEMMA AbsorbedFieldFound ==
  ASSUME NEW v, NEW n \in 1 .. MaxLayers, FriLayers(v) = n, NEW bad, bad \in SampledVAbsorbs(v),
         NEW R, \A ch : <<"query_indices", ch>> \in R => "damaged" \notin Absorbed(ch)
  PROVE  Refutes(cairo_verify(v), new, bad, R)
<1> DEFINE V == VSampled(v)
           b == After(V, new, bad)
           P == peek("pow_prefix") \o check({"pow_nonce"}, {"pow_prefix"}) \o mix("pow_nonce")
           Q == check({"query_indices"}, {"query_indices"})
           c == "query_indices"
<1>1. IsScript(V) /\ ~ Restarts(V) /\ bad \in Absorbs(V)
  BY VSampledAudit DEF Audit
<1>2. IsChannel(new)
  BY AbsorbedLaws
<1>3. IsScript(P) /\ ~ Restarts(P)
  BY ScriptTable, RestartTable
<1>4. IsScript(Q) /\ c \in Uses(Q) /\ c \notin Draws(Q)
  BY CheckLaws
<1>5. ReplayPow(v) = P \o draw(c) \o Q
  BY DEF ReplayPow
<1> HIDE DEF V, P, Q, c
<1>6. IsChannel(b) /\ "damaged" \in Absorbed(b)
  BY <1>1, <1>2, AfterAbsorbs, EffectsJoin
<1> HIDE DEF b
<1>7. Strays(P \o draw(c), b, bad, R, c)
  BY <1>3, <1>6, TaintShows DEF c
<1>8. IsScript(P \o draw(c))
  BY <1>3, ScriptTable
<1>9. Refutes((P \o draw(c)) \o Q, b, bad, R) /\ IsScript((P \o draw(c)) \o Q)
  BY <1>4, <1>6, <1>7, <1>8, StraysUse, ScriptTable
<1>10. Refutes(V \o ReplayPow(v), new, bad, R)
  BY <1>1, <1>2, <1>5, <1>9, StraysJoin DEF b
<1> QED BY <1>10, FoundEarly DEF V

\* A proof that has lost its side table skips the section that absorbs the
\* commitment to it: the dict link challenges are not the prover's.
LEMMA LostSideTableFound ==
  ASSUME NEW v, NEW n \in 1 .. MaxLayers, FriLayers(v) = n, v.dict, v.lost = "dict_side_table",
         NEW R, \A ch : <<"z_dict_link", ch>> \in R => "dict_side_table_commitment" \in Absorbed(ch)
  PROVE  Refutes(cairo_verify(v), new, "dict_side_table", R)
<1> DEFINE V == VOpened(v)
           bad == "dict_side_table"
           b == After(V, new, bad)
           c == "z_dict_link"
           P == draw("alpha_dict_link") \o mix("dict_main_interaction_commitment")
                  \o mix("dict_link_final")
           Q == DictLinkCheck(v)
<1>1. IsScript(V) /\ ~ Restarts(V) /\ bad \notin Absorbs(V)
        /\ "dict_side_table_commitment" \notin Absorbs(V)
  BY VOpenedAudit DEF Audit, OpenedVAbsorbs, Has, Trace
<1>2. IsChannel(new)
  BY AbsorbedLaws
<1>3. IsScript(Q) /\ c \in Uses(Q) /\ c \notin Draws(Q)
  BY ReplayTraceSections DEF Audit, DictLink
<1> HIDE DEF V, Q, bad
<1>4. IsChannel(b) /\ Strays(draw(c), b, bad, R, c)
  BY <1>1, GapShows
<1> HIDE DEF b
<1>5. IsScript(draw(c)) /\ IsScript(draw("alpha_dict_link")) /\ c \notin Draws(draw("alpha_dict_link"))
  BY DrawLaws
<1>6. Strays(draw(c) \o draw("alpha_dict_link"), b, bad, R, c)
  BY <1>4, <1>5, StraysJoin
<1>7. Strays(draw(c) \o draw("alpha_dict_link") \o mix("dict_main_interaction_commitment"), b,
             bad, R, c)
  <2>1. IsScript(draw(c) \o draw("alpha_dict_link"))
          /\ IsScript(mix("dict_main_interaction_commitment"))
        /\ Draws(mix("dict_main_interaction_commitment")) = {}
    BY ScriptTable, DrawsTable
  <2> QED BY <1>4, <1>6, <2>1, StraysJoin
<1>8. Strays(ReplaySDict(v), b, bad, R, c)
  <2>1. IsScript(draw(c) \o draw("alpha_dict_link") \o mix("dict_main_interaction_commitment"))
        /\ IsScript(mix("dict_link_final")) /\ Draws(mix("dict_link_final")) = {}
    BY ScriptTable, DrawsTable
  <2>2. Strays(draw(c) \o draw("alpha_dict_link") \o mix("dict_main_interaction_commitment")
                 \o mix("dict_link_final"), b, bad, R, c)
    BY <1>4, <1>7, <2>1, StraysJoin
  <2> QED BY <2>2 DEF ReplaySDict
<1>9. IsScript(ReplaySDict(v))
  BY ScriptTable DEF ReplaySDict
<1> HIDE DEF c
<1>10. Strays(V \o ReplaySDict(v), new, bad, R, c) /\ IsScript(V \o ReplaySDict(v))
  BY <1>1, <1>2, <1>8, <1>9, StraysJoin, ScriptTable DEF b
<1>11. Refutes(V \o ReplaySDict(v) \o Q, new, bad, R)
  BY <1>2, <1>3, <1>10, StraysUse
<1> QED BY <1>11, FoundEarly DEF V, Q, bad

\* A proof that has lost the commitment to its EC trace skips the section that
\* absorbs it: the LogUp challenges are not the prover's.
LEMMA LostEcTraceFound ==
  ASSUME NEW v, NEW n \in 1 .. MaxLayers, FriLayers(v) = n, v.ec, v.lost = "ec_trace_commitment",
         NEW R, \A ch : <<"z_mem", ch>> \in R => "ec_trace_commitment" \in Absorbed(ch)
  PROVE  Refutes(cairo_verify(v), new, "ec_trace_commitment", R)
<1> DEFINE V == VCommitted(v)
           bad == "ec_trace_commitment"
           b == After(V, new, bad)
           c == "z_mem"
           Q == check({"logup_challenges"}, LogUpChallenges)
<1>1. IsScript(V) /\ ~ Restarts(V) /\ bad \notin Absorbs(V)
  BY VCommittedAudit DEF Audit, CommittedVAbsorbs, OpenedVAbsorbs, Has, Trace
<1>2. IsChannel(new)
  BY AbsorbedLaws
<1>3. IsScript(Q) /\ c \in Uses(Q) /\ c \notin Draws(Q)
  BY CheckLaws DEF LogUpChallenges, MemLink
<1> HIDE DEF V, Q, bad
<1>4. IsChannel(b) /\ Strays(draw(c), b, bad, R, c)
  BY <1>1, GapShows DEF bad
<1> HIDE DEF b
<1>5. IsScript(draw(c)) /\ IsScript(draw("alpha_mem")) /\ c \notin Draws(draw("alpha_mem"))
  BY DrawLaws
<1>6. Strays(draw(c) \o draw("alpha_mem"), b, bad, R, c)
  BY <1>4, <1>5, StraysJoin
<1>7. Strays(draw(c) \o draw("alpha_mem") \o draw("z_rc"), b, bad, R, c)
  <2>1. IsScript(draw(c) \o draw("alpha_mem")) /\ IsScript(draw("z_rc")) /\ c \notin Draws(draw("z_rc"))
    BY ScriptTable, DrawsTable
  <2> QED BY <1>4, <1>6, <2>1, StraysJoin
<1>8. IsScript(draw(c) \o draw("alpha_mem") \o draw("z_rc"))
  BY ScriptTable
<1>9. ReplayLogUp(v) = draw(c) \o draw("alpha_mem") \o draw("z_rc") \o Q
  BY DEF ReplayLogUp, Q
<1> HIDE DEF c
<1>10. Refutes(ReplayLogUp(v), b, bad, R) /\ IsScript(ReplayLogUp(v))
  BY <1>3, <1>4, <1>7, <1>8, <1>9, StraysUse, ScriptTable
<1>11. Refutes(V \o ReplayLogUp(v), new, bad, R)
  BY <1>1, <1>2, <1>10, StraysJoin DEF b
<1> QED BY <1>11, FoundEarly DEF V, bad

\* The fields of a Cairo proof that no equation binds, with or without a statement.
Loose == {"program_rest", "fri_start_channel_state", "dict_access_pointers", "ec_log_eval"}

\* Every field of a Cairo proof but the loose ones and the inputs of the
\* run is read by the verifier, absorbed by it, or missing from its transcript.
LEMMA CairoFieldsCovered ==
  ASSUME NEW s, NEW v, v.dict = s.dict, v.ec = s.ec, v.bitwise = s.bitwise,
         FriLayers(v) = FriLayers(s),
         NEW f \in CairoFields(s), v.lost \in {"none", f},
         f \notin Loose \cup {"run_inputs"}
  PROVE  \/ f \in CairoVReads(v)
         \/ f \in SampledVAbsorbs(v)
         \/ f = "dict_side_table" /\ v.lost = f /\ v.dict
         \/ f = "ec_trace_commitment" /\ v.lost = f /\ v.ec
<1> USE DEF Loose
<1>1. CASE f \in {"program", "version"} \cup Trace
  BY <1>1 DEF Trace, CairoVReads, SampledVReads, InteractedVReads, CommittedVReads, OpenedVReads
<1>2. CASE f \in Dicts(s)
  BY <1>2 DEF Dicts, Has, CairoVReads, SampledVReads, InteractedVReads, CommittedVReads, OpenedVReads
<1>3. CASE f \in EcTraces(s)
  BY <1>3 DEF EcTraces, Has, CairoVReads
<1>4. CASE f \in {"dict_main_interaction_commitment", "dict_link_final"}
  BY <1>4 DEF SampledVAbsorbs, InteractedVAbsorbs, CommittedVAbsorbs
<1>5. CASE s.dict /\ f \in {"dict_side_table", "dict_access_pointers", "dict_exec_data",
                            "dict_sorted_data", "dict_n_accesses"}
  BY <1>5 DEF Has, CairoVReads, SampledVReads, InteractedVReads, CommittedVReads, OpenedVReads
<1>6. CASE f \in Tables(s)
  BY <1>6 DEF Tables, SampledVAbsorbs, InteractedVAbsorbs
<1>7. CASE f \in {"memory_table", "rc_counts"} \/ (s.bitwise /\ f = "bitwise_rows")
  BY <1>7 DEF CairoVReads, SampledVReads, InteractedVReads
<1>8. CASE f \in {"logup_challenges", "quotient_commitment", "oods_z", "oods_sampled_values",
                  "oods_alpha", "oods_quotient_commitment"}
  BY <1>8 DEF CairoVReads, SampledVReads, InteractedVReads
<1>9. CASE f \in {FriCommitment[i] : i \in 1 .. FriLayers(s)}
  BY <1>9 DEF CairoVReads
<1>10. CASE f \in {"fri_last_layer", "fri_last_layer_poly", "pow_nonce", "query_indices",
                   "trace_values_at_queries", "trace_auth_paths"}
  BY <1>10 DEF CairoVReads, SampledVAbsorbs
<1>11. CASE s.ec /\ f \in {"ec_trace_at_queries", "ec_trace_auth_paths"}
  BY <1>11 DEF Has, CairoVReads
<1>12. CASE f \in {"quotient_decommitment", "oods_quotient_decommitment"} \cup InteractionDecoms
                    \cup IntermediateDecoms
  BY <1>12 DEF CairoVReads
<1>13. CASE f \in {FriDecommitment[i] : i \in 1 .. FriLayers(s)}
  BY <1>13 DEF CairoVReads
<1>14. f \in CommittedFields(s) =>
         \/ f \in {"program", "version"} \cup Trace \/ f \in Dicts(s) \/ f \in EcTraces(s)
         \/ f \in {"dict_main_interaction_commitment", "dict_link_final"}
         \/ s.dict /\ f \in {"dict_side_table", "dict_access_pointers", "dict_exec_data",
                             "dict_sorted_data", "dict_n_accesses"}
  BY DEF CommittedFields, LogUp
<1>15. f \in SampledFields(s) =>
         \/ f \in CommittedFields(s) \/ f \in Tables(s)
         \/ f \in {"memory_table", "rc_counts"} \/ (s.bitwise /\ f = "bitwise_rows")
         \/ f \in {"logup_challenges", "quotient_commitment", "oods_z", "oods_sampled_values",
                   "oods_alpha", "oods_quotient_commitment"}
  BY DEF SampledFields, InteractedFields
<1>16. \/ f \in SampledFields(s) \/ f \in {FriCommitment[i] : i \in 1 .. FriLayers(s)}
       \/ f \in {"fri_last_layer", "fri_last_layer_poly", "pow_nonce", "query_indices",
                 "trace_values_at_queries", "trace_auth_paths"}
       \/ s.ec /\ f \in {"ec_trace_at_queries", "ec_trace_auth_paths"}
       \/ f \in {"quotient_decommitment", "oods_quotient_decommitment"} \cup InteractionDecoms
                    \cup IntermediateDecoms
       \/ f \in {FriDecommitment[i] : i \in 1 .. FriLayers(s)}
  BY DEF CairoFields
<1> QED BY <1>1, <1>2, <1>3, <1>4, <1>5, <1>6, <1>7, <1>8, <1>9, <1>10, <1>11, <1>12, <1>13,
           <1>14, <1>15, <1>16

LEMMA CairoFaultFound ==
  ASSUME NEW s, s.protocol = "cairo", NEW v, v.dict = s.dict, v.ec = s.ec, v.bitwise = s.bitwise,
         NEW n \in 1 .. MaxLayers, FriLayers(s) = n, FriLayers(v) = n,
         NEW f \in Makes(cairo_prove(s)), v.lost \in {"none", f},
         f \notin Loose \cup {"run_inputs"}
  PROVE  f \in Reads(cairo_verify(v)) \/ Refutes(cairo_verify(v), new, f, States(cairo_prove(s)))
<1> DEFINE R == States(cairo_prove(s))
<1>1. f \in CairoFields(s)
  BY LayersAssumption, CairoSection DEF Section
<1>2. \/ f \in CairoVReads(v) \/ f \in SampledVAbsorbs(v)
      \/ (f = "dict_side_table" /\ v.lost = f /\ v.dict)
      \/ (f = "ec_trace_commitment" /\ v.lost = f /\ v.ec)
  <2>1. FriLayers(v) = FriLayers(s)
    OBVIOUS
  <2> QED BY <1>1, <2>1, CairoFieldsCovered
<1>3. \A c, ch : <<c, ch>> \in R => MustPrecede(s, c) \subseteq Absorbed(ch)
        /\ "damaged" \notin Absorbed(ch)
  BY CairoProverOrderly, StatesLaws
<1> HIDE DEF R
<1>4. CASE f \in CairoVReads(v)
  BY <1>4, CairoVerifyAudit DEF Audit
<1>5. CASE f \in SampledVAbsorbs(v)
  BY <1>3, <1>5, AbsorbedFieldFound DEF R
<1>6. CASE f = "dict_side_table" /\ v.lost = f /\ v.dict
  <2>1. "dict_side_table_commitment" \in MustPrecede(s, "z_dict_link")
    <3>1. 0 \in 0 .. MaxLayers /\ "z_dict_link" \in DictLink
      BY LayersAssumption DEF DictLink
    <3>2. MustPrecede(s, "z_dict_link") = Trace \cup (Dicts(s) \cap {"dict_side_table_commitment"})
      BY <3>1, CairoPrecedence
    <3> QED BY <1>6, <3>2 DEF Dicts
  <2>2. \A ch : <<"z_dict_link", ch>> \in R => "dict_side_table_commitment" \in Absorbed(ch)
    BY <1>3, <2>1
  <2> QED BY <1>6, <2>2, LostSideTableFound DEF R
<1>7. CASE f = "ec_trace_commitment" /\ v.lost = f /\ v.ec
  <2>1. "ec_trace_commitment" \in MustPrecede(s, "z_mem")
    <3>1. 0 \in 0 .. MaxLayers /\ "z_mem" \in MemLink
      BY LayersAssumption DEF MemLink
    <3>2. MustPrecede(s, "z_mem") = LogUp(s)
      BY <3>1, CairoPrecedence
    <3> QED BY <1>7, <3>2 DEF LogUp, EcTraces
  <2>2. \A ch : <<"z_mem", ch>> \in R => "ec_trace_commitment" \in Absorbed(ch)
    BY <1>3, <2>1
  <2> QED BY <1>7, <2>2, LostEcTraceFound DEF R
<1> QED BY <1>2, <1>4, <1>5, <1>6, <1>7

-----------------------------------------------------------------------------
\* What the two sides of a protocol are to each other.

\* Prover P draws its challenges from the states that D gives them.
Tells(P, D) ==
  /\ IsScript(P) /\ "none" \notin Absorbs(P) /\ Draws(P) # {}
  /\ Says(P, new, "none", D)
\* Verifier V has drawn every challenge that it uses.
Listens(V) == IsScript(V) /\ Ready(V, {}) /\ Draws(V) # {}
\* Of an intact proof V draws what P drew, from the same states.
Agrees(V, P, D) ==
  /\ "none" \notin Reads(V) /\ "none" \notin Gates(V) /\ Uses(V) \subseteq Draws(P)
  /\ Says(V, new, "none", D)
\* V sees that field f is not what it was.
Finds(V, f, D) == f \in Reads(V) \/ Refutes(V, new, f, D)

\* The states are those of script L, which draws each challenge once and after
\* what must precede it.
Paired(s, L) ==
  /\ Orderly(L, s) /\ Tells(ProverScript(s), States(L))
  /\ \A f \in Faults(s) :
       LET V == VerifierScript(Received(s, f))
       IN  /\ Listens(V)
           /\ f = Nothing => Agrees(V, ProverScript(s), States(L))
           /\ f # Nothing /\ f.field \notin Unbound(s) => Finds(V, f.field, States(L))

LEMMA FieldsMade ==
  ASSUME NEW P, IsScript(P)
  PROVE  Fields(P) = Makes(P)
<1>1. DOMAIN P = 1 .. Len(P)
  BY DEF IsScript
<1> QED BY <1>1 DEF Fields, Makes, Elems

\* What is received of a proof has the shape of the proof.
LEMMA ReceivedShape ==
  ASSUME NEW s, IsScript(ProverScript(s)), NEW f \in Faults(s)
  PROVE  /\ Received(s, f).protocol = s.protocol /\ Received(s, f).dict = s.dict
         /\ Received(s, f).bitwise = s.bitwise /\ Received(s, f).ec = s.ec
         /\ Received(s, f).log_n = s.log_n /\ Received(s, f).statement = s.statement
         /\ Received(s, f).lost \in {"none", f.field}
         /\ f = Nothing => Received(s, f).lost = "none"
         /\ f # Nothing => f.field \in Makes(ProverScript(s))
<1>1. f # Nothing => f.field \in Fields(ProverScript(s))
  BY DEF Faults
<1> QED BY <1>1, FieldsMade DEF Received, Nothing

\* What is checked before a script starts takes nothing away from it.
LEMMA ChecksFirst ==
  ASSUME NEW C, Silent(C), NEW V, IsScript(V), NEW bad, NEW R
  PROVE  /\ Says(V, new, bad, R) => Says(C \o V, new, bad, R)
         /\ Refutes(V, new, bad, R) => Refutes(C \o V, new, bad, R)
<1>1. IsChannel(new)
  BY AbsorbedLaws
<1>2. IsScript(C) /\ After(C, new, bad) = new /\ Says(C, new, bad, R)
  BY <1>1 DEF Silent
<1>3. Says(V, new, bad, R) => Says(C \o V, new, bad, R)
  BY <1>1, <1>2, EffectsJoin
<1>4. Refutes(V, new, bad, R) => Refutes(C \o V, new, bad, R)
  BY <1>1, <1>2, StraysJoin
<1> QED BY <1>3, <1>4

LEMMA AlikeSays ==
  ASSUME NEW P, NEW V, Alike(P, V), NEW R, Says(P, new, "none", R)
  PROVE  Says(V, new, "none", R)
BY AbsorbedLaws DEF Alike

-----------------------------------------------------------------------------
\* The Cairo prover and its verifier, with and without a statement.
LEMMA CairoVerifier ==
  ASSUME NEW s, s.protocol = "cairo", NEW v, v.dict = s.dict, v.ec = s.ec, v.bitwise = s.bitwise,
         NEW n \in 1 .. MaxLayers, FriLayers(s) = n, FriLayers(v) = n,
         NEW f, v.lost \in {"none", f},
         NEW V, V = cairo_verify(v) \/ V = verify_cairo_statement(v)
  PROVE  /\ Listens(V)
         /\ v.lost = "none" => Agrees(V, cairo_prove(s), States(cairo_prove(s)))
         /\ /\ f \in Makes(cairo_prove(s))
            /\ f \notin Loose
            /\ f = "run_inputs" => V = verify_cairo_statement(v)
            => Finds(V, f, States(cairo_prove(s)))
<1> DEFINE W == cairo_verify(v)
           C == check({"program", "program_hash"}, {}) \o check({"run_inputs"}, {})
           D == States(cairo_prove(s))
           X == verify_cairo_statement(v)
<1>0. 0 \in 0 .. MaxLayers /\ \A i \in 1 .. n : i \in 0 .. MaxLayers
  BY LayersAssumption
<1>1. /\ IsScript(W) /\ Ready(W, {}) /\ "none" \notin Gates(W)
      /\ Draws(W) = CairoVDraws(v) /\ Reads(W) = CairoVReads(v) /\ Uses(W) = CairoVUses(v)
  BY CairoVerifyAudit DEF Audit
<1>2. Draws(W) # {}
  BY <1>1 DEF CairoVDraws
<1>3. "none" \notin Reads(W)
  <2>1. /\ "none" \notin {FriDecommitment[i] : i \in 1 .. FriLayers(v)}
        /\ "none" \notin {FriCommitment[i] : i \in 1 .. FriLayers(v)}
    BY <1>0, NamesAssumption
  <2>2. "none" \notin CommittedVReads(v)
    BY DEF CommittedVReads, OpenedVReads
  <2>3. "none" \notin SampledVReads(v)
    BY <2>2 DEF SampledVReads, InteractedVReads
  <2> QED BY <1>1, <2>1, <2>3 DEF CairoVReads, InteractionDecoms, IntermediateDecoms
<1>4. Uses(W) \subseteq Draws(cairo_prove(s))
  <2>1. Draws(cairo_prove(s)) = CairoDraws(s)
    BY <1>0, CairoSection DEF Section
  <2>2. CommittedVUses(v) \subseteq CommittedDraws(s)
    BY DEF CommittedVUses, OpenedVUses, CommittedDraws, DictDraws
  <2>3. SampledVUses(v) \subseteq SampledDraws(s)
    BY <2>2 DEF SampledVUses, InteractedVUses, SampledDraws, InteractedDraws, LogUpChallenges,
                CommittedDraws
  <2>4. LogUpChallenges \cup {"constraint_alphas", "oods_z", "oods_alpha"} \subseteq SampledDraws(s)
    BY DEF SampledDraws, InteractedDraws, LogUpChallenges, CommittedDraws
  <2> QED BY <1>1, <2>1, <2>3, <2>4 DEF CairoVUses, CairoDraws
<1>5. /\ IsScript(X) /\ Ready(X, {}) /\ Draws(X) = Draws(W) /\ Uses(X) = Uses(W)
      /\ Gates(X) = Gates(W) /\ Reads(X) = {"program", "program_hash", "run_inputs"} \cup Reads(W)
  <2>1. IsScript(C) /\ Silent(C)
    BY ScriptTable, SilentTable
  <2>2. Draws(C) = {} /\ Uses(C) = {} /\ Gates(C) = {}
          /\ Reads(C) = {"program", "program_hash", "run_inputs"}
    BY ScriptTable, DrawsTable, UsesTable, GatesTable, ReadsTable
  <2>3. X = C \o W
    BY DEF verify_cairo_statement
  <2>4. Ready(C, {}) /\ Ready(W, {} \cup Draws(C))
    BY <1>1, <2>2, UsesReady
  <2> HIDE DEF C, W, X
  <2>5. IsScript(X) /\ Draws(X) = Draws(C) \cup Draws(W) /\ Uses(X) = Uses(C) \cup Uses(W)
        /\ Gates(X) = Gates(C) \cup Gates(W) /\ Reads(X) = Reads(C) \cup Reads(W)
    <3>1. IsScript(C \o W)
      BY <1>1, <2>1, Joins
    <3>2. Draws(C \o W) = Draws(C) \cup Draws(W) /\ Uses(C \o W) = Uses(C) \cup Uses(W)
          /\ Gates(C \o W) = Gates(C) \cup Gates(W) /\ Reads(C \o W) = Reads(C) \cup Reads(W)
      BY <1>1, <2>1, SetsJoin
    <3> QED BY <2>3, <3>1, <3>2
  <2>6. Ready(X, {})
    BY <1>1, <2>1, <2>3, <2>4, ReadiesJoin
  <2> QED BY <2>2, <2>5, <2>6
<1>6. ASSUME NEW bad, NEW R
      PROVE  /\ Says(W, new, bad, R) => Says(X, new, bad, R)
             /\ Refutes(W, new, bad, R) => Refutes(X, new, bad, R)
  <2>1. Silent(C) /\ X = C \o W
    BY SilentTable DEF verify_cairo_statement
  <2> HIDE DEF C, W, X
  <2> QED BY <1>1, <2>1, ChecksFirst
<1>7. v.lost = "none" => Says(W, new, "none", D)
  BY CairoAlike, AlikeSays, CairoProverOrderly, StatesLaws
<1>8. ASSUME f \in Makes(cairo_prove(s)),
             f \notin Loose \cup {"run_inputs"}
      PROVE  f \in Reads(W) \/ Refutes(W, new, f, D)
  BY <1>8, CairoFaultFound
<1> HIDE DEF W, X, D
<1>9. Listens(V)
  BY <1>1, <1>2, <1>5 DEF Listens, W, X
<1>10. ASSUME v.lost = "none" PROVE Agrees(V, cairo_prove(s), D)
  <2>1. Agrees(W, cairo_prove(s), D)
    BY <1>1, <1>3, <1>4, <1>7, <1>10 DEF Agrees
  <2>2. Agrees(X, cairo_prove(s), D)
    BY <1>1, <1>3, <1>4, <1>5, <1>6, <1>7, <1>10 DEF Agrees
  <2> QED BY <2>1, <2>2 DEF W, X
<1>11. ASSUME f \in Makes(cairo_prove(s)),
              f \notin Loose,
              f = "run_inputs" => V = X
       PROVE  Finds(V, f, D)
  <2>1. CASE f = "run_inputs"
    BY <1>5, <1>11, <2>1 DEF Finds
  <2>2. CASE f # "run_inputs"
    <3>1. f \in Reads(W) \/ Refutes(W, new, f, D)
      BY <1>8, <1>11, <2>2
    <3>2. Finds(W, f, D) /\ Finds(X, f, D)
      BY <1>5, <1>6, <3>1 DEF Finds
    <3> QED BY <3>2 DEF W, X
  <2> QED BY <2>1, <2>2
<1> QED BY <1>9, <1>10, <1>11 DEF D, X

LEMMA CairoPaired ==
  ASSUME NEW s \in Shapes, s.protocol = "cairo"
  PROVE  Paired(s, cairo_prove(s))
<1> DEFINE n == FriLayers(s)
           L == cairo_prove(s)
<1>1. n \in 1 .. MaxLayers /\ ProverScript(s) = L
  BY ShapesAssumption DEF ProverScript
<1>2. Orderly(L, s)
  BY <1>1, CairoProverOrderly
<1>3. Tells(ProverScript(s), States(L))
  <2>1. Draws(L) = CairoDraws(s)
    BY <1>1, LayersAssumption, CairoSection DEF Section
  <2>2. Draws(L) # {}
    BY <2>1 DEF CairoDraws
  <2>3. Says(L, new, "none", States(L))
    BY <1>2, StatesLaws
  <2> HIDE DEF L
  <2> QED BY <1>1, <1>2, <2>2, <2>3 DEF Tells, Orderly
<1>4. ASSUME NEW f \in Faults(s)
      PROVE  LET V == VerifierScript(Received(s, f))
             IN  /\ Listens(V)
                 /\ f = Nothing => Agrees(V, ProverScript(s), States(L))
                 /\ f # Nothing /\ f.field \notin Unbound(s) => Finds(V, f.field, States(L))
  <2> DEFINE v == Received(s, f)
             V == VerifierScript(v)
             g == f.field
  <2>1. IsScript(ProverScript(s))
    BY <1>3 DEF Tells
  <2>2. /\ v.protocol = "cairo" /\ v.dict = s.dict /\ v.bitwise = s.bitwise /\ v.ec = s.ec
        /\ v.log_n = s.log_n /\ v.statement = s.statement /\ v.lost \in {"none", g}
        /\ f = Nothing => v.lost = "none"
        /\ f # Nothing => g \in Makes(ProverScript(s))
    BY <2>1, ReceivedShape
  <2> HIDE DEF v, g
  <2>3. FriLayers(v) = n
    BY <2>2 DEF FriLayers
  <2>4. V = IF s.statement THEN verify_cairo_statement(v) ELSE cairo_verify(v)
    BY <2>2 DEF VerifierScript
  <2>5. g \notin Unbound(s) =>
          /\ g \notin Loose
          /\ g = "run_inputs" => s.statement
    BY DEF Unbound, Unread, Overlooked, Loose
  <2> HIDE DEF V, n
  <2>6. V = cairo_verify(v) \/ V = verify_cairo_statement(v)
    BY <2>4
  <2>7. /\ Listens(V)
        /\ v.lost = "none" => Agrees(V, L, States(L))
        /\ /\ g \in Makes(L)
           /\ g \notin Loose
           /\ g = "run_inputs" => V = verify_cairo_statement(v)
           => Finds(V, g, States(L))
    BY <1>1, <2>2, <2>3, <2>6, CairoVerifier DEF n
  <2> HIDE DEF L
  <2>8. /\ Listens(V)
        /\ f = Nothing => Agrees(V, ProverScript(s), States(L))
        /\ f # Nothing /\ g \notin Unbound(s) => Finds(V, g, States(L))
    BY <1>1, <2>2, <2>4, <2>5, <2>7
  <2> QED BY <2>8 DEF V, v, g
<1> QED BY <1>2, <1>3, <1>4 DEF Paired, L

-----------------------------------------------------------------------------
\* The Felt252 verifiers: what they draw and what they check.
LEMMA FibAccount ==
  ASSUME NEW A
  PROVE  Account(fib_verify, A,
                 {"queries"},
                 {"query_indices", "trace_root", "trace_decommits", "quotient_root",
                  "quotient_decommits", "q_a", "q_b", "n_trace_decommits", "n_quotient_decommits"},
                 {"queries"})
<1> DEFINE C1 == mix("public_a")
           C2 == C1 \o mix("public_b")
           C3 == C2 \o mix("trace_root")
           C4 == C3 \o mix("quotient_root")
           C5 == C4 \o mix("q_a")
           C6 == C5 \o mix("q_b")
           C7 == C6 \o draw("queries")
           C8 == C7 \o check({"query_indices"}, {"queries"})
           C9 == C8 \o check({"trace_root", "trace_decommits", "quotient_root", "quotient_decommits",
                              "q_a", "q_b", "n_trace_decommits", "n_quotient_decommits"},
                                  {"queries"})
           D1 == {}
           D2 == D1 \cup {}
           D3 == D2 \cup {}
           D4 == D3 \cup {}
           D5 == D4 \cup {}
           D6 == D5 \cup {}
           D7 == D6 \cup {"queries"}
           D8 == D7 \cup {}
           D9 == D8 \cup {}
           R1 == {}
           R2 == R1 \cup {}
           R3 == R2 \cup {}
           R4 == R3 \cup {}
           R5 == R4 \cup {}
           R6 == R5 \cup {}
           R7 == R6 \cup {}
           R8 == R7 \cup {"query_indices"}
           R9 == R8 \cup {"trace_root", "trace_decommits", "quotient_root", "quotient_decommits",
                          "q_a", "q_b", "n_trace_decommits", "n_quotient_decommits"}
           U1 == {}
           U2 == U1 \cup {}
           U3 == U2 \cup {}
           U4 == U3 \cup {}
           U5 == U4 \cup {}
           U6 == U5 \cup {}
           U7 == U6 \cup {}
           U8 == U7 \cup {"queries"}
           U9 == U8 \cup {"queries"}
<1>1. Account(C1, A, D1, R1, U1)
  BY AccountSteps
<1>2. Account(C2, A, D2, R2, U2)
  <2> DEFINE Q == mix("public_b")
  <2>1. Account(Q, A \cup D1, {}, {}, {})
    BY AccountSteps
  <2>2. C2 = C1 \o Q
    BY DEF C2
  <2> HIDE DEF Q, C2, C1, D1, R1, U1
  <2>3. Account(C1 \o Q, A, D1 \cup {}, R1 \cup {}, U1 \cup {})
    BY <1>1, <2>1, AccountsJoin
  <2> QED BY <2>2, <2>3
<1>3. Account(C3, A, D3, R3, U3)
  <2> DEFINE Q == mix("trace_root")
  <2>1. Account(Q, A \cup D2, {}, {}, {})
    BY AccountSteps
  <2>2. C3 = C2 \o Q
    BY DEF C3
  <2> HIDE DEF Q, C3, C2, D2, R2, U2
  <2>3. Account(C2 \o Q, A, D2 \cup {}, R2 \cup {}, U2 \cup {})
    BY <1>2, <2>1, AccountsJoin
  <2> QED BY <2>2, <2>3
<1>4. Account(C4, A, D4, R4, U4)
  <2> DEFINE Q == mix("quotient_root")
  <2>1. Account(Q, A \cup D3, {}, {}, {})
    BY AccountSteps
  <2>2. C4 = C3 \o Q
    BY DEF C4
  <2> HIDE DEF Q, C4, C3, D3, R3, U3
  <2>3. Account(C3 \o Q, A, D3 \cup {}, R3 \cup {}, U3 \cup {})
    BY <1>3, <2>1, AccountsJoin
  <2> QED BY <2>2, <2>3
<1>5. Account(C5, A, D5, R5, U5)
  <2> DEFINE Q == mix("q_a")
  <2>1. Account(Q, A \cup D4, {}, {}, {})
    BY AccountSteps
  <2>2. C5 = C4 \o Q
    BY DEF C5
  <2> HIDE DEF Q, C5, C4, D4, R4, U4
  <2>3. Account(C4 \o Q, A, D4 \cup {}, R4 \cup {}, U4 \cup {})
    BY <1>4, <2>1, AccountsJoin
  <2> QED BY <2>2, <2>3
<1>6. Account(C6, A, D6, R6, U6)
  <2> DEFINE Q == mix("q_b")
  <2>1. Account(Q, A \cup D5, {}, {}, {})
    BY AccountSteps
  <2>2. C6 = C5 \o Q
    BY DEF C6
  <2> HIDE DEF Q, C6, C5, D5, R5, U5
  <2>3. Account(C5 \o Q, A, D5 \cup {}, R5 \cup {}, U5 \cup {})
    BY <1>5, <2>1, AccountsJoin
  <2> QED BY <2>2, <2>3
<1>7. Account(C7, A, D7, R7, U7)
  <2> DEFINE Q == draw("queries")
  <2>1. Account(Q, A \cup D6, {"queries"}, {}, {})
    BY AccountSteps
  <2>2. C7 = C6 \o Q
    BY DEF C7
  <2> HIDE DEF Q, C7, C6, D6, R6, U6
  <2>3. Account(C6 \o Q, A, D6 \cup {"queries"}, R6 \cup {}, U6 \cup {})
    BY <1>6, <2>1, AccountsJoin
  <2> QED BY <2>2, <2>3
<1>8. Account(C8, A, D8, R8, U8)
  <2> DEFINE Q == check({"query_indices"}, {"queries"})
  <2>1. Account(Q, A \cup D7, {}, {"query_indices"}, {"queries"})
    <3>1. {"queries"} \subseteq A \cup D7
      OBVIOUS
    <3> HIDE DEF D7
    <3> QED BY <3>1, AccountSteps
  <2>2. C8 = C7 \o Q
    BY DEF C8
  <2> HIDE DEF Q, C8, C7, D7, R7, U7
  <2>3. Account(C7 \o Q, A, D7 \cup {}, R7 \cup {"query_indices"}, U7 \cup {"queries"})
    BY <1>7, <2>1, AccountsJoin
  <2> QED BY <2>2, <2>3
<1>9. Account(C9, A, D9, R9, U9)
  <2> DEFINE Q == check({"trace_root", "trace_decommits", "quotient_root", "quotient_decommits",
                         "q_a", "q_b", "n_trace_decommits", "n_quotient_decommits"}, {"queries"})
  <2>1. Account(Q, A \cup D8, {}, {"trace_root", "trace_decommits", "quotient_root",
                                   "quotient_decommits", "q_a", "q_b", "n_trace_decommits",
                                       "n_quotient_decommits"}, {"queries"})
    <3>1. {"queries"} \subseteq A \cup D8
      OBVIOUS
    <3> HIDE DEF D8
    <3> QED BY <3>1, AccountSteps
  <2>2. C9 = C8 \o Q
    BY DEF C9
  <2> HIDE DEF Q, C9, C8, D8, R8, U8
  <2>3. Account(C8 \o Q, A, D8 \cup {}, R8 \cup {"trace_root", "trace_decommits", "quotient_root",
                                                 "quotient_decommits", "q_a", "q_b",
                                                     "n_trace_decommits", "n_quotient_decommits"}, U8
                                                 \cup {"queries"})
    BY <1>8, <2>1, AccountsJoin
  <2> QED BY <2>2, <2>3
<1>10. fib_verify = C9
  BY DEF fib_verify
<1>11. D9 = {"queries"} /\ R9 = {"query_indices", "trace_root", "trace_decommits", "quotient_root",
                                 "quotient_decommits", "q_a", "q_b", "n_trace_decommits",
                                     "n_quotient_decommits"} /\ U9 = {"queries"}
  OBVIOUS
<1> HIDE DEF C9, D9, R9, U9
<1> QED BY <1>9, <1>10, <1>11

\* The FRI of a Felt252 verifier.
LEMMA ReplayFriAccount ==
  ASSUME NEW p, NEW A
  PROVE  Account(ReplayFriCommit(p), A,
                 {p.alpha_0, p.alpha_1},
                 {},
                 {})
<1> DEFINE C1 == draw(p.alpha_0)
           C2 == C1 \o mix(p.inner_root)
           C3 == C2 \o draw(p.alpha_1)
           C4 == C3 \o mix(p.last_layer_evals)
           D1 == {p.alpha_0}
           D2 == D1 \cup {}
           D3 == D2 \cup {p.alpha_1}
           D4 == D3 \cup {}
           R1 == {}
           R2 == R1 \cup {}
           R3 == R2 \cup {}
           R4 == R3 \cup {}
           U1 == {}
           U2 == U1 \cup {}
           U3 == U2 \cup {}
           U4 == U3 \cup {}
<1>1. Account(C1, A, D1, R1, U1)
  BY AccountSteps
<1>2. Account(C2, A, D2, R2, U2)
  <2> DEFINE Q == mix(p.inner_root)
  <2>1. Account(Q, A \cup D1, {}, {}, {})
    BY AccountSteps
  <2>2. C2 = C1 \o Q
    BY DEF C2
  <2> HIDE DEF Q, C2, C1, D1, R1, U1
  <2>3. Account(C1 \o Q, A, D1 \cup {}, R1 \cup {}, U1 \cup {})
    BY <1>1, <2>1, AccountsJoin
  <2> QED BY <2>2, <2>3
<1>3. Account(C3, A, D3, R3, U3)
  <2> DEFINE Q == draw(p.alpha_1)
  <2>1. Account(Q, A \cup D2, {p.alpha_1}, {}, {})
    BY AccountSteps
  <2>2. C3 = C2 \o Q
    BY DEF C3
  <2> HIDE DEF Q, C3, C2, D2, R2, U2
  <2>3. Account(C2 \o Q, A, D2 \cup {p.alpha_1}, R2 \cup {}, U2 \cup {})
    BY <1>2, <2>1, AccountsJoin
  <2> QED BY <2>2, <2>3
<1>4. Account(C4, A, D4, R4, U4)
  <2> DEFINE Q == mix(p.last_layer_evals)
  <2>1. Account(Q, A \cup D3, {}, {}, {})
    BY AccountSteps
  <2>2. C4 = C3 \o Q
    BY DEF C4
  <2> HIDE DEF Q, C4, C3, D3, R3, U3
  <2>3. Account(C3 \o Q, A, D3 \cup {}, R3 \cup {}, U3 \cup {})
    BY <1>3, <2>1, AccountsJoin
  <2> QED BY <2>2, <2>3
<1>5. ReplayFriCommit(p) = C4
  BY DEF ReplayFriCommit
<1>6. D4 = {p.alpha_0, p.alpha_1} /\ R4 = {} /\ U4 = {}
  OBVIOUS
<1> HIDE DEF C4, D4, R4, U4
<1> QED BY <1>4, <1>5, <1>6

LEMMA ReplayQueriesAccount ==
  ASSUME NEW p, NEW A
  PROVE  Account(ReplayQueries(p), A,
                 {p.alpha_0, p.alpha_1, p.queries},
                 {p.query_indices},
                 {p.queries})
<1> DEFINE C1 == ReplayFriCommit(p)
           C2 == C1 \o draw(p.queries)
           C3 == C2 \o check({p.query_indices}, {p.queries})
           D1 == {p.alpha_0, p.alpha_1}
           D2 == D1 \cup {p.queries}
           D3 == D2 \cup {}
           R1 == {}
           R2 == R1 \cup {}
           R3 == R2 \cup {p.query_indices}
           U1 == {}
           U2 == U1 \cup {}
           U3 == U2 \cup {p.queries}
<1>1. Account(C1, A, D1, R1, U1)
  BY ReplayFriAccount
<1>2. Account(C2, A, D2, R2, U2)
  <2> DEFINE Q == draw(p.queries)
  <2>1. Account(Q, A \cup D1, {p.queries}, {}, {})
    BY AccountSteps
  <2>2. C2 = C1 \o Q
    BY DEF C2
  <2> HIDE DEF Q, C2, C1, D1, R1, U1
  <2>3. Account(C1 \o Q, A, D1 \cup {p.queries}, R1 \cup {}, U1 \cup {})
    BY <1>1, <2>1, AccountsJoin
  <2> QED BY <2>2, <2>3
<1>3. Account(C3, A, D3, R3, U3)
  <2> DEFINE Q == check({p.query_indices}, {p.queries})
  <2>1. Account(Q, A \cup D2, {}, {p.query_indices}, {p.queries})
    <3>1. {p.queries} \subseteq A \cup D2
      OBVIOUS
    <3> HIDE DEF D2
    <3> QED BY <3>1, AccountSteps
  <2>2. C3 = C2 \o Q
    BY DEF C3
  <2> HIDE DEF Q, C3, C2, D2, R2, U2
  <2>3. Account(C2 \o Q, A, D2 \cup {}, R2 \cup {p.query_indices}, U2 \cup {p.queries})
    BY <1>2, <2>1, AccountsJoin
  <2> QED BY <2>2, <2>3
<1>4. ReplayQueries(p) = C3
  BY DEF ReplayQueries
<1>5. D3 = {p.alpha_0, p.alpha_1, p.queries} /\ R3 = {p.query_indices} /\ U3 = {p.queries}
  OBVIOUS
<1> HIDE DEF C3, D3, R3, U3
<1> QED BY <1>3, <1>4, <1>5

LEMMA FriVerifyAccount ==
  ASSUME NEW p, NEW root, NEW A, p.queries \in A
  PROVE  Account(fri_verify(p, root), A,
                 {p.alpha_0, p.alpha_1},
                 {p.query_decommits, p.inner_root, p.last_layer_evals, root},
                 {p.alpha_0, p.alpha_1, p.queries})
<1> DEFINE C1 == ReplayFriCommit(p)
           C2 == C1 \o check({p.query_decommits, p.inner_root, p.last_layer_evals, root},
                             {p.alpha_0, p.alpha_1, p.queries})
           D1 == {p.alpha_0, p.alpha_1}
           D2 == D1 \cup {}
           R1 == {}
           R2 == R1 \cup {p.query_decommits, p.inner_root, p.last_layer_evals, root}
           U1 == {}
           U2 == U1 \cup {p.alpha_0, p.alpha_1, p.queries}
<1>1. Account(C1, A, D1, R1, U1)
  BY ReplayFriAccount
<1>2. Account(C2, A, D2, R2, U2)
  <2> DEFINE Q == check({p.query_decommits, p.inner_root, p.last_layer_evals, root},
                        {p.alpha_0, p.alpha_1, p.queries})
  <2>1. Account(Q, A \cup D1, {}, {p.query_decommits, p.inner_root, p.last_layer_evals, root},
                {p.alpha_0, p.alpha_1, p.queries})
    <3>1. {p.alpha_0, p.alpha_1, p.queries} \subseteq A \cup D1
      OBVIOUS
    <3> HIDE DEF D1
    <3> QED BY <3>1, AccountSteps
  <2>2. C2 = C1 \o Q
    BY DEF C2
  <2> HIDE DEF Q, C2, C1, D1, R1, U1
  <2>3. Account(C1 \o Q, A, D1 \cup {}, R1 \cup {p.query_decommits, p.inner_root, p.last_layer_evals,
                                                 root}, U1 \cup {p.alpha_0, p.alpha_1, p.queries})
    BY <1>1, <2>1, AccountsJoin
  <2> QED BY <2>2, <2>3
<1>3. fri_verify(p, root) = C2
  BY DEF fri_verify
<1>4. D2 = {p.alpha_0, p.alpha_1} /\ R2 = {p.query_decommits, p.inner_root, p.last_layer_evals, root}
        /\ U2 = {p.alpha_0, p.alpha_1, p.queries}
  OBVIOUS
<1> HIDE DEF C2, D2, R2, U2
<1> QED BY <1>2, <1>3, <1>4

LEMMA SubAccounts ==
  ASSUME NEW A
  PROVE  /\ Account(ReplayFriCommit(Exec), A, {"alpha_0", "alpha_1"}, {}, {})
         /\ Account(ReplayQueries(Exec), A, {"alpha_0", "alpha_1", "queries"}, {"query_indices"},
                    {"queries"})
         /\ "queries" \in A =>
              Account(fri_verify(Exec, "quotient_root"), A, {"alpha_0", "alpha_1"},
                      {"query_decommits", "inner_root", "last_layer_evals", "quotient_root"},
                      {"alpha_0", "alpha_1", "queries"})
         /\ Account(ReplayQueries(Mem), A, {"mem_alpha_0", "mem_alpha_1", "mem_queries"},
                    {"mem_query_indices"}, {"mem_queries"})
         /\ Account(ReplayQueries(Rc), A, {"rc_alpha_0", "rc_alpha_1", "rc_queries"},
                    {"rc_query_indices"}, {"rc_queries"})
<1>1. Account(ReplayFriCommit(Exec), A, {"alpha_0", "alpha_1"}, {}, {})
  <2>1. Account(ReplayFriCommit(Exec), A, {Exec.alpha_0, Exec.alpha_1}, {}, {})
    BY ReplayFriAccount
  <2> QED BY <2>1, SubProofs
<1>2. Account(ReplayQueries(Exec), A, {"alpha_0", "alpha_1", "queries"}, {"query_indices"}, {"queries"})
  <2>1. Account(ReplayQueries(Exec), A, {Exec.alpha_0, Exec.alpha_1, Exec.queries},
                {Exec.query_indices}, {Exec.queries})
    BY ReplayQueriesAccount
  <2> QED BY <2>1, SubProofs
<1>3. ASSUME "queries" \in A
      PROVE  Account(fri_verify(Exec, "quotient_root"), A, {"alpha_0", "alpha_1"},
                     {"query_decommits", "inner_root", "last_layer_evals", "quotient_root"},
                     {"alpha_0", "alpha_1", "queries"})
  <2>1. Exec.queries \in A
    BY <1>3, SubProofs
  <2>2. Account(fri_verify(Exec, "quotient_root"), A, {Exec.alpha_0, Exec.alpha_1},
                {Exec.query_decommits, Exec.inner_root, Exec.last_layer_evals, "quotient_root"},
                {Exec.alpha_0, Exec.alpha_1, Exec.queries})
    BY <2>1, FriVerifyAccount
  <2> QED BY <2>2, SubProofs
<1>4. Account(ReplayQueries(Mem), A, {"mem_alpha_0", "mem_alpha_1", "mem_queries"},
              {"mem_query_indices"}, {"mem_queries"})
  <2>1. Account(ReplayQueries(Mem), A, {Mem.alpha_0, Mem.alpha_1, Mem.queries},
                {Mem.query_indices}, {Mem.queries})
    BY ReplayQueriesAccount
  <2> QED BY <2>1, SubProofs
<1>5. Account(ReplayQueries(Rc), A, {"rc_alpha_0", "rc_alpha_1", "rc_queries"},
              {"rc_query_indices"}, {"rc_queries"})
  <2>1. Account(ReplayQueries(Rc), A, {Rc.alpha_0, Rc.alpha_1, Rc.queries},
                {Rc.query_indices}, {Rc.queries})
    BY ReplayQueriesAccount
  <2> QED BY <2>1, SubProofs
<1> QED BY <1>1, <1>2, <1>3, <1>4, <1>5

AirReplay == mix("public_inputs") \o mix("trace_root") \o mix("quotient_root")

LEMMA AirReplayAccount ==
  ASSUME NEW A
  PROVE  Account(AirReplay, A,
                 {},
                 {},
                 {})
<1> DEFINE C1 == mix("public_inputs")
           C2 == C1 \o mix("trace_root")
           C3 == C2 \o mix("quotient_root")
           D1 == {}
           D2 == D1 \cup {}
           D3 == D2 \cup {}
           R1 == {}
           R2 == R1 \cup {}
           R3 == R2 \cup {}
           U1 == {}
           U2 == U1 \cup {}
           U3 == U2 \cup {}
<1>1. Account(C1, A, D1, R1, U1)
  BY AccountSteps
<1>2. Account(C2, A, D2, R2, U2)
  <2> DEFINE Q == mix("trace_root")
  <2>1. Account(Q, A \cup D1, {}, {}, {})
    BY AccountSteps
  <2>2. C2 = C1 \o Q
    BY DEF C2
  <2> HIDE DEF Q, C2, C1, D1, R1, U1
  <2>3. Account(C1 \o Q, A, D1 \cup {}, R1 \cup {}, U1 \cup {})
    BY <1>1, <2>1, AccountsJoin
  <2> QED BY <2>2, <2>3
<1>3. Account(C3, A, D3, R3, U3)
  <2> DEFINE Q == mix("quotient_root")
  <2>1. Account(Q, A \cup D2, {}, {}, {})
    BY AccountSteps
  <2>2. C3 = C2 \o Q
    BY DEF C3
  <2> HIDE DEF Q, C3, C2, D2, R2, U2
  <2>3. Account(C2 \o Q, A, D2 \cup {}, R2 \cup {}, U2 \cup {})
    BY <1>2, <2>1, AccountsJoin
  <2> QED BY <2>2, <2>3
<1>4. AirReplay = C3
  BY DEF AirReplay
<1>5. D3 = {} /\ R3 = {} /\ U3 = {}
  OBVIOUS
<1> HIDE DEF C3, D3, R3, U3
<1> QED BY <1>3, <1>4, <1>5

LEMMA AirAccount ==
  ASSUME NEW A
  PROVE  Account(verify_with_air, A,
                 {"alpha_0", "alpha_1", "queries"},
                 {"public_inputs", "query_indices", "trace_root", "trace_decommits", "query_decommits",
                  "inner_root", "last_layer_evals", "quotient_root"},
                 {"alpha_0", "alpha_1", "queries"})
<1> DEFINE C1 == check({"public_inputs"}, {})
           C2 == C1 \o AirReplay
           C3 == C2 \o ReplayQueries(Exec)
           C4 == C3 \o check({"trace_root", "trace_decommits", "query_decommits"}, {"queries"})
           C5 == C4 \o restart
           C6 == C5 \o AirReplay
           C7 == C6 \o fri_verify(Exec, "quotient_root")
           D1 == {}
           D2 == D1 \cup {}
           D3 == D2 \cup {"alpha_0", "alpha_1", "queries"}
           D4 == D3 \cup {}
           D5 == D4 \cup {}
           D6 == D5 \cup {}
           D7 == D6 \cup {"alpha_0", "alpha_1"}
           R1 == {"public_inputs"}
           R2 == R1 \cup {}
           R3 == R2 \cup {"query_indices"}
           R4 == R3 \cup {"trace_root", "trace_decommits", "query_decommits"}
           R5 == R4 \cup {}
           R6 == R5 \cup {}
           R7 == R6 \cup {"query_decommits", "inner_root", "last_layer_evals", "quotient_root"}
           U1 == {}
           U2 == U1 \cup {}
           U3 == U2 \cup {"queries"}
           U4 == U3 \cup {"queries"}
           U5 == U4 \cup {}
           U6 == U5 \cup {}
           U7 == U6 \cup {"alpha_0", "alpha_1", "queries"}
<1>1. Account(C1, A, D1, R1, U1)
  BY AccountSteps
<1>2. Account(C2, A, D2, R2, U2)
  <2> DEFINE Q == AirReplay
  <2>1. Account(Q, A \cup D1, {}, {}, {})
    BY AirReplayAccount
  <2>2. C2 = C1 \o Q
    BY DEF C2
  <2> HIDE DEF Q, C2, C1, D1, R1, U1
  <2>3. Account(C1 \o Q, A, D1 \cup {}, R1 \cup {}, U1 \cup {})
    BY <1>1, <2>1, AccountsJoin
  <2> QED BY <2>2, <2>3
<1>3. Account(C3, A, D3, R3, U3)
  <2> DEFINE Q == ReplayQueries(Exec)
  <2>1. Account(Q, A \cup D2, {"alpha_0", "alpha_1", "queries"}, {"query_indices"}, {"queries"})
    BY SubAccounts
  <2>2. C3 = C2 \o Q
    BY DEF C3
  <2> HIDE DEF Q, C3, C2, D2, R2, U2
  <2>3. Account(C2 \o Q, A, D2 \cup {"alpha_0", "alpha_1", "queries"}, R2 \cup {"query_indices"}, U2
                \cup {"queries"})
    BY <1>2, <2>1, AccountsJoin
  <2> QED BY <2>2, <2>3
<1>4. Account(C4, A, D4, R4, U4)
  <2> DEFINE Q == check({"trace_root", "trace_decommits", "query_decommits"}, {"queries"})
  <2>1. Account(Q, A \cup D3, {}, {"trace_root", "trace_decommits", "query_decommits"}, {"queries"})
    <3>1. {"queries"} \subseteq A \cup D3
      OBVIOUS
    <3> HIDE DEF D3
    <3> QED BY <3>1, AccountSteps
  <2>2. C4 = C3 \o Q
    BY DEF C4
  <2> HIDE DEF Q, C4, C3, D3, R3, U3
  <2>3. Account(C3 \o Q, A, D3 \cup {}, R3 \cup {"trace_root", "trace_decommits", "query_decommits"},
                U3 \cup {"queries"})
    BY <1>3, <2>1, AccountsJoin
  <2> QED BY <2>2, <2>3
<1>5. Account(C5, A, D5, R5, U5)
  <2> DEFINE Q == restart
  <2>1. Account(Q, A \cup D4, {}, {}, {})
    BY AccountSteps
  <2>2. C5 = C4 \o Q
    BY DEF C5
  <2> HIDE DEF Q, C5, C4, D4, R4, U4
  <2>3. Account(C4 \o Q, A, D4 \cup {}, R4 \cup {}, U4 \cup {})
    BY <1>4, <2>1, AccountsJoin
  <2> QED BY <2>2, <2>3
<1>6. Account(C6, A, D6, R6, U6)
  <2> DEFINE Q == AirReplay
  <2>1. Account(Q, A \cup D5, {}, {}, {})
    BY AirReplayAccount
  <2>2. C6 = C5 \o Q
    BY DEF C6
  <2> HIDE DEF Q, C6, C5, D5, R5, U5
  <2>3. Account(C5 \o Q, A, D5 \cup {}, R5 \cup {}, U5 \cup {})
    BY <1>5, <2>1, AccountsJoin
  <2> QED BY <2>2, <2>3
<1>7. Account(C7, A, D7, R7, U7)
  <2> DEFINE Q == fri_verify(Exec, "quotient_root")
  <2>1. Account(Q, A \cup D6, {"alpha_0", "alpha_1"},
                {"query_decommits", "inner_root", "last_layer_evals", "quotient_root"},
                {"alpha_0", "alpha_1", "queries"})
    BY SubAccounts
  <2>2. C7 = C6 \o Q
    BY DEF C7
  <2> HIDE DEF Q, C7, C6, D6, R6, U6
  <2>3. Account(C6 \o Q, A, D6 \cup {"alpha_0", "alpha_1"}, R6
                \cup {"query_decommits", "inner_root", "last_layer_evals", "quotient_root"}, U6
                \cup {"alpha_0", "alpha_1", "queries"})
    BY <1>6, <2>1, AccountsJoin
  <2> QED BY <2>2, <2>3
<1>8. verify_with_air = C7
  BY DEF verify_with_air, AirReplay
<1>9. D7 = {"alpha_0", "alpha_1", "queries"} /\ R7 = {"public_inputs", "query_indices", "trace_root",
                                                      "trace_decommits", "query_decommits",
                                                      "inner_root", "last_layer_evals",
                                                      "quotient_root"}
                                                        /\ U7 = {"alpha_0", "alpha_1", "queries"}
  OBVIOUS
<1> HIDE DEF C7, D7, R7, U7
<1> QED BY <1>7, <1>8, <1>9

LEMMA MultiReplayAccount ==
  ASSUME NEW A
  PROVE  Account(MultiUpToQuotient, A,
                 {"alphas"},
                 {},
                 {})
<1> DEFINE C1 == mix("public_inputs")
           C2 == C1 \o mix("col_roots")
           C3 == C2 \o draw("alphas")
           C4 == C3 \o mix("quotient_root")
           D1 == {}
           D2 == D1 \cup {}
           D3 == D2 \cup {"alphas"}
           D4 == D3 \cup {}
           R1 == {}
           R2 == R1 \cup {}
           R3 == R2 \cup {}
           R4 == R3 \cup {}
           U1 == {}
           U2 == U1 \cup {}
           U3 == U2 \cup {}
           U4 == U3 \cup {}
<1>1. Account(C1, A, D1, R1, U1)
  BY AccountSteps
<1>2. Account(C2, A, D2, R2, U2)
  <2> DEFINE Q == mix("col_roots")
  <2>1. Account(Q, A \cup D1, {}, {}, {})
    BY AccountSteps
  <2>2. C2 = C1 \o Q
    BY DEF C2
  <2> HIDE DEF Q, C2, C1, D1, R1, U1
  <2>3. Account(C1 \o Q, A, D1 \cup {}, R1 \cup {}, U1 \cup {})
    BY <1>1, <2>1, AccountsJoin
  <2> QED BY <2>2, <2>3
<1>3. Account(C3, A, D3, R3, U3)
  <2> DEFINE Q == draw("alphas")
  <2>1. Account(Q, A \cup D2, {"alphas"}, {}, {})
    BY AccountSteps
  <2>2. C3 = C2 \o Q
    BY DEF C3
  <2> HIDE DEF Q, C3, C2, D2, R2, U2
  <2>3. Account(C2 \o Q, A, D2 \cup {"alphas"}, R2 \cup {}, U2 \cup {})
    BY <1>2, <2>1, AccountsJoin
  <2> QED BY <2>2, <2>3
<1>4. Account(C4, A, D4, R4, U4)
  <2> DEFINE Q == mix("quotient_root")
  <2>1. Account(Q, A \cup D3, {}, {}, {})
    BY AccountSteps
  <2>2. C4 = C3 \o Q
    BY DEF C4
  <2> HIDE DEF Q, C4, C3, D3, R3, U3
  <2>3. Account(C3 \o Q, A, D3 \cup {}, R3 \cup {}, U3 \cup {})
    BY <1>3, <2>1, AccountsJoin
  <2> QED BY <2>2, <2>3
<1>5. MultiUpToQuotient = C4
  BY DEF MultiUpToQuotient
<1>6. D4 = {"alphas"} /\ R4 = {} /\ U4 = {}
  OBVIOUS
<1> HIDE DEF C4, D4, R4, U4
<1> QED BY <1>4, <1>5, <1>6

LEMMA MultiAccount ==
  ASSUME NEW A
  PROVE  Account(verify_multi, A,
                 {"alphas", "alpha_0", "alpha_1", "queries"},
                 {"public_inputs", "query_indices", "col_roots", "trace_decommits",
                  "n_trace_decommits", "query_decommits",
                  "inner_root", "last_layer_evals", "quotient_root"},
                 {"alphas", "alpha_0", "alpha_1", "queries"})
<1> DEFINE C1 == check({"public_inputs"}, {})
           C2 == C1 \o MultiUpToQuotient
           C3 == C2 \o ReplayQueries(Exec)
           C4 == C3 \o check({"col_roots", "trace_decommits", "n_trace_decommits",
                              "query_decommits"}, {"queries", "alphas"})
           C5 == C4 \o restart
           C6 == C5 \o MultiUpToQuotient
           C7 == C6 \o fri_verify(Exec, "quotient_root")
           D1 == {}
           D2 == D1 \cup {"alphas"}
           D3 == D2 \cup {"alpha_0", "alpha_1", "queries"}
           D4 == D3 \cup {}
           D5 == D4 \cup {}
           D6 == D5 \cup {"alphas"}
           D7 == D6 \cup {"alpha_0", "alpha_1"}
           R1 == {"public_inputs"}
           R2 == R1 \cup {}
           R3 == R2 \cup {"query_indices"}
           R4 == R3 \cup {"col_roots", "trace_decommits", "n_trace_decommits", "query_decommits"}
           R5 == R4 \cup {}
           R6 == R5 \cup {}
           R7 == R6 \cup {"query_decommits", "inner_root", "last_layer_evals", "quotient_root"}
           U1 == {}
           U2 == U1 \cup {}
           U3 == U2 \cup {"queries"}
           U4 == U3 \cup {"queries", "alphas"}
           U5 == U4 \cup {}
           U6 == U5 \cup {}
           U7 == U6 \cup {"alpha_0", "alpha_1", "queries"}
<1>1. Account(C1, A, D1, R1, U1)
  BY AccountSteps
<1>2. Account(C2, A, D2, R2, U2)
  <2> DEFINE Q == MultiUpToQuotient
  <2>1. Account(Q, A \cup D1, {"alphas"}, {}, {})
    BY MultiReplayAccount
  <2>2. C2 = C1 \o Q
    BY DEF C2
  <2> HIDE DEF Q, C2, C1, D1, R1, U1
  <2>3. Account(C1 \o Q, A, D1 \cup {"alphas"}, R1 \cup {}, U1 \cup {})
    BY <1>1, <2>1, AccountsJoin
  <2> QED BY <2>2, <2>3
<1>3. Account(C3, A, D3, R3, U3)
  <2> DEFINE Q == ReplayQueries(Exec)
  <2>1. Account(Q, A \cup D2, {"alpha_0", "alpha_1", "queries"}, {"query_indices"}, {"queries"})
    BY SubAccounts
  <2>2. C3 = C2 \o Q
    BY DEF C3
  <2> HIDE DEF Q, C3, C2, D2, R2, U2
  <2>3. Account(C2 \o Q, A, D2 \cup {"alpha_0", "alpha_1", "queries"}, R2 \cup {"query_indices"}, U2
                \cup {"queries"})
    BY <1>2, <2>1, AccountsJoin
  <2> QED BY <2>2, <2>3
<1>4. Account(C4, A, D4, R4, U4)
  <2> DEFINE Q == check({"col_roots", "trace_decommits", "n_trace_decommits", "query_decommits"},
                        {"queries", "alphas"})
  <2>1. Account(Q, A \cup D3, {}, {"col_roots", "trace_decommits", "n_trace_decommits",
                                   "query_decommits"},
                {"queries", "alphas"})
    <3>1. {"queries", "alphas"} \subseteq A \cup D3
      OBVIOUS
    <3> HIDE DEF D3
    <3> QED BY <3>1, AccountSteps
  <2>2. C4 = C3 \o Q
    BY DEF C4
  <2> HIDE DEF Q, C4, C3, D3, R3, U3
  <2>3. Account(C3 \o Q, A, D3 \cup {}, R3 \cup {"col_roots", "trace_decommits",
                                                 "n_trace_decommits", "query_decommits"}, U3
                \cup {"queries", "alphas"})
    BY <1>3, <2>1, AccountsJoin
  <2> QED BY <2>2, <2>3
<1>5. Account(C5, A, D5, R5, U5)
  <2> DEFINE Q == restart
  <2>1. Account(Q, A \cup D4, {}, {}, {})
    BY AccountSteps
  <2>2. C5 = C4 \o Q
    BY DEF C5
  <2> HIDE DEF Q, C5, C4, D4, R4, U4
  <2>3. Account(C4 \o Q, A, D4 \cup {}, R4 \cup {}, U4 \cup {})
    BY <1>4, <2>1, AccountsJoin
  <2> QED BY <2>2, <2>3
<1>6. Account(C6, A, D6, R6, U6)
  <2> DEFINE Q == MultiUpToQuotient
  <2>1. Account(Q, A \cup D5, {"alphas"}, {}, {})
    BY MultiReplayAccount
  <2>2. C6 = C5 \o Q
    BY DEF C6
  <2> HIDE DEF Q, C6, C5, D5, R5, U5
  <2>3. Account(C5 \o Q, A, D5 \cup {"alphas"}, R5 \cup {}, U5 \cup {})
    BY <1>5, <2>1, AccountsJoin
  <2> QED BY <2>2, <2>3
<1>7. Account(C7, A, D7, R7, U7)
  <2> DEFINE Q == fri_verify(Exec, "quotient_root")
  <2>1. Account(Q, A \cup D6, {"alpha_0", "alpha_1"},
                {"query_decommits", "inner_root", "last_layer_evals", "quotient_root"},
                {"alpha_0", "alpha_1", "queries"})
    BY SubAccounts
  <2>2. C7 = C6 \o Q
    BY DEF C7
  <2> HIDE DEF Q, C7, C6, D6, R6, U6
  <2>3. Account(C6 \o Q, A, D6 \cup {"alpha_0", "alpha_1"}, R6
                \cup {"query_decommits", "inner_root", "last_layer_evals", "quotient_root"}, U6
                \cup {"alpha_0", "alpha_1", "queries"})
    BY <1>6, <2>1, AccountsJoin
  <2> QED BY <2>2, <2>3
<1>8. verify_multi = C7
  BY DEF verify_multi
<1>9. D7 = {"alphas", "alpha_0", "alpha_1", "queries"}
        /\ R7 = {"public_inputs", "query_indices", "col_roots", "trace_decommits",
                 "n_trace_decommits", "query_decommits",
                 "inner_root", "last_layer_evals", "quotient_root"}
                   /\ U7 = {"alphas", "alpha_0", "alpha_1", "queries"}
  OBVIOUS
<1> HIDE DEF C7, D7, R7, U7
<1> QED BY <1>7, <1>8, <1>9

LEMMA ExecReplayAccount ==
  ASSUME NEW A
  PROVE  Account(replay_exec_channel, A,
                 {"alphas", "alpha_0", "alpha_1", "queries"},
                 {},
                 {})
<1> DEFINE C1 == restart
           C2 == C1 \o MultiUpToQuotient
           C3 == C2 \o ReplayFriCommit(Exec)
           C4 == C3 \o draw("queries")
           D1 == {}
           D2 == D1 \cup {"alphas"}
           D3 == D2 \cup {"alpha_0", "alpha_1"}
           D4 == D3 \cup {"queries"}
           R1 == {}
           R2 == R1 \cup {}
           R3 == R2 \cup {}
           R4 == R3 \cup {}
           U1 == {}
           U2 == U1 \cup {}
           U3 == U2 \cup {}
           U4 == U3 \cup {}
<1>1. Account(C1, A, D1, R1, U1)
  BY AccountSteps
<1>2. Account(C2, A, D2, R2, U2)
  <2> DEFINE Q == MultiUpToQuotient
  <2>1. Account(Q, A \cup D1, {"alphas"}, {}, {})
    BY MultiReplayAccount
  <2>2. C2 = C1 \o Q
    BY DEF C2
  <2> HIDE DEF Q, C2, C1, D1, R1, U1
  <2>3. Account(C1 \o Q, A, D1 \cup {"alphas"}, R1 \cup {}, U1 \cup {})
    BY <1>1, <2>1, AccountsJoin
  <2> QED BY <2>2, <2>3
<1>3. Account(C3, A, D3, R3, U3)
  <2> DEFINE Q == ReplayFriCommit(Exec)
  <2>1. Account(Q, A \cup D2, {"alpha_0", "alpha_1"}, {}, {})
    BY SubAccounts
  <2>2. C3 = C2 \o Q
    BY DEF C3
  <2> HIDE DEF Q, C3, C2, D2, R2, U2
  <2>3. Account(C2 \o Q, A, D2 \cup {"alpha_0", "alpha_1"}, R2 \cup {}, U2 \cup {})
    BY <1>2, <2>1, AccountsJoin
  <2> QED BY <2>2, <2>3
<1>4. Account(C4, A, D4, R4, U4)
  <2> DEFINE Q == draw("queries")
  <2>1. Account(Q, A \cup D3, {"queries"}, {}, {})
    BY AccountSteps
  <2>2. C4 = C3 \o Q
    BY DEF C4
  <2> HIDE DEF Q, C4, C3, D3, R3, U3
  <2>3. Account(C3 \o Q, A, D3 \cup {"queries"}, R3 \cup {}, U3 \cup {})
    BY <1>3, <2>1, AccountsJoin
  <2> QED BY <2>2, <2>3
<1>5. replay_exec_channel = C4
  BY DEF replay_exec_channel
<1>6. D4 = {"alphas", "alpha_0", "alpha_1", "queries"} /\ R4 = {} /\ U4 = {}
  OBVIOUS
<1> HIDE DEF C4, D4, R4, U4
<1> QED BY <1>4, <1>5, <1>6

LEMMA MemAccount ==
  ASSUME NEW A
  PROVE  Account(verify_memory_logup, A,
                 {"mem_z", "mem_alpha", "mem_alpha_0", "mem_alpha_1", "mem_queries"},
                 {"mem_exec_sum", "mem_table", "mem_query_indices", "mem_s_root", "mem_decommits",
                  "mem_query_decommits", "mem_inner_root", "mem_last_layer_evals", "mem_q_root"},
                 {"mem_z", "mem_alpha", "mem_alpha_0", "mem_alpha_1", "mem_queries"})
<1> DEFINE C1 == draw("mem_z")
           C2 == C1 \o draw("mem_alpha")
           C3 == C2 \o mix("mem_s_root")
           C4 == C3 \o check({"mem_exec_sum", "mem_table"}, {"mem_z", "mem_alpha"})
           C5 == C4 \o mix("mem_q_root")
           C6 == C5 \o ReplayQueries(Mem)
           C7 == C6 \o check({"mem_s_root", "mem_decommits", "mem_query_decommits"},
                             {"mem_queries", "mem_z", "mem_alpha"})
           C8 == C7 \o check({"mem_query_decommits", "mem_inner_root", "mem_last_layer_evals",
                              "mem_q_root"}, {"mem_alpha_0", "mem_alpha_1", "mem_queries"})
           D1 == {"mem_z"}
           D2 == D1 \cup {"mem_alpha"}
           D3 == D2 \cup {}
           D4 == D3 \cup {}
           D5 == D4 \cup {}
           D6 == D5 \cup {"mem_alpha_0", "mem_alpha_1", "mem_queries"}
           D7 == D6 \cup {}
           D8 == D7 \cup {}
           R1 == {}
           R2 == R1 \cup {}
           R3 == R2 \cup {}
           R4 == R3 \cup {"mem_exec_sum", "mem_table"}
           R5 == R4 \cup {}
           R6 == R5 \cup {"mem_query_indices"}
           R7 == R6 \cup {"mem_s_root", "mem_decommits", "mem_query_decommits"}
           R8 == R7 \cup {"mem_query_decommits", "mem_inner_root", "mem_last_layer_evals", "mem_q_root"}
           U1 == {}
           U2 == U1 \cup {}
           U3 == U2 \cup {}
           U4 == U3 \cup {"mem_z", "mem_alpha"}
           U5 == U4 \cup {}
           U6 == U5 \cup {"mem_queries"}
           U7 == U6 \cup {"mem_queries", "mem_z", "mem_alpha"}
           U8 == U7 \cup {"mem_alpha_0", "mem_alpha_1", "mem_queries"}
<1>1. Account(C1, A, D1, R1, U1)
  BY AccountSteps
<1>2. Account(C2, A, D2, R2, U2)
  <2> DEFINE Q == draw("mem_alpha")
  <2>1. Account(Q, A \cup D1, {"mem_alpha"}, {}, {})
    BY AccountSteps
  <2>2. C2 = C1 \o Q
    BY DEF C2
  <2> HIDE DEF Q, C2, C1, D1, R1, U1
  <2>3. Account(C1 \o Q, A, D1 \cup {"mem_alpha"}, R1 \cup {}, U1 \cup {})
    BY <1>1, <2>1, AccountsJoin
  <2> QED BY <2>2, <2>3
<1>3. Account(C3, A, D3, R3, U3)
  <2> DEFINE Q == mix("mem_s_root")
  <2>1. Account(Q, A \cup D2, {}, {}, {})
    BY AccountSteps
  <2>2. C3 = C2 \o Q
    BY DEF C3
  <2> HIDE DEF Q, C3, C2, D2, R2, U2
  <2>3. Account(C2 \o Q, A, D2 \cup {}, R2 \cup {}, U2 \cup {})
    BY <1>2, <2>1, AccountsJoin
  <2> QED BY <2>2, <2>3
<1>4. Account(C4, A, D4, R4, U4)
  <2> DEFINE Q == check({"mem_exec_sum", "mem_table"}, {"mem_z", "mem_alpha"})
  <2>1. Account(Q, A \cup D3, {}, {"mem_exec_sum", "mem_table"}, {"mem_z", "mem_alpha"})
    <3>1. {"mem_z", "mem_alpha"} \subseteq A \cup D3
      OBVIOUS
    <3> HIDE DEF D3
    <3> QED BY <3>1, AccountSteps
  <2>2. C4 = C3 \o Q
    BY DEF C4
  <2> HIDE DEF Q, C4, C3, D3, R3, U3
  <2>3. Account(C3 \o Q, A, D3 \cup {}, R3 \cup {"mem_exec_sum", "mem_table"}, U3
                \cup {"mem_z", "mem_alpha"})
    BY <1>3, <2>1, AccountsJoin
  <2> QED BY <2>2, <2>3
<1>5. Account(C5, A, D5, R5, U5)
  <2> DEFINE Q == mix("mem_q_root")
  <2>1. Account(Q, A \cup D4, {}, {}, {})
    BY AccountSteps
  <2>2. C5 = C4 \o Q
    BY DEF C5
  <2> HIDE DEF Q, C5, C4, D4, R4, U4
  <2>3. Account(C4 \o Q, A, D4 \cup {}, R4 \cup {}, U4 \cup {})
    BY <1>4, <2>1, AccountsJoin
  <2> QED BY <2>2, <2>3
<1>6. Account(C6, A, D6, R6, U6)
  <2> DEFINE Q == ReplayQueries(Mem)
  <2>1. Account(Q, A \cup D5, {"mem_alpha_0", "mem_alpha_1", "mem_queries"}, {"mem_query_indices"},
                {"mem_queries"})
    BY SubAccounts
  <2>2. C6 = C5 \o Q
    BY DEF C6
  <2> HIDE DEF Q, C6, C5, D5, R5, U5
  <2>3. Account(C5 \o Q, A, D5 \cup {"mem_alpha_0", "mem_alpha_1", "mem_queries"}, R5
                \cup {"mem_query_indices"}, U5 \cup {"mem_queries"})
    BY <1>5, <2>1, AccountsJoin
  <2> QED BY <2>2, <2>3
<1>7. Account(C7, A, D7, R7, U7)
  <2> DEFINE Q == check({"mem_s_root", "mem_decommits", "mem_query_decommits"},
                        {"mem_queries", "mem_z", "mem_alpha"})
  <2>1. Account(Q, A \cup D6, {}, {"mem_s_root", "mem_decommits", "mem_query_decommits"},
                {"mem_queries", "mem_z", "mem_alpha"})
    <3>1. {"mem_queries", "mem_z", "mem_alpha"} \subseteq A \cup D6
      OBVIOUS
    <3> HIDE DEF D6
    <3> QED BY <3>1, AccountSteps
  <2>2. C7 = C6 \o Q
    BY DEF C7
  <2> HIDE DEF Q, C7, C6, D6, R6, U6
  <2>3. Account(C6 \o Q, A, D6 \cup {}, R6 \cup {"mem_s_root", "mem_decommits", "mem_query_decommits"},
                U6 \cup {"mem_queries", "mem_z", "mem_alpha"})
    BY <1>6, <2>1, AccountsJoin
  <2> QED BY <2>2, <2>3
<1>8. Account(C8, A, D8, R8, U8)
  <2> DEFINE Q == check({"mem_query_decommits", "mem_inner_root", "mem_last_layer_evals",
                         "mem_q_root"}, {"mem_alpha_0", "mem_alpha_1", "mem_queries"})
  <2>1. Account(Q, A \cup D7, {}, {"mem_query_decommits", "mem_inner_root", "mem_last_layer_evals",
                                   "mem_q_root"}, {"mem_alpha_0", "mem_alpha_1", "mem_queries"})
    <3>1. {"mem_alpha_0", "mem_alpha_1", "mem_queries"} \subseteq A \cup D7
      OBVIOUS
    <3> HIDE DEF D7
    <3> QED BY <3>1, AccountSteps
  <2>2. C8 = C7 \o Q
    BY DEF C8
  <2> HIDE DEF Q, C8, C7, D7, R7, U7
  <2>3. Account(C7 \o Q, A, D7 \cup {}, R7 \cup {"mem_query_decommits", "mem_inner_root",
                                                 "mem_last_layer_evals", "mem_q_root"}, U7
                                                 \cup {"mem_alpha_0", "mem_alpha_1", "mem_queries"})
    BY <1>7, <2>1, AccountsJoin
  <2> QED BY <2>2, <2>3
<1>9. verify_memory_logup = C8
  BY DEF verify_memory_logup
<1>10. D8 = {"mem_z", "mem_alpha", "mem_alpha_0", "mem_alpha_1", "mem_queries"}
         /\ R8 = {"mem_exec_sum", "mem_table", "mem_query_indices", "mem_s_root", "mem_decommits",
                  "mem_query_decommits", "mem_inner_root", "mem_last_layer_evals", "mem_q_root"}
                    /\ U8 = {"mem_z", "mem_alpha", "mem_alpha_0", "mem_alpha_1", "mem_queries"}
  OBVIOUS
<1> HIDE DEF C8, D8, R8, U8
<1> QED BY <1>8, <1>9, <1>10

LEMMA RcAccount ==
  ASSUME NEW A
  PROVE  Account(verify_range_check, A,
                 {"rc_z", "rc_alpha_0", "rc_alpha_1", "rc_queries"},
                 {"rc_exec_sum", "rc_mults", "rc_query_indices", "rc_s_root", "rc_decommits",
                  "rc_query_decommits", "col_roots", "rc_inner_root", "rc_last_layer_evals",
                  "rc_q_root"},
                 {"rc_z", "rc_alpha_0", "rc_alpha_1", "rc_queries"})
<1> DEFINE C1 == draw("rc_z")
           C2 == C1 \o mix("rc_s_root")
           C3 == C2 \o check({"rc_exec_sum", "rc_mults"}, {"rc_z"})
           C4 == C3 \o mix("rc_q_root")
           C5 == C4 \o ReplayQueries(Rc)
           C6 == C5 \o check({"rc_s_root", "rc_decommits", "rc_query_decommits", "col_roots"},
                             {"rc_queries", "rc_z"})
           C7 == C6 \o check({"rc_query_decommits", "rc_inner_root", "rc_last_layer_evals",
                              "rc_q_root"}, {"rc_alpha_0", "rc_alpha_1", "rc_queries"})
           D1 == {"rc_z"}
           D2 == D1 \cup {}
           D3 == D2 \cup {}
           D4 == D3 \cup {}
           D5 == D4 \cup {"rc_alpha_0", "rc_alpha_1", "rc_queries"}
           D6 == D5 \cup {}
           D7 == D6 \cup {}
           R1 == {}
           R2 == R1 \cup {}
           R3 == R2 \cup {"rc_exec_sum", "rc_mults"}
           R4 == R3 \cup {}
           R5 == R4 \cup {"rc_query_indices"}
           R6 == R5 \cup {"rc_s_root", "rc_decommits", "rc_query_decommits", "col_roots"}
           R7 == R6 \cup {"rc_query_decommits", "rc_inner_root", "rc_last_layer_evals", "rc_q_root"}
           U1 == {}
           U2 == U1 \cup {}
           U3 == U2 \cup {"rc_z"}
           U4 == U3 \cup {}
           U5 == U4 \cup {"rc_queries"}
           U6 == U5 \cup {"rc_queries", "rc_z"}
           U7 == U6 \cup {"rc_alpha_0", "rc_alpha_1", "rc_queries"}
<1>1. Account(C1, A, D1, R1, U1)
  BY AccountSteps
<1>2. Account(C2, A, D2, R2, U2)
  <2> DEFINE Q == mix("rc_s_root")
  <2>1. Account(Q, A \cup D1, {}, {}, {})
    BY AccountSteps
  <2>2. C2 = C1 \o Q
    BY DEF C2
  <2> HIDE DEF Q, C2, C1, D1, R1, U1
  <2>3. Account(C1 \o Q, A, D1 \cup {}, R1 \cup {}, U1 \cup {})
    BY <1>1, <2>1, AccountsJoin
  <2> QED BY <2>2, <2>3
<1>3. Account(C3, A, D3, R3, U3)
  <2> DEFINE Q == check({"rc_exec_sum", "rc_mults"}, {"rc_z"})
  <2>1. Account(Q, A \cup D2, {}, {"rc_exec_sum", "rc_mults"}, {"rc_z"})
    <3>1. {"rc_z"} \subseteq A \cup D2
      OBVIOUS
    <3> HIDE DEF D2
    <3> QED BY <3>1, AccountSteps
  <2>2. C3 = C2 \o Q
    BY DEF C3
  <2> HIDE DEF Q, C3, C2, D2, R2, U2
  <2>3. Account(C2 \o Q, A, D2 \cup {}, R2 \cup {"rc_exec_sum", "rc_mults"}, U2 \cup {"rc_z"})
    BY <1>2, <2>1, AccountsJoin
  <2> QED BY <2>2, <2>3
<1>4. Account(C4, A, D4, R4, U4)
  <2> DEFINE Q == mix("rc_q_root")
  <2>1. Account(Q, A \cup D3, {}, {}, {})
    BY AccountSteps
  <2>2. C4 = C3 \o Q
    BY DEF C4
  <2> HIDE DEF Q, C4, C3, D3, R3, U3
  <2>3. Account(C3 \o Q, A, D3 \cup {}, R3 \cup {}, U3 \cup {})
    BY <1>3, <2>1, AccountsJoin
  <2> QED BY <2>2, <2>3
<1>5. Account(C5, A, D5, R5, U5)
  <2> DEFINE Q == ReplayQueries(Rc)
  <2>1. Account(Q, A \cup D4, {"rc_alpha_0", "rc_alpha_1", "rc_queries"}, {"rc_query_indices"},
                {"rc_queries"})
    BY SubAccounts
  <2>2. C5 = C4 \o Q
    BY DEF C5
  <2> HIDE DEF Q, C5, C4, D4, R4, U4
  <2>3. Account(C4 \o Q, A, D4 \cup {"rc_alpha_0", "rc_alpha_1", "rc_queries"}, R4
                \cup {"rc_query_indices"}, U4 \cup {"rc_queries"})
    BY <1>4, <2>1, AccountsJoin
  <2> QED BY <2>2, <2>3
<1>6. Account(C6, A, D6, R6, U6)
  <2> DEFINE Q == check({"rc_s_root", "rc_decommits", "rc_query_decommits", "col_roots"},
                        {"rc_queries", "rc_z"})
  <2>1. Account(Q, A \cup D5, {}, {"rc_s_root", "rc_decommits", "rc_query_decommits", "col_roots"},
                {"rc_queries", "rc_z"})
    <3>1. {"rc_queries", "rc_z"} \subseteq A \cup D5
      OBVIOUS
    <3> HIDE DEF D5
    <3> QED BY <3>1, AccountSteps
  <2>2. C6 = C5 \o Q
    BY DEF C6
  <2> HIDE DEF Q, C6, C5, D5, R5, U5
  <2>3. Account(C5 \o Q, A, D5 \cup {}, R5 \cup {"rc_s_root", "rc_decommits", "rc_query_decommits",
                                                 "col_roots"}, U5 \cup {"rc_queries", "rc_z"})
    BY <1>5, <2>1, AccountsJoin
  <2> QED BY <2>2, <2>3
<1>7. Account(C7, A, D7, R7, U7)
  <2> DEFINE Q == check({"rc_query_decommits", "rc_inner_root", "rc_last_layer_evals", "rc_q_root"},
                        {"rc_alpha_0", "rc_alpha_1", "rc_queries"})
  <2>1. Account(Q, A \cup D6, {}, {"rc_query_decommits", "rc_inner_root", "rc_last_layer_evals",
                                   "rc_q_root"}, {"rc_alpha_0", "rc_alpha_1", "rc_queries"})
    <3>1. {"rc_alpha_0", "rc_alpha_1", "rc_queries"} \subseteq A \cup D6
      OBVIOUS
    <3> HIDE DEF D6
    <3> QED BY <3>1, AccountSteps
  <2>2. C7 = C6 \o Q
    BY DEF C7
  <2> HIDE DEF Q, C7, C6, D6, R6, U6
  <2>3. Account(C6 \o Q, A, D6 \cup {}, R6 \cup {"rc_query_decommits", "rc_inner_root",
                                                 "rc_last_layer_evals", "rc_q_root"}, U6
                                                 \cup {"rc_alpha_0", "rc_alpha_1", "rc_queries"})
    BY <1>6, <2>1, AccountsJoin
  <2> QED BY <2>2, <2>3
<1>8. verify_range_check = C7
  BY DEF verify_range_check
<1>9. D7 = {"rc_z", "rc_alpha_0", "rc_alpha_1", "rc_queries"}
        /\ R7 = {"rc_exec_sum", "rc_mults", "rc_query_indices", "rc_s_root", "rc_decommits",
                 "rc_query_decommits", "col_roots", "rc_inner_root", "rc_last_layer_evals",
                 "rc_q_root"} /\ U7 = {"rc_z", "rc_alpha_0", "rc_alpha_1", "rc_queries"}
  OBVIOUS
<1> HIDE DEF C7, D7, R7, U7
<1> QED BY <1>7, <1>8, <1>9

LEMMA Cairo252Account ==
  ASSUME NEW A
  PROVE  Account(verify_cairo, A,
                 {"alphas", "alpha_0", "alpha_1", "queries"}
                 \cup {"mem_z", "mem_alpha", "mem_alpha_0", "mem_alpha_1", "mem_queries"}
                 \cup {"rc_z", "rc_alpha_0", "rc_alpha_1", "rc_queries"},
                 {"public_inputs", "query_indices", "col_roots", "trace_decommits",
                  "n_trace_decommits", "query_decommits",
                  "inner_root", "last_layer_evals", "quotient_root"}
                  \cup {"mem_exec_sum", "mem_table", "mem_query_indices", "mem_s_root",
                        "mem_decommits", "mem_query_decommits", "mem_inner_root",
                        "mem_last_layer_evals", "mem_q_root"}
                        \cup {"rc_exec_sum", "rc_mults", "rc_query_indices", "rc_s_root",
                              "rc_decommits", "rc_query_decommits", "col_roots", "rc_inner_root",
                              "rc_last_layer_evals", "rc_q_root"},
                 {"alphas", "alpha_0", "alpha_1", "queries"}
                 \cup {"mem_z", "mem_alpha", "mem_alpha_0", "mem_alpha_1", "mem_queries"}
                 \cup {"rc_z", "rc_alpha_0", "rc_alpha_1", "rc_queries"})
<1> DEFINE C1 == verify_multi
           C2 == C1 \o replay_exec_channel
           C3 == C2 \o verify_memory_logup
           C4 == C3 \o verify_range_check
           D1 == {"alphas", "alpha_0", "alpha_1", "queries"}
           D2 == D1 \cup {"alphas", "alpha_0", "alpha_1", "queries"}
           D3 == D2 \cup {"mem_z", "mem_alpha", "mem_alpha_0", "mem_alpha_1", "mem_queries"}
           D4 == D3 \cup {"rc_z", "rc_alpha_0", "rc_alpha_1", "rc_queries"}
           R1 == {"public_inputs", "query_indices", "col_roots", "trace_decommits",
                  "n_trace_decommits", "query_decommits",
                  "inner_root", "last_layer_evals", "quotient_root"}
           R2 == R1 \cup {}
           R3 == R2 \cup {"mem_exec_sum", "mem_table", "mem_query_indices", "mem_s_root",
                          "mem_decommits", "mem_query_decommits", "mem_inner_root",
                          "mem_last_layer_evals", "mem_q_root"}
           R4 == R3 \cup {"rc_exec_sum", "rc_mults", "rc_query_indices", "rc_s_root", "rc_decommits",
                          "rc_query_decommits", "col_roots", "rc_inner_root", "rc_last_layer_evals",
                          "rc_q_root"}
           U1 == {"alphas", "alpha_0", "alpha_1", "queries"}
           U2 == U1 \cup {}
           U3 == U2 \cup {"mem_z", "mem_alpha", "mem_alpha_0", "mem_alpha_1", "mem_queries"}
           U4 == U3 \cup {"rc_z", "rc_alpha_0", "rc_alpha_1", "rc_queries"}
<1>1. Account(C1, A, D1, R1, U1)
  BY MultiAccount
<1>2. Account(C2, A, D2, R2, U2)
  <2> DEFINE Q == replay_exec_channel
  <2>1. Account(Q, A \cup D1, {"alphas", "alpha_0", "alpha_1", "queries"}, {}, {})
    BY ExecReplayAccount
  <2>2. C2 = C1 \o Q
    BY DEF C2
  <2> HIDE DEF Q, C2, C1, D1, R1, U1
  <2>3. Account(C1 \o Q, A, D1 \cup {"alphas", "alpha_0", "alpha_1", "queries"}, R1 \cup {}, U1 \cup {})
    BY <1>1, <2>1, AccountsJoin
  <2> QED BY <2>2, <2>3
<1>3. Account(C3, A, D3, R3, U3)
  <2> DEFINE Q == verify_memory_logup
  <2>1. Account(Q, A \cup D2, {"mem_z", "mem_alpha", "mem_alpha_0", "mem_alpha_1", "mem_queries"},
                {"mem_exec_sum", "mem_table", "mem_query_indices", "mem_s_root", "mem_decommits",
                 "mem_query_decommits", "mem_inner_root", "mem_last_layer_evals", "mem_q_root"},
                 {"mem_z", "mem_alpha", "mem_alpha_0", "mem_alpha_1", "mem_queries"})
    BY MemAccount
  <2>2. C3 = C2 \o Q
    BY DEF C3
  <2> HIDE DEF Q, C3, C2, D2, R2, U2
  <2>3. Account(C2 \o Q, A, D2 \cup {"mem_z", "mem_alpha", "mem_alpha_0", "mem_alpha_1",
                                     "mem_queries"}, R2
                                     \cup {"mem_exec_sum", "mem_table", "mem_query_indices",
                                           "mem_s_root", "mem_decommits", "mem_query_decommits",
                                           "mem_inner_root", "mem_last_layer_evals", "mem_q_root"}, U2
                                           \cup {"mem_z", "mem_alpha", "mem_alpha_0", "mem_alpha_1",
                                                 "mem_queries"})
    BY <1>2, <2>1, AccountsJoin
  <2> QED BY <2>2, <2>3
<1>4. Account(C4, A, D4, R4, U4)
  <2> DEFINE Q == verify_range_check
  <2>1. Account(Q, A \cup D3, {"rc_z", "rc_alpha_0", "rc_alpha_1", "rc_queries"},
                {"rc_exec_sum", "rc_mults", "rc_query_indices", "rc_s_root", "rc_decommits",
                 "rc_query_decommits", "col_roots", "rc_inner_root", "rc_last_layer_evals",
                 "rc_q_root"}, {"rc_z", "rc_alpha_0", "rc_alpha_1", "rc_queries"})
    BY RcAccount
  <2>2. C4 = C3 \o Q
    BY DEF C4
  <2> HIDE DEF Q, C4, C3, D3, R3, U3
  <2>3. Account(C3 \o Q, A, D3 \cup {"rc_z", "rc_alpha_0", "rc_alpha_1", "rc_queries"}, R3
                \cup {"rc_exec_sum", "rc_mults", "rc_query_indices", "rc_s_root", "rc_decommits",
                      "rc_query_decommits", "col_roots", "rc_inner_root", "rc_last_layer_evals",
                      "rc_q_root"}, U3 \cup {"rc_z", "rc_alpha_0", "rc_alpha_1", "rc_queries"})
    BY <1>3, <2>1, AccountsJoin
  <2> QED BY <2>2, <2>3
<1>5. verify_cairo = C4
  BY DEF verify_cairo
<1>6. D4 = {"alphas", "alpha_0", "alpha_1", "queries"}
      \cup {"mem_z", "mem_alpha", "mem_alpha_0", "mem_alpha_1", "mem_queries"}
      \cup {"rc_z", "rc_alpha_0", "rc_alpha_1", "rc_queries"}
        /\ R4 = {"public_inputs", "query_indices", "col_roots", "trace_decommits",
                 "n_trace_decommits", "query_decommits",
                 "inner_root", "last_layer_evals", "quotient_root"}
                 \cup {"mem_exec_sum", "mem_table", "mem_query_indices", "mem_s_root", "mem_decommits",
                       "mem_query_decommits", "mem_inner_root", "mem_last_layer_evals", "mem_q_root"}
                       \cup {"rc_exec_sum", "rc_mults", "rc_query_indices", "rc_s_root",
                             "rc_decommits", "rc_query_decommits", "col_roots", "rc_inner_root",
                             "rc_last_layer_evals", "rc_q_root"}
                               /\ U4 = {"alphas", "alpha_0", "alpha_1", "queries"}
                                  \cup {"mem_z", "mem_alpha", "mem_alpha_0", "mem_alpha_1",
                                        "mem_queries"}
                                        \cup {"rc_z", "rc_alpha_0", "rc_alpha_1", "rc_queries"}
  OBVIOUS
<1> HIDE DEF C4, D4, R4, U4
<1> QED BY <1>4, <1>5, <1>6

-----------------------------------------------------------------------------
\* The STARKs whose verifier does not depend on what a proof has lost.
LEMMA PairedByOne ==
  ASSUME NEW s \in Shapes, NEW L, Orderly(L, s), Tells(ProverScript(s), States(L)),
         NEW V, \A f \in Faults(s) : VerifierScript(Received(s, f)) = V,
         Listens(V), Agrees(V, ProverScript(s), States(L)),
         \A g \in Makes(ProverScript(s)) \ Unbound(s) : Finds(V, g, States(L))
  PROVE  Paired(s, L)
<1>1. ASSUME NEW f \in Faults(s), f # Nothing PROVE f.field \in Makes(ProverScript(s))
  BY <1>1, ReceivedShape DEF Tells
<1>2. ASSUME NEW f \in Faults(s)
      PROVE  /\ Listens(VerifierScript(Received(s, f)))
             /\ f = Nothing => Agrees(VerifierScript(Received(s, f)), ProverScript(s), States(L))
             /\ f # Nothing /\ f.field \notin Unbound(s)
                  => Finds(VerifierScript(Received(s, f)), f.field, States(L))
  BY <1>1
<1> QED BY <1>2 DEF Paired

\* A prover that is its own account of what it draws.
LEMMA OwnAccount ==
  ASSUME NEW s, NEW L, Orderly(L, s), Draws(L) # {}
  PROVE  Tells(L, States(L))
BY StatesLaws DEF Tells, Orderly

FibReplay ==
  mix("public_a") \o mix("public_b") \o mix("trace_root") \o mix("quotient_root")
    \o mix("q_a") \o mix("q_b")

LEMMA FibPaired ==
  ASSUME NEW s \in Shapes, s.protocol = "fib252"
  PROVE  Paired(s, fib_prove)
<1> DEFINE P == fib_prove
           V == fib_verify
           D == States(P)
           A == FibReplay
           c == "queries"
           C1 == check({"query_indices"}, {c})
           C2 == check({"trace_root", "trace_decommits", "quotient_root", "quotient_decommits",
                        "q_a", "q_b", "n_trace_decommits", "n_quotient_decommits"}, {c})
<1>1. /\ Draws(P) = {"queries"}
      /\ Makes(P) = {"public_a", "public_b", "trace_root", "quotient_root", "q_a", "q_b"}
                      \cup {"query_indices"} \cup {"trace_decommits", "quotient_decommits",
                                                   "n_trace_decommits", "n_quotient_decommits"}
  BY FibSection DEF Section
<1>2. Orderly(P, s)
  <2>1. Absorbs(P) = {"public_a", "public_b", "trace_root", "quotient_root", "q_a", "q_b"}
    BY FibSection DEF Section
  <2> QED BY <2>1, FibSection DEF Section, Orderly
<1>3. ProverScript(s) = P /\ \A f : VerifierScript(Received(s, f)) = V
  BY DEF ProverScript, VerifierScript, Received
<1>4. IsScript(A) /\ ~ Restarts(A)
  BY ScriptTable, RestartTable DEF FibReplay
<1>5. "public_a" \in Absorbs(A) /\ "public_b" \in Absorbs(A)
  BY ScriptTable, AbsorbsTable DEF FibReplay
<1>6. V = A \o draw(c) \o C1 \o C2
  BY DEF fib_verify, FibReplay
<1>7. IsScript(C1) /\ Draws(C1) = {} /\ Uses(C1) = {c} /\ IsScript(C2)
  BY CheckLaws
<1>8. Account(V, {}, {c},
              {"query_indices", "trace_root", "trace_decommits", "quotient_root",
               "quotient_decommits", "q_a", "q_b", "n_trace_decommits", "n_quotient_decommits"},
                   {c})
  BY FibAccount
<1> HIDE DEF A, C1, C2
<1>9. Alike(P, V)
  <2>1. Alike(FibOpening, A)
    BY AlikeTable DEF FibOpening, FibReplay, A
  <2>2. Alike(DrawQueries(Exec), draw(c))
    BY SubProofs, AlikeTable DEF DrawQueries
  <2>3. P = FibOpening \o DrawQueries(Exec) \o make({"trace_decommits", "quotient_decommits",
                                                     "n_trace_decommits", "n_quotient_decommits"},
                                                    {"queries"})
    BY DEF fib_prove, FibOpening
  <2>4. Silent(C1) /\ Silent(C2) /\ Silent(make({"trace_decommits", "quotient_decommits",
                                                 "n_trace_decommits", "n_quotient_decommits"},
                                                {"queries"}))
    BY SilentTable DEF C1, C2
  <2>5. Alike(FibOpening \o DrawQueries(Exec), A \o draw(c))
    BY <2>1, <2>2, AlikeJoin
  <2>6. Alike(P, A \o draw(c))
    BY <2>3, <2>4, <2>5, SilentJoin
  <2>7. Alike(P, A \o draw(c) \o C1)
    BY <2>4, <2>6, SilentJoin
  <2> QED BY <1>6, <2>4, <2>7, SilentJoin
<1>10. ASSUME NEW g \in {"public_a", "public_b"} PROVE Refutes(V, new, g, D)
  <2>1. IsChannel(new)
    BY AbsorbedLaws
  <2>2. \A ch : <<c, ch>> \in D => "damaged" \notin Absorbed(ch)
    BY <1>2, StatesLaws
  <2> HIDE DEF D
  <2>3. g \in Absorbs(A)
    BY <1>5
  <2>4. Strays(A \o draw(c), new, g, D, c) /\ IsScript(A \o draw(c))
    BY <1>4, <2>1, <2>2, <2>3, TaintShows, ScriptTable
  <2>5. Refutes(A \o draw(c) \o C1, new, g, D) /\ IsScript(A \o draw(c) \o C1)
    BY <1>7, <2>1, <2>4, StraysUse, ScriptTable
  <2> QED BY <1>6, <1>7, <2>1, <2>5, StraysJoin
<1> HIDE DEF V, P
<1>11. Tells(P, D)
  BY <1>1, <1>2, OwnAccount
<1>12. Agrees(V, P, D)
  BY <1>1, <1>8, <1>9, <1>11, AlikeSays DEF Agrees, Tells, Account
<1>13. Listens(V)
  BY <1>8 DEF Listens, Account
<1>14. \A g \in Makes(P) : Finds(V, g, D)
  BY <1>1, <1>8, <1>10 DEF Finds, Account
<1>15. Paired(s, P)
  BY <1>2, <1>3, <1>11, <1>12, <1>13, <1>14, PairedByOne
<1> QED BY <1>15 DEF P

LEMMA SubAlike ==
  ASSUME NEW p, NEW root
  PROVE  /\ Alike(fri_commit(p), ReplayFriCommit(p))
         /\ Alike(DrawQueries(p), draw(p.queries))
         /\ Alike(fri_commit(p) \o DrawQueries(p), ReplayQueries(p))
         /\ Alike(fri_commit(p), fri_verify(p, root))
<1>1. Alike(fri_commit(p), ReplayFriCommit(p))
  BY AlikeTable DEF fri_commit, ReplayFriCommit
<1>2. Alike(DrawQueries(p), draw(p.queries))
  BY AlikeTable DEF DrawQueries
<1>3. Alike(fri_commit(p) \o DrawQueries(p), ReplayFriCommit(p) \o draw(p.queries))
  BY <1>1, <1>2, AlikeJoin
<1>4. /\ Silent(check({p.query_indices}, {p.queries}))
      /\ Silent(check({p.query_decommits, p.inner_root, p.last_layer_evals, root},
                      {p.alpha_0, p.alpha_1, p.queries}))
  BY SilentTable
<1>5. Alike(fri_commit(p) \o DrawQueries(p), ReplayQueries(p))
  BY <1>3, <1>4, SilentJoin DEF ReplayQueries
<1>6. Alike(fri_commit(p), fri_verify(p, root))
  BY <1>1, <1>4, SilentJoin DEF fri_verify
<1> QED BY <1>1, <1>2, <1>5, <1>6

\* A verifier that starts again and replays a part of the prover's script.
LEMMA SaysAgain ==
  ASSUME NEW V, IsScript(V), NEW R, Says(V, new, "none", R),
         NEW P, NEW A, Alike(P, A), NEW Q, NEW B, Alike(Q, B), Says(P \o Q, new, "none", R)
  PROVE  Says(V \o restart \o A \o B, new, "none", R)
<1> DEFINE a == After(V, new, "none")
           b == After(A, new, "none")
<1>1. IsChannel(new) /\ IsChannel(a)
  BY AbsorbedLaws, EffectsJoin
<1>2. /\ IsScript(restart) /\ After(restart, a, "none") = new /\ Says(restart, a, "none", R)
  BY <1>1, RestartLaws
<1>3. IsScript(P) /\ IsScript(Q) /\ IsScript(A) /\ IsScript(B)
  BY DEF Alike
<1>4. Says(P, new, "none", R) /\ Says(Q, After(P, new, "none"), "none", R)
  BY <1>1, <1>3, EffectsJoin
<1>5. Says(A, new, "none", R) /\ b = After(P, new, "none") /\ IsChannel(b)
  BY <1>1, <1>3, <1>4, EffectsJoin DEF Alike
<1>6. Says(B, b, "none", R)
  BY <1>4, <1>5 DEF Alike
<1> HIDE DEF a, b
<1>7. Says(V \o restart, new, "none", R) /\ After(V \o restart, new, "none") = new
  BY <1>1, <1>2, EffectsJoin DEF a
<1>8. IsScript(V \o restart) /\ IsScript(V \o restart \o A)
  BY <1>2, <1>3, ScriptTable
<1>9. Says(V \o restart \o A, new, "none", R) /\ After(V \o restart \o A, new, "none") = b
  BY <1>1, <1>3, <1>5, <1>7, <1>8, EffectsJoin DEF b
<1> QED BY <1>1, <1>3, <1>6, <1>8, <1>9, EffectsJoin

\* What a script says its beginning says.
LEMMA SaysPart ==
  ASSUME NEW P, NEW Q, IsScript(P), IsScript(Q), NEW R, Says(P \o Q, new, "none", R)
  PROVE  Says(P, new, "none", R)
BY AbsorbedLaws, EffectsJoin

LEMMA AirPaired ==
  ASSUME NEW s \in Shapes, s.protocol = "air252"
  PROVE  Paired(s, air_prove)
<1> DEFINE P == air_prove
           V == verify_with_air
           D == States(P)
           F == fri_commit(Exec)
           Q == DrawQueries(Exec)
           M == make({"trace_decommits", "n_trace_decommits"}, {"queries"})
           B == fri_build_proof(Exec)
           C1 == check({"public_inputs"}, {})
           C2 == check({"trace_root", "trace_decommits", "query_decommits"}, {"queries"})
           V1 == C1 \o AirReplay \o ReplayQueries(Exec) \o C2
<1>1. /\ Draws(P) = {"alpha_0", "alpha_1"} \cup {"queries"}
      /\ Makes(P) = {"public_inputs", "trace_root", "quotient_root"}
         \cup {"inner_root", "last_layer_evals"}
                      \cup {"query_indices"} \cup {"trace_decommits", "n_trace_decommits"}
                          \cup {"query_decommits"}
  BY AirSection DEF Section
<1>2. Orderly(P, s)
  <2>1. Absorbs(P) = {"public_inputs", "trace_root", "quotient_root"}
        \cup {"inner_root", "last_layer_evals"}
    BY AirSection DEF Section
  <2> QED BY <2>1, AirSection DEF Section, Orderly
<1>3. /\ ProverScript(s) = P /\ \A f : VerifierScript(Received(s, f)) = V
      /\ Unbound(s) = {"n_trace_decommits"}
  BY DEF ProverScript, VerifierScript, Received, Unbound, Unread, Overlooked
<1>4. Account(V, {}, {"alpha_0", "alpha_1", "queries"},
              {"public_inputs", "query_indices", "trace_root", "trace_decommits", "query_decommits",
               "inner_root", "last_layer_evals", "quotient_root"},
              {"alpha_0", "alpha_1", "queries"})
  BY AirAccount
<1>5. Tells(P, D)
  BY <1>1, <1>2, OwnAccount
<1>6. Says(V, new, "none", D)
  <2>1. P = AirOpening \o F \o Q \o M \o B /\ V = V1 \o restart \o AirReplay
        \o fri_verify(Exec, "quotient_root")
    BY DEF air_prove, AirOpening, verify_with_air, AirReplay
  <2>2. Says(P, new, "none", D)
    BY <1>5 DEF Tells
  <2>3. Alike(AirOpening, AirReplay)
    BY AlikeTable DEF AirOpening, AirReplay
  <2>4. Alike(F \o Q, ReplayQueries(Exec)) /\ Alike(F, fri_verify(Exec, "quotient_root"))
          /\ Alike(Q, draw(Exec.queries))
    BY SubAlike
  <2>5. Silent(M) /\ Silent(B) /\ Silent(C1) /\ Silent(C2)
    BY SilentTable DEF fri_build_proof
  <2>6. IsScript(AirOpening) /\ IsScript(F) /\ IsScript(Q) /\ IsScript(M) /\ IsScript(B)
    BY <2>3, <2>4, <2>5 DEF Alike, Silent
  <2> HIDE DEF P, V, D, F, Q, M, B, C1, C2, V1
  <2>7. Alike(AirOpening, C1 \o AirReplay)
    BY <2>3, <2>5, SilentJoin
  <2>8. Alike(AirOpening \o F \o Q, C1 \o AirReplay \o ReplayQueries(Exec))
    BY <2>4, <2>6, <2>7, AlikeTwo
  <2>9. Alike(AirOpening \o F \o Q \o M \o B, C1 \o AirReplay \o ReplayQueries(Exec))
    BY <2>5, <2>8, SilentJoin
  <2>10. Alike(P, V1)
    BY <2>1, <2>5, <2>9, SilentJoin DEF V1
  <2>11. Says(V1, new, "none", D) /\ IsScript(V1)
    BY <2>2, <2>10, AlikeSays DEF Alike
  <2>12. Says(AirOpening \o F, new, "none", D)
    <3>1. IsScript(AirOpening \o F) /\ IsScript(AirOpening \o F \o Q)
            /\ IsScript(AirOpening \o F \o Q \o M)
      BY <2>6, ScriptTable
    <3>2. Says(AirOpening \o F \o Q \o M, new, "none", D)
      BY <2>1, <2>2, <2>6, <3>1, SaysPart
    <3>3. Says(AirOpening \o F \o Q, new, "none", D)
      BY <2>6, <3>1, <3>2, SaysPart
    <3> QED BY <2>6, <3>1, <3>3, SaysPart
  <2>13. Says(V1 \o restart \o AirReplay \o fri_verify(Exec, "quotient_root"), new, "none", D)
    BY <2>3, <2>4, <2>11, <2>12, SaysAgain
  <2> QED BY <2>1, <2>13
<1> HIDE DEF V, P
<1>7. Agrees(V, P, D)
  BY <1>1, <1>4, <1>6 DEF Agrees, Account
<1>8. Listens(V)
  BY <1>4 DEF Listens, Account
<1>9. \A g \in Makes(P) \ {"n_trace_decommits"} : Finds(V, g, D)
  BY <1>1, <1>4 DEF Finds, Account
<1>10. Paired(s, P)
  BY <1>2, <1>3, <1>5, <1>7, <1>8, <1>9, PairedByOne
<1> QED BY <1>10 DEF P

\* The multi-column prover as its verifier and as the channel of a Cairo proof
\* replay it.
LEMMA MultiReplayed ==
  ASSUME NEW R, Says(prove_multi, new, "none", R)
  PROVE  /\ IsScript(prove_multi) /\ IsScript(replay_exec_channel)
         /\ Says(verify_multi, new, "none", R)
         /\ \A a : IsChannel(a) =>
              /\ Says(replay_exec_channel, a, "none", R)
              /\ After(replay_exec_channel, a, "none") = After(prove_multi, new, "none")
<1> DEFINE P == prove_multi
           V == verify_multi
           O == MultiUpToQuotient
           F == fri_commit(Exec)
           Q == DrawQueries(Exec)
           M == make({"trace_decommits", "n_trace_decommits"}, {"queries"})
           B == fri_build_proof(Exec)
           C1 == check({"public_inputs"}, {})
           C2 == check({"col_roots", "trace_decommits", "n_trace_decommits", "query_decommits"},
                       {"queries", "alphas"})
           V1 == C1 \o O \o ReplayQueries(Exec) \o C2
           G == ReplayFriCommit(Exec)
           E == draw("queries")
           W == O \o G \o E
<1>1. /\ P = MultiOpening \o F \o Q \o M \o B
      /\ V = V1 \o restart \o O \o fri_verify(Exec, "quotient_root")
      /\ replay_exec_channel = restart \o O \o G \o E
  BY DEF prove_multi, MultiOpening, verify_multi, replay_exec_channel
<1>2. Alike(MultiOpening, O)
  BY AlikeTable DEF MultiOpening, MultiUpToQuotient
<1>3. /\ Alike(F \o Q, ReplayQueries(Exec)) /\ Alike(F, fri_verify(Exec, "quotient_root"))
      /\ Alike(F, G) /\ Alike(Q, E)
  BY SubAlike, SubProofs
<1>4. Silent(M) /\ Silent(B) /\ Silent(C1) /\ Silent(C2)
  BY SilentTable DEF fri_build_proof
<1>5. /\ IsScript(MultiOpening) /\ IsScript(F) /\ IsScript(Q) /\ IsScript(M) /\ IsScript(B)
      /\ IsScript(O) /\ IsScript(G) /\ IsScript(E) /\ IsScript(restart)
  BY <1>2, <1>3, <1>4, ScriptTable DEF Alike, Silent
<1>6. Says(P, new, "none", R)
  OBVIOUS
<1> HIDE DEF P, V, O, F, Q, M, B, C1, C2, V1, G, E, W
<1>7. Alike(MultiOpening, C1 \o O)
  BY <1>2, <1>4, SilentJoin
<1>8. Alike(MultiOpening \o F \o Q, C1 \o O \o ReplayQueries(Exec))
  BY <1>3, <1>5, <1>7, AlikeTwo
<1>9. Alike(MultiOpening \o F \o Q \o M \o B, C1 \o O \o ReplayQueries(Exec))
  BY <1>4, <1>8, SilentJoin
<1>10. Alike(P, V1)
  BY <1>1, <1>4, <1>9, SilentJoin DEF V1
<1>11. Says(V1, new, "none", R) /\ IsScript(V1)
  BY <1>6, <1>10, AlikeSays DEF Alike
<1>12. Says(MultiOpening \o F, new, "none", R)
  <2>1. /\ IsScript(MultiOpening \o F) /\ IsScript(MultiOpening \o F \o Q)
        /\ IsScript(MultiOpening \o F \o Q \o M)
    BY <1>5, ScriptTable
  <2>2. Says(MultiOpening \o F \o Q \o M, new, "none", R)
    BY <1>1, <1>5, <1>6, <2>1, SaysPart
  <2>3. Says(MultiOpening \o F \o Q, new, "none", R)
    BY <1>5, <2>1, <2>2, SaysPart
  <2> QED BY <1>5, <2>1, <2>3, SaysPart
<1>13. Says(V, new, "none", R)
  BY <1>1, <1>2, <1>3, <1>11, <1>12, SaysAgain
<1>14. Alike(P, W)
  <2>1. Alike(MultiOpening \o F, O \o G)
    BY <1>2, <1>3, AlikeJoin
  <2>2. Alike(MultiOpening \o F \o Q, O \o G \o E)
    BY <1>3, <2>1, AlikeJoin
  <2>3. Alike(MultiOpening \o F \o Q \o M \o B, O \o G \o E)
    BY <1>4, <2>2, SilentJoin
  <2> QED BY <1>1, <2>3 DEF W
<1>15. replay_exec_channel = restart \o W /\ IsScript(W)
  <2> DEFINE T == O \o G
  <2>1. IsScript(restart) /\ IsScript(O) /\ IsScript(G)
    BY <1>5
  <2>2. (restart \o O) \o G = restart \o T
    BY <2>1, Regroup
  <2>3. IsScript(restart) /\ IsScript(T) /\ IsScript(E)
    BY <1>5, Joins
  <2> HIDE DEF T
  <2>4. (restart \o T) \o E = restart \o (T \o E)
    BY <2>3, Regroup
  <2>5. IsScript(T \o E)
    BY <2>3, Joins
  <2>6. W = T \o E
    BY DEF W, T
  <2> QED BY <1>1, <2>2, <2>4, <2>5, <2>6
<1>16. Says(W, new, "none", R) /\ After(W, new, "none") = After(P, new, "none")
  BY <1>6, <1>14, AlikeSays, AbsorbedLaws DEF Alike
<1>17. ASSUME NEW a, IsChannel(a)
       PROVE  /\ Says(replay_exec_channel, a, "none", R)
              /\ After(replay_exec_channel, a, "none") = After(P, new, "none")
  <2>1. After(restart, a, "none") = new /\ Says(restart, a, "none", R)
    BY <1>17, RestartLaws
  <2>2. /\ After(restart \o W, a, "none") = After(W, new, "none")
        /\ Says(restart \o W, a, "none", R)
    BY <1>5, <1>15, <1>16, <1>17, <2>1, EffectsJoin
  <2> QED BY <1>15, <1>16, <2>2
<1>18. IsScript(P) /\ IsScript(replay_exec_channel)
  BY <1>5, <1>14, <1>15, ScriptTable DEF Alike
<1> QED BY <1>13, <1>17, <1>18 DEF P, V

LEMMA MultiPaired ==
  ASSUME NEW s \in Shapes, s.protocol = "multi252"
  PROVE  Paired(s, prove_multi)
<1> DEFINE P == prove_multi
           V == verify_multi
           D == States(P)
<1>1. /\ Draws(P) = {"alphas"} \cup {"alpha_0", "alpha_1"} \cup {"queries"}
      /\ Makes(P) = {"public_inputs", "col_roots", "quotient_root"}
         \cup {"inner_root", "last_layer_evals"}
                      \cup {"query_indices"} \cup {"trace_decommits", "n_trace_decommits"}
                          \cup {"query_decommits"}
  BY MultiSection DEF Section
<1>2. Orderly(P, s)
  <2>1. Absorbs(P) = {"public_inputs", "col_roots", "quotient_root"}
        \cup {"inner_root", "last_layer_evals"}
    BY MultiSection DEF Section
  <2> QED BY <2>1, MultiSection DEF Section, Orderly
<1>3. ProverScript(s) = P /\ \A f : VerifierScript(Received(s, f)) = V
  BY DEF ProverScript, VerifierScript, Received
<1>4. Account(V, {}, {"alphas", "alpha_0", "alpha_1", "queries"},
              {"public_inputs", "query_indices", "col_roots", "trace_decommits",
               "n_trace_decommits", "query_decommits",
               "inner_root", "last_layer_evals", "quotient_root"},
              {"alphas", "alpha_0", "alpha_1", "queries"})
  BY MultiAccount
<1>5. Tells(P, D)
  BY <1>1, <1>2, OwnAccount
<1>6. Says(V, new, "none", D)
  BY <1>5, MultiReplayed DEF Tells
<1> HIDE DEF V, P
<1>7. Agrees(V, P, D)
  BY <1>1, <1>4, <1>6 DEF Agrees, Account
<1>8. Listens(V)
  BY <1>4 DEF Listens, Account
<1>9. \A g \in Makes(P) : Finds(V, g, D)
  BY <1>1, <1>4 DEF Finds, Account
<1>10. Paired(s, P)
  BY <1>2, <1>3, <1>5, <1>7, <1>8, <1>9, PairedByOne
<1> QED BY <1>10 DEF P

LEMMA SubProofsAlike ==
  /\ Alike(prove_memory_logup, verify_memory_logup)
  /\ Alike(prove_range_check, verify_range_check)
<1>1. Alike(prove_memory_logup, verify_memory_logup)
  <2> DEFINE F == fri_commit(Mem)
             Q == DrawQueries(Mem)
             RQ == ReplayQueries(Mem)
             MV == draw("mem_z") \o draw("mem_alpha") \o mix("mem_s_root")
                     \o check({"mem_exec_sum", "mem_table"}, {"mem_z", "mem_alpha"})
             M == make({"mem_decommits", "n_mem_decommits", "mem_access_paths"}, {"mem_queries"})
             B == fri_build_proof(Mem)
             C1 == check({"mem_s_root", "mem_decommits", "mem_query_decommits"},
                         {"mem_queries", "mem_z", "mem_alpha"})
             C2 == check({"mem_query_decommits", "mem_inner_root", "mem_last_layer_evals",
                          "mem_q_root"},
                         {"mem_alpha_0", "mem_alpha_1", "mem_queries"})
  <2>1. Alike(MemOpening, MV \o mix("mem_q_root"))
    <3> DEFINE N == draw("mem_z") \o draw("mem_alpha") \o make({"mem_exec_sum"}, {"mem_z", "mem_alpha"})
                      \o commit("mem_s_root", {"mem_z", "mem_alpha"})
    <3>1. Alike(N, MV)
      BY AlikeTable
    <3>2. MemOpening = N \o make({"mem_table"}, {}) \o commit("mem_q_root", {"mem_z", "mem_alpha"})
      BY DEF MemOpening
    <3> HIDE DEF N, MV
    <3> QED BY <3>1, <3>2, AlikeTable
  <2>2. Alike(F \o Q, RQ) /\ Alike(F, ReplayFriCommit(Mem)) /\ Alike(Q, draw(Mem.queries))
    BY SubAlike
  <2>3. Silent(M) /\ Silent(B) /\ Silent(C1) /\ Silent(C2)
    BY SilentTable DEF fri_build_proof
  <2>4. prove_memory_logup = MemOpening \o F \o Q \o M \o B
    BY DEF prove_memory_logup, MemOpening
  <2>5. verify_memory_logup = MV \o mix("mem_q_root") \o RQ \o C1 \o C2
    BY DEF verify_memory_logup
  <2> HIDE DEF F, Q, RQ, MV, M, B, C1, C2
  <2>6. IsScript(F) /\ IsScript(Q)
    BY <2>2 DEF Alike
  <2>7. Alike(MemOpening \o F \o Q, MV \o mix("mem_q_root") \o RQ)
    BY <2>1, <2>2, <2>6, AlikeTwo
  <2>8. Alike(MemOpening \o F \o Q \o M \o B, MV \o mix("mem_q_root") \o RQ)
    BY <2>3, <2>7, SilentJoin
  <2>9. Alike(prove_memory_logup, MV \o mix("mem_q_root") \o RQ \o C1)
    BY <2>3, <2>4, <2>8, SilentJoin
  <2> QED BY <2>3, <2>5, <2>9, SilentJoin
<1>2. Alike(prove_range_check, verify_range_check)
  <2> DEFINE F == fri_commit(Rc)
             Q == DrawQueries(Rc)
             RQ == ReplayQueries(Rc)
             MV == draw("rc_z") \o mix("rc_s_root") \o check({"rc_exec_sum", "rc_mults"}, {"rc_z"})
             M == make({"rc_decommits", "n_rc_decommits"}, {"rc_queries"})
             B == fri_build_proof(Rc)
             C1 == check({"rc_s_root", "rc_decommits", "rc_query_decommits", "col_roots"},
                         {"rc_queries", "rc_z"})
             C2 == check({"rc_query_decommits", "rc_inner_root", "rc_last_layer_evals", "rc_q_root"},
                         {"rc_alpha_0", "rc_alpha_1", "rc_queries"})
  <2>1. Alike(RcOpening, MV \o mix("rc_q_root"))
    <3> DEFINE N == draw("rc_z") \o make({"rc_exec_sum"}, {"rc_z"}) \o commit("rc_s_root", {"rc_z"})
    <3>1. Alike(N, MV)
      BY AlikeTable
    <3>2. RcOpening = N \o make({"rc_mults"}, {}) \o commit("rc_q_root", {"rc_z"})
      BY DEF RcOpening
    <3> HIDE DEF N, MV
    <3> QED BY <3>1, <3>2, AlikeTable
  <2>2. Alike(F \o Q, RQ) /\ Alike(F, ReplayFriCommit(Rc)) /\ Alike(Q, draw(Rc.queries))
    BY SubAlike
  <2>3. Silent(M) /\ Silent(B) /\ Silent(C1) /\ Silent(C2)
    BY SilentTable DEF fri_build_proof
  <2>4. prove_range_check = RcOpening \o F \o Q \o M \o B
    BY DEF prove_range_check, RcOpening
  <2>5. verify_range_check = MV \o mix("rc_q_root") \o RQ \o C1 \o C2
    BY DEF verify_range_check
  <2> HIDE DEF F, Q, RQ, MV, M, B, C1, C2
  <2>6. IsScript(F) /\ IsScript(Q)
    BY <2>2 DEF Alike
  <2>7. Alike(RcOpening \o F \o Q, MV \o mix("rc_q_root") \o RQ)
    BY <2>1, <2>2, <2>6, AlikeTwo
  <2>8. Alike(RcOpening \o F \o Q \o M \o B, MV \o mix("rc_q_root") \o RQ)
    BY <2>3, <2>7, SilentJoin
  <2>9. Alike(prove_range_check, MV \o mix("rc_q_root") \o RQ \o C1)
    BY <2>3, <2>4, <2>8, SilentJoin
  <2> QED BY <2>3, <2>5, <2>9, SilentJoin
<1> QED BY <1>1, <1>2

\* The Cairo proof: between the execution and the memory proof both sides bring
\* a new channel to where the execution proof left the old one.
LEMMA Cairo252Paired ==
  ASSUME NEW s \in Shapes, s.protocol = "cairo252"
  PROVE  Paired(s, Cairo252Lean)
<1> DEFINE L == Cairo252Lean
           P == prove_cairo
           V == verify_cairo
           D == States(L)
           E == prove_multi
           X == replay_exec_channel
           M == prove_memory_logup
           W == prove_range_check
           x == After(E, new, "none")
           y == After(M, x, "none")
<1>1. Orderly(L, s)
  <2>1. "none" \notin Absorbs(L) /\ "damaged" \notin Absorbs(L)
    BY Cairo252Section DEF Section
  <2> QED BY <2>1, Cairo252Section DEF Section, Orderly
<1>2. ProverScript(s) = P /\ (\A f : VerifierScript(Received(s, f)) = V)
        /\ Unbound(s) = {"mem_access_paths", "n_mem_decommits", "n_rc_decommits"}
  BY DEF ProverScript, VerifierScript, Received, Unbound, Unread, Overlooked
<1>3. /\ IsChannel(new) /\ Says(L, new, "none", D) /\ L = E \o M \o W
      /\ P = E \o X \o M \o W /\ V = verify_multi \o X \o verify_memory_logup \o verify_range_check
  BY <1>1, AbsorbedLaws, StatesLaws DEF Cairo252Lean, prove_cairo, verify_cairo
<1>4. /\ IsScript(M) /\ IsScript(W) /\ IsScript(verify_memory_logup) /\ IsScript(verify_range_check)
  BY SubProofsAlike DEF Alike
<1>5. IsScript(E)
  BY MultiSection DEF Section
<1>6. /\ Draws(L) = ({"alphas"} \cup {"alpha_0", "alpha_1"} \cup {"queries"})
             \cup ({"mem_z", "mem_alpha"} \cup {"mem_alpha_0", "mem_alpha_1"} \cup {"mem_queries"})
             \cup ({"rc_z"} \cup {"rc_alpha_0", "rc_alpha_1"} \cup {"rc_queries"})
  BY Cairo252Section DEF Section
<1>7. "none" \notin Absorbs(L)
  BY <1>1 DEF Orderly
<1>8. Makes(L) =
        ({"public_inputs", "col_roots", "quotient_root"} \cup {"inner_root", "last_layer_evals"}
           \cup {"query_indices"} \cup {"trace_decommits", "n_trace_decommits"}
               \cup {"query_decommits"})
        \cup ({"mem_exec_sum", "mem_s_root", "mem_table", "mem_q_root"}
                \cup {"mem_inner_root", "mem_last_layer_evals"} \cup {"mem_query_indices"}
                \cup {"mem_decommits", "n_mem_decommits", "mem_access_paths"}
                    \cup {"mem_query_decommits"})
        \cup ({"rc_exec_sum", "rc_s_root", "rc_mults", "rc_q_root"}
                \cup {"rc_inner_root", "rc_last_layer_evals"} \cup {"rc_query_indices"}
                \cup {"rc_decommits", "n_rc_decommits"} \cup {"rc_query_decommits"})
  BY Cairo252Section DEF Section
<1>9. Account(V, {}, {"alphas", "alpha_0", "alpha_1", "queries"}
                       \cup {"mem_z", "mem_alpha", "mem_alpha_0", "mem_alpha_1", "mem_queries"}
                       \cup {"rc_z", "rc_alpha_0", "rc_alpha_1", "rc_queries"},
              {"public_inputs", "query_indices", "col_roots", "trace_decommits",
               "n_trace_decommits", "query_decommits",
               "inner_root", "last_layer_evals", "quotient_root"}
                \cup {"mem_exec_sum", "mem_table", "mem_query_indices", "mem_s_root", "mem_decommits",
                      "mem_query_decommits", "mem_inner_root", "mem_last_layer_evals", "mem_q_root"}
                \cup {"rc_exec_sum", "rc_mults", "rc_query_indices", "rc_s_root", "rc_decommits",
                      "rc_query_decommits", "col_roots", "rc_inner_root", "rc_last_layer_evals",
                      "rc_q_root"},
              {"alphas", "alpha_0", "alpha_1", "queries"}
                \cup {"mem_z", "mem_alpha", "mem_alpha_0", "mem_alpha_1", "mem_queries"}
                \cup {"rc_z", "rc_alpha_0", "rc_alpha_1", "rc_queries"})
  BY Cairo252Account
<1>10. \* replaying draws, absorbs and makes nothing new
      /\ IsScript(X) /\ Draws(X) = {"alphas", "alpha_0", "alpha_1", "queries"} /\ Makes(X) = {}
      /\ Absorbs(X) = {"public_inputs", "col_roots", "quotient_root", "inner_root", "last_layer_evals"}
  <2>1. /\ IsScript(restart) /\ Draws(restart) = {} /\ Makes(restart) = {} /\ Absorbs(restart) = {}
    BY RestartLaws
  <2>2. /\ IsScript(MultiUpToQuotient) /\ Draws(MultiUpToQuotient) = {"alphas"}
        /\ Makes(MultiUpToQuotient) = {}
        /\ Absorbs(MultiUpToQuotient) = {"public_inputs", "col_roots", "quotient_root"}
    BY ScriptTable, DrawsTable, MakesTable, AbsorbsTable DEF MultiUpToQuotient
  <2>3. /\ IsScript(ReplayFriCommit(Exec)) /\ Draws(ReplayFriCommit(Exec)) = {"alpha_0", "alpha_1"}
        /\ Makes(ReplayFriCommit(Exec)) = {}
        /\ Absorbs(ReplayFriCommit(Exec)) = {"inner_root", "last_layer_evals"}
    BY ScriptTable, DrawsTable, MakesTable, AbsorbsTable, SubProofs DEF ReplayFriCommit
  <2>4. X = restart \o MultiUpToQuotient \o ReplayFriCommit(Exec) \o draw("queries")
    BY DEF replay_exec_channel
  <2> HIDE DEF X
  <2> DEFINE O == MultiUpToQuotient
             G == ReplayFriCommit(Exec)
             d == draw("queries")
             X1 == restart \o O
             X2 == X1 \o G
  <2>5. IsScript(d) /\ Draws(d) = {"queries"} /\ Makes(d) = {} /\ Absorbs(d) = {}
    BY DrawLaws
  <2> HIDE DEF O, G, d
  <2>6. IsScript(X1) /\ Draws(X1) = {"alphas"} /\ Makes(X1) = {}
        /\ Absorbs(X1) = {"public_inputs", "col_roots", "quotient_root"}
    <3>1. IsScript(X1) /\ Draws(X1) = Draws(restart) \cup Draws(O)
          /\ Makes(X1) = Makes(restart) \cup Makes(O) /\ Absorbs(X1) = Absorbs(restart) \cup Absorbs(O)
      BY <2>1, <2>2, Joins, SetsJoin DEF O
    <3> HIDE DEF X1
    <3>2. Draws(X1) = {"alphas"} /\ Makes(X1) = {}
      BY <2>1, <2>2, <3>1 DEF O
    <3>3. Absorbs(X1) = {"public_inputs", "col_roots", "quotient_root"}
      BY <2>1, <2>2, <3>1 DEF O
    <3> QED BY <3>1, <3>2, <3>3
  <2> HIDE DEF X1
  <2>7. IsScript(X2) /\ Draws(X2) = {"alphas", "alpha_0", "alpha_1"} /\ Makes(X2) = {}
        /\ Absorbs(X2) = {"public_inputs", "col_roots", "quotient_root", "inner_root",
                          "last_layer_evals"}
    <3>1. IsScript(X2) /\ Draws(X2) = Draws(X1) \cup Draws(G)
          /\ Makes(X2) = Makes(X1) \cup Makes(G) /\ Absorbs(X2) = Absorbs(X1) \cup Absorbs(G)
      BY <2>3, <2>6, Joins, SetsJoin DEF G
    <3> HIDE DEF X2
    <3>2. Draws(X2) = {"alphas", "alpha_0", "alpha_1"} /\ Makes(X2) = {}
      BY <2>3, <2>6, <3>1 DEF G
    <3>3. Absorbs(X2) = {"public_inputs", "col_roots", "quotient_root", "inner_root",
                         "last_layer_evals"}
      BY <2>3, <2>6, <3>1 DEF G
    <3> QED BY <3>1, <3>2, <3>3
  <2> HIDE DEF X2
  <2>8. X = X2 \o d
    BY <2>4 DEF X2, X1, O, G, d
  <2>9. IsScript(X) /\ Draws(X) = Draws(X2) \cup Draws(d)
        /\ Makes(X) = Makes(X2) \cup Makes(d) /\ Absorbs(X) = Absorbs(X2) \cup Absorbs(d)
    BY <2>5, <2>7, <2>8, Joins, SetsJoin
  <2>10. Draws(X) = {"alphas", "alpha_0", "alpha_1", "queries"}
    BY <2>5, <2>7, <2>9
  <2>11. Makes(X) = {} /\ Absorbs(X) = Absorbs(X2)
    BY <2>5, <2>7, <2>9
  <2> QED BY <2>7, <2>9, <2>10, <2>11

<1>11. /\ IsScript(P) /\ Draws(P) = Draws(L) /\ Makes(P) = Makes(L) /\ "none" \notin Absorbs(P)
  <2> HIDE DEF P, L, E, X, M, W
  <2>1. IsScript(E \o M) /\ IsScript(E \o X) /\ IsScript(E \o X \o M) /\ IsScript(P)
    BY <1>3, <1>4, <1>5, <1>10, ScriptTable
  <2>2. Draws(L) = Draws(E) \cup Draws(M) \cup Draws(W)
    BY <1>3, <1>4, <1>5, <2>1, DrawsTable
  <2>3. Draws(P) = Draws(E) \cup Draws(X) \cup Draws(M) \cup Draws(W)
    BY <1>3, <1>4, <1>5, <1>10, <2>1, DrawsTable
  <2>4. Makes(L) = Makes(E) \cup Makes(M) \cup Makes(W)
    BY <1>3, <1>4, <1>5, <2>1, MakesTable
  <2>5. Makes(P) = Makes(E) \cup Makes(X) \cup Makes(M) \cup Makes(W)
    BY <1>3, <1>4, <1>5, <1>10, <2>1, MakesTable
  <2>6. Absorbs(L) = Absorbs(E) \cup Absorbs(M) \cup Absorbs(W)
    BY <1>3, <1>4, <1>5, <2>1, AbsorbsTable
  <2>7. Absorbs(P) = Absorbs(E) \cup Absorbs(X) \cup Absorbs(M) \cup Absorbs(W)
    BY <1>3, <1>4, <1>5, <1>10, <2>1, AbsorbsTable
  <2>8. Draws(X) \subseteq Draws(E)
    BY <1>10, MultiSection DEF Section, E
  <2>9. "none" \notin Absorbs(X)
    BY <1>10
  <2>10. Draws(P) = Draws(L) /\ Makes(P) = Makes(L)
    BY <1>10, <2>2, <2>3, <2>4, <2>5, <2>8
  <2>11. "none" \notin Absorbs(P)
    BY <1>7, <2>6, <2>7, <2>9
  <2> QED BY <2>1, <2>10, <2>11
<1>12. /\ Says(E, new, "none", D) /\ Says(M, x, "none", D) /\ Says(W, y, "none", D)
       /\ IsChannel(x) /\ IsChannel(y)
  <2> HIDE DEF L, D, E, M, W
  <2>1. IsScript(E \o M)
    BY <1>4, <1>5, ScriptTable
  <2>2. Says(E \o M, new, "none", D) /\ Says(W, After(E \o M, new, "none"), "none", D)
    BY <1>3, <1>4, <2>1, EffectsJoin
  <2>3. Says(E, new, "none", D) /\ Says(M, x, "none", D) /\ After(E \o M, new, "none") = y
    BY <1>3, <1>4, <1>5, <2>2, EffectsJoin
  <2>4. IsChannel(x)
    BY <1>3, <1>5, EffectsJoin
  <2>5. IsChannel(y)
    BY <1>4, <2>4, EffectsJoin
  <2> QED BY <2>2, <2>3, <2>4, <2>5
<1> HIDE DEF D, x, y
<1>13. /\ Says(verify_multi, new, "none", D)
       /\ \A a : IsChannel(a) => Says(X, a, "none", D) /\ After(X, a, "none") = x
  BY <1>12, MultiReplayed DEF x
<1>14. Says(P, new, "none", D)
  <2> HIDE DEF P, E, X, M, W
  <2>1. Says(E \o X, new, "none", D) /\ After(E \o X, new, "none") = x /\ IsScript(E \o X)
    BY <1>3, <1>5, <1>10, <1>12, <1>13, EffectsJoin, ScriptTable DEF x
  <2>2. Says(E \o X \o M, new, "none", D) /\ After(E \o X \o M, new, "none") = y
        /\ IsScript(E \o X \o M)
    BY <1>3, <1>4, <1>12, <2>1, EffectsJoin, ScriptTable DEF y
  <2> QED BY <1>3, <1>4, <1>12, <2>2, EffectsJoin
<1>15. Says(V, new, "none", D)
  <2> DEFINE A == verify_multi
             B == verify_memory_logup
             C == verify_range_check
             z == After(A, new, "none")
  <2>1. IsScript(A)
    BY MultiAccount DEF Account
  <2>2. Says(B, x, "none", D) /\ After(B, x, "none") = y /\ Says(C, y, "none", D)
    BY <1>12, SubProofsAlike DEF Alike, y
  <2> HIDE DEF V, A, B, C, X
  <2>3. IsChannel(z)
    BY <1>3, <2>1, EffectsJoin
  <2>4. Says(A \o X, new, "none", D) /\ After(A \o X, new, "none") = x /\ IsScript(A \o X)
    BY <1>3, <1>10, <1>13, <2>1, <2>3, EffectsJoin, ScriptTable DEF A
  <2>5. IsScript(B) /\ IsScript(C)
    BY <1>4 DEF B, C
  <2>6. Says(A \o X \o B, new, "none", D) /\ After(A \o X \o B, new, "none") = y
        /\ IsScript(A \o X \o B)
    BY <1>3, <2>2, <2>4, <2>5, EffectsJoin, ScriptTable
  <2> QED BY <1>3, <2>2, <2>5, <2>6, EffectsJoin DEF A, B, C
<1> HIDE DEF P, V, L
<1>16. Tells(P, D)
  BY <1>6, <1>11, <1>14 DEF Tells
<1>17. Agrees(V, P, D)
  BY <1>6, <1>9, <1>11, <1>15 DEF Agrees, Account
<1>18. Listens(V)
  BY <1>9 DEF Listens, Account
<1>19. \A g \in Makes(P) \ {"mem_access_paths", "n_mem_decommits", "n_rc_decommits"} :
         Finds(V, g, D)
  BY <1>8, <1>9, <1>11 DEF Finds, Account
<1>20. Paired(s, L)
  BY <1>1, <1>2, <1>16, <1>17, <1>18, <1>19, PairedByOne DEF D
<1> QED BY <1>20 DEF L

-----------------------------------------------------------------------------
\* The Fibonacci STARK over M31, of n folds.
FirstAlphas(n) == {FriAlpha[i] : i \in 0 .. n - 1}
LaterAlphas(n) == {FriAlpha[i] : i \in 1 .. n}
Commitments(n) == {FriCommitment[i] : i \in 1 .. n}
Openings(n) == {FriDecommitment[i] : i \in 1 .. n}

Folds(n) ==
  rounds(n, [i \in 1 .. n |-> draw(FriAlpha[i - 1]) \o commit(FriCommitment[i], {FriAlpha[i - 1]})])
M31Prove(n) ==
  make({"public_inputs"}, {}) \o commit("trace_commitment", {})
    \o draw("alpha") \o commit("quotient_commitment", {"alpha"})
    \o Folds(n) \o commit("fri_last_layer", {FriAlpha[n - 1]})
    \o draw("query_indices") \o make({"query_indices"}, {"query_indices"})
    \o make({"trace_decommitment", "quotient_decommitment"} \cup Openings(n), {"query_indices"})

MixLayers(n) == rounds(n, [i \in 1 .. n |-> mix(FriCommitment[i]) \o draw(FriAlpha[i])])
M31Verify(n) ==
  loose({"public_inputs"}) \o mix("trace_commitment") \o draw("alpha")
    \o mix("quotient_commitment") \o draw(FriAlpha[0]) \o MixLayers(n)
    \o mix("fri_last_layer")
    \o draw("query_indices") \o check({"query_indices"}, {"query_indices"})
    \o check({"trace_commitment", "trace_decommitment"}, {"query_indices"})
    \o check({"quotient_commitment", "quotient_decommitment"}, {"query_indices"})
    \o check((Commitments(n) \cup Openings(n)), {"query_indices"})
    \o check({"quotient_decommitment", FriDecommitment[1]}, {"query_indices", FriAlpha[0]})
    \o check((Openings(n) \cup {"fri_last_layer"}), ({"query_indices"} \cup FirstAlphas(n)))

LEMMA M31Scripts ==
  ASSUME NEW s, NEW n, M31FriLayers(s) = n
  PROVE  prove_lean_inner(s) = M31Prove(n) /\ verify(s) = M31Verify(n)
BY DEF prove_lean_inner, M31Prove, verify, M31Verify, Folds, MixLayers, M31Layers, FirstAlphas,
       Commitments, Openings

LEMMA MixLayersAccount ==
  ASSUME NEW n \in Nat, NEW A
  PROVE  Account(MixLayers(n), A, LaterAlphas(n), {}, {})
<1>1. Audit(MixLayers(n), LaterAlphas(n), Commitments(n), {}, {})
  BY MixDrawRounds DEF MixLayers, LaterAlphas, Commitments
<1> QED BY <1>1, UsesReady DEF Audit, Account

LEMMA M31Account ==
  ASSUME NEW n \in Nat \ {0}, NEW A
  PROVE  Account(M31Verify(n), A,
                 ({"alpha", "query_indices", FriAlpha[0]} \cup LaterAlphas(n)),
                 ({"query_indices", "trace_commitment", "trace_decommitment", "quotient_commitment",
                   "quotient_decommitment", "fri_last_layer", FriDecommitment[1]} \cup Commitments(n)
                   \cup Openings(n)),
                 ({"query_indices", FriAlpha[0]} \cup FirstAlphas(n)))
<1> DEFINE C1 == loose({"public_inputs"})
           C2 == C1 \o mix("trace_commitment")
           C3 == C2 \o draw("alpha")
           C4 == C3 \o mix("quotient_commitment")
           C5 == C4 \o draw(FriAlpha[0])
           C6 == C5 \o MixLayers(n)
           C7 == C6 \o mix("fri_last_layer")
           C8 == C7 \o draw("query_indices")
           C9 == C8 \o check({"query_indices"}, {"query_indices"})
           C10 == C9 \o check({"trace_commitment", "trace_decommitment"}, {"query_indices"})
           C11 == C10 \o check({"quotient_commitment", "quotient_decommitment"}, {"query_indices"})
           C12 == C11 \o check((Commitments(n) \cup Openings(n)), {"query_indices"})
           C13 == C12 \o check({"quotient_decommitment", FriDecommitment[1]},
                               {"query_indices", FriAlpha[0]})
           C14 == C13 \o check((Openings(n) \cup {"fri_last_layer"}),
                               ({"query_indices"} \cup FirstAlphas(n)))
           D1 == {}
           D2 == D1 \cup {}
           D3 == D2 \cup {"alpha"}
           D4 == D3 \cup {}
           D5 == D4 \cup {FriAlpha[0]}
           D6 == D5 \cup LaterAlphas(n)
           D7 == D6 \cup {}
           D8 == D7 \cup {"query_indices"}
           D9 == D8 \cup {}
           D10 == D9 \cup {}
           D11 == D10 \cup {}
           D12 == D11 \cup {}
           D13 == D12 \cup {}
           D14 == D13 \cup {}
           R1 == {}
           R2 == R1 \cup {}
           R3 == R2 \cup {}
           R4 == R3 \cup {}
           R5 == R4 \cup {}
           R6 == R5 \cup {}
           R7 == R6 \cup {}
           R8 == R7 \cup {}
           R9 == R8 \cup {"query_indices"}
           R10 == R9 \cup {"trace_commitment", "trace_decommitment"}
           R11 == R10 \cup {"quotient_commitment", "quotient_decommitment"}
           R12 == R11 \cup (Commitments(n) \cup Openings(n))
           R13 == R12 \cup {"quotient_decommitment", FriDecommitment[1]}
           R14 == R13 \cup (Openings(n) \cup {"fri_last_layer"})
           U1 == {}
           U2 == U1 \cup {}
           U3 == U2 \cup {}
           U4 == U3 \cup {}
           U5 == U4 \cup {}
           U6 == U5 \cup {}
           U7 == U6 \cup {}
           U8 == U7 \cup {}
           U9 == U8 \cup {"query_indices"}
           U10 == U9 \cup {"query_indices"}
           U11 == U10 \cup {"query_indices"}
           U12 == U11 \cup {"query_indices"}
           U13 == U12 \cup {"query_indices", FriAlpha[0]}
           U14 == U13 \cup ({"query_indices"} \cup FirstAlphas(n))
<1>0. n \in Nat /\ n # 0
  OBVIOUS
<1>1. Account(C1, A, D1, R1, U1)
  BY AccountSteps
<1>2. Account(C2, A, D2, R2, U2)
  <2> DEFINE Q == mix("trace_commitment")
  <2>1. Account(Q, A \cup D1, {}, {}, {})
    BY AccountSteps
  <2>2. C2 = C1 \o Q
    BY DEF C2
  <2> HIDE DEF Q, C2, C1, D1, R1, U1
  <2>3. Account(C1 \o Q, A, D1 \cup {}, R1 \cup {}, U1 \cup {})
    BY <1>1, <2>1, AccountsJoin
  <2> QED BY <2>2, <2>3
<1>3. Account(C3, A, D3, R3, U3)
  <2> DEFINE Q == draw("alpha")
  <2>1. Account(Q, A \cup D2, {"alpha"}, {}, {})
    BY AccountSteps
  <2>2. C3 = C2 \o Q
    BY DEF C3
  <2> HIDE DEF Q, C3, C2, D2, R2, U2
  <2>3. Account(C2 \o Q, A, D2 \cup {"alpha"}, R2 \cup {}, U2 \cup {})
    BY <1>2, <2>1, AccountsJoin
  <2> QED BY <2>2, <2>3
<1>4. Account(C4, A, D4, R4, U4)
  <2> DEFINE Q == mix("quotient_commitment")
  <2>1. Account(Q, A \cup D3, {}, {}, {})
    BY AccountSteps
  <2>2. C4 = C3 \o Q
    BY DEF C4
  <2> HIDE DEF Q, C4, C3, D3, R3, U3
  <2>3. Account(C3 \o Q, A, D3 \cup {}, R3 \cup {}, U3 \cup {})
    BY <1>3, <2>1, AccountsJoin
  <2> QED BY <2>2, <2>3
<1>5. Account(C5, A, D5, R5, U5)
  <2> DEFINE Q == draw(FriAlpha[0])
  <2>1. Account(Q, A \cup D4, {FriAlpha[0]}, {}, {})
    BY AccountSteps
  <2>2. C5 = C4 \o Q
    BY DEF C5
  <2> HIDE DEF Q, C5, C4, D4, R4, U4
  <2>3. Account(C4 \o Q, A, D4 \cup {FriAlpha[0]}, R4 \cup {}, U4 \cup {})
    BY <1>4, <2>1, AccountsJoin
  <2> QED BY <2>2, <2>3
<1>6. Account(C6, A, D6, R6, U6)
  <2> DEFINE Q == MixLayers(n)
  <2>1. Account(Q, A \cup D5, LaterAlphas(n), {}, {})
    BY MixLayersAccount
  <2>2. C6 = C5 \o Q
    BY DEF C6
  <2> HIDE DEF Q, C6, C5, D5, R5, U5
  <2>3. Account(C5 \o Q, A, D5 \cup LaterAlphas(n), R5 \cup {}, U5 \cup {})
    BY <1>5, <2>1, AccountsJoin
  <2> QED BY <2>2, <2>3
<1>7. Account(C7, A, D7, R7, U7)
  <2> DEFINE Q == mix("fri_last_layer")
  <2>1. Account(Q, A \cup D6, {}, {}, {})
    BY AccountSteps
  <2>2. C7 = C6 \o Q
    BY DEF C7
  <2> HIDE DEF Q, C7, C6, D6, R6, U6
  <2>3. Account(C6 \o Q, A, D6 \cup {}, R6 \cup {}, U6 \cup {})
    BY <1>6, <2>1, AccountsJoin
  <2> QED BY <2>2, <2>3
<1>8. Account(C8, A, D8, R8, U8)
  <2> DEFINE Q == draw("query_indices")
  <2>1. Account(Q, A \cup D7, {"query_indices"}, {}, {})
    BY AccountSteps
  <2>2. C8 = C7 \o Q
    BY DEF C8
  <2> HIDE DEF Q, C8, C7, D7, R7, U7
  <2>3. Account(C7 \o Q, A, D7 \cup {"query_indices"}, R7 \cup {}, U7 \cup {})
    BY <1>7, <2>1, AccountsJoin
  <2> QED BY <2>2, <2>3
<1>9. Account(C9, A, D9, R9, U9)
  <2> DEFINE Q == check({"query_indices"}, {"query_indices"})
  <2>1. Account(Q, A \cup D8, {}, {"query_indices"}, {"query_indices"})
    <3>1. {"query_indices"} \subseteq A \cup D8
      OBVIOUS
    <3> HIDE DEF D8
    <3> QED BY <3>1, AccountSteps
  <2>2. C9 = C8 \o Q
    BY DEF C9
  <2> HIDE DEF Q, C9, C8, D8, R8, U8
  <2>3. Account(C8 \o Q, A, D8 \cup {}, R8 \cup {"query_indices"}, U8 \cup {"query_indices"})
    BY <1>8, <2>1, AccountsJoin
  <2> QED BY <2>2, <2>3
<1>10. Account(C10, A, D10, R10, U10)
  <2> DEFINE Q == check({"trace_commitment", "trace_decommitment"}, {"query_indices"})
  <2>1. Account(Q, A \cup D9, {}, {"trace_commitment", "trace_decommitment"}, {"query_indices"})
    <3>1. {"query_indices"} \subseteq A \cup D9
      OBVIOUS
    <3> HIDE DEF D9
    <3> QED BY <3>1, AccountSteps
  <2>2. C10 = C9 \o Q
    BY DEF C10
  <2> HIDE DEF Q, C10, C9, D9, R9, U9
  <2>3. Account(C9 \o Q, A, D9 \cup {}, R9 \cup {"trace_commitment", "trace_decommitment"}, U9
                \cup {"query_indices"})
    BY <1>9, <2>1, AccountsJoin
  <2> QED BY <2>2, <2>3
<1>11. Account(C11, A, D11, R11, U11)
  <2> DEFINE Q == check({"quotient_commitment", "quotient_decommitment"}, {"query_indices"})
  <2>1. Account(Q, A \cup D10, {}, {"quotient_commitment", "quotient_decommitment"}, {"query_indices"})
    <3>1. {"query_indices"} \subseteq A \cup D10
      OBVIOUS
    <3> HIDE DEF D10
    <3> QED BY <3>1, AccountSteps
  <2>2. C11 = C10 \o Q
    BY DEF C11
  <2> HIDE DEF Q, C11, C10, D10, R10, U10
  <2>3. Account(C10 \o Q, A, D10 \cup {}, R10 \cup {"quotient_commitment", "quotient_decommitment"},
                U10 \cup {"query_indices"})
    BY <1>10, <2>1, AccountsJoin
  <2> QED BY <2>2, <2>3
<1>12. Account(C12, A, D12, R12, U12)
  <2> DEFINE Q == check((Commitments(n) \cup Openings(n)), {"query_indices"})
  <2>1. Account(Q, A \cup D11, {}, (Commitments(n) \cup Openings(n)), {"query_indices"})
    <3>1. {"query_indices"} \subseteq A \cup D11
      OBVIOUS
    <3> HIDE DEF D11
    <3> QED BY <3>1, AccountSteps
  <2>2. C12 = C11 \o Q
    BY DEF C12
  <2> HIDE DEF Q, C12, C11, D11, R11, U11
  <2>3. Account(C11 \o Q, A, D11 \cup {}, R11 \cup (Commitments(n) \cup Openings(n)), U11
                \cup {"query_indices"})
    BY <1>11, <2>1, AccountsJoin
  <2> QED BY <2>2, <2>3
<1>13. Account(C13, A, D13, R13, U13)
  <2> DEFINE Q == check({"quotient_decommitment", FriDecommitment[1]}, {"query_indices", FriAlpha[0]})
  <2>1. Account(Q, A \cup D12, {}, {"quotient_decommitment", FriDecommitment[1]},
                {"query_indices", FriAlpha[0]})
    <3>1. {"query_indices", FriAlpha[0]} \subseteq A \cup D12
      OBVIOUS
    <3> HIDE DEF D12
    <3> QED BY <3>1, AccountSteps
  <2>2. C13 = C12 \o Q
    BY DEF C13
  <2> HIDE DEF Q, C13, C12, D12, R12, U12
  <2>3. Account(C12 \o Q, A, D12 \cup {}, R12 \cup {"quotient_decommitment", FriDecommitment[1]}, U12
                \cup {"query_indices", FriAlpha[0]})
    BY <1>12, <2>1, AccountsJoin
  <2> QED BY <2>2, <2>3
<1>14. Account(C14, A, D14, R14, U14)
  <2> DEFINE Q == check((Openings(n) \cup {"fri_last_layer"}), ({"query_indices"} \cup FirstAlphas(n)))
  <2>1. Account(Q, A \cup D13, {}, (Openings(n) \cup {"fri_last_layer"}),
                ({"query_indices"} \cup FirstAlphas(n)))
    <3>1. ({"query_indices"} \cup FirstAlphas(n)) \subseteq A \cup D13
      BY <1>0 DEF FirstAlphas, LaterAlphas
    <3> HIDE DEF D13
    <3> QED BY <3>1, AccountSteps
  <2>2. C14 = C13 \o Q
    BY DEF C14
  <2> HIDE DEF Q, C14, C13, D13, R13, U13
  <2>3. Account(C13 \o Q, A, D13 \cup {}, R13 \cup (Openings(n) \cup {"fri_last_layer"}), U13
                \cup ({"query_indices"} \cup FirstAlphas(n)))
    BY <1>13, <2>1, AccountsJoin
  <2> QED BY <2>2, <2>3
<1>15. M31Verify(n) = C14
  BY DEF M31Verify
<1>16. D14 = ({"alpha", "query_indices", FriAlpha[0]} \cup LaterAlphas(n))
         /\ R14 = ({"query_indices", "trace_commitment", "trace_decommitment", "quotient_commitment",
                    "quotient_decommitment", "fri_last_layer", FriDecommitment[1]} \cup Commitments(n)
                    \cup Openings(n)) /\ U14 = ({"query_indices", FriAlpha[0]} \cup FirstAlphas(n))
  OBVIOUS
<1> HIDE DEF C14, D14, R14, U14
<1> QED BY <1>14, <1>15, <1>16

\* Two ways to bracket rounds of a draw and a commitment.
Rebracketed(F, x, c, y) == (F \o x) \o (c \o y) = (F \o (x \o c)) \o y
LEMMA Rebracket ==
  ASSUME NEW F, NEW x, NEW c, NEW y, IsScript(F), IsScript(x), IsScript(c), IsScript(y)
  PROVE  Rebracketed(F, x, c, y)
<1> DEFINE cy == c \o y
           xc == x \o c
<1>1. IsScript(cy) /\ IsScript(xc)
  BY Joins
<1>2. (x \o c) \o y = x \o cy
  BY Regroup
<1> HIDE DEF cy, xc
<1>3. IsScript(F) /\ IsScript(x) /\ IsScript(cy)
  BY <1>1
<1>4. (F \o x) \o cy = F \o (x \o cy)
  BY ONLY <1>3, Regroup
<1>5. IsScript(F) /\ IsScript(xc) /\ IsScript(y)
  BY <1>1
<1>6. (F \o xc) \o y = F \o (xc \o y)
  BY ONLY <1>5, Regroup
<1> QED BY <1>2, <1>4, <1>6 DEF cy, xc, Rebracketed

\* A draw before the rounds and one at the end of each are one at the start of
\* each round and one behind them.
Shifts(n, d, c, p, q) ==
  /\ \A i \in 0 .. n : IsScript(d[i])
  /\ \A i \in 1 .. n : IsScript(c[i]) /\ p[i] = c[i] \o d[i] /\ q[i] = d[i - 1] \o c[i]
LEMMA RoundsShift ==
  ASSUME NEW n \in Nat, NEW d, NEW c, NEW p, NEW q,
         Shifts(n, d, c, p, q)
  PROVE  d[0] \o rounds(n, p) = rounds(n, q) \o d[n] /\ IsScript(rounds(n, q))
<1> DEFINE Prop(m) == /\ d[0] \o rounds(m, p) = rounds(m, q) \o d[m]
                      /\ IsScript(rounds(m, p)) /\ IsScript(rounds(m, q))
<1>1. Prop(0)
  <2>1. rounds(0, p) = <<>> /\ rounds(0, q) = <<>> /\ IsScript(<<>>)
    BY RoundsSteps, ScriptTable
  <2>2. PICK T : d[0] \in Seq(T)
    BY DEF IsScript, Shifts
  <2>3. d[0] \o <<>> = d[0] /\ <<>> \o d[0] = d[0]
    BY <2>2, ConcatEmptySeq
  <2> QED BY <2>1, <2>3
<1>2. ASSUME NEW m \in 0 .. n - 1, Prop(m) PROVE Prop(m + 1)
  <2> DEFINE k == m + 1
             L == rounds(m, p)
             F == rounds(m, q)
             x == d[m]
             y == d[k]
             e == c[k]
             z == d[0]
  <2>1. m \in Nat /\ k \in 1 .. n /\ k \in 0 .. n /\ m \in 0 .. n /\ 0 \in 0 .. n /\ k - 1 = m
    OBVIOUS
  <2>2. rounds(k, p) = L \o p[k] /\ rounds(k, q) = F \o q[k]
    BY <2>1, RoundsSteps
  <2>3. p[k] = e \o y /\ q[k] = x \o e
    BY <2>1 DEF Shifts
  <2>4. IsScript(x) /\ IsScript(y) /\ IsScript(e) /\ IsScript(z)
    BY <2>1 DEF Shifts
  <2>5. IsScript(L) /\ IsScript(F) /\ z \o L = F \o x
    BY <1>2
  <2> HIDE DEF k, L, F, x, y, e, z
  <2>6. IsScript(F) /\ IsScript(x) /\ IsScript(e) /\ IsScript(y)
    BY <2>4, <2>5
  <2>7. (F \o x) \o (e \o y) = (F \o (x \o e)) \o y
    <3>1. Rebracketed(F, x, e, y)
      BY <2>6, Rebracket
    <3> QED BY <3>1 DEF Rebracketed
  <2>8. IsScript(e \o y)
    BY <2>6, Joins
  <2>9. IsScript(x \o e)
    BY <2>6, Joins
  <2>10. (F \o x) \o (e \o y) = (F \o (x \o e)) \o y /\ IsScript(e \o y) /\ IsScript(x \o e)
    BY <2>7, <2>8, <2>9
  <2> DEFINE ey == e \o y
             xe == x \o e
  <2>11. IsScript(z) /\ IsScript(L) /\ IsScript(ey)
    BY <2>4, <2>5, <2>10
  <2> HIDE DEF ey
  <2>12. (z \o L) \o ey = z \o (L \o ey)
    BY <2>11, Regroup
  <2>13. IsScript(L \o ey)
    BY <2>11, Joins
  <2> HIDE DEF xe
  <2>14. IsScript(F \o xe)
    BY <2>5, <2>10, Joins DEF xe
  <2>15. rounds(k, p) = L \o ey /\ rounds(k, q) = F \o xe
    BY <2>2, <2>3 DEF ey, xe
  <2>16. z \o rounds(k, p) = rounds(k, q) \o y
    BY <2>5, <2>10, <2>12, <2>15 DEF ey, xe
  <2>17. IsScript(rounds(k, p)) /\ IsScript(rounds(k, q))
    BY <2>13, <2>14, <2>15
  <2> QED BY <2>16, <2>17 DEF k, z, y
<1> DEFINE Good == {i \in Nat : Prop(i)}
<1> HIDE DEF Prop
<1>3. 0 \in Good
  BY <1>1
<1>4. \A i \in 0 .. n - 1 : i \in Good => i + 1 \in Good
  BY <1>2
<1>5. \A i \in 0 .. n : i \in Good
  <2> HIDE DEF Good
  <2> QED BY <1>3, <1>4, Induction
<1>6. Prop(n)
  BY <1>5
<1> QED BY <1>6 DEF Prop

\* Absorbing starts the draw counter again: a draw before it leaves no trace.
LEMMA DrawForgotten ==
  ASSUME NEW c, NEW f, NEW u
  PROVE  Alike(draw(c) \o mix(f), commit(f, u))
<1>1. IsScript(draw(c)) /\ IsScript(mix(f)) /\ IsScript(commit(f, u)) /\ IsScript(draw(c) \o mix(f))
  BY ScriptTable
<1>2. ASSUME NEW a, IsChannel(a)
      PROVE  /\ After(commit(f, u), a, "none") = After(draw(c) \o mix(f), a, "none")
             /\ \A R : Says(commit(f, u), a, "none", R)
  <2> DEFINE item == IF f = "none" THEN "damaged" ELSE f
  <2>1. After(draw(c), a, "none") = squeeze(a) /\ IsChannel(squeeze(a))
    BY <1>2, DrawLaws, AbsorbedLaws
  <2>2. After(mix(f), squeeze(a), "none") = mix_digest(squeeze(a), item)
    BY <2>1, MixLaws
  <2>3. mix_digest(squeeze(a), item) = mix_digest(a, item)
    BY <1>2 DEF mix_digest, squeeze, IsChannel
  <2>4. /\ After(commit(f, u), a, "none") = mix_digest(a, item)
        /\ \A R : Says(commit(f, u), a, "none", R)
    BY <1>2, CommitLaws
  <2>5. After(draw(c) \o mix(f), a, "none") = After(mix(f), squeeze(a), "none")
    BY <1>1, <1>2, <2>1, EffectsJoin
  <2> QED BY <2>2, <2>3, <2>4, <2>5
<1> QED BY <1>1, <1>2 DEF Alike

\* The rounds of the prover: a draw, then a commitment.
LEMMA FoldsSets ==
  ASSUME NEW n \in Nat
  PROVE  /\ IsScript(Folds(n)) /\ Draws(Folds(n)) = FirstAlphas(n)
         /\ Absorbs(Folds(n)) = Commitments(n) /\ Makes(Folds(n)) = Commitments(n)
<1> DEFINE fold == [i \in 1 .. n |-> draw(FriAlpha[i - 1])
                    \o commit(FriCommitment[i], {FriAlpha[i - 1]})]
           L == rounds(n, fold)
<1>1. ASSUME NEW i \in 1 .. n
      PROVE  /\ IsScript(fold[i]) /\ ~ Restarts(fold[i])
             /\ Draws(fold[i]) = {FriAlpha[i - 1]}
             /\ Absorbs(fold[i]) = {FriCommitment[i]} /\ Makes(fold[i]) = {FriCommitment[i]}
  <2>1. fold[i] = draw(FriAlpha[i - 1]) \o commit(FriCommitment[i], {FriAlpha[i - 1]})
    OBVIOUS
  <2> HIDE DEF fold
  <2>2. IsScript(fold[i]) /\ ~ Restarts(fold[i])
    BY <2>1, ScriptTable, RestartTable
  <2>3. Draws(fold[i]) = {FriAlpha[i - 1]}
    BY <2>1, ScriptTable, DrawsTable
  <2>4. Absorbs(fold[i]) = {FriCommitment[i]}
    BY <2>1, ScriptTable, AbsorbsTable
  <2>5. Makes(fold[i]) = {FriCommitment[i]}
    BY <2>1, ScriptTable, MakesTable
  <2> QED BY <2>2, <2>3, <2>4, <2>5
<1> HIDE DEF fold
<1>2. /\ IsScript(L)
      /\ \A x : x \in Draws(L) <=> \E i \in 1 .. n : x \in Draws(fold[i])
      /\ \A x : x \in Absorbs(L) <=> \E i \in 1 .. n : x \in Absorbs(fold[i])
      /\ \A x : x \in Makes(L) <=> \E i \in 1 .. n : x \in Makes(fold[i])
  <2>1. \A i \in 1 .. n : IsScript(fold[i]) /\ ~ Restarts(fold[i])
    BY <1>1
  <2>2. /\ IsScript(L)
        /\ Draws(L) = UNION {Draws(fold[i]) : i \in 1 .. n}
        /\ Absorbs(L) = UNION {Absorbs(fold[i]) : i \in 1 .. n}
        /\ Makes(L) = UNION {Makes(fold[i]) : i \in 1 .. n}
    BY <2>1, RoundsSets
  <2> HIDE DEF L
  <2> QED BY <2>2
<1> HIDE DEF L
<1>3. Draws(L) = FirstAlphas(n)
  <2>1. \A i \in 1 .. n : \A x : x \in Draws(fold[i]) <=> x = FriAlpha[i - 1]
    BY <1>1
  <2>2. \A x : x \in Draws(L) <=> \E i \in 1 .. n : x = FriAlpha[i - 1]
    BY <1>2, <2>1
  <2>3. ASSUME NEW i \in 0 .. n - 1 PROVE i + 1 \in 1 .. n /\ (i + 1) - 1 = i
    OBVIOUS
  <2>4. \A i \in 1 .. n : i - 1 \in 0 .. n - 1
    OBVIOUS
  <2>5. \A x : x \in FirstAlphas(n) => x \in Draws(L)
    BY <2>2, <2>3 DEF FirstAlphas
  <2>6. \A x : x \in Draws(L) => x \in FirstAlphas(n)
    BY <2>2, <2>4 DEF FirstAlphas
  <2> QED BY <2>5, <2>6
<1>4. Absorbs(L) = Commitments(n)
  <2>1. \A i \in 1 .. n : \A x : x \in Absorbs(fold[i]) <=> x = FriCommitment[i]
    BY <1>1
  <2>2. \A x : x \in Absorbs(L) <=> \E i \in 1 .. n : x = FriCommitment[i]
    BY <1>2, <2>1
  <2> QED BY <2>2 DEF Commitments
<1>5. Makes(L) = Commitments(n)
  <2>1. \A i \in 1 .. n : \A x : x \in Makes(fold[i]) <=> x = FriCommitment[i]
    BY <1>1
  <2>2. \A x : x \in Makes(L) <=> \E i \in 1 .. n : x = FriCommitment[i]
    BY <1>2, <2>1
  <2> QED BY <2>2 DEF Commitments
<1> QED BY <1>2, <1>3, <1>4, <1>5 DEF Folds, L, fold

LEMMA M31ProverSets ==
  ASSUME NEW n \in Nat
  PROVE  /\ IsScript(M31Prove(n))
         /\ Draws(M31Prove(n)) = {"alpha", "query_indices"} \cup FirstAlphas(n)
         /\ Absorbs(M31Prove(n)) = {"trace_commitment", "quotient_commitment", "fri_last_layer"}
            \cup Commitments(n)
         /\ Makes(M31Prove(n)) = {"public_inputs", "trace_commitment", "quotient_commitment",
                                  "fri_last_layer",
                                  "query_indices", "trace_decommitment", "quotient_decommitment"}
                                   \cup Commitments(n) \cup Openings(n)
<1> DEFINE A == make({"public_inputs"}, {}) \o commit("trace_commitment", {})
                  \o draw("alpha") \o commit("quotient_commitment", {"alpha"})
           F == Folds(n)
           c == commit("fri_last_layer", {FriAlpha[n - 1]})
           d == draw("query_indices")
           m == make({"query_indices"}, {"query_indices"})
           o == make({"trace_decommitment", "quotient_decommitment"} \cup Openings(n),
                     {"query_indices"})
           P1 == A \o F
           P2 == P1 \o c
           P3 == P2 \o d
           P4 == P3 \o m
           P5 == P4 \o o
<1>1. M31Prove(n) = P5
  BY DEF M31Prove
<1>2. /\ IsScript(A) /\ Draws(A) = {"alpha"} /\ Absorbs(A) = {"trace_commitment", "quotient_commitment"}
      /\ Makes(A) = {"public_inputs", "trace_commitment", "quotient_commitment"}
  BY ScriptTable, DrawsTable, AbsorbsTable, MakesTable
<1>3. /\ IsScript(F) /\ Draws(F) = FirstAlphas(n) /\ Absorbs(F) = Commitments(n)
           /\ Makes(F) = Commitments(n)
  BY FoldsSets
<1>4. IsScript(c) /\ Draws(c) = {} /\ Absorbs(c) = {"fri_last_layer"} /\ Makes(c) = {"fri_last_layer"}
  BY CommitLaws
<1>5. IsScript(d) /\ Draws(d) = {"query_indices"} /\ Absorbs(d) = {} /\ Makes(d) = {}
  BY DrawLaws
<1>6. IsScript(m) /\ Draws(m) = {} /\ Absorbs(m) = {} /\ Makes(m) = {"query_indices"}
  BY MakeLaws
<1>7. /\ IsScript(o) /\ Draws(o) = {} /\ Absorbs(o) = {}
      /\ Makes(o) = {"trace_decommitment", "quotient_decommitment"} \cup Openings(n)
  BY MakeLaws
<1> HIDE DEF A, F, c, d, m, o
<1>8. /\ IsScript(P1) /\ Draws(P1) = Draws(A) \cup Draws(F)
      /\ Absorbs(P1) = Absorbs(A) \cup Absorbs(F) /\ Makes(P1) = Makes(A) \cup Makes(F)
  BY <1>2, <1>3, Joins, SetsJoin
<1> HIDE DEF P1
<1>9. /\ IsScript(P2) /\ Draws(P2) = Draws(P1) \cup Draws(c)
      /\ Absorbs(P2) = Absorbs(P1) \cup Absorbs(c) /\ Makes(P2) = Makes(P1) \cup Makes(c)
  <2>1. IsScript(P1) /\ IsScript(c)
    BY <1>4, <1>8
  <2> QED BY <2>1, Joins, SetsJoin
<1> HIDE DEF P2
<1>10. /\ IsScript(P3) /\ Draws(P3) = Draws(P2) \cup Draws(d)
       /\ Absorbs(P3) = Absorbs(P2) \cup Absorbs(d) /\ Makes(P3) = Makes(P2) \cup Makes(d)
  <2>1. IsScript(P2) /\ IsScript(d)
    BY <1>5, <1>9
  <2> QED BY <2>1, Joins, SetsJoin
<1> HIDE DEF P3
<1>11. /\ IsScript(P4) /\ Draws(P4) = Draws(P3) \cup Draws(m)
       /\ Absorbs(P4) = Absorbs(P3) \cup Absorbs(m) /\ Makes(P4) = Makes(P3) \cup Makes(m)
  <2>1. IsScript(P3) /\ IsScript(m)
    BY <1>6, <1>10
  <2> QED BY <2>1, Joins, SetsJoin
<1> HIDE DEF P4
<1>12. /\ IsScript(P5) /\ Draws(P5) = Draws(P4) \cup Draws(o)
       /\ Absorbs(P5) = Absorbs(P4) \cup Absorbs(o) /\ Makes(P5) = Makes(P4) \cup Makes(o)
  <2>1. IsScript(P4) /\ IsScript(o)
    BY <1>7, <1>11
  <2> QED BY <2>1, Joins, SetsJoin
<1> HIDE DEF P5
<1>13. Draws(P5) = {"alpha", "query_indices"} \cup FirstAlphas(n)
  BY <1>2, <1>3, <1>4, <1>5, <1>6, <1>7, <1>8, <1>9, <1>10, <1>11, <1>12
<1>14. Absorbs(P5) = {"trace_commitment", "quotient_commitment", "fri_last_layer"} \cup Commitments(n)
  BY <1>2, <1>3, <1>4, <1>5, <1>6, <1>7, <1>8, <1>9, <1>10, <1>11, <1>12
<1>15. Makes(P5) = {"public_inputs", "trace_commitment", "quotient_commitment", "fri_last_layer",
                    "query_indices", "trace_decommitment", "quotient_decommitment"}
                     \cup Commitments(n) \cup Openings(n)
  BY <1>2, <1>3, <1>4, <1>5, <1>6, <1>7, <1>8, <1>9, <1>10, <1>11, <1>12
<1> QED BY <1>1, <1>12, <1>13, <1>14, <1>15

\* Prover and verifier draw what the lean script draws, from the same states;
\* the prover folds once more without a challenge, the verifier draws one it
\* does not use.
LEMMA M31ProverAlike ==
  ASSUME NEW n \in Nat
  PROVE  Alike(M31Lean(n), M31Prove(n))
<1> DEFINE O == M31Opening
           X == make({"public_inputs"}, {}) \o commit("trace_commitment", {})
                  \o draw("alpha") \o commit("quotient_commitment", {"alpha"})
           L == Layers(n)
           F == Folds(n)
           l == draw(FriAlpha[n])
           x == mix("fri_last_layer")
           c == commit("fri_last_layer", {FriAlpha[n - 1]})
           d == draw("query_indices")
           m == make({"query_indices"}, {"query_indices"})
           o == make({"trace_decommitment", "quotient_decommitment"} \cup Openings(n),
                     {"query_indices"})
<1>1. M31Lean(n) = O \o L \o x \o d /\ M31Prove(n) = X \o F \o c \o d \o m \o o
  BY DEF M31Lean, M31Prove
<1>2. Alike(O, X)
  <2> DEFINE t == commit("trace_commitment", {})
             q == commit("quotient_commitment", {"alpha"})
  <2>1. IsScript(t) /\ IsScript(q)
    BY ScriptTable
  <2>2. Alike(t, t) /\ Alike(q, q)
    BY <2>1 DEF Alike
  <2> HIDE DEF t, q
  <2>3. Alike(t, make({"public_inputs"}, {}) \o t)
    BY <2>2, SilentTable, SilentJoin
  <2>4. Alike(t \o draw("alpha"), make({"public_inputs"}, {}) \o t \o draw("alpha"))
    BY <2>3, AlikeTable
  <2>5. Alike(t \o draw("alpha") \o q, make({"public_inputs"}, {}) \o t \o draw("alpha") \o q)
    BY <2>2, <2>4, AlikeJoin
  <2> QED BY <2>5 DEF t, q, M31Opening
<1>3. L = F \o l /\ IsScript(F)
  <2> DEFINE dd == [i \in 0 .. n |-> draw(FriAlpha[i])]
             cc == [i \in 1 .. n |-> commit(FriCommitment[i], {FriAlpha[i - 1]})]
             pp == [i \in 1 .. n |-> Layer(i)]
             qq == [i \in 1 .. n |-> draw(FriAlpha[i - 1])
                    \o commit(FriCommitment[i], {FriAlpha[i - 1]})]
  <2>1. dd[0] = draw(FriAlpha[0]) /\ dd[n] = l /\ \A i \in 1 .. n : i - 1 \in 0 .. n
    OBVIOUS
  <2>2. (\A i \in 0 .. n : IsScript(dd[i])) /\ (\A i \in 1 .. n : IsScript(cc[i]))
    BY ScriptTable
  <2>3. \A i \in 1 .. n : pp[i] = cc[i] \o dd[i]
    BY DEF Layer
  <2>4. \A i \in 1 .. n : qq[i] = dd[i - 1] \o cc[i]
    BY <2>1
  <2>5. L = draw(FriAlpha[0]) \o rounds(n, pp) /\ F = rounds(n, qq)
    BY DEF Layers, Folds
  <2> HIDE DEF dd, cc, pp, qq, L, F, l
  <2>6. dd[0] \o rounds(n, pp) = rounds(n, qq) \o dd[n] /\ IsScript(rounds(n, qq))
    <3>1. Shifts(n, dd, cc, pp, qq)
      BY <2>2, <2>3, <2>4 DEF Shifts
    <3> QED BY <3>1, RoundsShift
  <2> QED BY <2>1, <2>5, <2>6
<1>4. IsScript(l) /\ IsScript(x) /\ IsScript(c) /\ Alike(l \o x, c) /\ Alike(d, d)
      /\ Silent(m) /\ Silent(o) /\ IsScript(l \o x)
  BY DrawForgotten, ScriptTable, AlikeTable, SilentTable
<1>5. IsScript(O) /\ IsScript(X)
  BY <1>2 DEF Alike
<1> HIDE DEF O, X, L, F, l, x, c, d, m, o
<1> DEFINE lx == l \o x
           Fc == F \o c
<1>6. IsScript(F) /\ IsScript(l) /\ IsScript(x)
  BY <1>3, <1>4
<1>7. L \o x = F \o lx
  BY <1>3, <1>6, Regroup
<1>8. Alike(F, F) /\ Alike(lx, c) /\ IsScript(lx)
  BY <1>3, <1>4 DEF Alike
<1> HIDE DEF lx
<1>9. Alike(F \o lx, Fc)
  BY <1>8, AlikeJoin
<1>10. IsScript(O) /\ IsScript(L) /\ IsScript(x) /\ IsScript(Fc) /\ IsScript(L \o x)
  <2>1. IsScript(L)
    BY <1>3, <1>6, Joins
  <2>2. IsScript(L \o x)
    BY <1>6, <2>1, Joins
  <2> QED BY <1>5, <1>6, <1>9, <2>1, <2>2 DEF Alike
<1>11. (O \o L) \o x = O \o (L \o x)
  <2>1. IsScript(O) /\ IsScript(L) /\ IsScript(x)
    BY <1>10
  <2> QED BY <2>1, Regroup
<1>12. (X \o F) \o c = X \o Fc
  <2>1. IsScript(X) /\ IsScript(F) /\ IsScript(c)
    BY <1>3, <1>4, <1>5
  <2> QED BY <2>1, Regroup
<1>13. Alike(O \o (L \o x), X \o Fc)
  BY <1>2, <1>7, <1>9, AlikeJoin
<1>14. Alike(O \o L \o x \o d, X \o F \o c \o d)
  BY <1>4, <1>11, <1>12, <1>13, AlikeJoin
<1>15. Alike(O \o L \o x \o d, X \o F \o c \o d \o m)
  BY <1>4, <1>14, SilentJoin
<1>16. Alike(O \o L \o x \o d, X \o F \o c \o d \o m \o o)
  BY <1>4, <1>15, SilentJoin
<1> QED BY <1>1, <1>16

LEMMA M31VerifierAlike ==
  ASSUME NEW n \in Nat
  PROVE  Alike(M31Lean(n), M31Verify(n))
<1> DEFINE O == M31Opening
           X == loose({"public_inputs"}) \o mix("trace_commitment") \o draw("alpha")
                  \o mix("quotient_commitment")
           a == draw(FriAlpha[0])
           R == rounds(n, [i \in 1 .. n |-> Layer(i)])
           M == MixLayers(n)
           x == mix("fri_last_layer")
           d == draw("query_indices")
           k1 == check({"query_indices"}, {"query_indices"})
           k2 == check({"trace_commitment", "trace_decommitment"}, {"query_indices"})
           k3 == check({"quotient_commitment", "quotient_decommitment"}, {"query_indices"})
           k4 == check((Commitments(n) \cup Openings(n)), {"query_indices"})
           k5 == check({"quotient_decommitment", FriDecommitment[1]}, {"query_indices", FriAlpha[0]})
           k6 == check((Openings(n) \cup {"fri_last_layer"}), ({"query_indices"} \cup FirstAlphas(n)))
<1>1. /\ M31Lean(n) = O \o (a \o R) \o x \o d
      /\ M31Verify(n) = X \o a \o M \o x \o d \o k1 \o k2 \o k3 \o k4 \o k5 \o k6
  BY DEF M31Lean, Layers, M31Verify
<1>2. Alike(O, X)
  <2> DEFINE t == commit("trace_commitment", {})
             q == commit("quotient_commitment", {"alpha"})
             y == mix("trace_commitment")
             z == mix("quotient_commitment")
  <2>1. Alike(t, y) /\ Alike(q, z)
    BY AlikeTable
  <2> HIDE DEF t, q, y, z
  <2>2. Alike(t, loose({"public_inputs"}) \o y)
    BY <2>1, SilentTable, SilentJoin
  <2>3. Alike(t \o draw("alpha"), loose({"public_inputs"}) \o y \o draw("alpha"))
    BY <2>2, AlikeTable
  <2>4. Alike(t \o draw("alpha") \o q, loose({"public_inputs"}) \o y \o draw("alpha") \o z)
    BY <2>1, <2>3, AlikeJoin
  <2> QED BY <2>4 DEF t, q, y, z, M31Opening
<1>3. Alike(R, M)
  <2> DEFINE pp == [i \in 1 .. n |-> Layer(i)]
             vv == [i \in 1 .. n |-> mix(FriCommitment[i]) \o draw(FriAlpha[i])]
  <2>1. ASSUME NEW i \in 1 .. n PROVE Alike(pp[i], vv[i])
    <3>1. pp[i] = commit(FriCommitment[i], {FriAlpha[i - 1]}) \o draw(FriAlpha[i])
          /\ vv[i] = mix(FriCommitment[i]) \o draw(FriAlpha[i])
      BY DEF Layer
    <3> HIDE DEF pp, vv
    <3> QED BY <3>1, AlikeTable
  <2> HIDE DEF pp, vv
  <2>2. Alike(rounds(n, pp), rounds(n, vv))
    BY <2>1, RoundsAlike
  <2> QED BY <2>2 DEF MixLayers, pp, vv
<1>4. Alike(a, a) /\ Alike(x, x) /\ Alike(d, d)
  BY AlikeTable
<1>5. Silent(k1) /\ Silent(k2) /\ Silent(k3) /\ Silent(k4) /\ Silent(k5) /\ Silent(k6)
  BY SilentTable
<1> HIDE DEF O, X, a, R, M, x, d, k1, k2, k3, k4, k5, k6
<1>6. IsScript(O) /\ IsScript(a) /\ IsScript(R)
  BY <1>2, <1>3, <1>4 DEF Alike
<1>7. (O \o a) \o R = O \o (a \o R)
  BY <1>6, Regroup
<1>8. Alike(O \o a, X \o a)
  BY <1>2, <1>4, AlikeJoin
<1>9. Alike(O \o a \o R, X \o a \o M)
  BY <1>3, <1>8, AlikeJoin
<1>10. Alike(O \o (a \o R) \o x, X \o a \o M \o x)
  BY <1>4, <1>7, <1>9, AlikeJoin
<1> DEFINE Z == O \o (a \o R) \o x \o d
           V0 == X \o a \o M \o x \o d
           V1 == V0 \o k1
           V2 == V1 \o k2
           V3 == V2 \o k3
           V4 == V3 \o k4
           V5 == V4 \o k5
<1>11. Alike(Z, V0)
  BY <1>4, <1>10, AlikeJoin
<1> HIDE DEF Z, V0
<1>12. Alike(Z, V1)
  BY <1>5, <1>11, SilentJoin
<1> HIDE DEF V1
<1>13. Alike(Z, V2)
  BY <1>5, <1>12, SilentJoin
<1> HIDE DEF V2
<1>14. Alike(Z, V3)
  BY <1>5, <1>13, SilentJoin
<1> HIDE DEF V3
<1>15. Alike(Z, V4)
  BY <1>5, <1>14, SilentJoin
<1> HIDE DEF V4
<1>16. Alike(Z, V5)
  BY <1>5, <1>15, SilentJoin
<1> HIDE DEF V5
<1>17. Alike(Z, V5 \o k6)
  BY <1>5, <1>16, SilentJoin
<1> QED BY <1>1, <1>17 DEF Z, V0, V1, V2, V3, V4, V5

LEMMA M31Paired ==
  ASSUME NEW s \in Shapes, s.protocol = "m31"
  PROVE  Paired(s, M31Lean(M31FriLayers(s)))
<1> DEFINE n == M31FriLayers(s)
           L == M31Lean(n)
           P == M31Prove(n)
           V == M31Verify(n)
           D == States(L)
<1>1. n \in 1 .. MaxLayers /\ n \in Nat \ {0} /\ n \in Nat /\ \A i \in 1 .. n : i \in 0 .. MaxLayers
  BY ShapesAssumption, LayersAssumption
<1>2. /\ ProverScript(s) = P /\ Unbound(s) = {"public_inputs"}
      /\ \A f : VerifierScript(Received(s, f)) = V
  <2>1. ASSUME NEW f PROVE VerifierScript(Received(s, f)) = V
    <3>1. Received(s, f).protocol = "m31" /\ Received(s, f).log_n = s.log_n
      BY DEF Received
    <3>2. M31FriLayers(Received(s, f)) = n
      BY <3>1 DEF M31FriLayers
    <3> HIDE DEF n
    <3>3. verify(Received(s, f)) = M31Verify(n)
      BY <3>2, M31Scripts
    <3> QED BY <3>1, <3>3 DEF VerifierScript
  <2>2. ProverScript(s) = P
    BY M31Scripts DEF ProverScript
  <2> QED BY <2>1, <2>2 DEF Unbound, Unread, Overlooked
<1> HIDE DEF n
<1>3. Orderly(L, s)
  <2>1. /\ Section(L, {"alpha"} \cup {FriAlpha[i] : i \in 0 .. n} \cup {"query_indices"},
                   {"trace_commitment", "quotient_commitment"} \cup Commitments(n)
                   \cup {"fri_last_layer"},
                   {"trace_commitment", "quotient_commitment"} \cup Commitments(n))
        /\ Bound(L, s, {})
    BY <1>1, M31Section DEF n, Commitments
  <2>2. {"none", "damaged"} \cap Commitments(n) = {}
    BY <1>1, NamesAssumption DEF Commitments
  <2>3. {"none", "damaged"} \cap Absorbs(L) = {}
    BY <2>1, <2>2 DEF Section
  <2> QED BY <2>1, <2>3 DEF Section, Orderly
<1>4. Says(L, new, "none", D)
  BY <1>3, StatesLaws
<1>5. Alike(L, P) /\ Alike(L, V)
  BY <1>1, M31ProverAlike, M31VerifierAlike
<1>6. /\ IsScript(P) /\ Draws(P) = {"alpha", "query_indices"} \cup FirstAlphas(n)
      /\ Absorbs(P) = {"trace_commitment", "quotient_commitment", "fri_last_layer"} \cup Commitments(n)
      /\ Makes(P) = {"public_inputs", "trace_commitment", "quotient_commitment", "fri_last_layer",
                     "query_indices", "trace_decommitment", "quotient_decommitment"}
                      \cup Commitments(n) \cup Openings(n)
  BY <1>1, M31ProverSets
<1>7. Account(V, {}, {"alpha", "query_indices", FriAlpha[0]} \cup LaterAlphas(n),
              {"query_indices", "trace_commitment", "trace_decommitment", "quotient_commitment",
               "quotient_decommitment", "fri_last_layer", FriDecommitment[1]} \cup Commitments(n)
               \cup Openings(n),
              {"query_indices", FriAlpha[0]} \cup FirstAlphas(n))
  BY <1>1, M31Account
<1>8. FriAlpha[0] \in FirstAlphas(n) /\ FriDecommitment[1] \in Openings(n)
  <2>1. 0 \in 0 .. n - 1 /\ 1 \in 1 .. n
    BY <1>1
  <2> QED BY <2>1 DEF FirstAlphas, Openings
<1>9. "none" \notin Commitments(n) /\ "none" \notin Openings(n)
  BY <1>1, NamesAssumption DEF Commitments, Openings
<1> HIDE DEF D, P, V
<1>10. Says(P, new, "none", D) /\ Says(V, new, "none", D)
  BY <1>4, <1>5, AlikeSays
<1>11. Tells(P, D)
  BY <1>6, <1>9, <1>10 DEF Tells
<1>12. Listens(V)
  BY <1>7 DEF Listens, Account
<1>13. Agrees(V, P, D)
  BY <1>6, <1>7, <1>8, <1>9, <1>10 DEF Agrees, Account
<1>14. \A g \in Makes(P) \ {"public_inputs"} : Finds(V, g, D)
  BY <1>6, <1>7 DEF Finds, Account
<1> HIDE DEF L
<1>15. Paired(s, L)
  BY <1>2, <1>3, <1>11, <1>12, <1>13, <1>14, PairedByOne DEF D
<1> QED BY <1>15 DEF L, n

LEMMA AllPaired ==
  ASSUME NEW s \in Shapes
  PROVE  \E L : Paired(s, L)
<1>1. s.protocol \in {"cairo", "m31", "fib252", "air252", "multi252", "cairo252"}
  BY ShapesAssumption
<1>2. CASE s.protocol = "cairo"
  BY <1>2, CairoPaired
<1>3. CASE s.protocol = "m31"
  BY <1>3, M31Paired
<1>4. CASE s.protocol = "fib252"
  BY <1>4, FibPaired
<1>5. CASE s.protocol = "air252"
  BY <1>5, AirPaired
<1>6. CASE s.protocol = "multi252"
  BY <1>6, MultiPaired
<1>7. CASE s.protocol = "cairo252"
  BY <1>7, Cairo252Paired
<1> QED BY <1>1, <1>2, <1>3, <1>4, <1>5, <1>6, <1>7

-----------------------------------------------------------------------------
\* What a verifier has seen when it has gone through n steps of its script.

\* Step i is the last of the first n that draws c.
Latest(V, c, i, n) ==
  /\ i \in 1 .. n /\ Squeezing(V[i]) /\ V[i].challenge = c
  /\ \A k \in i + 1 .. n : ~ (Squeezing(V[k]) /\ V[k].challenge = c)

\* Challenge c is the prover's, of whose challenges dr has the channels.
Same(V, f, dr, c, n) ==
  \E i \in 1 .. n : Latest(V, c, i, n) /\ c \in DOMAIN dr /\ dr[c] = Run(V, new, f)[i - 1]

\* Every check holds.
Passed(V, f, dr, n) ==
  \A j \in 1 .. n : V[j].op = "check" =>
    /\ f \notin V[j].fields
    /\ \A c \in V[j].challenges : Same(V, f, dr, c, j - 1)

LEMMA LatestUnique ==
  ASSUME NEW V, NEW c, NEW n \in Nat, NEW i, NEW j, Latest(V, c, i, n), Latest(V, c, j, n)
  PROVE  i = j
<1>1. i \in 1 .. n /\ j \in 1 .. n
  BY DEF Latest
<1>2. CASE i < j
  <2>1. j \in i + 1 .. n
    BY <1>1, <1>2
  <2> QED BY <2>1 DEF Latest
<1>3. CASE j < i
  <2>1. i \in j + 1 .. n
    BY <1>1, <1>3
  <2> QED BY <2>1 DEF Latest
<1> QED BY <1>1, <1>2, <1>3

LEMMA LatestExists ==
  ASSUME NEW V, NEW c, NEW n \in Nat, NEW i \in 1 .. n, Squeezing(V[i]), V[i].challenge = c
  PROVE  \E j \in 1 .. n : Latest(V, c, j, n)
<1> DEFINE S == {k \in 0 .. n : n - k \in 1 .. n /\ Squeezing(V[n - k]) /\ V[n - k].challenge = c}
<1>1. n - i \in S
  <2>1. n - i \in 0 .. n /\ n - (n - i) = i
    OBVIOUS
  <2> QED BY <2>1
<1>2. S \subseteq Nat
  OBVIOUS
<1>3. PICK k \in S : \A l \in S : k <= l
  <2> HIDE DEF S
  <2> QED BY <1>1, <1>2, LeastNumber
<1>4. k \in 0 .. n /\ n - k \in 1 .. n /\ Squeezing(V[n - k]) /\ V[n - k].challenge = c
  BY <1>3
<1>5. ASSUME NEW l \in (n - k) + 1 .. n, Squeezing(V[l]), V[l].challenge = c PROVE FALSE
  <2>1. n - l \in 0 .. n /\ n - (n - l) = l /\ l \in 1 .. n /\ ~ (k <= n - l)
    BY <1>4
  <2>2. n - l \in S
    BY <1>5, <2>1
  <2> HIDE DEF S
  <2> QED BY <1>3, <2>1, <2>2
<1> QED BY <1>4, <1>5 DEF Latest

LEMMA SameDrawn ==
  ASSUME NEW V, NEW f, NEW dr, NEW k \in Nat \ {0}, NEW c, Squeezing(V[k]), V[k].challenge = c
  PROVE  Same(V, f, dr, c, k) <=> c \in DOMAIN dr /\ dr[c] = Run(V, new, f)[k - 1]
<1>1. Latest(V, c, k, k)
  BY DEF Latest
<1>2. \A i \in 1 .. k : Latest(V, c, i, k) => i = k
  BY <1>1, LatestUnique
<1>3. k \in 1 .. k
  OBVIOUS
<1> QED BY <1>1, <1>2, <1>3 DEF Same

LEMMA SameKept ==
  ASSUME NEW V, NEW f, NEW dr, NEW k \in Nat \ {0}, NEW c, ~ (Squeezing(V[k]) /\ V[k].challenge = c)
  PROVE  Same(V, f, dr, c, k) <=> Same(V, f, dr, c, k - 1)
<1>1. ASSUME NEW i \in 1 .. k - 1 PROVE Latest(V, c, i, k) <=> Latest(V, c, i, k - 1)
  <2>1. /\ \A l : l \in i + 1 .. k <=> l \in i + 1 .. k - 1 \/ l = k
        /\ i \in 1 .. k
    OBVIOUS
  <2> QED BY <2>1 DEF Latest
<1>2. ~ Latest(V, c, k, k)
  BY DEF Latest
<1>3. \A i : i \in 1 .. k <=> i \in 1 .. k - 1 \/ i = k
  OBVIOUS
<1> QED BY <1>1, <1>2, <1>3 DEF Same

\* A script that gave each challenge one state.
Unique(D) == \A c, x, y : <<c, x>> \in D /\ <<c, y>> \in D => x = y
Truthful(dr, D) == \A c \in DOMAIN dr : <<c, dr[c]>> \in D

\* Of an intact proof every check holds.
LEMMA IntactPasses ==
  ASSUME NEW V, NEW P, NEW D, Listens(V), Agrees(V, P, D), Unique(D),
         NEW dr, Truthful(dr, D), DOMAIN dr = Draws(P),
         NEW j \in 1 .. Len(V), V[j].op = "check"
  PROVE  /\ "none" \notin V[j].fields
         /\ \A c \in V[j].challenges : Same(V, "none", dr, c, j - 1)
<1>1. "none" \notin V[j].fields
  BY DEF Agrees, Reads, Elems
<1>2. ASSUME NEW c \in V[j].challenges PROVE Same(V, "none", dr, c, j - 1)
  <2>1. Len(V) \in Nat
    BY DEF Listens, IsScript
  <2>2. PICK i \in 1 .. j - 1 : Squeezing(V[i]) /\ V[i].challenge = c
    BY DEF Listens, Ready
  <2>3. j - 1 \in Nat
    BY <2>1
  <2>4. PICK l \in 1 .. j - 1 : Latest(V, c, l, j - 1)
    BY <2>2, <2>3, LatestExists
  <2>5. l \in 1 .. Len(V) /\ Squeezing(V[l]) /\ V[l].challenge = c
    BY <2>1, <2>4 DEF Latest
  <2>6. <<c, Run(V, new, "none")[l - 1]>> \in D
    BY <2>5 DEF Agrees, Says
  <2>7. c \in Uses(V)
    BY DEF Uses, Elems
  <2>8. c \in DOMAIN dr
    BY <2>7 DEF Agrees
  <2>9. dr[c] = Run(V, new, "none")[l - 1]
    BY <2>6, <2>8 DEF Truthful, Unique
  <2> QED BY <2>4, <2>8, <2>9 DEF Same
<1> QED BY <1>1, <1>2

\* A verifier that finds the fault does not get through.
LEMMA FaultStops ==
  ASSUME NEW V, NEW f, NEW D, IsScript(V), Finds(V, f, D), NEW dr, Truthful(dr, D)
  PROVE  ~ Passed(V, f, dr, Len(V))
<1> SUFFICES ASSUME Passed(V, f, dr, Len(V)) PROVE FALSE
  OBVIOUS
<1>1. CASE f \in Reads(V)
  <2>1. PICK j \in 1 .. Len(V) : V[j].op = "check" /\ f \in V[j].fields
    BY <1>1 DEF Reads, Elems
  <2> QED BY <2>1 DEF Passed
<1>2. CASE Refutes(V, new, f, D)
  <2>1. PICK j \in 1 .. Len(V) :
          /\ V[j].op = "check"
          /\ \E c \in V[j].challenges, i \in 1 .. j - 1 :
               /\ Squeezing(V[i]) /\ V[i].challenge = c /\ <<c, Run(V, new, f)[i - 1]>> \notin D
               /\ \A k \in i + 1 .. j - 1 : ~ (Squeezing(V[k]) /\ V[k].challenge = c)
    BY <1>2 DEF Refutes
  <2>2. PICK c \in V[j].challenges, i \in 1 .. j - 1 :
          /\ Squeezing(V[i]) /\ V[i].challenge = c /\ <<c, Run(V, new, f)[i - 1]>> \notin D
          /\ \A k \in i + 1 .. j - 1 : ~ (Squeezing(V[k]) /\ V[k].challenge = c)
    BY <2>1
  <2>3. Latest(V, c, i, j - 1) /\ j - 1 \in Nat
    BY <2>2 DEF Latest, IsScript
  <2>4. Same(V, f, dr, c, j - 1)
    BY <2>1, <2>2 DEF Passed
  <2>5. PICK l \in 1 .. j - 1 : Latest(V, c, l, j - 1) /\ c \in DOMAIN dr
          /\ dr[c] = Run(V, new, f)[l - 1]
    BY <2>4 DEF Same
  <2>6. l = i
    BY <2>3, <2>5, LatestUnique
  <2>7. <<c, dr[c]>> \in D
    BY <2>5 DEF Truthful
  <2> QED BY <2>2, <2>5, <2>6, <2>7
<1> QED BY <1>1, <1>2 DEF Finds

-----------------------------------------------------------------------------
\* The invariant.

Prover == ProverScript(shape)
Verifier == VerifierScript(Received(shape, fault))

\* A script that draws what the prover draws, and the states it draws it from.
Lean(s) == CHOOSE L : Paired(s, L)
Truth(s) == States(Lean(s))

\* The challenges drawn by the first n steps.
DrawnBy(P, n) == {P[i].challenge : i \in {j \in 1 .. n : Squeezing(P[j])}}

Shaped ==
  /\ shape \in Shapes /\ fault \in Faults(shape) /\ step \in Nat \ {0} /\ IsChannel(channel)
  /\ phase \in {"prove", "store", "verify", "done"} /\ verdict \in {"none", "accepted", "refused"}
  /\ made \subseteq Makes(Prover) /\ agreed \subseteq DOMAIN drawn
  /\ phase # "done" => verdict = "none"

\* The prover is where its script is.
Proves ==
  phase = "prove" =>
    /\ step \in 1 .. Len(Prover) /\ channel = Run(Prover, new, "none")[step - 1]
    /\ DOMAIN drawn = DrawnBy(Prover, step - 1)
\* Its challenges are all there when it is done.
Proved ==
  /\ phase \in {"prove", "store"} => fault = Nothing /\ agreed = {}
  /\ phase = "store" => step = 1
  /\ phase # "prove" => DOMAIN drawn = Draws(Prover)
\* The verifier is where its script is, and what it has checked so far held.
Verifies ==
  phase = "verify" =>
    /\ step \in 1 .. Len(Verifier) /\ channel = Run(Verifier, new, fault.field)[step - 1]
    /\ \A c : c \in agreed <=> Same(Verifier, fault.field, drawn, c, step - 1)
    /\ Passed(Verifier, fault.field, drawn, step - 1)
Verified ==
  /\ phase = "done" /\ verdict # "refused" => Passed(Verifier, fault.field, drawn, Len(Verifier))
  /\ verdict = "refused" => fault # Nothing

IInv == Shaped /\ Truthful(drawn, Truth(shape)) /\ Proves /\ Proved /\ Verifies /\ Verified

LEMMA LeanPaired ==
  ASSUME NEW s \in Shapes
  PROVE  Paired(s, Lean(s))
BY AllPaired DEF Lean

\* What the proof of a step needs of a shape.
LEMMA ShapeFacts ==
  ASSUME NEW s \in Shapes
  PROVE  /\ Proving[s] = ProverScript(s)
         /\ \A f \in Faults(s) : Verifying[s][f] = VerifierScript(Received(s, f))
         /\ IsScript(ProverScript(s)) /\ Len(ProverScript(s)) \in Nat \ {0}
         /\ "none" \notin Absorbs(ProverScript(s))
         /\ Says(ProverScript(s), new, "none", Truth(s)) /\ Unique(Truth(s))
         /\ \A c, ch : <<c, ch>> \in Truth(s) => MustPrecede(s, c) \subseteq Absorbed(ch)
         /\ Nothing \in Faults(s)
<1>1. Orderly(Lean(s), s) /\ Tells(ProverScript(s), Truth(s))
  BY LeanPaired DEF Paired, Truth
<1>2. Len(ProverScript(s)) \in Nat \ {0}
  <2>1. IsScript(ProverScript(s)) /\ Draws(ProverScript(s)) # {}
    BY <1>1 DEF Tells
  <2>2. \E i \in 1 .. Len(ProverScript(s)) : TRUE
    BY <2>1 DEF Draws, Elems
  <2>3. Len(ProverScript(s)) \in Nat
    BY <2>1 DEF IsScript
  <2> QED BY <2>2, <2>3
<1>3. /\ \A c, x, y : <<c, x>> \in Truth(s) /\ <<c, y>> \in Truth(s) => x = y
      /\ \A c, ch : <<c, ch>> \in Truth(s) => MustPrecede(s, c) \subseteq Absorbed(ch)
  BY <1>1, StatesLaws DEF Truth
<1>4. Proving[s] = ProverScript(s)
  BY DEF Proving
<1>5. \A f \in Faults(s) : Verifying[s][f] = VerifierScript(Received(s, f))
  BY DEF Verifying
<1>6. Nothing \in Faults(s)
  BY DEF Faults
<1> QED BY <1>1, <1>2, <1>3, <1>4, <1>5, <1>6 DEF Tells, Unique

LEMMA FaultFacts ==
  ASSUME NEW s \in Shapes, NEW f \in Faults(s)
  PROVE  LET V == VerifierScript(Received(s, f))
         IN  /\ Listens(V) /\ IsScript(V) /\ Len(V) \in Nat \ {0}
             /\ f = Nothing => Agrees(V, ProverScript(s), Truth(s))
             /\ f # Nothing /\ f.field \notin Unbound(s) => Finds(V, f.field, Truth(s))
<1> DEFINE V == VerifierScript(Received(s, f))
<1>1. /\ Listens(V)
      /\ f = Nothing => Agrees(V, ProverScript(s), Truth(s))
      /\ f # Nothing /\ f.field \notin Unbound(s) => Finds(V, f.field, Truth(s))
  BY LeanPaired DEF Paired, Truth
<1> HIDE DEF V
<1>2. IsScript(V) /\ Len(V) \in Nat \ {0}
  <2>1. IsScript(V) /\ Draws(V) # {}
    BY <1>1 DEF Listens
  <2>2. \E i \in 1 .. Len(V) : TRUE
    BY <2>1 DEF Draws, Elems
  <2>3. Len(V) \in Nat
    BY <2>1 DEF IsScript
  <2> QED BY <2>1, <2>2, <2>3
<1>3. /\ Listens(V) /\ IsScript(V) /\ Len(V) \in Nat \ {0}
      /\ f = Nothing => Agrees(V, ProverScript(s), Truth(s))
      /\ f # Nothing /\ f.field \notin Unbound(s) => Finds(V, f.field, Truth(s))
  BY <1>1, <1>2
<1> QED BY <1>3 DEF V

LEMMA DrawnBySteps ==
  ASSUME NEW P
  PROVE  /\ DrawnBy(P, 0) = {}
         /\ \A n \in Nat : DrawnBy(P, n + 1) =
              DrawnBy(P, n) \cup (IF Squeezing(P[n + 1]) THEN {P[n + 1].challenge} ELSE {})
         /\ DrawnBy(P, Len(P)) = Draws(P)
<1>1. DrawnBy(P, 0) = {}
  BY DEF DrawnBy
<1>2. ASSUME NEW n \in Nat
      PROVE  DrawnBy(P, n + 1) = DrawnBy(P, n)
      \cup (IF Squeezing(P[n + 1]) THEN {P[n + 1].challenge} ELSE {})
  <2>1. \A i : i \in 1 .. n + 1 <=> i \in 1 .. n \/ i = n + 1
    OBVIOUS
  <2> QED BY <2>1 DEF DrawnBy
<1>3. DrawnBy(P, Len(P)) = Draws(P)
  BY DEF DrawnBy, Draws, Elems
<1> QED BY <1>1, <1>2, <1>3

\* One step of a script is one step of its run.
LEMMA RunStep ==
  ASSUME NEW P, IsScript(P), NEW bad
  PROVE  /\ Run(P, new, bad)[0] = new
         /\ \A i \in 0 .. Len(P) : IsChannel(Run(P, new, bad)[i])
         /\ \A i \in 1 .. Len(P) :
              Run(P, new, bad)[i] = StepChannel(P[i], Run(P, new, bad)[i - 1], bad)
BY AbsorbedLaws, RunExists DEF IsRun

LEMMA InitHolds ==
  ASSUME Init
  PROVE  IInv
<1>1. shape \in Shapes /\ IsChannel(channel) /\ channel = new
  BY AbsorbedLaws DEF Init
<1>2. /\ IsScript(Prover) /\ Len(Prover) \in Nat \ {0} /\ Nothing \in Faults(shape)
      /\ Run(Prover, new, "none")[0] = new /\ DrawnBy(Prover, 0) = {}
  BY <1>1, ShapeFacts, RunStep, DrawnBySteps DEF Prover
<1>3. DOMAIN drawn = {}
  BY DEF Init
<1>4. Shaped
  BY <1>1, <1>2, <1>3 DEF Init, Shaped
<1>5. Truthful(drawn, Truth(shape))
  BY <1>3 DEF Truthful
<1>6. Proves
  BY <1>1, <1>2, <1>3 DEF Init, Proves
<1>7. Proved /\ Verifies /\ Verified
  BY DEF Init, Proved, Verifies, Verified
<1> QED BY <1>4, <1>5, <1>6, <1>7 DEF IInv

LEMMA ProveHolds ==
  ASSUME IInv, Prove
  PROVE  IInv'
<1> DEFINE op == Prover[step]
           r == Run(Prover, new, "none")
<1>1. /\ shape \in Shapes /\ phase = "prove" /\ step \in 1 .. Len(Prover) /\ channel = r[step - 1]
      /\ DOMAIN drawn = DrawnBy(Prover, step - 1) /\ fault = Nothing /\ agreed = {}
      /\ made \subseteq Makes(Prover) /\ verdict = "none" /\ IsChannel(channel)
  BY DEF IInv, Shaped, Proves, Proved, Prove
<1>2. /\ Proving[shape] = Prover /\ IsScript(Prover) /\ Len(Prover) \in Nat \ {0}
      /\ "none" \notin Absorbs(Prover) /\ Says(Prover, new, "none", Truth(shape))
      /\ Nothing \in Faults(shape)
  BY <1>1, ShapeFacts DEF Prover
<1>3. /\ Make(op) \/ Absorb(op) \/ Draw(op) \/ NewChannel(op)
      /\ IF step = Len(Prover) THEN phase' = "store" /\ step' = 1
         ELSE step' = step + 1 /\ UNCHANGED phase
      /\ UNCHANGED <<shape, fault, agreed, verdict>>
  BY <1>2 DEF Prove
<1>4. r[step] = StepChannel(op, channel, "none") /\ IsChannel(r[step])
  <2>1. step \in 0 .. Len(Prover)
    BY <1>1, <1>2
  <2> QED BY <1>1, <1>2, <2>1, RunStep
<1>5. DrawnBy(Prover, step) = DOMAIN drawn \cup (IF Squeezing(op) THEN {op.challenge} ELSE {})
  <2>1. step - 1 \in Nat /\ (step - 1) + 1 = step
    BY <1>1, <1>2
  <2> QED BY <1>1, <2>1, DrawnBySteps
<1>6. op \in Elems(Prover)
  BY <1>1 DEF Elems
<1>7. Squeezing(op) => <<op.challenge, channel>> \in Truth(shape)
  BY <1>1, <1>2 DEF Says
<1>8. Truthful(drawn, Truth(shape))
  BY DEF IInv
<1> HIDE DEF op, r
<1>9. /\ channel' = StepChannel(op, channel, "none")
      /\ DOMAIN drawn' = DOMAIN drawn \cup (IF Squeezing(op) THEN {op.challenge} ELSE {})
      /\ Truthful(drawn', Truth(shape)) /\ made' \subseteq Makes(Prover)
  <2>1. CASE Make(op)
    <3>1. op.op = "make" /\ made' = made \cup op.fields /\ UNCHANGED <<channel, drawn>>
      BY <2>1 DEF Make
    <3>2. op.fields \subseteq Makes(Prover)
      BY <1>6, <3>1 DEF Makes
    <3>3. ~ Squeezing(op) /\ StepChannel(op, channel, "none") = channel
      BY <3>1 DEF Squeezing, StepChannel
    <3> QED BY <1>1, <1>8, <3>1, <3>2, <3>3
  <2>2. CASE Absorb(op)
    <3>1. op.op = "mix" /\ channel' = mix_digest(channel, op.field) /\ UNCHANGED <<made, drawn>>
      BY <2>2 DEF Absorb
    <3>2. op.field # "none"
      BY <1>2, <1>6, <3>1 DEF Absorbs
    <3>3. ~ Squeezing(op) /\ StepChannel(op, channel, "none") = channel'
      BY <3>1, <3>2 DEF Squeezing, StepChannel
    <3> QED BY <1>1, <1>8, <3>1, <3>3
  <2>3. CASE Draw(op)
    <3>1. /\ op.op \in {"draw", "peek"}
          /\ drawn' = [c \in DOMAIN drawn \cup {op.challenge} |->
                         IF c = op.challenge THEN channel ELSE drawn[c]]
          /\ channel' = IF op.op = "draw" THEN squeeze(channel) ELSE channel
          /\ UNCHANGED made
      BY <2>3 DEF Draw
    <3>2. Squeezing(op) /\ StepChannel(op, channel, "none") = channel'
      BY <3>1 DEF Squeezing, StepChannel
    <3>3. DOMAIN drawn' = DOMAIN drawn \cup {op.challenge}
      BY <3>1
    <3>4. Truthful(drawn', Truth(shape))
      BY <1>7, <1>8, <3>1, <3>2 DEF Truthful
    <3> QED BY <1>1, <3>1, <3>2, <3>3, <3>4
  <2>4. CASE NewChannel(op)
    <3>1. op.op = "restart" /\ channel' = new /\ UNCHANGED <<made, drawn>>
      BY <2>4 DEF NewChannel
    <3>2. ~ Squeezing(op) /\ StepChannel(op, channel, "none") = new
      BY <3>1 DEF Squeezing, StepChannel
    <3> QED BY <1>1, <1>8, <3>1, <3>2
  <2> QED BY <1>3, <2>1, <2>2, <2>3, <2>4
<1>10. channel' = r[step] /\ IsChannel(channel') /\ DOMAIN drawn' = DrawnBy(Prover, step)
  BY <1>4, <1>5, <1>9
<1>11. Prover' = Prover /\ Truth(shape)' = Truth(shape)
  BY <1>3 DEF Prover
<1>12. Shaped'
  <2>1. step' \in Nat \ {0} /\ phase' \in {"prove", "store"}
    BY <1>1, <1>2, <1>3
  <2>2. agreed' \subseteq DOMAIN drawn'
    BY <1>1, <1>3
  <2>3. shape' \in Shapes /\ fault' \in Faults(shape') /\ verdict' = "none"
    BY <1>1, <1>2, <1>3
  <2>4. made' \subseteq Makes(Prover')
    BY <1>9, <1>11
  <2> QED BY <1>10, <2>1, <2>2, <2>3, <2>4 DEF Shaped
<1>13. Truthful(drawn, Truth(shape))'
  BY <1>9, <1>11 DEF Truthful
<1>14. Proves'
  <2> SUFFICES ASSUME phase' = "prove"
               PROVE  /\ step' \in 1 .. Len(Prover) /\ channel' = Run(Prover, new, "none")[step' - 1]
                      /\ DOMAIN drawn' = DrawnBy(Prover, step' - 1)
    BY <1>11 DEF Proves
  <2>1. step' = step + 1 /\ step # Len(Prover)
    BY <1>3
  <2>2. step' - 1 = step /\ step' \in 1 .. Len(Prover)
    BY <1>1, <1>2, <2>1
  <2> QED BY <1>10, <2>2 DEF r
<1>15. Proved'
  <2>1. fault' = Nothing /\ agreed' = {}
    BY <1>1, <1>3
  <2>2. phase' = "store" => step' = 1
    BY <1>1, <1>3
  <2>3. phase' # "prove" => DOMAIN drawn' = Draws(Prover)
    BY <1>1, <1>3, <1>10, DrawnBySteps
  <2> QED BY <1>11, <2>1, <2>2, <2>3 DEF Proved
<1>16. Verifies' /\ Verified'
  <2>1. phase' \in {"prove", "store"} /\ verdict' = "none"
    BY <1>1, <1>3
  <2> QED BY <2>1 DEF Verifies, Verified
<1> QED BY <1>12, <1>13, <1>14, <1>15, <1>16 DEF IInv

LEMMA StoreHolds ==
  ASSUME IInv, Store
  PROVE  IInv'
<1>1. /\ shape \in Shapes /\ phase = "store" /\ step = 1 /\ agreed = {} /\ verdict = "none"
      /\ made \subseteq Makes(Prover) /\ DOMAIN drawn = Draws(Prover) /\ Truthful(drawn, Truth(shape))
  BY DEF IInv, Shaped, Proved, Store
<1>2. /\ fault' \in Faults(shape) /\ phase' = "verify" /\ channel' = new
      /\ UNCHANGED <<shape, step, made, drawn, agreed, verdict>>
  BY DEF Store
<1>3. Prover' = Prover /\ Truth(shape)' = Truth(shape)
  BY <1>2 DEF Prover
<1> DEFINE V == Verifier'
<1>4. V = VerifierScript(Received(shape, fault'))
  BY <1>2 DEF Verifier
<1> HIDE DEF V
<1>5. IsScript(V) /\ Len(V) \in Nat \ {0}
  BY <1>1, <1>2, <1>4, FaultFacts
<1>6. Run(V, new, fault'.field)[0] = new
  BY <1>5, RunStep
<1>7. Shaped'
  <2>1. IsChannel(new)
    BY AbsorbedLaws
  <2> QED BY <1>1, <1>2, <1>3, <2>1 DEF Shaped
<1>8. Truthful(drawn, Truth(shape))'
  BY <1>1, <1>2, <1>3 DEF Truthful
<1>9. Proves' /\ Proved' /\ Verified'
  BY <1>1, <1>2, <1>3 DEF Proves, Proved, Verified
<1>10. Verifies'
  <2>1. step' = 1 /\ 1 \in 1 .. Len(V) /\ step' - 1 = 0 /\ 0 \in Nat
    BY <1>1, <1>2, <1>5
  <2>2. \A c : ~ Same(V, fault'.field, drawn', c, 0)
    BY DEF Same
  <2>3. Passed(V, fault'.field, drawn', 0)
    BY DEF Passed
  <2> QED BY <1>1, <1>2, <1>6, <2>1, <2>2, <2>3 DEF Verifies, V
<1> QED BY <1>7, <1>8, <1>9, <1>10 DEF IInv

LEMMA VerifyHolds ==
  ASSUME IInv, Verify
  PROVE  IInv'
<1> DEFINE V == Verifier
           op == V[step]
           b == fault.field
           r == Run(V, new, b)
           n == step - 1
<1>1. /\ shape \in Shapes /\ fault \in Faults(shape) /\ phase = "verify" /\ step \in 1 .. Len(V)
      /\ channel = r[n] /\ IsChannel(channel) /\ verdict = "none" /\ made \subseteq Makes(Prover)
      /\ (\A c : c \in agreed <=> Same(V, b, drawn, c, n)) /\ agreed \subseteq DOMAIN drawn
      /\ Passed(V, b, drawn, n) /\ DOMAIN drawn = Draws(Prover) /\ Truthful(drawn, Truth(shape))
  BY DEF IInv, Shaped, Proved, Verifies, Verify
<1>2. /\ Verifying[shape][fault] = V /\ Unique(Truth(shape))
      /\ Listens(V) /\ IsScript(V) /\ Len(V) \in Nat \ {0}
      /\ fault = Nothing => Agrees(V, Prover, Truth(shape))
  BY <1>1, ShapeFacts, FaultFacts DEF Verifier, Prover
<1>3. /\ \/ /\ \/ Mix(op) \/ Squeeze(op) \/ Restart(op)
               \/ Holds(op) /\ UNCHANGED <<channel, agreed, verdict>>
            /\ step' = step + 1
            /\ phase' = IF step = Len(V) THEN "done" ELSE "verify"
         \/ /\ Fails(op)
            /\ verdict' = "refused" /\ phase' = "done"
            /\ UNCHANGED <<step, channel, agreed>>
      /\ UNCHANGED <<shape, made, drawn, fault>>
  BY <1>2 DEF Verify
<1>4. /\ n \in Nat /\ n + 1 = step /\ step - 1 = n /\ step \in Nat \ {0} /\ step \in 0 .. Len(V)
      /\ op \in Elems(V) /\ V[n + 1] = op
  BY <1>1, <1>2 DEF Elems
<1>5. r[step] = StepChannel(op, channel, b) /\ IsChannel(r[step])
  BY <1>1, <1>2, <1>4, RunStep
<1>6. /\ Verifier' = V /\ Prover' = Prover /\ Truth(shape)' = Truth(shape) /\ fault' = fault
      /\ drawn' = drawn /\ shape' = shape /\ made' = made
  BY <1>3 DEF Verifier, Prover
<1>7. Truthful(drawn, Truth(shape))' /\ Proves' /\ Proved'
  <2>1. phase' \in {"verify", "done"}
    BY <1>3
  <2> QED BY <1>1, <1>6, <2>1 DEF Truthful, Proves, Proved
<1>8. fault = Nothing => b = "none" /\ fault.kind = "none"
  BY DEF Nothing
<1>9. ASSUME fault = Nothing, op.op = "check"
      PROVE  "none" \notin op.fields /\ op.challenges \subseteq agreed
  <2>1. /\ "none" \notin op.fields
        /\ \A c \in op.challenges : Same(V, "none", drawn, c, step - 1)
    BY <1>1, <1>2, <1>9, IntactPasses
  <2> QED BY <1>1, <1>4, <1>8, <1>9, <2>1
<1>10. fault = Nothing /\ op.op \in {"loose", "present"} => "none" \notin op.fields
  BY <1>2, <1>4 DEF Agrees, Gates
<1> HIDE DEF V, op, b, r, n
<1>11. CASE Fails(op)
            /\ verdict' = "refused" /\ phase' = "done"
            /\ UNCHANGED <<step, channel, agreed>>
  <2>1. fault # Nothing
    <3>1. CASE op.op = "check" /\ ~(Intact(op.fields) /\ op.challenges \subseteq agreed)
      BY <1>8, <1>9, <3>1 DEF Intact, b
    <3>2. CASE op.op = "loose" /\ ~Intact(op.fields)
      BY <1>8, <1>10, <3>2 DEF Intact, b
    <3>3. CASE op.op = "present" /\ fault.kind = "lost" /\ ~Intact(op.fields)
      BY <1>8, <3>3
    <3> QED BY <1>11, <3>1, <3>2, <3>3 DEF Fails
  <2>2. Shaped'
    BY <1>1, <1>4, <1>6, <1>11 DEF Shaped
  <2>3. Verifies' /\ Verified'
    BY <1>6, <1>11, <2>1 DEF Verifies, Verified
  <2> QED BY <1>7, <2>2, <2>3 DEF IInv
<1>12. CASE /\ \/ Mix(op) \/ Squeeze(op) \/ Restart(op)
               \/ Holds(op) /\ UNCHANGED <<channel, agreed, verdict>>
            /\ step' = step + 1
            /\ phase' = IF step = Len(V) THEN "done" ELSE "verify"
  <2>1. /\ channel' = StepChannel(op, channel, b) /\ verdict' = verdict
        /\ Squeezing(op) =>
             agreed' = IF op.challenge \in DOMAIN drawn /\ drawn[op.challenge] = channel
                       THEN agreed \cup {op.challenge} ELSE agreed \ {op.challenge}
        /\ ~ Squeezing(op) => agreed' = agreed
        /\ op.op = "check" => b \notin op.fields /\ op.challenges \subseteq agreed
    <3>1. CASE Mix(op)
      <4>1. /\ op.op = "mix" /\ UNCHANGED <<agreed, verdict>>
            /\ channel' = mix_digest(channel, IF Intact({op.field}) THEN op.field ELSE "damaged")
        BY <3>1 DEF Mix
      <4>2. Intact({op.field}) <=> op.field # b
        BY DEF Intact, b
      <4> QED BY <4>1, <4>2 DEF StepChannel, Squeezing
    <3>2. CASE Squeeze(op)
      BY <3>2 DEF Squeeze, StepChannel, Squeezing
    <3>3. CASE Restart(op)
      BY <3>3 DEF Restart, StepChannel, Squeezing
    <3>4. CASE Holds(op) /\ UNCHANGED <<channel, agreed, verdict>>
      <4>1. op.op \in {"check", "loose", "present"}
        BY <3>4 DEF Holds
      <4>2. op.op = "check" => b \notin op.fields /\ op.challenges \subseteq agreed
        BY <3>4 DEF Holds, Intact, b
      <4> QED BY <3>4, <4>1, <4>2 DEF StepChannel, Squeezing
    <3> QED BY <1>12, <3>1, <3>2, <3>3, <3>4
  <2>2. channel' = r[step] /\ IsChannel(channel')
    BY <1>5, <2>1
  <2>3. \A c : c \in agreed' <=> Same(V, b, drawn, c, step)
    <3> SUFFICES ASSUME NEW c PROVE c \in agreed' <=> Same(V, b, drawn, c, step)
      OBVIOUS
    <3>1. step \in Nat \ {0} /\ V[step] = op /\ step - 1 = n
      BY <1>4 DEF op
    <3>2. CASE Squeezing(op) /\ op.challenge = c
      <4>1. Same(V, b, drawn, c, step) <=> c \in DOMAIN drawn /\ drawn[c] = Run(V, new, b)[step - 1]
        BY <3>1, <3>2, SameDrawn
      <4> QED BY <1>1, <2>1, <3>1, <3>2, <4>1 DEF r
    <3>3. CASE ~ (Squeezing(op) /\ op.challenge = c)
      <4>1. Same(V, b, drawn, c, step) <=> Same(V, b, drawn, c, step - 1)
        BY <3>1, <3>3, SameKept
      <4>2. c \in agreed' <=> c \in agreed
        BY <2>1, <3>3
      <4> QED BY <1>1, <3>1, <4>1, <4>2
    <3> QED BY <3>2, <3>3
  <2>4. Passed(V, b, drawn, step)
    <3>1. \A j : j \in 1 .. step <=> j \in 1 .. n \/ j = step
      BY <1>4
    <3>2. op.op = "check" => /\ b \notin op.fields
                             /\ \A c \in op.challenges : Same(V, b, drawn, c, n)
      BY <1>1, <2>1
    <3>3. op = V[step]
      BY DEF op
    <3> QED BY <1>1, <1>4, <3>1, <3>2, <3>3 DEF Passed
  <2>5. agreed' \subseteq DOMAIN drawn'
    BY <1>1, <1>6, <2>1
  <2>6. Shaped'
    <3>1. step' \in Nat \ {0} /\ phase' \in {"verify", "done"} /\ verdict' = "none"
      BY <1>1, <1>4, <1>12, <2>1
    <3> QED BY <1>1, <1>6, <2>2, <2>5, <3>1 DEF Shaped
  <2>7. Verifies'
    <3> SUFFICES ASSUME phase' = "verify"
                 PROVE  /\ step' \in 1 .. Len(V) /\ channel' = Run(V, new, b)[step' - 1]
                        /\ \A c : c \in agreed' <=> Same(V, b, drawn, c, step' - 1)
                        /\ Passed(V, b, drawn, step' - 1)
      BY <1>6 DEF Verifies, b
    <3>1. step' = step + 1 /\ step # Len(V)
      BY <1>12
    <3>2. step' - 1 = step /\ step' \in 1 .. Len(V)
      BY <1>1, <1>2, <1>4, <3>1
    <3> QED BY <2>2, <2>3, <2>4, <3>2 DEF r
  <2>8. Verified'
    <3>1. phase' = "done" => step = Len(V)
      BY <1>12
    <3>2. verdict' = "none"
      BY <1>1, <2>1
    <3> QED BY <1>6, <2>4, <3>1, <3>2 DEF Verified, b
  <2> QED BY <1>7, <2>6, <2>7, <2>8 DEF IInv
<1> QED BY <1>3, <1>11, <1>12

LEMMA StepHolds ==
  ASSUME IInv, [Next]_vars
  PROVE  IInv'
<1>1. CASE Prove
  BY <1>1, ProveHolds
<1>2. CASE Store
  BY <1>2, StoreHolds
<1>3. CASE Verify
  BY <1>3, VerifyHolds
<1>4. CASE Accept
  <2>1. /\ phase = "done" /\ verdict = "none" /\ verdict' = "accepted"
        /\ UNCHANGED <<shape, phase, step, channel, made, drawn, fault, agreed>>
    BY <1>4 DEF Accept
  <2>2. Prover' = Prover /\ Verifier' = Verifier /\ Truth(shape)' = Truth(shape)
    BY <2>1 DEF Prover, Verifier
  <2>3. Shaped' /\ Truthful(drawn, Truth(shape))'
    BY <2>1, <2>2 DEF IInv, Shaped, Truthful
  <2>4. Proves' /\ Proved' /\ Verifies'
    BY <2>1, <2>2 DEF IInv, Proves, Proved, Verifies
  <2>5. Verified'
    BY <2>1, <2>2 DEF IInv, Verified
  <2> QED BY <2>3, <2>4, <2>5 DEF IInv
<1>5. CASE UNCHANGED vars
  <2>1. UNCHANGED <<shape, phase, step, channel, made, drawn, fault, agreed, verdict>>
    BY <1>5 DEF vars
  <2>2. Prover' = Prover /\ Verifier' = Verifier /\ Truth(shape)' = Truth(shape)
    BY <2>1 DEF Prover, Verifier
  <2>3. Shaped' /\ Truthful(drawn, Truth(shape))'
    BY <2>1, <2>2 DEF IInv, Shaped, Truthful
  <2>4. Proves' /\ Proved' /\ Verifies' /\ Verified'
    BY <2>1, <2>2 DEF IInv, Proves, Proved, Verifies, Verified
  <2> QED BY <2>3, <2>4 DEF IInv
<1> QED BY <1>1, <1>2, <1>3, <1>4, <1>5 DEF Next, Answered

-----------------------------------------------------------------------------
\* The theorems.

\* What the prover and the verifier do stays described by the invariant.
LEMMA InvariantHolds == Spec => []IInv
<1>1. Init => IInv
  BY InitHolds
<1>2. IInv /\ [Next]_vars => IInv'
  BY StepHolds
<1> QED BY <1>1, <1>2, PTL DEF Spec

\* The variables have their types: the prover puts nothing in the proof that
\* its script does not make, the verifier agrees on no challenge that was not
\* drawn.
THEOREM TypesHold == Spec => []TypeOK
<1>1. IInv => TypeOK
  <2> SUFFICES ASSUME IInv PROVE TypeOK
    OBVIOUS
  <2>1. /\ shape \in Shapes /\ phase \in {"prove", "store", "verify", "done"} /\ step \in Nat \ {0}
        /\ fault \in Faults(shape) /\ agreed \subseteq DOMAIN drawn
        /\ verdict \in {"none", "accepted", "refused"}
        /\ IsChannel(channel) /\ made \subseteq Makes(Prover)
    BY DEF IInv, Shaped
  <2>2. channel.n_draws \in Nat
    BY <2>1 DEF IsChannel
  <2>3. made \subseteq Fields(Proving[shape])
    BY <2>1, ShapeFacts, FieldsMade DEF Prover
  <2> QED BY <2>1, <2>2, <2>3 DEF TypeOK
<1> QED BY <1>1, InvariantHolds, PTL

\* No challenge is drawn before the commitments it is meant to bind are in the
\* transcript: draw_felt and draw_number in src/channel.rs and their callers in
\* src/cairo_air/prover.rs, src/prover.rs and src/stark252.
THEOREM ChallengesAreBound == Spec => []ChallengesBound
<1>1. IInv => ChallengesBound
  <2> SUFFICES ASSUME IInv, NEW c \in DOMAIN drawn, NEW f \in MustPrecede(shape, c)
               PROVE  \E i \in DOMAIN drawn[c].state : drawn[c].state[i] = f
    BY DEF ChallengesBound
  <2>1. shape \in Shapes /\ <<c, drawn[c]>> \in Truth(shape)
    BY DEF IInv, Shaped, Truthful
  <2>2. f \in Absorbed(drawn[c])
    BY <2>1, ShapeFacts
  <2> QED BY <2>2 DEF Absorbed
<1> QED BY <1>1, InvariantHolds, PTL

\* A proof that comes back as it was made is accepted, whatever optional parts
\* it has and however large its trace is: the verifiers of src/cairo_air,
\* src/verifier.rs and src/stark252 replay the transcripts of their provers.
THEOREM HonestProofsPass == Spec => []HonestProofAccepted
<1>1. IInv => HonestProofAccepted
  BY DEF IInv, Verified, HonestProofAccepted
<1> QED BY <1>1, InvariantHolds, PTL

\* A proof in which one field was damaged or lost is refused, unless the
\* verifier has nothing that depends on the field.
THEOREM FaultyProofsFail == Spec => []FaultyProofRefused
<1>1. IInv => FaultyProofRefused
  <2> SUFFICES ASSUME IInv, verdict = "accepted", fault # Nothing, fault.field \notin Unbound(shape)
               PROVE  FALSE
    BY DEF FaultyProofRefused
  <2>1. /\ shape \in Shapes /\ fault \in Faults(shape) /\ phase = "done"
        /\ Truthful(drawn, Truth(shape))
        /\ Passed(Verifier, fault.field, drawn, Len(Verifier))
    BY DEF IInv, Shaped, Verified
  <2>2. IsScript(Verifier) /\ Finds(Verifier, fault.field, Truth(shape))
    BY <2>1, FaultFacts DEF Verifier
  <2> QED BY <2>1, <2>2, FaultStops
<1> QED BY <1>1, InvariantHolds, PTL

=============================================================================
