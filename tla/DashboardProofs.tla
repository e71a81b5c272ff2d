--------------------------- MODULE DashboardProofs ---------------------------
(***************************************************************************)
(* Proofs about the dashboard: for any pages, requests and capacities, a   *)
(* phase that is reported is one the running job asked for.                *)
(***************************************************************************)
EXTENDS Dashboard, SequenceTheorems, TLAPS

IsSequence(s) == \E S : s \in Seq(S)

\* The steps of a job: its own phases, and a callback only if it is verbose.
StepsOf(s, req) ==
  \A i \in 1 .. Len(s) :
    /\ s[i].op = "phase" => s[i].name \in PhasesOf(req)
    /\ s[i].op = "report" => s[i].name = "trace_gen"
    /\ s[i].op \in {"set", "clear"} => req.verbose

\* The next of the steps that touch the callback clears it.
Clears(s, i) == s[i].op = "clear" /\ \A h \in 1 .. i - 1 : s[h].op # "set"
WillClear(s) == \E i \in 1 .. Len(s) : Clears(s, i)

\* Setting and clearing take turns.
Balanced(s) ==
  /\ \A i \in 1 .. Len(s) : s[i].op = "set" =>
       \E j \in i + 1 .. Len(s) :
         s[j].op = "clear" /\ \A h \in i + 1 .. j - 1 : s[h].op # "set"
  /\ \A i, j \in 1 .. Len(s) : i < j /\ s[i].op = "clear" /\ s[j].op = "clear" =>
       \E h \in i + 1 .. j - 1 : s[h].op = "set"

\* The callback is set exactly while the rest of the script still clears it.
ScriptInv ==
  /\ IsSequence(script) /\ IsSequence(ring)
  /\ worker = "busy" <=> script # <<>>
  /\ StepsOf(script, job) /\ Balanced(script)
  /\ callback = WillClear(script)

\* What a job must be for the worker to take it up with no callback set.
Fits(s, req) ==
  /\ IsSequence(s) /\ s # <<>>
  /\ StepsOf(s, req) /\ Balanced(s) /\ ~WillClear(s)

-----------------------------------------------------------------------------
\* Short lists, put together as the jobs are.

LEMMA Join11 ==
  ASSUME NEW a, NEW b
  PROVE  <<a>> \o <<b>> = <<a, b>>
<1>0. PICK S, s, t, u, v : /\ S = {a, b} /\ s = <<a>> /\ t = <<b>>
                          /\ u = s \o t /\ v = <<a, b>>
  OBVIOUS
<1>1. /\ s \in Seq(S) /\ Len(s) = 1
     /\ s[1] = a
  BY <1>0
<1>2. /\ t \in Seq(S) /\ Len(t) = 1
     /\ t[1] = b
  BY <1>0
<1>3. /\ u \in Seq(S) /\ Len(u) = 2
     /\ u[1] = a /\ u[2] = b
  BY <1>0, <1>1, <1>2, ConcatProperties
<1>4. /\ v \in Seq(S) /\ Len(v) = 2
     /\ v[1] = a /\ v[2] = b
  BY <1>0
<1>5. \A i \in 1 .. Len(u) : u[i] = v[i]
  BY <1>3, <1>4
<1>6. u = v
  BY <1>3, <1>4, <1>5, SeqEqual
<1> QED BY <1>0, <1>6

LEMMA Join21 ==
  ASSUME NEW a, NEW b, NEW c
  PROVE  <<a, b>> \o <<c>> = <<a, b, c>>
<1>0. PICK S, s, t, u, v : /\ S = {a, b, c} /\ s = <<a, b>> /\ t = <<c>>
                          /\ u = s \o t /\ v = <<a, b, c>>
  OBVIOUS
<1>1. /\ s \in Seq(S) /\ Len(s) = 2
     /\ s[1] = a /\ s[2] = b
  BY <1>0
<1>2. /\ t \in Seq(S) /\ Len(t) = 1
     /\ t[1] = c
  BY <1>0
<1>3. /\ u \in Seq(S) /\ Len(u) = 3
     /\ u[1] = a /\ u[2] = b /\ u[3] = c
  BY <1>0, <1>1, <1>2, ConcatProperties
<1>4. /\ v \in Seq(S) /\ Len(v) = 3
     /\ v[1] = a /\ v[2] = b /\ v[3] = c
  BY <1>0
<1>5. \A i \in 1 .. Len(u) : u[i] = v[i]
  BY <1>3, <1>4
<1>6. u = v
  BY <1>3, <1>4, <1>5, SeqEqual
<1> QED BY <1>0, <1>6

LEMMA Join31 ==
  ASSUME NEW a, NEW b, NEW c, NEW d
  PROVE  <<a, b, c>> \o <<d>> = <<a, b, c, d>>
<1>0. PICK S, s, t, u, v : /\ S = {a, b, c, d} /\ s = <<a, b, c>> /\ t = <<d>>
                          /\ u = s \o t /\ v = <<a, b, c, d>>
  OBVIOUS
<1>1. /\ s \in Seq(S) /\ Len(s) = 3
     /\ s[1] = a /\ s[2] = b /\ s[3] = c
  BY <1>0
<1>2. /\ t \in Seq(S) /\ Len(t) = 1
     /\ t[1] = d
  BY <1>0
<1>3. /\ u \in Seq(S) /\ Len(u) = 4
     /\ u[1] = a /\ u[2] = b /\ u[3] = c /\ u[4] = d
  BY <1>0, <1>1, <1>2, ConcatProperties
<1>4. /\ v \in Seq(S) /\ Len(v) = 4
     /\ v[1] = a /\ v[2] = b /\ v[3] = c /\ v[4] = d
  BY <1>0
<1>5. \A i \in 1 .. Len(u) : u[i] = v[i]
  BY <1>3, <1>4
<1>6. u = v
  BY <1>3, <1>4, <1>5, SeqEqual
<1> QED BY <1>0, <1>6

LEMMA Join41 ==
  ASSUME NEW a, NEW b, NEW c, NEW d, NEW e
  PROVE  <<a, b, c, d>> \o <<e>> = <<a, b, c, d, e>>
<1>0. PICK S, s, t, u, v : /\ S = {a, b, c, d, e} /\ s = <<a, b, c, d>> /\ t = <<e>>
                          /\ u = s \o t /\ v = <<a, b, c, d, e>>
  OBVIOUS
<1>1. /\ s \in Seq(S) /\ Len(s) = 4
     /\ s[1] = a /\ s[2] = b /\ s[3] = c /\ s[4] = d
  BY <1>0
<1>2. /\ t \in Seq(S) /\ Len(t) = 1
     /\ t[1] = e
  BY <1>0
<1>3. /\ u \in Seq(S) /\ Len(u) = 5
     /\ u[1] = a /\ u[2] = b /\ u[3] = c /\ u[4] = d /\ u[5] = e
  BY <1>0, <1>1, <1>2, ConcatProperties
<1>4. /\ v \in Seq(S) /\ Len(v) = 5
     /\ v[1] = a /\ v[2] = b /\ v[3] = c /\ v[4] = d /\ v[5] = e
  BY <1>0
<1>5. \A i \in 1 .. Len(u) : u[i] = v[i]
  BY <1>3, <1>4
<1>6. u = v
  BY <1>3, <1>4, <1>5, SeqEqual
<1> QED BY <1>0, <1>6

LEMMA Join12 ==
  ASSUME NEW a, NEW b, NEW c
  PROVE  <<a>> \o <<b, c>> = <<a, b, c>>
<1>0. PICK S, s, t, u, v : /\ S = {a, b, c} /\ s = <<a>> /\ t = <<b, c>>
                          /\ u = s \o t /\ v = <<a, b, c>>
  OBVIOUS
<1>1. /\ s \in Seq(S) /\ Len(s) = 1
     /\ s[1] = a
  BY <1>0
<1>2. /\ t \in Seq(S) /\ Len(t) = 2
     /\ t[1] = b /\ t[2] = c
  BY <1>0
<1>3. /\ u \in Seq(S) /\ Len(u) = 3
     /\ u[1] = a /\ u[2] = b /\ u[3] = c
  BY <1>0, <1>1, <1>2, ConcatProperties
<1>4. /\ v \in Seq(S) /\ Len(v) = 3
     /\ v[1] = a /\ v[2] = b /\ v[3] = c
  BY <1>0
<1>5. \A i \in 1 .. Len(u) : u[i] = v[i]
  BY <1>3, <1>4
<1>6. u = v
  BY <1>3, <1>4, <1>5, SeqEqual
<1> QED BY <1>0, <1>6

LEMMA Join14 ==
  ASSUME NEW a, NEW b, NEW c, NEW d, NEW e
  PROVE  <<a>> \o <<b, c, d, e>> = <<a, b, c, d, e>>
<1>0. PICK S, s, t, u, v : /\ S = {a, b, c, d, e} /\ s = <<a>> /\ t = <<b, c, d, e>>
                          /\ u = s \o t /\ v = <<a, b, c, d, e>>
  OBVIOUS
<1>1. /\ s \in Seq(S) /\ Len(s) = 1
     /\ s[1] = a
  BY <1>0
<1>2. /\ t \in Seq(S) /\ Len(t) = 4
     /\ t[1] = b /\ t[2] = c /\ t[3] = d /\ t[4] = e
  BY <1>0
<1>3. /\ u \in Seq(S) /\ Len(u) = 5
     /\ u[1] = a /\ u[2] = b /\ u[3] = c /\ u[4] = d /\ u[5] = e
  BY <1>0, <1>1, <1>2, ConcatProperties
<1>4. /\ v \in Seq(S) /\ Len(v) = 5
     /\ v[1] = a /\ v[2] = b /\ v[3] = c /\ v[4] = d /\ v[5] = e
  BY <1>0
<1>5. \A i \in 1 .. Len(u) : u[i] = v[i]
  BY <1>3, <1>4
<1>6. u = v
  BY <1>3, <1>4, <1>5, SeqEqual
<1> QED BY <1>0, <1>6

LEMMA Join15 ==
  ASSUME NEW a, NEW b, NEW c, NEW d, NEW e, NEW f
  PROVE  <<a>> \o <<b, c, d, e, f>> = <<a, b, c, d, e, f>>
<1>0. PICK S, s, t, u, v : /\ S = {a, b, c, d, e, f} /\ s = <<a>> /\ t = <<b, c, d, e, f>>
                          /\ u = s \o t /\ v = <<a, b, c, d, e, f>>
  OBVIOUS
<1>1. /\ s \in Seq(S) /\ Len(s) = 1
     /\ s[1] = a
  BY <1>0
<1>2. /\ t \in Seq(S) /\ Len(t) = 5
     /\ t[1] = b /\ t[2] = c /\ t[3] = d /\ t[4] = e /\ t[5] = f
  BY <1>0
<1>3. /\ u \in Seq(S) /\ Len(u) = 6
     /\ u[1] = a /\ u[2] = b /\ u[3] = c /\ u[4] = d /\ u[5] = e /\ u[6] = f
  BY <1>0, <1>1, <1>2, ConcatProperties
<1>4. /\ v \in Seq(S) /\ Len(v) = 6
     /\ v[1] = a /\ v[2] = b /\ v[3] = c /\ v[4] = d /\ v[5] = e /\ v[6] = f
  BY <1>0
<1>5. \A i \in 1 .. Len(u) : u[i] = v[i]
  BY <1>3, <1>4
<1>6. u = v
  BY <1>3, <1>4, <1>5, SeqEqual
<1> QED BY <1>0, <1>6

LEMMA NotEmpty ==
  ASSUME NEW s, Len(s) # 0
  PROVE  s # <<>>
OBVIOUS

LEMMA AloneEmpty ==
  ASSUME NEW a
  PROVE  <<a>> \o <<>> = <<a>> /\ <<>> \o <<a>> = <<a>>
<1>1. <<a>> \in Seq({a})
  OBVIOUS
<1> QED BY <1>1, ConcatEmptySeq

-----------------------------------------------------------------------------
\* The scripts of the jobs.

LEMMA FibonacciVerbose ==
  ASSUME NEW req, req.kind = "fibonacci", req.verbose
  PROVE  Fits(JobOf(req), req)
<1>0. PICK a, b, c, d, e, f :
        /\ a = [op |-> "proof_started", name |-> None]
        /\ b = [op |-> "set", name |-> None]
        /\ c = [op |-> "report", name |-> "trace_gen"]
        /\ d = [op |-> "clear", name |-> None]
        /\ e = [op |-> "phase", name |-> "verify"]
        /\ f = [op |-> "proof_done", name |-> None]
  OBVIOUS
<1>1. /\ a.op = "proof_started"
      /\ b.op = "set"
      /\ c.op = "report" /\ c.name = "trace_gen"
      /\ d.op = "clear"
      /\ e.op = "phase" /\ e.name = "verify"
      /\ f.op = "proof_done"
  BY <1>0
<1>2. JobOf(req) = <<a, b, c, d, e, f>>
  <2>1. JobOf(req) = <<a>> \o ((((<<b>> \o <<c>>) \o <<d>>) \o <<e>>) \o <<f>>)
    BY <1>0 DEF JobOf, gpu_prove, gpu_pedersen_compare, AroundProof, Say, Phase, Step,
         set_phase_callback, clear_phase_callback, report_phase, prove_lean, cairo_prove_cached
  <2>2. <<b>> \o <<c>> = <<b, c>>
    BY Join11
  <2>3. <<b, c>> \o <<d>> = <<b, c, d>>
    BY Join21
  <2>4. <<b, c, d>> \o <<e>> = <<b, c, d, e>>
    BY Join31
  <2>5. <<b, c, d, e>> \o <<f>> = <<b, c, d, e, f>>
    BY Join41
  <2>6. <<a>> \o <<b, c, d, e, f>> = <<a, b, c, d, e, f>>
    BY Join15
  <2> QED BY <2>1, <2>2, <2>3, <2>4, <2>5, <2>6
<1>3. PICK s : s = <<a, b, c, d, e, f>>
  OBVIOUS
<1>4. /\ Len(s) = 6
      /\ s[1] = a /\ s[2] = b /\ s[3] = c /\ s[4] = d /\ s[5] = e /\ s[6] = f
  BY <1>3
<1>5. IsSequence(s)
  <2>1. <<a, b, c, d, e, f>> \in Seq({a, b, c, d, e, f})
    OBVIOUS
  <2> QED BY <1>3, <2>1 DEF IsSequence
<1>6. \A i \in 1 .. Len(s) : (i = 1 /\ s[i] = a) \/ (i = 2 /\ s[i] = b) \/ (i = 3 /\ s[i] = c) \/ (i = 4 /\ s[i] = d) \/ (i = 5 /\ s[i] = e) \/ (i = 6 /\ s[i] = f)
  BY <1>4
<1>7. StepsOf(s, req)
  <2>1. SUFFICES ASSUME NEW i \in 1 .. Len(s), NEW x, x = s[i]
                 PROVE  /\ x.op = "phase" => x.name \in PhasesOf(req)
                        /\ x.op = "report" => x.name = "trace_gen"
                        /\ x.op \in {"set", "clear"} => req.verbose
    BY DEF StepsOf
  <2> QED BY <1>1, <1>6, <2>1 DEF PhasesOf
<1>8. s[1].op = "proof_started" /\ s[2].op = "set" /\ s[3].op = "report" /\ s[4].op = "clear" /\ s[5].op = "phase" /\ s[6].op = "proof_done"
  BY <1>1, <1>4
<1>9. Balanced(s) /\ ~WillClear(s)
  <2>1. Balanced(s)
    BY <1>4, <1>8 DEF Balanced
  <2>2. ~WillClear(s)
    BY <1>4, <1>8 DEF WillClear, Clears
  <2> QED BY <2>1, <2>2
<1> QED BY <1>2, <1>3, <1>4, <1>5, <1>7, <1>9, NotEmpty DEF Fits

LEMMA FibonacciQuiet ==
  ASSUME NEW req, req.kind = "fibonacci", ~req.verbose
  PROVE  Fits(JobOf(req), req)
<1>0. PICK a, b, c, d, e :
        /\ a = [op |-> "proof_started", name |-> None]
        /\ b = [op |-> "report", name |-> "trace_gen"]
        /\ c = [op |-> "phase", name |-> "prove"]
        /\ d = [op |-> "phase", name |-> "verify"]
        /\ e = [op |-> "proof_done", name |-> None]
  OBVIOUS
<1>1. /\ a.op = "proof_started"
      /\ b.op = "report" /\ b.name = "trace_gen"
      /\ c.op = "phase" /\ c.name = "prove"
      /\ d.op = "phase" /\ d.name = "verify"
      /\ e.op = "proof_done"
  BY <1>0
<1>2. JobOf(req) = <<a, b, c, d, e>>
  <2>1. JobOf(req) = <<a>> \o (((<<b>> \o <<c>>) \o <<d>>) \o <<e>>)
    BY <1>0 DEF JobOf, gpu_prove, gpu_pedersen_compare, AroundProof, Say, Phase, Step,
         set_phase_callback, clear_phase_callback, report_phase, prove_lean, cairo_prove_cached
  <2>2. <<b>> \o <<c>> = <<b, c>>
    BY Join11
  <2>3. <<b, c>> \o <<d>> = <<b, c, d>>
    BY Join21
  <2>4. <<b, c, d>> \o <<e>> = <<b, c, d, e>>
    BY Join31
  <2>5. <<a>> \o <<b, c, d, e>> = <<a, b, c, d, e>>
    BY Join14
  <2> QED BY <2>1, <2>2, <2>3, <2>4, <2>5
<1>3. PICK s : s = <<a, b, c, d, e>>
  OBVIOUS
<1>4. /\ Len(s) = 5
      /\ s[1] = a /\ s[2] = b /\ s[3] = c /\ s[4] = d /\ s[5] = e
  BY <1>3
<1>5. IsSequence(s)
  <2>1. <<a, b, c, d, e>> \in Seq({a, b, c, d, e})
    OBVIOUS
  <2> QED BY <1>3, <2>1 DEF IsSequence
<1>6. \A i \in 1 .. Len(s) : (i = 1 /\ s[i] = a) \/ (i = 2 /\ s[i] = b) \/ (i = 3 /\ s[i] = c) \/ (i = 4 /\ s[i] = d) \/ (i = 5 /\ s[i] = e)
  BY <1>4
<1>7. StepsOf(s, req)
  <2>1. SUFFICES ASSUME NEW i \in 1 .. Len(s), NEW x, x = s[i]
                 PROVE  /\ x.op = "phase" => x.name \in PhasesOf(req)
                        /\ x.op = "report" => x.name = "trace_gen"
                        /\ x.op \in {"set", "clear"} => req.verbose
    BY DEF StepsOf
  <2> QED BY <1>1, <1>6, <2>1 DEF PhasesOf
<1>8. s[1].op = "proof_started" /\ s[2].op = "report" /\ s[3].op = "phase" /\ s[4].op = "phase" /\ s[5].op = "proof_done"
  BY <1>1, <1>4
<1>9. Balanced(s) /\ ~WillClear(s)
  <2>1. Balanced(s)
    BY <1>4, <1>8 DEF Balanced
  <2>2. ~WillClear(s)
    BY <1>4, <1>8 DEF WillClear, Clears
  <2> QED BY <2>1, <2>2
<1> QED BY <1>2, <1>3, <1>4, <1>5, <1>7, <1>9, NotEmpty DEF Fits

LEMMA ProgramVerbose ==
  ASSUME NEW req, req.kind \notin {"fibonacci", "pedersen"}, req.verbose
  PROVE  Fits(JobOf(req), req)
<1>0. PICK a, b, c, d, e, f :
        /\ a = [op |-> "proof_started", name |-> None]
        /\ b = [op |-> "phase", name |-> "cache init"]
        /\ c = [op |-> "set", name |-> None]
        /\ d = [op |-> "clear", name |-> None]
        /\ e = [op |-> "phase", name |-> "verify"]
        /\ f = [op |-> "proof_done", name |-> None]
  OBVIOUS
<1>1. /\ a.op = "proof_started"
      /\ b.op = "phase" /\ b.name = "cache init"
      /\ c.op = "set"
      /\ d.op = "clear"
      /\ e.op = "phase" /\ e.name = "verify"
      /\ f.op = "proof_done"
  BY <1>0
<1>2. JobOf(req) = <<a, b, c, d, e, f>>
  <2>1. JobOf(req) = <<a>> \o (((<<b>> \o ((<<c>> \o <<>>) \o <<d>>)) \o <<e>>) \o <<f>>)
    BY <1>0 DEF JobOf, gpu_prove, gpu_pedersen_compare, AroundProof, Say, Phase, Step,
         set_phase_callback, clear_phase_callback, report_phase, prove_lean, cairo_prove_cached
  <2>2. <<c>> \o <<>> = <<c>>
    BY AloneEmpty
  <2>3. <<c>> \o <<d>> = <<c, d>>
    BY Join11
  <2>4. <<b>> \o <<c, d>> = <<b, c, d>>
    BY Join12
  <2>5. <<b, c, d>> \o <<e>> = <<b, c, d, e>>
    BY Join31
  <2>6. <<b, c, d, e>> \o <<f>> = <<b, c, d, e, f>>
    BY Join41
  <2>7. <<a>> \o <<b, c, d, e, f>> = <<a, b, c, d, e, f>>
    BY Join15
  <2> QED BY <2>1, <2>2, <2>3, <2>4, <2>5, <2>6, <2>7
<1>3. PICK s : s = <<a, b, c, d, e, f>>
  OBVIOUS
<1>4. /\ Len(s) = 6
      /\ s[1] = a /\ s[2] = b /\ s[3] = c /\ s[4] = d /\ s[5] = e /\ s[6] = f
  BY <1>3
<1>5. IsSequence(s)
  <2>1. <<a, b, c, d, e, f>> \in Seq({a, b, c, d, e, f})
    OBVIOUS
  <2> QED BY <1>3, <2>1 DEF IsSequence
<1>6. \A i \in 1 .. Len(s) : (i = 1 /\ s[i] = a) \/ (i = 2 /\ s[i] = b) \/ (i = 3 /\ s[i] = c) \/ (i = 4 /\ s[i] = d) \/ (i = 5 /\ s[i] = e) \/ (i = 6 /\ s[i] = f)
  BY <1>4
<1>7. StepsOf(s, req)
  <2>1. SUFFICES ASSUME NEW i \in 1 .. Len(s), NEW x, x = s[i]
                 PROVE  /\ x.op = "phase" => x.name \in PhasesOf(req)
                        /\ x.op = "report" => x.name = "trace_gen"
                        /\ x.op \in {"set", "clear"} => req.verbose
    BY DEF StepsOf
  <2> QED BY <1>1, <1>6, <2>1 DEF PhasesOf
<1>8. s[1].op = "proof_started" /\ s[2].op = "phase" /\ s[3].op = "set" /\ s[4].op = "clear" /\ s[5].op = "phase" /\ s[6].op = "proof_done"
  BY <1>1, <1>4
<1>9. Balanced(s) /\ ~WillClear(s)
  <2>1. Balanced(s)
    BY <1>4, <1>8 DEF Balanced
  <2>2. ~WillClear(s)
    BY <1>4, <1>8 DEF WillClear, Clears
  <2> QED BY <2>1, <2>2
<1> QED BY <1>2, <1>3, <1>4, <1>5, <1>7, <1>9, NotEmpty DEF Fits

LEMMA ProgramQuiet ==
  ASSUME NEW req, req.kind \notin {"fibonacci", "pedersen"}, ~req.verbose
  PROVE  Fits(JobOf(req), req)
<1>0. PICK a, b, c, d, e :
        /\ a = [op |-> "proof_started", name |-> None]
        /\ b = [op |-> "phase", name |-> "cache init"]
        /\ c = [op |-> "phase", name |-> "prove"]
        /\ d = [op |-> "phase", name |-> "verify"]
        /\ e = [op |-> "proof_done", name |-> None]
  OBVIOUS
<1>1. /\ a.op = "proof_started"
      /\ b.op = "phase" /\ b.name = "cache init"
      /\ c.op = "phase" /\ c.name = "prove"
      /\ d.op = "phase" /\ d.name = "verify"
      /\ e.op = "proof_done"
  BY <1>0
<1>2. JobOf(req) = <<a, b, c, d, e>>
  <2>1. JobOf(req) = <<a>> \o (((<<b>> \o (<<>> \o <<c>>)) \o <<d>>) \o <<e>>)
    BY <1>0 DEF JobOf, gpu_prove, gpu_pedersen_compare, AroundProof, Say, Phase, Step,
         set_phase_callback, clear_phase_callback, report_phase, prove_lean, cairo_prove_cached
  <2>2. <<>> \o <<c>> = <<c>>
    BY AloneEmpty
  <2>3. <<b>> \o <<c>> = <<b, c>>
    BY Join11
  <2>4. <<b, c>> \o <<d>> = <<b, c, d>>
    BY Join21
  <2>5. <<b, c, d>> \o <<e>> = <<b, c, d, e>>
    BY Join31
  <2>6. <<a>> \o <<b, c, d, e>> = <<a, b, c, d, e>>
    BY Join14
  <2> QED BY <2>1, <2>2, <2>3, <2>4, <2>5, <2>6
<1>3. PICK s : s = <<a, b, c, d, e>>
  OBVIOUS
<1>4. /\ Len(s) = 5
      /\ s[1] = a /\ s[2] = b /\ s[3] = c /\ s[4] = d /\ s[5] = e
  BY <1>3
<1>5. IsSequence(s)
  <2>1. <<a, b, c, d, e>> \in Seq({a, b, c, d, e})
    OBVIOUS
  <2> QED BY <1>3, <2>1 DEF IsSequence
<1>6. \A i \in 1 .. Len(s) : (i = 1 /\ s[i] = a) \/ (i = 2 /\ s[i] = b) \/ (i = 3 /\ s[i] = c) \/ (i = 4 /\ s[i] = d) \/ (i = 5 /\ s[i] = e)
  BY <1>4
<1>7. StepsOf(s, req)
  <2>1. SUFFICES ASSUME NEW i \in 1 .. Len(s), NEW x, x = s[i]
                 PROVE  /\ x.op = "phase" => x.name \in PhasesOf(req)
                        /\ x.op = "report" => x.name = "trace_gen"
                        /\ x.op \in {"set", "clear"} => req.verbose
    BY DEF StepsOf
  <2> QED BY <1>1, <1>6, <2>1 DEF PhasesOf
<1>8. s[1].op = "proof_started" /\ s[2].op = "phase" /\ s[3].op = "phase" /\ s[4].op = "phase" /\ s[5].op = "proof_done"
  BY <1>1, <1>4
<1>9. Balanced(s) /\ ~WillClear(s)
  <2>1. Balanced(s)
    BY <1>4, <1>8 DEF Balanced
  <2>2. ~WillClear(s)
    BY <1>4, <1>8 DEF WillClear, Clears
  <2> QED BY <2>1, <2>2
<1> QED BY <1>2, <1>3, <1>4, <1>5, <1>7, <1>9, NotEmpty DEF Fits

LEMMA PedersenAlone ==
  ASSUME NEW req, req.kind = "pedersen"
  PROVE  Fits(JobOf(req), req)
<1>0. PICK a :
        /\ a = [op |-> "pedersen_compare", name |-> None]
  OBVIOUS
<1>1. /\ a.op = "pedersen_compare"
  BY <1>0
<1>2. JobOf(req) = <<a>>
  <2>1. JobOf(req) = <<a>>
    BY <1>0 DEF JobOf, gpu_prove, gpu_pedersen_compare, AroundProof, Say, Phase, Step,
         set_phase_callback, clear_phase_callback, report_phase, prove_lean, cairo_prove_cached
  <2> QED BY <2>1
<1>3. PICK s : s = <<a>>
  OBVIOUS
<1>4. /\ Len(s) = 1
      /\ s[1] = a
  BY <1>3
<1>5. IsSequence(s)
  <2>1. <<a>> \in Seq({a})
    OBVIOUS
  <2> QED BY <1>3, <2>1 DEF IsSequence
<1>6. \A i \in 1 .. Len(s) : (i = 1 /\ s[i] = a)
  BY <1>4
<1>7. StepsOf(s, req)
  <2>1. SUFFICES ASSUME NEW i \in 1 .. Len(s), NEW x, x = s[i]
                 PROVE  /\ x.op = "phase" => x.name \in PhasesOf(req)
                        /\ x.op = "report" => x.name = "trace_gen"
                        /\ x.op \in {"set", "clear"} => req.verbose
    BY DEF StepsOf
  <2> QED BY <1>1, <1>6, <2>1 DEF PhasesOf
<1>8. s[1].op = "pedersen_compare"
  BY <1>1, <1>4
<1>9. Balanced(s) /\ ~WillClear(s)
  <2>1. Balanced(s)
    BY <1>4, <1>8 DEF Balanced
  <2>2. ~WillClear(s)
    BY <1>4, <1>8 DEF WillClear, Clears
  <2> QED BY <2>1, <2>2
<1> QED BY <1>2, <1>3, <1>4, <1>5, <1>7, <1>9, NotEmpty DEF Fits

LEMMA JobsFit ==
  ASSUME NEW req
  PROVE  Fits(JobOf(req), req)
BY FibonacciVerbose, FibonacciQuiet, ProgramVerbose, ProgramQuiet, PedersenAlone

-----------------------------------------------------------------------------
\* What is broadcast is the last message kept.

LEMMA Kept ==
  ASSUME NEW s, IsSequence(s), NEW m
  PROVE  IsSequence(LastOf(Append(s, m))) /\ Last(LastOf(Append(s, m))) = m
<1>1. PICK S : s \in Seq(S)
  BY DEF IsSequence
<1>2. PICK t : t = Append(s, m)
  OBVIOUS
<1>3. t \in Seq(S \cup {m}) /\ Len(t) = Len(s) + 1 /\ t[Len(s) + 1] = m /\ Len(s) \in Nat
  BY <1>1, <1>2, SeqMonotonic, AppendProperties, LenProperties
<1>4. PICK n, k : n = Len(t) /\ k = Max({1, n - RING + 1})
  OBVIOUS
<1>5. n \in Nat /\ k \in 1 .. n /\ t[n] = m
  <2>1. n \in Nat \ {0} /\ t[n] = m /\ RING \in Nat \ {0}
    BY <1>3, <1>4, DashboardAssumption
  <2>2. CASE n - RING + 1 <= 1
    BY <2>1, <2>2, <1>4 DEF Max
  <2>3. CASE n - RING + 1 > 1
    BY <2>1, <2>3, <1>4 DEF Max
  <2> QED BY <2>1, <2>2, <2>3
<1>6. PICK u : u = SubSeq(t, k, n)
  OBVIOUS
<1>7. u \in Seq(S \cup {m}) /\ Len(u) = n - k + 1 /\ u[n - k + 1] = t[n]
  <2> PICK T : T = S \cup {m}
    OBVIOUS
  <2>1. \A i \in k .. n : t[i] \in T
    BY <1>3, <1>4, <1>5
  <2>2. /\ u \in Seq(T) /\ Len(u) = n - k + 1
        /\ \A i \in 1 .. n - k + 1 : u[i] = t[k + i - 1]
    BY <1>5, <1>6, <2>1, SubSeqProperties
  <2>3. PICK i : i = n - k + 1
    OBVIOUS
  <2>4. i \in 1 .. n - k + 1 /\ k + i - 1 = n
    BY <1>5, <2>3
  <2> QED BY <2>2, <2>3, <2>4
<1>8. LastOf(Append(s, m)) = u
  BY <1>2, <1>4, <1>6 DEF LastOf
<1> QED BY <1>5, <1>7, <1>8 DEF Last, IsSequence

-----------------------------------------------------------------------------
\* The rest of a script.

LEMMA RestOfScript ==
  ASSUME NEW s, IsSequence(s), s # <<>>, NEW req, StepsOf(s, req), Balanced(s)
  PROVE  /\ IsSequence(Tail(s)) /\ (Len(s) = 1 <=> Tail(s) = <<>>)
         /\ StepsOf(Tail(s), req) /\ Balanced(Tail(s))
         /\ WillClear(Tail(s)) = (IF Head(s).op = "set" THEN TRUE
                                  ELSE IF Head(s).op = "clear" THEN FALSE ELSE WillClear(s))
<1>1. PICK S : s \in Seq(S)
  BY DEF IsSequence
<1>2. PICK t : t = Tail(s)
  OBVIOUS
<1>3. /\ t \in Seq(S) /\ Len(s) \in Nat \ {0} /\ Len(t) = Len(s) - 1 /\ Head(s) = s[1]
      /\ \A i \in 1 .. Len(t) : t[i] = s[i + 1]
  BY <1>1, <1>2, HeadTailProperties, LenProperties, EmptySeq
<1>4. Len(s) = 1 <=> t = <<>>
  BY <1>3, EmptySeq
<1>5. StepsOf(t, req)
  BY <1>3 DEF StepsOf
<1>6. Balanced(t)
  <2>1. ASSUME NEW i \in 1 .. Len(t), t[i].op = "set"
        PROVE  \E j \in i + 1 .. Len(t) : t[j].op = "clear" /\ \A h \in i + 1 .. j - 1 : t[h].op # "set"
    <3>0. PICK a : a = i + 1
      OBVIOUS
    <3>8. a \in 1 .. Len(s) /\ s[a].op = "set"
      BY <1>3, <2>1, <3>0
    <3>9. PICK j \in a + 1 .. Len(s) : s[j].op = "clear" /\ \A h \in a + 1 .. j - 1 : s[h].op # "set"
      BY <3>8 DEF Balanced
    <3>1. /\ j \in i + 2 .. Len(s) /\ s[j].op = "clear"
          /\ \A h \in i + 2 .. j - 1 : s[h].op # "set"
      BY <3>0, <3>9
    <3>2. PICK k : k = j - 1
      OBVIOUS
    <3>3. k \in i + 1 .. Len(t) /\ t[k].op = "clear"
      BY <1>3, <3>1, <3>2
    <3>4. ASSUME NEW h \in i + 1 .. k - 1 PROVE t[h].op # "set"
      BY <1>3, <3>1, <3>2, <3>3
    <3> QED BY <3>3, <3>4
  <2>2. ASSUME NEW i \in 1 .. Len(t), NEW j \in 1 .. Len(t), i < j, t[i].op = "clear", t[j].op = "clear"
        PROVE  \E h \in i + 1 .. j - 1 : t[h].op = "set"
    <3>0. PICK a, b : a = i + 1 /\ b = j + 1
      OBVIOUS
    <3>8. a \in 1 .. Len(s) /\ b \in 1 .. Len(s) /\ a < b /\ s[a].op = "clear" /\ s[b].op = "clear"
      BY <1>3, <2>2, <3>0
    <3>9. PICK h \in a + 1 .. b - 1 : s[h].op = "set"
      BY <3>8 DEF Balanced
    <3>1. h \in i + 2 .. j /\ s[h].op = "set"
      BY <3>0, <3>9
    <3>2. h - 1 \in i + 1 .. j - 1 /\ t[h - 1].op = "set"
      BY <1>3, <3>1
    <3> QED BY <3>2
  <2> QED BY <2>1, <2>2 DEF Balanced
<1>7. CASE Head(s).op = "set"
  <2>1. PICK j \in 2 .. Len(s) : s[j].op = "clear" /\ \A h \in 2 .. j - 1 : s[h].op # "set"
    BY <1>3, <1>7 DEF Balanced
  <2>2. PICK k : k = j - 1
    OBVIOUS
  <2>3. k \in 1 .. Len(t) /\ t[k].op = "clear"
    BY <1>3, <2>1, <2>2
  <2>4. ASSUME NEW h \in 1 .. k - 1 PROVE t[h].op # "set"
    BY <1>3, <2>1, <2>2, <2>3
  <2>5. WillClear(t)
    BY <2>3, <2>4 DEF WillClear, Clears
  <2> QED BY <1>1, <1>2, <1>3, <1>4, <1>5, <1>6, <1>7, <2>5 DEF IsSequence, WillClear
<1>8. CASE Head(s).op = "clear"
  <2>1. ASSUME NEW i \in 1 .. Len(t), Clears(t, i) PROVE FALSE
    <3>1. PICK h \in 2 .. i : s[h].op = "set"
      BY <1>3, <1>8, <2>1 DEF Balanced, Clears
    <3>2. h - 1 \in 1 .. i - 1 /\ t[h - 1].op = "set"
      BY <1>3, <3>1
    <3> QED BY <2>1, <3>2 DEF Clears
  <2> QED BY <1>1, <1>2, <1>3, <1>4, <1>5, <1>6, <1>8, <2>1 DEF IsSequence, WillClear
<1>9. CASE Head(s).op \notin {"set", "clear"}
  <2>1. ASSUME WillClear(s) PROVE WillClear(t)
    <3>1. PICK i \in 1 .. Len(s) : Clears(s, i)
      BY <2>1 DEF WillClear
    <3>2. PICK k : k = i - 1
      OBVIOUS
    <3>3. i # 1
      BY <1>3, <1>9, <3>1 DEF Clears
    <3>4. k \in 1 .. Len(t) /\ t[k].op = "clear"
      BY <1>3, <3>1, <3>2, <3>3 DEF Clears
    <3>5. ASSUME NEW h \in 1 .. k - 1 PROVE t[h].op # "set"
      BY <1>3, <3>1, <3>2, <3>4 DEF Clears
    <3> QED BY <3>4, <3>5 DEF WillClear, Clears
  <2>2. ASSUME WillClear(t) PROVE WillClear(s)
    <3>1. PICK i \in 1 .. Len(t) : Clears(t, i)
      BY <2>2 DEF WillClear
    <3>2. PICK k : k = i + 1
      OBVIOUS
    <3>3. k \in 1 .. Len(s) /\ s[k].op = "clear"
      BY <1>3, <3>1, <3>2 DEF Clears
    <3>4. ASSUME NEW h \in 1 .. k - 1 PROVE s[h].op # "set"
      <4>1. CASE h = 1
        BY <1>3, <1>9, <4>1
      <4>2. CASE h > 1
        <5>1. PICK g : g = h - 1
          OBVIOUS
        <5>2. g \in 1 .. i - 1 /\ t[g] = s[h]
          BY <1>3, <3>1, <3>2, <4>2, <5>1
        <5> QED BY <3>1, <5>2 DEF Clears
      <4> QED BY <4>1, <4>2
    <3> QED BY <3>3, <3>4 DEF WillClear, Clears
  <2> QED BY <1>1, <1>2, <1>3, <1>4, <1>5, <1>6, <1>9, <2>1, <2>2 DEF IsSequence, WillClear
<1> QED BY <1>7, <1>8, <1>9

-----------------------------------------------------------------------------
\* The invariant, and what is broadcast under it.

LEMMA ScriptInit == Init => ScriptInv
<1> SUFFICES ASSUME Init PROVE ScriptInv
  OBVIOUS
<1>1. script = <<>> /\ ring = <<>> /\ worker = "idle" /\ callback = FALSE
  BY DEF Init
<1>2. <<>> \in Seq({}) /\ Len(<<>>) = 0
  BY EmptySeq
<1>3. IsSequence(script) /\ IsSequence(ring)
  BY <1>1, <1>2 DEF IsSequence
<1>4. StepsOf(script, job) /\ Balanced(script) /\ ~WillClear(script)
  BY <1>1, <1>2 DEF StepsOf, Balanced, WillClear
<1> QED BY <1>1, <1>3, <1>4 DEF ScriptInv, WillClear

LEMMA Broadcasts ==
  ASSUME ScriptInv, NEW type, NEW name, broadcast(type, name)
  PROVE  IsSequence(ring') /\ Last(ring').type = type /\ Last(ring').name = name
<1>1. PICK m : m = [type |-> type, name |-> name]
  OBVIOUS
<1>2. ring' = LastOf(Append(ring, m))
  BY <1>1 DEF broadcast
<1>3. IsSequence(ring)
  BY DEF ScriptInv
<1>4. IsSequence(ring') /\ Last(ring') = m
  BY <1>2, <1>3, Kept
<1> QED BY <1>1, <1>4

LEMMA ThreadRests ==
  ASSUME ScriptInv, UNCHANGED thread, IsSequence(ring')
  PROVE  ScriptInv'
<1>1. script' = script /\ job' = job /\ worker' = worker /\ callback' = callback
  BY DEF thread
<1>2. /\ IsSequence(script') /\ (worker' = "busy" <=> script' # <<>>)
      /\ StepsOf(script', job') /\ Balanced(script') /\ callback' = WillClear(script')
  BY <1>1 DEF ScriptInv
<1> QED BY <1>2 DEF ScriptInv

LEMMA QuietRing ==
  ASSUME ScriptInv, UNCHANGED ring
  PROVE  IsSequence(ring')
BY DEF ScriptInv, IsSequence

\* What the next step of the job broadcasts.
PhaseFits == Last(ring').type = "phase" => worker = "busy" /\ Last(ring').name \in PhasesOf(job)
Asked == ring' # ring => PhaseFits

LEMMA WorkFits ==
  ASSUME ScriptInv, Work
  PROVE  ScriptInv' /\ Asked
<1>1. PICK s, x : s = script /\ x = Head(script)
  OBVIOUS
<1>2. IsSequence(s) /\ s # <<>> /\ StepsOf(s, job) /\ Balanced(s) /\ callback = WillClear(s)
  BY <1>1 DEF ScriptInv, Work
<1>3. /\ x.op = "phase" => x.name \in PhasesOf(job)
      /\ x.op = "report" => x.name = "trace_gen"
  <2>1. PICK S : s \in Seq(S)
    BY <1>2 DEF IsSequence
  <2>2. 1 \in 1 .. Len(s) /\ x = s[1]
    BY <1>1, <1>2, <2>1, LenProperties, EmptySeq
  <2> QED BY <1>2, <2>2 DEF StepsOf
<1>4. worker = "busy" /\ script' = Tail(s)
  BY <1>1 DEF Work
<1>5. IsSequence(ring') /\ Asked
  <2>1. CASE x.op \in {"set", "clear"} \/ (x.op = "report" /\ ~callback)
    <3>1. ring' = ring
      BY <1>1, <2>1 DEF Work, Quiet
    <3> QED BY <3>1, QuietRing DEF Asked
  <2>2. CASE x.op = "report" /\ callback
    <3>1. broadcast("phase", x.name)
      BY <1>1, <2>2 DEF Work
    <3>2. job.verbose
      BY <1>2, <2>2 DEF WillClear, Clears, StepsOf
    <3> QED BY <1>3, <1>4, <2>2, <3>1, <3>2, Broadcasts DEF Asked, PhaseFits, PhasesOf
  <2>3. CASE x.op \notin {"set", "clear", "report"}
    <3>1. broadcast(x.op, x.name)
      BY <1>1, <2>3 DEF Work
    <3> QED BY <1>3, <1>4, <3>1, Broadcasts DEF Asked, PhaseFits
  <2> QED BY <2>1, <2>2, <2>3
<1>6. /\ IsSequence(Tail(s)) /\ (Len(s) = 1 <=> Tail(s) = <<>>)
      /\ StepsOf(Tail(s), job) /\ Balanced(Tail(s))
      /\ WillClear(Tail(s)) = (IF Head(s).op = "set" THEN TRUE
                               ELSE IF Head(s).op = "clear" THEN FALSE ELSE WillClear(s))
  BY <1>2, RestOfScript
<1>7. callback' = WillClear(script')
  BY <1>1, <1>2, <1>4, <1>6 DEF Work
<1>8. worker' = "busy" <=> script' # <<>>
  BY <1>1, <1>4, <1>6 DEF Work
<1>9. StepsOf(script', job')
  <2>1. CASE Len(s) = 1
    <3>1. script' = <<>>
      BY <1>4, <1>6, <2>1
    <3> QED BY <3>1, EmptySeq DEF StepsOf
  <2>2. CASE Len(s) # 1
    BY <1>1, <1>4, <1>6, <2>2 DEF Work
  <2> QED BY <2>1, <2>2
<1> QED BY <1>4, <1>5, <1>6, <1>7, <1>8, <1>9 DEF ScriptInv

LEMMA RecvFits ==
  ASSUME ScriptInv, Recv
  PROVE  ScriptInv'
<1>1. PICK req : req = Head(queue).req
  OBVIOUS
<1>2. script' = JobOf(req) /\ job' = req /\ worker' = "busy" /\ callback' = callback
  BY <1>1 DEF Recv
<1>3. Fits(script', job')
  BY <1>2, JobsFit
<1>4. callback = FALSE
  <2>1. script = <<>> /\ callback = WillClear(script)
    BY DEF ScriptInv, Recv
  <2> QED BY <2>1, EmptySeq DEF WillClear
<1>5. IsSequence(ring')
  BY QuietRing DEF Recv, Quiet
<1>6. WillClear(script') = FALSE
  BY <1>3 DEF Fits, WillClear
<1> QED BY <1>2, <1>3, <1>4, <1>5, <1>6 DEF ScriptInv, Fits

LEMMA PanicFits ==
  ASSUME ScriptInv, Panic
  PROVE  ScriptInv'
<1>1. script' = <<>> /\ worker' = "panicked" /\ callback' = FALSE
  BY DEF Panic
<1>2. <<>> \in Seq({}) /\ Len(<<>>) = 0
  BY EmptySeq
<1>3. IsSequence(script') /\ StepsOf(script', job') /\ Balanced(script') /\ ~WillClear(script')
  BY <1>1, <1>2 DEF IsSequence, StepsOf, Balanced, WillClear
<1>4. IsSequence(ring')
  BY QuietRing DEF Panic, Quiet
<1> QED BY <1>1, <1>3, <1>4 DEF ScriptInv, WillClear

\* Nobody else touches the thread, and what the others say is no phase.
LEMMA OthersFit ==
  ASSUME ScriptInv, UNCHANGED thread,
         UNCHANGED ring \/ \E type : type # "phase" /\ broadcast(type, None)
  PROVE  ScriptInv' /\ Asked
<1>1. CASE UNCHANGED ring
  BY <1>1, ThreadRests, QuietRing DEF Asked
<1>2. CASE \E type : type # "phase" /\ broadcast(type, None)
  <2>1. PICK type : type # "phase" /\ broadcast(type, None)
    BY <1>2
  <2>2. IsSequence(ring') /\ Last(ring').type = type
    BY <2>1, Broadcasts
  <2> QED BY <2>1, <2>2, ThreadRests DEF Asked, PhaseFits
<1> QED BY <1>1, <1>2

LEMMA PostFits ==
  ASSUME NEW c, NEW req, Post(c, req)
  PROVE  UNCHANGED thread /\ (UNCHANGED ring \/ \E type : type # "phase" /\ broadcast(type, None))
<1>1. CASE Refused(req)
  BY <1>1 DEF Post
<1>2. CASE ~Refused(req)
  BY <1>2 DEF Post, Quiet
<1>3. UNCHANGED thread
  BY DEF Post
<1> QED BY <1>1, <1>2, <1>3

LEMMA StepFits ==
  ASSUME ScriptInv, [Next]_vars
  PROVE  ScriptInv' /\ Asked
<1>1. CASE PostDirectly
  <2>1. PICK req : Post(None, req)
    BY <1>1 DEF PostDirectly
  <2> QED BY <2>1, PostFits, OthersFit
<1>2. CASE EnterQueue
  BY <1>2, OthersFit DEF EnterQueue, Quiet
<1>3. CASE Recv
  BY <1>3, RecvFits DEF Asked, Recv, Quiet
<1>4. CASE Work
  BY <1>4, WorkFits
<1>5. CASE Panic
  BY <1>5, PanicFits DEF Asked, Panic, Quiet
<1>6. CASE GpuStats
  <2>1. UNCHANGED thread /\ broadcast("gpu_stats", None)
    BY <1>6 DEF GpuStats
  <2> QED BY <2>1, OthersFit
<1>7. ASSUME NEW c \in Pages, Submit(c) PROVE ScriptInv' /\ Asked
  <2>1. PICK req : Post(c, req)
    BY <1>7 DEF Submit
  <2> QED BY <2>1, PostFits, OthersFit
<1>8. ASSUME NEW c \in Pages, Connect(c) \/ Subscribe(c) \/ Receive(c) \/ Lagged(c) \/ Lose(c) \/ Reload(c)
      PROVE  ScriptInv' /\ Asked
  BY <1>8, OthersFit DEF Connect, Subscribe, Receive, Lagged, Lose, Reload, Quiet
<1>9. CASE UNCHANGED vars
  BY <1>9, OthersFit DEF vars, thread
<1> QED BY <1>1, <1>2, <1>3, <1>4, <1>5, <1>6, <1>7, <1>8, <1>9 DEF Next

\* dashboard.rs:106-125 and 166-181, prover.rs:32-41: for any pages, capacities
\* and requests, a phase that is broadcast is the running job's, and one that
\* this job asked for, whatever the jobs before it were and however they ended.
THEOREM PhasesCorrect == Spec => PhasesAreAskedFor
<1>1. ASSUME ScriptInv, [Next]_vars
      PROVE  [LET new == Last(ring')
              IN  ring' # ring /\ new.type = "phase" => worker = "busy" /\ new.name \in PhasesOf(job)]_vars
  BY <1>1, StepFits DEF Asked, PhaseFits
<1>2. ScriptInv /\ [Next]_vars => ScriptInv'
  BY StepFits
<1> QED BY ScriptInit, <1>1, <1>2, PTL DEF Spec, PhasesAreAskedFor

=============================================================================
