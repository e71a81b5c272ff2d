----------------------------- MODULE Dashboard -----------------------------
(***************************************************************************)
(* The web dashboard (bin/dashboard.rs and its page, static/index.html).   *)
(* HTTP handlers put jobs in a bounded queue; one worker thread takes them *)
(* and broadcasts what it does; every page follows the broadcast through a *)
(* WebSocket task of its own and gets its button back from what it hears.  *)
(*                                                                         *)
(* The queue (tokio mpsc) serves waiting senders in turn, and is closed    *)
(* when the worker's thread is gone.  The broadcast keeps its last RING    *)
(* messages; who is further behind is told so and goes on with the oldest. *)
(***************************************************************************)
EXTENDS Integers, Sequences, SequencesExt, FiniteSets

CONSTANTS
  Pages,
  QUEUE,        \* capacity of the job queue (16)
  RING,         \* capacity of the broadcast (256)
  PageRequests, \* what a page may ask for
  OtherRequests, \* what is posted without a page
  MaxRequests,  \* bound: requests in all
  None

ASSUME DashboardAssumption ==
  /\ {QUEUE, RING} \subseteq Nat \ {0}
  /\ MaxRequests \in Nat
  /\ None \notin Pages

VARIABLES
  handler,  \* per request: "waiting" to send, "accepted", "refused" or "gone"
  waiting,  \* the senders waiting for room, in turn
  queue,
  worker,   \* "idle", "busy" or "panicked"
  script,   \* what the worker's job has still to do
  job,      \* the request it works at
  callback, \* PHASE_CALLBACK of the worker's thread: set or not
  ring,     \* the last messages broadcast
  socket,   \* per page: "off", "greeted" or "open"
  behind,   \* per page: messages its task has not received; RING + 1 is more than are kept
  button,   \* per page: "ready" or "disabled"
  missed    \* per page: its task may have missed a message since its request

vars == <<handler, waiting, queue, worker, script, job, callback,
          ring, socket, behind, button, missed>>
server == <<handler, waiting, queue>>
thread == <<worker, script, job, callback>>
clients == <<socket, button, missed>>

Init ==
  /\ handler = <<>> /\ waiting = <<>> /\ queue = <<>>
  /\ worker = "idle" /\ script = <<>> /\ job = None /\ callback = FALSE
  /\ ring = <<>>
  /\ socket = [c \in Pages |-> "off"] /\ behind = [c \in Pages |-> 0]
  /\ button = [c \in Pages |-> "ready"] /\ missed = [c \in Pages |-> FALSE]

LastOf(messages) == SubSeq(messages, Max({1, Len(messages) - RING + 1}), Len(messages))
broadcast(type, name) ==
  /\ ring' = LastOf(Append(ring, [type |-> type, name |-> name]))
  /\ behind' = [c \in Pages |-> IF socket[c] = "open" THEN Min({behind[c] + 1, RING + 1}) ELSE 0]
Quiet == UNCHANGED <<ring, behind>>

-----------------------------------------------------------------------------
(* The jobs, as the steps of the worker's thread. *)

Step(op, name) == <<[op |-> op, name |-> name]>>
Say(type) == Step(type, None)
Phase(name) == Step("phase", name)
set_phase_callback == Step("set", None)
clear_phase_callback == Step("clear", None)
\* The phases the prover reports to the callback, if there is one.
report_phase(name) == Step("report", name)
prove_lean == report_phase("trace_gen")
cairo_prove_cached == <<>>

\* Mutant: the callback of a verbose job stays.
AroundProofKept(verbose, prove) ==
  IF verbose THEN set_phase_callback \o prove ELSE prove \o Phase("prove")
AroundProof(verbose, prove) ==
  IF verbose THEN set_phase_callback \o prove \o clear_phase_callback
  ELSE prove \o Phase("prove")
gpu_prove(req) ==
  Say("proof_started") \o
  IF req.kind = "fibonacci"
  THEN AroundProof(req.verbose, prove_lean) \o Phase("verify") \o Say("proof_done")
  ELSE Phase("cache init") \o AroundProof(req.verbose, cairo_prove_cached)
         \o Phase("verify") \o Say("proof_done")
gpu_pedersen_compare == Say("pedersen_compare")
JobOf(req) == IF req.kind = "pedersen" THEN gpu_pedersen_compare ELSE gpu_prove(req)

-----------------------------------------------------------------------------
(* The handlers. *)

\* "left" is the mutant RecvPolling's.
Closed == worker \in {"panicked", "left"}
Refused(req) == req.kind = "unknown" \/ ~req.in_bounds

\* prove_handler and pedersen_handler up to their await.
Post(c, req) ==
  /\ Len(handler) < MaxRequests
  /\ IF Refused(req)
     THEN /\ broadcast("error", None)
          /\ handler' = Append(handler, "refused")
          /\ UNCHANGED waiting
     ELSE /\ handler' = Append(handler, "waiting")
          /\ waiting' = Append(waiting, [id |-> Len(handler) + 1, page |-> c, req |-> req])
          /\ Quiet
  /\ UNCHANGED <<queue, thread>>

\* startProve on the page.
Submit(c) ==
  /\ button[c] = "ready"
  /\ \E req \in PageRequests : Post(c, req)
  /\ button' = [button EXCEPT ![c] = "disabled"]
  /\ missed' = [missed EXCEPT ![c] = socket[c] # "open"]
  /\ UNCHANGED socket
PostDirectly == (\E req \in OtherRequests : Post(None, req)) /\ UNCHANGED clients

\* Mutant: a sender learns nothing of a receiver that is gone.
EnterQueueOpen ==
  /\ waiting # <<>> /\ Len(queue) < QUEUE /\ ~Closed
  /\ queue' = Append(queue, Head(waiting))
  /\ waiting' = Tail(waiting)
  /\ handler' = [handler EXCEPT ![Head(waiting).id] = "accepted"]
  /\ Quiet /\ UNCHANGED <<thread, clients>>
\* send().await, whose error is not looked at: the answer is ACCEPTED.
EnterQueue ==
  /\ waiting # <<>> /\ (Closed \/ Len(queue) < QUEUE)
  /\ queue' = IF Closed THEN queue ELSE Append(queue, Head(waiting))
  /\ waiting' = Tail(waiting)
  /\ handler' = [handler EXCEPT ![Head(waiting).id] = "accepted"]
  /\ Quiet /\ UNCHANGED <<thread, clients>>

-----------------------------------------------------------------------------
(* The worker's thread. *)

\* Mutant: a worker that polls leaves its loop when the queue is empty.
RecvPolling ==
  /\ worker = "idle"
  /\ IF queue = <<>>
     THEN worker' = "left" /\ UNCHANGED <<queue, job, script>>
     ELSE /\ worker' = "busy" /\ job' = Head(queue).req /\ queue' = Tail(queue)
          /\ script' = JobOf(Head(queue).req)
  /\ Quiet /\ UNCHANGED <<handler, waiting, callback, clients>>
\* rx.blocking_recv()
Recv ==
  /\ worker = "idle" /\ queue # <<>>
  /\ worker' = "busy" /\ job' = Head(queue).req /\ queue' = Tail(queue)
  /\ script' = JobOf(Head(queue).req)
  /\ Quiet /\ UNCHANGED <<handler, waiting, callback, clients>>

\* The next step of the job; after the last the worker releases memory and
\* goes back to the queue.
Work ==
  /\ worker = "busy"
  /\ LET step == Head(script) IN
     /\ IF step.op \in {"set", "clear"} \/ (step.op = "report" /\ ~callback)
        THEN Quiet
        ELSE broadcast(IF step.op = "report" THEN "phase" ELSE step.op, step.name)
     /\ callback' = IF step.op = "set" THEN TRUE ELSE IF step.op = "clear" THEN FALSE ELSE callback
  /\ script' = Tail(script)
  /\ worker' = IF Len(script) = 1 THEN "idle" ELSE "busy"
  /\ job' = IF Len(script) = 1 THEN None ELSE job
  /\ UNCHANGED <<server, clients>>

\* The computation before a report fails: the thread panics, ends, and takes
\* the queue with it.
Panic ==
  /\ worker = "busy" /\ Head(script).op \in {"report", "phase", "pedersen_compare"}
  /\ worker' = "panicked" /\ script' = <<>> /\ queue' = <<>> /\ callback' = FALSE /\ job' = None
  /\ Quiet /\ UNCHANGED <<handler, waiting, clients>>

-----------------------------------------------------------------------------
(* The pages and their WebSocket tasks. *)

\* handle_ws greets the page with the system's data, and then subscribes.
Connect(c) ==
  /\ socket[c] = "off" /\ socket' = [socket EXCEPT ![c] = "greeted"]
  /\ Quiet /\ UNCHANGED <<server, thread, button, missed>>
Subscribe(c) ==
  /\ socket[c] = "greeted" /\ socket' = [socket EXCEPT ![c] = "open"]
  /\ Quiet /\ UNCHANGED <<server, thread, button, missed>>

\* handleMessage: what gives the button back.
Ends(message) == message.type \in {"proof_done", "pedersen_compare", "error"}
NextMessage(c) == ring[Len(ring) - behind[c] + 1]
Receive(c) ==
  /\ socket[c] = "open" /\ behind[c] \in 1 .. RING
  /\ behind' = [behind EXCEPT ![c] = @ - 1]
  /\ IF Ends(NextMessage(c))
     THEN button' = [button EXCEPT ![c] = "ready"] /\ missed' = [missed EXCEPT ![c] = FALSE]
     ELSE UNCHANGED <<button, missed>>
  /\ UNCHANGED <<server, thread, ring, socket>>

\* RecvError::Lagged: the oldest message kept is the next.
Lagged(c) ==
  /\ socket[c] = "open" /\ behind[c] > RING
  /\ behind' = [behind EXCEPT ![c] = RING]
  /\ missed' = [missed EXCEPT ![c] = button[c] = "disabled"]
  /\ UNCHANGED <<server, thread, ring, socket, button>>

\* The connection is lost; the page connects again.
Lose(c) ==
  /\ socket[c] # "off" /\ socket' = [socket EXCEPT ![c] = "off"]
  /\ behind' = [behind EXCEPT ![c] = 0]
  /\ missed' = [missed EXCEPT ![c] = button[c] = "disabled"]
  /\ UNCHANGED <<server, thread, ring, button>>

\* The page is loaded anew: a handler that waits for it is dropped.
Reload(c) ==
  /\ socket[c] # "off" /\ socket' = [socket EXCEPT ![c] = "off"]
  /\ behind' = [behind EXCEPT ![c] = 0]
  /\ button' = [button EXCEPT ![c] = "ready"] /\ missed' = [missed EXCEPT ![c] = FALSE]
  /\ waiting' = SelectSeq(waiting, LAMBDA w : w.page # c)
  /\ handler' = [r \in DOMAIN handler |->
                   IF \E w \in ToSet(waiting) : w.id = r /\ w.page = c THEN "gone" ELSE handler[r]]
  /\ UNCHANGED <<queue, thread, ring>>

\* The task that broadcasts the GPU's statistics every two seconds.
GpuStats == broadcast("gpu_stats", None) /\ UNCHANGED <<server, thread, clients>>

Socket(c) == Connect(c) \/ Subscribe(c) \/ Receive(c) \/ Lagged(c)
Next ==
  \/ PostDirectly \/ EnterQueue \/ Recv \/ Work \/ Panic \/ GpuStats
  \/ \E c \in Pages : Submit(c) \/ Connect(c) \/ Subscribe(c) \/ Receive(c) \/ Lagged(c) \/ Lose(c) \/ Reload(c)

\* The runtime runs every task that can go on, and a job ends or panics.
Fairness ==
  /\ WF_vars(EnterQueue) /\ WF_vars(Recv) /\ WF_vars(Work)
  /\ \A c \in Pages : WF_vars(Socket(c))
Spec == Init /\ [][Next]_vars /\ Fairness

-----------------------------------------------------------------------------
(* Properties. *)

TypeOK ==
  /\ Len(queue) <= QUEUE /\ Len(ring) <= RING
  /\ \A w \in ToSet(waiting) : handler[w.id] = "waiting"
  /\ \A w \in ToSet(queue) : handler[w.id] = "accepted"
  /\ worker = "busy" <=> script # <<>>

\* prover.rs:32-41, dashboard.rs:106-125 and 166-181: a phase that is reported
\* is the running job's, and one that job asked for: a job that is not verbose
\* has its proof in one piece, however verbose the one before it was.
PhasesOf(req) == (IF req.verbose THEN {"trace_gen"} ELSE {"prove"}) \cup {"cache init", "verify"}
PhasesAreAskedFor ==
  [][LET new == Last(ring')
     IN  ring' # ring /\ new.type = "phase" =>
           worker = "busy" /\ new.name \in PhasesOf(job)]_vars

\* dashboard.rs:376-386 and 398-403: a request is answered, whether the queue
\* is full, or the worker's thread has ended, or another sender left its place.
HandlersReturn ==
  \A r \in 1 .. MaxRequests :
    (r \in DOMAIN handler /\ handler[r] = "waiting") ~> (r \in DOMAIN handler /\ handler[r] # "waiting")

\* static/index.html:387-412 and 228-276: a page that asked for a job gets its
\* button back, unless its socket missed messages since then, or a job panicked.
PagesComeBack ==
  \A c \in Pages :
    button[c] = "disabled" ~> (button[c] = "ready" \/ missed[c] \/ worker = "panicked")
=============================================================================
