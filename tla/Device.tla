------------------------------- MODULE Device -------------------------------
(***************************************************************************)
(* Host threads run their scripts against one device.  Queued work runs    *)
(* later, in an order the streams leave open: work of one stream runs in   *)
(* order, and the default stream waits for and holds up all the others.    *)
(*                                                                         *)
(* A buffer counts the writes issued to it and the writes done, and who  *)
(* did the last.  A use is issued with the count it is meant to see: that  *)
(* of the program's order.                                                 *)
(***************************************************************************)
EXTENDS DeviceScript

CONSTANTS
  Workloads,  \* programs: each gives every thread its script
  Grows       \* whether the pooled buffer is too small for the one who takes it

VARIABLES
  todo,     \* what every thread has still to do
  queue,    \* work issued and not done, in the order of its issue
  mem,      \* live buffers: how each was allocated, writes issued, writes done
  locks,    \* the locks that are held, and by whom
  pool,     \* the buffer in EVAL_PINNED_POOL, or none
  handles,  \* what each thread's names of buffers stand for
  wsl,      \* whether the machine is WSL2
  use_sync, \* USE_SYNC_MALLOC
  cache,    \* buffers kept for the life of the process, by key
  leaked    \* buffers released to the wrong allocator

vars == <<todo, queue, mem, locks, pool, handles, wsl, use_sync, cache, leaked>>

None == <<"none">>
Threads == DOMAIN todo
Running(t) == todo[t] # <<>>
Current(t) == Head(todo[t])

\* A buffer is known by the thread and the step that made it.
Made(t, b) == <<t, b, Len(todo[t])>>
Address(t, b) ==
  IF b = SHARED_STAGING THEN b ELSE IF b \in DOMAIN handles[t] THEN handles[t][b] ELSE None
Addresses(t, bs) == {Address(t, b) : b \in bs}
Binds(h, t, bs) == [h EXCEPT ![t] = [b \in DOMAIN @ \cup bs |-> IF b \in bs THEN Made(t, b) ELSE @[b]]]
Unbinds(h, t, bs) == [h EXCEPT ![t] = [b \in DOMAIN @ \ bs |-> @[b]]]

Fresh(kind) == [kind |-> kind, issued |-> 0, done |-> 0, by |-> None, published |-> 0]

Init ==
  /\ \E w \in DOMAIN Workloads : todo = Workloads[w]
  /\ queue = <<>>
  /\ mem = [b \in {SHARED_STAGING} |-> Fresh("pinned")]
  /\ locks = <<>>
  /\ pool = None
  /\ handles = [t \in Threads |-> <<>>]
  /\ wsl \in BOOLEAN
  /\ use_sync = FALSE
  /\ cache = <<>>
  /\ leaked = {}

With(m, bufs, kind) == [b \in DOMAIN m \cup bufs |-> IF b \in bufs THEN Fresh(kind) ELSE m[b]]
Without(m, bufs) == [b \in DOMAIN m \ bufs |-> m[b]]

\* Uses of an operation, with the number of writes each is meant to come after.
UsesOf(t, op) ==
  LET Use(b, write) == [buf |-> b, at |-> IF b \in DOMAIN mem THEN mem[b].issued ELSE 0, write |-> write, by |-> <<t>>]
  IN  {Use(b, FALSE) : b \in Addresses(t, op.reads)} \cup {Use(b, TRUE) : b \in Addresses(t, op.writes)}
Issue(m, bufs) == [b \in DOMAIN m |-> IF b \in bufs THEN [m[b] EXCEPT !.issued = @ + 1] ELSE m[b]]

Ordered(u) ==
  /\ u.buf \in DOMAIN mem
  /\ mem[u.buf].done = u.at
  /\ ~u.write => u.at > 0 /\ (mem[u.buf].by = u.by \/ mem[u.buf].published = u.at)

\* Work that has to be done before the i-th piece of the queue.
Blocks(w, v) == w.stream = v.stream \/ w.stream = "null" \/ v.stream = "null"
Runnable == {i \in DOMAIN queue : \A j \in 1..(i - 1) : ~Blocks(queue[j], queue[i])}
Waiting(stream) == \E i \in DOMAIN queue : stream = "all" \/ queue[i].stream = stream

Advance(t) == todo' = [todo EXCEPT ![t] = Tail(@)]

-----------------------------------------------------------------------------
\* A kernel or an asynchronous copy is queued.
Launch(t) ==
  /\ Running(t) /\ Current(t).op = "launch"
  /\ LET op == Current(t) IN
     /\ queue' = Append(queue, [stream |-> op.stream, by |-> <<t>>, uses |-> UsesOf(t, op), frees |-> {}])
     /\ mem' = Issue(mem, Addresses(t, op.writes))
  /\ Advance(t) /\ UNCHANGED <<locks, pool, handles, wsl, use_sync, cache, leaked>>

\* cudaMemcpy returns when the default stream has come to it and it is done.
Copy(t) ==
  /\ Running(t) /\ Current(t).op = "copy" /\ queue = <<>>
  /\ mem' = [b \in DOMAIN mem |->
               IF b \in Addresses(t, Current(t).writes)
               THEN [mem[b] EXCEPT !.issued = @ + 1, !.done = @ + 1, !.by = <<t>>] ELSE mem[b]]
  /\ Advance(t) /\ UNCHANGED <<queue, locks, pool, handles, wsl, use_sync, cache, leaked>>

Sync(t) ==
  /\ Running(t) /\ Current(t).op = "sync" /\ ~Waiting(Current(t).stream)
  /\ Advance(t) /\ UNCHANGED <<queue, mem, locks, pool, handles, wsl, use_sync, cache, leaked>>

HostUse(t) ==
  /\ Running(t) /\ Current(t).op = "host"
  /\ mem' = [b \in DOMAIN mem |->
               IF b \in Addresses(t, Current(t).writes)
               THEN [mem[b] EXCEPT !.issued = @ + 1, !.done = @ + 1, !.by = <<t>>] ELSE mem[b]]
  /\ Advance(t) /\ UNCHANGED <<queue, locks, pool, handles, wsl, use_sync, cache, leaked>>

\* DeviceBuffer::alloc.
Alloc(t) ==
  /\ Running(t) /\ Current(t).op = "alloc"
  /\ mem' = With(mem, {Made(t, b) : b \in Current(t).writes},
                 IF use_sync \/ Current(t).stream = "plain" THEN "plain" ELSE "pooled")
  /\ handles' = Binds(handles, t, Current(t).writes)
  /\ Advance(t) /\ UNCHANGED <<queue, locks, pool, wsl, use_sync, cache, leaked>>

\* Mutant: always cudaFreeAsync.
ReleaseAsync(bufs) ==
  LET plain == {b \in bufs \cap DOMAIN mem : mem[b].kind = "plain"}
  IN  /\ leaked' = leaked \cup plain
      /\ queue' = Append(queue, [stream |-> "null", by |-> None, uses |-> {}, frees |-> bufs \ plain])
      /\ UNCHANGED mem

\* Drop: cudaFree waits for the device and takes memory of either kind, but
\* waits for nothing on pooled memory; cudaFreeAsync is queued, and refuses
\* memory of cudaMalloc.
ReleaseMemory(bufs) ==
  LET plain == {b \in bufs \cap DOMAIN mem : mem[b].kind = "plain"}
  IN  IF use_sync
      THEN /\ plain # {} => queue = <<>>
           /\ mem' = Without(mem, bufs) /\ UNCHANGED <<queue, leaked>>
      ELSE /\ leaked' = leaked \cup plain
           /\ queue' = Append(queue, [stream |-> "null", by |-> None, uses |-> {}, frees |-> bufs \ plain])
           /\ UNCHANGED mem
Free(t) ==
  /\ Running(t) /\ Current(t).op = "free" /\ Current(t).stream = "null"
  /\ ReleaseMemory(Addresses(t, Current(t).writes))
  /\ handles' = Unbinds(handles, t, Current(t).writes)
  /\ Advance(t) /\ UNCHANGED <<locks, pool, wsl, use_sync, cache>>

\* cudaFree of memory of cudaMalloc.
FreePlain(t) ==
  /\ Running(t) /\ Current(t).op = "free" /\ Current(t).stream = "plain" /\ queue = <<>>
  /\ mem' = Without(mem, Addresses(t, Current(t).writes))
  /\ handles' = Unbinds(handles, t, Current(t).writes)
  /\ Advance(t) /\ UNCHANGED <<queue, locks, pool, wsl, use_sync, cache, leaked>>

PinnedAlloc(t) ==
  /\ Running(t) /\ Current(t).op = "host_alloc"
  /\ mem' = With(mem, {Made(t, b) : b \in Current(t).writes}, "pinned")
  /\ handles' = Binds(handles, t, Current(t).writes)
  /\ Advance(t) /\ UNCHANGED <<queue, locks, pool, wsl, use_sync, cache, leaked>>

PinnedFree(t) ==
  /\ Running(t) /\ Current(t).op = "host_free"
  /\ mem' = Without(mem, Addresses(t, Current(t).writes))
  /\ handles' = Unbinds(handles, t, Current(t).writes)
  /\ Advance(t) /\ UNCHANGED <<queue, locks, pool, wsl, use_sync, cache, leaked>>

\* A mutex is one of the process, or that of a cached workspace.
Mutex(t, op) == IF op.stream = "workspace" THEN Addresses(t, op.writes) ELSE {<<op.stream>>}
Lock(t) ==
  /\ Running(t) /\ Current(t).op = "lock" /\ Mutex(t, Current(t)) \notin DOMAIN locks
  /\ locks' = (Mutex(t, Current(t)) :> t) @@ locks
  /\ Advance(t) /\ UNCHANGED <<queue, mem, pool, handles, wsl, use_sync, cache, leaked>>

Unlock(t) ==
  /\ Running(t) /\ Current(t).op = "unlock"
  /\ locks' = Without(locks, {Mutex(t, Current(t))})
  /\ Advance(t) /\ UNCHANGED <<queue, mem, pool, handles, wsl, use_sync, cache, leaked>>

\* A hit takes what is cached and leaves out the making.
PastMaking(t) ==
  LET made == SelectInSeq(todo[t], LAMBDA op : /\ op.op \in {"insert", "adopt"}
                                               /\ op.stream = Current(t).stream)
  IN  SubSeq(todo[t], made + 1, Len(todo[t]))
Lookup(t) ==
  /\ Running(t) /\ Current(t).op = "lookup"
  /\ IF Current(t).stream \in DOMAIN cache
     THEN /\ handles' = [handles EXCEPT ![t] = cache[Current(t).stream] @@ @]
          /\ todo' = [todo EXCEPT ![t] = PastMaking(t)]
     ELSE Advance(t) /\ UNCHANGED handles
  /\ UNCHANGED <<queue, mem, locks, pool, wsl, use_sync, cache, leaked>>

\* The first one in has its buffers cached, and what they hold is for everyone.
Insert(t) ==
  /\ Running(t) /\ Current(t).op \in {"insert", "adopt"} /\ Current(t).stream \notin DOMAIN cache
  /\ cache' = (Current(t).stream :> [b \in Current(t).writes |-> Address(t, b)]) @@ cache
  /\ mem' = [b \in DOMAIN mem |->
               IF b \in Addresses(t, Current(t).writes) THEN [mem[b] EXCEPT !.published = mem[b].issued] ELSE mem[b]]
  /\ Advance(t) /\ UNCHANGED <<queue, locks, pool, handles, wsl, use_sync, leaked>>
InsertLate(t) ==
  /\ Running(t) /\ Current(t).op \in {"insert", "adopt"} /\ Current(t).stream \in DOMAIN cache
  /\ IF Current(t).op = "adopt"
     THEN /\ ReleaseMemory(Addresses(t, Current(t).writes))
          /\ handles' = [handles EXCEPT ![t] = cache[Current(t).stream] @@ @]
     ELSE UNCHANGED <<queue, mem, handles, leaked>>
  /\ Advance(t) /\ UNCHANGED <<locks, pool, wsl, use_sync, cache>>

Cached == UNION {{cache[k][b] : b \in DOMAIN cache[k]} : k \in DOMAIN cache}
Release(t) ==
  /\ Running(t) /\ Current(t).op = "release"
  /\ LET own == Addresses(t, Current(t).writes) \ Cached
     IN  IF own = {} THEN UNCHANGED <<queue, mem, leaked>> ELSE ReleaseMemory(own)
  /\ handles' = Unbinds(handles, t, Current(t).writes)
  /\ Advance(t) /\ UNCHANGED <<locks, pool, wsl, use_sync, cache>>

\* take() and ensure_capacity, or a new buffer when the pool is empty.
Take(t) ==
  /\ Running(t) /\ Current(t).op = "take"
  /\ LET new == pool = None \/ Grows
         taken == IF new THEN Made(t, EVAL_PINNED) ELSE pool
     IN  /\ handles' = [handles EXCEPT ![t] = (EVAL_PINNED :> taken) @@ @]
         /\ mem' = IF new THEN With(Without(mem, {pool}), {taken}, "pinned") ELSE mem
  /\ pool' = None
  /\ Advance(t) /\ UNCHANGED <<queue, locks, wsl, use_sync, cache, leaked>>

\* *pool = Some(...): the buffer that was there is dropped.
Put(t) ==
  /\ Running(t) /\ Current(t).op = "put"
  /\ mem' = Without(mem, {pool})
  /\ pool' = Address(t, EVAL_PINNED)
  /\ handles' = Unbinds(handles, t, {EVAL_PINNED})
  /\ Advance(t) /\ UNCHANGED <<queue, locks, wsl, use_sync, cache, leaked>>

Prewarm(t) ==
  /\ Running(t) /\ Current(t).op = "prewarm"
  /\ LET new == pool = None \/ Grows
         warm == IF new THEN Made(t, EVAL_PINNED) ELSE pool
     IN  /\ pool' = warm
         /\ mem' = IF new THEN With(Without(mem, {pool}), {warm}, "pinned") ELSE mem
  /\ Advance(t) /\ UNCHANGED <<queue, locks, handles, wsl, use_sync, cache, leaked>>

\* The device does one piece of the queued work.
Execute ==
  \E i \in Runnable :
    LET w == queue[i]
        written == {u.buf : u \in {v \in w.uses : v.write}}
    IN  /\ queue' = RemoveAt(queue, i)
        /\ mem' = [b \in DOMAIN mem \ w.frees |->
                     IF b \in written THEN [mem[b] EXCEPT !.done = @ + 1, !.by = w.by] ELSE mem[b]]
        /\ UNCHANGED <<todo, locks, pool, handles, wsl, use_sync, cache, leaked>>

\* init_memory_pool and detect_wsl2_and_configure: the flag is never cleared.
Detect(t) ==
  /\ Running(t) /\ Current(t).op = "detect"
  /\ use_sync' = (use_sync \/ wsl)
  /\ Advance(t) /\ UNCHANGED <<queue, mem, locks, pool, handles, wsl, cache, leaked>>

Ended == \A t \in Threads : ~Running(t)
Rest == Ended /\ queue = <<>> /\ UNCHANGED vars

Step(t) ==
  \/ Launch(t) \/ Copy(t) \/ Sync(t) \/ HostUse(t) \/ Alloc(t) \/ Free(t) \/ FreePlain(t)
  \/ PinnedAlloc(t) \/ PinnedFree(t) \/ Lock(t) \/ Unlock(t) \/ Take(t) \/ Put(t) \/ Prewarm(t) \/ Detect(t)
  \/ Lookup(t) \/ Insert(t) \/ InsertLate(t) \/ Release(t)

Next == (\E t \in Threads : Step(t)) \/ Execute \/ Rest
Spec == Init /\ [][Next]_vars

-----------------------------------------------------------------------------
\* Whatever the device does next, and whatever a thread copies or touches next,
\* finds its buffers live, and as the program's order of that thread left them.
UsesAreOrdered ==
  /\ \A i \in Runnable : \A u \in queue[i].uses : Ordered(u)
  /\ \A t \in Threads :
       Running(t) /\ (Current(t).op = "host" \/ (Current(t).op = "copy" /\ queue = <<>>)) =>
         \A u \in UsesOf(t, Current(t)) : Ordered(u)

\* When the proofs are done nothing is left but the shared buffers: the cached
\* ones are live, and the pinned buffer of the pool is, if there is one.
MemoryReturned ==
  Ended /\ queue = <<>> =>
    /\ leaked = {}
    /\ DOMAIN mem = {SHARED_STAGING} \cup ({pool} \ {None}) \cup Cached
=============================================================================
