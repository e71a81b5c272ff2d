---------------------------- MODULE DeviceScript ----------------------------
(***************************************************************************)
(* Host programs of the GPU provers as sequences of operations on device   *)
(* and pinned buffers: the calls of device/buffer.rs and cuda/ffi.rs.  A   *)
(* buffer is a name and a number; a stream is "null" (the default stream,     *)
(* which kernels and cudaMemcpy use) or one made with cudaStreamCreate.    *)
(* An operation on one of the four columns of a value stands for all.      *)
(***************************************************************************)
EXTENDS Integers, Sequences, FiniteSets, SequencesExt

Op(op, stream, reads, writes) ==
  <<[op |-> op, stream |-> stream, reads |-> reads, writes |-> writes]>>

\* Work queued on a stream: a kernel, cudaMemset or cudaMemcpyAsync.
launch(stream, reads, writes) == Op("launch", stream, reads, writes)
kernel(reads, writes) == launch("null", reads, writes)
\* cudaMemcpy: on the default stream, and the host waits for it.
copy(reads, writes) == Op("copy", "null", reads, writes)
sync(stream) == Op("sync", stream, {}, {})
cuda_device_sync == sync("all")
\* The processor reads or writes pinned memory.
host(reads, writes) == Op("host", "none", reads, writes)
init_memory_pool == Op("detect", "none", {}, {})
lock(m) == Op("lock", m, {}, {})
unlock(m) == Op("unlock", m, {}, {})

-----------------------------------------------------------------------------
\* DeviceBuffer: allocation, release, and transfers that wait.
alloc(bufs) == Op("alloc", "null", {}, bufs)
drop(bufs) == Op("free", "null", {}, bufs)
\* The runtime's own allocator, whatever USE_SYNC_MALLOC says.
cudaMalloc(bufs) == Op("alloc", "plain", {}, bufs)
cudaFree(bufs) == Op("free", "plain", {}, bufs)
zero(bufs) == kernel({}, bufs)
from_host(bufs) == alloc(bufs) \o copy({}, bufs)
to_host(bufs) == copy(bufs, {})
clone_device(src, dst) == alloc({dst}) \o copy({src}, {dst})
download_into(bufs) == copy(bufs, {})

\* PinnedBuffer: cudaMallocHost and cudaFreeHost.
pinned_alloc(bufs) == Op("host_alloc", "none", {}, bufs)
pinned_free(bufs) == Op("host_free", "none", {}, bufs)
from_pinned(pinned, buf) == alloc({buf}) \o copy({pinned}, {buf})
to_host_fast(buf) ==
  LET pinned == <<"pinned_of_" \o buf[1], buf[2]>>
  IN  pinned_alloc({pinned}) \o copy({buf}, {pinned}) \o host({pinned}, {}) \o pinned_free({pinned})

\* ensure_capacity: a buffer that is too small is released and made again.
ensure_capacity(buf, grows) == IF grows THEN pinned_free({buf}) \o pinned_alloc({buf}) ELSE <<>>
download_to_pinned_async(buf, pinned, grows, stream) ==
  ensure_capacity(pinned, grows) \o launch(stream, {buf}, {pinned})
download_into_async(buf, pinned, stream) == launch(stream, {buf}, {pinned})
upload_async(pinned, buf, stream) == launch(stream, {pinned}, {buf})
\* From ordinary memory the call returns when the data is staged.
upload_async_pageable(buf, stream) == launch(stream, {}, {buf})

Repeat(n, script) == FlattenSeq([i \in 1..n |-> script])

\* The staging buffer is shared: it is locked for each chunk that goes through it.
SHARED_STAGING == <<"staging", 0>>
to_host_via(buf, chunks) ==
  Repeat(chunks, lock("staging") \o copy({buf}, {SHARED_STAGING})
                   \o host({SHARED_STAGING}, {}) \o unlock("staging"))
\* Mutant: the lock is let go before the copy.
from_host_via_unlocked(buf, chunks) ==
  alloc({buf}) \o Repeat(chunks, lock("staging") \o host({}, {SHARED_STAGING})
                                   \o unlock("staging") \o copy({SHARED_STAGING}, {buf}))
from_host_via(buf, chunks) ==
  alloc({buf}) \o Repeat(chunks, lock("staging") \o host({}, {SHARED_STAGING})
                                   \o copy({SHARED_STAGING}, {buf}) \o unlock("staging"))

\* The pool of the evaluation's pinned buffer: take() leaves None, the one
\* taken is grown or made, and what is put back replaces what is there.
EVAL_PINNED == <<"eval_full_pinned", 0>>
pool_take == lock("pool") \o Op("take", "none", {}, {EVAL_PINNED}) \o unlock("pool")
pool_put == lock("pool") \o Op("put", "none", {}, {EVAL_PINNED}) \o unlock("pool")
prewarm_eval_pool == init_memory_pool \o lock("pool") \o Op("prewarm", "none", {}, {EVAL_PINNED}) \o unlock("pool")

\* A cache of buffers by key, under its own lock: what is made on a miss is put
\* in the cache after the lock was let go, so that another may have been first.
\* The loser keeps its own (or_insert) or takes the other's.
get_or_make(key, bufs, make) == Op("lookup", key, {}, bufs) \o make \o Op("insert", key, {}, bufs)
get_or_adopt(key, bufs, make) == Op("lookup", key, {}, bufs) \o make \o Op("adopt", key, {}, bufs)
\* An Arc goes: the buffers are freed with the last one.
release(bufs) == Op("release", "none", {}, bufs)
\* A cached workspace has its own mutex.
lock_workspace(buf) == Op("lock", "workspace", {}, {buf})
unlock_workspace(buf) == Op("unlock", "workspace", {}, {buf})

Buf(name) == <<name, 0>>
Bufs(names) == {<<name, 0>> : name \in names}
=============================================================================
