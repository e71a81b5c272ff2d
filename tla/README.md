# A verification of VortexSTARK's execution layer

VortexSTARK proves Cairo programs on a GPU. A program is loaded from Sierra/CASM,
run by a flat-memory VM whose *hints* (the non-deterministic part of Cairo) are
written in Rust, turned into columns of M31 elements, and proved by a circle STARK
with LogUp arguments. This directory holds TLA+ models of that system, checked by
TLC, and proofs about them, checked by TLAPS.

Four layers are modelled: the *execution layer* (hints, dictionaries, syscalls, calls,
the VM and its memory), the *proof layer* (the Fiat-Shamir transcripts of six provers,
the stark252 provers value by value, the field, curve and Cairo machines, the
transition constraints), the *host code of the GPU* (device buffers and streams, the
scripts of every prover and of the stwo backend, constraint bytecode) and the
*dashboard*. The emphasis is on what the STARK itself does not check: the arithmetic
of the proof system guards the trace, but nothing guards the hint layer, the logs it
hands to the prover, the order of the transcript, the lifetime of device memory and
the compilation of constraints, except tests.

## Inventory

| part | state | operations | what is hard, and what makes it correct |
|---|---|---|---|
| dictionary and segment hints (`cairo_air/hints.rs`) | allocator, `dicts`, `dicts_felt`, `dict_arena_info`, three access logs | `AllocSegment`, `AllocFelt252Dict`, `Felt252DictEntryInit/Update`, `GetSegmentArenaIndex` | several dictionaries with open entries; narrow and wide copies of one log; reads give the last write, the logs chain, memory and arena agree |
| squash hints (same file) | one `SquashState` | `InitSquashData`, `ShouldSkipSquashLoop`, `GetCurrentAccessIndex`, `GetNextDictKey` | state reused over keys and dictionaries; every key visited with its own accesses; the loop ends |
| calls (`execute_callee`) | call depth, swapped execution context | `CallContract`, `LibraryCall` | nested run on the caller's context; failure of a callee; step numbering |
| syscalls (`hint_system_call`) | gas, storage, events, messages, execution-info pointer | 15 selectors | gas accounting under nested calls, lazily made segments, wide values |
| VM (`cairo_air/vm.rs`, `decode.rs`, `trace.rs`) | paged memory with a felt overlay; pc, ap, fp | `get/set`, `set_felt/get_felt`, three step functions and a fast path, rows, transition constraints | page borders, stale overlay, agreement of the step functions, words that outgrow the field |
| RPC resolver (`starknet_rpc.rs`) | cache of classes | `try_resolve` | cached failures, concurrent misses |
| CASM loader (`casm_loader.rs`) | none | parse | hints sorted by pc |
| LogUp, range check, bitwise | multisets | build and compare | same multiset on both sides, multiplicities |
| Cairo prover / verifier (`cairo_air/prover.rs`) | Fiat-Shamir channel, proof | prove, verify | same transcript on both sides; every value bound before the challenge that uses it; completeness |
| dictionary proof path (`prover.rs`, `dict_air.rs`, `dict_consistency.rs`) | exec and sorted trace, side table, pointers | chain check, sub-AIR, link, bus | completeness: an honest run is accepted; an accepted one says what the side-state was |
| M31 STARK, Merkle, channel, FRI, NTT | channel, columns, trees, device buffers | commit, fold, open | transcript, two streams, buffers that outlive what is queued on them |
| stark252 (`stark252/`) | the proofs of five provers; a Cairo machine of its own | prove, verify, fold, query | boundary rows, sibling and side of a query at every layer, three proofs on one channel; honest traces pass, a wrong row or changed value is refused |
| field, curve, Pedersen (`stark252_field.rs`, `ec_constraint.rs`, `pedersen.rs`) | an accumulated point, a trace | limb arithmetic, hash, trace of a hash | borrows and carries at limb borders; the trace is the hash's |
| device buffers (`device/buffer.rs`) | pool lock, allocator switch, staging and pinned buffers | alloc, upload, download, drop | threads; allocator chosen at alloc and drop; lifetimes of views and of copies in flight |
| CUDA kernels, FFI, stwo backend (`crates/cuda-backend`) | device memory, caches under mutexes | one kernel per operation | check-then-insert caches shared by threads |
| constraint bytecode (`constraint_eval/`, `component_prover.rs`, `constraint_eval.cu`) | recorders, programs, the accumulator | trace, merge, encode, remap, interpret, fall back | clones and constants recorded apart and merged late; register limits; errors half-way |
| dashboard (`bin/dashboard.rs`, `static/index.html`) | job queue, worker and its callback, broadcast, sockets | submit, run, stream | a job that panics, a slow client, a full queue |
| hash permutations, Poseidon builtin, exports, CLI | pure functions, I/O | | arithmetic |

How they interact: `cairo_prove_program_inner` runs the VM loop; before each
instruction the loop calls `run_hints`, which reads and writes the VM's memory and
the `HintContext`; a `SystemCall` hint may run another contract on the same context.
When the trace is complete the prover takes the logs out of the context, runs
`verify_chain`, writes the dictionary columns, commits, draws challenges and builds
the dictionary sub-AIR. `cairo_verify` replays the transcript and re-checks it.
Each phase of the prover allocates, launches and copies on one or two CUDA streams; the
stwo backend does so behind the traits of stwo, and evaluates a component's constraints
by running its Rust function once on traced values. The dashboard's worker thread calls
the provers and hears of their phases through a thread-local callback.

## Modules

| module | models | uses |
|---|---|---|
| `DictSpec` | what dictionaries promise a program: a map per dictionary, opening reads, finalizing writes | |
| `DictHints` | the dictionary and segment hints with the program that calls them | refines `DictSpec` |
| `DictCalls` | call frames around `DictHints` | `DictHints` |
| `DictSquash` | squash loops on the dictionaries of `DictHints` | `DictHints` |
| `DictProof` | prover and verifier of the dictionary part, for the runs of `DictCalls` | `DictCalls` |
| `DictHintsProofs` | theorems about `DictHints` and `DictSquash`: segments, side-states and log; arena, memory bus and the refinement; the lists of the squash hints | `DictSquash` |
| `DictProofProofs` | theorems about `DictCalls` and `DictProof` | `DictHintsProofs` |
| `SyscallHints` | the syscalls, calls between contracts and the class resolver | |
| `SyscallHintsProofs` | theorems about `SyscallHints` | `SyscallHints` |
| `FlatMemory` | what memory promises: one cell per address, outputs that follow inputs | |
| `VmMemory` | the pages, the overlay and the bitwise auto-fill | refines `FlatMemory` |
| `VmMemoryProofs` | theorems about `VmMemory` | `VmMemory` |
| `Transcript` | make, mix, draw, peek, restart, check: the steps of a prover or verifier, as data | |
| `CairoScript`, `StarkScript` | the phases of the provers and the sections of the verifiers | `Transcript` |
| `Protocol` | a prover, the storage of its proof, and a verifier on one script each | the scripts |
| `ScriptProofs` | lemmas about scripts of any length: what they draw, absorb and read, and how sections compose | `Protocol` |
| `ProtocolProofs` | theorems about `Protocol` | `ScriptProofs` |
| `Felt252Field` | limb arithmetic modulo the prime | |
| `Stark252Fri`, `Stark252Air`, `Stark252` | NTT, Merkle and FRI; the five statements and their quotients; one proof and one query of it | `Felt252Field` |
| `Curve252` | the curve, Jacobian arithmetic, the Pedersen hash, GPU tables | `Felt252Field` |
| `Cairo252` | the stark252 Cairo machine and its constraints | `Felt252Field` |
| `CairoVm` | the M31 Cairo VM: decoding, the step functions, rows, constraints | |
| `Machines` | one job, step by step: field pair, hash with its EC trace, run of either Cairo machine | `Curve252`, `Cairo252`, `CairoVm` |
| `DeviceScript` | operations on buffers, streams and locks: `DeviceBuffer`, `PinnedBuffer`, `StagingBuffer` | |
| `M31Device`, `CairoDevice`, `BackendDevice` | device scripts of the M31 provers, the Cairo prover and Pedersen, the stwo backend | `DeviceScript` |
| `Device` | threads that run scripts against streams and two allocators | `DeviceScript` |
| `Bytecode` | recording, merging, encoding and interpreting a component's constraints, with the fallbacks | |
| `BytecodeProofs` | theorems about `Bytecode` | `Bytecode` |
| `Dashboard` | handlers, queue, worker, broadcast, sockets, page | |
| `DashboardProofs` | theorems about `Dashboard` | `Dashboard` |
| `MC*` | constants of the small instances | |

**DictHints.** The variables of `HintContext` keep their names. `memory` is the set of
written cells of the frame's flat memory; a word is `<<high, low>>`, the felt overlay
being the words with `high # 0`, so that `get`, `set`, `get_felt` and `set_felt` are
the functions of `vm.rs` on the dense page. The program is the environment: it keeps
one handle per dictionary (`dict_ptr` is the cell the hint reads through
`dict_ptr_ptr`, `entry` the key of an open entry), as Sierra's linear types
prescribe, and asks for the arena index once, at the end. `find_dict_base` iterates
a `HashMap`, hence it is a set of possible answers. `step` is the trace row; one hint
runs per step. `owner` is a history variable: which dictionary the program
meant by each logged access, which the code does not record.

The action `Felt252DictEntryUpdate` contains what the program does just before (the
store of the new value into the third cell) and all the hint does: the two lookups,
the three pushes, both side-states, the advance of `dict_ptr` and the mirror in
`DictInfo.end`.

**DictCalls.** `EnterCallee` and `LeaveCallee` bracket the run of a callee inside the
caller's `SystemCall` hint. A frame is the memory, the step counter and the handles;
everything else belongs to the shared context and is left alone. A callee stops when
it has no entry open (its `ret`) or after `MAX_CALLEE_STEPS`.

**DictSquash.** The four hints as they are called by the corelib's `squash_dict`: init,
then per key ask / take index until told to stop, then the next key.

**DictProof.** `ProveDicts` is the prover in the order of the code: `verify_chain`, the
permutation, the `S_dict` link, C0-C3 on the sorted trace; each failed gate is an
outcome of its own. `VerifyDicts` is the verifier: padding, link, side table,
permutation, constraints, pointers, bus. Challenges are drawn at random from a field
of 2^124 elements, so a sum of fractions is compared as the bag of its entries; this
leaves out the negligible error of LogUp. Merkle roots bind their data.

**SyscallHints.** One action per arm of `hint_system_call`; the variables are the fields
of `SyscallState` and of the executing frame (`memory`, `step`, `gas`, `entry_pc` and
what the program pushed). A call is resolved from the registry, then from the
resolver (`cache` holds its negative answers too), then not at all; it may be beyond
the depth limit, or have a callee. `EnterCallee` saves what `execute_callee` saves
in its locals as a record on `callers`, and `LeaveCallee` restores it, with the return
data as `response`. A callee leaves by `Halt` (its program returned, at an
instruction) or by `CutOff` (its steps ran out). `asked` is a history variable: the
syscalls the programs meant, against which the records are compared. `budget` is
another: the gas that the programs of all frames brought in. The environment
chooses syscalls, selectors, addresses and gas; the payloads of calldata and of
messages are left out, and so are `saturating_add`s, whose limits no run reaches.
Modelled as they are: `LibraryCall` sets `contract_address` to the class hash, storage is
one map for all contracts, and an unknown selector of a contract takes the entry of some
other selector.

**VmMemory.** `data`, `high_data`, `bitwise`, `bitwise_flags` and `felt_overlay` are the
fields of `Memory`; a felt is `<<high, low>>`. The lazily allocated page reads 0 before
it exists, so the model has it from the start; `with_capacity` differs from `new` by
zeros that read alike. The environment writes words anywhere (the step, the hints)
and felts below the allocator (the execution info and the storage response).
`extract_bitwise_invocations` is not modelled; it stops at the first invocation without
any input, so a gap hides the later ones, where its comment (`vm.rs:234-237`) promises
every completed one.

**Transcript, the scripts and Protocol.** A prover is a sequence of steps: *make* fields
of the proof from challenges, *mix* one into the channel, *draw* a challenge. A
verifier mixes, draws and *checks*: an equation over fields and challenges, or a gate
on a field's default value. One definition stands for a phase of
`cairo_prove_cached_with_columns` (the `phase_tag` names) or a section of
`cairo_verify`. The hash is taken as collision-free: a channel is the sequence of what
it absorbed and how often it was squeezed since, and a challenge agrees when both sides
draw it from the same state. Between the two, `Store` keeps the proof intact, damages
one field, or loses one whose type has a default. A check fails when a field it reads
is damaged or a challenge it uses disagrees; the polynomials behind it are left out. *Damaged*
means that a reader of the field sees another value: where a reader looks at a part only,
the part is a field of its own. So `program` is the block of the bytecode that `blake2s_hash` hashes
(eight words, padded with zeros; `channel.rs:254-256`) and `program_rest` the words behind it, and a list of one
opening per query has its length beside it (`n_trace_decommits` and the like), which
`verifier.rs` and `multi_stark.rs` compare with the queries and the other stark252 verifiers do not.
Below that the model does not go: members beyond the last query are read by nobody, zeros appended
to the last chunk of a `hash_words` give the same digest, and the memory table is a multiset. A FRI
has one challenge, commitment and opening per layer: `FriAlpha`, `FriCommitment` and
`FriDecommitment` give them their names up to `MaxLayers`, and `rounds` repeats a script once
per layer.

**Stark252.** One proof of a statement and one query of it: `Commit`, `Quotient`, `Fold`,
`Query`, `Store`, `Verify`. Everything is computed: traces, low-degree extensions,
quotients by the vanishing polynomial, Merkle paths (a digest is the term that was
hashed), two FRI folds, sums of the memory and range-check arguments. The prover may
have one cell of its trace wrong, storage may change one value of what is opened, and
the query is any.

**Felt252Field, Curve252, Cairo252, CairoVm and Machines.** Pure functions of the code as
operators, and their reference beside them. `Machines` runs a job row by row, because
the rows of a hash and of a Cairo run are related to their neighbours. The M31 VM is one
step of `execute_to_columns_with_hints` without hints; `StepFunctionsAgree` compares, in every
state that is reached, `execute_step` and `execute_to_columns` with it, reduction of
results, folding of words and the fast path as each of them writes it. The memory is
flat, which `VmMemory` justifies.

**DeviceScript, the device scripts and Device.** A script is a sequence of calls: allocate,
free, launch on a stream with the buffers read and written, copy, synchronise, lock.
`Device` issues them from up to two threads and executes queued work in any order that streams
allow: one stream in order, the default stream against all others. A buffer counts
writes issued and done, so that a use knows the contents that the program's order meant it to see.
The pool, the pinned pool, the shared staging buffer, the caches and the switch between
`cudaMallocAsync` and `cudaMalloc` are as in `buffer.rs`; which one a buffer came from is kept
with it. What kernels compute is left out; one buffer stands for the four columns of a
secure value.

**Bytecode.** Each action combines values that are alive (every operator of
`TracedValue`, constants in recorders of their own, clones), asks for a mask, adds a
constraint or a fraction; then the program is remapped, encoded, and interpreted. A
value carries what it is worth at one row, which is the reference. Registers are `u16`
and wrap (release build). A load into a register or from a column that does not exist ends
the kernel's thread before it adds anything; that a missing column pointer reads as 0 is left
out, since every column found has one. A program beyond `REG_LIMIT` registers, or a panic while recording, goes to the
host.

**Dashboard.** A handler posts to a bounded queue (`tokio::mpsc`, which serves senders in
turn) and answers; the worker's job is a script of messages, built from the branches of
`gpu_prove`; the broadcast keeps its last `RING` messages and a socket's task that is further
behind loses the oldest. Jobs may panic, sockets may be lost, pages reloaded. A
page's HTTP request is taken to arrive.

## Runs

| run | what it asks | bounds |
|---|---|---|
| `dict_hints` | ownership of segments, memory bus, arena, complete log, refinement of `DictSpec`; then, the squash: keys in order, the first key's accesses, termination | 2 segments of 10 cells, 3 accesses, keys 0 (also the answer when the keys have run out) and 2, values 0 and a felt above 64 bits, both dictionaries squashed |
| `dict_proof` | side-state is the last write and the logs chain, across nested calls; frames own their dictionaries; then, of the finished run: the prover's assertions hold and its proofs are accepted when no callee has accessed a dictionary, one dictionary is never refused, an accepted proof ends in the side-state | depth 2, callees of 4 steps, main of 9 rows, 3 accesses, 2 dictionaries; field of 3 elements, words 0 to 2 and one wider value |
| `syscalls` | gas accounted once over the call tree, own execution info and own caller at every depth, every call comes back | depth 2, callees of 2 steps, main of 3 rows, 3 syscalls in all, a registered target and one the node may serve or fail to |
| `vm_memory` | words and felts agree, the vector stays below the threshold; refinement of `FlatMemory` | dense page 0-5, sparse 6-9, bitwise page from 10 with 2 invocations, words above and below the cut of the auto-fill |
| `protocol` | an intact proof is accepted, a damaged or incomplete one refused unless the field is in `Unbound`, every challenge comes after what it binds | 7 shapes of a Cairo proof (each optional part alone and together, a statement, one more FRI layer) and the 5 other provers; one fault in any field |
| `program_bound` | violation, see *Findings*: one of the fields in `Overlooked` | a Cairo proof for a statement; one fault in any field |
| `stark252` | honest traces pass, an accepted row satisfies its constraints, a changed value is refused | 7 statements of 5 provers, 4 or 8 rows, blowup 4, field of 12289 elements, every query, one wrong cell or one changed value |
| `machines` | limb arithmetic is the field's; a hash and its trace are linear combinations that pass the row checks; the step functions agree; rows meet the constraints, which leave no used column free | 225 pairs of boundary values; 12 hashes on a curve of 12421 points, scalars of 14 bits in windows of 2; 3 stark252 programs with two-bit offsets; 4 M31 programs, modulus 8191, four-bit offsets, words of 28 bits, fast path above 5 steps |
| `vm_fast_path` | violation, see *Findings* | one program |
| `device` | uses are ordered after what they read, nothing is leaked or freed to the wrong allocator; no deadlock | 16 workloads of one or two threads: every prover, the pinned pool twice and shared, two threads on staging buffer, caches and workspaces; 7 layers with thresholds so that each has members |
| `bytecode` | recorders are programs of their own that hold their values; a component adds exactly its constraints | 4 traced values, 1 constraint, 2 fractions, limits cut to 24 and 18 registers so that both are passed |
| `dashboard` | reported phases were asked for by the running job; every request is answered; a page comes back | one page, queue 1, ring 2, 3 requests; losses, reloads and statistics unbounded |

Why the bounds are enough. Dictionaries: the code treats them pairwise (an access
belongs to one, or by mistake to another), keys pairwise (same or different) and
accesses to a key by their predecessor. Two dictionaries, two keys and three accesses give every
combination of these, an access between two others included. A segment of 10 cells
is, as one of 2^20, not a multiple of the 3-cell entry, so that the last entry that
fits and the first that does not both occur. The arena's table lies behind its header
or elsewhere, as the two branches of `AllocFelt252Dict` want it. `P = 3` makes 2 bits
stand for 31, and all words below the modulus occur.

Syscalls: depth 2 has a frame between two others, the only one with both a caller
and a callee. The target on the node gives both answers of the
resolver, and is a registered contract once it was found. Three syscalls are a request for the execution info
before and after a call, or inside a call within a call; the gas costs and the initial counter
are chosen so that a cost may be less than, equal to or more than what is left.

Memory: each page has addresses at both of its borders and one invocation of the builtin
has an output that is written by the program; the other has one input only, or both.
An address lies beyond the page. `U32 = 2` makes the cut of the auto-fill to 32 bits
visible on the word 3.

Proof layer: a step of a transcript interacts with others only through the channel, so
that each optional part alone and all together cover the ways a missing or doubled step can
show. A row of a trace is related to its neighbours only; the statements have both boundary rows,
rows next to them and inner ones, and the excluded rows of every width. The boundary
values put every limb at 0, at its maximum and one off, with equal and unequal high limbs. The
scaled words keep the relations that matter: an instruction has two halves and one bit more
(`InstructionAssumption`), a word more bits than two field elements, a product of two
field elements fits.

Device and bytecode: two threads suffice for check-then-insert and for the pools, which hold one
buffer; layers on both sides of every threshold occur. Four values make every pattern
of sharing in which a recorder is merged twice. Dashboard: one job runs, one is queued and one waits; a
ring of 2 is passed by one verbose job.

Deadlock is not checked in the runs of programs: a program stops when it has used the
bounded segments and accesses, or its rows. It is checked in `vm_memory`, where a write
is always possible, and in `protocol`, `stark252`, `machines`, `device` and `bytecode`, which
end in an explicit last step: there a deadlock is a prover or thread that waits for ever. The
dashboard waits for requests, which are bounded.

Fairness. In `DictSquash` a program that has begun a squash executes its next
instruction (weak fairness of the three loop hints). In `SyscallHints` the interpreter's
loop goes on: weak fairness of `Instruction \/ CutOff`. Both are justified by the loop's
fixed number of steps, which waits for nothing. In `Dashboard` the runtime runs each task
that can go on (`EnterQueue`, a page's socket task), and the worker's thread takes a job and
comes to the end of it or panics (`Recv`, `Work`); panics, lost connections,
reloads and statistics are not owed. The other specifications are safety only. That a callee returns by itself is
not assumed: `CallsReturn` rests on the step and depth limits alone.

## Findings

- `vm_fast_path`: `execute_to_columns` does not look at `dst_reg`, `op0_reg` or `op1_imm` before it
  takes its fast path (`vm.rs:317`), which uses `ap` as the base of every operand. A
  program of more than 100 steps whose word at address 4 adds a cell at `fp` gets a
  trace, and a memory, that the other step functions do not produce. `vm.rs:655` and `485`
  call them the same logic. It also fills the column of `fp` once, so that rows after a call show
  the wrong `fp`.
- `program_bound`: `blake2s_hash` keeps `input.len().min(64)` bytes (`channel.rs:255`), and
  `compute_program_hash` (`cairo_air/prover.rs:310`) passes it the whole bytecode. `program_hash` is
  that of the first eight words; the words behind them are looked at for their number only
  (`:3291-3312`), so that `cairo_verify`, and `verify_cairo_statement` for a given hash, accept a proof that
  carries another program. `:3443-3447` say the verifier binds "the exact bytecode it claims to
  have run"; `:213-224`, `:260-263` and `:300-309` build on it. Nor is the program used to
  "recompute memory table sum" (`:207`).

### Further disagreements, stated in the modules without a run of their own

| property | module | what it quotes | when it fails |
|---|---|---|---|
| `MainMemoryBus` | `DictCalls` | `hints.rs:253`: pointers into memory | a callee logs an access: its memory is gone |
| `ChainErrorMeansBrokenChain` | `DictProof` | `prover.rs:49`: the error indicates a hint bug | two dictionaries use one key |
| `HonestProofAccepted` | `DictProof` | `prover.rs:3832`: low 31 bits and residue are one | a word reaches the modulus |
| `AccessesAreOfCurrentKey` | `DictSquash` | `hints.rs:306`: accesses for the current key | a second key: the list is the first key's for ever |
| `CutOffReturnsNothing` | `SyscallHints` | `hints.rs:788-790`: an empty `Vec` | a callee is cut off by its step limit |
| `ViewsAgree` | `VmMemory` | `vm.rs:190-191`: the felt read extends the word read | a segment lies at 2^28 or above (the 241st of a program): felts go to the dense vector, where words are not read |
| `EcTraceChecked` | `Protocol` | `cairo_air/prover.rs:4176`: auth paths bind all 29 EC trace columns | the proof lost `ec_log_eval`, which is absorbed nowhere and defaults to `None`: the openings are skipped (`:4181`) |
| `DictBusChecked` | `Protocol` | `cairo_air/prover.rs:3813`: empty `dict_access_pointers` means no dictionaries | the proof lost the pointers: its `dict_n_accesses` accesses are not compared with memory (`:3815`) |
| `EveryQueryChecked` | `Protocol` | `stark252/logup.rs:405`: a check per query; `stark.rs:432`: the correct verifier | fewer openings than queries: `logup.rs:477`, `range_check.rs:388` and `stark.rs:481` zip the two lists and stop at the shorter |
| `EcTraceEndsInHash` | `Machines` | `ec_constraint.rs:3-4`: the trace proves the hash | always: the accumulator starts at P0 and all of it is doubled in every window, so that it ends in 2^496 P0 + 2^248 a_low P1 + b_low P3 + a_high P2 + b_high P4 |
| `QuotientHasLowDegree` | `Stark252` | `multi_stark.rs:26-28`: FRI certifies that Q has degree < N | always: Q is set to 0 at the trace's points (`:364-375`), and the last layer's degree is not looked at (`fri.rs:273`) |
| `ColumnsWithinGate` | `MCDevice` | `prover.rs:168-172`: 17 columns are live at a time | the resident path holds 33 |
| `FallbackKeepsAccumulator` | `Bytecode` | `component_prover.rs:259`: the current accumulator | a kernel error: it was zeroed (`:523`) |
| `ComponentAddsItsConstraints` | `Bytecode` | `component_prover.rs:186-300` | a program of more than 65536 registers: the index wraps before the limit is looked at |
| `LogIsNarrowedFelts` | `DictHints` | `hints.rs:262`: the u64 log is the felt log, narrowed | two keys share their low 64 bits |
| `LogComplete` | `DictHints` | `hints.rs:242`: every access is logged | a dictionary outgrows its segment (without `StayInSegment`) |
| `LogFollowsTrace` | `DictCalls` | `hints.rs:244`: the step is a row of the trace | a callee logs an access |
| `EventsAreFull` | `SyscallHints` | `hints.rs:82`: event keys are full felts | a key exceeds 64 bits |
| `CallsRecordedInOrder` | `SyscallHints` | `hints.rs:150`: calls in execution order | calls nest |
| `FallbackIsDefault` | `SyscallHints` | `hints.rs:665`: the default entry point | a contract has two entry points and neither is asked for |
| `CallerIsParent` | `SyscallHints` | `hints.rs:156`: the full address | the program's address exceeds 64 bits |
| `GasWithinMeans` | `SyscallHints` | `hints.rs:549`: never exceeds the gas available | a callee's program keeps a counter of its own |
| `MessagesAreRecorded` | `SyscallHints` | `hints.rs:60-61`: the last 8 bytes of the name | always: `SEND_MSG_TO_L1` (`hints.rs:73`) is `"ageToL1\0"` |

Also noted.

- Hints: the comment at `hints.rs:1029` says `squash_end` is 0 initially and `AllocFelt252Dict`
  writes the base there; the header at `hints.rs:527-529` describes an earlier dispatch.
- VM: a jump back, a conditional one or a negative advance of `ap` by a machine word that wraps,
  and `jnz` on a cell that is 0 modulo P but not 0, give honest rows that break Pc, Ap or
  JnzFalls (`OutOfField` in `Machines`; immediates below 0 reach this, wide felts are refused
  by `overflow_count`). `trace_to_columns` folds once and cuts to 32 bits (`trace.rs:88-93`),
  so it differs from the VM's own columns for words of 62 bits and more. A program longer
  than about 100 words run by `execute` is overwritten by its own stack (`ap` starts at 100). A
  call reads `op0` at `ap + 1` before it writes there. The reference VM in
  `tests/cross_validation.rs` keeps the first write to a cell, this one the last.
- Cairo proofs: `public_inputs` always has `initial_pc` 0, `ap` 100 and 2^log_n steps
  (`prover.rs:909-915`), against the doc at 199-220. The verifier refuses a program of more than
  8 * 2^log_n words (`:3291-3296`), the prover does not. The next index of EC rows is
  (i + 1) mod size, not in canonic order (`:3086`). The comment at `:6300` calls 2^31 P.
- M31: `ProverPipeline` promises double buffering (`prover.rs:2276`) and copies in turn;
  `prove_inner` generates its trace twice (`:240-245`); a Merkle leaf hashes the first 16
  columns only (`merkle.rs:609-630`), so that wider traces are committed in groups.
- stark252: `stark.rs`' `verify` evaluates its AIR as 0 and refuses honest proofs; `batch_inverse` gives
  0 for all when one input is 0, where `field.rs:72` says it panics; the doc of `CairoAir252`
  (`cairo_air.rs:752`) lists other constraints; a relative jump back uses the low limb in the
  machine and the field in C6 (`:325-330`), so that C6 fails after it; C5 compares the result with what the destination held
  before the step, so that it fails in the row that first writes a sum or product
  (`CairoRowsSatisfyAir` leaves out both cases); `verify_ec_step` accepts any addition row with
  lambda 0; a hash makes 623 rows where `ec_constraint.rs:51` says 622.
- `casm_loader.rs:451-452` adds and multiplies without reduction, so that the steps it counts
  may differ from the VM's.
- Dashboard: a verbose Cairo job reports no phase of its proof (`cairo_prove_cached` reports
  none, and "prove" is sent only when not verbose); the answer is `ACCEPTED` also when the
  worker has ended; a page takes any job's end for its own.

## Theorems

Every theorem holds for all constants that satisfy the named assumptions of the
module it is about. Seven modules hold them, and `ScriptProofs` the lemmas of one of these.

**DictHintsProofs, the dictionaries.** `TypeCorrect`, `SegmentsCorrect`; under `StayInSegment` (the program fills
no segment) `SideStateCorrect`, `ChainCorrect`, `LogCompleteCorrect`.

An access is safe if `find_dict_base` answers the dictionary the program means, and it
does because segments are disjoint and a handle stays in its own. `Inductive` is the
shape of the state (three logs of equal length, maps over the same dictionaries) and
`SegmentsOwned` (the allocator is beyond every segment, a handle inside its own or at
its end); given it, `Owners(dict_ptr[d]) = {d}` whenever an entry is open, the lemma
everything else rests on. With it one access appends one element for `d` to the log,
sets one key of one side-state and advances one handle. The side-state being the last
write, the chain and the completeness of the log are then inductive in turn: the chain of a
new access follows from the side-state being the last write. `StayInSegment` cannot be
dropped: an entry beyond the segment is the neighbour's or nobody's. `Inductive` says
nothing of which dictionaries have a handle in the running frame, so that calls keep it too.

**DictHintsProofs, the memory.** `BusCorrect` (`MemoryBus`), `ArenaCorrect` (`ArenaMirrorsHandles`),
`DictionaryCorrect` (`Spec` implements `DictSpec`).

- `ArenaInv`: the header holds the place of a table, the table has at most as many slots as
  segments were handed out, and slot, `dict_arena_info` and handle of a dictionary agree;
  no two dictionaries share a slot.
- `OpenInv`: an open entry's cells hold its key and the value the key had when it was opened.
- `BusInv`: a logged access lies in the part of its segment the handle has left, where
  nothing is written again; hence `MemoryBus` survives every later step.
- `IndexInv`: the answer of `GetSegmentArenaIndex` is the index of the dictionary that asked.

They need the layout of a loaded program. `ArenaFits`: the arena's header and its
table lie below the first segment and apart; the runner places them among the
program's cells and the code trusts it. `PointersFit`: addresses fit the 32 bits of
`dict_access_pointers`, true of the first 4080 segments of 2^20 cells from the base of 2^24 on.
`EntriesDoNotFill`: no number of 3-cell entries is exactly a segment, as 2^20 is no
multiple of 3; otherwise the handle of a full segment would stand where the next begins, and
the search of the arena would answer that one. `NarrowKeys`, for the refinement only: keys of
the program differ in their low 64 bits, without which two keys are one to the side-state.

The refinement is shown action by action: `AllocFelt252Dict` is the creation of a
dictionary, an entry's two hints open and finalize it, and the other hints are stutters.

**DictProofProofs, the calls.** `FramesCorrect` without any condition, `CallsLogCorrect` under
`StayInSegment`. A frame that is suspended must still fit when it is resumed, though the
shared context went on: `CallersInv` says that its handles are of dictionaries that exist, lie
inside their segments and belong to no other frame. Between entry and return a
callee's steps are steps of `DictHints`, so that the results above carry over. With
`MAX_CALL_DEPTH = 0` a run of `CallsSpec` is one of `Spec`.

**DictHintsProofs, the squash hints.** `KeysCorrect`, `FirstKeyCorrect`, under `StayInSegment`, `ArenaFits` and
`PointersFit`. `PlaceInv` counts: the accesses of a dictionary are its entries below the
handle, one for one. Hence `InitSquashData` sees every access (`KeysInv`), and finds as
many for the first key as the log has (`FirstKeyInv`); `Ascending` is shown to list a finite
set in order, each member once. A squashed dictionary gets no further entry, so that the lists
stay true while others go on. A step of `SquashSpec` is a step of `Spec` or leaves its variables
alone.

**DictProofProofs, the prover.** Under `StayInSegment`:

- `ChainCheckCorrect`: a run of at most one dictionary is never refused. `RefusalIsChain`
  ties the outcome to `verify_chain`, whose map, built access by access, is the last write
  of each key (`RebuildExists`, `RebuildAgrees`), as `ChainPerDict` has it.
- `SortedTraceCorrect`: the last sorted row of a key is its last access, hence the
  side-state (`SortedPlaces`: the stable sort by key as a bijection that keeps the order;
  `ProofInv`: what an outcome says of the proof that is kept).
- `NoPanicCorrect`, with `MAX_CALL_DEPTH = 0`, where the condition `AccessesAreOfMain` of the property is not
  needed: permutation, `S_dict` link and C0-C3 hold. A
  bag argument for the permutation (`SortingPermutes`), and `RowsClimb`: without calls
  the logged steps climb and are rows of the trace, one access per row, so that none is lost
  when the columns of the main trace are filled.
- `HonestCorrect`, with `MAX_CALL_DEPTH = 0`, `ArenaFits`, `PointersFit`, `NarrowKeys` and
  `SmallWords`: what the prover emits the verifier accepts. `WordsInv` says that the logs
  and side-states hold words of the program only and that the full-precision log
  is the narrow one's; with `MemoryBus` the two sides of the bus are then the same words.

When a callee logs an access the log's steps are not rows of the main trace (*Further disagreements*),
hence `AccessesAreOfMain` in the run, which also has calls that touch no dictionary, and `MAX_CALL_DEPTH = 0` in the
proofs. `SmallWords`: keys and values are below the modulus. The code does
not see to it: the dictionary columns keep 31 bits where the operand columns reduce,
so that a value of 2^31 - 1 makes an honest proof fail; it is what a program must
keep to.

**SyscallHintsProofs.** `SyscallTypeCorrect`, `ExecInfoCorrect`, `GasCorrect`; `CallerCorrect` when
the program's own address is a single word (`Narrow(MainAddress)`). The types are
strengthened by the shape of each suspended frame. `ExecInfoIsOwn` is then inductive
by itself, because a call replaces memory, context and cached pointer together and a
return restores them together. `CallerIsParent` needs that every contract address on the
stack is one word wide: a callee's is, since it is read from a word. Gas is a sum over
the frames; `GasInv` has its partial sums as a witness, one more at a call, one fewer at a
return, and `LeastNumber` shows that they are the recursive sum of `GasAccounted`.

**VmMemoryProofs.** `MemoryTypeCorrect` for every size and place of the pages; when segments lie
below the sparse threshold (`SegmentsAreDense`) `DenseCorrect`, `ViewsCorrect` and
`FlatMemoryCorrect`, the refinement `Spec => IsFlatMemory`. `OverlayInv`: the overlay covers
only dense cells and repeats their low word. `FlagsInv`, for the refinement: flagged inputs
are addresses in use. A write of a word or felt below the page is a write of one
cell (`WordRead`, `FeltRead`, `LowWrite`), one on the page is a write of one cell and, if
it completes an invocation, of its three outputs (`PageWrite`). `SegmentsAreDense`
cannot be dropped: a segment at the threshold breaks `ViewsAgree`, see above.

**DashboardProofs.** `PhasesCorrect`, an action property, for any pages, requests and capacities. The
thread-local callback outlives a job, so that it must be clear when the next is taken
up: `ScriptInv` says that it is set exactly while the rest of the running job's script still
clears it, that setting and clearing take turns, and that a job's steps name its own
phases only.

**ProtocolProofs, on ScriptProofs.** `ChallengesAreBound` (`ChallengesBound`), `HonestProofsPass`
(`HonestProofAccepted`), `FaultyProofsFail` (`FaultyProofRefused`) and `TypesHold`, for all six
prover and verifier pairs, every combination of optional parts, traces of any size, so any
number of FRI layers, and any one fault. `FaultyProofRefused` excepts `Unbound`, which is
`Unread` (diagnostic fields, inputs without a statement, values in no equation) and `Overlooked`
(the six fields that `ProgramBound`, `EcTraceChecked`, `DictBusChecked` and
`EveryQueryChecked` are about): of every other field the theorem says that its damage or loss is
noticed, of these it says nothing, since those four are violated. They assume `LayersAssumption` (the folding challenges of
different layers have different names), `ShapesAssumption` (a shape is one of the six
protocols, and its FRI has between one and `MaxLayers` layers) and `NamesAssumption` (the names
that go with a layer are not those of other challenges). The first and
the last are about names; that a FRI folds at least once is the code's: `cairo_verify` refuses a
`log_n` below 3 for it (`cairo_air/prover.rs:3275-3280`), and `prove_lean_inner` asserts at
least 4 (`prover.rs:266`).

- *Scripts.* `Run(P, a, bad)` lists the channels a script goes through from `a` when field `bad`
  is damaged; it is a recursive function, of which the lemmas use only the value at 0 and the
  step. `Joins`, `SetsJoin` and `OrdersJoin` say what a concatenation draws, absorbs, reads and
  where it ends, `RoundsSteps`, `RoundsSets` and `RoundsOrders` the same of `rounds`.
- *Sections.* `Section(P, D, A, M)` is the account of a piece of a prover: it draws `D`, each
  once, absorbs `A`, makes `M`. `Audit` and `Account` are those of a verifier, with what it
  reads and which challenges it uses. Each phase of each prover and each section of each
  verifier has a lemma with its account, and `SectionsJoin`, `AuditsJoin` and `AccountsJoin` add
  them up to whole scripts.
- *Replay.* `Alike(P, V)`: from the same channel, with nothing damaged, V draws what P draws from
  the same channels and both end in one channel. The M31 prover draws before each layer where its
  verifier draws after it; `RoundsShift` moves the bracket along all layers. Conversely a
  damaged field that is absorbed makes every later draw another one, and `Refutes` finds
  the equation over a challenge that was drawn after it: what is read is checked directly, what
  is only absorbed by the next equation.
- *Pairs.* `Paired(s, L)` collects what is needed of the two scripts of a shape: a script
  `L` draws every challenge after what it must follow (`Orderly`), and from the same channels as
  the prover (`Tells`) and, of an intact proof, the verifier (`Agrees`); of a damaged one the
  verifier finds the field (`Finds`), or the field is in `Unbound(s)`; `Loose` are the
  Cairo proof's among them, with or without a statement. `L` is the prover itself
  but for the M31 and the Cairo proof over Stark252, where it has the one order of draws that both
  sides can be brought to. `AllPaired` proves it for every shape.
- *Invariant.* `IInv` is `Shaped` (types) and: every challenge drawn came from the channel `L` gives it
  (`Truthful`); the prover at step n is in the n-th channel of its run and has drawn exactly the
  challenges of its first n - 1 steps (`Proves`), all of them once it is done (`Proved`); the verifier at step n
  is in the n-th channel of its run on the received proof, agrees on a challenge exactly if its
  last draw of it is the prover's (`Same`), and all checks so far held (`Verifies`, `Verified`). The
  three properties speak of verdicts, that is, of the end of the run; none is inductive without
  the account of every step before. From `IInv` an intact proof meets no failing check
  (`IntactPasses`), and a damaged one cannot have passed the equation that `Refutes` names
  (`FaultStops`).

The theorems found nothing wrong with the model; to be provable it had to name what a FRI has
per layer by functions of the layer, where the instance had listed the names of three.

**BytecodeProofs.** `BytecodeInvariant`; `RecordersKeepTheirValues` (`RecordersHoldTheirValues`) and
`ComponentAddsItsOwn` (`ComponentAddsItsConstraints`), for any values, masks and register limits,
and for components of any size whose recorders stay within the register numbers: `NoWrap` says that
each has fewer than `REG_MODULUS` (65536) instructions. It cannot be dropped, since the index of
the next register wraps before any limit is looked at (*Further disagreements*). The assumption
`BytecodeConstants` says that the limits are ordered as in the code (`MAX_REGS`, `REG_LIMIT`,
`REG_MODULUS`) and what values and masks are.

- *Account.* A recorder is `Sound` if there is an account of its instructions: `c`, the register
  counter before each, and `w`, what each register is worth (`Account`); every value alive that
  names one of its registers is worth that (`Known`), and the constraints it has recorded are worth
  what was asked for (`Constrains`). An account is not in the state: it says what running
  the instructions would give, before anything runs them.
- *Recording.* Each operator of `TracedValue` appends to the recorder of one operand or merges
  the other's into it. `EmitSound` extends an account by one instruction; `MergeSound` joins two,
  with the registers of the second moved past those of the first, and the values that
  named them moved alike (`Absorbs`, `MovedFacts`). So every operator has a lemma that says what the
  value it makes is worth (`AddedMakes` to `ConstantMakes`), and a loop over columns or secure
  columns has one built on it (`LoadsMake`, `CombinesMake`), up to the LogUp constraints of any
  number of fractions, added alone or in pairs (`FinalizeMakes`).
- *Encoding.* `EncodedFacts`: the words of an instruction, read back as the kernel does, are the
  instruction, with flat column numbers; `RemappedFacts` follows the walk that
  rewrites them over words of any kind, and `ColumnFound` shows that a flat number leads to the
  interaction and column it was recorded for.
- *Running.* `InstructionRuns`: if after i instructions the kernel's first `c[i]` registers are as `w`
  has them and it has added the first i - `c[i]` constraints, the like holds after i + 1.
  `ProgramRuns` goes from there to whole programs and `SoundRuns` back to the recorder.
- *Invariant.* `BytecodeInv` is `Recording`, every recorder that fits is sound and the
  fractions are made of values alive, and `Accumulated`, a component that is done has its
  constraints in the accumulator. Neither property is inductive: both speak of a run of the recorded
  program, which no step of the recording says anything about. `Sound` quantifies over functions
  on `Nat`, so that TLC checks the two properties and not the invariant.

To be provable the model folds over columns and fractions by recursive functions.

Recursive functions are met in several places (the sum of the gas, the padded row count, the
rebuilt map of the prover, the runs of scripts and of bytecode): the recursion is stated as a property of a function
that is a witness, extended or cut with the state, and where two such functions must be
equal the least argument on which they differ is refuted.

`TypeOK` of `DictHints`, `SyscallHints`, `VmMemory` and `Protocol` is proved and not part of a run.

Only model-checked:

- liveness (`SquashTerminates`, `CallsReturn`, `HandlersReturn`, `PagesComeBack`), which the
  proof system does not reach; in `CallsReturn` the bound on syscalls limits the nesting as well, so
  that it does not show the loss of the depth limit alone;
- `Stark252` and `Machines`: what they compute recursively for every input is induction over data;
- `Device`: its scripts are built for each workload, and a theorem for any workload needs
  accounts of the device scripts such as `ScriptProofs` gives of transcripts;
- `TypeOK` of `Dashboard`: it holds on the instance of its run, which spends its properties on
  other questions.

## Not modelled, and the plan

Hash permutations, the Poseidon builtin and the arithmetic inside kernels are
computations on values no model checker can hold, with little control; exports and the command
line are I/O. The network client of the resolver is external. Polynomials behind the M31
and Cairo transcripts are taken as binding: `Stark252` has them on a small field, for
the provers that share their structure.

Left for a later extension: `extract_bitwise_invocations`; the LogUp and range-check multisets of
`logup.rs` and `range_check.rs`; the loader's `detect_steps`; the arithmetic hints (division,
square root, wide products) against reference definitions.

Proofs to come: `UsesAreOrdered` and `MemoryReturned` in `Device`.
