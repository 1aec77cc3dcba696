# A TLA+ model of vramz

vramz keeps buffers larger than the GPU memory they are given: it cuts them
into chunks and moves each chunk between four representations (`gpu_raw`,
`gpu_compressed`, `host_raw`, `host_compressed`) under a fixed budget per
physical tier. This directory holds TLA+ modules that model it from the
arithmetic up to the runtime's shutdown, the TLC configurations that check them
on small instances, and TLAPS proofs.

## The system

| Component | State | Operations | What makes it correct |
| --- | --- | --- | --- |
| `BudgetLedger` (`src/core/budget_ledger.cpp`) | per tier: committed, reserved, staging, workspace, cleanup debt, peak, admission block; the callers' reservation tokens | reserve, materialize, release, commit, shrink, exchange, move to debt, retire, contract debt, projection | hard limit, exact tokens, peak covers charge, a blocked tier admits nothing |
| `TransactionCoordinator` (`src/core/transaction.cpp`) | a chunk's authority, transition flag, cleanup list | `migrate`: reserve, allocate, verify, compact, transfer, reconcile, verify, commit, release, with a rollback at each step | bytes are never lost; whatever fails, ownership and accounting agree |
| Leases (`src/core/runtime.cpp`) | read pins, write pin, intents, access revision | `Buffer::acquire`, `Lease::read`, `write`, `close`, `defer` | a pinned chunk does not move; a writer is alone |
| Allocation gate and restore (`runtime.cpp`) | `allocation_mutex` | `reclaim_locked`, `restore_with_policy`, admission in `allocate` | migrations never use up the migration reserve; reclaims end |
| Buffer close and quarantine (`runtime.cpp`) | closing, dead, cleanup_in_progress, quarantine slots | `close_buffer_state`, `retain_failed_buffer`, the destructors | one cleanup owner; everything owned is released or retained |
| Runtime lifecycle (`runtime.cpp`) | buffer registry, orphan cleanup, operations in flight, shutting_down | `create`, `allocate`, `shutdown` | shutdown leaves nothing owned, or says so, and can be tried again |
| Deferred completions (`runtime.cpp`) | completion pool | `defer`, `poll_completion`, `poll_ready_completions` | a lease is released exactly once, after its work |
| Policy (`src/policy/policy.cpp`) | access epochs, backoff and thrash history per chunk | `observe`, `access`, `transition`, `propose`, `preferred`, and the loop of `reclaim_locked` | bounded cycles; stale victims excluded; victims ordered whatever the scan |
| Async error channel (`src/core/async_error_channel.cpp`) | a bounded ring | `push`, `poll`, `first`, `stats` | the first error is kept, losses are counted |
| Mock and CUDA backends (`src/backends`) | resources, mappings, address space, primary context | `allocate_*`, `adopt`, `prepare_transfer`, `transfer`, `verify_*`, `write_*`, `release`, `shutdown` | a failed call leaves known ownership; what is verified is genuine |
| GPU codec adapter (`src/backends/nvcomp`, `timed_codec.cpp`) | one stream, one job | `initialize`, `launch`, `synchronize`, `result`, `shutdown` | jobs are never mixed up; no work outlives the stream |
| Layout (`runtime.cpp`, `checked.hpp`, `gpu_compression.cpp`) | none | `validate_config`, `choose_chunk_size`, `chunk_span`, `make_gpu_compression_plan` | exact up to the end of the word |
| Residency session (`src/core/multi_chunk_residency_smoke.cpp`) | owners, ledger, report of N chunks | one scripted run over backend and ledger | its report is true, whichever way it ends |

Threads of the application call the runtime directly; there are no worker
threads. Shared state is protected by the runtime's mutex, a buffer's
`close_mutex`, a chunk's mutex, the ledger's mutex and the backend's own lock,
each held for one short section and (but for the backend's own) never across a
backend call. What makes the system hard is what happens between those
sections, and the many backend calls of one operation, each of which may fail.

## Modules

| Module | Models |
| --- | --- |
| `BudgetLedgerOps` | the ledger's arithmetic: for each operation the condition under which it succeeds and the counters it leaves |
| `BudgetLedger` | the ledger as a state machine with arbitrary clients |
| `LedgerLemmas`, `BudgetLedgerProofs` | what each operator of the ledger does to a good `Counters` record; theorems about `BudgetLedger` |
| `Transaction` | `migrate`, the leases of one chunk, and the gate, by several threads over shared chunks, one ledger and one backend |
| `ChunkContract` | what a chunk promises to its users; `Transaction` implements it |
| `TransactionInvariant` | the inductive invariant of `Transaction` |
| `TransactionProofs`, `TransactionRefinement` | its proofs: every step keeps the invariant; the contract and the action properties |
| `TransactionBooks`, `TransactionBooksProofs` | what every thread and chunk has booked in the ledger, as an invariant, and the proof that no migration ends the process |
| `TransactionOwners`, `TransactionOwnersProofs` | who owns each resource of the backend, as an invariant, and the proof that at rest ownership and accounting are exact |
| `BufferClose` | extends `Transaction`: closing a buffer from its handle, its destructor, its leases and shutdown, against reclaims and leases |
| `PolicyOps`, `PolicyLaws` | the operators of `policy.cpp`, and what they are meant to compute |
| `Reclaim` | the policy loop and its three callers, over `PolicyOps` |
| `Lifecycle` | allocation chunk by chunk, the registry, orphans, quarantine and shutdown, over several buffers and threads |
| `Completion`, `CompletionProofs` | deferred leases, the pool, polls and shutdown's part in them; theorems about them |
| `AsyncErrors`, `AsyncErrorLog`, `AsyncErrorsProofs` | the ring of errors, the bounded log it implements, and the proof that it does |
| `StorageContract` | what `StorageBackend` promises the coordinator |
| `MockBackend`, `VmmBackend` | the two backends; both implement `StorageContract` |
| `GpuCodec` | the codec adapter, its stream and its timing decorator |
| `Layout` | the layout of buffers and codec jobs, the device probe and the backend's bounds, as operators |
| `Residency` | the multi-chunk residency session, over `BudgetLedgerOps` |
| `MC...` | the instances TLC checks |

How they build on each other: `Transaction` runs over the operators of
`BudgetLedgerOps` and over a backend that keeps exactly what `StorageContract`
states; `VmmBackend` and `MockBackend` show that the real backends keep it.
`BufferClose` composes closing with `Transaction`. `Reclaim` takes a migration
as one step that commits, refuses or fails: `Transaction` implementing
`ChunkContract` shows that this is how it looks from outside. `Lifecycle` and
`Completion` take the closing of one buffer as a few steps, which `BufferClose`
has in detail.

### BudgetLedger

`ledger[tier]` is the class's `Counters`, `tokens[client]` the array of three
`ReservationToken`s a caller passes to `reserve`. (`migrate` reserves up to six
requests, checked together: a request of their sum per tier is admitted or
refused alike.) Each public operation that changes state is one action `DoXxx`,
because each runs under the ledger's mutex. A call that fails changes nothing in
the code, so it is a stuttering step here. Clients are unconstrained: they may
pass any amount to any operation, in any order, so the properties are promises
of the ledger alone. Counters are words of size `MaxWord`; `Fits` is the success
condition of `checked_add`. Token ids and the transaction id a token carries are
left out: nothing but an error message depends on them.

### Transaction and ChunkContract

| Variable | Code |
| --- | --- |
| `ledger` | `BudgetLedger` (the operators of `BudgetLedgerOps`) |
| `store[r]` | the backend's resource `r`: tier, charge, content, or `None` |
| `chunk[c]` | `Chunk`: lifecycle, authority, transition owner, pins, intents, revision, cleanup list |
| `pc[t]`, `loc[t]` | where thread `t` is in `migrate` or in a lease, and its locals |

An action is one critical section or one backend call, in the order of the
code. A content is a generation number; `Garbage` is what an unwritten or
corrupted resource holds, so verification is a comparison of contents.
Rollback is a list of resources (`todo`), each released (`RollbackRelease`) and
then settled in the ledger and the chunk (`RollbackSettle`), as
`rollback_resource` does; `Finish` is the `clear_transition` or `poison` that
follows.

The backend fails according to `Faults`: `descriptor` (the source's descriptor
does not match), `bound` and `same_state` (no bound available), `allocate`,
`materialize` (the ledger's injected refusal), `verify` (transient) and
`contract` (a contract error of a verification), `prepare`, `transfer`,
`ambiguous`, `corrupt` (a transfer that reports success with wrong bytes),
`metadata`, `write`, and for releases `fail` (an error, resource kept) and `lie`
(success reported, resource kept).

Resource ids are used again once nothing names them, which keeps the state
finite; the backend's numbers grow without bound. Which fresh id comes next
makes no difference (`NextId`).

The runtime's own reports are operators: `Pending` is `ChunkInfo::pending` of
`inspect_chunk`, `ChargeOf` and `OwnedCharge` what `Runtime::stats` and
`Runtime::resources` add up. `PendingTold` and `AccountingExact` say that they
are true.

`TransactionAssumption` is what the code establishes of the constants: the
backend's charges are words, the chunks fit into the tier they start in, only a
compressed destination has a compaction bound (`migrate` ends the process
otherwise), and `None` is none of the values it stands beside.

`ChunkContract` sees of a chunk its form, the generation of its bytes, its
leases and whether it may still be used. `Cells` is the refinement mapping: the
form is that of the authority, the bytes are those of the resource the
authority names. That a migration of some thirty steps with rollbacks is one
abstract step says that the authority always names intact bytes, that they are
never moved under a lease, that a writer is alone, and that torn bytes or poison
end the chunk's use.

Not modelled here: the fail-stop (`std::terminate`) on a backend that
contradicts itself about identities or charges, because nothing runs after it;
observers, statistics and error values. Leases are of one chunk; the copies of a
lease over several are the arithmetic of `Layout`.

### BufferClose

`Chunks` are the chunks of one buffer. To the variables of `Transaction` it adds
`buffer` (closing, cleanup_in_progress, dead, the address reservation, whether
the handle exists, whether the quarantine holds the buffer), `runtime`
(shutting_down, shutdown_in_progress, shutdown_complete) and `clo[t]`, where
thread `t` is in `close_buffer_state` or in one of its callers.

| Actions | Code |
| --- | --- |
| `Enter`, `Scan`, `Cleanup` ... `Bury`, `Unmap`, `DeclareDead`, `LeaveCleanup` | `close_buffer_state`, one action per critical section or backend call; `LeaveCleanup` is the destructor of `CleanupGuard` |
| `CloseHandle`, `DestroyHandle`, `CloseLease` and `CheckClosing` | `Buffer::close`, `~Buffer`, the end of `Lease::close` |
| `CloseReturns` | what the caller does with the result: `retain_failed_buffer`, or nothing on busy |
| `Shutdown`, `Sweep`, `ShutdownContinues`, `Finalize` | `Runtime::shutdown` over the quarantine; the backend refuses to finish while it owns anything, as the CUDA backend does |
| `StartReclaim`, `NextRound`, `ProposeVictim`, `EndReclaim` | `reclaim_request` and the rounds of `reclaim_locked`, counted in operations_in_flight |
| `AcquireChecks`, `AcquireChunk`, `AcquireFails` | `Buffer::acquire` up to the intent: the checks of the runtime and the buffer are a critical section before it |
| `Work` | everything else of `Transaction` |

The owner of a handle joins its users before destroying it (`UsesHandle`); a
lease and a migration hold their own reference to the buffer. Left out: the
orphans of a failed `allocate` (`Lifecycle`), deferred completions
(`Completion`), and the fail-stop when the backend still owns an address range
it has reported released.

### PolicyOps, PolicyLaws and Reclaim

`PolicyOps` translates `policy.cpp` operator by operator. `PolicyLaws` compares
them with their meaning: one state is one input, its law says what the result
must be. `Reclaim` is the loop of `reclaim_locked` with `select_candidate` (one
inspection at a time, since each chunk is looked at under its own mutex), its
bounds, its fallback pass and its exclusion marks, and its callers: the public
reclaim, the restore of an acquire and the admission of `allocate`. One call
holds the gate (`call`); leases, writes, closes and shutdown of the other
threads happen between any two of its steps. A chunk stands for a buffer of one chunk, so
an allocation asks for room at most once; the bound of 32 retries over all the
chunks of an allocation is left out, and the rollback of several chunks is
`Lifecycle`'s. Statistics and the decision digest are left out: nothing reads
them back.

### Lifecycle and Completion

`Lifecycle` follows `Runtime::allocate` through gate, registry slot, address
space and, chunk by chunk, reservation, creation, materialization and commit,
each of which may fail; the rollback that closes what is there; handles that
are dropped; and `shutdown` with its orphan list, its quarantine and its final
step. A buffer that cannot be closed goes to the quarantine, a chunk that cannot
be undone to the orphan table. Buffers are charged one unit per chunk.

`Completion` has the slots of the pool, the fences of the backend, and for each
lease whether its handle or the pool answers for it. `Defer` claims the slot
before the fence is created; `PollReady` takes a snapshot of the tokens and works
it off one entry at a time (`Take` ... `Clear`), as does shutdown. The explicit
`poll_completion` is a snapshot of one token. Every backend call may fail, and a
failure ends the snapshot. The backend's own table of fences (`Table`) has as
many places as the pool; it refuses to create one when it is full, and to answer
about one it does not have. `FencesServed` says that the runtime never runs into
either.

### AsyncErrors and AsyncErrorLog

Every method holds the channel's mutex throughout, so each is one action. The
log is what the ring means: a queue of distinct errors with repetition counts,
the first error ever, and the number of reports that found no room.

### StorageContract, VmmBackend, MockBackend

The contract sees a resource as kind, charge, adoption and content: identities
are never given out twice, adoption changes nothing else, a charge moves only in
a completed transfer, a release takes the whole resource.

`VmmBackend` pairs the backend's tables (`res`, `addresses`, `privates`,
`context`) with the driver's truth (`drv`, `phys`). An operation holds the
backend's mutex and is a sequence of driver calls; each succeeds, is refused
without effect (`...Refused`), or has an unknown effect, on which the code ends
the process (`Fatal`). Stored bytes are a value with the form it is stored in;
a CRC is the value it was computed from. What the model keeps of a codec is that
it may produce anything (`Spoiled`), because the code decodes and compares the
output before it publishes it.

`MockBackend` is the backend of the repository's tests: one method is one
action. Bytes carry the set of damages done to them, so that every corruption a
test can ask for meets every check. Two things a reader of the mock should
know: its `write_bytes` attests whatever bytes are there (it computes the CRC
anew), and a raw destination that was never written verifies as zeros, but only
under the tag of its source, which no client accepts for another content. A
transfer has one operator per direction (`ToRaw`, `ToCompressed`) with a disjunct
per way to stop. The codec works in the destination's own bytes, so a refused one
leaves them untouched, torn, or complete, under the stored CRC of what was there
before: it is that CRC, or the tag, that later keeps them from being accepted
(`AcceptedIsGenuine`, in `ClientIsSafe`).

### GpuCodec

The adapter owns a stream; the device works the queue off in its own time. A
call that fails after its first enqueue does not say whether the work is on the
stream, so both happen. After a launch that was refused nothing is promised of
results (the backend ends the process).

### Layout

`validate_config`, `choose_chunk_size`, `chunk_span`, the offsets of allocate,
read and write, and `make_gpu_compression_plan` as operators on words that end at
`MaxWord`; one state is one input. Checked against set-theoretic definitions:
chunks partition the buffer, a span is the set of chunks that meet a range, the
pieces of a copy cover it exactly once. `Probe` is what the CUDA backend finds
out of a device when it is opened, and `AllocationBound`, `WorkspaceBound`,
`CompactionBound` and `Peak` what it then says and admits; `DeviceIsUsable` asks
that on a device it accepts the runtime's own choice of a chunk size works
wherever the codec's limit allows one, that chunks of an accepted size start where
every plan needs them, and that bounds and admissions cover what is allocated.

### Residency

The session drives backend and ledger itself and compares one with the other
after every step. One step is one backend call and the code up to the next;
it succeeds, is refused before or after it read the stored bytes, answers with a
contract violation, or ends the process; resident copies may lose their content
in between (`Rot`).

## Runs

| Run | Modules | Question |
| --- | --- | --- |
| `ledger` | `BudgetLedger`, `PolicyLaws`, `Layout` | do the ledger's promises hold for two arbitrary clients, and does the fixed-width arithmetic compute what it should? |
| `migrate` | `Transaction`, `TransactionOwners`, `ChunkContract` | does a migration that may fail anywhere keep ownership and accounting exact, and implement the contract of a chunk; do two without a gate; does the reserve come back? |
| `close` | `BufferClose` | is anything released twice or under a lease, does a dead buffer keep anything, does the ledger follow every retry? |
| `policy` | `Reclaim` | do reclaims stay in their bounds, evict only what they should, respect the normal limit, and end? |
| `runtime` | `Lifecycle`, `Completion` | is anything lost between allocation, failure and shutdown, does shutdown complete, does every deferred lease end once and at last? |
| `cuda_backend` | `VmmBackend`, `StorageContract` | is what the backend believes what the driver holds, are its attestations true, and can it always be closed? |
| `backends` | `MockBackend`, `StorageContract`, `GpuCodec`, `AsyncErrors`, `AsyncErrorLog` | the mock against the contract, the codec's jobs, the errors' fate |
| `residency` | `Residency` | is the report true? |
| `readers_coexist` | `Transaction` | (violated) do two readers of a compressed chunk both get their lease? |
| `close_lost_lease` | `BufferClose` | (violated) is every close completed by somebody? |
| `close_late_rollback` | `BufferClose` | (violated) does a closed buffer own nothing? |
| `close_repeated_poison` | `BufferClose` | (violated) does a retried close release only what is still owned? |

Several instances of a run. Most passing runs hold more than one instance: the
MC module extends one, instantiates the others with variables of their own, and
chooses in its initial state which `part` runs. The state space is the sum of
those of the parts, not their product. A part that does not run rests at its
initial state or at `None`. This is a way of sharing a run, not a composition:
properties that name several instances are conjunctions.

Three of the invariants are the inductive ones of the proofs: `migrate` checks
`MigrationInv` (of `TransactionOwners`, with the two it extends), with every kind of
fault, `backends` checks `ChannelInv` (in
`ReportsAccounted`) and `runtime` checks `CompletionInv` (in `CompletionsSafe`).

### Bounds

*ledger.* A GPU tier of three bytes with one in reserve and a word of four, so
that sums overflow just beyond the limit; two clients with three tokens each.
The laws of the policy have a word of 12 with three basis points and blocks of
two bytes; the layout sizes up to 6 in a word of 9, where products still
overflow. Deadlock checking is off: a tier with contract debt and nothing
charged has no successful call left.

*migrate, close.* A raw chunk costs 2, a workspace 1, a compressed chunk 1 or 2,
so that a compression can be useless, rejected by its ceiling, and shrink the
charge. Two threads are enough for each pair of critical sections to interleave;
the chunk's state depends on one transition at a time. `MaxGeneration` bounds
the writes (the code's own limit, at which it poisons the chunk, is that bound),
`MaxRevision` the acquisitions. In `migrate` the extended instance moves its
chunk between `gpu_raw`, `gpu_compressed`, which is compacted, and `host_raw`:
with and without a workspace, with and without compaction, within a tier and
across; it has one write before that poison, and two acquisitions, so that
leases of two readers coexist. Compression without compaction, where the
transfer itself shrinks the destination, is what the two other parts and `close`
do. The part `open` leaves the gate out on purpose, to show which properties
need it; `tight` has room for one restore beyond the compressed chunks, so the
second must wait or fail. In `close` the extended instance migrates to the host,
with and without a workspace, so that one transaction may leave two cleanup
resources; it has no `lie` and no poisoning fault, because with them two of the
violated runs show that the properties fail; the part `leased` has two chunks,
no migrations, and releases that are reported but not done.
`close_repeated_poison` needs three chunks: one revived, one whose release
fails, one whose charge is taken for the first's. Closing runs stop when the
runtime has shut down, so deadlock checking is off.

*policy.* Three chunks, one still to be allocated, in a tier that holds two raw
ones beside the workspace, with scans cut off after three inspections and
migrations that fail; and two chunks with full scans, writes, debt, poison,
closes and shutdown. The word of epochs ends at 3 in the first, so that
saturation happens. Cycles, revisions and writes are capped by name.

*runtime.* Two threads, two buffers of one or two chunks in a budget of three,
two orphan slots and two faults, so that an allocation fails at its second
chunk while the release of the first fails too; two leases, one a writer's, in
a pool of two with one fault.

*cuda_backend.* Four resources are what one compression with compaction needs
(source, destination, workspace, target); the part `close` has three, two
values and a write, and lets go. Each has one fault in a run: one refusal at any
driver call, or one copy gone wrong. The main part never writes (`MaxContent` is
0), so what `ImplementsContract` shows there is identity, charge and adoption; its
half about contents is idle. That what is attested are the bytes behind it, over
a write, is shown by `AttestedBytes` in the part `close`.

*backends.* Three resources of the mock over two places with every corruption and
fault; the part `copies` has a fourth, which the copy of a compressed chunk to a
compressed one needs (the first copy, a workspace, two destinations), so that a
copy also meets a destination that compaction has made too small, but only
transfers fail there; four codec jobs
in two areas; three errors in a ring of two whose counters stick at five, so
that it wraps, coalesces, overflows and saturates; one diagnostic failure, whose
counter nothing else reads.

*residency.* Four chunks, sizes that save, do not save, or exceed the payload,
and a cap that sometimes refuses the fourth.

### Fairness

Only what runs inside a call is fair: the application's threads are scheduled
by the operating system, and no lock is held while waiting for another thread.

* `Reclaim`: weak fairness of the thread that holds the gate. Nobody else is
  obliged to do anything: `ReclaimsEnd` holds although leases are never closed.
* `Lifecycle`: weak fairness of every thread inside a call and of a client that
  asks for shutdown again after busy, which is what the result asks of it;
  strong fairness of dropping a buffer once the client leaves, because a handle
  that is owned will be destroyed, though the threads may be busy in between.
* `Completion`: weak fairness inside calls, of somebody polling what is
  pending, and of the GPU reaching a fence.
* `VmmBackend`: weak fairness inside an operation, and of a client that lets go
  to continue. `Fatal` is an end, too.

Faults are bounded, so no fairness has to be assumed of their absence. No run
with a liveness property uses symmetry.

### Refinements

| Detailed | Abstract | Property | Mapping |
| --- | --- | --- | --- |
| `Transaction` | `ChunkContract` | `ImplementsChunk` | the authority's form and bytes, the pins, the lifecycle |
| `VmmBackend` | `StorageContract` | `ImplementsContract` | the table's entries without their backing |
| `MockBackend` | `StorageContract` | `KeepsContract` | likewise |
| `AsyncErrors` | `AsyncErrorLog` | `ImplementsLog` | the ring read from its head |

All of them are checked by TLC, with every fault of the instance. `ImplementsChunk`
and `ImplementsLog` are proved as well.

### What the violated runs show

**readers_coexist.** `docs/ARCHITECTURE.md:64` says "Independent and same-buffer read leases may
coexist". Two threads that acquire the same compressed chunk for reading both
register their intent; one restores the chunk and pins it; the other, which
waited at the allocation gate, then calls `migrate`, whose test for pins comes
before its test for "already `gpu_raw`", and fails with `busy`. A retry
succeeds.

**close_lost_lease.** `~Buffer` finds a pinned chunk and leaves
`close_buffer_state` with busy. Before its guard clears `cleanup_in_progress`,
the last lease unpins, finds the buffer closing, and is refused with busy too.
Both ignore busy, so nobody closes the buffer, while
`tests/integration/integration_tests.cpp:172-173` expects the last lease to do so.
(The same property fails when `~Buffer` meets a policy migration instead of a
lease: a migration does not close the buffer when it ends. That variant has no
run of its own.)

**close_late_rollback.** `rollback_resource` meets a workspace whose release was
reported but not done, and poisons the chunk, which ends the transition while
the destination has still to be rolled back. A close finishes in between, and a
destination that then cannot be released is remembered by a dead chunk.

**close_repeated_poison.** `migrate` poisons a chunk that `rollback_resource`
has already poisoned. A close that ran in between has declared the chunk dead;
poisoned again, it is retired and released a second time when that close is
retried after a failure at a later chunk (`docs/ARCHITECTURE.md:58`: "there is
no destructive retry").

`Reclaim` also states `VerdictAboutContent`, which no run lists: the verdict of a
failed compression is about the content it is recorded with. It does not hold
when a chunk is written and observed between the migration and the recording of
its result (`runtime.cpp:488`). The verdict is a hint, corrected by the next
write or after `reevaluate_epochs`.

## Proofs

Every theorem holds for all values of the constants that satisfy the named
assumption of its module; TLC evaluates the same assumptions on the instances.
Each argument is one inductive invariant, one lemma per action that keeps it,
and the properties that follow from it.

### The ledger

Assumed: `BudgetAssumption` (what `validate_tier` establishes) and
`ClientAssumption`. `LedgerLemmas` says of each operator of `BudgetLedgerOps`
that it replaces a good `Counters` record by a good one: words, with the charge
of an unblocked tier within its hard limit and not above its peak.
`BudgetLedgerProofs` concludes:

* `LedgerTypes`: the counters never leave their word, the tokens their type;
* `HardLimitHolds`: an unblocked tier is never charged beyond its hard limit;
* `PeakHolds`: the peak is never below the charge of an unblocked tier;
* `BlockHolds`: a blocked tier stays blocked and its reservations only shrink;
* `ClaimsHold`: the reserved bytes of a tier are the sum of what the active
  tokens of all clients claim, and from it `ActiveTokensCovered`: no release of
  an active token meets the invariant violation the code tests for.

`ClaimsHold` is about a sum over any finite number of tokens. `SumFunction` is a
fold, and no theorem about induction is usable here, so `LedgerLemmas` goes
around it: the units of the summands, counted, satisfy the equation of the fold
(`UnitsSplit`), a least subset where fold and count differ is impossible
(`SumIsUnits`), and of a count it is plain that changing one summand changes it
by as much (`SumChange`). One operation on a token changes one claim; `reserve`
changes three in turn (`ReserveClaims`).

The types are not inductive alone: that no sum overflows depends on the charge
being within the hard limit, which is a word, and that the peak stays above the
charge depends on no other operation raising it.

### Migrations and leases

Assumed: `TransactionAssumption` and `BudgetAssumption`. Nothing is assumed of
the faults that happen, of the number of threads (but that it is finite), chunks
or resources, or of whether there is a gate. `TransactionInv` has five parts,
and each is needed for another:

* `Typed`: types, and a good ledger. A migration may end with a blocked tier,
  so the limit is stated of unblocked ones.
* `Locked`: the pin and intent counters of a chunk are the numbers of threads
  that hold or await a lease, a writer is alone, and a pinned chunk is in no
  transition. `PinsExclude` alone is not inductive: that a last unpin really
  leaves nobody needs the counting.
* `Threaded`: what a thread may rely on between two of its critical sections. A
  migration that has not committed has its chunk, the source it has read is
  still the authority, and its destination is owned, charged as it recorded,
  and, after the verification, a copy of the source; a writer between the
  backend's write and its record finds the chunk as it left it.
* `Claimed`: a resource is the authority of one chunk or belongs to one thread.
  So nobody releases what another is using.
* `Kept`: the authority of a chunk is owned, in the tier and at the charge the
  chunk records, and unless it is poisoned or being written it holds its content.

In `TransactionProofs` a step of a migration is `Steady`: it keeps authorities and
pins and touches only resources that are fresh or its own, so the invariant of all
others carries over (`SteadyStep`), and each action has a lemma about the thread
that moves. Then come the steps that replace a chunk: pins, writes, ends of leases
(`LeaseKeeps`, `OthersKeep`) and the commit (`Swaps`). It concludes
`TransactionInvariance`, and from it `TransactionTypes`, `MigrationsWithinLimit`,
`AuthorityAlwaysOwned`, `AuthorityAlwaysIntact` and `PinsAlwaysExclude`.

`TransactionRefinement` proves, from the invariant:

* `MigrationsKeepContract`: `Transaction` implements `ChunkContract`. A step is,
  to the users of a chunk, nothing, a pin, a write, the record of a write, the
  end of a lease, or a move (`StepCases`), and each of them maps to a step of the
  contract under `Cells`. What makes the commit a move that keeps the bytes is
  that the verified destination still is a copy of the source.
* `PinnedStaysPut` and `PoisonIsFinal`: what no step may do to a pinned or a
  poisoned chunk (`StepRespects`).
* `StaleProposalsRejected`: a policy migration only takes a chunk whose revision
  is the one its proposal saw.

### The books of the migrations

Each `std::terminate` of `migrate` guards a call that the ledger must not
refuse: to materialize from a token, to give back what is booked, to commit, to
move bytes to cleanup debt. That it never does is a statement about sums over
all threads and chunks. Assumed beside the above: `BooksAssumption`, that the
chunks are finitely many, and that an allocation is never charged more than its
bound, since `corroborate_allocation` (`include/vramz/detail/allocation.hpp`)
ends the process before `migrate` sees one that is. `BooksInv` has four parts:

* `Balanced`: each counter of a tier is the sum of what threads and chunks have
  booked there: the tokens' remainders, destinations in staging, workspaces and
  compaction targets, authorities, cleanup lists. So no part exceeds its counter
  and nothing a thread gives back is refused.
* `WithinLimit`: a tier is charged at most its hard limit, closed or not. So no
  sum overflows. `TransactionInv` says this of open tiers only; of a closed one
  it needs that contract debt is taken from a reservation that covers it.
* `Apart`: two transactions never have the same chunk. After a poison the
  transition is over although the rollback goes on; what keeps a second one off
  the chunk is then its lifecycle and its cleanup list. And the list and what a
  thread has still to roll back are together at most three, of four slots.
* `Stocked`: at each position a thread has the tokens and the allocations that
  the rest of its way uses. So a token covers what is materialized from it, and
  the receipt of a transfer, which the ledger has yet to see, fits.

None holds without the others: that the books stay balanced needs that no
operation is refused, which needs the books; that a commit finds its cleanup
slot free needs `Apart`, which needs that debts are counted.
`TransactionBooksProofs` has one lemma per action (`BeginBooks` ...
`FinishBooks`) that says which bytes move and that the ledger follows;
`BalancedStep` and `LimitStep` make of it that the sums follow. Theorems:
`BooksInvariance`, and from it `MigrationsNeverTerminate`, `HardLimitAlwaysKept`,
`NothingInFlightAtRest` and `PendingAlwaysTold`: inside a transaction, also one that
has poisoned its chunk, the transition or the cleanup list shows (`Apart`), and
before and under a lease the counters do (`Locked`).

### The owners of the resources

The transaction code promises that known failures retain or clean exactly known
ownership. Nothing is assumed beyond what the books assume. `OwnersInv` says whose a
resource is at every moment, in the middle of a rollback too:

* `Listing`: what a thread has on its hands (`Listed`: its destination, workspace and
  compaction target, or what is left of its rollback) is stored in the tier and at
  the charge the thread knows, each under one name. The exceptions are the points
  between two critical sections: what it has released and not yet settled (`Gone`),
  and a compaction target whose charge the transfer has exchanged (`TargetAt`).
* `OwedApart`: a cleanup list names a resource once, none that another list names,
  none that is an authority or on a thread's hands. So nothing is released twice.
* `OwedStored`: what a cleanup list names is stored as it is charged there, but for
  a source that has just been released.
* `NothingLost`: what the backend stores is an authority, on a cleanup list, or on a
  thread's hands. So nothing leaks.

It is not inductive by itself: that a thread may forget a resource rests on the
books, where the ledger never refuses to move its charge, and that an allocation
collides with nobody on `Claimed`. `MigrationInv` is the three together.
`TransactionOwnersProofs` treats a step as one that passes resources on within its
reach (the chunk's authority and list, and the thread's hands: `Passes`) and leaves
this reach in order (`Orderly`); `OwnersStep` concludes the invariant, and
`WalkOwners`, `ReleaseOwners`, `OweOwners`, `AllocateOwners` are the shapes most
actions have. Theorems: `MigrationInvariance`, and from it

* `OwnershipAlwaysKnown`: at rest every stored resource has exactly one holder;
* `AccountingAlwaysExact`: at rest the ledger charges what the backend owns. The
  books are sums over chunks, the backend's charge one over resources. `SumByOwner`
  relates them: numbering the units each chunk has booked gives a bijection between
  the units of all resources and those of all chunks.

### Deferred completions

Assumed: `CompletionConstants` (the pool has a place, threads are finitely many,
a number bounds the faults). `CompletionInv` says what a thread inside a call
relies on after it let go of the runtime's mutex (`Relies`), that two threads
share no entry, lease or fence (`Apart`), what an entry, a fence and a lease may
be (`Sound`, `OneEach`, `Named`, `Ended`), that a runtime found quiet stays so
(`StaysQuiet`) and that the two counters count (`Counted`). A step moves a thread
through its snapshot (`WalkKeeps`), works on its own entry (`EntryKeeps`), leaves
the pool alone (`StillKeeps`), is one of a holder (`HolderKeeps`), or publishes
(`PublishKeeps`). Theorems: `CompletionInvariance`, and from it
`DeferredStaysPinned`, `LeasesEndOnce`, `PoolStaysExact`, `NoFenceLost`,
`WritesRefresh`, `ShutdownLeavesNothing` and `FencesAlwaysServed`, the last by an
injection: each fence of the backend's table has an entry of the pool other than
the one a creating thread has claimed, so that there is a place for the next.
`CompletionsAreSafe` collects them as the property the run checks.

### Asynchronous errors

Assumed: `ChannelConstants` (a ring of at least one place, a word of at least
one, an error there can be). The ring's remainders are handled once, in
`RingPosition` and `SlotsDiffer`: a position is below twice the capacity, so the
remainder subtracts the capacity or does nothing. `ChannelInv` adds to the types
that the retained errors are distinct, that their sequence numbers rise until a
counter sticks, and that what `first()` keeps is what the reader got first or
will get first. Theorems: `ChannelInvariance`, `ErrorsInOrder`,
`FirstErrorIsHanded`, `StatsNeverGoBack`, and `RingImplementsLog`: read from its
head, the ring is the bounded log of `AsyncErrorLog`, also when head and counters
have wrapped or stuck.

### What is only model-checked

* Liveness and everything about ENABLED: `ShutdownEnds`, `DeferredEnds`,
  `ReclaimsEnd`, `ClosingEnds`.
* `ReserveComesBack` of `Transaction`: that the reserve is free again once all is at
  rest depends on the gate, and on no other migration than the projected one having
  changed the tier in between; its invariant is not written yet.
* `BufferClose`: it extends `Transaction` with lifecycles (closing, dead) in which
  `Kept` is deliberately not true, so it needs an invariant of its own, and three
  of its runs show what does not hold there.
* `Lifecycle`, `Reclaim`, the backends, the codec and the session: not attempted
  yet. `Layout` and `PolicyLaws` compare operators with definitions on bounded
  inputs; some of these use recursive functions, about which nothing can be proved
  by induction here.

## Not modelled

* The compression, controlled-capacity, 2x and policy-pressure programs in
  `src/core`: scripts over the operations modelled here, with reports of their
  own. `Residency` is the one session that drives backend and ledger itself.
* `src/simulation`: a parser of scenarios and a sequential driver over the mock
  runtime.
* The CPU codecs and CRC32C: functions on bytes, abstracted to what a content
  decodes to. `src/tools` and `src/examples`: sequential clients.
* The bindings of the CUDA driver and of nvCOMP, device selection, and
  `allocate_initialized_raw`, which serves the raw smoke program only.
* Performance counters, statistics, observers and the text of errors.
* A crash of the process and a restart: nothing is persisted.

## Plan

Done: the ledger, migrations and leases with their contract, their books and the
owners of their resources, deferred completions, the error channel. Next, in this
order:

1. `Lifecycle`: `NothingLost`, `OrphansBounded`, `CompleteIsEmpty` for any number
   of buffers and threads.
2. `Transaction`: what the projection leaves of a tier, for `ReserveComesBack`.
3. `BufferClose`: `TransactionInv` for closing and dead chunks, then
   `ReleasesOwned` and `LeaseAlive`.
4. `MockBackend` and `VmmBackend`: `StorageContract`, step by step.
5. Lemmas about `PolicyOps` (the order of candidates) and `Layout`.
