------------------------------- MODULE Reclaim -------------------------------
(***************************************************************************)
(* The policy loop: reclaim_locked, which evicts chunks until the GPU tier *)
(* is charged no more than a target, and its three callers, the public     *)
(* reclaim_to_target, the restore of a chunk that is being acquired, and   *)
(* the admission and the soft target of an allocation.                     *)
(*                                                                         *)
(* The caller owns allocation_mutex, so there is one call at a time, and    *)
(* `call` is its state.  Between its critical sections the application's   *)
(* threads acquire, use and release chunks, close buffers and shut the     *)
(* runtime down.  A migration is one step here: it refuses, fails, or      *)
(* commits, as Transaction shows of its many steps.  A buffer has one      *)
(* chunk, and one user at a time.                                          *)
(***************************************************************************)
EXTENDS PolicyOps, SequencesExt

CONSTANTS
  Order,             \* the registry: the ids of the chunks, in the order of the scan
  Present,           \* how many of them exist at the start
  Tuning, Mode,      \* PolicyConfig
  HardLimit, MigrationReserve, SoftTarget, \* the GPU tier's budget
  RawCharge, Workspace,                    \* allocation_bound, workspace_bound
  CompressedCharges, \* what a compressed chunk may be charged
  Targets,           \* the targets of reclaim_to_target
  Faults,            \* what may go wrong: fail, poison, debt; close, shutdown
  MaxRevision, MaxContent, MaxCycle \* access revisions, writes and policy cycles

ASSUME ReclaimAssumption ==
  /\ ValidTuning(Tuning)
  /\ MigrationReserve <= HardLimit
  /\ Mode \in {"gpu_resident", "gpu_resident_with_host_fallback"}

VARIABLES
  chunk, \* the chunks: what a ChunkSnapshot shows of them
  meta,  \* policy_metadata
  rt,    \* access_epoch, policy_cycle, shutting_down
  call,  \* the reclaim in progress and its caller
  seen   \* history: what this cycle has tried and found stale, the epoch of each
         \* chunk's last move, and the content each compressibility is about

vars == <<chunk, meta, rt, call, seen>>

Chunks == {Order[i] : i \in 1 .. Len(Order)}
NormalLimit == HardLimit - MigrationReserve

ChunkStates ==
  [lifecycle : {"absent", "live", "poisoned", "dead"}, state : States, charge : Nat,
   debt : Nat, cleanup : 0 .. 1, content : 0 .. MaxContent, revision : 0 .. MaxRevision,
   use : {"free", "intent", "accessed", "pinned"}]

Idle ==
  [pc |-> "idle", kind |-> "none", subject |-> None, target |-> 0, admission |-> FALSE,
   cycle |-> 0, inspected |-> 0, attempted |-> 0, fallback |-> FALSE,
   victim |-> None, snap |-> None, outcome |-> None]

TypeOK ==
  /\ chunk \in [Chunks -> ChunkStates]
  /\ \A c \in Chunks : meta[c].recent_frequency \in 0 .. FrequencyCap
  /\ rt \in [now : 0 .. MaxWord, cycle : 0 .. MaxCycle, shutting_down : BOOLEAN]
  /\ DOMAIN call = DOMAIN Idle

\* An allocated chunk, and the metadata that goes with it.
Allocated(content) ==
  [lifecycle |-> "live", state |-> "gpu_raw", charge |-> RawCharge, debt |-> 0, cleanup |-> 0,
   content |-> content, revision |-> 0, use |-> "free"]
SnapshotOf(ch) ==
  [lifecycle |-> ch.lifecycle, in_use |-> ch.use # "free", cleanup |-> ch.cleanup,
   state |-> ch.state, charge |-> ch.charge, content |-> ch.content, revision |-> ch.revision]
AllocatedMetadata(ch, epoch) ==
  [Observe(NewMetadata, SnapshotOf(ch), RawCharge, epoch) EXCEPT !.last_access_epoch = epoch]

Init ==
  /\ chunk = [c \in Chunks |->
       IF \E i \in 1 .. Present : Order[i] = c
         THEN Allocated(0) ELSE [Allocated(0) EXCEPT !.lifecycle = "absent"]]
  /\ meta = [c \in Chunks |-> AllocatedMetadata(chunk[c], 0)]
  /\ rt = [now |-> 0, cycle |-> 0, shutting_down |-> FALSE]
  /\ call = Idle
  /\ seen = [tried |-> {}, stale |-> {}, moved |-> [c \in Chunks |-> 0],
             about |-> [c \in Chunks |-> NoContent]]

\* ledger.charged(gpu)
Owned(ch) ==
  IF ch.lifecycle \in {"absent", "dead"} THEN 0
  ELSE ch.debt + IF OnGpu(ch.state) THEN ch.charge ELSE 0
Charged == FoldSeq(LAMBDA c, n : Owned(chunk[c]) + n, 0, Order)

Tick == [rt EXCEPT !.now = SaturatingAdd(@, 1)]

-----------------------------------------------------------------------------
(* The application's threads: Buffer::acquire, Lease::close, Buffer::close *)
(* and Runtime::shutdown.                                                  *)

Acquire(c) ==
  /\ ~rt.shutting_down
  /\ chunk[c].lifecycle = "live"
  /\ chunk[c].use = "free"
  /\ chunk[c].revision < MaxRevision
  /\ ~(call.kind = "soft" /\ call.subject = c)
  /\ chunk' = [chunk EXCEPT ![c].use = "intent", ![c].revision = @ + 1]
  /\ UNCHANGED <<meta, rt, call, seen>>

\* raw_charge
RawChargeOf(ch) == IF IsRaw(ch.state) THEN ch.charge ELSE RawCharge

RecordAccess(c) ==
  /\ chunk[c].use = "intent"
  /\ chunk' = [chunk EXCEPT ![c].use = "accessed"]
  /\ rt' = Tick
  /\ meta' = [meta EXCEPT ![c] =
       Access(Observe(@, SnapshotOf(chunk[c]), RawChargeOf(chunk[c]), rt'.now), rt'.now, Tuning)]
  /\ UNCHANGED <<call, seen>>

\* The pins are taken; a chunk with an intent cannot have been moved meanwhile.
Pin(c) ==
  /\ chunk[c].use = "accessed"
  /\ chunk[c].state = "gpu_raw"
  /\ chunk' = [chunk EXCEPT ![c].use = "pinned"]
  /\ UNCHANGED <<meta, rt, call, seen>>

\* The lease ends, with or without having written.
Release(c) ==
  /\ chunk[c].use = "pinned"
  /\ \E content \in {chunk[c].content} \cup {n \in 0 .. MaxContent : n = chunk[c].content + 1} :
       chunk' = [chunk EXCEPT ![c].use = "free", ![c].content = content]
  /\ UNCHANGED <<meta, rt, call, seen>>

CloseBuffer(c) ==
  /\ "close" \in Faults
  /\ chunk[c].lifecycle \in {"live", "poisoned"}
  /\ chunk[c].use = "free"
  /\ ~(call.kind = "soft" /\ call.subject = c)
  /\ chunk' = [chunk EXCEPT ![c] = [Allocated(0) EXCEPT !.lifecycle = "dead"]]
  /\ meta' = [meta EXCEPT ![c] = NewMetadata]
  /\ UNCHANGED <<rt, call, seen>>

Shutdown ==
  /\ "shutdown" \in Faults
  /\ ~rt.shutting_down
  /\ rt' = [rt EXCEPT !.shutting_down = TRUE]
  /\ UNCHANGED <<chunk, meta, call, seen>>

-----------------------------------------------------------------------------
(* The callers up to reclaim_locked.                                       *)

Enter(kind, subject, target, admission) ==
  call' = [Idle EXCEPT !.pc = "begin", !.kind = kind, !.subject = subject,
                       !.target = target, !.admission = admission]

ReclaimToTarget(target) ==
  /\ call.pc = "idle"
  /\ ~rt.shutting_down
  /\ rt' = Tick
  /\ Enter("request", None, target, FALSE)
  /\ UNCHANGED <<chunk, meta, seen>>

\* An allocation that the ledger admits needs no reclaim before it.
Allocate(c) ==
  /\ call.pc = "idle"
  /\ ~rt.shutting_down
  /\ chunk[c].lifecycle = "absent"
  /\ IF Charged + RawCharge <= NormalLimit
       THEN /\ call' = [Idle EXCEPT !.pc = "create", !.kind = "admit", !.subject = c]
            /\ rt' = rt
       ELSE /\ Enter("admit", c, NormalLimit - RawCharge, TRUE)
            /\ rt' = Tick
  /\ UNCHANGED <<chunk, meta, seen>>

\* Mutant: the growth of the chunk is not counted against the normal limit.
RestoreTarget_NoGrowth(ch) == <<HardLimit - (RawCharge + Workspace)>>

\* The charge at which the restore of ch fits, or <<>> when it never does.
RestoreTarget(ch) ==
  LET temporary == RawCharge + Workspace
      credit    == IF OnGpu(ch.state) THEN ch.charge ELSE 0
      growth    == IF RawCharge > credit THEN RawCharge - credit ELSE 0
  IN IF temporary > HardLimit \/ growth > NormalLimit
       THEN <<>> ELSE <<Min({NormalLimit - growth, HardLimit - temporary})>>

Restore(c) ==
  /\ call.pc = "idle"
  /\ chunk[c].use = "accessed"
  /\ chunk[c].lifecycle = "live"
  /\ chunk[c].state # "gpu_raw"
  /\ LET target == RestoreTarget(chunk[c])
     IN IF target = <<>>
          THEN chunk' = [chunk EXCEPT ![c].use = "free"] /\ UNCHANGED call
          ELSE Enter("restore", c, target[1], TRUE) /\ UNCHANGED chunk
  /\ UNCHANGED <<meta, rt, seen>>

-----------------------------------------------------------------------------
(* What the callers do with the result of reclaim_locked.                  *)

\* A restore that gets no room gives its intent up; an allocation whose soft reclaim
\* fails for another reason than memory is rolled back.
Return(result) ==
  /\ call' = CASE result = "ok" /\ call.kind = "admit"   -> [call EXCEPT !.pc = "create"]
               [] result = "ok" /\ call.kind = "restore" -> [call EXCEPT !.pc = "restore"]
               [] result # "failed" /\ call.kind = "soft" -> [call EXCEPT !.pc = "publish"]
               [] OTHER -> Idle
  /\ chunk' = CASE result # "ok" /\ call.kind = "restore" ->
                     [chunk EXCEPT ![call.subject].use = "free"]
                [] result = "failed" /\ call.kind = "soft" ->
                     [chunk EXCEPT ![call.subject].lifecycle = "dead"]
                [] OTHER -> chunk

\* The reservation, the allocation and the chunk's metadata; the allocation may fail.
Create ==
  /\ call.pc = "create"
  /\ LET c == call.subject
         ch == Allocated(0)
     IN \/ /\ Charged + RawCharge <= NormalLimit
           /\ rt' = Tick
           /\ chunk' = [chunk EXCEPT ![c] = ch]
           /\ meta' = [meta EXCEPT ![c] = AllocatedMetadata(ch, rt'.now)]
           /\ seen' = [seen EXCEPT !.moved[c] = rt'.now]
           /\ IF Charged + RawCharge > SoftTarget
                THEN Enter("soft", c, SoftTarget, FALSE)
                ELSE call' = [Idle EXCEPT !.pc = "publish", !.kind = "soft", !.subject = c]
        \/ /\ Charged + RawCharge > NormalLimit \/ "fail" \in Faults
           /\ call' = Idle
           /\ UNCHANGED <<chunk, meta, rt, seen>>

Publish ==
  /\ call.pc = "publish"
  /\ call' = Idle
  /\ chunk' = IF rt.shutting_down
                THEN [chunk EXCEPT ![call.subject].lifecycle = "dead"] ELSE chunk
  /\ UNCHANGED <<meta, rt, seen>>

\* The migration to gpu_raw of the chunk that is being acquired.
RestoreMigrate ==
  /\ call.pc = "restore"
  /\ LET c == call.subject IN
     \/ /\ Charged + RawCharge + Workspace <= HardLimit
        /\ chunk' = [chunk EXCEPT ![c].state = "gpu_raw", ![c].charge = RawCharge]
        /\ seen' = [seen EXCEPT !.moved[c] = rt.now]
        /\ call' = [call EXCEPT !.pc = "restored"]
     \/ /\ "fail" \in Faults \/ Charged + RawCharge + Workspace > HardLimit
        /\ chunk' = [chunk EXCEPT ![c].use = "free"]
        /\ call' = Idle
        /\ seen' = seen
  /\ UNCHANGED <<meta, rt>>

RestoreRecord ==
  /\ call.pc = "restored"
  /\ meta' = [meta EXCEPT ![call.subject] = Transition(@, "gpu_raw", rt.now, Tuning)]
  /\ call' = Idle
  /\ UNCHANGED <<chunk, rt, seen>>

-----------------------------------------------------------------------------
(* reclaim_locked.                                                         *)

\* A cycle number, unless the runtime is shutting down or the numbers are used up.
Begin ==
  /\ call.pc = "begin"
  /\ IF rt.shutting_down \/ rt.cycle = MaxCycle
       THEN Return("failed") /\ UNCHANGED <<rt, seen>>
       ELSE /\ rt' = [rt EXCEPT !.cycle = @ + 1]
            /\ call' = [call EXCEPT !.pc = "round", !.cycle = rt.cycle + 1]
            /\ seen' = [seen EXCEPT !.tried = {}, !.stale = {}]
            /\ chunk' = chunk
  /\ meta' = meta

Pressure ==
  IF call.admission THEN Critical
  ELSE Max({Soft, PressureOf(Charged, SoftTarget, HardLimit, MigrationReserve, 0)})

\* The head of the loop.
Round ==
  /\ call.pc = "round"
  /\ IF Charged > call.target /\ call.attempted < Tuning.maximum_transitions
       THEN IF rt.shutting_down
              THEN Return("failed")
              ELSE call' = [call EXCEPT !.pc = "select"] /\ chunk' = chunk
       ELSE call' = [call EXCEPT !.pc = "end"] /\ chunk' = chunk
  /\ UNCHANGED <<meta, rt, seen>>

\* Mutant: a stale victim is only left out of the pass that met it.
Excluded_ByPass(m) ==
  (IF call.fallback THEN m.last_fallback_cycle ELSE m.last_attempt_cycle) = call.cycle

Excluded(m) ==
  \/ m.stale_rejection_cycle = call.cycle
  \/ (IF call.fallback THEN m.last_fallback_cycle ELSE m.last_attempt_cycle) = call.cycle

\* The chunks of the buffers that are neither closing nor dead.
Scan == SelectSeq(Order, LAMBDA c : chunk[c].lifecycle \notin {"absent", "dead"})
Inspected == SubSeq(Scan, 1, Min({Len(Scan), Tuning.maximum_candidates - call.inspected}))

\* Mutant: the scan always counts as complete.
ScanComplete_Always == TRUE

ScanComplete == Len(Inspected) = Len(Scan)

\* What the scan proposes for c, once it has observed it.
ProposalFor(c, m) ==
  IF Excluded(m) THEN Keep
  ELSE Propose(m, SnapshotOf(chunk[c]), c, Pressure, rt.now, Mode, Tuning, call.fallback)

\* select_candidate, and the choice that follows: a victim, the fallback pass, or the end.
\* Every inspected chunk is observed.  Preferred is a total order on the proposals
\* (PolicyLaws), so the scan ends with the one that is preferred to all others.
Select ==
  /\ call.pc = "select"
  /\ meta' = [c \in Chunks |->
       IF \E i \in DOMAIN Inspected : Inspected[i] = c
         THEN Observe(meta[c], SnapshotOf(chunk[c]), RawChargeOf(chunk[c]), rt.now)
         ELSE meta[c]]
  /\ \E proposals \in {{ProposalFor(Inspected[i], meta'[Inspected[i]]) :
                            i \in DOMAIN Inspected} \ {Keep}} :
       LET best == CHOOSE p \in proposals :
                     \A q \in proposals \ {p} : Preferred(p, q, Tuning.strategy)
           after == [call EXCEPT !.inspected = @ + Len(Inspected)]
       IN call' =
            IF proposals # {}
              THEN [after EXCEPT !.pc = "mark", !.attempted = @ + 1, !.victim = best.id,
                                 !.snap = SnapshotOf(chunk[best.id])]
            ELSE IF /\ ~call.fallback /\ ScanComplete /\ call.admission
                    /\ Mode = "gpu_resident_with_host_fallback"
              THEN [after EXCEPT !.pc = "round", !.fallback = TRUE]
              ELSE [after EXCEPT !.pc = "end"]
  /\ UNCHANGED <<chunk, rt, seen>>

\* Mutant: the victim is marked as if it had been tried by the other pass.
Mark_OtherPass(m) ==
  IF call.fallback THEN [m EXCEPT !.last_attempt_cycle = call.cycle]
                   ELSE [m EXCEPT !.last_fallback_cycle = call.cycle]

Mark(m) ==
  IF call.fallback THEN [m EXCEPT !.last_fallback_cycle = call.cycle]
                   ELSE [m EXCEPT !.last_attempt_cycle = call.cycle]

MarkVictim ==
  /\ call.pc = "mark"
  /\ meta' = [meta EXCEPT ![call.victim] = Mark(@)]
  /\ seen' = [seen EXCEPT !.tried = @ \cup {<<call.victim, call.fallback>>}]
  /\ call' = [call EXCEPT !.pc = "migrate"]
  /\ UNCHANGED <<chunk, rt>>

Destination ==
  IF ~call.fallback THEN "gpu_compressed"
  ELSE IF IsRaw(call.snap.state) THEN "host_raw" ELSE "host_compressed"

\* Mutant: a stale proposal is tried again and again.
AfterMigrate_Retries(outcome, moved) ==
  /\ call' = IF outcome.kind = "stale" THEN call
             ELSE [call EXCEPT !.pc = IF moved THEN "transition" ELSE "outcome",
                               !.outcome = outcome]
  /\ UNCHANGED <<meta, rt>>

AfterMigrate(outcome, moved) ==
  /\ call' = [call EXCEPT !.pc = IF moved THEN "transition" ELSE "outcome",
                          !.outcome = outcome]
  /\ UNCHANGED <<meta, rt>>

Outcome(kind, charge) == [kind |-> kind, charge |-> charge]

\* migrate refuses the proposal: the chunk is gone, or not as it was proposed.
MigrateRefused ==
  LET ch == chunk[call.victim] IN
  /\ call.pc = "migrate"
  /\ \/ /\ ch.lifecycle # "live"
        /\ AfterMigrate(Outcome("failed", 0), FALSE)
     \/ /\ ch.lifecycle = "live"
        /\ ch.content # call.snap.content \/ ch.revision # call.snap.revision
        /\ AfterMigrate(Outcome("stale", 0), FALSE)
  /\ UNCHANGED <<chunk, seen>>

MayMigrate ==
  LET ch == chunk[call.victim]
  IN /\ call.pc = "migrate"
     /\ ch.lifecycle = "live"
     /\ ch.content = call.snap.content
     /\ ch.revision = call.snap.revision

\* The charges a migration may end with; a compression has a ceiling.
Charges ==
  IF call.pc # "migrate" THEN {}
  ELSE IF call.fallback THEN {call.snap.charge} ELSE CompressedCharges
Beneficial(charge) ==
  IF call.fallback THEN TRUE ELSE charge <= CompressionLimit(call.snap.charge, Tuning)[1]

\* It commits; the old resource is released, or stays as cleanup debt.
MigrateCommits(charge, debt) ==
  LET c == call.victim IN
  /\ MayMigrate
  /\ Beneficial(charge)
  /\ chunk' = [chunk EXCEPT ![c].state = Destination, ![c].charge = charge,
                            ![c].debt = IF debt THEN call.snap.charge ELSE 0,
                            ![c].cleanup = IF debt THEN 1 ELSE 0]
  /\ seen' = [seen EXCEPT !.moved[c] = rt.now]
  /\ AfterMigrate(Outcome("committed", charge), TRUE)

\* compression_not_beneficial carries the charge that was measured.
MigrateUseless(charge) ==
  /\ MayMigrate
  /\ ~Beneficial(charge)
  /\ AfterMigrate(Outcome("not_beneficial", charge), FALSE)
  /\ UNCHANGED <<chunk, seen>>

MigrateFails(poison) ==
  /\ MayMigrate
  /\ chunk' = [chunk EXCEPT ![call.victim].lifecycle = IF poison THEN "poisoned" ELSE @]
  /\ AfterMigrate(Outcome("failed", 0), FALSE)
  /\ seen' = seen

\* record_policy_transition
RecordTransition ==
  /\ call.pc = "transition"
  /\ meta' = [meta EXCEPT ![call.victim] = Transition(@, Destination, rt.now, Tuning)]
  /\ call' = [call EXCEPT !.pc = "outcome"]
  /\ UNCHANGED <<chunk, rt, seen>>

\* What the metadata learns, after all of it may have been observed again.
Learn(m) ==
  LET o == call.outcome IN
  CASE o.kind = "stale" -> [m EXCEPT !.stale_rejection_cycle = call.cycle]
    [] o.kind \in {"committed", "not_beneficial"} /\ ~call.fallback ->
         CompressionResult(m, o.charge, rt.now, Tuning)
    [] o.kind = "failed" /\ ~call.fallback ->
         [m EXCEPT !.last_attempt_failed = TRUE,
                   !.retry_after = SaturatingAdd(rt.now, Tuning.transition_cooldown)]
    [] OTHER -> m

\* A poisoned victim, or one with something to clean up, ends the cycle.
RecordOutcome ==
  /\ call.pc = "outcome"
  /\ meta' = [meta EXCEPT ![call.victim] = Learn(@)]
  /\ seen' = [seen EXCEPT
       !.stale = IF call.outcome.kind = "stale" THEN @ \cup {call.victim} ELSE @,
       !.about[call.victim] =
         IF ~call.fallback /\ call.outcome.kind \in {"committed", "not_beneficial"}
           THEN call.snap.content ELSE @]
  /\ IF chunk[call.victim].lifecycle = "poisoned" \/ chunk[call.victim].cleanup # 0
       THEN Return("failed")
       ELSE call' = [call EXCEPT !.pc = "round"] /\ chunk' = chunk
  /\ UNCHANGED rt

End ==
  /\ call.pc = "end"
  /\ Return(IF Charged > call.target THEN "out_of_gpu_memory" ELSE "ok")
  /\ UNCHANGED <<meta, rt, seen>>

-----------------------------------------------------------------------------
User ==
  \/ \E c \in Chunks : Acquire(c) \/ RecordAccess(c) \/ Pin(c) \/ Release(c) \/ CloseBuffer(c)
  \/ Shutdown

Start ==
  \/ \E target \in Targets : ReclaimToTarget(target)
  \/ \E c \in Chunks : Allocate(c) \/ Restore(c)

\* The steps of the thread that holds the gate.
Holder ==
  \/ Begin \/ Round \/ Select \/ MarkVictim
  \/ MigrateRefused
  \/ \E n \in Charges : MigrateCommits(n, FALSE) \/ MigrateUseless(n)
  \/ "debt" \in Faults /\ \E n \in Charges : MigrateCommits(n, TRUE)
  \/ "fail" \in Faults /\ MigrateFails(FALSE)
  \/ "poison" \in Faults /\ MigrateFails(TRUE)
  \/ RecordTransition \/ RecordOutcome \/ End
  \/ Create \/ Publish \/ RestoreMigrate \/ RestoreRecord

Next == User \/ Start \/ Holder

\* The holder is a running thread inside one call: it takes its next step, whatever the
\* other threads do.  Nobody is obliged to start a call, to use or to release a chunk.
Fairness == WF_vars(Holder)

Spec == Init /\ [][Next]_vars /\ Fairness

-----------------------------------------------------------------------------
\* A cycle stays within its bounds and never tries a chunk twice in one pass, whatever
\* the migrations return and however its metadata is updated meanwhile (the counters
\* inspected and attempted, last_attempt_cycle and last_fallback_cycle).
CycleBounded ==
  /\ call.inspected <= Tuning.maximum_candidates
  /\ call.pc \in {"round", "migrate", "transition", "outcome", "end"} =>
       /\ call.attempted = Cardinality(seen.tried)
       /\ call.attempted <= Tuning.maximum_transitions

\* "A stale access revision rejects the proposal atomically and excludes that chunk for
\* the remaining policy cycle" (docs/ARCHITECTURE.md), the fallback pass included.
StaleStaysOut == call.pc = "mark" => call.victim \notin seen.stale

\* "An incomplete GPU scan never authorizes a host fallback decision" (reclaim_locked):
\* when the fallback pass starts, no chunk of the registry could still be compressed.
FallbackIsLast ==
  [][~call.fallback /\ call'.fallback /\ call'.pc = "round" =>
       \A c \in Chunks :
         \/ chunk[c].lifecycle \in {"absent", "dead"}
         \/ <<c, FALSE>> \in seen.tried
         \/ c \in seen.stale
         \/ Propose(meta'[c], SnapshotOf(chunk[c]), c, Critical, rt.now, Mode, Tuning, FALSE)
              = Keep]_vars

\* Migrations never use up the migration reserve: between calls, what the chunks
\* themselves are charged fits the normal limit (the targets of restore_with_policy and
\* allocate).
NormalLimitKept ==
  call.pc = "idle" =>
    FoldSeq(LAMBDA c, n : Owned([chunk[c] EXCEPT !.debt = 0]) + n, 0, Order) <= NormalLimit

\* The adaptive strategy evicts no chunk that has moved less than transition_cooldown
\* epochs ago, whoever moved it and whatever was observed in between.
CooldownKept ==
  [][\A c \in Chunks :
       /\ chunk'[c].state # chunk[c].state
       /\ chunk'[c].state # "gpu_raw"
       => rt.now - seen.moved[c] >= Tuning.transition_cooldown]_vars

\* A reclaim, with the call it serves, ends: the loop cannot go on for ever, however
\* the migrations fail and the other threads interfere.
ReclaimEnds == (call.pc # "idle") ~> (call.pc = "idle")

\* "new writable generation invalidates compressibility" (tests/unit/policy_tests.cpp):
\* a verdict that holds a compression off is about the content the metadata names.
VerdictAboutContent ==
  \A c \in Chunks :
    /\ meta[c].compressibility # "unknown"
    /\ chunk[c].lifecycle = "live"
    => seen.about[c] = meta[c].content
=============================================================================
