---------------------------- MODULE BufferClose ----------------------------
(***************************************************************************)
(* Closing a buffer while its chunks are leased and migrated.              *)
(*                                                                         *)
(* close_buffer_state (src/core/runtime.cpp) marks the buffer closing and  *)
(* its chunks frozen, releases the cleanup resources and the authority of  *)
(* each chunk, and declares the buffer dead.  It is called by              *)
(* Buffer::close, by the destructor of the handle, by the close of a lease *)
(* that finds its buffer closing, and by Runtime::shutdown for a buffer    *)
(* that a failed close left in quarantine.  A chunk in use makes it return *)
(* busy, and so does another thread that is already inside it.             *)
(*                                                                         *)
(* The buffer owns all of Chunks.  A thread is in migrate or in a lease    *)
(* (pc, loc of Transaction), or in one of the calls above (clo), where it  *)
(* is between two critical sections or backend calls.                      *)
(***************************************************************************)
EXTENDS Transaction

VARIABLES
  buffer,  \* BufferState, its handle, and where it is kept
  runtime, \* RuntimeState: shutting_down, shutdown_in_progress, shutdown_complete
  clo      \* per thread: its position in close_buffer_state or around it

closeVars == <<ledger, store, chunk, pc, loc, buffer, runtime, clo>>

\* The order of BufferState::chunks.
Order == CHOOSE s \in [1 .. Cardinality(Chunks) -> Chunks] :
           \A i, j \in DOMAIN s : s[i] = s[j] => i = j

NotClosing == [at |-> "none", i |-> 1, item |-> None, caller |-> "none", result |-> "ok"]

Callers == {"handle", "destructor", "lease", "shutdown"}

At(t, place) == clo[t].at = place
Move(t, c) == clo' = [clo EXCEPT ![t] = c]
Step(t, place) == Move(t, [clo[t] EXCEPT !.at = place])

\* The chunk the cleanup of thread t is at.
Current(t) == Order[clo[t].i]

\* The call ends with this result; CleanupGuard still has to run.
Leave(t, result) == Move(t, [clo[t] EXCEPT !.at = "leave", !.result = result])

CloseInit ==
  /\ Init
  /\ buffer = [closing |-> FALSE, cleaning |-> FALSE, dead |-> FALSE, mapped |-> TRUE,
               handle |-> TRUE, quarantined |-> FALSE]
  /\ runtime = [stopping |-> FALSE, in_progress |-> FALSE, complete |-> FALSE]
  /\ clo = [t \in Threads |-> NotClosing]

(***************************************************************************)
(* Who may call what                                                       *)
(***************************************************************************)
Free(t) == pc[t] = "idle" /\ At(t, "none")

\* Inside Buffer::acquire.
Acquiring(t) ==
  At(t, "acquire") \/ (loc[t].acquire /\ pc[t] \notin {"leased", "writing", "closing_write"})

\* Users of the handle object, which its owner joins before destroying it.
UsesHandle(t) == Acquiring(t) \/ clo[t].caller = "handle"

\* operations_in_flight: reclaims count, acquires and closes do not.
Reclaiming(t) == At(t, "reclaim") \/ At(t, "select")

InFlight == \E t \in Threads : Reclaiming(t)

\* Something still holds a shared_ptr to the BufferState.
Referenced ==
  buffer.handle \/ buffer.quarantined \/ \E t \in Threads : pc[t] # "idle" \/ clo[t].caller # "none"

(***************************************************************************)
(* close_buffer_state                                                      *)
(***************************************************************************)

\* Mutant: a second closer is let in while the first one is cleaning up.
Enter_NoOwner(t) ==
  /\ At(t, "enter")
  /\ IF buffer.dead THEN Leave(t, "stale") /\ UNCHANGED buffer
     ELSE /\ buffer' = [buffer EXCEPT !.closing = TRUE, !.cleaning = TRUE]
          /\ Move(t, [clo[t] EXCEPT !.at = "scan", !.i = 1])
  /\ UNCHANGED <<ledger, store, chunk, pc, loc, runtime>>

\* Returns before the guard exists go to "return", past "leave".
Enter(t) ==
  /\ At(t, "enter")
  /\ IF buffer.dead \/ buffer.cleaning
     THEN /\ Move(t, [clo[t] EXCEPT !.at = "return",
                                    !.result = IF buffer.dead THEN "stale" ELSE "busy"])
          /\ UNCHANGED buffer
     ELSE /\ buffer' = [buffer EXCEPT !.closing = TRUE, !.cleaning = TRUE]
          /\ Move(t, [clo[t] EXCEPT !.at = "scan", !.i = 1])
  /\ UNCHANGED <<ledger, store, chunk, pc, loc, runtime>>

\* Mutant: the loop runs past the last chunk.
NextChunk_Past(t, place, done) ==
  Move(t, [clo[t] EXCEPT !.at = place, !.i = @ + 1, !.item = None])

\* Each loop goes over the chunks in order.
NextChunk(t, place, done) ==
  IF clo[t].i < Len(Order)
  THEN Move(t, [clo[t] EXCEPT !.at = place, !.i = @ + 1, !.item = None])
  ELSE Move(t, [clo[t] EXCEPT !.at = done, !.i = 1, !.item = None])

\* Mutant: a pending acquire does not keep the chunk from being closed.
InUse_IgnoresIntents(c) == Busy(c)

\* Mutant: nor does a migration.
InUse_IgnoresTransition(c) ==
  chunk[c].readers # 0 \/ chunk[c].writer \/ chunk[c].intents # 0

InUse(c) == Busy(c) \/ chunk[c].intents # 0

\* First loop: freeze the chunks, or stop at one that is in use.
Scan(t) ==
  LET c == Current(t)
  IN /\ At(t, "scan")
     /\ chunk' = [chunk EXCEPT ![c].lifecycle =
          IF InUse(c) \/ @ = "live" THEN "closing" ELSE @]
     /\ IF InUse(c) THEN Leave(t, "busy") ELSE NextChunk(t, "scan", "cleanup")
     /\ UNCHANGED <<ledger, store, pc, loc, buffer, runtime>>

\* Second loop, for each chunk: the first cleanup resource is released, uncharged and
\* forgotten, until there is none.
Cleanup(t) ==
  LET list == chunk[Current(t)].cleanup
  IN /\ At(t, "cleanup")
     /\ IF list = <<>> THEN Step(t, "authority")
        ELSE Move(t, [clo[t] EXCEPT !.at = "release_item", !.item = list[1]])
     /\ UNCHANGED <<ledger, store, chunk, pc, loc, buffer, runtime>>

\* Mutant: a failed release is taken for done.
CloseRelease_IgnoresFailure(t, id, next) ==
  \E o \in Outcomes :
    /\ store' = IF o = "ok" THEN [store EXCEPT ![id] = None] ELSE store
    /\ Step(t, next)
    /\ UNCHANGED <<ledger, chunk, pc, loc, buffer, runtime>>

\* A failed release ends the close; one reported but not done also poisons the chunk.
CloseRelease(t, id, next) ==
  \E o \in Outcomes :
    /\ store' = IF o = "ok" THEN [store EXCEPT ![id] = None] ELSE store
    /\ chunk' = IF o = "lie" THEN [chunk EXCEPT ![Current(t)].lifecycle = "poisoned"] ELSE chunk
    /\ IF o = "ok" THEN Step(t, next) ELSE Leave(t, "error")
    /\ UNCHANGED <<ledger, pc, loc, buffer, runtime>>

ReleaseItem(t) == At(t, "release_item") /\ CloseRelease(t, clo[t].item.id, "uncharge_item")

\* The ledger's answer to a resource that is gone.
Uncharge(t, tier, charge, next) ==
  /\ IF ReleaseCleanupDebtOk(ledger, tier, charge)
     THEN /\ ledger' = ReleaseCleanupDebt(ledger, tier, charge)
          /\ Step(t, next)
          /\ UNCHANGED chunk
     ELSE /\ chunk' = [chunk EXCEPT ![Current(t)].lifecycle = "poisoned"]
          /\ Leave(t, "error")
          /\ UNCHANGED ledger
  /\ UNCHANGED <<store, pc, loc, buffer, runtime>>

UnchargeItem(t) ==
  At(t, "uncharge_item") /\ Uncharge(t, clo[t].item.tier, clo[t].item.charge, "forget_item")

\* Mutant: only the first cleanup resource is released.
ForgetItem_Once(t) ==
  /\ At(t, "forget_item")
  /\ chunk' = [chunk EXCEPT ![Current(t)] = ForgetCleanup(@, clo[t].item.id)]
  /\ Move(t, [clo[t] EXCEPT !.at = "authority", !.item = None])
  /\ UNCHANGED <<ledger, store, pc, loc, buffer, runtime>>

\* The list must still begin with the resource that was released.
ForgetItem(t) ==
  LET c == Current(t)
      list == chunk[c].cleanup
      same == IF list = <<>> THEN FALSE ELSE list[1].id = clo[t].item.id
  IN /\ At(t, "forget_item")
     /\ chunk' = [chunk EXCEPT ![c] = IF same THEN ForgetCleanup(@, clo[t].item.id)
                                      ELSE [@ EXCEPT !.lifecycle = "poisoned"]]
     /\ IF same THEN Move(t, [clo[t] EXCEPT !.at = "cleanup", !.item = None])
                ELSE Leave(t, "error")
     /\ UNCHANGED <<ledger, store, pc, loc, buffer, runtime>>

\* Mutant: an authority that is already cleanup debt is retired again.
Authority_RetiresAgain(t) ==
  LET ch == chunk[Current(t)]
  IN /\ At(t, "authority")
     /\ IF ch.lifecycle = "dead" THEN NextChunk(t, "cleanup", "unmap") ELSE Step(t, "retire")
     /\ UNCHANGED <<ledger, store, chunk, pc, loc, buffer, runtime>>

\* The authority: skipped when the chunk is dead, retired to debt unless an earlier
\* attempt has done so.
Authority(t) ==
  LET ch == chunk[Current(t)]
  IN /\ At(t, "authority")
     /\ IF ch.lifecycle = "dead" THEN NextChunk(t, "cleanup", "unmap")
        ELSE Step(t, IF ch.retired THEN "release_authority" ELSE "retire")
     /\ UNCHANGED <<ledger, store, chunk, pc, loc, buffer, runtime>>

Retire(t) ==
  LET c == Current(t)
      a == chunk[c].auth
  IN /\ At(t, "retire")
     /\ IF RetireCommittedOk(ledger, TierOf(a.state), a.charge)
        THEN /\ ledger' = RetireCommitted(ledger, TierOf(a.state), a.charge)
             /\ chunk' = [chunk EXCEPT ![c].retired = TRUE]
             /\ Step(t, "release_authority")
        ELSE /\ chunk' = [chunk EXCEPT ![c].lifecycle = "poisoned"]
             /\ Leave(t, "error")
             /\ UNCHANGED ledger
     /\ UNCHANGED <<store, pc, loc, buffer, runtime>>

ReleaseAuthority(t) ==
  At(t, "release_authority") /\ CloseRelease(t, chunk[Current(t)].auth.resource, "uncharge_authority")

UnchargeAuthority(t) ==
  LET a == chunk[Current(t)].auth
  IN At(t, "uncharge_authority") /\ Uncharge(t, TierOf(a.state), a.charge, "bury")

Bury(t) ==
  /\ At(t, "bury")
  /\ chunk' = [chunk EXCEPT ![Current(t)].retired = FALSE, ![Current(t)].lifecycle = "dead"]
  /\ NextChunk(t, "cleanup", "unmap")
  /\ UNCHANGED <<ledger, store, pc, loc, buffer, runtime>>

\* release_address_space, then dead.
Unmap(t) ==
  /\ At(t, "unmap")
  /\ \/ /\ buffer' = [buffer EXCEPT !.mapped = FALSE]
        /\ Step(t, "declare_dead")
     \/ /\ buffer.mapped /\ Fault("fail")
        /\ Leave(t, "error")
        /\ UNCHANGED buffer
  /\ UNCHANGED <<ledger, store, chunk, pc, loc, runtime>>

DeclareDead(t) ==
  /\ At(t, "declare_dead")
  /\ buffer' = [buffer EXCEPT !.dead = TRUE]
  /\ Leave(t, "ok")
  /\ UNCHANGED <<ledger, store, chunk, pc, loc, runtime>>

\* ~CleanupGuard
LeaveCleanup(t) ==
  /\ At(t, "leave")
  /\ buffer' = [buffer EXCEPT !.cleaning = FALSE]
  /\ Step(t, "return")
  /\ UNCHANGED <<ledger, store, chunk, pc, loc, runtime>>

(***************************************************************************)
(* The callers                                                             *)
(***************************************************************************)
Call(t, caller) == Move(t, [NotClosing EXCEPT !.at = "enter", !.caller = caller])

\* Buffer::close: the result goes to the caller, who may try again.
CloseHandle(t) ==
  /\ Free(t) /\ buffer.handle
  /\ Call(t, "handle")
  /\ UNCHANGED <<ledger, store, chunk, pc, loc, buffer, runtime>>

\* ~Buffer, once the users of the handle object have been joined.
DestroyHandle(t) ==
  /\ Free(t) /\ buffer.handle
  /\ \A u \in Threads : ~UsesHandle(u)
  /\ buffer' = [buffer EXCEPT !.handle = FALSE]
  /\ Call(t, "destructor")
  /\ UNCHANGED <<ledger, store, chunk, pc, loc, runtime>>

\* The end of Lease::close: the pins are gone, the buffer may be closing.
CheckClosing(t) ==
  /\ At(t, "check")
  /\ IF buffer.closing THEN Step(t, "enter") ELSE Move(t, NotClosing)
  /\ UNCHANGED <<ledger, store, chunk, pc, loc, buffer, runtime>>

\* A failed close nobody can be told of is retained: retain_failed_buffer.  The
\* destructor and the lease ignore busy.
CloseReturns(t) ==
  /\ At(t, "return")
  /\ clo[t].caller # "shutdown"
  /\ IF clo[t].caller # "handle" /\ clo[t].result = "error"
     THEN /\ buffer' = [buffer EXCEPT !.quarantined = TRUE]
          /\ runtime' = [runtime EXCEPT !.stopping = TRUE]
     ELSE UNCHANGED <<buffer, runtime>>
  /\ Move(t, NotClosing)
  /\ UNCHANGED <<ledger, store, chunk, pc, loc>>

\* Runtime::shutdown: refused while the policy works or a live buffer is referenced.
Shutdown(t) ==
  /\ Free(t) /\ ~runtime.complete /\ ~runtime.in_progress
  /\ IF InFlight \/ (Referenced /\ ~buffer.dead /\ ~buffer.quarantined)
     THEN runtime' = [runtime EXCEPT !.stopping = TRUE] /\ UNCHANGED clo
     ELSE /\ runtime' = [runtime EXCEPT !.stopping = TRUE, !.in_progress = TRUE]
          /\ Move(t, [NotClosing EXCEPT !.at = "sweep", !.caller = "shutdown"])
  /\ UNCHANGED <<ledger, store, chunk, pc, loc, buffer>>

\* The loop over the quarantine.
Sweep(t) ==
  /\ At(t, "sweep")
  /\ Step(t, IF buffer.quarantined THEN "enter" ELSE "finalize")
  /\ UNCHANGED <<ledger, store, chunk, pc, loc, buffer, runtime>>

\* The quarantined buffer is closed, or the shutdown fails and may be tried again.
ShutdownContinues(t) ==
  /\ At(t, "return") /\ clo[t].caller = "shutdown"
  /\ IF clo[t].result \in {"ok", "stale"}
     THEN /\ buffer' = [buffer EXCEPT !.quarantined = FALSE]
          /\ Step(t, "sweep")
          /\ UNCHANGED runtime
     ELSE /\ runtime' = [runtime EXCEPT !.in_progress = FALSE]
          /\ Move(t, NotClosing)
          /\ UNCHANGED buffer
  /\ UNCHANGED <<ledger, store, chunk, pc, loc>>

\* StorageBackend::shutdown: the CUDA backend refuses while it owns anything.
Finalize(t) ==
  /\ At(t, "finalize")
  /\ runtime' = [runtime EXCEPT !.in_progress = FALSE,
                                !.complete = ~buffer.mapped /\ \A r \in Resources : store[r] = None]
  /\ Move(t, NotClosing)
  /\ UNCHANGED <<ledger, store, chunk, pc, loc, buffer>>

(***************************************************************************)
(* Leases and migrations of the buffer                                     *)
(***************************************************************************)

\* acquire looks at the runtime and at the buffer before it takes the chunk's mutex.
AcquireChecks(t) ==
  /\ Free(t) /\ buffer.handle
  /\ ~runtime.stopping /\ ~buffer.dead /\ ~buffer.closing
  /\ Move(t, [NotClosing EXCEPT !.at = "acquire"])
  /\ UNCHANGED <<ledger, store, chunk, pc, loc, buffer, runtime>>

AcquireChunk(t, c, access) ==
  /\ At(t, "acquire")
  /\ Intend(t, c, access)
  /\ Move(t, NotClosing)
  /\ UNCHANGED <<buffer, runtime>>

AcquireFails(t) ==
  /\ At(t, "acquire")
  /\ \E c \in Chunks, a \in {"read_only", "read_write"} :
       Incompatible(c, a) \/ chunk[c].revision = MaxRevision
  /\ Move(t, NotClosing)
  /\ UNCHANGED <<ledger, store, chunk, pc, loc, buffer, runtime>>

\* reclaim_request is refused once the runtime is shutting down.
StartReclaim(t) ==
  /\ Free(t) /\ Targets # {} /\ ~runtime.stopping
  /\ Move(t, [NotClosing EXCEPT !.at = "reclaim"])
  /\ UNCHANGED <<ledger, store, chunk, pc, loc, buffer, runtime>>

\* Each round of reclaim_locked first looks at shutting_down, then selects a victim.
NextRound(t) ==
  /\ At(t, "reclaim") /\ pc[t] = "idle"
  /\ ~runtime.stopping
  /\ Step(t, "select")
  /\ UNCHANGED <<ledger, store, chunk, pc, loc, buffer, runtime>>

EndReclaim(t) ==
  /\ Reclaiming(t) /\ pc[t] = "idle"
  /\ Move(t, NotClosing)
  /\ UNCHANGED <<ledger, store, chunk, pc, loc, buffer, runtime>>

\* select_candidate skips a buffer that is closing or dead.
ProposeVictim(t, c, d, lim) ==
  /\ At(t, "select")
  /\ Referenced /\ ~buffer.closing /\ ~buffer.dead
  /\ Propose(t, c, d, lim)
  /\ Step(t, "reclaim")
  /\ UNCHANGED <<buffer, runtime>>

Work(t) ==
  /\ At(t, "none") \/ At(t, "reclaim")
  /\ \/ MigrateStep(t) \/ Restore(t) \/ TakeGate(t) \/ DropIntent(t) \/ Pin(t)
     \/ WriteBytes(t) \/ WriteDone(t) \/ CloseUnwritten(t)
  /\ UNCHANGED <<buffer, runtime, clo>>

CloseLease(t) ==
  /\ At(t, "none")
  /\ CloseRead(t) \/ CloseWritten(t) \/ CloseWriteDone(t)
  /\ Move(t, [NotClosing EXCEPT !.at = "check", !.caller = "lease"])
  /\ UNCHANGED <<buffer, runtime>>

CloseStep(t) ==
  \/ Enter(t) \/ Scan(t) \/ Cleanup(t) \/ ReleaseItem(t) \/ UnchargeItem(t) \/ ForgetItem(t)
  \/ Authority(t) \/ Retire(t) \/ ReleaseAuthority(t) \/ UnchargeAuthority(t) \/ Bury(t)
  \/ Unmap(t) \/ DeclareDead(t) \/ LeaveCleanup(t) \/ CheckClosing(t) \/ CloseReturns(t)
  \/ Sweep(t) \/ ShutdownContinues(t) \/ Finalize(t)

CloseNext ==
  \E t \in Threads :
    \/ CloseHandle(t) \/ DestroyHandle(t) \/ Shutdown(t)
    \/ AcquireChecks(t) \/ AcquireFails(t) \/ StartReclaim(t) \/ NextRound(t) \/ EndReclaim(t)
    \/ \E c \in Chunks, a \in {"read_only", "read_write"} : AcquireChunk(t, c, a)
    \/ \E c \in Chunks, d \in Targets, lim \in Limits : ProposeVictim(t, c, d, lim)
    \/ Work(t) \/ CloseLease(t) \/ CloseStep(t)

CloseSpec == CloseInit /\ [][CloseNext]_closeVars

(***************************************************************************)
(* Properties                                                              *)
(***************************************************************************)
Places == {"none", "acquire", "enter", "scan", "cleanup", "release_item", "uncharge_item",
           "forget_item", "authority", "retire", "release_authority", "uncharge_authority",
           "bury", "unmap", "declare_dead", "leave", "return", "check", "sweep", "finalize", "reclaim",
           "select"}

\* The close's own state holds values of its types.
CloseTypeOK ==
  /\ TypeOK
  /\ buffer \in [{"closing", "cleaning", "dead", "mapped", "handle", "quarantined"} -> BOOLEAN]
  /\ runtime \in [{"stopping", "in_progress", "complete"} -> BOOLEAN]
  /\ \A t \in Threads : /\ clo[t].at \in Places
                        /\ clo[t].i \in 1 .. Cardinality(Chunks)
                        /\ clo[t].caller \in Callers \cup {"none"}
                        /\ clo[t].result \in {"ok", "busy", "stale", "error"}

\* A single cleanup owner calls the backend: whatever a thread is about to release,
\* in a close or in migrate, the backend still owns, so nothing is released twice.
Releasing(t) ==
  CASE At(t, "release_item") -> {clo[t].item.id}
    [] At(t, "release_authority") -> {chunk[Current(t)].auth.resource}
    [] pc[t] = "rel_src" -> {loc[t].src.resource}
    [] pc[t] = "rollback" /\ loc[t].todo # <<>> -> {Head(loc[t].todo).id}
    [] OTHER -> {}

ReleasesOwned == \A t \in Threads : \A r \in Releasing(t) : store[r] # None

\* A lease outlives the close of its buffer: while a chunk is pinned, in transition, or
\* awaited by an acquire, it is not dead and its bytes are where it says.
LeaseAlive ==
  \A c \in Chunks : Busy(c) \/ chunk[c].intents # 0 =>
    /\ chunk[c].lifecycle # "dead"
    /\ ~chunk[c].retired
    /\ store[chunk[c].auth.resource] # None

\* Whatever failed before, a close never meets a ledger that refuses to follow it: each
\* resource is charged in the bucket from which the close takes it, once.
LedgerFollows ==
  \A t \in Threads :
    LET a == chunk[Current(t)].auth
    IN /\ At(t, "retire") => RetireCommittedOk(ledger, TierOf(a.state), a.charge)
       /\ At(t, "uncharge_authority") => ReleaseCleanupDebtOk(ledger, TierOf(a.state), a.charge)
       /\ At(t, "uncharge_item") =>
            ReleaseCleanupDebtOk(ledger, clo[t].item.tier, clo[t].item.charge)

\* A buffer declared dead keeps nothing: its chunks are dead, no resource waits for
\* cleanup, the address space is gone.
DeadIsClean ==
  buffer.dead =>
    /\ ~buffer.mapped
    /\ \A c \in Chunks : chunk[c].lifecycle = "dead" /\ chunk[c].cleanup = <<>>
    /\ \A r \in Resources : store[r] = None

\* Between calls, whatever failed, every resource the backend owns is known to exactly
\* one chunk and the ledger charges exactly what the backend owns.
AtRest == \A t \in Threads : At(t, "none")

RestKnown == AtRest => OwnershipKnown /\ AccountingExact

\* A close is never forgotten: once the handle is gone and nobody is at work or holds a
\* lease, the buffer is dead, or in quarantine where shutdown finds it.
CloseNotLost ==
  AtRest /\ (\A t \in Threads : pc[t] = "idle") /\ ~buffer.handle =>
    buffer.dead \/ buffer.quarantined

\* Known failures retain or clean exactly known ownership: when everything is at rest, a
\* buffer that was declared dead, and that no close will visit again, owns nothing.
ClosedOwnsNothing == AtRest /\ Quiescent /\ buffer.dead => \A r \in Resources : store[r] = None

\* Death is final: no late step of a migration or of a lease revives a dead chunk.
DeathIsFinal ==
  [][\A c \in Chunks : chunk[c].lifecycle = "dead" => chunk'[c] = chunk[c]]_closeVars

=============================================================================
