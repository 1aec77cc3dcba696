----------------------------- MODULE Completion -----------------------------
(***************************************************************************)
(* Deferred releases: a lease whose GPU work is still running is handed to *)
(* the runtime's completion pool (Lease::defer), and its pins are dropped  *)
(* when its fence is proven complete (poll_completion), by whichever       *)
(* thread polls first.  Shutdown polls as well and waits for the pool to   *)
(* be empty.  An action is one critical section of the runtime's mutex or  *)
(* one backend call.  Every lease is of one chunk of its own, all in one   *)
(* buffer.                                                                 *)
(***************************************************************************)
EXTENDS Integers, Sequences, FiniteSetsExt

CONSTANTS
  Threads, Leases,
  Writers,    \* the leases with read_write access
  PoolSize,   \* maximum_pending_completions
  Tokens,     \* the fences the backend can create
  MaxFaults,  \* how many backend calls may fail
  None

\* The runs that instantiate this module assume it of the constants.
CompletionConstants ==
  /\ Writers \subseteq Leases
  /\ PoolSize \in Nat \ {0}
  /\ MaxFaults \in Nat
  /\ IsFiniteSet(Threads)
  /\ None \notin Threads \cup Leases \cup Tokens

VARIABLES
  pool,    \* deferred: the entries
  pending, \* completion_stats.pending_completion_count
  lease,   \* per lease: whether its handle holds it, its chunk's pin and content, and
           \* history: how often it was unpinned, the content it was deferred with (or -1)
  fence,   \* the backend's fences
  rt,      \* shutting_down, shutdown_in_progress, shutdown_complete, operations in flight
  buffer,  \* closing, dead
  pc,      \* where each thread is
  loc,     \* its entry, its lease or token, the snapshot of poll_ready_completions
  faults   \* the backend calls that have failed

vars == <<pool, pending, lease, fence, rt, buffer, pc, loc, faults>>

Entries == 1 .. PoolSize
EmptyEntry == [occupied |-> FALSE, processing |-> FALSE, proven |-> FALSE,
               token |-> None, lease |-> None]
Idle == [entry |-> 0, lease |-> None, token |-> None, queue |-> <<>>, shutdown |-> FALSE]

TypeOK ==
  /\ pool \in [Entries -> [occupied : BOOLEAN, processing : BOOLEAN, proven : BOOLEAN,
                         token : Tokens \cup {None}, lease : Leases \cup {None}]]
  /\ pending \in 0 .. PoolSize
  /\ lease \in [Leases -> [held : BOOLEAN, pinned : BOOLEAN, unpins : 0 .. 2,
                           content : 0 .. 2, initial : 0 .. 2, deferred : -1 .. 2,
                           poisoned : BOOLEAN]]
  /\ fence \in [Tokens -> {"none", "pending", "complete", "released", "abandoned"}]
  /\ rt.in_flight \in 0 .. Cardinality(Threads)
  /\ faults \in 0 .. MaxFaults

Init ==
  /\ pool = [s \in Entries |-> EmptyEntry]
  /\ pending = 0
  /\ lease = [l \in Leases |-> [held |-> TRUE, pinned |-> TRUE, unpins |-> 0, content |-> 0,
                                initial |-> 0, deferred |-> -1, poisoned |-> FALSE]]
  /\ fence = [k \in Tokens |-> "none"]
  /\ rt = [shutting_down |-> FALSE, in_progress |-> FALSE, complete |-> FALSE, in_flight |-> 0]
  /\ buffer = [closing |-> FALSE, dead |-> FALSE]
  /\ pc = [t \in Threads |-> "idle"]
  /\ loc = [t \in Threads |-> Idle]
  /\ faults = 0

Goto(t, label, local) ==
  /\ pc' = [pc EXCEPT ![t] = label]
  /\ loc' = [loc EXCEPT ![t] = local]

Fault == faults < MaxFaults /\ faults' = faults + 1

\* The handle of a lease is used by one thread at a time.
Using(l) == \E t \in Threads : pc[t] # "idle" /\ loc[t].lease = l

-----------------------------------------------------------------------------
(* The end of a lease: Lease::close.                                       *)

\* The pin is dropped whatever happens; a writer's content is refreshed unless it has
\* already changed since the lease began, and a refresh that fails poisons the chunk.
Unpinned(l, ok) ==
  LET refresh == l \in Writers /\ lease[l].content = lease[l].initial
  IN [lease[l] EXCEPT !.pinned = FALSE, !.unpins = @ + 1,
                      !.content = IF refresh /\ ok THEN @ + 1 ELSE @,
                      !.poisoned = refresh /\ ~ok]

\* close_buffer_state succeeds when nothing is pinned any more.
Closed(b, leases) == [b EXCEPT !.dead = @ \/ (b.closing /\ \A l \in Leases : ~leases[l].pinned)]

End(l, ok) ==
  /\ lease' = [lease EXCEPT ![l] = Unpinned(l, ok)]
  /\ buffer' = Closed(buffer, lease')

\* The holder closes its lease.
CloseLease(t, l) ==
  /\ pc[t] = "idle"
  /\ lease[l].held /\ ~Using(l)
  /\ lease' = [lease EXCEPT ![l] = [Unpinned(l, TRUE) EXCEPT !.held = FALSE]]
  /\ buffer' = Closed(buffer, lease')
  /\ UNCHANGED <<pool, pending, fence, rt, pc, loc, faults>>

\* Lease::write advances the content at once.
Write(t, l) ==
  /\ pc[t] = "idle"
  /\ lease[l].held /\ ~Using(l)
  /\ l \in Writers
  /\ lease[l].content = 0
  /\ lease' = [lease EXCEPT ![l].content = @ + 1]
  /\ UNCHANGED <<pool, pending, fence, rt, buffer, pc, loc, faults>>

CloseBuffer ==
  /\ ~buffer.closing
  /\ buffer' = Closed([buffer EXCEPT !.closing = TRUE], lease)
  /\ UNCHANGED <<pool, pending, lease, fence, rt, pc, loc, faults>>

-----------------------------------------------------------------------------
(* Lease::defer.                                                           *)

Enter == rt' = [rt EXCEPT !.in_flight = @ + 1]

\* The backend's table of fences (CudaVmmBackend::completions_) is as long as the pool.
Table == {k \in Tokens : fence[k] \in {"pending", "complete"}}

\* create_completion: an id that was never used, unless the table is full.
CanCreate(k) == Cardinality(Table) < PoolSize /\ fence[k] = "none"

\* query_completion and release_completion of an id that is not in the table are stale.
IsComplete(k) == k \in Table /\ fence[k] = "complete"

\* release_completion empties the slot whether the GPU has reached the fence or not.
WithoutFence(k) ==
  [fence EXCEPT ![k] = IF @ = "complete" THEN "released" ELSE "abandoned"]

\* A slot is claimed before the fence is asked for; without one the caller keeps its lease.
Defer(t, l) ==
  /\ pc[t] = "idle"
  /\ lease[l].held /\ ~Using(l)
  /\ ~rt.shutting_down /\ ~buffer.closing
  /\ \E s \in Entries :
       /\ ~pool[s].occupied
       /\ \A r \in 1 .. s - 1 : pool[r].occupied
       /\ pool' = [pool EXCEPT ![s].occupied = TRUE, ![s].processing = TRUE]
       /\ Goto(t, "create", [Idle EXCEPT !.entry = s, !.lease = l])
  /\ Enter
  /\ UNCHANGED <<pending, lease, fence, buffer, faults>>

CreateCompletion(t) ==
  /\ pc[t] = "create"
  /\ \E k \in Tokens :
       /\ CanCreate(k)
       /\ fence' = [fence EXCEPT ![k] = "pending"]
       /\ Goto(t, "publish", [loc[t] EXCEPT !.token = k])
  /\ UNCHANGED <<pool, pending, lease, rt, buffer, faults>>

CreateFails(t) ==
  /\ pc[t] = "create"
  /\ IF Cardinality(Table) < PoolSize THEN Fault ELSE UNCHANGED faults
  /\ pool' = [pool EXCEPT ![loc[t].entry] = EmptyEntry]
  /\ Goto(t, "leave", Idle)
  /\ UNCHANGED <<pending, lease, fence, rt, buffer>>

\* Mutant: the baseline stays that of the acquisition.
Baseline_AsAcquired(l) == lease[l].initial

\* A deferred writer starts from the content it has now, so that its end refreshes it.
Baseline(l) == IF l \in Writers THEN lease[l].content ELSE lease[l].initial

\* Mutant: the deferred lease is not counted as pending.
PendingAfterPublish_Forgotten(n) == n

PendingAfterPublish(n) == n + 1

\* The handle gives the lease up, and from now on the token can be polled.
Publish(t) ==
  LET l == loc[t].lease IN
  /\ pc[t] = "publish"
  /\ pool' = [pool EXCEPT ![loc[t].entry] =
       [@ EXCEPT !.token = loc[t].token, !.lease = l, !.processing = FALSE]]
  /\ lease' = [lease EXCEPT ![l].held = FALSE, ![l].initial = Baseline(l),
                            ![l].deferred = lease[l].content]
  /\ pending' = PendingAfterPublish(pending)
  /\ Goto(t, "leave", Idle)
  /\ UNCHANGED <<fence, rt, buffer, faults>>

\* RuntimeOperationGuard's destructor.
Leave(t) ==
  /\ pc[t] = "leave"
  /\ rt' = [rt EXCEPT !.in_flight = @ - 1]
  /\ Goto(t, IF loc[t].queue # <<>> THEN "next"
             ELSE IF loc[t].shutdown THEN "check" ELSE "idle",
          [loc[t] EXCEPT !.entry = 0, !.token = None])
  /\ UNCHANGED <<pool, pending, lease, fence, buffer, faults>>

-----------------------------------------------------------------------------
(* poll_completion and poll_ready_completions.                             *)

\* Mutant: an entry that another thread is processing is taken too.
Available_Processing(s) == ~rt.in_progress

\* poll_completion is busy while another thread or the shutdown has the entry.
Available(s) == ~pool[s].processing /\ ~rt.in_progress

EntryOf(k) == {s \in Entries : pool[s].occupied /\ pool[s].token = k}

Ready == {s \in Entries : pool[s].occupied /\ ~pool[s].processing}

\* The snapshot of the tokens to poll.
ReadyTokens ==
  SelectSeq([s \in Entries |-> pool[s].token], LAMBDA k : \E s \in Ready : pool[s].token = k)

PollReady(t) ==
  /\ pc[t] = "idle"
  /\ Ready # {}
  /\ Goto(t, "next", [Idle EXCEPT !.queue = ReadyTokens])
  /\ UNCHANGED <<pool, pending, lease, fence, rt, buffer, faults>>

\* The next token of the snapshot: taken, or passed over because it is busy or gone.
Take(t) ==
  LET k == Head(loc[t].queue)
      rest == [loc[t] EXCEPT !.queue = Tail(@)]
  IN /\ pc[t] = "next"
     /\ IF \E s \in EntryOf(k) : Available(s)
          THEN /\ \E s \in EntryOf(k) :
                    /\ pool' = [pool EXCEPT ![s].processing = TRUE]
                    /\ Goto(t, "query", [rest EXCEPT !.entry = s, !.token = k])
               /\ Enter
          ELSE /\ Goto(t, IF rest.queue # <<>> THEN "next"
                          ELSE IF rest.shutdown THEN "check" ELSE "idle", rest)
               /\ UNCHANGED <<pool, rt>>
     /\ UNCHANGED <<pending, lease, fence, buffer, faults>>

\* Mutant: the entry is not given back to the pollers.
Retained_Processing(entry) == entry

\* The entry and its pins stay, for a later poll to try again.
Retained(entry) == [entry EXCEPT !.processing = FALSE]

\* The poll is over; after an error so is the rest of the snapshot.
Retain(t, stop) ==
  /\ pool' = [pool EXCEPT ![loc[t].entry] = Retained(@)]
  /\ Goto(t, "leave", IF stop THEN Idle ELSE loc[t])

\* Mutant: a fence that is still pending counts as proven.
Query_Trusting(t) ==
  /\ pc[t] = "query"
  /\ pool' = [pool EXCEPT ![loc[t].entry].proven = TRUE]
  /\ Goto(t, "release", loc[t])
  /\ UNCHANGED <<pending, lease, fence, rt, buffer, faults>>

\* A fence once proven complete is not asked again.
Query(t) ==
  /\ pc[t] = "query"
  /\ pool[loc[t].entry].proven \/ loc[t].token \in Table
  /\ IF pool[loc[t].entry].proven \/ IsComplete(loc[t].token)
       THEN /\ pool' = [pool EXCEPT ![loc[t].entry].proven = TRUE]
            /\ Goto(t, "release", loc[t])
       ELSE Retain(t, FALSE)
  /\ UNCHANGED <<pending, lease, fence, rt, buffer, faults>>

QueryFails(t) ==
  /\ pc[t] = "query"
  /\ ~pool[loc[t].entry].proven
  /\ IF loc[t].token \in Table THEN Fault ELSE UNCHANGED faults
  /\ Retain(t, TRUE)
  /\ UNCHANGED <<pending, lease, fence, rt, buffer>>

ReleaseCompletion(t) ==
  /\ pc[t] = "release"
  /\ loc[t].token \in Table
  /\ fence' = WithoutFence(loc[t].token)
  /\ Goto(t, "close", loc[t])
  /\ UNCHANGED <<pool, pending, lease, rt, buffer, faults>>

\* Mutant: a failed release of the fence gives the entry up.
ReleaseFails_Forgets(t) ==
  /\ pc[t] = "release"
  /\ Fault
  /\ pool' = [pool EXCEPT ![loc[t].entry] = EmptyEntry]
  /\ pending' = pending - 1
  /\ Goto(t, "leave", Idle)
  /\ UNCHANGED <<lease, fence, rt, buffer>>

\* The fence is still there, and so is the entry that names it.
ReleaseFails(t) ==
  /\ pc[t] = "release"
  /\ IF loc[t].token \in Table THEN Fault ELSE UNCHANGED faults
  /\ Retain(t, TRUE)
  /\ UNCHANGED <<pending, lease, fence, rt, buffer>>

\* The lease is put together again from the entry and closed.
EndDeferred(t) ==
  /\ pc[t] = "close"
  /\ \/ /\ End(pool[loc[t].entry].lease, TRUE)
        /\ Goto(t, "clear", loc[t])
        /\ faults' = faults
     \/ /\ pool[loc[t].entry].lease \in Writers
        /\ Fault
        /\ End(pool[loc[t].entry].lease, FALSE)
        /\ Goto(t, "clear", [Idle EXCEPT !.entry = loc[t].entry])
  /\ UNCHANGED <<pool, pending, fence, rt>>

Clear(t) ==
  /\ pc[t] = "clear"
  /\ pool' = [pool EXCEPT ![loc[t].entry] = EmptyEntry]
  /\ pending' = pending - 1
  /\ Goto(t, "leave", loc[t])
  /\ UNCHANGED <<lease, fence, rt, buffer, faults>>

-----------------------------------------------------------------------------
(* Runtime::shutdown around the pool.                                      *)

Shutdown(t) ==
  /\ pc[t] = "idle"
  /\ ~rt.complete
  /\ rt' = [rt EXCEPT !.shutting_down = TRUE]
  /\ Goto(t, "drain", [Idle EXCEPT !.shutdown = TRUE])
  /\ UNCHANGED <<pool, pending, lease, fence, buffer, faults>>

Drain(t) ==
  /\ pc[t] = "drain"
  /\ Goto(t, IF ReadyTokens = <<>> THEN "check" ELSE "next",
          [loc[t] EXCEPT !.queue = ReadyTokens])
  /\ UNCHANGED <<pool, pending, lease, fence, rt, buffer, faults>>

\* Mutant: the buffers are not looked at.
Quiet_IgnoresBuffers ==
  /\ ~rt.complete /\ ~rt.in_progress /\ rt.in_flight = 0
  /\ \A s \in Entries : ~pool[s].occupied

\* Nothing in flight, nothing deferred, and no buffer that is not dead.
Quiet ==
  /\ ~rt.complete /\ ~rt.in_progress /\ rt.in_flight = 0
  /\ \A s \in Entries : ~pool[s].occupied
  /\ buffer.dead

CheckShutdown(t) ==
  /\ pc[t] = "check"
  /\ IF Quiet
       THEN rt' = [rt EXCEPT !.in_progress = TRUE] /\ Goto(t, "finish", loc[t])
       ELSE rt' = rt /\ Goto(t, "idle", Idle)
  /\ UNCHANGED <<pool, pending, lease, fence, buffer, faults>>

\* The backend is shut down, or refuses and may be asked again.
Finish(t) ==
  /\ pc[t] = "finish"
  /\ \/ rt' = [rt EXCEPT !.in_progress = FALSE, !.complete = TRUE] /\ faults' = faults
     \/ rt' = [rt EXCEPT !.in_progress = FALSE] /\ Fault
  /\ Goto(t, "idle", Idle)
  /\ UNCHANGED <<pool, pending, lease, fence, buffer>>

\* The GPU reaches the fence.
FenceCompletes(k) ==
  /\ fence[k] = "pending"
  /\ fence' = [fence EXCEPT ![k] = "complete"]
  /\ UNCHANGED <<pool, pending, lease, rt, buffer, pc, loc, faults>>

-----------------------------------------------------------------------------
\* A step of a call that has begun.
Step(t) ==
  \/ CreateCompletion(t) \/ CreateFails(t) \/ Publish(t) \/ Leave(t)
  \/ Take(t) \/ Query(t) \/ QueryFails(t) \/ ReleaseCompletion(t) \/ ReleaseFails(t)
  \/ EndDeferred(t) \/ Clear(t)
  \/ Drain(t) \/ CheckShutdown(t) \/ Finish(t)

Start(t) ==
  \/ \E l \in Leases : Defer(t, l) \/ CloseLease(t, l) \/ Write(t, l)
  \/ PollReady(t)
  \/ Shutdown(t)

Next ==
  \/ \E t \in Threads : Start(t) \/ Step(t)
  \/ CloseBuffer
  \/ \E k \in Tokens : FenceCompletes(k)

\* A thread inside a call goes on, and the GPU reaches every fence.  That somebody polls
\* is the application's part: a thread that has nothing else to do polls.
Fairness ==
  /\ \A t \in Threads : WF_vars(Step(t)) /\ WF_vars(PollReady(t))
  /\ \A k \in Tokens : WF_vars(FenceCompletes(k))

Spec == Init /\ [][Next]_vars /\ Fairness

-----------------------------------------------------------------------------
Deferred(l) == \E s \in Entries : pool[s].lease = l

\* A deferred lease keeps its chunk pinned until the GPU has reached its fence and the
\* fence has been released: nothing moves or closes under running work (poll_completion).
PinnedUntilComplete ==
  /\ \A k \in Tokens : fence[k] # "abandoned"
  /\ \A s \in Entries :
       pool[s].lease # None /\ fence[pool[s].token] # "released" => lease[pool[s].lease].pinned

\* Every lease is ended exactly once, whoever polls: the holder's handle and the pool never
\* answer for it together, and two pollers never both close it.
EndedOnce ==
  \A l \in Leases :
    /\ lease[l].unpins <= 1
    /\ lease[l].pinned <=> lease[l].unpins = 0
    /\ ~(lease[l].held /\ Deferred(l))

\* The bookkeeping of the pool is exact: the pending count is that of the deferred
\* leases, and each entry that is being processed has one thread at work on it.
PoolExact ==
  /\ pending = Cardinality({s \in Entries : pool[s].lease # None})
  /\ \A s \in Entries : pool[s].processing =>
       Cardinality({t \in Threads : loc[t].entry = s /\ pc[t] # "leave"}) = 1

\* No fence is lost: one that is not released is named by an entry, or by the thread that
\* has just created it.
FencesKnown ==
  \A k \in Tokens : fence[k] \in {"pending", "complete"} =>
    \/ \E s \in Entries : pool[s].token = k
    \/ \E t \in Threads : pc[t] = "publish" /\ loc[t].token = k

\* The runtime never asks the backend for more fences than its table holds, nor about one that
\* is not there, so a poll is never turned away as stale.
FencesServed ==
  \A t \in Threads :
    /\ pc[t] = "create" => Cardinality(Table) < PoolSize
    /\ pc[t] \in {"query", "release"} => loc[t].token \in Table

\* "deferred external writes always refresh integrity at completion" (Lease::defer): the
\* content of a chunk that was written through a deferred lease has moved on, or the chunk
\* is poisoned.
DeferredWritesRefresh ==
  \A l \in Writers :
    lease[l].unpins > 0 /\ lease[l].deferred # -1
      => lease[l].content > lease[l].deferred \/ lease[l].poisoned

\* A completed shutdown leaves nothing behind: no deferred lease, no pin, no fence.
ShutdownIsClean ==
  rt.complete =>
    /\ \A s \in Entries : ~pool[s].occupied
    /\ \A l \in Leases : ~lease[l].pinned
    /\ \A k \in Tokens : fence[k] \in {"none", "released"}

\* Every deferred lease is ended in the end: failures of the backend, other pollers and
\* a shutdown that finds the pool occupied only delay it.
DeferredEnds == \A l \in Leases : Deferred(l) ~> ~lease[l].pinned

-----------------------------------------------------------------------------
(* The inductive invariant.                                                *)

\* The calls that count as in flight, and those among them that have an entry to themselves.
InCall == {"create", "publish", "query", "release", "close", "clear", "leave"}
Working == InCall \ {"leave"}
Labels == InCall \cup {"idle", "next", "drain", "check", "finish"}

\* The types of all the state.  Nothing is said of a snapshot but that it is there.
Typed ==
  /\ pool \in [Entries -> [occupied : BOOLEAN, processing : BOOLEAN, proven : BOOLEAN,
                         token : Tokens \cup {None}, lease : Leases \cup {None}]]
  /\ pending \in Nat
  /\ lease \in [Leases -> [held : BOOLEAN, pinned : BOOLEAN, unpins : 0 .. 2,
                           content : 0 .. 2, initial : 0 .. 2, deferred : -1 .. 2,
                           poisoned : BOOLEAN]]
  /\ fence \in [Tokens -> {"none", "pending", "complete", "released", "abandoned"}]
  /\ rt \in [shutting_down : BOOLEAN, in_progress : BOOLEAN, complete : BOOLEAN, in_flight : Int]
  /\ buffer \in [closing : BOOLEAN, dead : BOOLEAN]
  /\ pc \in [Threads -> Labels]
  /\ loc = [t \in Threads |->
              [entry |-> loc[t].entry, lease |-> loc[t].lease, token |-> loc[t].token,
               queue |-> loc[t].queue, shutdown |-> loc[t].shutdown]]
  /\ faults \in 0 .. MaxFaults

\* What a thread inside a call may rely on, whatever the others do: the entry it claimed is
\* still its own, and entry, fence and lease are as it left them.
Relies(t) ==
  LET e == pool[loc[t].entry] IN
  /\ pc[t] \notin InCall => loc[t].entry = 0
  /\ pc[t] \in Working => loc[t].entry \in Entries /\ e.occupied /\ e.processing
  /\ pc[t] \in {"create", "publish"} =>
       e.lease = None /\ loc[t].lease \in Leases /\ lease[loc[t].lease].held
  /\ pc[t] = "publish" => loc[t].token \in Table
  /\ pc[t] \in {"query", "release"} =>
       e.lease # None /\ loc[t].token = e.token /\ e.token \in Table
  /\ pc[t] = "release" => fence[e.token] = "complete"
  /\ pc[t] \in {"close", "clear"} => e.lease # None /\ fence[e.token] = "released"
  /\ pc[t] = "close" => lease[e.lease].pinned
  /\ pc[t] = "clear" => ~ lease[e.lease].pinned
  /\ pc[t] \in {"drain", "check", "finish"} \/ loc[t].shutdown => rt.shutting_down

\* Two threads never share an entry, a lease to defer, or a fence to publish.
Apart(t, u) ==
  /\ pc[t] \in Working /\ pc[u] \in Working => loc[t].entry # loc[u].entry
  /\ pc[t] \in {"create", "publish"} /\ pc[u] \in {"create", "publish"} =>
       loc[t].lease # loc[u].lease
  /\ pc[t] = "publish" /\ pc[u] = "publish" => loc[t].token # loc[u].token

\* An entry is free, claimed by a thread that has not published it yet, or answers for a
\* lease: then the fence is the backend's, or released by the thread that ends the lease.
Sound(s) ==
  LET e == pool[s] IN
  /\ ~ e.occupied => e = EmptyEntry
  /\ e.lease = None => e.token = None /\ ~ e.proven
  /\ e.occupied /\ ~ e.processing => e.lease # None
  /\ e.processing => \E t \in Threads : pc[t] \in Working /\ loc[t].entry = s
  /\ e.lease # None =>
       /\ e.token # None
       /\ ~ lease[e.lease].held /\ lease[e.lease].deferred # -1
       /\ fence[e.token] \in {"pending", "complete", "released"}
       /\ fence[e.token] = "released" => e.processing
       /\ fence[e.token] # "released" => lease[e.lease].pinned
       /\ e.proven => fence[e.token] # "pending"

\* Every deferred lease and every fence has one entry, and a fence about to be published none.
OneEach ==
  /\ \A s, r \in Entries :
       s # r /\ pool[s].lease # None /\ pool[r].lease # None =>
         pool[s].lease # pool[r].lease /\ pool[s].token # pool[r].token
  /\ \A t \in Threads, s \in Entries :
       pc[t] = "publish" /\ pool[s].lease # None => loc[t].token # pool[s].token

\* A fence of the backend is named by an entry or by the thread that has just created it.
Named(k) ==
  /\ fence[k] # "abandoned"
  /\ k \in Table =>
       \/ \E s \in Entries : pool[s].token = k
       \/ \E t \in Threads : pc[t] = "publish" /\ loc[t].token = k

\* A lease is pinned until its one end; a deferred one of a writer starts from its content.
Ended(l) ==
  LET e == lease[l] IN
  /\ e.held => e.pinned /\ e.deferred = -1
  /\ e.unpins = IF e.pinned THEN 0 ELSE 1
  /\ e.initial <= e.content /\ e.initial <= 1
  /\ e.pinned => e.content <= 1
  /\ e.deferred <= e.content
  /\ l \in Writers /\ e.deferred # -1 =>
       IF e.pinned THEN e.content = e.deferred /\ e.initial = e.deferred
       ELSE e.content > e.deferred \/ e.poisoned

\* Whoever has found the runtime quiet finds it so until the end.
StaysQuiet ==
  /\ buffer.dead => \A l \in Leases : ~ lease[l].pinned
  /\ rt.complete \/ (\E t \in Threads : pc[t] = "finish") =>
       /\ rt.shutting_down /\ buffer.dead
       /\ \A s \in Entries : ~ pool[s].occupied

\* The two counters are the numbers of what they count.
Counted ==
  /\ rt.in_flight = Cardinality({t \in Threads : pc[t] \in InCall})
  /\ pending = Cardinality({s \in Entries : pool[s].lease # None})

CompletionInv ==
  /\ Typed
  /\ \A t \in Threads : Relies(t)
  /\ \A t, u \in Threads : t # u => Apart(t, u)
  /\ \A s \in Entries : Sound(s)
  /\ OneEach
  /\ \A k \in Tokens : Named(k)
  /\ \A l \in Leases : Ended(l)
  /\ StaysQuiet
  /\ Counted

\* Whoever polls, a deferred lease is pinned until its fence is complete and ended once, no
\* entry or fence of the pool is lost or asked for in vain, and a completed shutdown leaves
\* none of them behind.
CompletionsSafe ==
  /\ CompletionInv /\ TypeOK /\ PinnedUntilComplete /\ EndedOnce /\ PoolExact
  /\ FencesKnown /\ FencesServed /\ DeferredWritesRefresh /\ ShutdownIsClean
=============================================================================
