------------------------------- MODULE Lifecycle -------------------------------
(***************************************************************************)
(* Runtime: buffers are allocated chunk by chunk, closed by the handles    *)
(* that own them and taken down by shutdown, by threads that run at the    *)
(* same time.  What an allocation cannot take back it leaves to shutdown:  *)
(* a resource in the orphan table, a buffer in quarantine.  A chunk is     *)
(* charged one unit; BufferClose has the closing of one buffer in detail,  *)
(* Reclaim the policy, BudgetLedger the ledger.                            *)
(***************************************************************************)
EXTENDS Integers, Sequences, FiniteSetsExt

CONSTANTS
  Threads,
  Buffers,    \* identities, given out in order: 1 .. n
  Slots,      \* the registry: 1 .. max_runtime_buffers
  Counts,     \* the chunk counts asked for
  Limit,      \* what the gpu budget admits
  OrphanMax,  \* size of orphan_cleanup
  MaxFaults,  \* bound on refused and failed calls
  None

\* What the constants must satisfy.
LifecycleConstants ==
  /\ Buffers = 1 .. Cardinality(Buffers) /\ Slots = 1 .. Cardinality(Slots)
  /\ Counts \subseteq Nat \ {0} /\ {Limit, OrphanMax} \subseteq Nat \ {0}

Resources == 1 .. Cardinality(Buffers) * Max(Counts)

VARIABLES
  pc, mine,    \* each thread: where it is, and the buffer and resource it works on
  gate,        \* allocation_mutex
  shutting, inProgress, complete, inFlight,
  nextBuffer,  \* next_buffer_id
  buf,         \* the buffers: holder, wanted and living chunks, address space, dead
  registry,    \* buffers: the slots, which do not keep what they name alive
  quarantine,  \* quarantine: the slots that do
  owned, nextResource, \* the backend's resources
  ledger,      \* reserved, staging, committed, debt
  retired,     \* authority_retired_to_debt_
  orphans,     \* orphan_cleanup
  leaving,     \* the client goes on to drop its buffers and shut down
  fate,        \* "running", or "terminated" when the process gave up
  faults

vars == <<pc, mine, gate, shutting, inProgress, complete, inFlight, nextBuffer, buf, registry,
          quarantine, owned, nextResource, ledger, retired, orphans, leaving, fate, faults>>
flow == <<gate, inFlight>>
flags == <<shutting, inProgress, complete, leaving, fate>>
table == <<registry, quarantine>>
backend == <<owned, nextResource>>
books == <<ledger, retired>>

-----------------------------------------------------------------------------
Charged == ledger.reserved + ledger.staging + ledger.committed + ledger.debt

\* A buffer nobody shares: its registry slot can be taken again.
Expired(b) == buf[b].holder = None /\ \A i \in Slots : quarantine[i] # b
Free(i) == (registry[i] = None \/ Expired(registry[i])) /\ quarantine[i] = None
SlotOf(b) == CHOOSE i \in Slots : registry[i] = b

Unborn == [holder |-> None, left |-> 0, chunks |-> {}, space |-> FALSE, dead |-> FALSE]

Fault == faults < MaxFaults /\ faults' = faults + 1
Sound == faults' = faults

Goto(t, label) == pc' = [pc EXCEPT ![t] = label]
At(t, label) == fate = "running" /\ pc[t] = label

Init ==
  /\ pc = [t \in Threads |-> "idle"] /\ mine = [t \in Threads |-> [buf |-> None, res |-> None]]
  /\ gate = None
  /\ shutting = FALSE /\ inProgress = FALSE /\ complete = FALSE /\ inFlight = 0
  /\ nextBuffer = 1 /\ buf = [b \in Buffers |-> Unborn]
  /\ registry = [i \in Slots |-> None] /\ quarantine = [i \in Slots |-> None]
  /\ owned = {} /\ nextResource = 1
  /\ ledger = [reserved |-> 0, staging |-> 0, committed |-> 0, debt |-> 0]
  /\ retired = {} /\ orphans = <<>>
  /\ leaving = FALSE /\ fate = "running" /\ faults = 0

-----------------------------------------------------------------------------
(* Runtime::allocate.                                                      *)

\* Counted as an operation before it waits at the gate.
Allocate(t, n) ==
  /\ At(t, "idle")
  /\ ~leaving /\ ~shutting /\ nextBuffer \in Buffers
  /\ mine' = [mine EXCEPT ![t] = [buf |-> nextBuffer, res |-> None]]
  /\ buf' = [buf EXCEPT ![nextBuffer] = [Unborn EXCEPT !.left = n]]
  /\ nextBuffer' = nextBuffer + 1
  /\ inFlight' = inFlight + 1
  /\ Goto(t, "gate") /\ Sound
  /\ UNCHANGED <<gate, flags, table, backend, books, orphans>>

\* Mutant: what shutdown did meanwhile is not looked at again.
MayStart_Unchecked == TRUE

\* Looked at again once the gate is passed.
MayStart == ~shutting

PassGate(t) ==
  /\ At(t, "gate") /\ gate = None
  /\ gate' = t
  /\ IF MayStart
       THEN /\ Goto(t, "register")
            /\ buf' = [buf EXCEPT ![mine[t].buf].holder = t]
       ELSE Goto(t, "leave") /\ UNCHANGED buf
  /\ Sound
  /\ UNCHANGED <<mine, inFlight, flags, nextBuffer, table, backend, books, orphans>>

\* The first free slot; without one the operation ends here.
Register(t) ==
  /\ At(t, "register")
  /\ IF \E i \in Slots : Free(i)
       THEN /\ registry' = [registry EXCEPT ![Min({i \in Slots : Free(i)})] = mine[t].buf]
            /\ Goto(t, "space") /\ UNCHANGED buf
       ELSE /\ buf' = [buf EXCEPT ![mine[t].buf] = [@ EXCEPT !.holder = None, !.left = 0]]
            /\ Goto(t, "leave") /\ UNCHANGED registry
  /\ Sound
  /\ UNCHANGED <<mine, flow, flags, nextBuffer, quarantine, backend, books, orphans>>

ReserveSpace(t) ==
  /\ At(t, "space")
  /\ \/ buf' = [buf EXCEPT ![mine[t].buf].space = TRUE] /\ Goto(t, "reserve") /\ Sound
     \/ Goto(t, "undo") /\ Fault /\ UNCHANGED buf
  /\ UNCHANGED <<mine, flow, flags, nextBuffer, table, backend, books, orphans>>

\* The next chunk, or publication when all are there.
Reserve(t) ==
  /\ At(t, "reserve")
  /\ IF buf[mine[t].buf].left = 0 THEN Goto(t, "publish") /\ UNCHANGED ledger
     ELSE IF Charged < Limit
       THEN Goto(t, "create") /\ ledger' = [ledger EXCEPT !.reserved = @ + 1]
       ELSE Goto(t, "undo") /\ UNCHANGED ledger
  /\ Sound
  /\ UNCHANGED <<mine, flow, flags, nextBuffer, buf, table, backend, retired, orphans>>

\* Mutant: the reservation of a chunk that was not made is kept.
Unreserved_Kept == ledger

Unreserved == [ledger EXCEPT !.reserved = @ - 1]

Create(t) ==
  /\ At(t, "create")
  /\ \/ /\ owned' = owned \cup {nextResource}
        /\ mine' = [mine EXCEPT ![t].res = nextResource]
        /\ nextResource' = nextResource + 1
        /\ Goto(t, "materialize") /\ Sound /\ UNCHANGED ledger
     \/ /\ ledger' = Unreserved
        /\ Goto(t, "undo") /\ Fault /\ UNCHANGED <<backend, mine>>
  /\ UNCHANGED <<flow, flags, nextBuffer, buf, table, retired, orphans>>

\* remember_runtime_cleanup; without room the process ends.
Remember(r) ==
  IF Len(orphans) < OrphanMax
    THEN orphans' = Append(orphans, r) /\ UNCHANGED fate
    ELSE fate' = "terminated" /\ UNCHANGED orphans

Materialize(t) ==
  /\ At(t, "materialize")
  /\ \/ /\ ledger' = [ledger EXCEPT !.reserved = @ - 1, !.staging = @ + 1]
        /\ Goto(t, "commit") /\ Sound /\ UNCHANGED <<shutting, fate, orphans, mine>>
     \/ /\ Fault  \* record_contract_debt
        /\ ledger' = [ledger EXCEPT !.reserved = @ - 1, !.debt = @ + 1]
        /\ Remember(mine[t].res) /\ shutting' = TRUE
        /\ mine' = [mine EXCEPT ![t].res = None]
        /\ Goto(t, "undo")
  /\ UNCHANGED <<flow, inProgress, complete, leaving, nextBuffer, buf, table, backend, retired>>

Commit(t) ==
  LET b == mine[t].buf
      r == mine[t].res
  IN
  /\ At(t, "commit")
  /\ mine' = [mine EXCEPT ![t].res = None]
  /\ \/ /\ ledger' = [ledger EXCEPT !.staging = @ - 1, !.committed = @ + 1]
        /\ buf' = [buf EXCEPT ![b] = [@ EXCEPT !.chunks = @ \cup {r}, !.left = @ - 1]]
        /\ Goto(t, "reserve") /\ Sound /\ UNCHANGED <<shutting, fate, orphans, owned>>
     \/ /\ Fault  \* rolled back
        /\ ledger' = [ledger EXCEPT !.staging = @ - 1]
        /\ owned' = owned \ {r}
        /\ shutting' = TRUE /\ Goto(t, "undo") /\ UNCHANGED <<fate, orphans, buf>>
     \/ /\ Fault  \* the release is refused too
        /\ ledger' = [ledger EXCEPT !.staging = @ - 1, !.debt = @ + 1]
        /\ Remember(r)
        /\ shutting' = TRUE /\ Goto(t, "undo") /\ UNCHANGED <<owned, buf>>
  /\ UNCHANGED <<flow, inProgress, complete, leaving, nextBuffer, table, nextResource, retired>>

\* Not after shutdown has begun.
Publish(t) ==
  /\ At(t, "publish")
  /\ IF shutting THEN Goto(t, "undo") /\ UNCHANGED buf
     ELSE Goto(t, "leave") /\ buf' = [buf EXCEPT ![mine[t].buf].holder = "user"]
  /\ Sound
  /\ UNCHANGED <<mine, flow, flags, nextBuffer, table, backend, books, orphans>>

\* The gate is opened before the operation is no longer counted.
Leave(t) ==
  /\ At(t, "leave")
  /\ gate' = IF gate = t THEN None ELSE gate
  /\ Goto(t, "left")
  /\ mine' = [mine EXCEPT ![t] = [buf |-> None, res |-> None]] /\ Sound
  /\ UNCHANGED <<inFlight, flags, nextBuffer, buf, table, backend, books, orphans>>

Left(t) ==
  /\ At(t, "left")
  /\ inFlight' = inFlight - 1
  /\ Goto(t, "idle") /\ Sound
  /\ UNCHANGED <<mine, gate, flags, nextBuffer, buf, table, backend, books, orphans>>

-----------------------------------------------------------------------------
(* close_buffer_state: for an allocation that failed ("undo"), a handle    *)
(* that is dropped ("drop") and shutdown ("drain").                        *)

Closing(t) == fate = "running" /\ pc[t] \in {"undo", "drop", "drain"} /\ mine[t].buf # None

\* The buffer is let go: dead, or (after an error) kept for shutdown.
LetGo(t) == IF pc[t] = "undo" THEN "leave" ELSE "idle"

\* Mutant: the failure is reported, the buffer is not kept.
Kept_Nobody(b) == quarantine

\* retain_failed_buffer
Kept(b) == [quarantine EXCEPT ![SlotOf(b)] = b]

\* Mutant: the shutdown that gave up is still taken to be under way.
AfterRefusal_Busy == inProgress

\* A shutdown that gives up can be tried again.
AfterRefusal == FALSE

CloseFails(t) ==
  LET b == mine[t].buf IN
  IF pc[t] = "drain"
    THEN /\ inProgress' = AfterRefusal /\ Goto(t, "idle")
         /\ UNCHANGED <<quarantine, shutting>>
    ELSE /\ quarantine' = Kept(b) /\ shutting' = TRUE
         /\ Goto(t, LetGo(t)) /\ UNCHANGED inProgress

\* What a failed close leaves of buffer b, and who holds it.
After(t, b) == IF pc[t] = "drain" THEN buf[b] ELSE [buf[b] EXCEPT !.holder = None]

\* Mutant: retired again by the next attempt.
Retired_Always(r) == FALSE

Retired(r) == r \in retired

CloseChunk(t) ==
  LET b == mine[t].buf
      r == Min(buf[b].chunks)
      books_ == IF Retired(r) THEN ledger
                ELSE [ledger EXCEPT !.committed = @ - 1, !.debt = @ + 1]
  IN
  /\ Closing(t) /\ buf[b].chunks # {}
  /\ \/ /\ owned' = owned \ {r}
        /\ ledger' = [books_ EXCEPT !.debt = @ - 1]
        /\ retired' = retired \ {r}
        /\ buf' = [buf EXCEPT ![b].chunks = @ \ {r}]
        /\ Sound /\ UNCHANGED <<pc, quarantine, shutting, inProgress>>
     \/ /\ Fault
        /\ ledger' = books_ /\ retired' = retired \cup {r}
        /\ buf' = [buf EXCEPT ![b] = After(t, b)]
        /\ CloseFails(t) /\ UNCHANGED owned
  /\ UNCHANGED <<mine, flow, complete, leaving, fate, nextBuffer, registry, nextResource, orphans>>

\* The address space last; then the buffer is dead.
CloseRest(t) ==
  LET b == mine[t].buf IN
  /\ Closing(t) /\ buf[b].chunks = {} /\ ~buf[b].dead
  /\ \/ /\ buf' = [buf EXCEPT ![b] = [@ EXCEPT !.space = FALSE, !.dead = TRUE, !.left = 0,
                                               !.holder = IF pc[t] = "drain" THEN @ ELSE None]]
        /\ Goto(t, IF pc[t] = "drain" THEN "drain" ELSE LetGo(t))
        /\ Sound /\ UNCHANGED <<quarantine, shutting, inProgress>>
     \/ /\ buf[b].space /\ Fault
        /\ buf' = [buf EXCEPT ![b] = After(t, b)]
        /\ CloseFails(t)
  /\ UNCHANGED <<mine, flow, complete, leaving, fate, nextBuffer, registry, backend, books, orphans>>

\* Buffer::~Buffer
Drop(t, b) ==
  /\ At(t, "idle") /\ buf[b].holder = "user"
  /\ mine' = [mine EXCEPT ![t].buf = b]
  /\ buf' = [buf EXCEPT ![b].holder = t]
  /\ Goto(t, "drop") /\ Sound
  /\ UNCHANGED <<flow, flags, nextBuffer, table, backend, books, orphans>>

-----------------------------------------------------------------------------
(* Runtime::shutdown.                                                      *)

BeginLeaving ==
  /\ fate = "running" /\ ~leaving
  /\ leaving' = TRUE /\ Sound
  /\ UNCHANGED <<pc, mine, flow, shutting, inProgress, complete, fate, nextBuffer, buf, table, backend,
                 books, orphans>>

Shutdown(t) ==
  /\ At(t, "idle") /\ leaving /\ ~complete
  /\ shutting' = TRUE
  /\ Goto(t, "check") /\ Sound
  /\ UNCHANGED <<mine, flow, inProgress, complete, leaving, fate, nextBuffer, buf, table, backend,
                 books, orphans>>

\* Mutant: the operations under way are not counted.
Quiet_BuffersOnly ==
  /\ ~complete /\ ~inProgress
  /\ \A i \in Slots : registry[i] # None =>
       \/ Expired(registry[i]) \/ buf[registry[i]].dead \/ quarantine[i] = registry[i]

\* Nobody is inside, and every buffer is dead or in quarantine.
Quiet ==
  /\ ~complete /\ ~inProgress /\ inFlight = 0
  /\ \A i \in Slots : registry[i] # None =>
       \/ Expired(registry[i]) \/ buf[registry[i]].dead \/ quarantine[i] = registry[i]

CheckShutdown(t) ==
  /\ At(t, "check")
  /\ IF Quiet THEN inProgress' = TRUE /\ Goto(t, "orphans")
     ELSE Goto(t, "idle") /\ UNCHANGED inProgress
  /\ Sound
  /\ UNCHANGED <<mine, flow, shutting, complete, leaving, fate, nextBuffer, buf, table, backend,
                 books, orphans>>

\* The last entry takes the place of the first.
Removed(s) ==
  IF Len(s) = 1 THEN <<>> ELSE [i \in 1 .. Len(s) - 1 |-> IF i = 1 THEN s[Len(s)] ELSE s[i]]

ReleaseOrphan(t) ==
  /\ At(t, "orphans") /\ orphans # <<>>
  /\ \/ /\ owned' = owned \ {orphans[1]}
        /\ ledger' = [ledger EXCEPT !.debt = @ - 1]
        /\ orphans' = Removed(orphans)
        /\ Sound /\ UNCHANGED <<pc, inProgress>>
     \/ /\ Fault
        /\ inProgress' = AfterRefusal /\ Goto(t, "idle")
        /\ UNCHANGED <<owned, ledger, orphans>>
  /\ UNCHANGED <<mine, flow, shutting, complete, leaving, fate, nextBuffer, buf, table,
                 nextResource, retired>>

NextQuarantined(t) ==
  LET full == {i \in Slots : quarantine[i] # None} IN
  /\ At(t, "orphans") /\ orphans = <<>>
  /\ IF full = {} THEN Goto(t, "finalize") /\ UNCHANGED mine
     ELSE Goto(t, "drain") /\ mine' = [mine EXCEPT ![t].buf = quarantine[Min(full)]]
  /\ Sound
  /\ UNCHANGED <<flow, flags, nextBuffer, buf, table, backend, books, orphans>>

\* Its slot is free again, and the search goes on.
Drained(t) ==
  LET b == mine[t].buf IN
  /\ At(t, "drain") /\ buf[b].dead
  /\ quarantine' = [quarantine EXCEPT ![SlotOf(b)] = None]
  /\ Goto(t, "orphans") /\ Sound
  /\ UNCHANGED <<mine, flow, flags, nextBuffer, buf, registry, backend, books, orphans>>

\* backend->shutdown
Finalize(t) ==
  /\ At(t, "finalize")
  /\ inProgress' = FALSE
  /\ \/ complete' = TRUE /\ Sound
     \/ Fault /\ UNCHANGED complete
  /\ Goto(t, "idle")
  /\ UNCHANGED <<mine, flow, shutting, leaving, fate, nextBuffer, buf, table, backend, books, orphans>>

-----------------------------------------------------------------------------
Proceed(t) ==
  \/ PassGate(t) \/ Register(t) \/ ReserveSpace(t) \/ Reserve(t) \/ Create(t) \/ Materialize(t)
  \/ Commit(t) \/ Publish(t) \/ Leave(t) \/ Left(t)
  \/ CloseChunk(t) \/ CloseRest(t)
  \/ CheckShutdown(t) \/ ReleaseOrphan(t) \/ NextQuarantined(t) \/ Drained(t) \/ Finalize(t)

Next ==
  \/ \E t \in Threads :
       \/ Proceed(t) \/ Shutdown(t)
       \/ \E n \in Counts : Allocate(t, n)
       \/ \E b \in Buffers : Drop(t, b)
  \/ BeginLeaving

\* A thread that is inside goes on; a client that leaves neither keeps a buffer for ever nor
\* stops asking.
Fairness ==
  /\ \A t \in Threads : WF_vars(Proceed(t)) /\ WF_vars(Shutdown(t))
  /\ \A b \in Buffers : SF_vars(leaving /\ \E t \in Threads : Drop(t, b))

Spec == Init /\ [][Next]_vars /\ Fairness

-----------------------------------------------------------------------------
TypeOK ==
  /\ inFlight \in 0 .. Cardinality(Threads)
  /\ \A f \in DOMAIN ledger : ledger[f] \in 0 .. Limit
  /\ owned \subseteq 1 .. nextResource - 1
  /\ \A b \in Buffers : buf[b].chunks \subseteq owned /\ buf[b].left \in 0 .. Max(Counts)
  /\ Len(orphans) <= OrphanMax
  /\ gate # None => pc[gate] \notin {"idle", "gate", "left"}

Held(b) == buf[b].holder # None \/ \E i \in Slots : quarantine[i] = b

\* Nothing the backend owns is lost: each resource is a chunk of exactly one buffer that
\* somebody will close (the allocation that makes it, its handle, the quarantine), the
\* chunk being made, or an orphan that shutdown will release; and so is each address range.
NothingLost ==
  /\ \A r \in owned :
       Cardinality({b \in Buffers : r \in buf[b].chunks}) + Cardinality({t \in Threads : mine[t].res = r})
         + Cardinality({i \in DOMAIN orphans : orphans[i] = r}) = 1
  /\ \A b \in Buffers : buf[b].chunks # {} \/ buf[b].space => Held(b)

\* accounting_conserved at every step, not only when the runtime rests: the charge is what
\* the backend owns plus the reservations that have no resource yet, however often a
\* release is refused and tried again.
AccountingExact ==
  Charged = Cardinality(owned) + Cardinality({t \in Threads : pc[t] = "create"})

\* Whoever fails to take back a resource closes the runtime for the others, who look again
\* behind the gate: so the orphan table never holds more than one resource and the process
\* never ends for want of room in it.
OrphansBounded == Len(orphans) <= 1 /\ fate = "running"

\* A completed shutdown leaves nothing: no operation inside, no resource, no address range,
\* no charge, no buffer that is not dead.
CompleteIsEmpty ==
  complete =>
    /\ inFlight = 0 /\ owned = {} /\ Charged = 0 /\ orphans = <<>>
    /\ \A b \in Buffers : buf[b].chunks = {} /\ ~buf[b].space

\* A client that drops its buffers and keeps asking gets its shutdown, however many
\* releases are refused on the way.
ShutdownEnds == leaving ~> complete
=============================================================================
