------------------------------ MODULE MCRuntime ------------------------------
(* What shutdown waits for, in one run; part says what runs.  Completion,     *)
(* extended, defers two leases, one of them a writer's, into a pool of two    *)
(* and shuts down; Life allocates and drops two buffers in a budget of three  *)
(* chunks and shuts down.                                                     *)
EXTENDS Completion

CONSTANTS Buffers, Slots, Counts, Limit, OrphanMax

VARIABLES
  part,
  lPc, lMine, lGate, lShutting, lInProgress, lComplete, lInFlight, lNextBuffer, lBuf, lRegistry,
  lQuarantine, lOwned, lNextResource, lLedger, lRetired, lOrphans, lLeaving, lFate, lFaults

lifeVars == <<lPc, lMine, lGate, lShutting, lInProgress, lComplete, lInFlight, lNextBuffer, lBuf,
              lRegistry, lQuarantine, lOwned, lNextResource, lLedger, lRetired, lOrphans, lLeaving,
              lFate, lFaults>>
runtimeVars == <<part, vars, lifeVars>>

Two == 2

Life == INSTANCE Lifecycle WITH
  pc <- lPc, mine <- lMine, gate <- lGate, shutting <- lShutting, inProgress <- lInProgress,
  complete <- lComplete, inFlight <- lInFlight, nextBuffer <- lNextBuffer, buf <- lBuf,
  registry <- lRegistry, quarantine <- lQuarantine, owned <- lOwned,
  nextResource <- lNextResource, ledger <- lLedger, retired <- lRetired, orphans <- lOrphans,
  leaving <- lLeaving, fate <- lFate, faults <- lFaults,
  MaxFaults <- Two

ASSUME RuntimeAssumption == CompletionConstants /\ Life!LifecycleConstants

RuntimeInit ==
  /\ Init /\ Life!Init
  /\ part \in {"buffers", "pool"}

InBuffers(A) == part = "buffers" /\ A /\ UNCHANGED <<part, vars>>
InPool(A) == part = "pool" /\ A /\ UNCHANGED <<part, lifeVars>>

RuntimeNext ==
  \/ InBuffers(Life!Next)
  \/ InPool(Next)

\* The fairness of Lifecycle and of Completion.
RuntimeFairness ==
  /\ \A t \in Threads :
       /\ WF_runtimeVars(InBuffers(Life!Proceed(t)) \/ InPool(Step(t)))
       /\ WF_runtimeVars(InBuffers(Life!Shutdown(t)) \/ InPool(PollReady(t)))
  /\ \A b \in Buffers :
       SF_runtimeVars(InBuffers(lLeaving /\ \E t \in Threads : Life!Drop(t, b)))
  /\ \A k \in Tokens : WF_runtimeVars(InPool(FenceCompletes(k)))

RuntimeSpec == RuntimeInit /\ [][RuntimeNext]_runtimeVars /\ RuntimeFairness

\* Threads that allocate, drop and shut down lose no resource, keep the ledger exact at every
\* step and leave nothing behind a completed shutdown.
LifecycleSafe ==
  /\ Life!TypeOK /\ Life!NothingLost /\ Life!AccountingExact /\ Life!OrphansBounded
  /\ Life!CompleteIsEmpty

\* A client that drops its buffers and keeps asking gets its shutdown, however many
\* releases are refused on the way.
ShutdownEnds == Life!ShutdownEnds
=============================================================================
