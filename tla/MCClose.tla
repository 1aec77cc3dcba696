------------------------------ MODULE MCClose ------------------------------
(* Two instances of BufferClose in one run, as in MCMigrate: the extended one *)
(* closes a buffer of one chunk that the policy migrates; Leased closes one   *)
(* of two chunks that are read and written, with writes and releases failing. *)
EXTENDS MCBufferClose

CONSTANTS TwoChunks, TwoResources

VARIABLES part, lLedger, lStore, lChunk, lPc, lLoc, lBuffer, lRuntime, lClo

leasedVars == <<lLedger, lStore, lChunk, lPc, lLoc, lBuffer, lRuntime, lClo>>
closingVars == <<part, closeVars, leasedVars>>

LeasedHard == [t \in Tiers |-> IF t = "gpu" THEN 8 ELSE 3]
LeasedReserve == [t \in Tiers |-> IF t = "gpu" THEN 4 ELSE 0]
LeasedFaults == {"fail", "lie", "write"}
NoTargets == {}
One == 1

Leased == INSTANCE BufferClose WITH
  ledger <- lLedger, store <- lStore, chunk <- lChunk, pc <- lPc, loc <- lLoc,
  buffer <- lBuffer, runtime <- lRuntime, clo <- lClo,
  Chunks <- TwoChunks, Resources <- TwoResources, Targets <- NoTargets,
  HardLimit <- LeasedHard, MigrationReserve <- LeasedReserve, Faults <- LeasedFaults,
  MaxRevision <- One

\* The transactions under Leased.  (Instantiated by name because TLC otherwise evaluates the
\* constant definitions of Transaction once, with the constants of the extended instance.)
Under == INSTANCE Transaction WITH
  ledger <- lLedger, store <- lStore, chunk <- lChunk, pc <- lPc, loc <- lLoc,
  Chunks <- TwoChunks, Resources <- TwoResources, Targets <- NoTargets,
  HardLimit <- LeasedHard, MigrationReserve <- LeasedReserve, Faults <- LeasedFaults,
  MaxRevision <- One

LeasedRests ==
  /\ lLedger = None /\ lStore = None /\ lChunk = None /\ lPc = None /\ lLoc = None
  /\ lBuffer = None /\ lRuntime = None /\ lClo = None

ClosingInit ==
  /\ CloseInit
  /\ \/ part = "migrated" /\ LeasedRests
     \/ part = "leased" /\ Leased!CloseInit

ClosingNext ==
  /\ UNCHANGED part
  /\ \/ part = "migrated" /\ CloseNext /\ UNCHANGED leasedVars
     \/ part = "leased" /\ Leased!CloseNext /\ UNCHANGED closeVars

ClosingSpec == ClosingInit /\ [][ClosingNext]_closingVars

\* A buffer of two chunks is closed while leases of either come and go and their writes and
\* the releases fail: nothing is released twice or from under a lease, the ledger always
\* follows, and what is at rest is owned and charged exactly.
LeasedSafe ==
  part = "leased" =>
    /\ Under!PinsExclude /\ Leased!CloseTypeOK /\ Leased!ReleasesOwned /\ Leased!LeaseAlive
    /\ Leased!DeadIsClean /\ Leased!LedgerFollows /\ Leased!RestKnown
=============================================================================
