----------------------------- MODULE MCMigrate -----------------------------
(***************************************************************************)
(* Three instances of Transaction in one run; the value of part, chosen at *)
(* the start, says which of them runs while the others stay at rest.  The  *)
(* extended one has the gate, one chunk and every kind of fault.  Open has *)
(* no gate and two chunks; Tight has two compressed chunks, the memory to  *)
(* restore one of them, and a reserve.                                     *)
(***************************************************************************)
EXTENDS MCTransaction

CONSTANTS TwoChunks, SixResources

VARIABLES part, oLedger, oStore, oChunk, oPc, oLoc, tLedger, tStore, tChunk, tPc, tLoc

openVars == <<oLedger, oStore, oChunk, oPc, oLoc>>
tightVars == <<tLedger, tStore, tChunk, tPc, tLoc>>
migrateVars == <<part, vars, openVars, tightVars>>

OpenHard == [t \in Tiers |-> IF t = "gpu" THEN 10 ELSE 0]
OpenReserve == [t \in Tiers |-> IF t = "gpu" THEN 6 ELSE 0]
TightHard == [t \in Tiers |-> IF t = "gpu" THEN 8 ELSE 0]
TightReserve == [t \in Tiers |-> IF t = "gpu" THEN 5 ELSE 0]
NoCompaction == [s \in States |-> 0]
OneShrunk == {1}
Unlimited == {None}
OpenTargets == {"gpu_compressed"}
TightTargets == {"gpu_raw", "gpu_compressed"}
OpenFaults == {"fail", "lie", "transfer", "materialize"}
TightFaults == {"transfer"}
Zero == 0
One == 1
Two == 2
Yes == TRUE
No == FALSE
RawForm == "gpu_raw"
CompressedForm == "gpu_compressed"

Open == INSTANCE Transaction WITH
  ledger <- oLedger, store <- oStore, chunk <- oChunk, pc <- oPc, loc <- oLoc,
  Chunks <- TwoChunks, Resources <- SixResources, Targets <- OpenTargets,
  HardLimit <- OpenHard, MigrationReserve <- OpenReserve, CompactionBound <- NoCompaction,
  ShrunkCharges <- OneShrunk, Limits <- Unlimited, Faults <- OpenFaults,
  InitialState <- RawForm, InitialCharge <- Two, Gated <- No,
  MaxGeneration <- Zero, MaxRevision <- Zero

Tight == INSTANCE Transaction WITH
  ledger <- tLedger, store <- tStore, chunk <- tChunk, pc <- tPc, loc <- tLoc,
  Chunks <- TwoChunks, Resources <- SixResources, Targets <- TightTargets,
  HardLimit <- TightHard, MigrationReserve <- TightReserve, CompactionBound <- NoCompaction,
  ShrunkCharges <- OneShrunk, Limits <- Unlimited, Faults <- TightFaults,
  InitialState <- CompressedForm, InitialCharge <- One, Gated <- Yes,
  MaxGeneration <- One, MaxRevision <- One

OpenRests == oLedger = None /\ oStore = None /\ oChunk = None /\ oPc = None /\ oLoc = None
TightRests == tLedger = None /\ tStore = None /\ tChunk = None /\ tPc = None /\ tLoc = None

MigrateInit ==
  /\ Init
  /\ \/ part = "gated" /\ OpenRests /\ TightRests
     \/ part = "open" /\ Open!Init /\ TightRests
     \/ part = "tight" /\ OpenRests /\ Tight!Init

MigrateNext ==
  /\ UNCHANGED part
  /\ \/ part = "gated" /\ Next /\ UNCHANGED <<openVars, tightVars>>
     \/ part = "open" /\ Open!Next /\ UNCHANGED <<vars, tightVars>>
     \/ part = "tight" /\ Tight!Next /\ UNCHANGED <<vars, openVars>>

MigrateSpec == MigrateInit /\ [][MigrateNext]_migrateVars

\* Without the gate two migrations of different chunks interleave freely, and still each
\* resource has one owner, the ledger charges what the backend owns, and no thread
\* reaches std::terminate.  With or without it, no work is hidden from inspect_chunk.
ConcurrentSafe ==
  /\ part = "open" =>
       /\ Open!TypeOK /\ Open!AuthorityOwned /\ Open!OwnershipKnown
       /\ Open!AccountingExact /\ Open!NeverTerminates /\ Open!PendingTold
  /\ part = "gated" => PendingTold

\* A migration never uses up the migration reserve for good, although two restores
\* project the ledger before either reserves.
ReserveComesBack == part = "tight" => Tight!ReserveRestored
=============================================================================
