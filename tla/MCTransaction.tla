--------------------------- MODULE MCTransaction ---------------------------
(* Small instances of Transaction.  A raw chunk is charged 2, a compressed one *)
(* at most 2 and usually 1, a workspace 1.                                     *)
EXTENDS TransactionOwners, TLC

CONSTANTS GpuHard, GpuReserve, HostHard, Compacts

MCHardLimit == [t \in Tiers |-> IF t = "gpu" THEN GpuHard ELSE HostHard]
MCMigrationReserve == [t \in Tiers |-> IF t = "gpu" THEN GpuReserve ELSE 0]
MCAllocationBound == [s \in States |-> 2]
MCAllocationCharges == [s \in States |-> {2}]
MCCompactionBound == [s \in States |-> IF s = "gpu_compressed" /\ Compacts THEN 2 ELSE 0]
MCShrunkCharges == {1, 2}
MCLimits == {None, 1}

Symmetry == Permutations(Threads)
=============================================================================
