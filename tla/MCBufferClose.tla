--------------------------- MODULE MCBufferClose ---------------------------
(* Small instances of BufferClose, with the charges of MCTransaction. *)
EXTENDS BufferClose, TLC

CONSTANTS GpuHard, GpuReserve, HostHard, Compacts

MCHardLimit == [t \in Tiers |-> IF t = "gpu" THEN GpuHard ELSE HostHard]
MCMigrationReserve == [t \in Tiers |-> IF t = "gpu" THEN GpuReserve ELSE 0]
MCAllocationBound == [s \in States |-> 2]
MCAllocationCharges == [s \in States |-> {2}]
MCCompactionBound == [s \in States |-> IF s = "gpu_compressed" /\ Compacts THEN 2 ELSE 0]

Symmetry == Permutations(Threads)
=============================================================================
