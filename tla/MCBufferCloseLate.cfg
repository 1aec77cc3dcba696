SPECIFICATION CloseSpec
CONSTANTS
  None = None
  Threads = {t1, t2}
  Chunks = {c1}
  Resources = {1, 2, 3, 4}
  Targets = {"host_raw", "host_compressed"}
  HardLimit <- MCHardLimit
  MigrationReserve <- MCMigrationReserve
  MaxWord = 16
  GpuHard = 6
  GpuReserve = 4
  HostHard = 3
  Compacts = FALSE
  AllocationBound <- MCAllocationBound
  AllocationCharges <- MCAllocationCharges
  WorkspaceBound = 1
  CompactionBound <- MCCompactionBound
  ShrunkCharges = {1}
  Limits = {None}
  Faults = {"fail", "lie", "transfer"}
  InitialState = "gpu_raw"
  InitialCharge = 2
  Gated = TRUE
  MaxGeneration = 1
  MaxRevision = 0
CHECK_DEADLOCK FALSE
SYMMETRY Symmetry
INVARIANT
  ClosedOwnsNothing
