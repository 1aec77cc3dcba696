SPECIFICATION MigrateSpec
CONSTANTS
  None = None
  Threads = {t1, t2}
  Chunks = {c1}
  TwoChunks = {c1, c2}
  SixResources = {1, 2, 3, 4, 5, 6}
  Resources = {1, 2, 3, 4}
  Targets = {"gpu_raw", "gpu_compressed", "host_raw"}
  HardLimit <- MCHardLimit
  MigrationReserve <- MCMigrationReserve
  MaxWord = 16
  GpuHard = 7
  GpuReserve = 5
  HostHard = 3
  Compacts = TRUE
  AllocationBound <- MCAllocationBound
  AllocationCharges <- MCAllocationCharges
  WorkspaceBound = 1
  CompactionBound <- MCCompactionBound
  ShrunkCharges <- MCShrunkCharges
  Limits <- MCLimits
  Faults = {"descriptor", "bound", "same_state", "allocate", "materialize", "verify", "contract", "prepare", "transfer", "ambiguous", "corrupt", "metadata", "write", "fail", "lie"}
  InitialState = "gpu_raw"
  InitialCharge = 2
  Gated = TRUE
  MaxGeneration = 1
  MaxRevision = 2
SYMMETRY Symmetry
INVARIANTS
  MigrationInv
  OwnershipKnown
  AccountingExact
  NeverTerminates
  ConcurrentSafe
  ReserveComesBack
PROPERTIES
  StaleProposalRejected
  ImplementsChunk
