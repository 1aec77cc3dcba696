SPECIFICATION Spec
CONSTANTS
  None = None
  Threads = {t1, t2}
  Chunks = {c1}
  Resources = {1, 2, 3}
  Targets = {"gpu_raw", "gpu_compressed"}
  HardLimit <- MCHardLimit
  MigrationReserve <- MCMigrationReserve
  MaxWord = 16
  GpuHard = 8
  GpuReserve = 5
  HostHard = 0
  Compacts = FALSE
  AllocationBound <- MCAllocationBound
  AllocationCharges <- MCAllocationCharges
  WorkspaceBound = 1
  CompactionBound <- MCCompactionBound
  ShrunkCharges = {1}
  Limits = {None}
  Faults = {}
  InitialState = "gpu_compressed"
  InitialCharge = 1
  Gated = TRUE
  MaxGeneration = 1
  MaxRevision = 2
SYMMETRY Symmetry
PROPERTIES
  ReadersCoexist
