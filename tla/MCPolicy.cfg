SPECIFICATION PolicySpec
CONSTANTS
  MaxWord = 3
  Basis = 1
  Block = 2
  FrequencyCap = 2
  Length = 3
  FaultyLength = 2
  FaultyCandidates = 5
  Order <- MCOrder
  Present = 2
  Cooldown = 1
  Candidates = 3
  Transitions = 2
  Tuning <- MCTuning
  Mode = "gpu_resident_with_host_fallback"
  HardLimit = 11
  MigrationReserve = 4
  SoftTarget = 5
  RawCharge = 3
  Workspace = 1
  CompressedCharges = {2}
  Targets = {3}
  Faults = {"fail"}
  MaxRevision = 1
  MaxContent = 0
  MaxCycle = 3
INVARIANTS
  CycleSafe
  NormalLimitKept
PROPERTIES
  EvictionsJustified
  ReclaimsEnd
CHECK_DEADLOCK FALSE
