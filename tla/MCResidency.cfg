SPECIFICATION Spec
CONSTANTS
  HardLimit <- SessionLimit
  MigrationReserve <- SessionReserve
  MaxWord = 64
  N = 4
  Unit = 2
  Logical = 6
  OutputBound = 8
  EncodeCharge = 2
  DecodeCharge = 2
  StoredSizes = {1, 4, 5, 7}
  MaxRot = 1
INVARIANTS
  Corroborated
  AlwaysACopy
  ReportIsTrue
