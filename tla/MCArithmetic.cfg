SPECIFICATION ArithmeticSpec
CONSTANTS
  c1 = c1
  c2 = c2
  Clients <- MCClients
  HardLimit <- MCHardLimit
  MigrationReserve <- MCMigrationReserve
  MaxWord = 4
  RequestBatches <- MCRequestBatches
  Amounts <- MCAmounts
SYMMETRY Symmetry
INVARIANTS
  TypeOK
  HardLimitRespected
  PeakCoversCharge
  ReservedIsClaimed
  ArithmeticIsExact
PROPERTIES
  BlockedTierAdmitsNothing
CHECK_DEADLOCK FALSE
