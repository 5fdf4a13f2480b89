SPECIFICATION Spec
CONSTANTS
  a = a
  b = b
  Board = {a, b}
  Crystal <- CrystalErrors
  None = None
  Torn = Torn
  DefaultNominal = 12
  LeastNominal = 1
  NominalArg = {0, 16}
  OffsetArg = {2}
  PowerArg = {300}
  MaxCommands = 3
  Fine = 10
  Tol = 16
  Bins = 24
  BaselineSweeps = 2
  MaxPerStamp = 2
  Grain = 2
INVARIANTS
  RfTypeOK
  EachRadioIsOneCarrier
  ExactlyStrangersReported
  NotWeakerThanCounting
