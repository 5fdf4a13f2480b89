\* Every stream of at most six sessions, two of them unusual.
SPECIFICATION Spec
CONSTANTS
  Device = {"inverter", "logger"}
  Network = {"vendor", "vpn"}
  AllowedNetworks = {"vendor"}
  TunnelNetworks = {"vpn"}
  Country = {"US", "XX"}
  AllowedCountries = {"US"}
  Shape <- MCShape
  Pause <- MCPause
  Schedules <- MCSchedules
  VolumeSpikeLevels = 5
  VolumePercent = 60
  EarlyPercent = 50
  MaxFiringPercent = 5
  MinFirings = 1
  MinSessions = 4
  MinLevelGap = 2
  MaxChannels = 2
  Resolution = 2
  MaxSessions = 6
  MaxUnusual = 2
  ListedWatts <- MCListedWatts
CONSTRAINT FewUnusual
INVARIANTS
  TypeOK
  OneFindingPerSession
  MaintenanceExplainsOnlyItsOwn
  OneBandEach
  NeverFloods
  SpikesAreFew
  
  UnknownComesLast
\* evaluate returns.
CHECK_DEADLOCK FALSE
