\* The volume rule with its percentile as it is.
SPECIFICATION Spec
CONSTANTS
  Device = {"inverter", "logger"}
  Network = {"vendor", "vpn"}
  AllowedNetworks = {"vendor"}
  TunnelNetworks = {"vpn"}
  Country = {"US", "XX"}
  AllowedCountries = {"US"}
  Shape <- MCShape
  Pause <- MCPause
  Schedules <- MCSchedules
  VolumeSpikeLevels = 5
  VolumePercent = 95
  EarlyPercent = 50
  MaxFiringPercent = 5
  MinFirings = 1
  MinSessions = 4
  MinLevelGap = 2
  MaxChannels = 2
  Resolution = 2
  MaxSessions = 6
  MaxUnusual = 1
  ListedWatts <- MCListedWatts
CONSTRAINT FewUnusual
INVARIANTS
  SpikeAgainstThePast
\* evaluate returns.
CHECK_DEADLOCK FALSE
