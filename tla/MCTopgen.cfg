SPECIFICATION Spec
CONSTANTS
  Err = Err
  None = None
  Junk = Junk
  X = X
  Torn = Torn
  Spelling <- MCSpelling
  Dotted <- MCDotted
  Spacing = 4
  Top = 256
  BytesPerPage = 4
  Cfg <- MCCfg
  Scenarios <- MCScenarios
CHECK_DEADLOCK FALSE
INVARIANTS RegMapSound HostsReachDevices RouteFaithful PadsAssigned NetsJoined PassesConverge
