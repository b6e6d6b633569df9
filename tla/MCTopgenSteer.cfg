SPECIFICATION Spec
CONSTANTS
  Err = Err
  None = None
  Junk = Junk
  X = X
  Torn = Torn
  Spelling <- MCSpelling
  Dotted <- MCDotted
  Spacing = 4
  Top = 256
  BytesPerPage = 4
  Cfg <- MCCfg
  Scenarios <- SteerScenarios
CHECK_DEADLOCK FALSE
INVARIANT RouteFaithful
