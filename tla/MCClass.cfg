SPECIFICATION ClassSpec
CONSTANTS
  Alerts = {"a", "b"}
  AlertEn = {"a", "b"}
  ThisClass = "A"
  AlertClasses <- MCAlertClasses
  Ctrls <- MCCtrls
  AccumThresh = 2
  AccuMax = 2
  TimeoutCyc = 3
  PhaseCyc <- MCPhaseCyc
INVARIANTS NoMissedEscalation NoSpuriousEscalation LockedForGood
PROPERTIES SignalsRaised UnhandledEscalates
