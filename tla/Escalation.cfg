SPECIFICATION Spec
CONSTANTS
  AlertIds = {"a"}
  EscIds = {"esc"}
  UnusedIds = {"none"}
  Waits = {4}
  PingTimeout = 6
  FaultyPairs = {"esc", "resp"}
INVARIANTS NoFalseAlarm EscInTime
PROPERTY LineRecovers
