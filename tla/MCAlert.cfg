SPECIFICATION Spec
CONSTANTS
  Lines <- BothLines
  PingTimeout = 8
  PingSpacing = 4
  PingRest = 12
INVARIANT HandshakeOnce
PROPERTY AlertDelivered
