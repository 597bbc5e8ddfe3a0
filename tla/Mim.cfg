SPECIFICATION Spec
CONSTANTS
  Edges = {"e1", "e2", "e3"}
  NoEdge = NoEdge
  Torn = Torn
  GatewayPeers <- MCGatewayPeers
  Users <- MCUsers
  Networks <- MCNetworks
  MaxOuterFails = 2
  InnerTries = 2
  MaxCached = 2
  WarmEnough = 2
  MaxTopUps = 1
INVARIANTS
  MimSafety
PROPERTIES
  HealthyOuterKept
  Recovers
  ImplementsCore
