SPECIFICATION Spec
CONSTANTS
  Protocols = {"warp"}
  Teams = {TRUE, FALSE}
  Reprovisions = {FALSE}
  Devices = {d1, d2}
  NoId = NoId
  Damaged = Damaged
  Addrs = {"a1", "a2"}
  NoTarget = NoTarget
  Torn = Torn
  Candidates <- MCCandidates
  GoolProfile = "balanced"
  Users <- MCUsers
  OrgAddrs = {NoTarget, "a2"}
  Networks <- MCNetworks
  MaxConsecutiveFails = 2
INVARIANTS
  WarpSafety
  CooledDownLeftAlone
PROPERTIES
  Recovers
  ImplementsCore
