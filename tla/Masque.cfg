SPECIFICATION MCSpec
CONSTANTS
  Protocols = {"masque", "warp"}
  Teams = {TRUE, FALSE}
  Reprovisions = {TRUE, FALSE}
  Devices = {d1, d2}
  NoId = NoId
  Damaged = Damaged
  Peers = {"g1", "g2"}
  NoPeer = NoPeer
  Torn = Torn
  GatewayPeers <- MCGatewayPeers
  H2GatewayPeers <- MCH2GatewayPeers
  CachedPeers <- MCCachedPeers
  OrgPeers = {NoPeer}
  AccountPeers = {"g1"}
  Users <- MCUsers
  Networks <- MCNetworks
  IdentityRejectedLimit = 2
  H3ProbeLimit = 12
  H2ProbeLimit = 4
INVARIANTS
  MasqueSafety
  RunsOnSoundIdentity
  TunnelAsVerified
PROPERTIES
  NoChurn
  Recovers
  ImplementsCore
