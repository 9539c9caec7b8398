SPECIFICATION FairSpec
CONSTANTS
  None = None
  Resolutions <- MCResolutions
  Sockets <- MCSockets
  Responses <- MCResponses
  FirstCmds <- MCFirstCmds
  Sizes <- MCSizes
  Prime = 23
  LocalKey = 13
  RemoteKey = 6
  MaxPackets = 3
  MaxSends = 1
  MayBreak = TRUE
INVARIANTS
  KeysAgree
  NoStall
  EndsForAReason
PROPERTIES
  ImplementsLink
  Connects
  PacketsArrive
