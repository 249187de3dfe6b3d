CONSTANTS
  Pids <- MCTopPids
  Versions <- MCVersions
  Packets <- MCTopPackets
  MaxBuf = 3
  None = None
  NoVersion = NoVersion
  NoSection = NoSection
SPECIFICATION Spec
INVARIANT PmtRoutingFollowsPat
