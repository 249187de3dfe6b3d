CONSTANTS
  Pids <- MCPids
  Versions <- MCVersions
  Packets <- MCPackets
  MaxBuf = 3
  None = None
  NoVersion = NoVersion
  NoSection = NoSection
SPECIFICATION Spec
INVARIANT TypeOK
INVARIANT DispatchToOwnPid
INVARIANT DispatchInOrder
INVARIANT PmtRoutingFollowsPat
INVARIANT EsAnnouncedRouted
PROPERTY RoutingChangesOnlyByTables
