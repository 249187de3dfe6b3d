CONSTANTS
  Pids <- MCPids
  Versions <- MCVersions
  Packets <- MCPackets
  MaxBuf = 3
  None = None
  NoVersion = NoVersion
  NoSection = NoSection
SPECIFICATION Spec
INVARIANT EsRoutedAnnounced
