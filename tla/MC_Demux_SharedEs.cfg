CONSTANTS
  Pids <- MCPids
  Versions <- MCVersions
  Packets <- MCSharedPackets
  MaxBuf = 3
  None = None
  NoVersion = NoVersion
  NoSection = NoSection
SPECIFICATION Spec
INVARIANT EsAnnouncedRouted
