CONSTANTS
  Pids <- MCPids
  Handlers = {f1, f2}
  MaxPid = 3
  MaxLog = 3
  None = None
SPECIFICATION Spec
INVARIANT TypeOK
PROPERTY ImplementsAbstractFilters
