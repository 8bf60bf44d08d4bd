CONSTANTS
  s = s
  h = h
  None = None
  Paths <- MCPaths
  Entries <- MCEntries
  Includes <- MCIncludes
  Indexers = {i1, i2}
  Matched = {s, h}
  Modes = {"Normal"}
  Tracks = {TRUE}
  NoLinkage = FALSE
  CacheDirectory = TRUE
  RetainInMemory = 1
  Overlap = TRUE
  BusyReload = FALSE
  SameSecond = FALSE
  ParseFails = TRUE
  MaxRequests = 1
  MaxReloads = 0
  MaxRev = 2
SPECIFICATION Spec
INVARIANTS CountsAddUp Outstanding
PROPERTY ImplementsIndexedDB
SYMMETRY Symmetry
CHECK_DEADLOCK FALSE
