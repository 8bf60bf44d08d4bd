CONSTANTS
  s = s
  h = h
  None = None
  Paths <- MCPaths
  Entries <- MCEntries
  Includes <- MCIncludes
  Indexers = {i1, i2}
  Matched = {s, h}
  Modes = {"Normal", "Background"}
  Tracks = {TRUE}
  NoLinkage = FALSE
  CacheDirectory = TRUE
  RetainInMemory = 1
  Overlap = FALSE
  BusyReload = FALSE
  SameSecond = FALSE
  ParseFails = FALSE
  MaxRequests = 1
  MaxReloads = 0
  MaxRev = 2
SPECIFICATION Spec
INVARIANTS SavedIsIndexed
SYMMETRY Symmetry
CHECK_DEADLOCK FALSE
