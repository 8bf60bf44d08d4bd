CONSTANTS
  s = s
  h = h
  None = None
  Paths <- MCPaths
  Entries <- MCEntries
  Includes <- MCIncludes
  Indexers = {i1}
  Matched = {s, h}
  Modes = {"Normal", "Delete"}
  Tracks = {TRUE}
  NoLinkage = FALSE
  CacheDirectory = TRUE
  RetainInMemory = 1
  Overlap = FALSE
  BusyReload = FALSE
  SameSecond = FALSE
  ParseFails = FALSE
  MaxRequests = 2
  MaxReloads = 1
  MaxRev = 2
SPECIFICATION FairSpec
INVARIANTS CountsAddUp SavedIsIndexed
PROPERTY Settles
CHECK_DEADLOCK FALSE
