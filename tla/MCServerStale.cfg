SPECIFICATION SpecServer
INVARIANT InferredIfUnlisted
CHECK_DEADLOCK FALSE
CONSTANTS
  NoPath = NoPath
  NoCompDB = NoCompDB
  Tree <- MCTree
  Folders <- MCFolders
  InitialFolders <- MCInitialFolders
  ProjectPath <- w
  Layouts <- MCShrinking
  ExtraArgs <- MCExtraArgs
  Whitelist <- MCWhitelist
  Blacklist <- MCBlacklist
  IncludeMatch <- MCIncludeMatch
  Opened <- MCOpened
  Failing <- MCFailing
  Written <- MCWritten
  HierarchicalPath = FALSE
  OldLLVM = FALSE
  Modes <- MCModes
  MaxEnqueued = 5
  MaxWrites = 0
  MaxMessages = 1
