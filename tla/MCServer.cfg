SPECIFICATION SpecServer
INVARIANTS CountersInOrder ShownInProgress CacheTrusted StandaloneComplete ResultFirst
PROPERTIES ArgsAgree Quits
CHECK_DEADLOCK FALSE
CONSTANTS
  NoPath = NoPath
  NoCompDB = NoCompDB
  Tree <- MCTree
  Folders <- MCFolders
  InitialFolders <- MCInitialFolders
  ProjectPath <- w
  Layouts <- MCLayouts
  ExtraArgs <- MCExtraArgs
  Whitelist <- MCWhitelist
  Blacklist <- MCBlacklist
  IncludeMatch <- MCIncludeMatch
  Opened <- MCOpened
  Failing <- MCFailing
  Written <- MCWritten
  HierarchicalPath = FALSE
  OldLLVM = TRUE
  Modes <- MCModes
  MaxEnqueued = 5
  MaxWrites = 1
  MaxMessages = 2
