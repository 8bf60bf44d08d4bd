SPECIFICATION Spec
INVARIANTS RefcountsAreReferences NothingStale UsrsRegistered PlacesExist CallsAreDual SymbolsNest HighlightInnermost
CHECK_DEADLOCK FALSE
CONSTANTS
  None = None
  Decl <- MCDecl
  Folders <- MCFolders
  Sources <- MCSources
  MaxRev <- MCMaxRev
  MaxChanges = 1
  Events <- MCEvents
  NoLinkage = TRUE
  Reads <- MCReads
  Sought = {"L", "Df", "M"}
  Queries = {"declaration", "definition", "typeDefinition", "implementation", "references", "rename", "documentHighlight", "hover", "call", "inheritance", "member", "vars", "navigate", "codeLens", "documentLink", "documentSymbol", "symbolInformation", "foldingRange", "symbol", "fileInfo", "info"}
