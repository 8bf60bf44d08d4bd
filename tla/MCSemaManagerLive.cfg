CONSTANTS
  s = s
  h = h
  None = None
  Paths = {s}
  Includes <- MCIncludes
  Bounds <- MCTwoBounds
  Size <- MCSize
  MaxNum = 1
  DropOld = TRUE
  OnChange <- MCNever
  OnOpen = 0
  OnSave <- MCNever
  ClangFails = FALSE
  MaxEdits = 2
  MaxCalls = 1
  MaxRequests = 2
SPECIFICATION FairSpec
PROPERTIES AllLeave Completes
CHECK_DEADLOCK FALSE
