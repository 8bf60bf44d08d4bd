CONSTANTS
  s = s
  h = h
  None = None
  Paths = {s, h}
  Includes <- MCIncludes
  Bounds <- MCBounds
  Size <- MCSize
  MaxNum = 1
  DropOld = TRUE
  OnChange = 1
  OnOpen = 1
  OnSave = 0
  ClangFails = TRUE
  MaxEdits = 2
  MaxCalls = 1
  MaxRequests = 1
SPECIFICATION Spec
INVARIANTS CompletedOnce LastChangeDiagnosed
CHECK_DEADLOCK FALSE
