CONSTANTS
  MaxRequests = 2
  Paths = {p, q}
  None = None
  Timeout = 1
  Batch = 1
  MaxNow = 2
  MaxUpdates = 1
  MaxNotes = 1
SPECIFICATION FairSpec
INVARIANTS BacklogIndexed AnsweredOnce WaitsForUpdate
PROPERTIES RefusedLate Served
CHECK_DEADLOCK FALSE
