CONSTANTS
  NoFile = NoFile
  kMaxDiff = 20
  kMaxColumnAlignSize = 200
  kMaxText = 100
  Paths = {p}
  Documents <- MCDocuments
  Inserts <- MCInserts
  Clang <- MCClang
  Reformatted <- MCReformatted
  g_config <- MCConfig
  MaxEvents = 3
  MaxChanges = 1
SPECIFICATION Spec
INVARIANTS BufferIsDocument RangesFollowText EditsFit RankedByAlignment FormatFits
CHECK_DEADLOCK FALSE
