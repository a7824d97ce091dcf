CONSTANTS
  Lines <- MCLines
  MaxLines = 3
  MaxHistory = 3
  Durations = {0, 4}
  MaxProcesses = 3
  default_mpi_processes = 2
  NoJob = NoJob
  Columns = 3
  HrrColumn = 2
  MaxRows = 5
  MaxRuns = 2
  MaxPoints = 2
  LOG_TAIL_LINES = 2
  NoFile = NoFile
  NoStatus = NoStatus
  outer = outer
  inner = inner
  input = input
  long = long
  ramp = ramp
  ramp2 = ramp2
  Upload = {u1, u2, u3}
  Download = {w1, w2}
  Job = {j1}
  Dir = {outer, inner}
  Above <- MCAbove
  FileName = {input, long, ramp, ramp2}
  FdsNames = {input, long}
  StoredFds = {input}
  Safe <- MCSafe
  Inode = {i1, i2, i3}
  Nothing = Nothing
SYMMETRY MCSymmetry
CONSTRAINTS FilesOrRun DownloadsOfOneCase HistoryOfSmallCases
SPECIFICATION Spec
INVARIANTS
  AnsweredCaseIsWhole NoHalfWrittenCase LoneArchiveIsWhole ArchivesAreDeleted
  FindingsAreReal PreviewIsAccepted EstimateIsInRange
  ReadingsAreWhole SeriesReachesTheEnd
