\* A history of up to two pages and a live stream of up to two rows.
SPECIFICATION Spec
CONSTANTS
  t1 = t1
  t2 = t2
  e1 = e1
  d1 = d1
  NoId = NoId
  ToolId <- MCToolId
  Failure <- MCFailure
  DialogId <- MCDialogId
  ContentIndex <- MCContentIndex
  Chunk <- MCChunk
  Result <- MCResult
  HeadCap = 1
  TailCap = 2
  MaxWidth = 2
  PageCap = 2
  MaxItems = 2
  MaxBytes = 5
SYMMETRY MCSymmetry
INVARIANTS
  RowsAddressed
  TextsReadAsStreamed
PROPERTIES
  FramesReachTheirRow
  DuplicateEndIsSilent
CHECK_DEADLOCK FALSE
