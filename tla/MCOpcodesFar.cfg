SPECIFICATION ArchSpec
CONSTANTS
  Half = 32
  Middle = 100
  Span = 90
  Nothing = Nothing
  NDEBUG = FALSE
  Requests <- NoRequests
  ThumbRequests <- ThumbFar
  Aarch64Requests <- NoRequests
  FallbackRequests <- NoRequests
INVARIANT ArchArrivesAtThrow
CHECK_DEADLOCK FALSE
