SPECIFICATION ArchFairSpec
CONSTANTS
  Half = 32
  Middle = 100
  Span = 90
  Nothing = Nothing
  NDEBUG = FALSE
  Requests <- X64Requests
  ThumbRequests <- ThumbNear
  Aarch64Requests <- Aarch64Forward
  FallbackRequests <- FallbackCalls
INVARIANTS ArchTypeOK ArchArrivesAtThrow
PROPERTY ArchImplementsContract
CHECK_DEADLOCK FALSE
