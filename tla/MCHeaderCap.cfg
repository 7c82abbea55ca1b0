SPECIFICATION Spec
CONSTANTS
  InitBuf = 2
  MaxBuf = 4
  MaxBody = 5
  MaxKeepalive = 3
  RecvBuf = 4
  MaxChunks = 2
  Requests <- MCRequests
INVARIANT HeaderCapExact
