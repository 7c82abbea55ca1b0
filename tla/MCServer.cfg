SPECIFICATION FairSpec
CONSTANTS
  Conns = {c1, c2}
  Nobody = nobody
  MaxKeepalive = 2
  MaxRequests = 2
INVARIANTS
  TypeOK
  GracefulStop
  DrainNotLost
  InFlightIsSum
PROPERTIES
  ConnectionsServe
  RunSpec
  ShutdownCompletes
  CalledIsAnswered
