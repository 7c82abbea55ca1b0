SPECIFICATION FairSpec
CONSTANT MaxRequests = 3
INVARIANTS
  TypeOK
  NoLostWakeup
  ChargedOncePerLateRequest
PROPERTIES
  LateIsCharged
  JoinReturns
  SignalSpec
