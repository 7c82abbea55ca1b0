SPECIFICATION FairSpec
CONSTANT MaxTasks = 2
INVARIANTS
  ReleasedOnReturn
  WatchdogJoined
  CallsAreScoped
PROPERTIES
  RunSpec
  RunCompletes
