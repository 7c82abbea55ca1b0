SPECIFICATION Spec
CONSTANT MaxTasks = 2
INVARIANTS
  ConnectionsDropped
