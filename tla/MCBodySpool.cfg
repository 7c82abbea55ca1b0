SPECIFICATION Spec
CONSTANTS
  Threads = {t1, t2}
  Threshold = 1
  MaxChunk = 2
  MaxYields = 2
  MaxBodies = 2
  MayRescue = TRUE
SYMMETRY ThreadSymmetry
INVARIANTS
  TypeOK
  BodyExact
  SpooledWhenLarge
  NothingLeftBehind
