SPECIFICATION Spec
CONSTANTS
  Calls = {s1, s2}
  Signals = {TERM, INT}
  Original = original
  Nil = nil
  MayOverlap = TRUE
INVARIANT TrapsRestored
