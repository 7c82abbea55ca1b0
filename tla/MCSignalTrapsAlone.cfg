SPECIFICATION FairSpec
CONSTANTS
  Calls = {s1, s2}
  Signals = {TERM, INT}
  Original = original
  Nil = nil
  MayOverlap = FALSE
INVARIANT TrapsRestored
PROPERTY SignalStops
