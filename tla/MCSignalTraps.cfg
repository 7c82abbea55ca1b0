SPECIFICATION Spec
CONSTANTS
  Calls = {s1, s2, s3}
  Signals = {TERM, INT}
  Original = original
  Nil = nil
  MayOverlap = TRUE
INVARIANTS TypeOK NewestOwnsSignals ChainReachesOriginal NoStaleRequest
SYMMETRY Symmetry
