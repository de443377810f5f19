CONSTANTS
  None = None
  Writers = {w1}
  Probes = {p1}
  MayCrash = TRUE
  MayFail = FALSE
SPECIFICATION Spec
INVARIANT RefusedForWriter
