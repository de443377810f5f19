CONSTANTS
  None = None
  Writers = {w1, w2}
  Probes = {p1, p2}
  MayCrash = TRUE
  MayFail = TRUE
SPECIFICATION FairSpec
INVARIANT MutualExclusion
INVARIANT UndisturbedIsExact
INVARIANT ReportedRunIsThere
PROPERTY ProbesLetGo
