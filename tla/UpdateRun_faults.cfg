CONSTANTS
  NoRef = NoRef
  Foreign = Foreign
  Keep = 1
  Refs = {A, B}
  Unusable = {}
  NodeSets = {n1, n2}
  NumFiles = 2
  Events = {"crash", "write", "pointer", "remove", "edit", "lose", "pull"}
SPECIFICATION Spec
INVARIANT TypeOK
INVARIANT PointersResolve
INVARIANT RecordIsTrue
INVARIANT ExplicitRefIsApplied
PROPERTY CurrentMovesLast
SYMMETRY Symmetry
