CONSTANTS
  NoRef = NoRef
  Foreign = Foreign
  Keep = 1
  Refs = {A, B, C, D}
  Unusable = {}
  NodeSets = {n1}
  NumFiles = 2
  Events = {"write", "edit"}
SPECIFICATION FairSpec
INVARIANT PreviousIsPredecessor
INVARIANT PointersAgree
INVARIANT StoreBounded
PROPERTY RunEnds
PROPERTY NewestStay
