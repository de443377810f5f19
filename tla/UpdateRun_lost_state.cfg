CONSTANTS
  NoRef = NoRef
  Foreign = Foreign
  Keep = 1
  Refs = {A, B, C}
  Unusable = {}
  NodeSets = {n1}
  NumFiles = 1
  Events = {"lose"}
SPECIFICATION Spec
INVARIANT PreviousIsPredecessor
