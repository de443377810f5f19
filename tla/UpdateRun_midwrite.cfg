CONSTANTS
  NoRef = NoRef
  Foreign = Foreign
  Keep = 1
  Refs = {A, B}
  Unusable = {}
  NodeSets = {n1}
  NumFiles = 2
  Events = {"write"}
SPECIFICATION Spec
INVARIANT OutputsOfOneRun
