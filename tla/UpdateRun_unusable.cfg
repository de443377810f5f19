CONSTANTS
  NoRef = NoRef
  Foreign = Foreign
  Keep = 1
  Refs = {A, B}
  Unusable = {B}
  NodeSets = {n1}
  NumFiles = 1
  Events = {}
SPECIFICATION Spec
INVARIANT UnusableAborts
