CONSTANTS
  MaxRef = 2
  Bad = {}
  QueueDepth = 2
  MayStop = FALSE
  MaxEvents = 3
SPECIFICATION Spec
INVARIANT DroppedIsCovered
