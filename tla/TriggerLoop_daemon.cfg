CONSTANTS
  MaxRef = 3
  Bad = {2}
  QueueDepth = 2
  MayStop = TRUE
  MaxEvents = 1
SPECIFICATION DaemonSpec
PROPERTY Converges
PROPERTY BadHeadRetried
PROPERTY Stops
