CONSTANTS
  u = u
  v = v
  w = w
  f = f
  Subs <- MCSubs
  FromFile <- MCFiles
  Parallel = 2
  Attempts = 3
SPECIFICATION Spec
INVARIANT TimeoutAborts
