CONSTANTS
  NoRef = NoRef
  NoProc = NoProc
  NoDir = NoDir
  NoPart = NoPart
  Config = config
  Parts = {config, module, data}
  Keep = 1
  Refs = {A, B, C}
  Readers = {}
  Writers = {w1, w2}
  Scratch = {d1, d2}
  CrashSteps <- Everywhere
SPECIFICATION Spec
INVARIANT TypeOK
INVARIANT PinnedNotRemoved
PROPERTY KeepsPromise
