CONSTANTS
  NoRef = NoRef
  NoProc = NoProc
  NoDir = NoDir
  NoPart = NoPart
  Config = config
  Parts = {config, module}
  Keep = 1
  Refs = {A, B, C, D}
  Readers = {r1}
  Writers = {w1}
  Scratch = {d1, d2}
  CrashSteps = {}
SPECIFICATION Spec
SYMMETRY Symmetry
INVARIANT UsedNotRemoved
