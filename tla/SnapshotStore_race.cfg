CONSTANTS
  NoRef = NoRef
  NoProc = NoProc
  NoDir = NoDir
  NoPart = NoPart
  Config = config
  Parts = {config, module}
  Keep = 1
  Refs = {A, B}
  Readers = {r1, r2}
  Writers = {}
  Scratch = {d1, d2}
  CrashSteps = {}
SPECIFICATION Spec
INVARIANT CommitNeverRefused
