CONSTANTS
  A = A
  B = B
  C = C
  runner = runner
  poll = poll
  Nothing = Nothing
  Commits <- MCCommits
  Callers <- MCCallers
  Order <- MCOrder
  Skipped <- MCSkipped
  Versions = 1
  MaxSnapshots = 2
  Parts <- MCParts
  MaxDepth = 4
  MaxEntries = 3
  MaxArchiveFiles = 2
  MaxArchiveBytes = 2
SPECIFICATION SourceSpec
INVARIANT SnapshotIsItsRef
