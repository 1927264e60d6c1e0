\* A directory is watched recursively; files move in, out and over each other; a file in its place is rejected
CONSTANTS
  base = base
  d1 = d1
  f1 = f1
  f2 = f2
  Nowhere = Nowhere
  Base = base
  Closed = Closed
  Unknown <- NoPath
  Names <- SomeNames
  Inodes = {d1, f1, f2}
  Dirs = {d1}
  InitialSeats <- DirTree
  Roots <- RootA
  Recursive = TRUE
  Rejected <- RejectA
  MaxFds = 3
  MaxOps = 3
  Depth = 2
SPECIFICATION FairSpec
INVARIANTS
  TypeOK
  NoDescriptorLeaks
  ChangesNoted
  CaughtUp
PROPERTIES
  ImplementsWatchTable
  ChangesReported
  CatchesUp
