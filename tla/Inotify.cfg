\* A recursively watched directory that is moved, replaced and changed while it is scanned; a short queue and few watches
CONSTANTS
  base = base
  d1 = d1
  d2 = d2
  f1 = f1
  f2 = f2
  Nowhere = Nowhere
  Base = base
  Unknown <- NoPath
  Names <- SomeNames
  Inodes = {d1, d2, f1}
  Dirs = {d1, d2}
  InitialSeats <- DirTree
  Roots <- RootA
  Recursive = TRUE
  Rejected <- NothingRejected
  BufferEvents = 3
  MaxKept = 1
  MaxQueue = 5
  MaxWatches = 2
  MaxWd = 9
  MaxOps = 4
  Depth = 2
SPECIFICATION FairSpec
INVARIANTS
  TypeOK
  NoWatchForgotten
  DeadWatchesNoticed
  MovesNoticed
PROPERTIES
  NoStalePathWhenDistinct
  ChangesReported
  RootsWatchedWhenDistinct
