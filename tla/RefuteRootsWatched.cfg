\* Two files are monitored, and one is moved onto the other
CONSTANTS
  base = base
  d1 = d1
  d2 = d2
  f1 = f1
  f2 = f2
  Nowhere = Nowhere
  Base = base
  Unknown <- NoPath
  Names <- SomeNames
  Inodes = {f1, f2}
  Dirs = {}
  InitialSeats <- TwoFiles
  Roots <- RootsAB
  Recursive = FALSE
  Rejected <- NothingRejected
  BufferEvents = 2
  MaxKept = 1
  MaxQueue = 16
  MaxWatches = 3
  MaxWd = 9
  MaxOps = 4
  Depth = 1
SPECIFICATION FairSpec
PROPERTY RootsWatched
