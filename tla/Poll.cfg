\* A directory and a file in it are monitored; a scan meets the file twice
CONSTANTS
  Absent = Absent
  Names <- SomeNames
  InitialNodes <- DirTree
  Roots <- Overlapping
  Recursive = TRUE
  Rejected <- RejectedFile
  Depth = 2
  MaxTime = 2
  MaxOps = 3
SPECIFICATION FairSpec
INVARIANTS
  TypeOK
  OneEventPerPath
  SteadyScanExact
PROPERTIES
  EventsCoherent
  NoChangeSwallowed
  ViewInSync
  ChangesReported
