\* All trees of six paths, in which links lead anywhere
CONSTANTS
  Names <- EntryNames
  Paths <- SixPaths
  Roots <- RootsAB
  Recursive = TRUE
  Rejected <- RejectAB
  Absent = Absent
  File = File
  Dir = Dir
  Broken = Broken
SPECIFICATION FairSpec
INVARIANTS
  TypeOK
  ScanExact
PROPERTIES
  PassAdvances
  ScanEnds
\* The pass ends.
CHECK_DEADLOCK FALSE
