CONSTANTS
  N = 3
  ThreadCount = 2
  Capacity = 1
SPECIFICATION FairSpec
INVARIANTS
  TypeOK
  NothingPartial
  VerifiedStays
  EachReportedOnce
PROPERTY ToolEnds
