CONSTANTS
  a = a b = b d = d e = e g = g l = l x = x y = y
  NoDigest = NoDigest
  NoList = NoList
  LongLink = LongLink
  Digests <- MCDigests
  Paths <- MCPaths
  Acj <- MCAcj
  Workers = {w1, w2}
  Present = {a, b, d, e, l, x, y}
  Utf8 = {a, e, l, x}
  PtCap = 1
  BtCap = 1
  TakeMax = 2
SPECIFICATION FairSpec
INVARIANTS
  TypeOK
  RootsHaveNoOlder
  EachBlobInOneList
  LeftOutIsAfterCycle
  NothingStoredTwice
  EntryMeansStored
  DrainedMeansStored
PROPERTY AllThreadsEnd
