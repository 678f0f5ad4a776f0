CONSTANTS
  Workers = {w1, w2, w3}
  c1 = c1 c2 = c2 c3 = c3 c4 = c4
  d1 = d1 d2 = d2 m1 = m1 m2 = m2 m3 = m3 m4 = m4
  NoDigest = NoDigest
  NoTask = NoTask
  Crates <- MCCrates
  Digests <- MCDigests
  Source <- AllFour
  Entries <- MCEntries
  Meta <- MCMeta
  Kind <- MixedKinds
  Stored <- NoneStored
  PtCap = 2
  BtCap = 1
  TakeMax = 2
SPECIFICATION FairSpec
INVARIANTS
  TypeOK
  NoBlobTwice
  NoBlobLost
  NamedCrateOnItsWay
  DrainedMeansComplete
  BacklogBounded
PROPERTY AllThreadsEnd
