CONSTANTS
  Digests = {d1, d2}
  Names = {n1}
  NoDigest = NoDigest
  Readers = {r1}
  BlobLen <- MCBlobLen
  NameLen = 8
  Garbage = {0}
  FileBound = 112
SYMMETRY MCSymmetry
SPECIFICATION Spec
INVARIANTS
  TypeOK
  SnapshotReadable
  LoadedIsStored
  WriterReadsBack
PROPERTY KeepsPromise
CHECK_DEADLOCK FALSE
