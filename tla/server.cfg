SPECIFICATION FairSpec
CONSTANTS
  None = None  Panic = Panic  MaxU64 = MaxU64  LongLink = LongLink
  EntryPaths <- MCEntryPaths  Contents <- MCContents
  NoRepo = NoRepo  BadJson = BadJson
  Threads = {w1, w2}
  Sources = {"cache", "file"}
  Indexes <- MCIndexes
  Archives <- MCArchives
  Lost <- MCLost
  Typed <- MCTyped
  Encoded <- MCEncoded
  MaxListed = 2
  Lower <- MCLower
  Incomplete = Incomplete
  NotLoaded = NotLoaded  NoRequest = NoRequest  NoFile = NoFile
  NotBuilt = NotBuilt  Building = Building  Poisoned = Poisoned  Junk = Junk
  toml = toml  lib = lib  long = long  part = part
  spaced = spaced  percent20 = percent20  hashed = hashed
INVARIANTS
  TypeOK StatsAreOneSnapshot SourcesAgree OverlayIsOneOfThem DownloadIsWhole
PROPERTIES
  OnlyDeadLinksDrop ErrorLinksAreForeign EveryRequestEnds
