------------------------------ MODULE BlobFile ------------------------------
(***************************************************************************)
(* BlobStorage over a file: one process that adds blobs and stores the     *)
(* index, and other processes' threads that load the file and read blobs.  *)
(*                                                                         *)
(*   0        16      64                 index_offset                      *)
(*   | header | unused | blob | blob | .. | offsets | names | multi |      *)
(*                                                                         *)
(* A loaded storage appends from index_offset on, that is, over the index  *)
(* it has loaded; write_header_and_index writes a new one behind the blobs *)
(* and lets the header point to it first.  Any process may stop anywhere.  *)
(*                                                                         *)
(* The file is the set of its intact extents.  A table is written, and     *)
(* read, entry by entry and in the order of a HashMap, which is another    *)
(* one in every process.  So a write takes two steps: with the first the   *)
(* extents it overlaps are no longer intact, with the second its own       *)
(* extent is.  In between, and for ever when the process stops there, the  *)
(* bytes are those of several tables or blobs.  A read takes two steps     *)
(* likewise, and gets the extent it looks for if that has been intact from *)
(* the first to the second.  Every other read is torn: the load it belongs *)
(* to may fail, and may as well succeed with entries missing, or paired    *)
(* with another's value.                                                   *)
(***************************************************************************)
EXTENDS Naturals, FiniteSets

CONSTANTS
  Digests,
  Names,      \* names of crate files
  NoDigest,   \* "no entry" in the name index
  Readers,    \* threads with a storage of their own on the same file
  BlobLen,    \* bytes of a blob on disk: length prefix and content
  NameLen,    \* bytes of a name
  Garbage,    \* offsets that a torn read may take for those of blobs
  FileBound   \* where the last blob ends at the latest, a bound for TLC

(* index_offset of an empty storage, "the length of the header".           *)
Start == 64

ASSUME BlobFileConstants ==
  /\ IsFiniteSet(Digests) /\ IsFiniteSet(Names)
  /\ NoDigest \notin Digests
  /\ BlobLen \in [Digests -> Nat \ (0..7)]
  /\ NameLen \in Nat
  /\ Garbage \subseteq Nat
  /\ FileBound \in Nat

-----------------------------------------------------------------------------
(* The tables of the index.  Offset 0 stands for "no entry".               *)

OffsetTable == [Digests -> Nat]
NameIndex == [Names -> Digests \cup {NoDigest}]

Listed(tbl) == {d \in Digests : tbl[d] # 0}

Empty == [offsets |-> [d \in Digests |-> 0], names |-> [n \in Names |-> NoDigest]]

OffsetsLen(tbl) == 8 + 40 * Cardinality(Listed(tbl))
NamesLen(idx) == 8 + (8 + NameLen + 32) * Cardinality({n \in Names : idx[n] # NoDigest})

(* No caller enters anything into digest_to_multi_blob.                    *)
MultiLen == 8

-----------------------------------------------------------------------------
(* Extents.                                                                *)

Part ==
  [kind : {"blob"}, of : Digests] \cup [kind : {"offsets"}, of : OffsetTable]
    \cup [kind : {"names"}, of : NameIndex] \cup [kind : {"multi"}, of : {NoDigest}]

(* None of them lies in the header's 64 bytes.                             *)
Extent == [at : Nat \ (0..Start - 1), len : Nat, part : Part]
NoExtent == [at |-> 0, len |-> 0, part |-> [kind |-> "multi", of |-> NoDigest]]
Torn == [NoExtent EXCEPT !.len = 1]

Blob(d, o) == [at |-> o, len |-> BlobLen[d], part |-> [kind |-> "blob", of |-> d]]
Offsets(tbl, o) == [at |-> o, len |-> OffsetsLen(tbl), part |-> [kind |-> "offsets", of |-> tbl]]
NameTable(idx, o) == [at |-> o, len |-> NamesLen(idx), part |-> [kind |-> "names", of |-> idx]]
MultiTable(o) == [at |-> o, len |-> MultiLen, part |-> [kind |-> "multi", of |-> NoDigest]]

Overlap(e, f) == e.at < f.at + f.len /\ f.at < e.at + e.len

VARIABLES
  touched,        \* the file is not empty
  magic,          \* the header starts with BLOB_MAGIC
  header_index,   \* the index offset in the header, 0 while there is none
  disk,           \* the intact extents
  wpc,            \* what the writing process is in
  writing,        \* the extent it is writing
  blob_offsets, name_index, index_offset,    \* its BlobStorage
  rpc,            \* rpc[r]: what reader r is in
  rreading,       \* the extent it is reading, Torn, or NoExtent
  rindex,         \* the index offset it has read
  roffsets, rnames,      \* its BlobStorage
  sound,          \* history: no session has gone on from a torn index
  stored, last    \* history: what was stored while sound, and the newest

file == <<touched, magic, header_index, disk>>
memory == <<blob_offsets, name_index, index_offset>>
reader == <<rpc, rindex, roffsets, rnames>>
history == <<sound, stored, last>>
vars == <<file, wpc, writing, memory, reader, rreading, history>>

Init ==
  /\ touched = FALSE /\ magic = FALSE /\ header_index = 0 /\ disk = {}
  /\ wpc = "closed"
  /\ writing = NoExtent
  /\ blob_offsets = Empty.offsets /\ name_index = Empty.names /\ index_offset = Start
  /\ rpc = [r \in Readers |-> "none"]
  /\ rreading = [r \in Readers |-> NoExtent]
  /\ rindex = [r \in Readers |-> 0]
  /\ roffsets = [r \in Readers |-> Empty.offsets]
  /\ rnames = [r \in Readers |-> Empty.names]
  /\ sound = TRUE /\ stored = {Empty} /\ last = Empty

-----------------------------------------------------------------------------
(* Where the tables lie that the header leads to.                          *)

NamesAt(o, tbl) == o + OffsetsLen(tbl)
MultiAt(o, tbl, idx) == NamesAt(o, tbl) + NamesLen(idx)

(* The index is intact, with this content.                                 *)
Loads(tbl, idx) ==
  /\ magic
  /\ Offsets(tbl, header_index) \in disk
  /\ NameTable(idx, NamesAt(header_index, tbl)) \in disk
  /\ MultiTable(MultiAt(header_index, tbl, idx)) \in disk

IndexIntact ==
  \E e, f \in disk :
    e.part.kind = "offsets" /\ f.part.kind = "names" /\ Loads(e.part.of, f.part.of)

-----------------------------------------------------------------------------
(* The writing process.                                                    *)

(* Writing begins, over what lies there and under who is reading it.       *)
BeginWrite(e) ==
  /\ touched' = TRUE
  /\ disk' = {f \in disk : ~Overlap(e, f)}
  /\ writing' = e
  /\ rreading' = [r \in Readers |-> IF Overlap(e, rreading[r]) THEN Torn ELSE rreading[r]]

EndWrite ==
  /\ disk' = disk \cup {writing}
  /\ writing' = NoExtent

(* Slips: a file is taken for empty whatever it holds, or when it has no   *)
(* header; an empty storage starts at the header.                          *)
OpenEmptyAlways ==
  /\ wpc = "closed"
  /\ wpc' = "idle"
  /\ blob_offsets' = Empty.offsets
  /\ name_index' = Empty.names
  /\ index_offset' = Start
  /\ UNCHANGED <<file, writing, reader, rreading, history>>

OpenEmptyNoMagic ==
  /\ wpc = "closed" /\ ~magic
  /\ wpc' = "idle"
  /\ blob_offsets' = Empty.offsets
  /\ name_index' = Empty.names
  /\ index_offset' = Start
  /\ UNCHANGED <<file, writing, reader, rreading, history>>

OpenEmptyAtHeader ==
  /\ wpc = "closed" /\ ~touched
  /\ wpc' = "idle"
  /\ blob_offsets' = Empty.offsets
  /\ name_index' = Empty.names
  /\ index_offset' = 16
  /\ UNCHANGED <<file, writing, reader, rreading, history>>

(* BlobStorage::new: an empty file is an empty storage, ...                *)
OpenEmpty ==
  /\ wpc = "closed" /\ ~touched
  /\ wpc' = "idle"
  /\ blob_offsets' = Empty.offsets
  /\ name_index' = Empty.names
  /\ index_offset' = Start
  /\ UNCHANGED <<file, writing, reader, rreading, history>>

(* ... one with an intact index is loaded and continued over its index.    *)
OpenLoad ==
  /\ wpc = "closed"
  /\ \E e, f \in disk :
       /\ e.part.kind = "offsets" /\ f.part.kind = "names"
       /\ Loads(e.part.of, f.part.of)
       /\ blob_offsets' = e.part.of
       /\ name_index' = f.part.of
  /\ index_offset' = header_index
  /\ wpc' = "idle"
  /\ UNCHANGED <<file, writing, reader, rreading, history>>

(* Slip: a file that does not load is begun anew.                          *)
OpenTornAtStart ==
  /\ wpc = "closed"
  /\ magic /\ header_index # 0 /\ ~IndexIntact
  /\ blob_offsets' = Empty.offsets
  /\ name_index' = Empty.names
  /\ index_offset' = Start
  /\ wpc' = "idle"
  /\ sound' = FALSE
  /\ UNCHANGED <<file, writing, reader, rreading, stored, last>>

(* A file with any other index is refused, or loads with anything.  It is  *)
(* always refused without a header; and with index offset 0, where the     *)
(* load takes BLOB_MAGIC for the number of blobs.                          *)
OpenTorn ==
  /\ wpc = "closed"
  /\ magic /\ header_index # 0 /\ ~IndexIntact
  /\ blob_offsets' \in [Digests -> Garbage]
  /\ name_index' \in NameIndex
  /\ index_offset' = header_index
  /\ wpc' = "idle"
  /\ sound' = FALSE
  /\ UNCHANGED <<file, writing, reader, rreading, stored, last>>

(* insert of a digest without entry: the entry first, then the bytes.      *)
Insert(d) ==
  /\ wpc = "idle" /\ blob_offsets[d] = 0
  /\ index_offset + BlobLen[d] <= FileBound
  /\ blob_offsets' = [blob_offsets EXCEPT ![d] = index_offset]
  /\ BeginWrite(Blob(d, index_offset))
  /\ wpc' = "insert"
  /\ UNCHANGED <<magic, header_index, name_index, index_offset, reader, history>>

(* Slip: the length prefix is forgotten when index_offset moves on.        *)
InsertDoneShort ==
  /\ wpc = "insert"
  /\ EndWrite
  /\ index_offset' = index_offset + writing.len - 8
  /\ wpc' = "idle"
  /\ UNCHANGED <<touched, magic, header_index, blob_offsets, name_index, reader, rreading, history>>

InsertDone ==
  /\ wpc = "insert"
  /\ EndWrite
  /\ index_offset' = index_offset + writing.len
  /\ wpc' = "idle"
  /\ UNCHANGED <<touched, magic, header_index, blob_offsets, name_index, reader, rreading, history>>

(* name_index is public; handle_blocking_task enters the crates into it,   *)
(* each with the digest of its metadata and so never with another one.     *)
EnterName(n, d) ==
  /\ wpc = "idle" /\ name_index[n] = NoDigest
  /\ name_index' = [name_index EXCEPT ![n] = d]
  /\ UNCHANGED <<file, wpc, writing, blob_offsets, index_offset, reader, rreading, history>>

(* write_header_and_index: write_hdr in two writes, then the tables.       *)
WriteMagic ==
  /\ wpc = "idle"
  /\ touched' = TRUE
  /\ magic' = TRUE
  /\ wpc' = "index"
  /\ UNCHANGED <<header_index, disk, writing, memory, reader, rreading, history>>

WriteIndexOffset ==
  /\ wpc = "index"
  /\ header_index' = index_offset
  /\ wpc' = "offsets"
  /\ UNCHANGED <<touched, magic, disk, writing, memory, reader, rreading, history>>

(* The extent of the table that is next, and what follows it.              *)
Table ==
  [offsets |-> Offsets(blob_offsets, index_offset),
   names   |-> NameTable(name_index, NamesAt(index_offset, blob_offsets)),
   multi   |-> MultiTable(MultiAt(index_offset, blob_offsets, name_index))]

After == [offsets |-> "names", names |-> "multi", multi |-> "idle"]

Tables == {"offsets", "names", "multi"}

WriteTable ==
  /\ wpc \in Tables /\ writing = NoExtent
  /\ BeginWrite(Table[wpc])
  /\ UNCHANGED <<magic, header_index, wpc, memory, reader, history>>

WriteTableDone ==
  /\ wpc \in Tables /\ writing # NoExtent
  /\ EndWrite
  /\ wpc' = After[wpc]
  /\ IF wpc = "multi" /\ sound
     THEN /\ last' = [offsets |-> blob_offsets, names |-> name_index]
          /\ stored' = stored \cup {last'}
     ELSE UNCHANGED <<stored, last>>
  /\ UNCHANGED <<touched, magic, header_index, memory, reader, rreading, sound>>

(* The process ends, at a failed write too: all callers unwrap.            *)
Stop ==
  /\ wpc # "closed"
  /\ wpc' = "closed"
  /\ writing' = NoExtent
  /\ blob_offsets' = Empty.offsets /\ name_index' = Empty.names /\ index_offset' = Start
  /\ UNCHANGED <<file, reader, rreading, history>>

-----------------------------------------------------------------------------
(* A reader: BlobStorage::new on a file handle of its own.                 *)

LoadEmpty(r) ==
  /\ rpc[r] = "none" /\ ~touched
  /\ rpc' = [rpc EXCEPT ![r] = "ready"]
  /\ roffsets' = [roffsets EXCEPT ![r] = Empty.offsets]
  /\ rnames' = [rnames EXCEPT ![r] = Empty.names]
  /\ UNCHANGED <<file, wpc, writing, memory, rreading, rindex, history>>

(* With index offset 0 the load fails, as in OpenTorn.                     *)
ReadHeader(r) ==
  /\ rpc[r] = "none" /\ magic /\ header_index # 0
  /\ rpc' = [rpc EXCEPT ![r] = "offsets"]
  /\ rindex' = [rindex EXCEPT ![r] = header_index]
  /\ UNCHANGED <<file, wpc, writing, memory, rreading, roffsets, rnames, history>>

(* Where the table begins that it reads next: where the last one ended.    *)
TableAt(r) ==
  CASE rpc[r] = "offsets" -> rindex[r]
    [] rpc[r] = "names"   -> NamesAt(rindex[r], roffsets[r])
    [] rpc[r] = "multi"   -> MultiAt(rindex[r], roffsets[r], rnames[r])

(* Nothing is said of tables stored after a torn index was gone on from.   *)
Found(r) == {e \in disk : sound /\ e.part.kind = rpc[r] /\ e.at = TableAt(r)}

(* The first entry is read ...                                             *)
BeginRead(r) ==
  /\ rpc[r] \in Tables /\ rreading[r] = NoExtent
  /\ \E e \in IF Found(r) = {} THEN {Torn} ELSE Found(r) :
       rreading' = [rreading EXCEPT ![r] = e]
  /\ UNCHANGED <<file, wpc, writing, memory, reader, history>>

(* ... and the last one: of a table that was intact all the time, ...      *)
EndRead(r) ==
  /\ rpc[r] \in Tables /\ rreading[r] \notin {NoExtent, Torn}
  /\ rreading' = [rreading EXCEPT ![r] = NoExtent]

ReadOffsets(r) ==
  /\ rpc[r] = "offsets" /\ EndRead(r)
  /\ roffsets' = [roffsets EXCEPT ![r] = rreading[r].part.of]
  /\ rpc' = [rpc EXCEPT ![r] = "names"]
  /\ UNCHANGED <<file, wpc, writing, memory, rindex, rnames, history>>

ReadNames(r) ==
  /\ rpc[r] = "names" /\ EndRead(r)
  /\ rnames' = [rnames EXCEPT ![r] = rreading[r].part.of]
  /\ rpc' = [rpc EXCEPT ![r] = "multi"]
  /\ UNCHANGED <<file, wpc, writing, memory, rindex, roffsets, history>>

ReadMulti(r) ==
  /\ rpc[r] = "multi" /\ EndRead(r)
  /\ rpc' = [rpc EXCEPT ![r] = "ready"]
  /\ UNCHANGED <<file, wpc, writing, memory, rindex, roffsets, rnames, history>>

Forget(r) ==
  /\ rreading' = [rreading EXCEPT ![r] = NoExtent]
  /\ rindex' = [rindex EXCEPT ![r] = 0]
  /\ roffsets' = [roffsets EXCEPT ![r] = Empty.offsets]
  /\ rnames' = [rnames EXCEPT ![r] = Empty.names]
  /\ UNCHANGED <<file, wpc, writing, memory, history>>

(* ... or of bytes that were not.  If the load succeeds all the same, then *)
(* with tables of which nothing is known.                                  *)
ReadTorn(r) ==
  /\ rpc[r] \in Tables /\ rreading[r] = Torn
  /\ rpc' = [rpc EXCEPT ![r] = "torn"]
  /\ Forget(r)

(* The load fails, or the thread ends; another takes its place.            *)
Restart(r) ==
  /\ rpc[r] # "none"
  /\ rpc' = [rpc EXCEPT ![r] = "none"]
  /\ Forget(r)

ReaderStep(r) ==
  \/ LoadEmpty(r) \/ ReadHeader(r) \/ BeginRead(r)
  \/ ReadOffsets(r) \/ ReadNames(r) \/ ReadMulti(r) \/ ReadTorn(r)
  \/ Restart(r)

WriterStep ==
  \/ OpenEmpty \/ OpenLoad \/ OpenTorn
  \/ (\E d \in Digests : Insert(d)) \/ InsertDone
  \/ (\E n \in Names, d \in Digests : EnterName(n, d))
  \/ WriteMagic \/ WriteIndexOffset \/ WriteTable \/ WriteTableDone
  \/ Stop

Next == WriterStep \/ \E r \in Readers : ReaderStep(r)

Spec == Init /\ [][Next]_vars

-----------------------------------------------------------------------------
(* Correctness.                                                            *)

TypeOK ==
  /\ touched \in BOOLEAN /\ magic \in BOOLEAN
  /\ header_index \in Nat
  /\ header_index # 0 => header_index >= Start
  /\ disk \subseteq Extent
  /\ wpc \in {"closed", "idle", "insert", "index"} \cup Tables
  /\ writing \in Extent \cup {NoExtent}
  /\ wpc = "insert" => writing # NoExtent
  /\ blob_offsets \in OffsetTable /\ name_index \in NameIndex
  /\ index_offset \in Nat /\ index_offset >= Start
  /\ rpc \in [Readers -> {"none", "ready", "torn"} \cup Tables]
  /\ rreading \in [Readers -> Extent \cup {NoExtent, Torn}]
  /\ rindex \in [Readers -> Nat]
  /\ roffsets \in [Readers -> OffsetTable]
  /\ rnames \in [Readers -> NameIndex]
  /\ sound \in BOOLEAN
  /\ sound => last \in stored

(* Nothing that was stored is ever lost to who has loaded it: each blob it *)
(* lists is where it says, whatever other processes have inserted, stored  *)
(* or left half written since, and also when the file does not load any    *)
(* more, or one of them has taken a torn index for what is in the file.    *)
SnapshotReadable ==
  \A c \in stored : \A d \in Listed(c.offsets) : Blob(d, c.offsets[d]) \in disk

(* A load of three tables none of which is written to while it is read has *)
(* got those of one write_header_and_index, also when other processes      *)
(* insert and store between one table and the next: never the offsets of   *)
(* one store and the names of another.                                     *)
LoadedIsStored ==
  \A r \in Readers : rpc[r] = "ready" =>
    [offsets |-> roffsets[r], names |-> rnames[r]] \in stored

(* The writing process can get every blob it has inserted or loaded: they  *)
(* neither overlap each other nor the index written behind them.           *)
WriterReadsBack ==
  sound /\ wpc # "closed" => \A d \in Listed(blob_offsets) :
    LET b == Blob(d, blob_offsets[d]) IN b = writing \/ b \in disk

(* What the file promises to the next process, see SnapshotStore: if its   *)
(* index is intact then it holds what was stored last.                     *)
LastLoads == Loads(last.offsets, last.names)

Promise == INSTANCE SnapshotStore WITH
  NothingListed <- 0,
  session <- wpc # "closed",
  content <- IF ~touched THEN "empty" ELSE IF LastLoads THEN "good" ELSE "broken",
  trusted <- sound

KeepsPromise == Promise!Spec
=============================================================================
