--------------------------- MODULE BlobFileProofs ---------------------------
(***************************************************************************)
(* Proofs about BlobFile for any number of blobs, names and readers, any   *)
(* lengths, and anything that a torn index may be taken for.               *)
(*                                                                         *)
(*   LoadedStaysReadable  a storage once loaded stays readable             *)
(*   InsertedCanBeRead    the writing process can read what it inserted    *)
(*   LoadsOneSnapshot     a load never mixes the tables of two stores      *)
(*   PromiseKept          BlobFile implements SnapshotStore                *)
(*                                                                         *)
(* The argument for the first two: what was stored lists blobs below       *)
(* header_index only, and so does an offset table on disk; the writer's    *)
(* table lists blobs below its index_offset, which is never less; and all  *)
(* it writes lies at or above index_offset, or in the header.  The last    *)
(* holds of a session that has gone on from a torn index as well, so that  *)
(* what was stored before it stays; what it stores itself lists anything.  *)
(*                                                                         *)
(* For the others: call what write_header_and_index writes in one go, and  *)
(* where, a generation.  The generations there have been are in an order:  *)
(* each starts behind the one before it, or lists the same blobs, and has  *)
(* all names of the one before.  So tables of different generations never  *)
(* lie where a load that began with one of them would look for the other,  *)
(* unless they are equal; and tables that are left of an older one are     *)
(* written over before the newer one is complete.  What a reader gets of a *)
(* table is on disk when it ends to read it, as when it began.             *)
(***************************************************************************)
EXTENDS BlobFile, FiniteSetTheorems, TLAPS

(* Every blob of the table is on the disk and ends at or before lim.       *)
Sound(dsk, tbl, lim) ==
  \A d \in Digests : tbl[d] # 0 =>
    Blob(d, tbl[d]) \in dsk /\ tbl[d] + BlobLen[d] <= lim

StoredSound ==
  \A c \in stored : c.offsets \in OffsetTable /\ Sound(disk, c.offsets, header_index)

DiskSound ==
  /\ sound => \A e \in disk : e.part.kind = "offsets" => Sound(disk, e.part.of, header_index)
  /\ ~touched => header_index = 0 /\ ~magic /\ disk = {}

WriterSound ==
  /\ wpc # "closed" => header_index <= index_offset
  /\ wpc \notin {"closed", "idle"} => touched
  /\ sound /\ wpc \notin {"closed", "insert"} => Sound(disk, blob_offsets, index_offset)
  /\ wpc = "insert" =>
       \E d \in Digests :
         /\ blob_offsets[d] = index_offset /\ writing = Blob(d, index_offset)
         /\ sound => Sound(disk, [blob_offsets EXCEPT ![d] = 0], index_offset)
  /\ wpc \in Tables => header_index = index_offset /\ writing \in {NoExtent, Table[wpc]}
  /\ wpc \in {"closed", "idle", "index"} => writing = NoExtent

IInv == TypeOK /\ StoredSound /\ DiskSound /\ WriterSound

-----------------------------------------------------------------------------
(* Lengths and types of extents.                                           *)

LEMMA LengthsType ==
  /\ \A tbl : OffsetsLen(tbl) \in Nat
  /\ \A idx : NamesLen(idx) \in Nat
<1>1. ASSUME NEW tbl PROVE OffsetsLen(tbl) \in Nat
  <2>1. IsFiniteSet(Listed(tbl))
    BY BlobFileConstants, FS_Subset DEF Listed
  <2> QED  BY <2>1, FS_CardinalityType DEF OffsetsLen
<1>2. ASSUME NEW idx PROVE NamesLen(idx) \in Nat
  <2>1. IsFiniteSet({n \in Names : idx[n] # NoDigest})
    BY BlobFileConstants, FS_Subset
  <2>2. Cardinality({n \in Names : idx[n] # NoDigest}) \in Nat
    BY <2>1, FS_CardinalityType
  <2> QED  BY <2>2, BlobFileConstants DEF NamesLen
<1> QED  BY <1>1, <1>2

LEMMA BlobType ==
  ASSUME NEW d \in Digests, NEW o \in Nat, o >= Start
  PROVE  /\ Blob(d, o) \in Extent
         /\ Blob(d, o).at = o /\ Blob(d, o).len = BlobLen[d] /\ BlobLen[d] \in Nat
BY BlobFileConstants DEF Blob, Extent, Part, Start

LEMMA NoExtentType == NoExtent \notin Extent /\ Torn \notin Extent
BY DEF NoExtent, Torn, Extent, Start

LEMMA TableType ==
  ASSUME TypeOK, NEW t \in Tables
  PROVE  /\ Table[t] \in Extent
         /\ Table[t].at \in Nat /\ Table[t].at >= index_offset
         /\ Table[t].part.kind = "offsets" => t = "offsets" /\ Table[t].part.of = blob_offsets
<1>1. OffsetsLen(blob_offsets) \in Nat /\ NamesLen(name_index) \in Nat
  BY LengthsType
<1>2. index_offset \in Nat /\ index_offset >= Start /\ blob_offsets \in OffsetTable /\ name_index \in NameIndex
  BY DEF TypeOK
<1> USE DEF Start
<1>3. CASE t = "offsets"
  <2>1. Table[t] = Offsets(blob_offsets, index_offset)
    BY <1>3 DEF Table
  <2> QED  BY <1>1, <1>2, <1>3, <2>1 DEF Offsets, Extent, Part
<1>4. CASE t = "names"
  <2>1. Table[t] = NameTable(name_index, NamesAt(index_offset, blob_offsets))
    BY <1>4 DEF Table
  <2> QED  BY <1>1, <1>2, <1>4, <2>1 DEF NameTable, NamesAt, Extent, Part
<1>5. CASE t = "multi"
  <2>1. Table[t] = MultiTable(MultiAt(index_offset, blob_offsets, name_index))
    BY <1>5 DEF Table
  <2> QED  BY <1>1, <1>2, <1>5, <2>1 DEF MultiTable, MultiLen, MultiAt, NamesAt, Extent, Part
<1> QED  BY <1>3, <1>4, <1>5 DEF Tables

-----------------------------------------------------------------------------
(* Sound tables.                                                           *)

LEMMA SoundEmpty == \A dsk, lim : Sound(dsk, Empty.offsets, lim)
BY DEF Sound, Empty

LEMMA SoundHigher ==
  ASSUME NEW dsk, NEW tbl \in OffsetTable, NEW lim \in Nat, NEW higher \in Nat,
         lim <= higher, Sound(dsk, tbl, lim)
  PROVE  Sound(dsk, tbl, higher)
BY BlobFileConstants DEF Sound, OffsetTable

(* A write at or above the limit leaves the table's blobs alone.           *)
LEMMA SoundWrite ==
  ASSUME NEW dsk, NEW tbl \in OffsetTable, NEW lim \in Nat, Sound(dsk, tbl, lim),
         NEW e, e.at \in Nat, lim <= e.at
  PROVE  Sound({f \in dsk : ~Overlap(e, f)}, tbl, lim)
<1> SUFFICES ASSUME NEW d \in Digests, tbl[d] # 0
             PROVE  Blob(d, tbl[d]) \in {f \in dsk : ~Overlap(e, f)} /\ tbl[d] + BlobLen[d] <= lim
  BY DEF Sound
<1>1. tbl[d] \in Nat /\ BlobLen[d] \in Nat
  BY BlobFileConstants DEF OffsetTable
<1>2. Blob(d, tbl[d]) \in dsk /\ tbl[d] + BlobLen[d] <= lim
  BY DEF Sound
<1>3. ~(e.at < Blob(d, tbl[d]).at + Blob(d, tbl[d]).len)
  BY <1>1, <1>2 DEF Blob
<1>4. ~Overlap(e, Blob(d, tbl[d]))
  BY <1>3 DEF Overlap
<1> QED  BY <1>2, <1>4

LEMMA SoundMore ==
  ASSUME NEW dsk, NEW more, NEW tbl, NEW lim, dsk \subseteq more, Sound(dsk, tbl, lim)
  PROVE  Sound(more, tbl, lim)
BY DEF Sound

-----------------------------------------------------------------------------
(* The type invariant.                                                     *)

LEMMA TypeInit == Init => TypeOK
<1> SUFFICES ASSUME Init PROVE TypeOK
  OBVIOUS
<1>1. blob_offsets \in OffsetTable /\ name_index \in NameIndex
  BY DEF Init, Empty, OffsetTable, NameIndex
<1>2. roffsets \in [Readers -> OffsetTable] /\ rnames \in [Readers -> NameIndex]
  BY DEF Init, Empty, OffsetTable, NameIndex
<1>3. writing \in Extent \cup {NoExtent} /\ wpc # "insert"
  BY DEF Init
<1>4. /\ rpc \in [Readers -> {"none", "ready", "torn"} \cup Tables]
      /\ rindex \in [Readers -> Nat]
      /\ rreading \in [Readers -> Extent \cup {NoExtent, Torn}]
  BY DEF Init
<1>5. index_offset \in Nat /\ index_offset >= Start
  BY DEF Init, Start
<1>6. touched \in BOOLEAN /\ magic \in BOOLEAN /\ sound \in BOOLEAN
  BY DEF Init
<1> QED  BY <1>1, <1>2, <1>3, <1>4, <1>5, <1>6 DEF Init, TypeOK

LEMMA BeginWriteType ==
  ASSUME TypeOK, NEW e \in Extent, BeginWrite(e)
  PROVE  /\ touched' \in BOOLEAN /\ disk' \subseteq Extent /\ writing' = e /\ e # NoExtent
         /\ rreading' \in [Readers -> Extent \cup {NoExtent, Torn}]
BY NoExtentType DEF TypeOK, BeginWrite

LEMMA EndWriteType ==
  ASSUME TypeOK, writing # NoExtent, EndWrite
  PROVE  disk' \subseteq Extent /\ writing' = NoExtent
BY DEF TypeOK, EndWrite

LEMMA EmptyType == Empty.offsets \in OffsetTable /\ Empty.names \in NameIndex
BY DEF Empty, OffsetTable, NameIndex

(* What is found on disk as a table is one.                                *)
LEMMA PartType ==
  ASSUME TypeOK, NEW e \in disk
  PROVE  /\ e.part.kind = "offsets" => e.part.of \in OffsetTable
         /\ e.part.kind = "names" => e.part.of \in NameIndex
<1>1. e \in Extent
  BY DEF TypeOK
<1>2. e.part \in Part
  BY <1>1 DEF Extent
<1> QED  BY <1>2 DEF Part

LEMMA WriterTypeStep == TypeOK /\ WriterStep => TypeOK'
<1> SUFFICES ASSUME TypeOK, WriterStep PROVE TypeOK'
  OBVIOUS
<1> USE DEF file, memory, reader, history
<1>1. CASE OpenEmpty
  BY <1>1, EmptyType DEF OpenEmpty, TypeOK, Start
<1>2. CASE OpenLoad
  <2>1. PICK e \in disk, f \in disk :
          /\ e.part.kind = "offsets" /\ f.part.kind = "names"
          /\ Loads(e.part.of, f.part.of)
          /\ blob_offsets' = e.part.of /\ name_index' = f.part.of
    BY <1>2 DEF OpenLoad
  <2>2. blob_offsets' \in OffsetTable /\ name_index' \in NameIndex
    BY <2>1, PartType
  <2>3. header_index >= Start
    <3>1. Offsets(blob_offsets', header_index) \in Extent
      BY <2>1 DEF Loads, TypeOK
    <3> QED  BY <3>1 DEF Offsets, Extent, Start, TypeOK
  <2> QED  BY <1>2, <2>2, <2>3 DEF OpenLoad, TypeOK
<1>3. ASSUME NEW d \in Digests, Insert(d) PROVE TypeOK'
  <2>1. Blob(d, index_offset) \in Extent
    BY BlobType DEF TypeOK
  <2>2. blob_offsets' \in OffsetTable
    BY <1>3 DEF Insert, TypeOK, OffsetTable
  <2> QED  BY <1>3, <2>1, <2>2, BeginWriteType DEF Insert, TypeOK
<1>4. CASE InsertDone
  <2>1. writing \in Extent
    BY <1>4 DEF InsertDone, TypeOK
  <2>2. index_offset + writing.len \in Nat /\ index_offset + writing.len >= Start
    BY <2>1 DEF TypeOK, Extent, Start
  <2> QED  BY <1>4, <2>2, EndWriteType DEF InsertDone, TypeOK
<1>5. ASSUME NEW n \in Names, NEW d \in Digests, EnterName(n, d) PROVE TypeOK'
  BY <1>5 DEF EnterName, TypeOK, NameIndex
<1>6. CASE WriteMagic
  BY <1>6 DEF WriteMagic, TypeOK
<1>7. CASE WriteIndexOffset
  BY <1>7 DEF WriteIndexOffset, TypeOK, Tables
<1>8. CASE WriteTable
  <2>1. Table[wpc] \in Extent
    BY <1>8, TableType DEF WriteTable
  <2> QED  BY <1>8, <2>1, BeginWriteType DEF WriteTable, TypeOK
<1>9. CASE WriteTableDone
  <2>1. wpc' \in {"idle"} \cup Tables
    BY <1>9 DEF WriteTableDone, After, Tables
  <2>2. sound' => last' \in stored'
    BY <1>9 DEF WriteTableDone, TypeOK
  <2> QED  BY <1>9, <2>1, <2>2, EndWriteType DEF WriteTableDone, TypeOK, Tables
<1>10. CASE Stop
  BY <1>10, EmptyType DEF Stop, TypeOK, Start
<1>11. CASE OpenTorn
  <2>1. blob_offsets' \in OffsetTable /\ name_index' \in NameIndex
    BY <1>11, BlobFileConstants DEF OpenTorn, OffsetTable
  <2>2. header_index \in Nat /\ header_index >= Start
    BY <1>11 DEF OpenTorn, TypeOK
  <2> QED  BY <1>11, <2>1, <2>2 DEF OpenTorn, TypeOK
<1> QED
  BY <1>1, <1>2, <1>3, <1>4, <1>5, <1>6, <1>7, <1>8, <1>9, <1>10, <1>11 DEF WriterStep

(* What is read is on disk, where the reader looks for it.                 *)
ReadsIntact ==
  \A r \in Readers :
    rreading[r] \in {NoExtent, Torn}
      \/ /\ rpc[r] \in Tables /\ rreading[r] \in disk
         /\ rreading[r].part.kind = rpc[r] /\ rreading[r].at = TableAt(r)

LEMMA ReaderTypeStep == ASSUME TypeOK, ReadsIntact, NEW r \in Readers, ReaderStep(r) PROVE TypeOK'
<1> USE DEF file, memory, reader, history
<1>1. CASE LoadEmpty(r)
  BY <1>1, EmptyType DEF LoadEmpty, TypeOK
<1>2. CASE ReadHeader(r)
  BY <1>2 DEF ReadHeader, TypeOK, Tables
<1>3. CASE BeginRead(r)
  <2>1. PICK e \in disk \cup {Torn} : rreading' = [rreading EXCEPT ![r] = e]
    BY <1>3 DEF BeginRead, Found
  <2>2. rreading' \in [Readers -> Extent \cup {NoExtent, Torn}]
    BY <2>1 DEF TypeOK
  <2> QED  BY <1>3, <2>2 DEF BeginRead, TypeOK
<1>4. ASSUME EndRead(r) PROVE rreading' \in [Readers -> Extent \cup {NoExtent, Torn}]
  BY <1>4 DEF EndRead, TypeOK
<1>5. CASE ReadOffsets(r)
  <2>1. rreading[r].part.of \in OffsetTable
    BY <1>5, PartType DEF ReadOffsets, EndRead, ReadsIntact
  <2> QED  BY <1>4, <1>5, <2>1 DEF ReadOffsets, TypeOK, Tables
<1>6. CASE ReadNames(r)
  <2>1. rreading[r].part.of \in NameIndex
    BY <1>6, PartType DEF ReadNames, EndRead, ReadsIntact
  <2> QED  BY <1>4, <1>6, <2>1 DEF ReadNames, TypeOK, Tables
<1>7. CASE ReadMulti(r)
  BY <1>4, <1>7 DEF ReadMulti, TypeOK
<1>8. CASE ReadTorn(r) \/ Restart(r)
  <2>1. /\ rreading' \in [Readers -> Extent \cup {NoExtent, Torn}]
        /\ rindex' \in [Readers -> Nat]
        /\ roffsets' \in [Readers -> OffsetTable] /\ rnames' \in [Readers -> NameIndex]
    BY <1>8, EmptyType DEF ReadTorn, Restart, Forget, TypeOK
  <2> QED  BY <1>8, <2>1 DEF ReadTorn, Restart, Forget, TypeOK
<1> QED  BY <1>1, <1>2, <1>3, <1>5, <1>6, <1>7, <1>8 DEF ReaderStep

(* The writing process turns what is read torn when it writes over it.     *)
LEMMA IntactWriter == ASSUME TypeOK, ReadsIntact, WriterStep PROVE ReadsIntact'
<1> USE DEF file, memory, reader, history
<1>1. reader' = reader /\ \A r \in Readers : TableAt(r)' = TableAt(r)
  BY DEF WriterStep, OpenEmpty, OpenLoad, OpenTorn, Insert, InsertDone, EnterName,
         WriteMagic, WriteIndexOffset, WriteTable, WriteTableDone, Stop, TableAt
<1>2. ASSUME NEW e, BeginWrite(e) PROVE ReadsIntact'
  <2>1. disk' = {f \in disk : ~Overlap(e, f)}
        /\ \A r \in Readers : rreading'[r] = IF Overlap(e, rreading[r]) THEN Torn ELSE rreading[r]
    BY <1>2 DEF BeginWrite
  <2> QED  BY <1>1, <2>1 DEF ReadsIntact
<1>3. ASSUME disk \subseteq disk', rreading' = rreading PROVE ReadsIntact'
  BY <1>1, <1>3 DEF ReadsIntact
<1>4. CASE (\E d \in Digests : Insert(d)) \/ WriteTable
  BY <1>2, <1>4 DEF Insert, WriteTable
<1>5. CASE ~((\E d \in Digests : Insert(d)) \/ WriteTable)
  BY <1>3, <1>5
  DEF WriterStep, OpenEmpty, OpenLoad, OpenTorn, InsertDone, EnterName,
      WriteMagic, WriteIndexOffset, WriteTableDone, EndWrite, Stop
<1> QED  BY <1>4, <1>5

LEMMA OthersSame ==
  ASSUME TypeOK, NEW r \in Readers, ReaderStep(r), NEW q \in Readers, q # r
  PROVE  /\ rpc'[q] = rpc[q] /\ rreading'[q] = rreading[q] /\ rindex'[q] = rindex[q]
         /\ roffsets'[q] = roffsets[q] /\ rnames'[q] = rnames[q]
<1>1. /\ DOMAIN rpc = Readers /\ DOMAIN rreading = Readers /\ DOMAIN rindex = Readers
      /\ DOMAIN roffsets = Readers /\ DOMAIN rnames = Readers
  BY DEF TypeOK
<1>2. CASE LoadEmpty(r) \/ ReadHeader(r) \/ BeginRead(r)
  BY <1>1, <1>2 DEF LoadEmpty, ReadHeader, BeginRead, reader
<1>3. CASE ReadOffsets(r) \/ ReadNames(r) \/ ReadMulti(r)
  BY <1>1, <1>3 DEF ReadOffsets, ReadNames, ReadMulti, EndRead
<1>4. CASE ReadTorn(r) \/ Restart(r)
  BY <1>1, <1>4 DEF ReadTorn, Restart, Forget
<1> QED  BY <1>2, <1>3, <1>4 DEF ReaderStep

LEMMA IntactReader == ASSUME TypeOK, ReadsIntact, NEW r \in Readers, ReaderStep(r) PROVE ReadsIntact'
<1> USE DEF file, memory, reader, history
<1>1. disk' = disk
  BY DEF ReaderStep, LoadEmpty, ReadHeader, BeginRead, ReadOffsets, ReadNames, ReadMulti, ReadTorn, Restart, Forget
<1>2. DOMAIN rpc = Readers /\ DOMAIN rreading = Readers
  BY DEF TypeOK
<1>3. ASSUME NEW q \in Readers, q # r
      PROVE  /\ rpc'[q] = rpc[q] /\ rreading'[q] = rreading[q] /\ TableAt(q)' = TableAt(q)
  BY <1>3, OthersSame DEF TableAt
<1> DEFINE IntactAt(q) ==
             rreading'[q] \in {NoExtent, Torn}
               \/ /\ rpc'[q] \in Tables /\ rreading'[q] \in disk
                  /\ rreading'[q].part.kind = rpc'[q] /\ rreading'[q].at = TableAt(q)'
<1>4. ASSUME NEW q \in Readers, q # r PROVE IntactAt(q)
  BY <1>3, <1>4 DEF ReadsIntact
<1>5. IntactAt(r)
  <2>1. CASE LoadEmpty(r) \/ ReadHeader(r)
    BY <2>1 DEF LoadEmpty, ReadHeader, ReadsIntact, Tables
  <2>2. CASE BeginRead(r)
    <3>1. TableAt(r)' = TableAt(r) /\ rpc' = rpc /\ rpc[r] \in Tables
      BY <2>2 DEF BeginRead, TableAt
    <3>2. PICK e \in IF Found(r) = {} THEN {Torn} ELSE Found(r) : rreading'[r] = e
      BY <1>2, <2>2 DEF BeginRead
    <3>3. e = Torn \/ (e \in disk /\ e.part.kind = rpc[r] /\ e.at = TableAt(r))
      BY <3>2 DEF Found
    <3> QED  BY <3>1, <3>2, <3>3
  <2>3. CASE ReadOffsets(r) \/ ReadNames(r) \/ ReadMulti(r) \/ ReadTorn(r) \/ Restart(r)
    <3>1. rreading'[r] = NoExtent
      BY <1>2, <2>3 DEF ReadOffsets, ReadNames, ReadMulti, EndRead, ReadTorn, Restart, Forget
    <3> QED  BY <3>1
  <2> QED  BY <2>1, <2>2, <2>3 DEF ReaderStep
<1> QED  BY <1>1, <1>4, <1>5 DEF ReadsIntact

LEMMA IntactStep == TypeOK /\ ReadsIntact /\ [Next]_vars => ReadsIntact'
<1>1. ASSUME ReadsIntact, UNCHANGED vars PROVE ReadsIntact'
  <2>1. UNCHANGED <<rpc, rreading, rindex, roffsets, rnames, disk>>
    BY <1>1 DEF vars, reader, file
  <2>2. \A r \in Readers : TableAt(r)' = TableAt(r)
    BY <2>1 DEF TableAt
  <2> QED  BY <1>1, <2>1, <2>2 DEF ReadsIntact
<1> QED  BY <1>1, IntactWriter, IntactReader DEF Next

LEMMA TypeStep == TypeOK /\ ReadsIntact /\ [Next]_vars => TypeOK'
<1>1. TypeOK /\ UNCHANGED vars => TypeOK'
  BY DEF TypeOK, vars, file, memory, reader, history
<1> QED  BY <1>1, WriterTypeStep, ReaderTypeStep DEF Next

LEMMA IntactInit == Init => ReadsIntact
BY DEF Init, ReadsIntact

LEMMA TypeIntact == Spec => [](TypeOK /\ ReadsIntact)
BY TypeInit, TypeStep, IntactInit, IntactStep, PTL DEF Spec

(* Types, and that nothing but write_hdr writes into the header.           *)
THEOREM TypeCorrect == Spec => []TypeOK
BY TypeIntact, PTL

-----------------------------------------------------------------------------
(* Steps of the writing process.                                           *)

LEMMA InvTypes ==
  ASSUME TypeOK
  PROVE  /\ header_index \in Nat /\ index_offset \in Nat /\ index_offset >= Start
         /\ blob_offsets \in OffsetTable
         /\ \A e \in disk : e.part.kind = "offsets" => e.part.of \in OffsetTable
BY PartType DEF TypeOK

LEMMA WriterTypes == ASSUME IInv, WriterStep PROVE TypeOK'
BY WriterTypeStep DEF IInv

(* What is written at or above index_offset is no part of a sound table.   *)
LEMMA BeginSound ==
  ASSUME IInv, wpc # "closed", NEW e \in Extent, e.at >= index_offset, BeginWrite(e),
         header_index' = header_index, stored' = stored, sound' = sound
  PROVE  StoredSound' /\ DiskSound'
<1>1. e.at \in Nat /\ header_index <= e.at /\ header_index \in Nat
  BY InvTypes DEF IInv, WriterSound, Extent, Start
<1>2. disk' = {f \in disk : ~Overlap(e, f)} /\ touched'
  BY DEF BeginWrite
<1>3. ASSUME sound, NEW f \in disk', f.part.kind = "offsets" PROVE Sound(disk', f.part.of, header_index)
  <2>1. f \in disk /\ Sound(disk, f.part.of, header_index) /\ f.part.of \in OffsetTable
    BY <1>2, <1>3, InvTypes DEF IInv, DiskSound
  <2> QED  BY <1>1, <1>2, <2>1, SoundWrite
<1>4. ASSUME NEW c \in stored PROVE c.offsets \in OffsetTable /\ Sound(disk', c.offsets, header_index)
  <2>1. Sound(disk, c.offsets, header_index) /\ c.offsets \in OffsetTable
    BY DEF IInv, StoredSound
  <2> QED  BY <1>1, <1>2, <2>1, SoundWrite
<1> QED  BY <1>2, <1>3, <1>4 DEF DiskSound, StoredSound

(* Finishing a write only adds an extent.                                  *)
LEMMA EndSound ==
  ASSUME IInv, wpc # "closed", touched, EndWrite, touched' = touched,
         header_index' = header_index, sound' = sound,
         sound /\ writing.part.kind = "offsets" => Sound(disk', writing.part.of, header_index)
  PROVE  /\ DiskSound'
         /\ \A c \in stored : c.offsets \in OffsetTable /\ Sound(disk', c.offsets, header_index')
<1>1. disk' = disk \cup {writing}
  BY DEF EndWrite
<1>2. ASSUME sound, NEW f \in disk', f.part.kind = "offsets" PROVE Sound(disk', f.part.of, header_index)
  BY <1>1, <1>2, SoundMore DEF IInv, DiskSound
<1>3. ASSUME NEW c \in stored PROVE c.offsets \in OffsetTable /\ Sound(disk', c.offsets, header_index)
  BY <1>1, SoundMore DEF IInv, StoredSound
<1> QED  BY <1>2, <1>3 DEF DiskSound

LEMMA InsertSound ==
  ASSUME IInv, NEW d \in Digests, Insert(d)
  PROVE  IInv'
<1> DEFINE e == Blob(d, index_offset)
<1>1. e \in Extent /\ e.at = index_offset /\ index_offset \in Nat
  BY BlobType, InvTypes DEF IInv
<1>2. StoredSound' /\ DiskSound'
  <2>1. e.at >= index_offset
    BY <1>1
  <2> QED  BY <1>1, <2>1, BeginSound DEF Insert, history
<1>3. [blob_offsets' EXCEPT ![d] = 0] = blob_offsets
  BY InvTypes DEF IInv, Insert, OffsetTable
<1>4. ASSUME sound PROVE Sound(disk', blob_offsets, index_offset)
  <2>1. Sound(disk, blob_offsets, index_offset) /\ blob_offsets \in OffsetTable
    BY <1>4, InvTypes DEF IInv, WriterSound, Insert
  <2>2. disk' = {f \in disk : ~Overlap(e, f)} /\ index_offset <= e.at
    BY <1>1 DEF Insert, BeginWrite
  <2> HIDE DEF e
  <2> QED  BY <1>1, <2>1, <2>2, SoundWrite
<1>5. blob_offsets'[d] = index_offset' /\ writing' = Blob(d, index_offset') /\ touched'
  BY InvTypes DEF IInv, Insert, BeginWrite, OffsetTable
<1>6. WriterSound'
  BY <1>3, <1>4, <1>5 DEF IInv, WriterSound, Insert, Tables, history
<1>7. TypeOK'
  BY WriterTypes DEF WriterStep
<1> QED  BY <1>2, <1>6, <1>7 DEF IInv

LEMMA InsertDoneSound ==
  ASSUME IInv, InsertDone
  PROVE  IInv'
<1>1. PICK d \in Digests :
         /\ blob_offsets[d] = index_offset /\ writing = Blob(d, index_offset)
         /\ sound => Sound(disk, [blob_offsets EXCEPT ![d] = 0], index_offset)
  BY DEF IInv, WriterSound, InsertDone
<1>2. /\ writing.len = BlobLen[d] /\ BlobLen[d] \in Nat
      /\ index_offset \in Nat /\ header_index \in Nat /\ blob_offsets \in OffsetTable
  BY <1>1, BlobType, InvTypes DEF IInv
<1>3. disk' = disk \cup {writing} /\ index_offset' = index_offset + BlobLen[d]
      /\ blob_offsets' = blob_offsets /\ header_index' = header_index /\ writing' = NoExtent
  BY <1>2 DEF InsertDone, EndWrite
<1>4. touched /\ touched' = touched
  BY DEF IInv, InsertDone, WriterSound
<1>5. writing.part.kind # "offsets"
  BY <1>1 DEF Blob
<1>6. StoredSound' /\ DiskSound'
  BY <1>4, <1>5, EndSound DEF InsertDone, history, StoredSound
<1>7. ASSUME sound PROVE Sound(disk', blob_offsets, index_offset')
  <2> SUFFICES ASSUME NEW x \in Digests, blob_offsets[x] # 0
               PROVE  Blob(x, blob_offsets[x]) \in disk'
                      /\ blob_offsets[x] + BlobLen[x] <= index_offset'
    BY DEF Sound
  <2>1. CASE x = d
    BY <1>1, <1>2, <1>3, <2>1
  <2>2. CASE x # d
    <3>1. [blob_offsets EXCEPT ![d] = 0][x] = blob_offsets[x] /\ blob_offsets[x] \in Nat
      BY <1>2, <2>2 DEF OffsetTable
    <3>2. Blob(x, blob_offsets[x]) \in disk /\ blob_offsets[x] + BlobLen[x] <= index_offset
      BY <1>1, <1>7, <3>1 DEF Sound
    <3>3. BlobLen[x] \in Nat
      BY BlobFileConstants
    <3> QED  BY <1>2, <1>3, <3>1, <3>2, <3>3
  <2> QED  BY <2>1, <2>2
<1>8. WriterSound'
  <2>1. header_index <= index_offset
    BY DEF IInv, WriterSound, InsertDone
  <2>2. header_index' <= index_offset'
    BY <1>2, <1>3, <2>1
  <2> QED  BY <1>3, <1>7, <2>2 DEF WriterSound, InsertDone, Tables, history
<1>9. TypeOK'
  BY WriterTypes DEF WriterStep
<1> QED  BY <1>6, <1>8, <1>9 DEF IInv

LEMMA OpenLoadSound ==
  ASSUME IInv, OpenLoad
  PROVE  IInv'
<1>1. PICK e \in disk, f \in disk :
        /\ e.part.kind = "offsets"
        /\ blob_offsets' = e.part.of /\ name_index' = f.part.of
  BY DEF OpenLoad
<1>2. sound => Sound(disk, blob_offsets', header_index)
  BY <1>1 DEF IInv, DiskSound
<1>3. WriterSound'
  <2>1. header_index \in Nat
    BY InvTypes DEF IInv
  <2> QED  BY <1>2, <2>1 DEF OpenLoad, IInv, WriterSound, Tables, file, history
<1>4. StoredSound' /\ DiskSound'
  BY DEF OpenLoad, IInv, DiskSound, StoredSound, file, history
<1>5. TypeOK'
  BY WriterTypes DEF WriterStep
<1> QED  BY <1>3, <1>4, <1>5 DEF IInv

(* What a torn index is taken for is not sound, but stored contents stay.  *)
LEMMA OpenTornSound ==
  ASSUME IInv, OpenTorn
  PROVE  IInv'
<1>1. WriterSound'
  <2>1. header_index \in Nat
    BY InvTypes DEF IInv
  <2> QED  BY <2>1 DEF OpenTorn, IInv, WriterSound, Tables, file
<1>2. StoredSound' /\ DiskSound'
  BY DEF OpenTorn, IInv, DiskSound, StoredSound, file
<1>3. TypeOK'
  BY WriterTypes DEF WriterStep
<1> QED  BY <1>1, <1>2, <1>3 DEF IInv

LEMMA OpenEmptySound ==
  ASSUME IInv, OpenEmpty
  PROVE  IInv'
<1>1. header_index = 0 /\ index_offset' \in Nat
  BY DEF OpenEmpty, IInv, DiskSound, Start
<1>2. WriterSound'
  BY <1>1, SoundEmpty DEF OpenEmpty, IInv, WriterSound, Tables, file
<1>3. StoredSound' /\ DiskSound'
  BY DEF OpenEmpty, IInv, DiskSound, StoredSound, file, history
<1>4. TypeOK'
  BY WriterTypes DEF WriterStep
<1> QED  BY <1>2, <1>3, <1>4 DEF IInv

LEMMA HeaderSound ==
  ASSUME IInv, WriteMagic \/ WriteIndexOffset
  PROVE  IInv'
<1> USE DEF file, memory, history
<1>1. TypeOK'
  BY WriterTypes DEF WriterStep
<1>2. CASE WriteMagic
  <2>1. StoredSound' /\ DiskSound'
    BY <1>2 DEF WriteMagic, IInv, DiskSound, StoredSound
  <2>2. WriterSound'
    BY <1>2 DEF WriteMagic, IInv, WriterSound, Tables
  <2> QED  BY <1>1, <2>1, <2>2 DEF IInv
<1>3. CASE WriteIndexOffset
  <2>1. header_index \in Nat /\ index_offset \in Nat /\ header_index <= index_offset /\ touched
    BY <1>3, InvTypes DEF WriteIndexOffset, IInv, WriterSound
  <2>2. ASSUME sound, NEW e \in disk, e.part.kind = "offsets" PROVE Sound(disk, e.part.of, index_offset)
    BY <2>1, <2>2, SoundHigher, InvTypes DEF IInv, DiskSound
  <2>3. ASSUME NEW c \in stored PROVE c.offsets \in OffsetTable /\ Sound(disk, c.offsets, index_offset)
    BY <2>1, SoundHigher DEF IInv, StoredSound
  <2>4. StoredSound' /\ DiskSound'
    BY <1>3, <2>1, <2>2, <2>3 DEF WriteIndexOffset, DiskSound, StoredSound
  <2>5. WriterSound'
    BY <1>3, <2>1 DEF WriteIndexOffset, IInv, WriterSound, Tables
  <2> QED  BY <1>1, <2>4, <2>5 DEF IInv
<1> QED  BY <1>2, <1>3

LEMMA TableSound ==
  ASSUME IInv, WriteTable \/ WriteTableDone
  PROVE  IInv'
<1> USE DEF memory
<1>1. TypeOK'
  BY WriterTypes DEF WriterStep
<1>2. /\ wpc \in Tables /\ wpc \notin {"closed", "idle", "index", "insert"} /\ touched
      /\ header_index = index_offset /\ (sound => Sound(disk, blob_offsets, index_offset))
      /\ blob_offsets \in OffsetTable /\ index_offset \in Nat /\ sound' = sound
  BY InvTypes DEF WriteTable, WriteTableDone, IInv, WriterSound, Tables, history
<1>3. /\ Table[wpc] \in Extent
      /\ Table[wpc].at \in Nat /\ Table[wpc].at >= index_offset
      /\ Table[wpc].part.kind = "offsets" => Table[wpc].part.of = blob_offsets
  BY <1>2, TableType DEF IInv
<1>4. CASE WriteTable
  <2>1. StoredSound' /\ DiskSound'
    BY <1>2, <1>3, <1>4, BeginSound DEF WriteTable, history
  <2>2. sound => Sound(disk', blob_offsets, index_offset)
    <3>1. disk' = {f \in disk : ~Overlap(Table[wpc], f)}
      BY <1>4 DEF WriteTable, BeginWrite
    <3> QED  BY <1>2, <1>3, <3>1, SoundWrite
  <2>3. Table' = Table
    BY <1>4 DEF WriteTable, Table
  <2>4. WriterSound'
    BY <1>2, <1>4, <2>2, <2>3 DEF WriteTable, BeginWrite, IInv, WriterSound
  <2> QED  BY <1>1, <2>1, <2>4 DEF IInv
<1>5. CASE WriteTableDone
  <2>1. /\ writing = Table[wpc] /\ disk' = disk \cup {writing} /\ writing' = NoExtent
        /\ EndWrite /\ header_index' = header_index /\ touched' = touched
    BY <1>2, <1>5 DEF WriteTableDone, EndWrite, IInv, WriterSound
  <2>2. sound => Sound(disk', blob_offsets, index_offset)
    BY <1>2, <2>1, SoundMore
  <2>3. /\ DiskSound'
        /\ \A c \in stored : c.offsets \in OffsetTable /\ Sound(disk', c.offsets, header_index')
    <3>1. sound /\ writing.part.kind = "offsets" => Sound(disk', writing.part.of, header_index)
      BY <1>2, <1>3, <2>1, <2>2
    <3> QED  BY <1>2, <2>1, <3>1, EndSound
  <2>4. StoredSound'
    <3>1. stored' = stored \/ (sound /\ stored' = stored \cup {[offsets |-> blob_offsets, names |-> name_index]})
      BY <1>5 DEF WriteTableDone
    <3>2. SUFFICES ASSUME NEW c \in stored'
                   PROVE  c.offsets \in OffsetTable /\ Sound(disk', c.offsets, header_index')
      BY DEF StoredSound
    <3>3. CASE c \in stored
      BY <2>3, <3>3
    <3>4. CASE c \notin stored
      <4>1. sound /\ c.offsets = blob_offsets
        BY <3>1, <3>2, <3>4
      <4>2. header_index' = index_offset
        BY <1>2, <2>1
      <4> QED  BY <1>2, <2>2, <4>1, <4>2
    <3> QED  BY <3>3, <3>4
  <2>5. wpc' \in {"names", "multi", "idle"}
    BY <1>2, <1>5 DEF WriteTableDone, After, Tables
  <2>6. WriterSound'
    BY <1>2, <1>5, <2>1, <2>2, <2>5 DEF WriteTableDone, WriterSound, Tables
  <2> QED  BY <1>1, <2>3, <2>4, <2>6 DEF IInv
<1> QED  BY <1>4, <1>5

LEMMA OtherSound ==
  ASSUME IInv, Stop \/ \E n \in Names, d \in Digests : EnterName(n, d)
  PROVE  IInv'
<1>1. TypeOK'
  BY WriterTypes DEF WriterStep
<1>2. StoredSound' /\ DiskSound'
  BY DEF Stop, EnterName, IInv, DiskSound, StoredSound, file, history
<1>3. WriterSound'
  BY DEF Stop, EnterName, IInv, WriterSound, Tables, file, history
<1> QED  BY <1>1, <1>2, <1>3 DEF IInv

-----------------------------------------------------------------------------
(* Steps of a reader change nothing but the reader.                        *)

LEMMA ReaderSound ==
  ASSUME IInv, ReadsIntact, NEW r \in Readers, ReaderStep(r)
  PROVE  IInv'
<1>1. TypeOK'
  BY ReaderTypeStep DEF IInv
<1>2. /\ UNCHANGED <<file, wpc, writing, memory, history>>
      /\ Table' = Table
  BY DEF ReaderStep, LoadEmpty, ReadHeader, BeginRead, ReadOffsets, ReadNames, ReadMulti,
         ReadTorn, Restart, Forget, Table, memory
<1>3. StoredSound' /\ DiskSound' /\ WriterSound'
  BY <1>2 DEF IInv, DiskSound, StoredSound, WriterSound, file, memory, history
<1> QED  BY <1>1, <1>3 DEF IInv

-----------------------------------------------------------------------------

LEMMA IInvInit == Init => IInv
<1> SUFFICES ASSUME Init PROVE IInv
  OBVIOUS
<1>1. TypeOK
  BY TypeInit
<1>2. StoredSound
  BY SoundEmpty, EmptyType DEF Init, StoredSound
<1>3. DiskSound /\ WriterSound
  BY SoundEmpty DEF Init, DiskSound, WriterSound, Tables
<1> QED  BY <1>1, <1>2, <1>3 DEF IInv

LEMMA IInvStep == IInv /\ ReadsIntact /\ [Next]_vars => IInv'
<1>1. ASSUME IInv, UNCHANGED vars PROVE IInv'
  <2>1. TypeOK'
    BY <1>1 DEF IInv, TypeOK, vars, file, memory, reader, history
  <2>2. Table' = Table
    BY <1>1 DEF vars, memory, Table
  <2> QED  BY <1>1, <2>1, <2>2
           DEF IInv, DiskSound, StoredSound, WriterSound, vars, file, memory, history
<1> QED
  BY <1>1, InsertSound, InsertDoneSound, OpenLoadSound, OpenTornSound, OpenEmptySound,
     HeaderSound, TableSound, OtherSound, ReaderSound
  DEF Next, WriterStep

LEMMA IInvCorrect == Spec => [](IInv /\ ReadsIntact)
<1>1. IInv => TypeOK
  BY DEF IInv
<1> QED  BY <1>1, IInvInit, IInvStep, IntactInit, IntactStep, PTL DEF Spec

(* A server thread that has loaded what a compressor has stored can serve  *)
(* every blob it knows for as long as it lives, whatever that compressor   *)
(* or a later one does to the file, and whatever it takes the file for.    *)
THEOREM LoadedStaysReadable == Spec => []SnapshotReadable
<1>1. IInv => SnapshotReadable
  BY DEF IInv, StoredSound, SnapshotReadable, Sound, Listed
<1> QED  BY <1>1, IInvCorrect, PTL

(* The compressor can read back what it has inserted, at any time, unless  *)
(* it or one before it has gone on from a torn index.                      *)
THEOREM InsertedCanBeRead == Spec => []WriterReadsBack
<1>1. ASSUME IInv, sound, wpc # "closed", NEW x \in Digests, blob_offsets[x] # 0
      PROVE  Blob(x, blob_offsets[x]) = writing \/ Blob(x, blob_offsets[x]) \in disk
  <2>1. CASE wpc # "insert"
    BY <1>1, <2>1 DEF IInv, WriterSound, Sound
  <2>2. CASE wpc = "insert"
    <3>1. PICK d \in Digests :
            /\ blob_offsets[d] = index_offset /\ writing = Blob(d, index_offset)
            /\ Sound(disk, [blob_offsets EXCEPT ![d] = 0], index_offset)
      BY <1>1, <2>2 DEF IInv, WriterSound
    <3>2. x # d => [blob_offsets EXCEPT ![d] = 0][x] = blob_offsets[x]
      BY <1>1, InvTypes DEF IInv, OffsetTable
    <3> QED  BY <1>1, <3>1, <3>2 DEF Sound
  <2> QED  BY <2>1, <2>2
<1>2. IInv => WriterReadsBack
  BY <1>1 DEF WriterReadsBack, Listed
<1> QED  BY <1>2, IInvCorrect, PTL

-----------------------------------------------------------------------------
(* Generations.                                                            *)

Generation == [at : Nat, offsets : OffsetTable, names : NameIndex]

Older(g, h) ==
  /\ g.at < h.at \/ (g.at = h.at /\ g.offsets = h.offsets)
  /\ \A d \in Digests : g.offsets[d] # 0 => h.offsets[d] = g.offsets[d]
  /\ \A n \in Names : g.names[n] # NoDigest => h.names[n] = g.names[n]

OffsetsOf(g) == Offsets(g.offsets, g.at)
NamesOf(g) == NameTable(g.names, NamesAt(g.at, g.offsets))
MultiOf(g) == MultiTable(MultiAt(g.at, g.offsets, g.names))
ContentOf(g) == [offsets |-> g.offsets, names |-> g.names]

(* The generation the writing process would store now.                     *)
Base == IF wpc = "insert" THEN index_offset + writing.len ELSE index_offset
Current == [at |-> Base, offsets |-> blob_offsets, names |-> name_index]

(* The tables it has written, and where what it writes next begins.        *)
Mine ==
  CASE wpc = "names" -> {OffsetsOf(Current)}
    [] wpc = "multi" -> {OffsetsOf(Current), NamesOf(Current)}
    [] OTHER -> {}

Limit ==
  CASE wpc = "names" -> NamesOf(Current).at
    [] wpc = "multi" -> MultiOf(Current).at
    [] OTHER -> Base

-----------------------------------------------------------------------------
(* The invariant; K are the generations of which a table has been written. *)

Past(K) ==
  /\ K \subseteq Generation
  /\ \A g, h \in K : Older(g, h) \/ Older(h, g)
  /\ wpc # "closed" => \A g \in K : Older(g, Current)
  /\ \A g \in K : g.at <= header_index
  /\ ~magic => K = {}
  /\ last = Empty \/ \E g \in K : ContentOf(g) = last

OnDisk(K) ==
  \A e \in disk :
    /\ e.part.kind = "offsets" => \E g \in K : e = OffsetsOf(g)
    /\ e.part.kind = "names" => \E g \in K : e = NamesOf(g)
    /\ e.part.kind = "multi" =>
         \E g \in K : /\ e = MultiOf(g) /\ ContentOf(g) \in stored
                      /\ \E h \in K : ContentOf(h) = last /\ Older(g, h)

(* A generation that could be loaded is the newest.                        *)
Newest(K) == \A g \in K : NamesOf(g) \in disk /\ MultiOf(g) \in disk => \A h \in K : Older(h, g)

(* Tables that are not overwritten yet lie where they will be.             *)
Ahead ==
  /\ \A e \in disk : e.part.kind # "blob" =>
       /\ e.at >= header_index
       /\ wpc # "closed" /\ e \notin Mine => e.at >= Limit
  /\ Mine \subseteq disk
  /\ wpc \in Tables /\ writing # NoExtent => \A f \in disk : ~Overlap(writing, f)
  /\ wpc \in {"index"} \cup Tables => magic

Loading(K) ==
  \A r \in Readers :
    /\ rpc[r] = "names" => \E g \in K : g.at = rindex[r] /\ g.offsets = roffsets[r]
    /\ rpc[r] = "multi" =>
         [at |-> rindex[r], offsets |-> roffsets[r], names |-> rnames[r]] \in K

Generations(K) == Past(K) /\ OnDisk(K) /\ Newest(K) /\ Loading(K)

SInv == Ahead /\ \E K : Generations(K)

(* A load is as good as done when it has begun to read the last table.     *)
Loaded ==
  \A r \in Readers :
    rpc[r] = "ready" \/ (rpc[r] = "multi" /\ rreading[r] \notin {NoExtent, Torn}) =>
      [offsets |-> roffsets[r], names |-> rnames[r]] \in stored

LInv == Empty \in stored /\ Loaded /\ (sound => SInv)

-----------------------------------------------------------------------------
(* Lengths.                                                                *)

LEMMA Times ==
  ASSUME NEW k \in Nat, k > 0, NEW a \in Nat, NEW b \in Nat
  PROVE  /\ a <= b => k * a <= k * b
         /\ a < b => k * a < k * b
<1>1. \A c \in Nat : k * c \in Nat /\ (c > 0 => k * c > 0)
  OBVIOUS
<1>2. \A c \in Nat : k * (a + c) = k * a + k * c
  OBVIOUS
<1>3. a <= b => b - a \in Nat /\ a + (b - a) = b
  OBVIOUS
<1>4. k * a \in Nat
  BY <1>1
<1>5. ASSUME a <= b PROVE k * b = k * a + k * (b - a)
  BY <1>2, <1>3, <1>5
<1>6. ASSUME a <= b PROVE k * a <= k * b
  BY <1>1, <1>3, <1>4, <1>5, <1>6
<1>7. ASSUME a < b PROVE k * a < k * b
  <2>1. b - a \in Nat /\ b - a > 0
    BY <1>7
  <2>2. k * (b - a) \in Nat /\ k * (b - a) > 0
    BY <1>1, <2>1
  <2> QED  BY <1>4, <1>5, <1>7, <2>2
<1> QED  BY <1>6, <1>7

NamesIn(idx) == {n \in Names : idx[n] # NoDigest}

LEMMA NamesLenOf ==
  ASSUME NEW idx
  PROVE  /\ IsFiniteSet(NamesIn(idx)) /\ Cardinality(NamesIn(idx)) \in Nat
         /\ NamesLen(idx) = 8 + (8 + NameLen + 32) * Cardinality(NamesIn(idx))
<1>1. NamesIn(idx) \in SUBSET Names
  BY DEF NamesIn
<1>2. IsFiniteSet(NamesIn(idx))
  BY <1>1, BlobFileConstants, FS_Subset
<1> QED  BY <1>2, FS_CardinalityType DEF NamesLen, NamesIn

LEMMA OlderLengths ==
  ASSUME NEW g \in Generation, NEW h \in Generation, Older(g, h)
  PROVE  /\ OffsetsLen(g.offsets) <= OffsetsLen(h.offsets)
         /\ NamesLen(g.names) <= NamesLen(h.names)
         /\ NamesLen(g.names) = NamesLen(h.names) => g.names = h.names
<1>1. OffsetsLen(g.offsets) <= OffsetsLen(h.offsets)
  <2>1. Listed(g.offsets) \in SUBSET Listed(h.offsets) /\ Listed(h.offsets) \in SUBSET Digests
    BY DEF Older, Listed
  <2>2. IsFiniteSet(Listed(h.offsets))
    BY <2>1, BlobFileConstants, FS_Subset
  <2>3. /\ IsFiniteSet(Listed(g.offsets))
        /\ Cardinality(Listed(g.offsets)) <= Cardinality(Listed(h.offsets))
    BY <2>1, <2>2, FS_Subset
  <2>4. Cardinality(Listed(g.offsets)) \in Nat /\ Cardinality(Listed(h.offsets)) \in Nat
    BY <2>2, <2>3, FS_CardinalityType
  <2> QED  BY <2>3, <2>4 DEF OffsetsLen
<1> DEFINE k == 8 + NameLen + 32
           a == Cardinality(NamesIn(g.names))
           b == Cardinality(NamesIn(h.names))
<1>2. NamesIn(g.names) \in SUBSET NamesIn(h.names)
  BY DEF Older, NamesIn
<1>3. /\ a \in Nat /\ b \in Nat /\ k \in Nat /\ k > 0
      /\ NamesLen(g.names) = 8 + k * a /\ NamesLen(h.names) = 8 + k * b
  BY NamesLenOf, BlobFileConstants
<1>4. a <= b /\ (a = b => NamesIn(g.names) = NamesIn(h.names))
  BY <1>2, NamesLenOf, FS_Subset
<1> HIDE DEF a, b, k
<1>5. /\ a <= b => k * a <= k * b
      /\ a < b => k * a < k * b
  BY <1>3, Times
<1>6. k * a \in Int /\ k * b \in Int
  BY <1>3
<1>7. NamesLen(g.names) <= NamesLen(h.names)
  BY <1>3, <1>4, <1>5, <1>6
<1>8. ASSUME NamesLen(g.names) = NamesLen(h.names) PROVE g.names = h.names
  <2>1. ~(k * a < k * b)
    BY <1>3, <1>6, <1>8
  <2>2. a = b
    BY <1>3, <1>4, <1>5, <2>1
  <2>3. NamesIn(g.names) = NamesIn(h.names)
    BY <1>4, <2>2 DEF a, b
  <2>4. \A n \in Names : g.names[n] = h.names[n]
    BY <2>3 DEF Older, NamesIn
  <2>5. g.names \in [Names -> Digests \cup {NoDigest}] /\ h.names \in [Names -> Digests \cup {NoDigest}]
    BY DEF Generation, NameIndex
  <2> QED  BY <2>4, <2>5
<1> QED  BY <1>1, <1>7, <1>8

LEMMA GenerationType ==
  ASSUME NEW g \in Generation
  PROVE  /\ g.at \in Nat /\ g.offsets \in OffsetTable /\ g.names \in NameIndex
         /\ OffsetsLen(g.offsets) \in Nat /\ NamesLen(g.names) \in Nat
         /\ OffsetsLen(g.offsets) > 0 /\ NamesLen(g.names) > 0
         /\ OffsetsOf(g).at = g.at /\ OffsetsOf(g).len = OffsetsLen(g.offsets)
         /\ NamesOf(g).at = g.at + OffsetsLen(g.offsets) /\ NamesOf(g).len = NamesLen(g.names)
         /\ MultiOf(g).at = g.at + OffsetsLen(g.offsets) + NamesLen(g.names)
         /\ MultiOf(g).len = 8
         /\ g = [at |-> g.at, offsets |-> g.offsets, names |-> g.names]
<1>1. g.at \in Nat /\ g.offsets \in OffsetTable /\ g.names \in NameIndex
      /\ g = [at |-> g.at, offsets |-> g.offsets, names |-> g.names]
  BY DEF Generation
<1>2. OffsetsLen(g.offsets) \in Nat /\ NamesLen(g.names) \in Nat
  BY LengthsType
<1>3. OffsetsLen(g.offsets) > 0
  <2>1. Cardinality(Listed(g.offsets)) \in Nat
    <3>1. Listed(g.offsets) \in SUBSET Digests
      BY DEF Listed
    <3> QED  BY <3>1, BlobFileConstants, FS_Subset, FS_CardinalityType
  <2> QED  BY <2>1 DEF OffsetsLen
<1>4. NamesLen(g.names) > 0
  <2> DEFINE k == 8 + NameLen + 32
             c == Cardinality(NamesIn(g.names))
  <2>1. k \in Nat /\ c \in Nat /\ NamesLen(g.names) = 8 + k * c
    BY NamesLenOf, BlobFileConstants
  <2> HIDE DEF k, c
  <2>2. k * c \in Nat
    BY <2>1
  <2> QED  BY <2>1, <2>2
<1>5. MultiOf(g).at = g.at + OffsetsLen(g.offsets) + NamesLen(g.names)
  BY <1>1, <1>2 DEF MultiOf, MultiTable, MultiAt, NamesAt
<1> QED
  BY <1>1, <1>2, <1>3, <1>4, <1>5 DEF OffsetsOf, Offsets, NamesOf, NameTable, NamesAt, MultiOf, MultiTable, MultiLen

(* Tables of two generations lie in the same place only if they belong     *)
(* together.                                                               *)
LEMMA SamePlace ==
  ASSUME NEW g \in Generation, NEW h \in Generation, Older(g, h) \/ Older(h, g)
  PROVE  /\ NamesOf(g).at = NamesOf(h).at => g.at = h.at /\ g.offsets = h.offsets
         /\ MultiOf(g).at = MultiOf(h).at => g = h
<1>1. ASSUME NEW x \in Generation, NEW y \in Generation, Older(x, y)
      PROVE  /\ NamesOf(x).at = NamesOf(y).at => x.at = y.at /\ x.offsets = y.offsets
             /\ MultiOf(x).at = MultiOf(y).at => x = y
  <2>1. /\ OffsetsLen(x.offsets) <= OffsetsLen(y.offsets)
        /\ NamesLen(x.names) <= NamesLen(y.names)
        /\ NamesLen(x.names) = NamesLen(y.names) => x.names = y.names
    BY <1>1, OlderLengths
  <2>2. x.at < y.at \/ (x.at = y.at /\ x.offsets = y.offsets)
    BY <1>1 DEF Older
  <2>3. NamesOf(x).at = NamesOf(y).at => x.at = y.at
    BY <2>1, <2>2, GenerationType
  <2>4. MultiOf(x).at = MultiOf(y).at => x.at = y.at /\ NamesLen(x.names) = NamesLen(y.names)
    BY <2>1, <2>2, GenerationType
  <2>5. x = [at |-> x.at, offsets |-> x.offsets, names |-> x.names]
        /\ y = [at |-> y.at, offsets |-> y.offsets, names |-> y.names]
    BY GenerationType
  <2>6. x.at = y.at => x.offsets = y.offsets
    BY <2>2, GenerationType
  <2> QED  BY <2>1, <2>3, <2>4, <2>5, <2>6
<1> QED  BY <1>1

LEMMA Beyond ==
  ASSUME NEW e, NEW f, e.at \in Nat, e.len \in Nat, f.at \in Nat, f.len \in Nat,
         e.at <= f.at, f.len > 0, ~Overlap(e, f)
  PROVE  e.at + e.len <= f.at
BY DEF Overlap

LEMMA Before ==
  ASSUME NEW e, NEW f, e.at \in Nat, e.len \in Nat, f.at \in Nat, f.len \in Nat,
         e.at + e.len <= f.at
  PROVE  ~Overlap(f, e)
BY DEF Overlap

LEMMA OlderSelf == \A g : Older(g, g)
BY DEF Older

LEMMA OlderMore ==
  ASSUME NEW g \in Generation, NEW h \in Generation, NEW more \in Generation,
         Older(g, h), Older(h, more)
  PROVE  Older(g, more)
<1>1. g.at \in Nat /\ h.at \in Nat /\ more.at \in Nat
  BY GenerationType
<1>2. g.at < more.at \/ (g.at = more.at /\ g.offsets = more.offsets)
  BY <1>1 DEF Older
<1>3. \A d \in Digests : g.offsets[d] # 0 => more.offsets[d] = g.offsets[d]
  BY DEF Older
<1>4. \A n \in Names : g.names[n] # NoDigest => more.names[n] = g.names[n]
  <2> SUFFICES ASSUME NEW n \in Names, g.names[n] # NoDigest PROVE more.names[n] = g.names[n]
    OBVIOUS
  <2>1. h.names[n] = g.names[n]
    BY DEF Older
  <2> QED  BY <2>1 DEF Older
<1> QED  BY <1>2, <1>3, <1>4 DEF Older

LEMMA Kinds ==
  /\ \A g : /\ OffsetsOf(g).part = [kind |-> "offsets", of |-> g.offsets]
            /\ NamesOf(g).part = [kind |-> "names", of |-> g.names]
            /\ MultiOf(g).part.kind = "multi"
  /\ \A e \in Extent : e.part.kind \in {"blob", "offsets", "names", "multi"}
BY DEF OffsetsOf, NamesOf, MultiOf, Offsets, NameTable, MultiTable, Extent, Part

LEMMA InsertWrites ==
  ASSUME IInv, wpc = "insert"
  PROVE  /\ \E d \in Digests : writing = Blob(d, index_offset)
         /\ writing.at = index_offset /\ writing.len \in Nat /\ writing.len > 0
         /\ writing.part.kind = "blob"
<1>1. PICK d \in Digests : writing = Blob(d, index_offset)
  BY DEF IInv, WriterSound
<1>2. BlobLen[d] \in Nat /\ BlobLen[d] > 0
  BY BlobFileConstants
<1> QED  BY <1>1, <1>2 DEF Blob

LEMMA CurrentType ==
  ASSUME IInv
  PROVE  /\ Current \in Generation
         /\ Current.at = Base /\ Current.offsets = blob_offsets /\ Current.names = name_index
         /\ Base \in Nat /\ Base >= index_offset /\ index_offset \in Nat
<1>1. index_offset \in Nat /\ blob_offsets \in OffsetTable /\ name_index \in NameIndex
  BY DEF IInv, TypeOK
<1>2. Base \in Nat /\ Base >= index_offset
  BY <1>1, InsertWrites DEF Base
<1> QED  BY <1>1, <1>2 DEF Current, Generation

LEMMA CurrentTables ==
  ASSUME IInv, wpc \in Tables
  PROVE  /\ Current.at = index_offset /\ header_index = index_offset /\ touched
         /\ Table = [offsets |-> OffsetsOf(Current), names |-> NamesOf(Current), multi |-> MultiOf(Current)]
         /\ Table[wpc].at = Limit /\ writing \in {NoExtent, Table[wpc]}
<1>1. Base = index_offset /\ header_index = index_offset /\ touched /\ writing \in {NoExtent, Table[wpc]}
  BY DEF Base, Tables, IInv, WriterSound
<1>2. Current.at = index_offset /\ Current.offsets = blob_offsets /\ Current.names = name_index
  BY <1>1 DEF Current
<1>3. Table = [offsets |-> OffsetsOf(Current), names |-> NamesOf(Current), multi |-> MultiOf(Current)]
  BY <1>2 DEF Table, OffsetsOf, NamesOf, MultiOf
<1>4. OffsetsOf(Current).at = index_offset
  BY <1>2 DEF OffsetsOf, Offsets
<1>5. Table[wpc].at = Limit
  BY <1>1, <1>3, <1>4 DEF Limit, Tables
<1> QED  BY <1>1, <1>2, <1>3, <1>5

LEMMA TableExtents ==
  ASSUME IInv, NEW K, Past(K), OnDisk(K), NEW e \in disk, e.part.kind # "blob"
  PROVE  e.at \in Nat /\ e.len \in Nat /\ e.len > 0
<1>1. e.part.kind \in {"offsets", "names", "multi"}
  BY Kinds DEF IInv, TypeOK
<1>2. \E g \in K : e = OffsetsOf(g) \/ e = NamesOf(g) \/ e = MultiOf(g)
  BY <1>1 DEF OnDisk
<1>3. PICK g \in Generation : e = OffsetsOf(g) \/ e = NamesOf(g) \/ e = MultiOf(g)
  BY <1>2 DEF Past
<1>4. g.at \in Nat /\ OffsetsLen(g.offsets) \in Nat /\ NamesLen(g.names) \in Nat
  BY GenerationType
<1>5. CASE e = OffsetsOf(g)  BY <1>4, <1>5, GenerationType
<1>6. CASE e = NamesOf(g)  BY <1>4, <1>6, GenerationType
<1>7. CASE e = MultiOf(g)  BY <1>4, <1>7, GenerationType
<1> QED  BY <1>3, <1>5, <1>6, <1>7

(* As long as no table is completed.                                       *)
LEMMA NoNewTable ==
  ASSUME NEW K, OnDisk(K), Newest(K), UNCHANGED history,
         \A e \in disk' : e.part.kind # "blob" => e \in disk
  PROVE  OnDisk(K)' /\ Newest(K)'
<1>1. OnDisk(K)'
  BY DEF OnDisk, history
<1>2. ASSUME NEW g \in K, (NamesOf(g) \in disk)' /\ (MultiOf(g) \in disk)'
      PROVE  NamesOf(g) \in disk /\ MultiOf(g) \in disk
  <2>1. NamesOf(g) \in disk' /\ MultiOf(g) \in disk'
    BY <1>2 DEF NamesOf, MultiOf
  <2>2. NamesOf(g).part = [kind |-> "names", of |-> g.names] /\ MultiOf(g).part.kind = "multi"
    BY Kinds
  <2>3. NamesOf(g).part.kind # "blob" /\ MultiOf(g).part.kind # "blob"
    BY <2>2
  <2> QED  BY <2>1, <2>3
<1>3. Newest(K)'
  BY <1>2 DEF Newest, Older
<1> QED  BY <1>1, <1>3

LEMMA LoadingSame ==
  ASSUME NEW K, Loading(K), NEW L, K \subseteq L, UNCHANGED reader
  PROVE  Loading(L)'
BY DEF Loading, reader

-----------------------------------------------------------------------------
(* Steps of the writing process.                                           *)

LEMMA OpenEmptyLoads ==
  ASSUME IInv, SInv, OpenEmpty
  PROVE  SInv'
<1>1. PICK K : Generations(K)
  BY DEF SInv
<1>2. disk = {} /\ K = {} /\ header_index = 0
  BY <1>1 DEF OpenEmpty, IInv, DiskSound, Generations, Past
<1>3. wpc' = "idle" /\ UNCHANGED <<file, reader, history>>
  BY DEF OpenEmpty
<1>4. Past(K)'
  BY <1>1, <1>2, <1>3 DEF Generations, Past, history, file
<1>5. OnDisk(K)' /\ Newest(K)' /\ Loading(K)'
  BY <1>1, <1>2, <1>3, NoNewTable, LoadingSame DEF Generations, file, history
<1>6. Ahead'
  BY <1>2, <1>3 DEF Ahead, Mine, Tables, file
<1> QED  BY <1>3, <1>4, <1>5, <1>6 DEF SInv, Generations, history

(* The tables that load are those of one generation, and the newest.       *)
LEMMA LoadsGeneration ==
  ASSUME IInv, NEW K, Generations(K), NEW e \in disk, NEW f \in disk,
         e.part.kind = "offsets", f.part.kind = "names", Loads(e.part.of, f.part.of)
  PROVE  \E g \in K : /\ g = [at |-> header_index, offsets |-> e.part.of, names |-> f.part.of]
                      /\ \A h \in K : Older(h, g)
<1> DEFINE tbl == e.part.of
           idx == f.part.of
<1>1. /\ Offsets(tbl, header_index) \in disk
      /\ NameTable(idx, NamesAt(header_index, tbl)) \in disk
      /\ MultiTable(MultiAt(header_index, tbl, idx)) \in disk
  BY DEF Loads
<1>2. PICK g \in K : Offsets(tbl, header_index) = OffsetsOf(g)
  BY <1>1 DEF Generations, OnDisk, Offsets
<1>3. PICK n \in K : NameTable(idx, NamesAt(header_index, tbl)) = NamesOf(n)
  BY <1>1 DEF Generations, OnDisk, NameTable
<1>4. g.at = header_index /\ g.offsets = tbl
  BY <1>2 DEF OffsetsOf, Offsets
<1>5. n.names = idx /\ NamesOf(n).at = NamesOf(g).at
  BY <1>3, <1>4 DEF NamesOf, NameTable
<1>6. g \in Generation /\ n \in Generation /\ (Older(g, n) \/ Older(n, g))
  BY DEF Generations, Past
<1>7. n.at = header_index /\ n.offsets = tbl
  BY <1>4, <1>5, <1>6, SamePlace
<1>8. n = [at |-> header_index, offsets |-> tbl, names |-> idx]
  BY <1>5, <1>6, <1>7, GenerationType
<1>9. NamesOf(n) \in disk /\ MultiOf(n) \in disk
  BY <1>1, <1>3, <1>5, <1>7 DEF MultiOf
<1>10. \A h \in K : Older(h, n)
  BY <1>9 DEF Generations, Newest
<1> QED  BY <1>8, <1>10

LEMMA OpenLoadLoads ==
  ASSUME IInv, SInv, OpenLoad
  PROVE  SInv'
<1>1. PICK K : Generations(K)
  BY DEF SInv
<1>2. PICK e \in disk, f \in disk :
        /\ e.part.kind = "offsets" /\ f.part.kind = "names"
        /\ Loads(e.part.of, f.part.of)
        /\ blob_offsets' = e.part.of /\ name_index' = f.part.of
  BY DEF OpenLoad
<1>3. wpc' = "idle" /\ index_offset' = header_index /\ UNCHANGED <<file, reader, history>>
  BY DEF OpenLoad
<1>4. Base' = header_index /\ Current' = [at |-> header_index, offsets |-> e.part.of, names |-> f.part.of]
  BY <1>2, <1>3 DEF Base, Current
<1>5. \A h \in K : Older(h, Current')
  BY <1>1, <1>2, <1>4, LoadsGeneration
<1>6. Past(K)'
  BY <1>1, <1>3, <1>5 DEF Generations, Past, history, file
<1>7. OnDisk(K)' /\ Newest(K)' /\ Loading(K)'
  BY <1>1, <1>3, NoNewTable, LoadingSame DEF Generations, file, history
<1>8. Ahead'
  BY <1>3, <1>4 DEF SInv, Ahead, Mine, Limit, Tables, file
<1> QED  BY <1>3, <1>6, <1>7, <1>8 DEF SInv, Generations, history

LEMMA InsertLoads ==
  ASSUME IInv, SInv, IInv', NEW d \in Digests, Insert(d)
  PROVE  SInv'
<1>1. PICK K : Generations(K)
  BY DEF SInv
<1> DEFINE e == Blob(d, index_offset)
<1>2. /\ wpc = "idle" /\ wpc' = "insert" /\ blob_offsets[d] = 0
      /\ blob_offsets' = [blob_offsets EXCEPT ![d] = index_offset]
      /\ touched' /\ disk' = {x \in disk : ~Overlap(e, x)} /\ writing' = e
      /\ UNCHANGED <<magic, header_index, name_index, index_offset, reader, history>>
  BY DEF Insert, BeginWrite
<1>3. /\ e.at = index_offset /\ e.len = BlobLen[d] /\ BlobLen[d] \in Nat /\ BlobLen[d] > 0
      /\ index_offset \in Nat /\ blob_offsets \in OffsetTable
  BY BlobFileConstants, CurrentType DEF Blob, IInv, TypeOK
<1> HIDE DEF e
<1>4. Base = index_offset /\ Base' = index_offset + BlobLen[d]
  BY <1>2, <1>3 DEF Base
<1>5. Current \in Generation /\ Current' \in Generation
  BY <1>3, <1>4, CurrentType DEF Current, Generation, IInv, TypeOK
<1>6. Older(Current, Current')
  <2>1. Base < Base'
    BY <1>3, <1>4
  <2>2. \A x \in Digests : blob_offsets[x] # 0 => blob_offsets'[x] = blob_offsets[x]
    BY <1>2, <1>3 DEF OffsetTable
  <2> QED  BY <1>2, <2>1, <2>2 DEF Current, Older
<1>7. Past(K)'
  <2>1. \A g \in K : Older(g, Current')
    BY <1>1, <1>2, <1>5, <1>6, OlderMore DEF Generations, Past
  <2> QED  BY <1>1, <1>2, <2>1 DEF Generations, Past, history
<1>8. OnDisk(K)' /\ Newest(K)' /\ Loading(K)'
  BY <1>1, <1>2, NoNewTable, LoadingSame DEF Generations, history
<1>9. Ahead'
  <2>1. ASSUME NEW x \in disk', x.part.kind # "blob" PROVE x.at >= header_index /\ x.at >= Base'
    <3>1. x \in disk /\ ~Overlap(e, x)
      BY <1>2
    <3>2. x.at >= header_index /\ x.at >= index_offset
      BY <1>2, <1>4, <2>1, <3>1 DEF SInv, Ahead, Mine, Limit
    <3>3. x.at \in Nat /\ x.len \in Nat /\ x.len > 0
      BY <1>1, <2>1, <3>1, TableExtents DEF Generations
    <3>4. e.at + e.len <= x.at
      BY <1>3, <3>1, <3>2, <3>3, Beyond
    <3> QED  BY <1>3, <1>4, <3>2, <3>3, <3>4
  <2> QED  BY <1>2, <2>1 DEF Ahead, Mine, Limit, Tables
<1> QED  BY <1>2, <1>7, <1>8, <1>9 DEF SInv, Generations, history

LEMMA InsertDoneLoads ==
  ASSUME IInv, SInv, InsertDone
  PROVE  SInv'
<1>1. PICK K : Generations(K)
  BY DEF SInv
<1>2. /\ wpc = "insert" /\ wpc' = "idle" /\ index_offset' = index_offset + writing.len
      /\ disk' = disk \cup {writing}
      /\ UNCHANGED <<touched, magic, header_index, blob_offsets, name_index, reader, history>>
  BY DEF InsertDone, EndWrite
<1>3. writing.part.kind = "blob"
  BY <1>2, InsertWrites
<1>4. Base' = Base /\ Current' = Current
  BY <1>2 DEF Base, Current
<1>5. Past(K)'
  BY <1>1, <1>2, <1>4 DEF Generations, Past, history
<1>6. OnDisk(K)' /\ Newest(K)' /\ Loading(K)'
  BY <1>1, <1>2, <1>3, NoNewTable, LoadingSame DEF Generations, history
<1>7. Ahead'
  BY <1>2, <1>3, <1>4 DEF SInv, Ahead, Mine, Limit, Tables
<1> QED  BY <1>2, <1>5, <1>6, <1>7 DEF SInv, Generations, history

LEMMA EnterNameLoads ==
  ASSUME IInv, SInv, IInv', NEW n \in Names, NEW d \in Digests, EnterName(n, d)
  PROVE  SInv'
<1>1. PICK K : Generations(K)
  BY DEF SInv
<1>2. /\ wpc = "idle" /\ name_index[n] = NoDigest /\ name_index' = [name_index EXCEPT ![n] = d]
      /\ UNCHANGED <<file, wpc, writing, blob_offsets, index_offset, reader, history>>
  BY DEF EnterName
<1>3. Base = index_offset /\ Base' = index_offset
  BY <1>2 DEF Base
<1>4. Current \in Generation /\ Current' \in Generation
  BY <1>3, CurrentType DEF Current, Generation, IInv, TypeOK
<1>5. Older(Current, Current')
  <2>1. \A x \in Names : name_index[x] # NoDigest => name_index'[x] = name_index[x]
    BY <1>2 DEF IInv, TypeOK, NameIndex
  <2> QED  BY <1>2, <1>3, <2>1 DEF Current, Older
<1>6. Past(K)'
  <2>1. \A g \in K : Older(g, Current')
    BY <1>1, <1>2, <1>4, <1>5, OlderMore DEF Generations, Past
  <2> QED  BY <1>1, <1>2, <2>1 DEF Generations, Past, history, file
<1>7. OnDisk(K)' /\ Newest(K)' /\ Loading(K)'
  BY <1>1, <1>2, NoNewTable, LoadingSame DEF Generations, history, file
<1>8. Ahead'
  BY <1>2, <1>3 DEF SInv, Ahead, Mine, Limit, Tables, file
<1> QED  BY <1>2, <1>6, <1>7, <1>8 DEF SInv, Generations, history

LEMMA HeaderLoads ==
  ASSUME IInv, SInv, WriteMagic \/ WriteIndexOffset
  PROVE  SInv'
<1>1. PICK K : Generations(K)
  BY DEF SInv
<1>2. /\ wpc \in {"idle", "index"} /\ wpc' \in {"index", "offsets"} /\ touched' /\ disk' = disk
      /\ UNCHANGED <<writing, memory, reader, history>>
  BY DEF WriteMagic, WriteIndexOffset, IInv, WriterSound
<1>3. Base = index_offset /\ Base' = index_offset /\ Current' = Current
  BY <1>2 DEF Base, Current, memory
<1>4. Past(K)'
  <2>1. magic' /\ header_index' \in Nat /\ header_index' >= header_index /\ header_index \in Nat
    <3>1. header_index \in Nat /\ index_offset \in Nat /\ header_index <= index_offset
      BY <1>2, InvTypes DEF IInv, WriterSound
    <3>2. CASE WriteMagic  BY <3>1, <3>2 DEF WriteMagic
    <3>3. CASE WriteIndexOffset  BY <3>1, <3>3 DEF WriteIndexOffset, SInv, Ahead
    <3> QED  BY <3>2, <3>3
  <2>2. \A g \in K : g.at <= header_index'
    BY <1>1, <2>1, GenerationType DEF Generations, Past
  <2> QED  BY <1>1, <1>2, <1>3, <2>1, <2>2 DEF Generations, Past, history
<1>5. OnDisk(K)' /\ Newest(K)' /\ Loading(K)'
  BY <1>1, <1>2, NoNewTable, LoadingSame DEF Generations, history
<1>6. Ahead'
  <2>1. header_index' \in {header_index, index_offset} /\ magic'
    BY DEF WriteMagic, WriteIndexOffset, SInv, Ahead
  <2>2. writing = NoExtent
    BY <1>2 DEF IInv, WriterSound
  <2>3. \A x \in disk : x.part.kind # "blob" => x.at >= header_index /\ x.at >= index_offset
    BY <1>2, <1>3 DEF SInv, Ahead, Mine, Limit
  <2> QED  BY <1>2, <1>3, <2>1, <2>2, <2>3 DEF Ahead, Mine, Limit
<1> QED  BY <1>2, <1>4, <1>5, <1>6 DEF SInv, Generations, history

LEMMA StopLoads ==
  ASSUME IInv, SInv, Stop
  PROVE  SInv'
<1>1. PICK K : Generations(K)
  BY DEF SInv
<1>2. wpc' = "closed" /\ UNCHANGED <<file, reader, history>>
  BY DEF Stop
<1>3. Past(K)'
  BY <1>1, <1>2 DEF Generations, Past, history, file
<1>4. OnDisk(K)' /\ Newest(K)' /\ Loading(K)'
  BY <1>1, <1>2, NoNewTable, LoadingSame DEF Generations, history, file
<1>5. Ahead'
  BY <1>2 DEF SInv, Ahead, Mine, Tables, file
<1> QED  BY <1>2, <1>3, <1>4, <1>5 DEF SInv, Generations, history

LEMMA WriteTableLoads ==
  ASSUME IInv, SInv, WriteTable
  PROVE  SInv'
<1>1. PICK K : Generations(K)
  BY DEF SInv
<1>2. /\ wpc \in Tables /\ wpc # "insert" /\ wpc # "closed" /\ touched' /\ writing' = Table[wpc]
      /\ disk' = {f \in disk : ~Overlap(Table[wpc], f)}
      /\ UNCHANGED <<magic, header_index, wpc, memory, reader, history>>
  BY DEF WriteTable, BeginWrite, Tables
<1>3. /\ touched /\ header_index = index_offset /\ Table[wpc].at = Limit
      /\ Table[wpc] \in Extent /\ Current \in Generation /\ Base = index_offset
  BY <1>2, CurrentTables, CurrentType, TableType DEF IInv, Base
<1>4. Base' = Base /\ Current' = Current
  BY <1>2 DEF Base, Current, memory
<1>5. Past(K)'
  BY <1>1, <1>2, <1>3, <1>4 DEF Generations, Past, history
<1>6. OnDisk(K)' /\ Newest(K)' /\ Loading(K)'
  BY <1>1, <1>2, NoNewTable, LoadingSame DEF Generations, history
<1>7. Mine' = Mine /\ Limit' = Limit
  <2>1. OffsetsOf(Current)' = OffsetsOf(Current)
    BY <1>4 DEF OffsetsOf
  <2>2. NamesOf(Current)' = NamesOf(Current)
    BY <1>4 DEF NamesOf
  <2>3. MultiOf(Current)' = MultiOf(Current)
    BY <1>4 DEF MultiOf
  <2> QED  BY <1>2, <1>4, <2>1, <2>2, <2>3 DEF Mine, Limit
<1>8. Mine \subseteq disk'
  <2> SUFFICES ASSUME NEW m \in Mine PROVE ~Overlap(Table[wpc], m)
    BY <1>2 DEF SInv, Ahead
  <2>1. /\ OffsetsOf(Current).at \in Nat /\ OffsetsOf(Current).len \in Nat
        /\ NamesOf(Current).at \in Nat /\ NamesOf(Current).len \in Nat
        /\ NamesOf(Current).at = OffsetsOf(Current).at + OffsetsOf(Current).len
        /\ MultiOf(Current).at = NamesOf(Current).at + NamesOf(Current).len
    BY <1>3, GenerationType
  <2>2. m.at \in Nat /\ m.len \in Nat /\ m.at + m.len <= Limit
    BY <1>2, <2>1 DEF Mine, Limit, Tables
  <2>3. Table[wpc].at \in Nat /\ Table[wpc].len \in Nat
    BY <1>3 DEF Extent
  <2> QED  BY <1>3, <2>2, <2>3, Before
<1>9. Ahead'
  BY <1>2, <1>7, <1>8 DEF SInv, Ahead
<1> QED  BY <1>2, <1>5, <1>6, <1>9 DEF SInv, Generations, history

(* The older generations end before the current one does.                  *)
LEMMA OlderEnds ==
  ASSUME NEW g \in Generation, NEW h \in Generation, Older(g, h)
  PROVE  /\ NamesOf(g).at <= NamesOf(h).at
         /\ NamesOf(g) = NamesOf(h) => g = h
<1>1. NamesOf(g).at <= NamesOf(h).at
  BY OlderLengths, GenerationType DEF Older
<1>2. ASSUME NamesOf(g) = NamesOf(h) PROVE g = h
  <2>1. g.at = h.at /\ g.offsets = h.offsets
    BY <1>2, SamePlace
  <2>2. g.names = h.names
    <3>1. NamesOf(g).part = [kind |-> "names", of |-> g.names]
          /\ NamesOf(h).part = [kind |-> "names", of |-> h.names]
      BY Kinds
    <3> QED  BY <1>2, <3>1
  <2> QED  BY <2>1, <2>2, GenerationType
<1> QED  BY <1>1, <1>2

(* The current generation joins: no other has its names on disk.           *)
LEMMA CurrentJoins ==
  ASSUME NEW K, Generations(K), Current \in Generation, wpc # "closed", magic',
         Current.at = header_index, Current' = Current, UNCHANGED <<header_index, history>>,
         \A g \in K : NamesOf(g) \in disk' => g = Current
  PROVE  Past(K \cup {Current})' /\ Newest(K \cup {Current})'
<1> DEFINE L == K \cup {Current}
<1>1. \A g \in L : Older(g, Current)
  BY OlderSelf DEF Generations, Past
<1>2. L \subseteq Generation /\ \A g, h \in L : Older(g, h) \/ Older(h, g)
  BY <1>1 DEF Generations, Past
<1>3. Past(L)'
  <2>1. \A g \in L : g.at <= header_index'
    BY GenerationType DEF Generations, Past
  <2> QED  BY <1>1, <1>2, <2>1 DEF Generations, Past, history
<1>4. Newest(L)'
  <2> SUFFICES ASSUME NEW g \in L, NamesOf(g) \in disk' PROVE \A h \in L : Older(h, g)
    BY DEF Newest, Older, NamesOf, MultiOf
  <2>1. g = Current
    OBVIOUS
  <2> QED  BY <1>1, <2>1
<1> QED  BY <1>3, <1>4

(* A table has been completed: what follows it begins where it ends.       *)
LEMMA DoneAhead ==
  ASSUME IInv, SInv, NEW K, Generations(K), WriteTableDone
  PROVE  /\ Ahead'
         /\ Current' = Current /\ Current \in Generation /\ Current.at = header_index
         /\ wpc' # "closed" /\ magic'
         /\ \A f \in disk : f.part.kind # "blob" /\ f \notin Mine => f.at >= Table[wpc].at + Table[wpc].len
<1>1. /\ wpc \in Tables /\ wpc # "insert" /\ wpc # "closed" /\ writing # NoExtent
      /\ disk' = disk \cup {writing} /\ writing' = NoExtent /\ wpc' = After[wpc]
      /\ UNCHANGED <<touched, magic, header_index, memory, reader>>
  BY DEF WriteTableDone, EndWrite, Tables
<1>2. /\ touched /\ header_index = index_offset /\ Table[wpc].at = Limit /\ Current.at = index_offset
      /\ writing = Table[wpc] /\ Current \in Generation /\ Base = index_offset /\ index_offset \in Nat
  BY <1>1, CurrentTables, CurrentType DEF Base
<1>3. /\ Table = [offsets |-> OffsetsOf(Current), names |-> NamesOf(Current), multi |-> MultiOf(Current)]
      /\ Table[wpc] \in Extent /\ Table[wpc].at \in Nat /\ Table[wpc].len \in Nat /\ Table[wpc].at >= index_offset
  BY <1>1, CurrentTables, TableType DEF IInv, Extent
<1>4. wpc' \in {"names", "multi", "idle"}
  BY <1>1 DEF After, Tables
<1>5. Base' = Base /\ Current' = Current
  BY <1>1, <1>4 DEF Base, Current, memory
<1>6. OffsetsOf(Current)' = OffsetsOf(Current) /\ NamesOf(Current)' = NamesOf(Current)
      /\ MultiOf(Current)' = MultiOf(Current)
  BY <1>5 DEF OffsetsOf, NamesOf, MultiOf
<1>7. ASSUME NEW f \in disk, f.part.kind # "blob", f \notin Mine
      PROVE  f.at >= Table[wpc].at + Table[wpc].len
  <2>1. f.at \in Nat /\ f.len \in Nat /\ f.len > 0
    BY <1>7, TableExtents DEF Generations
  <2>2. f.at >= Table[wpc].at /\ ~Overlap(Table[wpc], f)
    BY <1>1, <1>2, <1>7 DEF SInv, Ahead
  <2> QED  BY <1>3, <2>1, <2>2, Beyond
<1>8. ASSUME NEW f \in disk', f.part.kind # "blob" PROVE f.at >= index_offset
  BY <1>1, <1>2, <1>3, <1>8 DEF SInv, Ahead
<1>9. Mine' \subseteq Mine \cup {writing}
  BY <1>1, <1>2, <1>3, <1>4, <1>6 DEF Mine, After, Tables
<1>10. ASSUME NEW f \in disk', f.part.kind # "blob", f \notin Mine' PROVE f.at >= Limit'
  <2>1. /\ NamesOf(Current).at = OffsetsOf(Current).at + OffsetsOf(Current).len
        /\ MultiOf(Current).at = NamesOf(Current).at + NamesOf(Current).len
    BY <1>2, GenerationType
  <2>2. CASE wpc = "offsets"
    <3>1. wpc' = "names" /\ Mine' = {writing} /\ Mine = {} /\ Limit' = Table[wpc].at + Table[wpc].len
      BY <1>1, <1>2, <1>3, <1>6, <2>1, <2>2 DEF After, Mine, Limit
    <3> QED  BY <1>1, <1>7, <1>10, <3>1
  <2>3. CASE wpc = "names"
    <3>1. /\ wpc' = "multi" /\ Mine' = Mine \cup {writing}
          /\ Limit' = Table[wpc].at + Table[wpc].len
      BY <1>1, <1>2, <1>3, <1>6, <2>1, <2>3 DEF After, Mine, Limit
    <3> QED  BY <1>1, <1>7, <1>10, <3>1
  <2>4. CASE wpc = "multi"
    <3>1. wpc' = "idle" /\ Limit' = index_offset
      BY <1>1, <1>2, <1>5, <2>4 DEF After, Limit
    <3> QED  BY <1>8, <1>10, <3>1
  <2> QED  BY <1>1, <2>2, <2>3, <2>4 DEF Tables
<1>11. Ahead'
  BY <1>1, <1>2, <1>4, <1>8, <1>9, <1>10 DEF SInv, Ahead
<1>12. magic'
  BY <1>1 DEF SInv, Ahead
<1> QED  BY <1>1, <1>2, <1>4, <1>5, <1>7, <1>11, <1>12

LEMMA OffsetsDoneLoads ==
  ASSUME IInv, SInv, WriteTableDone, wpc = "offsets"
  PROVE  SInv'
<1>1. PICK K : Generations(K)
  BY DEF SInv
<1>2. /\ wpc \in Tables /\ wpc' = "names" /\ writing # NoExtent /\ disk' = disk \cup {writing}
      /\ UNCHANGED <<touched, magic, header_index, memory, reader, history>>
  BY DEF WriteTableDone, EndWrite, After, Tables, history
<1>3. writing = OffsetsOf(Current)
  BY <1>2, CurrentTables
<1>4. /\ Ahead' /\ Current' = Current /\ Current \in Generation /\ Current.at = header_index /\ magic'
      /\ \A f \in disk : f.part.kind # "blob" => f.at >= NamesOf(Current).at
  <2>1. Table[wpc].at + Table[wpc].len = NamesOf(Current).at
    <3>1. Table[wpc] = OffsetsOf(Current) /\ Current \in Generation
      BY <1>2, CurrentTables, CurrentType
    <3> QED  BY <3>1, GenerationType
  <2>2. Mine = {}
    BY DEF Mine
  <2>3. /\ Ahead' /\ Current' = Current /\ Current \in Generation /\ Current.at = header_index /\ magic'
        /\ \A f \in disk : f.part.kind # "blob" /\ f \notin Mine => f.at >= Table[wpc].at + Table[wpc].len
    BY <1>1, DoneAhead
  <2> QED  BY <2>1, <2>2, <2>3
<1>5. writing.part.kind = "offsets"
  <2>1. writing.part = [kind |-> "offsets", of |-> Current.offsets]
    BY <1>3, Kinds
  <2> QED  BY <2>1
<1>6. \A g : /\ NamesOf(g) \in disk' <=> NamesOf(g) \in disk
             /\ MultiOf(g) \in disk' <=> MultiOf(g) \in disk
  <2> SUFFICES ASSUME NEW g PROVE NamesOf(g) # writing /\ MultiOf(g) # writing
    BY <1>2
  <2>1. NamesOf(g).part = [kind |-> "names", of |-> g.names] /\ MultiOf(g).part.kind = "multi"
    BY Kinds
  <2> QED  BY <1>5, <2>1
<1>7. CASE \E g \in K : OffsetsOf(g) = OffsetsOf(Current)
  <2>1. Past(K)'
    BY <1>1, <1>2, <1>4 DEF Generations, Past, history
  <2>2. OnDisk(K)'
    BY <1>1, <1>2, <1>3, <1>5, <1>7 DEF Generations, OnDisk, history
  <2>3. Newest(K)'
    BY <1>1, <1>6 DEF Generations, Newest, Older, NamesOf, MultiOf
  <2>4. Loading(K)'
    BY <1>1, <1>2, LoadingSame DEF Generations, history
  <2> QED  BY <1>2, <1>4, <2>1, <2>2, <2>3, <2>4 DEF SInv, Generations, history
<1>8. CASE ~ \E g \in K : OffsetsOf(g) = OffsetsOf(Current)
  <2> DEFINE L == K \cup {Current}
  <2>1. ASSUME NEW g \in K PROVE NamesOf(g) \notin disk'
    <3> SUFFICES ASSUME NamesOf(g) \in disk PROVE FALSE
      BY <1>6
    <3>1. g \in Generation /\ Older(g, Current)
      BY <1>1, <1>2 DEF Generations, Past, Tables
    <3>2. NamesOf(g).at <= NamesOf(Current).at
      BY <1>4, <3>1, OlderEnds
    <3>3. NamesOf(g).part = [kind |-> "names", of |-> g.names]
      BY Kinds
    <3>4. NamesOf(g).at >= NamesOf(Current).at
      BY <1>4, <3>3
    <3>5. NamesOf(g).at \in Nat /\ NamesOf(Current).at \in Nat
      BY <1>4, <3>1, GenerationType
    <3>6. g.at = Current.at /\ g.offsets = Current.offsets
      BY <1>4, <3>1, <3>2, <3>4, <3>5, SamePlace
    <3> QED  BY <1>8, <3>6 DEF OffsetsOf
  <2>2. Past(L)' /\ Newest(L)'
    <3>1. wpc # "closed" /\ \A g \in K : NamesOf(g) \in disk' => g = Current
      BY <2>1
    <3> QED  BY <1>1, <1>2, <1>4, <3>1, CurrentJoins
  <2>3. OnDisk(L)'
    BY <1>1, <1>2, <1>3, <1>4, <1>5 DEF Generations, OnDisk, history
  <2>4. Loading(L)'
    BY <1>1, <1>2, LoadingSame DEF Generations, history
  <2>5. Generations(L)'
    BY <2>2, <2>3, <2>4 DEF Generations
  <2> QED  BY <1>2, <1>4, <2>5 DEF SInv, history
<1> QED  BY <1>7, <1>8

LEMMA NamesDoneLoads ==
  ASSUME IInv, SInv, WriteTableDone, wpc = "names"
  PROVE  SInv'
<1>1. PICK K : Generations(K)
  BY DEF SInv
<1> DEFINE L == K \cup {Current}
<1>2. /\ wpc \in Tables /\ wpc' = "multi" /\ writing # NoExtent /\ disk' = disk \cup {writing}
      /\ UNCHANGED <<touched, magic, header_index, memory, reader, history>>
  BY DEF WriteTableDone, EndWrite, After, Tables, history
<1>3. writing = NamesOf(Current) /\ Table[wpc] = NamesOf(Current)
  BY <1>2, CurrentTables
<1>4. /\ Ahead' /\ Current' = Current /\ Current \in Generation /\ Current.at = header_index /\ magic'
      /\ \A f \in disk : f.part.kind = "names" => f.at > NamesOf(Current).at
  <2>1. /\ Ahead' /\ Current' = Current /\ Current \in Generation /\ Current.at = header_index /\ magic'
        /\ \A f \in disk : f.part.kind # "blob" /\ f \notin Mine => f.at >= Table[wpc].at + Table[wpc].len
    BY <1>1, DoneAhead
  <2>2. ASSUME NEW f \in disk, f.part.kind = "names" PROVE f \notin Mine
    <3>1. OffsetsOf(Current).part = [kind |-> "offsets", of |-> Current.offsets]
      BY Kinds
    <3> QED  BY <2>2, <3>1 DEF Mine
  <2>3. /\ Table[wpc].at \in Nat /\ Table[wpc].len \in Nat /\ Table[wpc].len > 0
    BY <1>3, <2>1, GenerationType
  <2>4. ASSUME NEW f \in disk, f.part.kind = "names" PROVE f.at > NamesOf(Current).at
    <3>1. f.at >= Table[wpc].at + Table[wpc].len /\ f.at \in Nat
      BY <1>1, <2>1, <2>2, <2>4, TableExtents DEF Generations
    <3> QED  BY <1>3, <2>3, <3>1
  <2> QED  BY <2>1, <2>4
<1>5. writing.part.kind = "names"
  <2>1. writing.part = [kind |-> "names", of |-> Current.names]
    BY <1>3, Kinds
  <2> QED  BY <2>1
<1>6. ASSUME NEW g \in K, NamesOf(g) \in disk' PROVE g = Current
  <2>1. g \in Generation /\ Older(g, Current)
    BY <1>1, <1>2 DEF Generations, Past
  <2>2. /\ NamesOf(g).at <= NamesOf(Current).at /\ (NamesOf(g) = NamesOf(Current) => g = Current)
        /\ NamesOf(g).at \in Nat /\ NamesOf(Current).at \in Nat
    BY <1>4, <2>1, OlderEnds, GenerationType
  <2>3. NamesOf(g).part = [kind |-> "names", of |-> g.names]
    BY Kinds
  <2>4. NamesOf(g) \notin disk
    BY <1>4, <2>2, <2>3
  <2> QED  BY <1>2, <1>3, <1>6, <2>2, <2>4
<1>7. Past(L)' /\ Newest(L)'
  BY <1>1, <1>2, <1>4, <1>6, CurrentJoins
<1>8. OnDisk(L)'
  BY <1>1, <1>2, <1>3, <1>4, <1>5 DEF Generations, OnDisk, history
<1>9. Loading(L)'
  BY <1>1, <1>2, LoadingSame DEF Generations, history
<1>10. Generations(L)'
  BY <1>7, <1>8, <1>9 DEF Generations
<1> QED  BY <1>2, <1>4, <1>10 DEF SInv, history

(* The store is complete: its generation is one of those there have been.  *)
LEMMA CurrentIsPast ==
  ASSUME IInv, SInv, NEW K, Generations(K), wpc = "multi"
  PROVE  Current \in K
<1>1. NamesOf(Current) \in disk
  BY DEF SInv, Ahead, Mine
<1>2. NamesOf(Current).part = [kind |-> "names", of |-> Current.names]
  BY Kinds
<1>3. PICK g \in K : NamesOf(Current) = NamesOf(g)
  BY <1>1, <1>2 DEF Generations, OnDisk
<1>4. g \in Generation /\ Current \in Generation /\ Older(g, Current)
  BY CurrentType DEF Generations, Past
<1>5. g = Current
  BY <1>3, <1>4, OlderEnds
<1> QED  BY <1>5

LEMMA MultiDoneLoads ==
  ASSUME IInv, sound, SInv, WriteTableDone, wpc = "multi"
  PROVE  SInv'
<1>1. PICK K : Generations(K)
  BY DEF SInv
<1>2. /\ wpc \in Tables /\ wpc' = "idle" /\ writing # NoExtent /\ disk' = disk \cup {writing}
      /\ last' = [offsets |-> blob_offsets, names |-> name_index]
      /\ stored' = stored \cup {last'}
      /\ UNCHANGED <<touched, magic, header_index, memory, reader>>
  BY DEF WriteTableDone, EndWrite, After, Tables
<1>3. writing = MultiOf(Current)
  BY <1>2, CurrentTables
<1>4. Ahead' /\ Current' = Current /\ Current \in Generation /\ Current.at = header_index /\ magic'
  BY <1>1, DoneAhead
<1>5. Current \in K /\ \A g \in K : g \in Generation /\ Older(g, Current)
  BY <1>1, CurrentIsPast DEF Generations, Past
<1>6. ContentOf(Current) = last'
  BY <1>2, CurrentType DEF ContentOf
<1>7. writing.part.kind = "multi"
  BY <1>3, Kinds
<1>8. Past(K)'
  BY <1>1, <1>2, <1>4, <1>5, <1>6 DEF Generations, Past, ContentOf
<1>9. OnDisk(K)'
  BY <1>1, <1>2, <1>3, <1>5, <1>6, <1>7 DEF Generations, OnDisk, ContentOf
<1>10. Newest(K)'
  <2>1. ASSUME NEW g \in K, NamesOf(g) \in disk', MultiOf(g) \in disk'
        PROVE  \A h \in K : Older(h, g)
    <3>1. NamesOf(g).part = [kind |-> "names", of |-> g.names]
      BY Kinds
    <3>2. NamesOf(g) \in disk
      BY <1>2, <1>7, <2>1, <3>1
    <3>3. CASE MultiOf(g) \in disk
      BY <1>1, <3>2, <3>3 DEF Generations, Newest
    <3>4. CASE MultiOf(g) = MultiOf(Current)
      <4>1. g = Current
        BY <1>4, <1>5, <3>4, SamePlace
      <4> QED  BY <1>5, <4>1
    <3> QED  BY <1>2, <1>3, <2>1, <3>3, <3>4
  <2> QED  BY <2>1 DEF Newest, NamesOf, MultiOf, Older
<1>11. Loading(K)'
  BY <1>1, <1>2, LoadingSame DEF Generations
<1> QED  BY <1>2, <1>4, <1>8, <1>9, <1>10, <1>11 DEF SInv, Generations

-----------------------------------------------------------------------------
(* Steps of a reader.                                                      *)

(* The tables at the place a reader expects them are those it expects.     *)
LEMMA ReadsGeneration ==
  ASSUME IInv, ReadsIntact, NEW K, Generations(K), NEW r \in Readers, ReaderStep(r)
  PROVE  Loading(K)'
<1>1. roffsets \in [Readers -> OffsetTable] /\ rnames \in [Readers -> NameIndex]
      /\ rindex \in [Readers -> Nat] /\ DOMAIN rpc = Readers
  BY DEF IInv, TypeOK
<1>2. \A q \in Readers : q # r =>
        rpc'[q] = rpc[q] /\ rindex'[q] = rindex[q] /\ roffsets'[q] = roffsets[q] /\ rnames'[q] = rnames[q]
  BY OthersSame DEF IInv
<1> DEFINE LoadingAt(q) ==
             /\ rpc'[q] = "names" => \E g \in K : g.at = rindex'[q] /\ g.offsets = roffsets'[q]
             /\ rpc'[q] = "multi" => [at |-> rindex'[q], offsets |-> roffsets'[q], names |-> rnames'[q]] \in K
<1>3. ASSUME NEW q \in Readers, q # r PROVE LoadingAt(q)
  BY <1>2, <1>3 DEF Generations, Loading
<1> SUFFICES LoadingAt(r)
  BY <1>3 DEF Loading
<1>4. CASE LoadEmpty(r) \/ ReadHeader(r) \/ ReadMulti(r) \/ ReadTorn(r) \/ Restart(r)
  <2>1. rpc'[r] \in {"offsets", "none", "ready", "torn"}
    BY <1>1, <1>4 DEF LoadEmpty, ReadHeader, ReadMulti, ReadTorn, Restart
  <2> QED  BY <2>1
<1>5. CASE BeginRead(r)
  BY <1>5 DEF BeginRead, reader, Generations, Loading
<1>6. CASE ReadOffsets(r)
  <2>1. /\ rpc[r] = "offsets" /\ rpc'[r] = "names" /\ rindex'[r] = rindex[r]
        /\ roffsets'[r] = rreading[r].part.of
    BY <1>1, <1>6 DEF ReadOffsets
  <2>2. /\ rreading[r] \in disk /\ rreading[r].part.kind = "offsets" /\ rreading[r].at = rindex[r]
    BY <1>6, <2>1 DEF ReadOffsets, EndRead, ReadsIntact, TableAt
  <2>3. PICK g \in K : rreading[r] = OffsetsOf(g)
    BY <2>2 DEF Generations, OnDisk
  <2>4. g.at = rindex'[r] /\ g.offsets = roffsets'[r]
    BY <2>1, <2>2, <2>3 DEF OffsetsOf, Offsets
  <2> QED  BY <2>1, <2>4
<1>7. CASE ReadNames(r)
  <2>1. /\ rpc[r] = "names" /\ rpc'[r] = "multi" /\ rindex'[r] = rindex[r] /\ roffsets'[r] = roffsets[r]
        /\ rnames'[r] = rreading[r].part.of
    BY <1>1, <1>7 DEF ReadNames
  <2>2. /\ rreading[r] \in disk /\ rreading[r].part.kind = "names"
        /\ rreading[r].at = NamesAt(rindex[r], roffsets[r])
    BY <1>7, <2>1 DEF ReadNames, EndRead, ReadsIntact, TableAt
  <2>3. PICK g \in K : g.at = rindex[r] /\ g.offsets = roffsets[r]
    BY <2>1 DEF Generations, Loading
  <2>4. PICK n \in K : rreading[r] = NamesOf(n)
    BY <2>2 DEF Generations, OnDisk
  <2>5. NamesOf(n).at = NamesOf(g).at /\ n.names = rnames'[r]
    BY <2>1, <2>2, <2>3, <2>4 DEF NamesOf, NameTable
  <2>6. n \in Generation /\ g \in Generation /\ (Older(n, g) \/ Older(g, n))
    BY DEF Generations, Past
  <2>7. n = [at |-> rindex[r], offsets |-> roffsets[r], names |-> rnames'[r]]
    BY <2>3, <2>5, <2>6, SamePlace, GenerationType
  <2> QED  BY <2>1, <2>7
<1> QED  BY <1>4, <1>5, <1>6, <1>7 DEF ReaderStep

(* The last table found belongs to a complete store.                       *)
LEMMA MultiStored ==
  ASSUME NEW K, Generations(K), NEW r \in Readers, rpc[r] = "multi",
         NEW e \in disk, e.part.kind = "multi", e.at = TableAt(r)
  PROVE  [offsets |-> roffsets[r], names |-> rnames[r]] \in stored
<1> DEFINE g == [at |-> rindex[r], offsets |-> roffsets[r], names |-> rnames[r]]
<1>1. g \in K
  BY DEF Generations, Loading
<1>2. e.at = MultiOf(g).at
  BY DEF TableAt, MultiOf, MultiTable
<1>3. PICK h \in K : e = MultiOf(h) /\ ContentOf(h) \in stored
  BY DEF Generations, OnDisk
<1>4. g \in Generation /\ h \in Generation /\ (Older(g, h) \/ Older(h, g))
  BY <1>1 DEF Generations, Past
<1>5. g = h
  BY <1>2, <1>3, <1>4, SamePlace
<1> QED  BY <1>3, <1>5 DEF ContentOf

LEMMA ReaderLoads ==
  ASSUME IInv, ReadsIntact, SInv, NEW r \in Readers, ReaderStep(r)
  PROVE  SInv'
<1>1. PICK K : Generations(K)
  BY DEF SInv
<1>2. UNCHANGED <<file, wpc, writing, memory, history>>
  BY DEF ReaderStep, LoadEmpty, ReadHeader, BeginRead, ReadOffsets, ReadNames, ReadMulti, ReadTorn, Restart, Forget
<1>3. Base' = Base /\ Current' = Current
  BY <1>2 DEF Base, Current, memory
<1>4. Past(K)'
  BY <1>1, <1>2, <1>3 DEF Generations, Past, history, file
<1>5. OnDisk(K)' /\ Newest(K)'
  BY <1>1, <1>2, NoNewTable DEF Generations, history, file
<1>6. Loading(K)'
  BY <1>1, ReadsGeneration
<1>7. Ahead'
  BY <1>2, <1>3 DEF SInv, Ahead, Mine, Limit, OffsetsOf, NamesOf, MultiOf, file
<1> QED  BY <1>4, <1>5, <1>6, <1>7 DEF SInv, Generations

-----------------------------------------------------------------------------
(* What has been loaded.                                                   *)

(* A torn read stays torn; no other begins.                                *)
LEMMA LoadedWriter == ASSUME IInv, LInv, WriterStep PROVE Loaded'
<1> USE DEF file, memory, reader, history
<1>1. /\ reader' = reader /\ stored \subseteq stored'
      /\ \A r \in Readers : rreading'[r] \in {rreading[r], Torn}
  BY DEF WriterStep, OpenEmpty, OpenLoad, OpenTorn, Insert, BeginWrite, InsertDone, EndWrite, EnterName,
         WriteMagic, WriteIndexOffset, WriteTable, WriteTableDone, Stop
<1> QED  BY <1>1 DEF LInv, Loaded

LEMMA LoadedReader ==
  ASSUME IInv, ReadsIntact, LInv, NEW r \in Readers, ReaderStep(r)
  PROVE  Loaded' /\ stored' = stored /\ sound' = sound
<1>1. stored' = stored /\ sound' = sound
  BY DEF ReaderStep, LoadEmpty, ReadHeader, BeginRead, ReadOffsets, ReadNames, ReadMulti, ReadTorn, Restart, Forget, history
<1>2. /\ DOMAIN rpc = Readers /\ DOMAIN rreading = Readers
      /\ DOMAIN roffsets = Readers /\ DOMAIN rnames = Readers
  BY DEF IInv, TypeOK
<1> DEFINE LoadedAt(q) ==
             rpc'[q] = "ready" \/ (rpc'[q] = "multi" /\ rreading'[q] \notin {NoExtent, Torn}) =>
               [offsets |-> roffsets'[q], names |-> rnames'[q]] \in stored
<1>3. ASSUME NEW q \in Readers, q # r PROVE LoadedAt(q)
  BY <1>3, OthersSame DEF IInv, LInv, Loaded
<1>4. LoadedAt(r)
  <2>1. CASE LoadEmpty(r)
    <3>1. roffsets'[r] = Empty.offsets /\ rnames'[r] = Empty.names
      BY <1>2, <2>1 DEF LoadEmpty
    <3>2. Empty = [offsets |-> Empty.offsets, names |-> Empty.names]
      BY DEF Empty
    <3> QED  BY <3>1, <3>2 DEF LInv
  <2>2. CASE ReadHeader(r) \/ ReadOffsets(r) \/ ReadTorn(r) \/ Restart(r)
    <3>1. rpc'[r] \in {"offsets", "names", "torn", "none"}
      BY <1>2, <2>2 DEF ReadHeader, ReadOffsets, ReadTorn, Restart
    <3> QED  BY <3>1
  <2>3. CASE ReadNames(r)
    <3>1. rpc'[r] = "multi" /\ rreading'[r] = NoExtent
      BY <1>2, <2>3 DEF ReadNames, EndRead
    <3> QED  BY <3>1
  <2>4. CASE ReadMulti(r)
    <3>1. /\ rpc[r] = "multi" /\ rreading[r] \notin {NoExtent, Torn}
          /\ roffsets'[r] = roffsets[r] /\ rnames'[r] = rnames[r]
      BY <2>4 DEF ReadMulti, EndRead
    <3> QED  BY <3>1 DEF LInv, Loaded
  <2>5. CASE BeginRead(r)
    <3>1. /\ rpc'[r] = rpc[r] /\ roffsets'[r] = roffsets[r] /\ rnames'[r] = rnames[r] /\ rpc[r] \in Tables
      BY <2>5 DEF BeginRead, reader
    <3>2. PICK e \in IF Found(r) = {} THEN {Torn} ELSE Found(r) : rreading'[r] = e
      BY <1>2, <2>5 DEF BeginRead
    <3>3. ASSUME rpc[r] = "multi", e # Torn
          PROVE  [offsets |-> roffsets[r], names |-> rnames[r]] \in stored
      <4>1. sound /\ e \in disk /\ e.part.kind = "multi" /\ e.at = TableAt(r)
        BY <3>2, <3>3 DEF Found
      <4>2. PICK K : Generations(K)
        BY <4>1 DEF LInv, SInv
      <4> QED  BY <3>3, <4>1, <4>2, MultiStored
    <3> QED  BY <3>1, <3>2, <3>3 DEF Tables
  <2> QED  BY <2>1, <2>2, <2>3, <2>4, <2>5 DEF ReaderStep
<1> QED  BY <1>1, <1>3, <1>4 DEF Loaded

-----------------------------------------------------------------------------

LEMMA LInvInit == Init => LInv
<1> SUFFICES ASSUME Init PROVE LInv
  OBVIOUS
<1>1. Generations({})
  BY DEF Init, Generations, Past, OnDisk, Newest, Loading
<1>2. Ahead
  BY DEF Init, Ahead, Mine, Tables
<1>3. Loaded
  BY DEF Init, Loaded
<1> QED  BY <1>1, <1>2, <1>3 DEF LInv, SInv, Init

LEMMA SInvWriter == ASSUME IInv, IInv', sound, sound', SInv, WriterStep PROVE SInv'
<1>1. CASE WriteTableDone
  <2>1. wpc \in Tables
    BY <1>1 DEF WriteTableDone
  <2> QED  BY <1>1, <2>1, OffsetsDoneLoads, NamesDoneLoads, MultiDoneLoads DEF Tables
<1>2. ~OpenTorn
  BY DEF OpenTorn
<1> QED
  BY <1>1, <1>2, OpenEmptyLoads, OpenLoadLoads, InsertLoads, InsertDoneLoads, EnterNameLoads,
     HeaderLoads, WriteTableLoads, StopLoads
  DEF WriterStep

LEMMA LInvStep == IInv /\ ReadsIntact /\ LInv /\ [Next]_vars => LInv'
<1>1. ASSUME IInv, LInv, UNCHANGED vars PROVE LInv'
  <2>1. UNCHANGED <<file, wpc, writing, memory, reader, rreading, history>>
    BY <1>1 DEF vars
  <2>2. ASSUME SInv PROVE SInv'
    <3>1. PICK K : Generations(K)
      BY <2>2 DEF SInv
    <3>2. Base' = Base /\ Current' = Current
      BY <2>1 DEF Base, Current, memory
    <3>3. Past(K)'
      BY <2>1, <3>1, <3>2 DEF Generations, Past, history, file
    <3>4. OnDisk(K)' /\ Newest(K)' /\ Loading(K)'
      BY <2>1, <3>1, NoNewTable, LoadingSame DEF Generations, history, file
    <3>5. Ahead'
      BY <2>1, <2>2, <3>2 DEF SInv, Ahead, Mine, Limit, OffsetsOf, NamesOf, MultiOf, file
    <3> QED  BY <3>3, <3>4, <3>5 DEF SInv, Generations
  <2>3. Loaded'
    BY <1>1, <2>1 DEF LInv, Loaded, reader, history
  <2> QED  BY <1>1, <2>1, <2>2, <2>3 DEF LInv, history
<1>2. ASSUME IInv, IInv', LInv, WriterStep PROVE LInv'
  <2>1. Loaded'
    BY <1>2, LoadedWriter
  <2>2. stored \subseteq stored' /\ (sound' => sound)
    BY <1>2 DEF WriterStep, OpenEmpty, OpenLoad, OpenTorn, Insert, InsertDone, EnterName,
         WriteMagic, WriteIndexOffset, WriteTable, WriteTableDone, Stop, history
  <2>3. sound' => SInv'
    BY <1>2, <2>2, SInvWriter DEF LInv
  <2> QED  BY <1>2, <2>1, <2>2, <2>3 DEF LInv
<1>3. ASSUME IInv, ReadsIntact, LInv, NEW r \in Readers, ReaderStep(r) PROVE LInv'
  <2>1. Loaded' /\ stored' = stored /\ sound' = sound
    BY <1>3, LoadedReader
  <2>2. sound => SInv'
    BY <1>3, ReaderLoads DEF LInv
  <2> QED  BY <1>3, <2>1, <2>2 DEF LInv
<1>4. IInv /\ ReadsIntact /\ [Next]_vars => IInv'
  BY IInvStep
<1> QED  BY <1>1, <1>2, <1>3, <1>4 DEF Next

LEMMA LInvCorrect == Spec => [](IInv /\ ReadsIntact /\ LInv)
<1>1. IInv => TypeOK
  BY DEF IInv
<1> QED  BY <1>1, IInvInit, IInvStep, IntactInit, IntactStep, LInvInit, LInvStep, PTL DEF Spec

(* A load that runs while other processes insert and store, and that meets *)
(* whatever older tables are left in the file, ends with the offsets and   *)
(* the names of one write_header_and_index, unless it has read of a table  *)
(* that was not whole.                                                     *)
THEOREM LoadsOneSnapshot == Spec => []LoadedIsStored
<1>1. LInv => LoadedIsStored
  BY DEF LInv, Loaded, LoadedIsStored
<1> QED  BY <1>1, LInvCorrect, PTL

-----------------------------------------------------------------------------
(* The promise.                                                            *)

(* What loads is what was stored last.                                     *)
LEMMA LoadsLast ==
  ASSUME IInv, NEW K, Generations(K), NEW e \in disk, NEW f \in disk,
         e.part.kind = "offsets", f.part.kind = "names", Loads(e.part.of, f.part.of)
  PROVE  last = [offsets |-> e.part.of, names |-> f.part.of]
<1>1. PICK g \in K : /\ g = [at |-> header_index, offsets |-> e.part.of, names |-> f.part.of]
                     /\ \A h \in K : Older(h, g)
  BY LoadsGeneration
<1>2. MultiOf(g) \in disk
  BY <1>1 DEF Loads, MultiOf
<1>3. PICK n \in K : MultiOf(g) = MultiOf(n) /\ \E h \in K : ContentOf(h) = last /\ Older(n, h)
  BY <1>2, Kinds DEF Generations, OnDisk
<1>4. n \in Generation /\ g \in Generation /\ (Older(n, g) \/ Older(g, n))
  BY DEF Generations, Past
<1>5. n = g
  BY <1>3, <1>4, SamePlace
<1>6. PICK h \in K : ContentOf(h) = last /\ Older(g, h)
  BY <1>3, <1>5
<1>7. h = g
  <2>1. h \in Generation /\ Older(h, g) /\ g.at \in Nat /\ h.at \in Nat
    BY <1>1, <1>4, GenerationType DEF Generations, Past
  <2>2. g.at = h.at /\ g.offsets = h.offsets
    BY <1>6, <2>1 DEF Older
  <2>3. \A nm \in Names : g.names[nm] = h.names[nm]
    BY <1>6, <2>1 DEF Older
  <2>4. g.names \in [Names -> Digests \cup {NoDigest}] /\ h.names \in [Names -> Digests \cup {NoDigest}]
    BY <1>4, <2>1 DEF Generation, NameIndex
  <2> QED  BY <1>4, <2>1, <2>2, <2>3, <2>4, GenerationType
<1> QED  BY <1>1, <1>6, <1>7 DEF ContentOf

Content == IF ~touched THEN "empty" ELSE IF LastLoads THEN "good" ELSE "broken"

LEMMA PromiseInit == Init => Promise!Init
BY DEF Init, Promise!Init, Promise!Nothing, Empty

LEMMA LastLoadsTouched == IInv /\ LastLoads => touched
BY DEF IInv, DiskSound, LastLoads, Loads

(* Nothing changes, or the file breaks.                                    *)
LEMMA MaySpoil ==
  ASSUME IInv, wpc # "closed", wpc' # "closed", sound' = sound, last' = last, touched', LastLoads' => LastLoads
  PROVE  [Promise!Next]_(Promise!vars)
<1>1. Content' \in {"good", "broken"} /\ (Content' = "good" => Content = "good")
  BY LastLoadsTouched DEF Content
<1>2. CASE Content' = Content
  BY <1>2 DEF Promise!vars, Content
<1>3. CASE Content' # Content
  <2>1. Content # "broken" /\ Content' = "broken"
    BY <1>1, <1>3 DEF Content
  <2>2. Promise!Spoil
    BY <2>1 DEF Promise!Spoil, Content
  <2> QED  BY <2>2 DEF Promise!Next
<1> QED  BY <1>2, <1>3

LEMMA ExtendsSelf == \A c : Promise!Extends(c, c)
BY DEF Promise!Extends

(* Nothing changes, or the file holds what it held before.                 *)
LEMMA MayMend ==
  ASSUME wpc # "closed", wpc' # "closed", sound' = sound, last' = last, touched, touched',
         LastLoads => LastLoads'
  PROVE  [Promise!Next]_(Promise!vars)
<1>1. CASE LastLoads' => LastLoads
  BY <1>1 DEF Promise!vars
<1>2. CASE LastLoads' /\ ~LastLoads
  <2>1. Promise!Commit
    BY <1>2, ExtendsSelf DEF Promise!Commit
  <2> QED  BY <2>1 DEF Promise!Next
<1> QED  BY <1>1, <1>2

(* The file is not touched.                                                *)
LEMMA FileSame ==
  ASSUME UNCHANGED <<file, history>>
  PROVE  Content' = Content /\ LastLoads' = LastLoads /\ last' = last /\ sound' = sound
BY DEF Content, LastLoads, Loads, file, history

LEMMA OpenPromise ==
  ASSUME IInv, SInv, OpenEmpty \/ OpenLoad
  PROVE  [Promise!Next]_(Promise!vars)
<1>1. wpc = "closed" /\ wpc' = "idle" /\ UNCHANGED <<file, history>>
  BY DEF OpenEmpty, OpenLoad
<1>2. CASE OpenEmpty
  <2>1. Content = "empty"
    BY <1>2 DEF OpenEmpty, Content
  <2>2. Promise!Open
    BY <1>1, <2>1, FileSame DEF Promise!Open, Content
  <2> QED  BY <2>2 DEF Promise!Next
<1>3. CASE OpenLoad
  <2>1. PICK e \in disk, f \in disk :
          e.part.kind = "offsets" /\ f.part.kind = "names" /\ Loads(e.part.of, f.part.of)
    BY <1>3 DEF OpenLoad
  <2>2. last = [offsets |-> e.part.of, names |-> f.part.of]
    BY <2>1, LoadsLast DEF SInv
  <2>3. Content = "good"
    BY <2>1, <2>2, LastLoadsTouched DEF Content, LastLoads
  <2>4. Promise!Open
    BY <1>1, <2>3, FileSame DEF Promise!Open, Content
  <2> QED  BY <2>4 DEF Promise!Next
<1> QED  BY <1>2, <1>3

LEMMA StopPromise ==
  ASSUME Stop
  PROVE  [Promise!Next]_(Promise!vars)
<1>1. wpc # "closed" /\ wpc' = "closed" /\ UNCHANGED <<file, history>>
  BY DEF Stop
<1>2. Promise!Close
  BY <1>1, FileSame DEF Promise!Close, Content
<1> QED  BY <1>2 DEF Promise!Next

(* Steps after which there is no table that there was not before.          *)
LEMMA WritePromise ==
  ASSUME IInv, SInv, (\E d \in Digests : Insert(d)) \/ InsertDone \/ WriteTable
  PROVE  [Promise!Next]_(Promise!vars)
<1>1. /\ wpc # "closed" /\ wpc' # "closed" /\ touched'
      /\ UNCHANGED <<magic, header_index, history>>
  BY DEF Insert, InsertDone, WriteTable, BeginWrite, Tables, IInv, WriterSound
<1>2. \A e \in disk' : e.part.kind # "blob" => e \in disk
  <2>1. CASE InsertDone
    <3>1. disk' = disk \cup {writing} /\ writing.part.kind = "blob"
      BY <2>1, InsertWrites DEF InsertDone, EndWrite
    <3> QED  BY <3>1
  <2> QED  BY <2>1 DEF Insert, WriteTable, BeginWrite
<1>3. LastLoads' => LastLoads
  BY <1>1, <1>2 DEF LastLoads, Loads, Offsets, NameTable, MultiTable, history
<1> QED  BY <1>1, <1>3, MaySpoil DEF history

(* The header leads to where no table has been written yet.                *)
LEMMA HeaderPromise ==
  ASSUME IInv, SInv, WriteMagic \/ WriteIndexOffset
  PROVE  [Promise!Next]_(Promise!vars)
<1>1. PICK K : Generations(K)
  BY DEF SInv
<1>2. wpc # "closed" /\ wpc' # "closed" /\ touched' /\ disk' = disk /\ UNCHANGED history
  BY DEF WriteMagic, WriteIndexOffset, IInv, WriterSound
<1>3. ASSUME LastLoads' PROVE LastLoads
  <2>1. Offsets(last.offsets, header_index') \in disk /\ magic'
    BY <1>2, <1>3 DEF LastLoads, Loads, history
  <2>2. PICK g \in K : Offsets(last.offsets, header_index') = OffsetsOf(g)
    BY <1>1, <2>1 DEF Generations, OnDisk, Offsets
  <2>3. magic /\ g.at = header_index' /\ g.at <= header_index
    BY <1>1, <2>2 DEF Generations, Past, OffsetsOf, Offsets
  <2>4. header_index \in Nat /\ header_index' \in Nat /\ header_index <= header_index'
    <3>1. header_index \in Nat /\ index_offset \in Nat /\ header_index <= index_offset
      BY <1>2, InvTypes DEF IInv, WriterSound
    <3> QED  BY <3>1 DEF WriteMagic, WriteIndexOffset
  <2>5. header_index' = header_index
    BY <2>3, <2>4
  <2> QED  BY <1>2, <1>3, <2>3, <2>5 DEF LastLoads, Loads, history
<1> QED  BY <1>2, <1>3, MaySpoil DEF history

(* The last table makes the file load, which it did not before.            *)
LEMMA MultiPromise ==
  ASSUME IInv, sound, SInv, WriteTableDone, wpc = "multi"
  PROVE  [Promise!Next]_(Promise!vars)
<1>1. PICK K : Generations(K)
  BY DEF SInv
<1>2. /\ wpc' = "idle" /\ wpc \in Tables /\ disk' = disk \cup {writing} /\ writing # NoExtent
      /\ last' = [offsets |-> blob_offsets, names |-> name_index]
      /\ UNCHANGED <<touched, magic, header_index, sound>>
  BY DEF WriteTableDone, EndWrite, After, Tables
<1>3. /\ Current \in K /\ Current \in Generation /\ Current.at = header_index /\ touched /\ magic
      /\ Current.offsets = blob_offsets /\ Current.names = name_index
      /\ writing = MultiOf(Current)
      /\ \A g \in K : g \in Generation /\ Older(g, Current)
  BY <1>1, <1>2, CurrentIsPast, CurrentTables, CurrentType DEF SInv, Ahead, Generations, Past
<1>4. LastLoads'
  <2>1. OffsetsOf(Current) \in disk /\ NamesOf(Current) \in disk
    BY DEF SInv, Ahead, Mine
  <2> QED  BY <1>2, <1>3, <2>1 DEF LastLoads, Loads, OffsetsOf, NamesOf, MultiOf
<1>5. ~LastLoads
  <2> SUFFICES ASSUME LastLoads PROVE FALSE
    OBVIOUS
  <2>1. /\ Offsets(last.offsets, header_index) \in disk
        /\ NameTable(last.names, NamesAt(header_index, last.offsets)) \in disk
    BY DEF LastLoads, Loads
  <2>2. PICK g \in K : /\ g = [at |-> header_index, offsets |-> last.offsets, names |-> last.names]
                       /\ \A h \in K : Older(h, g)
    BY <1>1, <2>1, LoadsGeneration DEF LastLoads, Offsets, NameTable
  <2>3. MultiOf(g) \in disk
    BY <2>2 DEF LastLoads, Loads, MultiOf
  <2>4. MultiOf(g).at = MultiOf(Current).at
    <3>1. Older(g, Current) /\ Older(Current, g) /\ g \in Generation /\ g.at = Current.at
      BY <1>3, <2>2
    <3>2. /\ OffsetsLen(g.offsets) = OffsetsLen(Current.offsets)
          /\ NamesLen(g.names) = NamesLen(Current.names)
      BY <1>3, <3>1, OlderLengths, GenerationType
    <3> QED  BY <1>3, <3>1, <3>2, GenerationType
  <2>5. ~Overlap(MultiOf(Current), MultiOf(g))
    BY <1>2, <1>3, <2>3 DEF SInv, Ahead
  <2>6. /\ MultiOf(g).at \in Nat /\ MultiOf(g).len = 8 /\ MultiOf(Current).len = 8
    BY <1>3, <2>2, GenerationType
  <2> QED  BY <2>4, <2>5, <2>6 DEF Overlap
<1>6. Promise!Extends(last', last)
  <2>1. CASE last = Empty
    BY <2>1 DEF Promise!Extends, Empty
  <2>2. CASE \E g \in K : ContentOf(g) = last
    <3>1. PICK g \in K : ContentOf(g) = last
      BY <2>2
    <3>2. Older(g, Current) /\ last.offsets = g.offsets /\ last.names = g.names
      BY <1>3, <3>1 DEF ContentOf
    <3>3. last'.offsets = Current.offsets /\ last'.names = Current.names
      BY <1>2, <1>3
    <3> QED  BY <3>2, <3>3 DEF Promise!Extends, Older
  <2> QED  BY <1>1, <2>1, <2>2 DEF Generations, Past
<1>7. Promise!Commit
  BY <1>2, <1>3, <1>4, <1>5, <1>6 DEF Promise!Commit
<1> QED  BY <1>7 DEF Promise!Next

LEMMA TablePromise ==
  ASSUME IInv, sound, SInv, WriteTableDone
  PROVE  [Promise!Next]_(Promise!vars)
<1>1. CASE wpc = "multi"
  BY <1>1, MultiPromise
<1>2. CASE wpc # "multi"
  <2>1. /\ wpc # "closed" /\ wpc' # "closed" /\ touched /\ disk \subseteq disk'
        /\ UNCHANGED <<touched, magic, header_index, history>>
    BY <1>2 DEF WriteTableDone, EndWrite, After, Tables, IInv, WriterSound, history
  <2>2. LastLoads => LastLoads'
    BY <2>1 DEF LastLoads, Loads, history
  <2> QED  BY <2>1, <2>2, MayMend DEF history
<1> QED  BY <1>1, <1>2

(* A torn index is taken for one: nothing is promised from here on.        *)
LEMMA TornPromise ==
  ASSUME IInv, sound, OpenTorn
  PROVE  [Promise!Next]_(Promise!vars)
<1>1. /\ wpc = "closed" /\ wpc' = "idle" /\ UNCHANGED <<file, last>> /\ sound' = FALSE
      /\ magic /\ ~IndexIntact
  BY DEF OpenTorn
<1>2. touched
  BY <1>1 DEF IInv, DiskSound
<1>3. ~LastLoads
  BY <1>1 DEF LastLoads, IndexIntact, Loads, Offsets, NameTable
<1>4. Content = "broken" /\ Content' = Content
  BY <1>1, <1>2, <1>3 DEF Content, LastLoads, Loads, file
<1>5. Promise!OpenBroken
  BY <1>1, <1>4 DEF Promise!OpenBroken, Content
<1> QED  BY <1>5 DEF Promise!Next

LEMMA PromiseStep == IInv /\ LInv /\ [Next]_vars => [Promise!Next]_(Promise!vars)
<1> SUFFICES ASSUME IInv, LInv, [Next]_vars PROVE [Promise!Next]_(Promise!vars)
  OBVIOUS
<1>1. ASSUME UNCHANGED <<file, wpc, history>> PROVE [Promise!Next]_(Promise!vars)
  BY <1>1, FileSame DEF Promise!vars, Content, history
<1>2. ASSUME NEW n \in Names, NEW d \in Digests, EnterName(n, d) PROVE UNCHANGED <<file, wpc, history>>
  BY <1>2 DEF EnterName
<1>3. ASSUME NEW r \in Readers, ReaderStep(r) PROVE UNCHANGED <<file, wpc, history>>
  BY <1>3 DEF ReaderStep, LoadEmpty, ReadHeader, BeginRead, ReadOffsets, ReadNames, ReadMulti,
              ReadTorn, Restart, Forget
<1>4. ASSUME UNCHANGED vars PROVE UNCHANGED <<file, wpc, history>>
  BY <1>4 DEF vars
<1>5. CASE ~sound
  <2>1. ~sound'
    BY <1>1, <1>3, <1>4, <1>5
    DEF Next, WriterStep, OpenEmpty, OpenLoad, OpenTorn, Insert, InsertDone, EnterName,
        WriteMagic, WriteIndexOffset, WriteTable, WriteTableDone, Stop, history
  <2> QED  BY <1>5, <2>1 DEF Promise!Next, Promise!Anything
<1>6. CASE sound
  <2>1. SInv
    BY <1>6 DEF LInv
  <2> QED
    BY <1>1, <1>2, <1>3, <1>4, <1>6, <2>1, OpenPromise, TornPromise, StopPromise, WritePromise,
       HeaderPromise, TablePromise
    DEF Next, WriterStep
<1> QED  BY <1>5, <1>6

(* From one process to the next the file is empty, or its index is intact  *)
(* and holds what was stored last, or it is broken, wherever a writing     *)
(* process has stopped; and no store takes away what an earlier one has    *)
(* stored.  This holds until a process takes a torn index for one.         *)
THEOREM PromiseKept == Spec => KeepsPromise
BY PromiseInit, PromiseStep, LInvCorrect, PTL DEF Spec, KeepsPromise, Promise!Spec
=============================================================================
