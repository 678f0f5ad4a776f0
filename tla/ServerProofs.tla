---------------------------- MODULE ServerProofs ----------------------------
(***************************************************************************)
(* Proofs about Server and the crate sources it answers from.              *)
(*                                                                         *)
(* First what the operators compute: the metadata of a crate is read as it *)
(* was written (RoundTrip), a path belongs to one crate (PathOf), a source *)
(* yields the archive of the directory or nothing (FileCrate, DirCrate).   *)
(* Then the inductive invariant ServerInv: the storage file, and whatever  *)
(* a thread has loaded of one, was made from archives that are still in    *)
(* the directory and can be rebuilt to the byte, and every link on a page  *)
(* leads to a page that there is.  Last the index: a crate of it is found  *)
(* by its name (CrateIsFound), and the loops that compute the statistics   *)
(* come to what their fields are said to be (LoopsAre, StatisticsAre).     *)
(***************************************************************************)
EXTENDS Server, Recursion, FiniteSetTheorems

-----------------------------------------------------------------------------
(* Sequences.                                                              *)
LEMMA ConcatParts ==
  ASSUME NEW T, NEW p \in Seq(T), NEW q \in Seq(T)
  PROVE  /\ p \o q \in Seq(T) /\ Len(p \o q) = Len(p) + Len(q)
         /\ \A i \in 1..Len(p) : (p \o q)[i] = p[i]
         /\ \A i \in 1..Len(q) : (p \o q)[Len(p) + i] = q[i]
OBVIOUS

LEMMA SeqIsFunction ==
  ASSUME NEW T, NEW q \in Seq(T)
  PROVE  /\ Len(q) \in Nat /\ DOMAIN q = 1..Len(q) /\ q = [i \in 1..Len(q) |-> q[i]]
         /\ \A i \in 1..Len(q) : q[i] \in T
OBVIOUS

LEMMA FunctionIsSeq ==
  ASSUME NEW T, NEW n \in Nat, NEW q \in [1..n -> T]
  PROVE  q \in Seq(T) /\ Len(q) = n
OBVIOUS

-----------------------------------------------------------------------------
(* Serialized metadata.                                                     *)
Tokens ==
  {"u64", "u8", "byte", "header", "digest"} \X (Nat \cup {MaxU64} \cup STRING \cup EntryPaths \cup Contents)

NameLength(name) == IF name = None THEN 0 ELSE Len(name)

LEMMA NameFieldParts ==
  ASSUME NEW name \in OptionalName
  PROVE  LET f == NameField(name)
             n == NameLength(name)
         IN /\ f \in Seq(Tokens) /\ n \in Nat /\ Len(f) = n + 1
            /\ f[1] = <<"u64", IF name = None THEN MaxU64 ELSE n>>
            /\ \A i \in 1..n : f[i + 1] = <<"byte", name[i]>>
<1>1. CASE name = None
  <2>1. NameField(name) = << <<"u64", MaxU64>> >> /\ NameLength(name) = 0
    BY <1>1 DEF NameField, u64, NameLength
  <2>2. <<"u64", MaxU64>> \in Tokens
    BY DEF Tokens
  <2> QED  BY <1>1, <2>1, <2>2
<1>2. CASE name # None
  <2> DEFINE n == Len(name)
             a == << <<"u64", n>> >>
             b == [i \in 1..n |-> <<"byte", name[i]>>]
  <2>1. n \in Nat /\ DOMAIN name = 1..n /\ \A i \in 1..n : name[i] \in STRING
    BY <1>2 DEF OptionalName
  <2>2. NameField(name) = a \o b
    BY <1>2, <2>1 DEF NameField, delim, u64, bytes
  <2>3. b \in Seq(Tokens) /\ Len(b) = n
    <3>1. b \in [1..n -> Tokens]
      BY <2>1 DEF Tokens
    <3> QED  BY <2>1, <3>1, FunctionIsSeq
  <2>4. <<"u64", n>> \in Tokens
    BY <2>1 DEF Tokens
  <2>5. a \in Seq(Tokens) /\ Len(a) = 1 /\ a[1] = <<"u64", n>>
    BY <2>4
  <2>6. \A i \in 1..n : b[i] = <<"byte", name[i]>>
    OBVIOUS
  <2>11. n \in Nat
    BY <2>1
  <2> HIDE DEF a, b, n
  <2>7. /\ a \o b \in Seq(Tokens) /\ Len(a \o b) = 1 + n
        /\ (a \o b)[1] = a[1] /\ \A i \in 1..n : (a \o b)[1 + i] = b[i]
    <3>1. 1 \in 1..Len(a)
      BY <2>5
    <3> QED  BY <2>3, <2>5, <2>11, <3>1, ConcatParts
  <2>8. NameLength(name) = n
    BY <1>2 DEF NameLength, n
  <2>9. \A i \in 1..n : 1 + i = i + 1
    BY <2>1
  <2>10. 1 + n = n + 1
    BY <2>1
  <2> QED  BY <1>2, <2>1, <2>2, <2>5, <2>6, <2>7, <2>8, <2>9, <2>10
<1> QED  BY <1>1, <1>2

(* What the serialized form of meta holds, by position.                    *)
SerializedParts(in, meta) ==
  LET n == NameLength(meta.name)
      count == Len(meta.entry_metadata)
  IN /\ n \in Nat /\ count \in Nat /\ in \in Seq(Tokens) /\ Len(in) = n + 3 + 2 * count
     /\ in[1] = <<"u64", IF meta.name = None THEN MaxU64 ELSE n>>
     /\ \A i \in 1..n : in[i + 1] = <<"byte", meta.name[i]>>
     /\ in[n + 2] = <<"u8", meta.os>>
     /\ in[n + 3] = <<"u64", count>>
     /\ \A i \in 1..count : /\ in[n + 2 + 2 * i] = <<"header", meta.entry_metadata[i][1]>>
                            /\ in[n + 3 + 2 * i] = <<"digest", meta.entry_metadata[i][2]>>

LEMMA Serialized ==
  ASSUME NEW meta \in Meta
  PROVE  SerializedParts(serialize(meta), meta)
<1> DEFINE n == NameLength(meta.name)
           count == Len(meta.entry_metadata)
           entry(i) == meta.entry_metadata[(i + 1) \div 2]
           f == NameField(meta.name)
           b == << <<"u8", meta.os>> >>
           c == << <<"u64", count>> >>
           d == [i \in 1 .. 2 * count |-> IF i % 2 = 1 THEN <<"header", entry(i)[1]>>
                                                      ELSE <<"digest", entry(i)[2]>>]
<1>1. /\ meta.name \in OptionalName /\ meta.os \in STRING
      /\ meta.entry_metadata \in Seq(EntryPaths \X Contents)
  BY DEF Meta
<1>2. /\ count \in Nat
      /\ \A i \in 1..count : /\ meta.entry_metadata[i][1] \in EntryPaths
                             /\ meta.entry_metadata[i][2] \in Contents
  BY <1>1
<1>3. \A i \in 1 .. 2 * count : (i + 1) \div 2 \in 1..count
  BY <1>2
<1>4. d \in Seq(Tokens) /\ Len(d) = 2 * count
  <2>1. d \in [1 .. 2 * count -> Tokens]
    BY <1>2, <1>3 DEF Tokens
  <2>2. 2 * count \in Nat
    BY <1>2
  <2> QED  BY <2>1, <2>2, FunctionIsSeq
<1>5. \A i \in 1..count : /\ d[2 * i - 1] = <<"header", meta.entry_metadata[i][1]>>
                          /\ d[2 * i] = <<"digest", meta.entry_metadata[i][2]>>
  <2> TAKE i \in 1..count
  <2>1. /\ 2 * i - 1 \in 1 .. 2 * count /\ 2 * i \in 1 .. 2 * count
        /\ (2 * i - 1) % 2 = 1 /\ (2 * i) % 2 = 0
        /\ ((2 * i - 1) + 1) \div 2 = i /\ (2 * i + 1) \div 2 = i
    BY <1>2
  <2> QED  BY <2>1
<1>6. b \in Seq(Tokens) /\ c \in Seq(Tokens) /\ Len(b) = 1 /\ Len(c) = 1
  <2>1. <<"u8", meta.os>> \in Tokens /\ <<"u64", count>> \in Tokens
    BY <1>1, <1>2 DEF Tokens
  <2> QED  BY <2>1
<1>7. b[1] = <<"u8", meta.os>> /\ c[1] = <<"u64", count>>
  OBVIOUS
<1>8. /\ f \in Seq(Tokens) /\ n \in Nat /\ Len(f) = n + 1
      /\ f[1] = <<"u64", IF meta.name = None THEN MaxU64 ELSE n>>
      /\ \A i \in 1..n : f[i + 1] = <<"byte", meta.name[i]>>
  BY <1>1, NameFieldParts
<1>9. serialize(meta) = ((f \o b) \o c) \o d
  BY DEF serialize, u8, u64
<1> HIDE DEF b, c, d, f, n, count
<1>10. /\ f \o b \in Seq(Tokens) /\ Len(f \o b) = n + 2
       /\ \A i \in 1..(n + 1) : (f \o b)[i] = f[i]
       /\ (f \o b)[n + 2] = b[1]
  <2>1. 1 \in 1..Len(b) /\ (n + 1) + 1 = n + 2
    BY <1>6, <1>8
  <2> QED  BY <1>6, <1>8, <2>1, ConcatParts
<1> DEFINE g == f \o b
<1> HIDE DEF g
<1>11. /\ g \o c \in Seq(Tokens) /\ Len(g \o c) = n + 3
       /\ \A i \in 1..(n + 2) : (g \o c)[i] = g[i]
       /\ (g \o c)[n + 3] = c[1]
  <2>1. 1 \in 1..Len(c) /\ (n + 2) + 1 = n + 3
    BY <1>6, <1>8
  <2>2. g \in Seq(Tokens) /\ Len(g) = n + 2
    BY <1>10 DEF g
  <2>3. /\ g \o c \in Seq(Tokens) /\ Len(g \o c) = Len(g) + Len(c)
        /\ \A i \in 1..Len(g) : (g \o c)[i] = g[i]
        /\ \A i \in 1..Len(c) : (g \o c)[Len(g) + i] = c[i]
    BY <1>6, <2>2, ConcatParts
  <2>4. (g \o c)[n + 3] = c[1]
    BY <2>1, <2>2, <2>3
  <2>5. Len(g \o c) = n + 3
    BY <1>6, <1>8, <2>2, <2>3
  <2> QED  BY <2>2, <2>3, <2>4, <2>5
<1> DEFINE h == g \o c
<1> HIDE DEF h
<1>12. /\ h \o d \in Seq(Tokens) /\ Len(h \o d) = n + 3 + 2 * count
       /\ \A i \in 1..(n + 3) : (h \o d)[i] = h[i]
       /\ \A i \in 1 .. 2 * count : (h \o d)[n + 3 + i] = d[i]
  BY <1>4, <1>11, ConcatParts DEF h
<1>13. serialize(meta) = h \o d
  BY <1>9 DEF g, h
<1>14. /\ 1 \in 1..(n + 1) /\ 1 \in 1..(n + 2) /\ 1 \in 1..(n + 3)
       /\ n + 2 \in 1..(n + 2) /\ n + 2 \in 1..(n + 3) /\ n + 3 \in 1..(n + 3)
       /\ \A i \in 1..n : i + 1 \in 1..(n + 1) /\ i + 1 \in 1..(n + 2) /\ i + 1 \in 1..(n + 3)
  BY <1>8
<1>15. \A i \in 1..(n + 1) : i \in 1..(n + 2) /\ i \in 1..(n + 3) /\ (h \o d)[i] = f[i]
  <2>1. \A i \in 1..(n + 1) : i \in 1..(n + 2) /\ i \in 1..(n + 3)
    BY <1>8
  <2> QED  BY <2>1, <1>10, <1>11, <1>12 DEF g, h
<1>16. (h \o d)[n + 2] = <<"u8", meta.os>> /\ (h \o d)[n + 3] = <<"u64", count>>
  BY <1>7, <1>10, <1>11, <1>12, <1>14 DEF g, h
<1>17. \A i \in 1..count :
         /\ (h \o d)[n + 2 + 2 * i] = <<"header", meta.entry_metadata[i][1]>>
         /\ (h \o d)[n + 3 + 2 * i] = <<"digest", meta.entry_metadata[i][2]>>
  <2> TAKE i \in 1..count
  <2>1. /\ 2 * i - 1 \in 1 .. 2 * count /\ 2 * i \in 1 .. 2 * count
        /\ n + 3 + (2 * i - 1) = n + 2 + 2 * i
    BY <1>2, <1>8 DEF count
  <2> QED  BY <2>1, <1>5, <1>12
<1>18. \A i \in 1..n : (h \o d)[i + 1] = <<"byte", meta.name[i]>>
  BY <1>8, <1>14, <1>15
<1>19. (h \o d)[1] = <<"u64", IF meta.name = None THEN MaxU64 ELSE n>>
  BY <1>8, <1>14, <1>15
<1>20. count \in Nat
  BY <1>2 DEF count
<1> QED  BY <1>8, <1>12, <1>13, <1>16, <1>17, <1>18, <1>19, <1>20 DEF SerializedParts, n, count

LEMMA RoundTrip ==
  ASSUME NEW meta \in Meta
  PROVE  deserialize(serialize(meta)) = meta
<1> DEFINE in == serialize(meta)
           n == NameLength(meta.name)
           count == Len(meta.entry_metadata)
<1>1. SerializedParts(in, meta)
  BY Serialized
<1>2. /\ meta.name \in OptionalName
      /\ meta.entry_metadata \in Seq(EntryPaths \X Contents)
      /\ meta = [name |-> meta.name, os |-> meta.os, entry_metadata |-> meta.entry_metadata]
  BY DEF Meta
<1> HIDE DEF in
<1>3. /\ n \in Nat /\ count \in Nat /\ in \in Seq(Tokens) /\ Len(in) = n + 3 + 2 * count
      /\ in[1] = <<"u64", IF meta.name = None THEN MaxU64 ELSE n>>
      /\ \A i \in 1..n : in[i + 1] = <<"byte", meta.name[i]>>
      /\ in[n + 2] = <<"u8", meta.os>>
      /\ in[n + 3] = <<"u64", count>>
      /\ \A i \in 1..count : /\ in[n + 2 + 2 * i] = <<"header", meta.entry_metadata[i][1]>>
                             /\ in[n + 3 + 2 * i] = <<"digest", meta.entry_metadata[i][2]>>
  BY <1>1 DEF SerializedParts
<1>4. n # MaxU64
  BY <1>3, RecConstantsOK
<1>5. /\ in[1][1] = "u64" /\ (in[1][2] = MaxU64 <=> meta.name = None)
      /\ (IF in[1][2] = MaxU64 THEN 0 ELSE in[1][2]) = n
  BY <1>3, <1>4 DEF NameLength
<1>6. in # <<>>
  BY <1>3
<1> DEFINE dname == IF meta.name = None THEN None ELSE [i \in 1..n |-> in[i + 1][2]]
           dentries == [i \in 1..count |-> <<in[n + 2 + 2 * i][2], in[n + 3 + 2 * i][2]>>]
<1>7. dname = meta.name
  <2>1. CASE meta.name # None
    <3>1. meta.name \in Seq(STRING) /\ n = Len(meta.name)
      BY <1>2, <2>1 DEF OptionalName, NameLength
    <3>2. meta.name = [i \in 1..n |-> meta.name[i]]
      BY <3>1
    <3>3. \A i \in 1..n : in[i + 1][2] = meta.name[i]
      BY <1>3
    <3> QED  BY <2>1, <3>2, <3>3
  <2> QED  BY <2>1
<1>8. dentries = meta.entry_metadata
  <2>1. ASSUME NEW i \in 1..count
        PROVE  <<in[n + 2 + 2 * i][2], in[n + 3 + 2 * i][2]>> = meta.entry_metadata[i]
    <3>1. in[n + 2 + 2 * i][2] = meta.entry_metadata[i][1] /\ in[n + 3 + 2 * i][2] = meta.entry_metadata[i][2]
      BY <1>3
    <3>2. meta.entry_metadata[i] = <<meta.entry_metadata[i][1], meta.entry_metadata[i][2]>>
      BY <1>2
    <3> QED  BY <3>1, <3>2
  <2>2. meta.entry_metadata = [i \in 1..count |-> meta.entry_metadata[i]]
    BY <1>2
  <2> QED  BY <2>1, <2>2
<1>9. \A i \in 1..n : in[i + 1][1] = "byte"
  BY <1>3
<1>10. in[n + 2][1] = "u8" /\ in[n + 2][2] = meta.os /\ in[n + 3][1] = "u64" /\ in[n + 3][2] = count
  BY <1>3
<1>11. \A i \in 1..count : in[n + 2 + 2 * i][1] = "header" /\ in[n + 3 + 2 * i][1] = "digest"
  BY <1>3
<1>12. Len(in) >= n + 3 /\ Len(in) >= n + 3 + 2 * count
  BY <1>3
<1> DEFINE len == IF in[1][2] = MaxU64 THEN 0 ELSE in[1][2]
<1>13. deserialize(in) = [name |-> dname, os |-> meta.os, entry_metadata |-> dentries]
  <2> HIDE DEF n, count
  <2>1. len = n
    BY <1>5
  <2>2. n \in Nat /\ count \in Nat /\ Len(in) \in Nat
    BY <1>3
  <2>3. ~ \/ in = <<>> \/ in[1][1] # "u64"
          \/ Len(in) < n + 3 \/ \E i \in 1..n : in[i + 1][1] # "byte"
          \/ in[n + 2][1] # "u8" \/ in[n + 3][1] # "u64"
          \/ Len(in) < n + 3 + 2 * in[n + 3][2]
          \/ \E i \in 1..in[n + 3][2] : in[n + 2 + 2 * i][1] # "header" \/ in[n + 3 + 2 * i][1] # "digest"
    BY <1>5, <1>6, <1>9, <1>10, <1>11, <1>12, <2>2
  <2> HIDE DEF dname, dentries, len
  <2>4. deserialize(in) =
          IF \/ in = <<>> \/ in[1][1] # "u64"
             \/ Len(in) < len + 3 \/ \E i \in 1..len : in[i + 1][1] # "byte"
             \/ in[len + 2][1] # "u8" \/ in[len + 3][1] # "u64"
             \/ Len(in) < len + 3 + 2 * in[len + 3][2]
             \/ \E i \in 1..in[len + 3][2] :
                  in[len + 2 + 2 * i][1] # "header" \/ in[len + 3 + 2 * i][1] # "digest"
          THEN None
          ELSE [name |-> IF in[1][2] = MaxU64 THEN None ELSE [i \in 1..len |-> in[i + 1][2]],
                os |-> in[len + 2][2],
                entry_metadata |-> [i \in 1..in[len + 3][2] |->
                                      <<in[len + 2 + 2 * i][2], in[len + 3 + 2 * i][2]>>]]
    BY DEF deserialize, len
  <2>5. deserialize(in) =
          [name |-> IF in[1][2] = MaxU64 THEN None ELSE [i \in 1..n |-> in[i + 1][2]],
           os |-> in[n + 2][2],
           entry_metadata |-> [i \in 1..in[n + 3][2] |->
                                 <<in[n + 2 + 2 * i][2], in[n + 3 + 2 * i][2]>>]]
    BY <2>1, <2>3, <2>4
  <2>6. (IF in[1][2] = MaxU64 THEN None ELSE [i \in 1..n |-> in[i + 1][2]]) = dname
    BY <1>5 DEF dname
  <2>7. [i \in 1..in[n + 3][2] |-> <<in[n + 2 + 2 * i][2], in[n + 3 + 2 * i][2]>>] = dentries
    BY <1>10 DEF dentries
  <2> QED  BY <1>10, <2>5, <2>6, <2>7
<1> QED  BY <1>2, <1>7, <1>8, <1>13 DEF in

-----------------------------------------------------------------------------
(* Archives and their metadata.                                             *)
MetaOf(a) == into_meta_with_blobs(from_archive_file(a)).meta

LEMMA MetaParts ==
  ASSUME NEW a \in Archive, a.kind = "exact"
  PROVE  /\ MetaOf(a) \in Meta
         /\ MetaOf(a).name = a.name /\ MetaOf(a).os = a.os
         /\ DOMAIN MetaOf(a).entry_metadata = DOMAIN a.raw
         /\ \A i \in DOMAIN a.raw : MetaOf(a).entry_metadata[i] = <<a.raw[i].path, a.raw[i].content>>
         /\ DOMAIN into_meta_with_blobs(from_archive_file(a)).blobs = DOMAIN a.raw
         /\ \A i \in DOMAIN a.raw :
              into_meta_with_blobs(from_archive_file(a)).blobs[i] = <<a.raw[i].content, a.raw[i].content>>
<1>1. a.name \in OptionalName /\ a.os \in STRING /\ a.raw \in Seq(Entry)
  BY DEF Archive
<1>2. from_archive_file(a) = [name |-> a.name, os |-> a.os, entries |-> a.raw]
  BY DEF from_archive_file
<1> DEFINE em == [i \in DOMAIN a.raw |-> <<a.raw[i].path, a.raw[i].content>>]
<1>3. MetaOf(a) = [name |-> a.name, os |-> a.os, entry_metadata |-> em]
  BY <1>2 DEF MetaOf, into_meta_with_blobs
<1>4. em \in Seq(EntryPaths \X Contents)
  <2>1. Len(a.raw) \in Nat /\ DOMAIN a.raw = 1..Len(a.raw) /\ \A i \in 1..Len(a.raw) : a.raw[i] \in Entry
    BY <1>1
  <2>2. em \in [1..Len(a.raw) -> EntryPaths \X Contents]
    BY <2>1 DEF Entry
  <2> QED  BY <2>1, <2>2, FunctionIsSeq
<1>5. MetaOf(a) \in Meta
  <2> HIDE DEF em
  <2> QED  BY <1>1, <1>3, <1>4 DEF Meta
<1>6. into_meta_with_blobs(from_archive_file(a)).blobs =
        [i \in DOMAIN a.raw |-> <<a.raw[i].content, a.raw[i].content>>]
  BY <1>2 DEF into_meta_with_blobs
<1> QED  BY <1>3, <1>5, <1>6

LEMMA Rebuilt ==
  ASSUME NEW a \in Archive, a.kind = "exact"
  PROVE  to_archive_file(from_meta_with_blobs(
           [meta |-> MetaOf(a),
            blobs |-> [i \in DOMAIN MetaOf(a).entry_metadata |->
                         <<MetaOf(a).entry_metadata[i][2], MetaOf(a).entry_metadata[i][2]>>]])) = a
<1> DEFINE m == MetaOf(a)
           bs == [i \in DOMAIN m.entry_metadata |-> <<m.entry_metadata[i][2], m.entry_metadata[i][2]>>]
           es == [i \in DOMAIN m.entry_metadata |-> [path |-> m.entry_metadata[i][1], content |-> bs[i][2]]]
<1>1. a.name \in OptionalName /\ a.os \in STRING /\ a.raw \in Seq(Entry)
  BY DEF Archive
<1>2. /\ m.name = a.name /\ m.os = a.os /\ DOMAIN m.entry_metadata = DOMAIN a.raw
      /\ \A i \in DOMAIN a.raw : m.entry_metadata[i] = <<a.raw[i].path, a.raw[i].content>>
  BY MetaParts
<1> HIDE DEF m
<1>3. es = a.raw
  <2>1. \A i \in DOMAIN a.raw : bs[i][2] = a.raw[i].content /\ m.entry_metadata[i][1] = a.raw[i].path
    BY <1>2
  <2>2. DOMAIN a.raw = 1..Len(a.raw) /\ \A i \in 1..Len(a.raw) : a.raw[i] \in Entry
    BY <1>1
  <2>3. \A i \in DOMAIN a.raw : a.raw[i] = [path |-> a.raw[i].path, content |-> a.raw[i].content]
    BY <2>2 DEF Entry
  <2> HIDE DEF bs
  <2>4. \A i \in DOMAIN a.raw : es[i] = a.raw[i]
    BY <1>2, <2>1, <2>3
  <2>5. DOMAIN es = DOMAIN a.raw
    BY <1>2
  <2>6. a.raw = [i \in DOMAIN a.raw |-> a.raw[i]] /\ es = [i \in DOMAIN es |-> es[i]]
    BY <1>1
  <2> HIDE DEF es
  <2> QED  BY <2>4, <2>5, <2>6
<1>4. to_archive_file(from_meta_with_blobs([meta |-> m, blobs |-> bs])) =
        [kind |-> "exact", name |-> m.name, os |-> m.os, raw |-> es]
  BY DEF to_archive_file, from_meta_with_blobs
<1>5. a = [kind |-> a.kind, name |-> a.name, os |-> a.os, raw |-> a.raw]
  BY DEF Archive
<1> HIDE DEF es, bs
<1>6. to_archive_file(from_meta_with_blobs([meta |-> m, blobs |-> bs])) = a
  BY <1>2, <1>3, <1>4, <1>5
<1> QED  BY <1>6 DEF m, bs

-----------------------------------------------------------------------------
(* What a storage file has of a crate.                                      *)
ArchivesIn(arch) == \A s \in DOMAIN arch : arch[s] \in Archive

SoundFile(st, arch) ==
  \A s \in DOMAIN st.name_index :
    s \in DOMAIN arch /\ arch[s].kind = "exact" /\ st.name_index[s] = serialize(MetaOf(arch[s]))

Complete(st, arch, s) ==
  /\ s \in DOMAIN st.name_index /\ st.name_index[s] \in st.blobs
  /\ \A e \in Range(arch[s].raw) : e.content \in st.blobs

LEMMA MetaStored ==
  ASSUME NEW st, NEW arch, ArchivesIn(arch), SoundFile(st, arch), NEW s
  PROVE  get_crate_rec_meta(st, s) =
           IF s \in DOMAIN st.name_index /\ st.name_index[s] \in st.blobs THEN MetaOf(arch[s]) ELSE None
<1>1. CASE s \in DOMAIN st.name_index /\ st.name_index[s] \in st.blobs
  <2>1. arch[s] \in Archive /\ arch[s].kind = "exact" /\ st.name_index[s] = serialize(MetaOf(arch[s]))
    BY <1>1 DEF ArchivesIn, SoundFile
  <2>2. deserialize(st.name_index[s]) = MetaOf(arch[s])
    BY <2>1, MetaParts, RoundTrip
  <2> QED  BY <1>1, <2>2 DEF get_crate_rec_meta
<1>2. CASE ~(s \in DOMAIN st.name_index /\ st.name_index[s] \in st.blobs)
  BY <1>2 DEF get_crate_rec_meta
<1> QED  BY <1>1, <1>2

LEMMA MetaIsNotNone ==
  ASSUME NEW a \in Archive, a.kind = "exact"
  PROVE  MetaOf(a) # None
BY MetaParts, RecConstantsOK

LEMMA CrateStored ==
  ASSUME NEW st, NEW arch, ArchivesIn(arch), SoundFile(st, arch), NEW s
  PROVE  StoredCrate(st, s) = IF Complete(st, arch, s) THEN arch[s] ELSE None
<1> DEFINE meta == get_crate_rec_meta(st, s)
           blobs == [i \in DOMAIN meta.entry_metadata |->
                       <<meta.entry_metadata[i][2], meta.entry_metadata[i][2]>>]
<1>0. StoredCrate(st, s) =
        IF meta = None \/ \E i \in DOMAIN meta.entry_metadata : meta.entry_metadata[i][2] \notin st.blobs
        THEN None
        ELSE to_archive_file(from_meta_with_blobs([meta |-> meta, blobs |-> blobs]))
  BY DEF StoredCrate
<1>1. CASE ~(s \in DOMAIN st.name_index /\ st.name_index[s] \in st.blobs)
  <2>1. meta = None
    BY <1>1, MetaStored
  <2> HIDE DEF meta
  <2> QED  BY <1>0, <1>1, <2>1 DEF Complete
<1>2. CASE s \in DOMAIN st.name_index /\ st.name_index[s] \in st.blobs
  <2> DEFINE a == arch[s]
  <2>1. a \in Archive /\ a.kind = "exact"
    BY <1>2 DEF ArchivesIn, SoundFile
  <2>2. meta = MetaOf(a)
    BY <1>2, MetaStored
  <2>3. meta # None
    BY <2>1, <2>2, MetaIsNotNone
  <2>4. /\ DOMAIN meta.entry_metadata = DOMAIN a.raw
        /\ \A i \in DOMAIN a.raw : meta.entry_metadata[i] = <<a.raw[i].path, a.raw[i].content>>
    BY <2>1, <2>2, MetaParts
  <2>5. to_archive_file(from_meta_with_blobs([meta |-> meta, blobs |-> blobs])) = a
    BY <2>1, <2>2, Rebuilt
  <2> HIDE DEF meta, a
  <2>6. (\E i \in DOMAIN meta.entry_metadata : meta.entry_metadata[i][2] \notin st.blobs)
          <=> \E i \in DOMAIN a.raw : a.raw[i].content \notin st.blobs
    BY <2>4
  <2>7. (\A e \in Range(a.raw) : e.content \in st.blobs)
          <=> ~ \E i \in DOMAIN a.raw : a.raw[i].content \notin st.blobs
    BY DEF Range
  <2>8. Complete(st, arch, s) <=> \A e \in Range(a.raw) : e.content \in st.blobs
    BY <1>2 DEF Complete, a
  <2> HIDE DEF blobs
  <2>9. StoredCrate(st, s) = IF Complete(st, arch, s) THEN a ELSE None
    BY <1>0, <2>3, <2>5, <2>6, <2>7, <2>8
  <2> QED  BY <2>9 DEF a
<1> QED  BY <1>1, <1>2

-----------------------------------------------------------------------------
(* Directories: the path of a crate is that of no other.                    *)
LEMMA NamePath ==
  ASSUME NEW n
  PROVE  \E T : obtain_crate_name_path(n) \in Seq(T)
<1>1. ASSUME NEW a, NEW b PROVE \E T : <<a, b>> \in Seq(T)
  <2>1. <<a, b>> \in Seq({a, b})
    OBVIOUS
  <2> QED  BY <2>1
<1>2. ASSUME NEW a, NEW b, NEW c PROVE \E T : <<a, b, c>> \in Seq(T)
  <2>1. <<a, b, c>> \in Seq({a, b, c})
    OBVIOUS
  <2> QED  BY <2>1
<1>3. \/ \E a, b : obtain_crate_name_path(n) = <<a, b>>
      \/ \E a, b, c : obtain_crate_name_path(n) = <<a, b, c>>
  <2>1. CASE Len(n) = 1 \/ Len(n) = 2
    BY <2>1 DEF obtain_crate_name_path
  <2>2. CASE Len(n) # 1 /\ Len(n) # 2
    BY <2>2 DEF obtain_crate_name_path
  <2> QED  BY <2>1, <2>2
<1> QED  BY <1>1, <1>2, <1>3

LEMMA LastSame ==
  ASSUME NEW T, NEW p \in Seq(T), NEW q \in Seq(T), NEW x \in T, NEW y \in T, Append(p, x) = Append(q, y)
  PROVE  x = y
<1>1. Len(Append(p, x)) = Len(p) + 1 /\ Len(Append(q, y)) = Len(q) + 1
  OBVIOUS
<1>2. Append(p, x)[Len(p) + 1] = x /\ Append(q, y)[Len(q) + 1] = y
  OBVIOUS
<1>3. Len(p) = Len(q)
  BY <1>1
<1> QED  BY <1>2, <1>3

LEMMA SeqMonotone ==
  ASSUME NEW T, NEW U, T \subseteq U, NEW q \in Seq(T)
  PROVE  q \in Seq(U)
OBVIOUS

LEMMA PathOf ==
  ASSUME NEW src, NEW s, NEW t, FilePath(src, s) = FilePath(src, t)
  PROVE  s = t
<1>1. CASE src.kind = "cache"
  BY <1>1 DEF FilePath
<1>2. CASE src.kind # "cache"
  <2> DEFINE p == obtain_crate_name_path(s[1])
             q == obtain_crate_name_path(t[1])
  <2>1. Append(p, s) = Append(q, t)
    BY <1>2 DEF FilePath
  <2>2. PICK T : p \in Seq(T)
    BY NamePath
  <2>3. PICK U : q \in Seq(U)
    BY NamePath
  <2> DEFINE V == T \cup U \cup {s, t}
  <2> HIDE DEF p, q
  <2>4. T \subseteq V /\ U \subseteq V /\ s \in V /\ t \in V
    OBVIOUS
  <2> HIDE DEF V
  <2>5. p \in Seq(V) /\ q \in Seq(V)
    BY <2>2, <2>3, <2>4, SeqMonotone
  <2> QED  BY <2>1, <2>4, <2>5, LastSame
<1> QED  BY <1>1, <1>2

LEMMA DirParts ==
  ASSUME NEW kind, NEW s
  PROVE  LET src == [kind |-> kind, dir |-> Dir(kind)]
         IN /\ FilePath(src, s) \in DOMAIN src.dir <=> s \in DOMAIN Archives[archives]
            /\ s \in DOMAIN Archives[archives] => src.dir[FilePath(src, s)] = Archives[archives][s]
<1> DEFINE a == Archives[archives]
           at(t) == FilePath([kind |-> kind], t)
           d == [p \in {at(t) : t \in DOMAIN a} |-> a[CHOOSE t \in DOMAIN a : at(t) = p]]
           src == [kind |-> kind, dir |-> Dir(kind)]
<1>1. Dir(kind) = d
  BY DEF Dir
<1>2. FilePath(src, s) = at(s)
  BY DEF FilePath
<1>3. \A t, u : at(t) = at(u) => t = u
  BY PathOf
<1>4. src.dir = d
  BY <1>1
<1> HIDE DEF src, at, a
<1>5. at(s) \in DOMAIN d <=> s \in DOMAIN a
  BY <1>3
<1>6. ASSUME s \in DOMAIN a PROVE d[at(s)] = a[s]
  <2>1. (CHOOSE t \in DOMAIN a : at(t) = at(s)) = s
    BY <1>3, <1>6
  <2> QED  BY <1>6, <2>1
<1> QED  BY <1>2, <1>4, <1>5, <1>6 DEF src, a

-----------------------------------------------------------------------------
(* Archives read as they are: without long paths, nothing is joined.        *)
Reading(raw, g) ==
  g = [i \in 0..Len(raw) |->
        IF i = 0 THEN [files |-> <<>>, long |-> None]
        ELSE LET s == g[i - 1]
                 e == raw[i]
             IN IF e.path = LongLink THEN [s EXCEPT !.long = e.content]
                ELSE [files |-> Append(s.files, IF s.long = None THEN e ELSE [e EXCEPT !.path = s.long]),
                      long |-> None]]

LEMMA JoinedReads ==
  ASSUME NEW raw, \E g : Reading(raw, g)
  PROVE  \E g : Reading(raw, g) /\ Joined(raw) = g[Len(raw)].files
<1> DEFINE f == CHOOSE g : Reading(raw, g)
<1>1. Reading(raw, f)
  OBVIOUS
<1>2. Joined(raw) = f[Len(raw)].files
  BY DEF Joined, Reading
<1> QED  BY <1>1, <1>2

(* The first n elements.                                                   *)
FirstOf(q, n) == [i \in 1..n |-> q[i]]

LEMMA FirstOfMore ==
  ASSUME NEW T, NEW q \in Seq(T), NEW n \in 1..Len(q)
  PROVE  /\ FirstOf(q, 0) = <<>> /\ FirstOf(q, Len(q)) = q
         /\ Append(FirstOf(q, n - 1), q[n]) = FirstOf(q, n)
<1> DEFINE p == FirstOf(q, n - 1)
<1>1. /\ n - 1 \in Nat /\ n \in Nat /\ Len(q) \in Nat
      /\ \A i \in 1..n : i \in 1..Len(q) /\ (i = n \/ i \in 1..(n - 1))
      /\ \A i \in 1..(n - 1) : i \in 1..Len(q) /\ i # n
  OBVIOUS
<1>2. \A i \in 1..Len(q) : q[i] \in T
  OBVIOUS
<1>3. p \in Seq(T) /\ Len(p) = n - 1 /\ \A i \in 1..(n - 1) : p[i] = q[i]
  <2>1. p \in [1..(n - 1) -> T]
    BY <1>1, <1>2 DEF FirstOf
  <2>2. \A i \in 1..(n - 1) : p[i] = q[i]
    BY DEF FirstOf
  <2> QED  BY <1>1, <2>1, <2>2, FunctionIsSeq
<1> DEFINE r == FirstOf(q, n)
<1>4. DOMAIN r = 1..n /\ \A i \in 1..n : r[i] = q[i]
  BY DEF FirstOf
<1>5. r = [i \in 1..n |-> r[i]]
  BY DEF FirstOf
<1> HIDE DEF p, r
<1>6. q[n] \in T
  BY <1>2
<1>7. /\ Append(p, q[n]) \in Seq(T) /\ Len(Append(p, q[n])) = n
      /\ \A i \in 1..(n - 1) : Append(p, q[n])[i] = p[i]
      /\ Append(p, q[n])[n] = q[n]
  BY <1>1, <1>3, <1>6
<1>8. Append(p, q[n]) = [i \in 1..n |-> Append(p, q[n])[i]]
  BY <1>7
<1>9. \A i \in 1..n : Append(p, q[n])[i] = r[i]
  BY <1>1, <1>3, <1>4, <1>7
<1>10. Append(p, q[n]) = r
  BY <1>5, <1>8, <1>9
<1>11. FirstOf(q, 0) = <<>> /\ FirstOf(q, Len(q)) = q
  BY DEF FirstOf
<1> QED  BY <1>10, <1>11 DEF p, r

LEMMA PlainIsAsItIs ==
  ASSUME NEW raw \in Seq(Entry), \A i \in DOMAIN raw : raw[i].path # LongLink
  PROVE  Joined(raw) = raw
<1> DEFINE n == Len(raw)
           at(i) == [files |-> FirstOf(raw, i), long |-> None]
           g == [i \in 0..n |-> at(i)]
<1>1. n \in Nat /\ DOMAIN raw = 1..n
  OBVIOUS
<1>2. ASSUME NEW i \in 0..n, i # 0, NEW s, s = at(i - 1)
      PROVE  (LET e == raw[i] IN
              IF e.path = LongLink THEN [s EXCEPT !.long = e.content]
              ELSE [files |-> Append(s.files, IF s.long = None THEN e ELSE [e EXCEPT !.path = s.long]),
                    long |-> None]) = at(i)
  <2>1. i \in 1..n /\ raw[i].path # LongLink
    BY <1>1, <1>2
  <2>2. Append(FirstOf(raw, i - 1), raw[i]) = FirstOf(raw, i)
    BY <2>1, FirstOfMore
  <2>3. s.files = FirstOf(raw, i - 1) /\ s.long = None
    BY <1>2
  <2> QED  BY <2>1, <2>2, <2>3
<1>3. at(0) = [files |-> <<>>, long |-> None]
  BY DEF FirstOf
<1> HIDE DEF at
<1>4. Reading(raw, g)
  <2>1. \A i \in 0..n : i # 0 => i - 1 \in 0..n
    BY <1>1
  <2>2. ASSUME NEW i \in 0..n
        PROVE g[i] = IF i = 0 THEN [files |-> <<>>, long |-> None]
                     ELSE LET s == g[i - 1]
                              e == raw[i]
                          IN IF e.path = LongLink THEN [s EXCEPT !.long = e.content]
                             ELSE [files |-> Append(s.files, IF s.long = None THEN e
                                                             ELSE [e EXCEPT !.path = s.long]),
                                   long |-> None]
    <3>1. g[i] = at(i)
      OBVIOUS
    <3>2. CASE i = 0
      BY <1>3, <3>1, <3>2
    <3>3. CASE i # 0
      <4>1. g[i - 1] = at(i - 1)
        BY <2>1, <3>3
      <4> HIDE DEF g
      <4> QED  BY <1>2, <3>1, <3>3, <4>1
    <3> QED  BY <3>2, <3>3
  <2>3. g = [i \in 0..n |-> g[i]]
    OBVIOUS
  <2> HIDE DEF g
  <2> QED  BY <2>2, <2>3 DEF Reading
<1>5. PICK f : Reading(raw, f) /\ Joined(raw) = f[n].files
  BY <1>4, JoinedReads
<1>6. \A i \in 0..n : f[i] = IF i = 0 THEN [files |-> <<>>, long |-> None]
                     ELSE LET s == f[i - 1]
                              e == raw[i]
                          IN IF e.path = LongLink THEN [s EXCEPT !.long = e.content]
                             ELSE [files |-> Append(s.files, IF s.long = None THEN e
                                                             ELSE [e EXCEPT !.path = s.long]),
                                   long |-> None]
  BY <1>5 DEF Reading
<1> DEFINE A == {i \in Nat : i <= n => f[i] = at(i)}
<1>7. 0 \in A
  <2>1. 0 \in 0..n
    BY <1>1
  <2>2. f[0] = at(0)
    BY <1>3, <1>6, <2>1
  <2> QED  BY <2>2
<1>8. ASSUME NEW i \in Nat, i \in A PROVE i + 1 \in A
  <2> SUFFICES ASSUME i + 1 <= n PROVE f[i + 1] = at(i + 1)
    OBVIOUS
  <2>1. i + 1 \in 0..n /\ i + 1 # 0 /\ (i + 1) - 1 = i /\ i <= n
    BY <1>1
  <2>2. f[i] = at((i + 1) - 1)
    BY <1>8, <2>1
  <2> DEFINE k == i + 1
  <2> HIDE DEF k
  <2>3. k \in 0..n /\ k # 0 /\ f[k - 1] = at(k - 1)
    BY <2>1, <2>2 DEF k
  <2>4. f[k] = at(k)
    BY <1>2, <1>6, <2>3
  <2> QED  BY <2>4 DEF k
<1>9. f[n] = at(n)
  <2> HIDE DEF A
  <2>1. n \in A
    BY <1>1, <1>7, <1>8, SetInduction
  <2> QED  BY <1>1, <2>1 DEF A
<1>10. at(n).files = raw
  <2>1. at(n).files = FirstOf(raw, n)
    BY DEF at
  <2>2. FirstOf(raw, n) = raw
    BY DEF FirstOf
  <2> QED  BY <2>1, <2>2
<1> QED  BY <1>5, <1>9, <1>10

(* The first entry with the path: one of those that have it.               *)
LEMMA EntryFound ==
  ASSUME NEW raw \in Seq(Entry), NEW i \in DOMAIN raw
  PROVE  \E j \in DOMAIN raw : raw[j].path = raw[i].path /\ EntryAt(raw, raw[i].path) = raw[j].content
<1> DEFINE at == {j \in DOMAIN raw : raw[j].path = raw[i].path}
<1>1. at \subseteq Nat /\ at # {}
  OBVIOUS
<1>2. EntryAt(raw, raw[i].path) = raw[CHOOSE j \in at : \A k \in at : j <= k].content
  BY <1>1 DEF EntryAt
<1> DEFINE j == CHOOSE j \in at : \A k \in at : j <= k
<1>3. j \in at
  <2> HIDE DEF at
  <2>1. \E x \in at : \A y \in at : x <= y
    BY <1>1, LeastNumber
  <2> QED  BY <2>1
<1> HIDE DEF j
<1>4. EntryAt(raw, raw[i].path) = raw[j].content
  BY <1>2 DEF j
<1> QED  BY <1>3, <1>4

(* The entries that the metadata lists, with their digests.                *)
LEMMA EntriesListed ==
  ASSUME NEW a \in Archive, a.kind = "exact"
  PROVE  /\ [i \in DOMAIN MetaOf(a).entry_metadata |->
               [path |-> MetaOf(a).entry_metadata[i][1], content |-> MetaOf(a).entry_metadata[i][2]]] = a.raw
         /\ file_list(MetaOf(a)) = [i \in DOMAIN a.raw |-> a.raw[i].path]
         /\ file_digest_list(MetaOf(a)) =
              [i \in DOMAIN a.raw |-> [digest |-> a.raw[i].content, path |-> a.raw[i].path]]
<1> DEFINE m == MetaOf(a)
           es == [i \in DOMAIN m.entry_metadata |->
                    [path |-> m.entry_metadata[i][1], content |-> m.entry_metadata[i][2]]]
<1>1. a.raw \in Seq(Entry)
  BY DEF Archive
<1>2. /\ DOMAIN m.entry_metadata = DOMAIN a.raw
      /\ \A i \in DOMAIN a.raw : m.entry_metadata[i] = <<a.raw[i].path, a.raw[i].content>>
  BY MetaParts
<1> HIDE DEF m
<1>3. \A i \in DOMAIN a.raw :
        m.entry_metadata[i][1] = a.raw[i].path /\ m.entry_metadata[i][2] = a.raw[i].content
  BY <1>2
<1>4. es = a.raw
  <2>1. DOMAIN a.raw = 1..Len(a.raw) /\ \A i \in 1..Len(a.raw) : a.raw[i] \in Entry
    BY <1>1
  <2>2. \A i \in DOMAIN a.raw : a.raw[i] = [path |-> a.raw[i].path, content |-> a.raw[i].content]
    BY <2>1 DEF Entry
  <2>3. \A i \in DOMAIN a.raw : es[i] = a.raw[i]
    BY <1>2, <1>3, <2>2
  <2>4. DOMAIN es = DOMAIN a.raw
    BY <1>2
  <2>5. a.raw = [i \in DOMAIN a.raw |-> a.raw[i]] /\ es = [i \in DOMAIN es |-> es[i]]
    BY <1>1
  <2> HIDE DEF es
  <2> QED  BY <2>3, <2>4, <2>5
<1>5. file_list(m) = [i \in DOMAIN a.raw |-> a.raw[i].path]
  BY <1>2, <1>3 DEF file_list
<1>6. file_digest_list(m) = [i \in DOMAIN a.raw |-> [digest |-> a.raw[i].content, path |-> a.raw[i].path]]
  BY <1>2, <1>3 DEF file_digest_list
<1> QED  BY <1>4, <1>5, <1>6 DEF m

-----------------------------------------------------------------------------
(* What the sources hold.                                                   *)
FileSource(st) == [kind |-> "file", st |-> st]
DirSource(kind) == [kind |-> kind, dir |-> Dir(kind)]
Arch == Archives[archives]

LEMMA FileCrate ==
  ASSUME NEW st, NEW arch, ArchivesIn(arch), SoundFile(st, arch), NEW s
  PROVE  LET src == FileSource(st)
         IN /\ OwnCrate(src, s) = IF Complete(st, arch, s) THEN arch[s] ELSE None
            /\ get_crate(src, s) = OwnCrate(src, s)
            /\ get_crate_handle_nv(src, s) = OwnHandle(src, s)
            /\ OwnHandle(src, s) =
                 IF s \in DOMAIN st.name_index /\ st.name_index[s] \in st.blobs
                 THEN [of |-> "storage", meta |-> MetaOf(arch[s])] ELSE None
<1> DEFINE src == FileSource(st)
<1>1. src.kind = "file" /\ src.st = st
  BY DEF FileSource
<1> HIDE DEF src
<1>2. OwnCrate(src, s) = IF Complete(st, arch, s) THEN arch[s] ELSE None
  BY <1>1, CrateStored DEF OwnCrate
<1>3. get_crate(src, s) = OwnCrate(src, s) /\ get_crate_handle_nv(src, s) = OwnHandle(src, s)
  BY <1>1 DEF get_crate, get_crate_handle_nv
<1>4. OwnHandle(src, s) = IF get_crate_rec_meta(st, s) = None THEN None
                          ELSE [of |-> "storage", meta |-> get_crate_rec_meta(st, s)]
  BY <1>1 DEF OwnHandle
<1>5. CASE s \in DOMAIN st.name_index /\ st.name_index[s] \in st.blobs
  <2>1. MetaOf(arch[s]) # None
    BY <1>5, MetaIsNotNone DEF ArchivesIn, SoundFile
  <2>2. get_crate_rec_meta(st, s) = MetaOf(arch[s])
    BY <1>5, MetaStored
  <2> QED  BY <1>2, <1>3, <1>4, <1>5, <2>1, <2>2 DEF src
<1>6. CASE ~ (s \in DOMAIN st.name_index /\ st.name_index[s] \in st.blobs)
  <2>1. get_crate_rec_meta(st, s) = None
    BY <1>6, MetaStored
  <2> QED  BY <1>2, <1>3, <1>4, <1>6, <2>1 DEF src
<1> QED  BY <1>5, <1>6

LEMMA DirCrate ==
  ASSUME ArchivesIn(Arch), NEW kind \in {"cache", "tree"}, NEW s
  PROVE  LET src == DirSource(kind)
         IN /\ OwnCrate(src, s) = IF s \in DOMAIN Arch THEN Arch[s] ELSE None
            /\ get_crate(src, s) = OwnCrate(src, s)
            /\ get_crate_handle_nv(src, s) = OwnHandle(src, s)
            /\ OwnHandle(src, s) = IF s \in DOMAIN Arch THEN [of |-> "blob", content |-> Arch[s]] ELSE None
<1> DEFINE src == DirSource(kind)
<1>1. src.kind = kind /\ src.dir = Dir(kind) /\ kind # "file" /\ kind # "overlay"
  BY DEF DirSource
<1>2. /\ FilePath(src, s) \in DOMAIN src.dir <=> s \in DOMAIN Arch
      /\ s \in DOMAIN Arch => src.dir[FilePath(src, s)] = Arch[s]
  BY DirParts DEF Arch, DirSource
<1> HIDE DEF src
<1>3. OwnCrate(src, s) = IF s \in DOMAIN Arch THEN Arch[s] ELSE None
  BY <1>1, <1>2 DEF OwnCrate
<1>4. get_crate(src, s) = OwnCrate(src, s) /\ get_crate_handle_nv(src, s) = OwnHandle(src, s)
  BY <1>1 DEF get_crate, get_crate_handle_nv
<1>5. s \in DOMAIN Arch => Arch[s] # None
  BY RecConstantsOK DEF ArchivesIn
<1>6. OwnHandle(src, s) = IF s \in DOMAIN Arch THEN [of |-> "blob", content |-> Arch[s]] ELSE None
  BY <1>1, <1>3, <1>5 DEF OwnHandle
<1> QED  BY <1>3, <1>4, <1>6 DEF src

LEMMA FilledSound ==
  ASSUME ArchivesIn(Arch), NEW acj, NEW lost
  PROVE  SoundFile(Filled(acj, DirSource("tree"), lost), Arch)
<1> DEFINE src == DirSource("tree")
           yielded == {s \in CrateIter(acj, src) : get_crate(src, s).kind = "exact"}
           st == Filled(acj, src, lost)
<1>1. \A s \in yielded : get_crate(src, s) # None
  BY DEF CrateIter
<1>2. \A s : get_crate(src, s) = IF s \in DOMAIN Arch THEN Arch[s] ELSE None
  BY DirCrate
<1>3. st.name_index = [s \in yielded |-> serialize(MetaOf(get_crate(src, s)))]
  BY DEF Filled, MetaOf
<1> HIDE DEF src, st
<1>4. ASSUME NEW s \in DOMAIN st.name_index
      PROVE  s \in DOMAIN Arch /\ Arch[s].kind = "exact" /\ st.name_index[s] = serialize(MetaOf(Arch[s]))
  <2>1. s \in yielded /\ st.name_index[s] = serialize(MetaOf(get_crate(src, s)))
    BY <1>3, <1>4
  <2>2. get_crate(src, s).kind = "exact"
    BY <2>1
  <2>3. s \in DOMAIN Arch /\ get_crate(src, s) = Arch[s]
    BY <1>1, <1>2, <2>1
  <2> QED  BY <2>1, <2>2, <2>3
<1> QED  BY <1>4 DEF SoundFile, st, src

LEMMA HandlesAre ==
  /\ \A m \in Meta : [of |-> "storage", meta |-> m] # None
  /\ \A a \in Archive : [of |-> "blob", content |-> a] # None
  /\ \A m \in Meta, p \in {"default", "fallback"} :
       [of |-> "overlay", in |-> p, handle |-> [of |-> "storage", meta |-> m]] # None
  /\ \A a \in Archive, p \in {"default", "fallback"} :
       [of |-> "overlay", in |-> p, handle |-> [of |-> "blob", content |-> a]] # None
<1>1. \A m \in Meta : [of |-> "storage", meta |-> m] \in OwnHandles
  BY DEF OwnHandles
<1>2. \A a \in Archive : [of |-> "blob", content |-> a] \in OwnHandles
  BY DEF OwnHandles
<1>3. \A h \in OwnHandles, p \in {"default", "fallback"} :
        [of |-> "overlay", in |-> p, handle |-> h] \in OverlayHandles
  BY DEF OverlayHandles
<1> QED  BY <1>1, <1>2, <1>3, NoHandle

(* A file that has all of a crate is like the directory for it.            *)
Alike(st, s) ==
  LET file == FileSource(st)
      tree == DirSource("tree")
      f == get_crate_handle_nv(file, s)
      t == get_crate_handle_nv(tree, s)
      a == Arch[s]
  IN /\ get_crate(file, s) = get_crate(tree, s)
     /\ f # None
     /\ Plain(a) =>
          /\ get_file_list(f, file) = get_file_list(t, tree)
          /\ NoPathTwice(a) => file_digest_list(f.meta) = digest_list(tree, s)
          /\ \A e \in Range(a.raw) : get_file(f, file, e.path) = get_file(t, tree, e.path)

LEMMA CompleteAlike ==
  ASSUME ArchivesIn(Arch), NEW st, SoundFile(st, Arch), NEW s \in DOMAIN Arch, Complete(st, Arch, s)
  PROVE  Alike(st, s)
<1> DEFINE file == FileSource(st)
           tree == DirSource("tree")
           f == get_crate_handle_nv(file, s)
           t == get_crate_handle_nv(tree, s)
           a == Arch[s]
           m == MetaOf(a)
<1>1. a \in Archive /\ a.kind = "exact" /\ a.raw \in Seq(Entry)
  BY DEF ArchivesIn, SoundFile, Complete, Archive
<1>2. get_crate(file, s) = a /\ f = [of |-> "storage", meta |-> m]
  BY FileCrate DEF Complete
<1>3. get_crate(tree, s) = a /\ t = [of |-> "blob", content |-> a]
  BY DirCrate
<1>4. m \in Meta
  BY <1>1, MetaParts
<1>5. f # None /\ t # None
  BY <1>1, <1>2, <1>3, <1>4, HandlesAre
<1>6. file.kind = "file" /\ file.st = st /\ tree.kind = "tree"
  BY DEF FileSource, DirSource
<1>7. /\ [i \in DOMAIN m.entry_metadata |->
            [path |-> m.entry_metadata[i][1], content |-> m.entry_metadata[i][2]]] = a.raw
      /\ file_list(m) = [i \in DOMAIN a.raw |-> a.raw[i].path]
      /\ file_digest_list(m) = [i \in DOMAIN a.raw |-> [digest |-> a.raw[i].content, path |-> a.raw[i].path]]
  BY <1>1, EntriesListed
<1>8. \A e \in Range(a.raw) : e.content \in st.blobs
  BY DEF Complete
<1> HIDE DEF f, t, a, m, file, tree
<1>9. ASSUME Plain(a)
      PROVE  /\ get_file_list(f, file) = get_file_list(t, tree)
             /\ NoPathTwice(a) => file_digest_list(f.meta) = digest_list(tree, s)
             /\ \A e \in Range(a.raw) : get_file(f, file, e.path) = get_file(t, tree, e.path)
  <2>1. Joined(a.raw) = a.raw
    <3>1. \A i \in DOMAIN a.raw : a.raw[i].path # LongLink
      BY <1>9 DEF Plain, Range
    <3> QED  BY <1>1, <3>1, PlainIsAsItIs
  <2>2. get_file_list(f, file) = [i \in DOMAIN a.raw |-> a.raw[i].path]
    BY <1>2, <1>6, <1>7 DEF get_file_list, OwnFileList, HandleOf
  <2>3. get_file_list(t, tree) = [i \in DOMAIN a.raw |-> a.raw[i].path]
    BY <1>1, <1>3, <1>6, <2>1 DEF get_file_list, OwnFileList, HandleOf, ArchiveFileList
  <2>4. \A p : get_file(t, tree, p) = EntryAt(a.raw, p)
    BY <1>1, <1>3, <1>6, <2>1 DEF get_file, OwnFile, HandleOf, ArchiveFile
  <2>5. \A p : get_file(f, file, p) = IF EntryAt(a.raw, p) \in st.blobs THEN EntryAt(a.raw, p) ELSE None
    <3>1. \A p : get_file(f, file, p) = StoredFile(m, st, p)
      BY <1>2, <1>6 DEF get_file, OwnFile, HandleOf
    <3> QED  BY <3>1, <1>7 DEF StoredFile
  <2>6. \A e \in Range(a.raw) : EntryAt(a.raw, e.path) \in st.blobs
    <3> SUFFICES ASSUME NEW i \in DOMAIN a.raw PROVE EntryAt(a.raw, a.raw[i].path) \in st.blobs
      BY DEF Range
    <3>1. PICK j \in DOMAIN a.raw : EntryAt(a.raw, a.raw[i].path) = a.raw[j].content
      BY <1>1, EntryFound
    <3> QED  BY <1>8, <3>1 DEF Range
  <2>7. ASSUME NoPathTwice(a) PROVE file_digest_list(f.meta) = digest_list(tree, s)
    <3> DEFINE list == get_file_list(t, tree)
    <3>1. digest_list(tree, s) =
            [i \in DOMAIN list |-> [digest |-> get_file(t, tree, list[i]), path |-> list[i]]]
      BY <1>5 DEF digest_list, Digests, t
    <3>2. DOMAIN list = DOMAIN a.raw /\ \A i \in DOMAIN a.raw : list[i] = a.raw[i].path
      BY <2>3
    <3> HIDE DEF list
    <3>3. ASSUME NEW i \in DOMAIN a.raw PROVE get_file(t, tree, list[i]) = a.raw[i].content
      <4>1. PICK j \in DOMAIN a.raw :
              a.raw[j].path = a.raw[i].path /\ EntryAt(a.raw, a.raw[i].path) = a.raw[j].content
        BY <1>1, EntryFound
      <4>2. j = i
        BY <2>7, <4>1 DEF NoPathTwice
      <4> QED  BY <2>4, <3>2, <4>1, <4>2
    <3>4. digest_list(tree, s) = [i \in DOMAIN a.raw |-> [digest |-> a.raw[i].content, path |-> a.raw[i].path]]
      BY <3>1, <3>2, <3>3
    <3>5. f.meta = m
      BY <1>2
    <3> QED  BY <1>7, <3>4, <3>5
  <2> QED  BY <2>2, <2>3, <2>4, <2>5, <2>6, <2>7
<1> QED  BY <1>2, <1>3, <1>5, <1>9 DEF Alike, f, t, a, file, tree

(* An overlay of the file over the directory is like the one that has it.  *)
Both(st) == [kind |-> "overlay", default |-> FileSource(st), fallback |-> DirSource("tree")]

SameAs(st, src, s) ==
  LET both == Both(st)
      o == get_crate_handle_nv(both, s)
      h == get_crate_handle_nv(src, s)
  IN /\ get_crate(both, s) = get_crate(src, s)
     /\ o # None
     /\ get_file_list(o, both) = get_file_list(h, src)
     /\ \A p : get_file(o, both, p) = get_file(h, src, p)

LEMMA OverlayParts ==
  ASSUME NEW st, NEW s, NEW d, NEW f, NEW file, NEW tree,
         file = FileSource(st), tree = DirSource("tree"),
         d = OwnHandle(file, s), f = OwnHandle(tree, s)
  PROVE  LET both == Both(st)
             o == get_crate_handle_nv(both, s)
         IN /\ get_crate(both, s) = IF OwnCrate(file, s) # None THEN OwnCrate(file, s) ELSE OwnCrate(tree, s)
            /\ d # None => /\ o = [of |-> "overlay", in |-> "default", handle |-> d]
                           /\ get_file_list(o, both) = OwnFileList(d, file)
                           /\ \A p : get_file(o, both, p) = OwnFile(d, file, p)
            /\ d = None /\ f # None => /\ o = [of |-> "overlay", in |-> "fallback", handle |-> f]
                                       /\ get_file_list(o, both) = OwnFileList(f, tree)
                                       /\ \A p : get_file(o, both, p) = OwnFile(f, tree, p)
<1> DEFINE both == Both(st)
           o == get_crate_handle_nv(both, s)
<1>1. both.kind = "overlay" /\ both.default = file /\ both.fallback = tree
  BY DEF Both
<1> HIDE DEF both
<1>2. get_crate(both, s) = IF OwnCrate(file, s) # None THEN OwnCrate(file, s) ELSE OwnCrate(tree, s)
  BY <1>1 DEF get_crate
<1>3. o = IF d # None THEN [of |-> "overlay", in |-> "default", handle |-> d]
          ELSE IF f # None THEN [of |-> "overlay", in |-> "fallback", handle |-> f] ELSE None
  BY <1>1 DEF get_crate_handle_nv, get_overlay_crate_handle_nv
<1> HIDE DEF o
<1>4. ASSUME d # None
      PROVE  /\ get_file_list(o, both) = OwnFileList(d, file)
             /\ \A p : get_file(o, both, p) = OwnFile(d, file, p)
  <2>1. o.of = "overlay" /\ o.in = "default" /\ o.handle = d
    BY <1>3, <1>4
  <2> QED  BY <1>1, <2>1 DEF get_file_list, get_file, In
<1>5. ASSUME d = None, f # None
      PROVE  /\ get_file_list(o, both) = OwnFileList(f, tree)
             /\ \A p : get_file(o, both, p) = OwnFile(f, tree, p)
  <2>1. o.of = "overlay" /\ o.in = "fallback" /\ o.handle = f
    BY <1>3, <1>5
  <2> QED  BY <1>1, <2>1 DEF get_file_list, get_file, In
<1> QED  BY <1>2, <1>3, <1>4, <1>5 DEF both, o

LEMMA OverlayAlike ==
  ASSUME ArchivesIn(Arch), NEW st, SoundFile(st, Arch), NEW s \in DOMAIN Arch
  PROVE  /\ Complete(st, Arch, s) => SameAs(st, FileSource(st), s)
         /\ s \notin DOMAIN st.name_index => SameAs(st, DirSource("tree"), s)
<1> DEFINE file == FileSource(st)
           tree == DirSource("tree")
           a == Arch[s]
           d == OwnHandle(file, s)
           f == OwnHandle(tree, s)
           both == Both(st)
           o == get_crate_handle_nv(both, s)
<1>1. a \in Archive /\ a # None
  BY RecConstantsOK DEF ArchivesIn
<1>2. /\ OwnCrate(file, s) = IF Complete(st, Arch, s) THEN a ELSE None
      /\ get_crate(file, s) = OwnCrate(file, s)
      /\ get_crate_handle_nv(file, s) = d
      /\ d = IF s \in DOMAIN st.name_index /\ st.name_index[s] \in st.blobs
             THEN [of |-> "storage", meta |-> MetaOf(a)] ELSE None
  BY FileCrate
<1>3. /\ OwnCrate(tree, s) = a
      /\ get_crate(tree, s) = OwnCrate(tree, s)
      /\ get_crate_handle_nv(tree, s) = f
      /\ f = [of |-> "blob", content |-> a]
  BY DirCrate
<1>4. /\ file.kind = "file" /\ tree.kind = "tree"
  BY DEF FileSource, DirSource
<1>5. /\ get_crate(both, s) = IF OwnCrate(file, s) # None THEN OwnCrate(file, s) ELSE OwnCrate(tree, s)
      /\ d # None => /\ o = [of |-> "overlay", in |-> "default", handle |-> d]
                     /\ get_file_list(o, both) = OwnFileList(d, file)
                     /\ \A p : get_file(o, both, p) = OwnFile(d, file, p)
      /\ d = None /\ f # None => /\ o = [of |-> "overlay", in |-> "fallback", handle |-> f]
                                 /\ get_file_list(o, both) = OwnFileList(f, tree)
                                 /\ \A p : get_file(o, both, p) = OwnFile(f, tree, p)
  BY OverlayParts
<1> HIDE DEF file, tree, a, d, f, both, o
<1>6. \A h : /\ get_file_list(h, file) = OwnFileList(h, file) /\ get_file_list(h, tree) = OwnFileList(h, tree)
             /\ \A p : get_file(h, file, p) = OwnFile(h, file, p) /\ get_file(h, tree, p) = OwnFile(h, tree, p)
  BY <1>4 DEF get_file_list, get_file
<1>7. ASSUME Complete(st, Arch, s) PROVE SameAs(st, file, s)
  <2>1. /\ s \in DOMAIN st.name_index /\ st.name_index[s] \in st.blobs
        /\ a.kind = "exact"
    BY <1>7 DEF Complete, SoundFile, a
  <2>2. MetaOf(a) \in Meta
    BY <1>1, <2>1, MetaParts
  <2>3. d # None /\ [of |-> "overlay", in |-> "default", handle |-> d] # None
    BY <1>2, <2>1, <2>2, HandlesAre
  <2>4. get_crate(both, s) = get_crate(file, s)
    BY <1>1, <1>2, <1>5, <1>7
  <2>5. o # None
    BY <1>5, <2>3
  <2>6. get_file_list(o, both) = get_file_list(d, file)
    BY <1>5, <1>6, <2>3
  <2>7. \A p : get_file(o, both, p) = get_file(d, file, p)
    BY <1>5, <1>6, <2>3
  <2> QED  BY <1>2, <2>4, <2>5, <2>6, <2>7 DEF SameAs, both, o
<1>8. ASSUME s \notin DOMAIN st.name_index PROVE SameAs(st, tree, s)
  <2>1. d = None /\ OwnCrate(file, s) = None
    BY <1>2, <1>8 DEF Complete
  <2>2. f # None /\ [of |-> "overlay", in |-> "fallback", handle |-> f] # None
    BY <1>1, <1>3, HandlesAre
  <2>3. get_crate(both, s) = get_crate(tree, s)
    BY <1>3, <1>5, <2>1
  <2>4. o # None
    BY <1>5, <2>1, <2>2
  <2>5. get_file_list(o, both) = get_file_list(f, tree)
    BY <1>5, <1>6, <2>1, <2>2
  <2>6. \A p : get_file(o, both, p) = get_file(f, tree, p)
    BY <1>5, <1>6, <2>1, <2>2
  <2> QED  BY <1>3, <2>3, <2>4, <2>5, <2>6 DEF SameAs, both, o
<1> QED  BY <1>7, <1>8 DEF file, tree

-----------------------------------------------------------------------------
(* Answers.                                                                 *)
LinksOK(ls) == \A l \in ls : l.page \in Pages \ {"static"}

(* A page, or one of the answers without any content.                      *)
PlainAnswer(resp) ==
  \/ resp \in {ErrorPage, Dropped, NotFound}
  \/ \E ls : LinksOK(ls) /\ resp = Page(ls)

LEMMA LinkPages ==
  \A n, v, p : /\ CratePage(n, v).page = "crate" /\ VersionsPage(n).page = "versions"
               /\ DependentsPage(n).page = "reverse_dependencies"
               /\ ListingPage(n, v).page = "files" /\ FilePage(n, v, p).page = "files"
BY DEF CratePage, VersionsPage, DependentsPage, ListingPage, FilePage, Ask

LEMMA PagesHas == {"crate", "versions", "reverse_dependencies", "files"} \subseteq Pages \ {"static"}
BY DEF Pages

LEMMA CrateAnswer ==
  ASSUME NEW src, NEW idx, NEW n, NEW v
  PROVE  PlainAnswer(get_crate_data(src, idx, n, v))
<1> DEFINE json == get_crate_json(idx, n)
           version == IF v = None THEN Newest(json) ELSE v
           at == {i \in DOMAIN json : json[i].version = version}
           deps == {d \in json[CHOOSE i \in at : TRUE].deps : d.kind \in {"normal", "dev"}}
           ls == {DependentsPage(n), ListingPage(n, version)}
                 \cup {CratePage(n, u) : u \in ListedVersions(json)}
                 \cup {VersionsPage(n) : i \in {k \in DOMAIN json : Len(json) > MaxListed}}
                 \cup {CratePage(d.name, None) : d \in deps}
<1>1. get_crate_data(src, idx, n, v) \in {ErrorPage, Dropped, Page(ls)}
  BY DEF get_crate_data
<1> HIDE DEF version, deps, json
<1>2. LinksOK(ls)
  BY LinkPages, PagesHas DEF LinksOK
<1> HIDE DEF ls
<1> QED  BY <1>1, <1>2 DEF PlainAnswer

LEMMA VersionsAnswer ==
  ASSUME NEW idx, NEW n
  PROVE  PlainAnswer(get_versions_data(idx, n))
<1> DEFINE json == get_crate_json(idx, n)
           ls == {CratePage(n, json[i].version) : i \in DOMAIN json}
<1>1. get_versions_data(idx, n) \in {Dropped, Page(ls)}
  BY DEF get_versions_data
<1> HIDE DEF json
<1>2. LinksOK(ls)
  BY LinkPages, PagesHas DEF LinksOK
<1> HIDE DEF ls
<1> QED  BY <1>1, <1>2 DEF PlainAnswer

LEMMA DependentsAnswer ==
  ASSUME NEW st, NEW n
  PROVE  PlainAnswer(get_reverse_dependencies(st, n))
<1> DEFINE ls == {CratePage(d[2], d[3]) : d \in st.reverse_dependencies[n]}
<1>1. get_reverse_dependencies(st, n) \in {Dropped, Page(ls)}
  BY DEF get_reverse_dependencies
<1>2. LinksOK(ls)
  BY LinkPages, PagesHas DEF LinksOK
<1> HIDE DEF ls
<1> QED  BY <1>1, <1>2 DEF PlainAnswer

LEMMA IndexAnswer ==
  ASSUME NEW st, NEW resp \in get_index_data(st)
  PROVE  PlainAnswer(resp)
<1> DEFINE F(D, V) == Page({CratePage(n, None) : n \in D \cup V})
<1>0. get_index_data(st) = {F(D, V) : D \in LastOf(st.most_directly_depended_on, MaxListed),
                                      V \in LastOf(st.most_versions, MaxListed)}
  BY DEF get_index_data
<1> HIDE DEF F
<1>1. PICK D, V : resp = F(D, V)
  BY <1>0
<1> DEFINE N == D \cup V
           ls == {CratePage(n, None) : n \in N}
<1>2. LinksOK(ls)
  BY LinkPages, PagesHas DEF LinksOK
<1>3. resp = Page(ls)
  BY <1>1 DEF F
<1> HIDE DEF ls
<1> QED  BY <1>2, <1>3 DEF PlainAnswer

LEMMA SearchAnswer ==
  ASSUME NEW st, NEW term
  PROVE  PlainAnswer(get_search_result_data(st, term))
<1> DEFINE N == {m \in st.names : term \in SubSeqs(m)}
           ls == {CratePage(n, None) : n \in N}
<1>1. get_search_result_data(st, term) \in {Dropped, Page(ls)}
  BY DEF get_search_result_data
<1> HIDE DEF N
<1>2. LinksOK(ls)
  BY LinkPages, PagesHas DEF LinksOK
<1> HIDE DEF ls
<1> QED  BY <1>1, <1>2 DEF PlainAnswer

LEMMA FilesAnswer ==
  ASSUME NEW src, NEW n, NEW v, NEW path
  PROVE  PlainAnswer(get_crate_file_data(src, n, v, path))
<1> DEFINE list == get_file_list(get_crate_handle_nv(src, <<n, v>>), src)
           ls == {CratePage(n, v)} \cup {FilePage(n, v, InUrl(list[i])) : i \in DOMAIN list}
           one == {ListingPage(n, v)}
<1>1. get_crate_file_data(src, n, v, path) \in {Dropped, Page(ls), Page(one)}
  BY DEF get_crate_file_data
<1> HIDE DEF list
<1>2. LinksOK(ls) /\ LinksOK(one)
  BY LinkPages, PagesHas DEF LinksOK
<1> HIDE DEF ls, one
<1> QED  BY <1>1, <1>2 DEF PlainAnswer

(* What is downloaded is what the source holds.                            *)
DownloadAnswer(src, s, resp) ==
  \/ resp \in {Dropped, NotFound}
  \/ /\ get_crate(src, s) # None
     /\ resp = Download(s, to_archive_file(from_archive_file(get_crate(src, s))))
     /\ from_archive_file(get_crate(src, s)) \notin {None, Panic}

LEMMA ApiAnswer ==
  ASSUME NEW src, NEW s
  PROVE  DownloadAnswer(src, s, api_crate(src, s))
BY DEF api_crate, DownloadAnswer

(* All that can be said of an answer without knowing what was asked.       *)
LEMMA AnswersAre ==
  ASSUME NEW w, NEW r, r.page \in Pages, NEW resp \in Responses(w, r)
  PROVE  IF r.page = "download" THEN DownloadAnswer(SourceOf(w), <<r.name, r.version>>, resp)
         ELSE PlainAnswer(resp)
<1>1. CASE r.page = "crate"
  BY <1>1, CrateAnswer DEF Responses
<1>2. CASE r.page = "versions"
  BY <1>2, VersionsAnswer DEF Responses
<1>3. CASE r.page = "reverse_dependencies"
  BY <1>3, DependentsAnswer DEF Responses
<1>4. CASE r.page = "index"
  BY <1>4, IndexAnswer DEF Responses
<1>5. CASE r.page = "search"
  BY <1>5, SearchAnswer DEF Responses
<1>6. CASE r.page = "files"
  BY <1>6, FilesAnswer DEF Responses
<1>7. CASE r.page = "download"
  BY <1>7, ApiAnswer DEF Responses
<1>8. CASE r.page = "static"
  BY <1>8 DEF Responses, PlainAnswer
<1> QED  BY <1>1, <1>2, <1>3, <1>4, <1>5, <1>6, <1>7, <1>8 DEF Pages

-----------------------------------------------------------------------------
(* The invariant.                                                           *)
RequestsOK ==
  /\ DOMAIN req = Threads /\ DOMAIN source = Threads
  /\ LinksOK(shown.links)
  /\ \A w \in Threads : req[w] # NoRequest => /\ req[w].ask.page \in Pages
                                              /\ req[w].linked => req[w].ask.page # "static"

SoundSource(src) ==
  src = NotLoaded \/ (src.kind = config /\ (config = "file" => src = FileSource(src.st) /\ SoundFile(src.st, Arch)))

SourcesOK ==
  /\ storage = NoFile \/ SoundFile(storage, Arch)
  /\ \A w \in Threads : SoundSource(source[w])

ServerInv == TypeOK /\ RequestsOK /\ SourcesOK

LEMMA ArchIs == TypeOK => ArchivesIn(Arch)
BY ServerConstantsOK DEF TypeOK, ArchivesIn, Arch

LEMMA NoLinks ==
  /\ LinksOK(Blank.links) /\ LinksOK(Dropped.links) /\ LinksOK(ErrorPage.links) /\ LinksOK(NotFound.links)
  /\ \A ls : Page(ls).links = ls
  /\ \A s, a : LinksOK(Download(s, a).links)
BY DEF LinksOK, Blank, Dropped, ErrorPage, NotFound, Page, Download

LEMMA AnswerLinks ==
  ASSUME NEW w, NEW r, r.page \in Pages, NEW resp \in Responses(w, r)
  PROVE  LinksOK(Fallback(resp, r).links)
<1>1. LinksOK(resp.links)
  <2>1. CASE r.page = "download"
    BY <2>1, AnswersAre, NoLinks DEF DownloadAnswer
  <2>2. CASE r.page # "download"
    <3>1. PlainAnswer(resp)
      BY <2>2, AnswersAre
    <3>2. CASE resp \in {ErrorPage, Dropped, NotFound}
      BY <3>2, NoLinks
    <3>3. CASE \E ls : LinksOK(ls) /\ resp = Page(ls)
      <4>1. PICK ls : LinksOK(ls) /\ resp = Page(ls)
        BY <3>3
      <4>2. resp.links = ls
        BY <4>1, NoLinks
      <4> QED  BY <4>1, <4>2
    <3> QED  BY <3>1, <3>2, <3>3 DEF PlainAnswer
  <2> QED  BY <2>1, <2>2
<1> QED  BY <1>1, NoLinks DEF Fallback

LEMMA InitInv == Init => ServerInv
<1> SUFFICES ASSUME Init PROVE ServerInv
  OBVIOUS
<1>1. TypeOK
  BY ServerConstantsOK DEF Init, TypeOK
<1>2. RequestsOK
  BY NoLinks DEF Init, RequestsOK
<1>3. SourcesOK
  BY DEF Init, SourcesOK, SoundSource
<1> QED  BY <1>1, <1>2, <1>3 DEF ServerInv

(* Sources: the file and the copies of it.                                 *)
LEMMA SoundMore ==
  ASSUME NEW st, NEW a, NEW b, SoundFile(st, a), \A s \in DOMAIN a : s \in DOMAIN b /\ b[s] = a[s]
  PROVE  SoundFile(st, b)
BY DEF SoundFile

LEMMA SourcesSame ==
  ASSUME SourcesOK, UNCHANGED <<config, archives, storage>>, DOMAIN source = Threads,
         \A w \in Threads : source'[w] = source[w] \/ source'[w] = NotLoaded
  PROVE  SourcesOK'
<1>1. Arch' = Arch
  BY DEF Arch
<1>2. \A w \in Threads : SoundSource(source[w])' <=> SoundSource(source'[w])
  BY <1>1 DEF SoundSource
<1>3. \A w \in Threads : SoundSource(source'[w])
  BY DEF SourcesOK, SoundSource
<1> QED  BY <1>1, <1>2, <1>3 DEF SourcesOK

LEMMA FinishSources ==
  ASSUME RequestsOK, NEW w \in Threads, NEW resp, Finish(w, resp)
  PROVE  /\ DOMAIN req' = Threads /\ DOMAIN source' = Threads
         /\ \A v \in Threads : source'[v] = source[v] \/ source'[v] = NotLoaded
         /\ \A v \in Threads : v # w => req'[v] = req[v]
         /\ req'[w] = NoRequest /\ shown' = resp
BY DEF RequestsOK, Finish

LEMMA FinishRequests ==
  ASSUME RequestsOK, NEW w \in Threads, NEW resp, LinksOK(resp.links), Finish(w, resp)
  PROVE  RequestsOK'
<1>1. LinksOK(shown'.links)
  BY FinishSources
<1>2. \A v \in Threads : req'[v] # NoRequest => req'[v] = req[v]
  BY FinishSources
<1>3. DOMAIN req' = Threads /\ DOMAIN source' = Threads
  BY FinishSources
<1>4. ASSUME NEW v \in Threads, req'[v] # NoRequest
      PROVE req'[v].ask.page \in Pages /\ (req'[v].linked => req'[v].ask.page # "static")
  BY <1>2, <1>4 DEF RequestsOK
<1>5. LinksOK(shown.links)'
  BY <1>1 DEF LinksOK, Pages
<1> QED  BY <1>3, <1>4, <1>5 DEF RequestsOK, Pages

LEMMA UpdateIndexInv == ServerInv /\ UpdateIndex => ServerInv'
<1> SUFFICES ASSUME ServerInv, UpdateIndex PROVE ServerInv'
  OBVIOUS
<1>1. TypeOK'
  BY ServerConstantsOK DEF ServerInv, TypeOK, UpdateIndex, lazy
<1>2. RequestsOK'
  BY DEF ServerInv, RequestsOK, UpdateIndex, LinksOK, Pages
<1>3. SourcesOK'
  BY SourcesSame DEF ServerInv, RequestsOK, UpdateIndex
<1> QED  BY <1>1, <1>2, <1>3 DEF ServerInv

LEMMA MirrorInv == ServerInv /\ Mirror => ServerInv'
<1> SUFFICES ASSUME ServerInv, Mirror PROVE ServerInv'
  OBVIOUS
<1>1. archives \in DOMAIN Archives /\ archives' \in DOMAIN Archives /\ archives <= archives'
  BY ServerConstantsOK DEF ServerInv, TypeOK, Mirror
<1>2. \A s \in DOMAIN Arch : s \in DOMAIN Arch' /\ Arch'[s] = Arch[s]
  BY <1>1, ServerConstantsOK DEF Arch
<1>3. TypeOK'
  BY <1>1, <1>2 DEF ServerInv, TypeOK, Mirror, lazy, Arch
<1>4. RequestsOK'
  BY DEF ServerInv, RequestsOK, Mirror, LinksOK, Pages
<1>5. SourcesOK'
  <2>1. \A st : SoundFile(st, Arch) => SoundFile(st, Arch')
    BY <1>2, SoundMore
  <2>2. UNCHANGED <<config, storage, source>>
    BY DEF Mirror
  <2>3. \A src : SoundSource(src) => SoundSource(src)'
    BY <2>1, <2>2 DEF SoundSource
  <2>4. \A w \in Threads : SoundSource(source[w])'
    BY <2>2, <2>3 DEF ServerInv, SourcesOK, SoundSource
  <2>5. (storage = NoFile \/ SoundFile(storage, Arch))'
    BY <2>1, <2>2 DEF ServerInv, SourcesOK
  <2> QED  BY <2>4, <2>5 DEF SourcesOK
<1> QED  BY <1>3, <1>4, <1>5 DEF ServerInv

LEMMA FillStorageInv == ServerInv /\ FillStorage => ServerInv'
<1> SUFFICES ASSUME ServerInv, FillStorage PROVE ServerInv'
  OBVIOUS
<1>1. PICK lost \in Lost :
        /\ storage' = Filled(get_all_crates_json(Indexes[index]), DirSource("tree"), lost)
        /\ UNCHANGED <<config, index, archives, lazy, source, req, shown>>
  BY DEF FillStorage, DirSource
<1>2. SoundFile(storage', Arch)
  BY <1>1, ArchIs, FilledSound DEF ServerInv
<1>3. Arch' = Arch
  BY <1>1 DEF Arch
<1>4. DOMAIN storage'.name_index \subseteq DOMAIN Archives[archives]
  BY <1>2 DEF SoundFile, Arch
<1>5. TypeOK'
  BY <1>1, <1>4 DEF ServerInv, TypeOK, lazy
<1>6. RequestsOK'
  BY <1>1 DEF ServerInv, RequestsOK, LinksOK, Pages
<1>7. SourcesOK'
  <2>1. \A w \in Threads : SoundSource(source[w])'
    BY <1>1, <1>3 DEF ServerInv, SourcesOK, SoundSource
  <2>2. SoundFile(storage, Arch)'
    BY <1>2, <1>3
  <2> QED  BY <2>1, <2>2 DEF SourcesOK
<1> QED  BY <1>5, <1>6, <1>7 DEF ServerInv

LEMMA AcceptInv ==
  ASSUME ServerInv, NEW w \in Threads, Accept(w)
  PROVE  ServerInv'
<1>1. PICK r \in Typed \cup shown.links :
        /\ req[w] = NoRequest
        /\ req' = [req EXCEPT ![w] = [ask |-> r, linked |-> r \in shown.links]]
        /\ shown' = Blank
        /\ UNCHANGED <<disk, lazy, source>>
  BY DEF Accept
<1>2. r.page \in Pages /\ (r \in shown.links => r.page # "static")
  BY ServerConstantsOK DEF ServerInv, RequestsOK, LinksOK
<1>3. DOMAIN req' = Threads /\ \A v \in Threads : v # w => req'[v] = req[v]
  BY <1>1 DEF ServerInv, RequestsOK
<1>4. req'[w].ask = r /\ req'[w].linked = (r \in shown.links)
  BY <1>1 DEF ServerInv, RequestsOK
<1>5. builder # w
  BY <1>1 DEF ServerInv, TypeOK
<1>6. TypeOK'
  BY <1>1, <1>3, <1>5 DEF ServerInv, TypeOK, disk, lazy
<1>7. RequestsOK'
  <2>1. LinksOK(shown'.links)
    BY <1>1, NoLinks
  <2>2. LinksOK(shown.links)'
    BY <2>1 DEF LinksOK, Pages
  <2>3. ASSUME NEW v \in Threads, req'[v] # NoRequest
        PROVE req'[v].ask.page \in Pages /\ (req'[v].linked => req'[v].ask.page # "static")
    <3>1. CASE v = w
      BY <1>2, <1>4, <3>1
    <3>2. CASE v # w
      BY <1>3, <2>3, <3>2 DEF ServerInv, RequestsOK
    <3> QED  BY <3>1, <3>2
  <2>4. DOMAIN source' = Threads
    BY <1>1 DEF ServerInv, RequestsOK
  <2> QED  BY <1>3, <2>2, <2>3, <2>4 DEF RequestsOK, Pages
<1>8. SourcesOK'
  BY <1>1, SourcesSame DEF ServerInv, RequestsOK, disk
<1> QED  BY <1>6, <1>7, <1>8 DEF ServerInv

LEMMA LoadSourceInv ==
  ASSUME ServerInv, NEW w \in Threads, LoadSource(w)
  PROVE  ServerInv'
<1>1. Asked(w) /\ UsesSource(req[w].ask) /\ UNCHANGED <<disk, lazy>>
  BY DEF LoadSource, Lacks
<1>2. ~UsesStats(req[w].ask) /\ builder # w
  <2>1. ~UsesStats(req[w].ask)
    BY <1>1 DEF UsesSource, UsesStats
  <2> QED  BY <2>1 DEF ServerInv, TypeOK
<1>3. CASE config = "file" /\ storage = NoFile
  <2>1. Finish(w, Dropped)
    BY <1>3 DEF LoadSource
  <2>2. RequestsOK'
    BY <2>1, NoLinks, FinishRequests DEF ServerInv
  <2>3. SourcesOK'
    BY <1>1, <2>1, FinishSources, SourcesSame DEF ServerInv, RequestsOK, disk
  <2>4. TypeOK'
    BY <1>1, <1>2, <2>1, FinishSources DEF ServerInv, TypeOK, disk, lazy
  <2> QED  BY <2>2, <2>3, <2>4 DEF ServerInv
<1>4. CASE ~ (config = "file" /\ storage = NoFile)
  <2> DEFINE new == IF config = "file" THEN [kind |-> "file", st |-> storage] ELSE [kind |-> config]
  <2>1. source' = [source EXCEPT ![w] = new] /\ UNCHANGED <<req, shown>>
    BY <1>4 DEF LoadSource
  <2>2. new.kind = config /\ SoundSource(new)
    BY <1>4 DEF ServerInv, SourcesOK, SoundSource, FileSource
  <2> HIDE DEF new
  <2>3. /\ DOMAIN source' = Threads
        /\ \A v \in Threads : source'[v] = source[v] \/ source'[v] = new
    BY <2>1 DEF ServerInv, RequestsOK
  <2>4. TypeOK'
    BY <1>1, <2>1, <2>2, <2>3 DEF ServerInv, TypeOK, disk, lazy
  <2>5. RequestsOK'
    BY <2>1, <2>3 DEF ServerInv, RequestsOK, LinksOK, Pages
  <2>6. SourcesOK'
    <3>1. Arch' = Arch /\ config' = config /\ storage' = storage
      BY <1>1 DEF Arch, disk
    <3>2. \A w_1 \in Threads : SoundSource(source'[w_1])
      BY <2>2, <2>3 DEF ServerInv, SourcesOK
    <3>3. \A w_1 \in Threads : SoundSource(source[w_1])'
      BY <3>1, <3>2 DEF SoundSource
    <3>4. (storage = NoFile \/ SoundFile(storage, Arch))'
      BY <3>1 DEF ServerInv, SourcesOK
    <3> QED  BY <3>3, <3>4 DEF SourcesOK
  <2> QED  BY <2>4, <2>5, <2>6 DEF ServerInv
<1> QED  BY <1>3, <1>4

LEMMA BeginStatsInv ==
  ASSUME ServerInv, NEW w \in Threads, BeginStats(w)
  PROVE  ServerInv'
<1>1. /\ Asked(w) /\ UsesStats(req[w].ask) /\ stats' = Building /\ builder' = w
      /\ UNCHANGED <<disk, source, req, shown>>
  BY DEF BeginStats
<1>2. TypeOK'
  BY <1>1, ServerConstantsOK DEF ServerInv, TypeOK, disk, Asked, UsesStats
<1>3. RequestsOK'
  BY <1>1 DEF ServerInv, RequestsOK, LinksOK, Pages
<1>4. SourcesOK'
  BY <1>1, SourcesSame DEF ServerInv, RequestsOK, disk
<1> QED  BY <1>2, <1>3, <1>4 DEF ServerInv

LEMMA EndStatsInv ==
  ASSUME ServerInv, NEW w \in Threads, EndStats(w)
  PROVE  ServerInv'
<1> DEFINE new == StatsOf(Indexes[index])
<1>1. builder = w /\ builder' = None /\ UNCHANGED disk
  BY DEF EndStats
<1>2. Poisoned # Building /\ new # Building
  BY ServerConstantsOK DEF ServerInv, TypeOK
<1>3. CASE new = Panic
  <2>1. stats' = Poisoned /\ Finish(w, Dropped)
    BY <1>3 DEF EndStats, AfterPanic
  <2>2. RequestsOK'
    BY <2>1, NoLinks, FinishRequests DEF ServerInv
  <2>3. SourcesOK'
    BY <1>1, <2>1, FinishSources, SourcesSame DEF ServerInv, RequestsOK, disk
  <2> HIDE DEF new
  <2>4. TypeOK'
    BY <1>1, <1>2, <2>1, FinishSources, ServerConstantsOK DEF ServerInv, TypeOK, disk
  <2> QED  BY <2>2, <2>3, <2>4 DEF ServerInv
<1>4. CASE new # Panic
  <2>1. stats' = new /\ UNCHANGED <<source, req, shown>>
    BY <1>4 DEF EndStats
  <2> HIDE DEF new
  <2>2. TypeOK'
    BY <1>1, <1>2, <2>1, ServerConstantsOK DEF ServerInv, TypeOK, disk
  <2>3. RequestsOK'
    BY <2>1 DEF ServerInv, RequestsOK, LinksOK, Pages
  <2>4. SourcesOK'
    BY <1>1, <2>1, SourcesSame DEF ServerInv, RequestsOK, disk
  <2> QED  BY <2>2, <2>3, <2>4 DEF ServerInv
<1> QED  BY <1>3, <1>4

LEMMA FinishInv ==
  ASSUME ServerInv, NEW w \in Threads, builder # w, NEW resp, LinksOK(resp.links), Finish(w, resp),
         UNCHANGED <<disk, lazy>>
  PROVE  ServerInv'
<1>1. RequestsOK'
  BY FinishRequests DEF ServerInv
<1>2. SourcesOK'
  BY FinishSources, SourcesSame DEF ServerInv, RequestsOK, disk
<1>3. TypeOK'
  BY FinishSources DEF ServerInv, TypeOK, disk, lazy
<1> QED  BY <1>1, <1>2, <1>3 DEF ServerInv

LEMMA StatsPoisonedInv ==
  ASSUME ServerInv, NEW w \in Threads, StatsPoisoned(w)
  PROVE  ServerInv'
<1>1. stats = Poisoned /\ Finish(w, Dropped) /\ UNCHANGED <<disk, lazy>>
  BY DEF StatsPoisoned
<1>2. builder # w
  BY <1>1, ServerConstantsOK DEF ServerInv, TypeOK
<1> QED  BY <1>1, <1>2, NoLinks, FinishInv

LEMMA AnswerParts ==
  ASSUME ServerInv, NEW w \in Threads, Answer(w)
  PROVE  /\ builder # w /\ req[w] # NoRequest /\ req[w].ask.page \in Pages
         /\ UsesSource(req[w].ask) => source[w] # NotLoaded
         /\ UsesStats(req[w].ask) => stats \notin {NotBuilt, Building, Poisoned}
         /\ UNCHANGED <<disk, lazy>>
         /\ \E resp \in Responses(w, req[w].ask) : Finish(w, Fallback(resp, req[w].ask))
<1>1. Ready(w) /\ req[w] # NoRequest /\ req[w].ask.page \in Pages
  BY DEF Answer, Ready, Asked, ServerInv, RequestsOK
<1>2. UsesStats(req[w].ask) => stats \notin {NotBuilt, Building, Poisoned}
  BY <1>1 DEF Ready
<1>3. builder # w
  <2> SUFFICES ASSUME builder = w PROVE FALSE
    OBVIOUS
  <2>1. UsesStats(req[w].ask) /\ builder # None
    BY ServerConstantsOK DEF ServerInv, TypeOK
  <2>2. stats = Building
    BY <2>1 DEF ServerInv, TypeOK
  <2> QED  BY <1>2, <2>1, <2>2
<1>4. UsesSource(req[w].ask) => source[w] # NotLoaded
  BY <1>1 DEF Ready, Lacks
<1> QED  BY <1>1, <1>2, <1>3, <1>4 DEF Answer

LEMMA AnswerInv ==
  ASSUME ServerInv, NEW w \in Threads, Answer(w)
  PROVE  ServerInv'
<1>1. /\ builder # w /\ req[w].ask.page \in Pages
      /\ UNCHANGED <<disk, lazy>>
      /\ \E resp \in Responses(w, req[w].ask) : Finish(w, Fallback(resp, req[w].ask))
  BY AnswerParts
<1>2. PICK resp \in Responses(w, req[w].ask) : Finish(w, Fallback(resp, req[w].ask))
  BY <1>1
<1>3. LinksOK(Fallback(resp, req[w].ask).links)
  BY <1>1, AnswerLinks
<1> QED  BY <1>1, <1>2, <1>3, FinishInv

LEMMA ServerStep == ServerInv /\ [Next]_vars => ServerInv'
<1> SUFFICES ASSUME ServerInv, [Next]_vars PROVE ServerInv'
  OBVIOUS
<1>1. CASE UNCHANGED vars
  <2>1. UNCHANGED <<config, index, archives, storage, stats, builder, source, req, shown>>
    BY <1>1 DEF vars, disk, lazy
  <2>2. TypeOK'
    BY <2>1 DEF ServerInv, TypeOK, UsesStats
  <2>3. RequestsOK'
    BY <2>1 DEF ServerInv, RequestsOK, LinksOK, Pages
  <2>4. SourcesOK'
    BY <2>1, SourcesSame DEF ServerInv, RequestsOK
  <2> QED  BY <2>2, <2>3, <2>4 DEF ServerInv
<1>2. CASE UpdateIndex
  BY <1>2, UpdateIndexInv
<1>3. CASE Mirror
  BY <1>3, MirrorInv
<1>4. CASE FillStorage
  BY <1>4, FillStorageInv
<1>5. ASSUME NEW w \in Threads, Accept(w) \/ ThreadStep(w) PROVE ServerInv'
  BY <1>5, AcceptInv, LoadSourceInv, BeginStatsInv, EndStatsInv, StatsPoisonedInv, AnswerInv DEF ThreadStep
<1> QED  BY <1>1, <1>2, <1>3, <1>4, <1>5 DEF Next

LEMMA ServerHolds == Spec => []ServerInv
<1>1. Init => ServerInv
  BY InitInv
<1>2. ServerInv /\ [Next]_vars => ServerInv'
  BY ServerStep
<1> QED  BY <1>1, <1>2, PTL DEF Spec

(* Each variable has its type, and the statistics are being built exactly  *)
(* while one thread, which waits for them, builds them.                    *)
THEOREM TypeCorrect == Spec => []TypeOK
<1>1. ServerInv => TypeOK
  BY DEF ServerInv
<1> QED  BY <1>1, ServerHolds, PTL

(* Whatever the index, the archives and the losses of the storage tool     *)
(* are, a crate that is whole in the storage file reads the same from      *)
(* there as from the directory (crate_storage.rs:54-66).                   *)
THEOREM SourcesAlike == Spec => []SourcesAgree
<1>1. ServerInv => SourcesAgree
  <2> SUFFICES ASSUME ServerInv, storage # NoFile,
                      NEW s \in {t \in DOMAIN Archives[archives] : Whole(storage, t)}
               PROVE  Alike(storage, s)
    BY DEF SourcesAgree, Alike, FileSource, DirSource, Arch
  <2>1. ArchivesIn(Arch) /\ SoundFile(storage, Arch)
    BY ArchIs DEF ServerInv, SourcesOK
  <2>2. s \in DOMAIN Arch /\ Complete(storage, Arch, s)
    BY DEF Whole, Complete, Arch
  <2> QED  BY <2>1, <2>2, CompleteAlike
<1> QED  BY <1>1, ServerHolds, PTL

(* An overlay answers as the source it took the handle from                *)
(* (crate_storage.rs:271-293).                                             *)
THEOREM OverlayAgrees == Spec => []OverlayIsOneOfThem
<1>1. ServerInv => OverlayIsOneOfThem
  <2> SUFFICES ASSUME ServerInv, storage # NoFile PROVE OverlayIsOneOfThem
    BY DEF OverlayIsOneOfThem
  <2>1. ArchivesIn(Arch) /\ SoundFile(storage, Arch)
    BY ArchIs DEF ServerInv, SourcesOK
  <2>2. \A s \in DOMAIN Arch :
          /\ Whole(storage, s) => SameAs(storage, FileSource(storage), s)
          /\ s \notin DOMAIN storage.name_index => SameAs(storage, DirSource("tree"), s)
    BY <2>1, OverlayAlike DEF Whole, Complete, Arch
  <2> QED  BY <2>2 DEF OverlayIsOneOfThem, SameAs, Both, FileSource, DirSource, Arch
<1> QED  BY <1>1, ServerHolds, PTL

(* What is sent.                                                           *)
LEMMA SourceHas ==
  ASSUME ServerInv, NEW w \in Threads, config = "file" => source[w] # NotLoaded, NEW s
  PROVE  get_crate(SourceOf(w), s) # None =>
           s \in DOMAIN Arch /\ get_crate(SourceOf(w), s) = Arch[s]
<1>1. ArchivesIn(Arch)
  BY ArchIs DEF ServerInv
<1>2. CASE config = "file"
  <2>1. SourceOf(w) = FileSource(source[w].st) /\ SoundFile(source[w].st, Arch)
    BY <1>2 DEF SourceOf, ServerInv, SourcesOK, SoundSource
  <2>2. get_crate(SourceOf(w), s) = IF Complete(source[w].st, Arch, s) THEN Arch[s] ELSE None
    BY <1>1, <2>1, FileCrate
  <2>3. Complete(source[w].st, Arch, s) => s \in DOMAIN Arch
    BY <2>1 DEF Complete, SoundFile
  <2> QED  BY <2>2, <2>3
<1>3. CASE config # "file"
  <2>1. SourceOf(w) = DirSource(config) /\ config \in {"cache", "tree"}
    BY <1>3, ServerConstantsOK DEF SourceOf, DirSource, ServerInv, TypeOK
  <2>2. get_crate(SourceOf(w), s) = IF s \in DOMAIN Arch THEN Arch[s] ELSE None
    BY <1>1, <2>1, DirCrate
  <2> QED  BY <2>2
<1> QED  BY <1>2, <1>3

LEMMA ReleasedIs ==
  ASSUME TypeOK, NEW s \in DOMAIN Arch
  PROVE  Released(s) = Arch[s]
<1>1. /\ archives \in DOMAIN Archives /\ Len(Archives) \in DOMAIN Archives
      /\ archives <= Len(Archives)
  BY ServerConstantsOK DEF TypeOK
<1> QED  BY <1>1, ServerConstantsOK DEF Released, Arch

LEMMA TakenApart ==
  ASSUME NEW a, from_archive_file(a) \notin {None, Panic}
  PROVE  LET b == to_archive_file(from_archive_file(a))
         IN b.raw = a.raw /\ b.name = a.name /\ b.os = a.os
BY DEF to_archive_file, from_archive_file

LEMMA Statuses ==
  /\ Blank.status # "file" /\ Dropped.status # "file" /\ ErrorPage.status # "file" /\ NotFound.status # "file"
  /\ \A ls : Page(ls).status # "file"
  /\ \A s, a : Download(s, a).body = [of |-> s, archive |-> a]
BY DEF Blank, Dropped, ErrorPage, NotFound, Page, Download

LEMMA WholeStep == ServerInv /\ DownloadIsWhole /\ [Next]_vars => DownloadIsWhole'
<1> SUFFICES ASSUME ServerInv, DownloadIsWhole, [Next]_vars PROVE DownloadIsWhole'
  OBVIOUS
<1>1. ASSUME shown' = shown PROVE DownloadIsWhole'
  BY <1>1 DEF DownloadIsWhole, Released
<1>2. ASSUME shown'.status # "file" PROVE DownloadIsWhole'
  BY <1>2 DEF DownloadIsWhole
<1>3. ASSUME NEW w \in Threads, Answer(w) PROVE DownloadIsWhole'
  <2> DEFINE r == req[w].ask
             s == <<r.name, r.version>>
             src == SourceOf(w)
             a == get_crate(src, s)
  <2>1. /\ r.page \in Pages /\ (UsesSource(r) => source[w] # NotLoaded)
        /\ \E resp \in Responses(w, r) : Finish(w, Fallback(resp, r))
    BY <1>3, AnswerParts
  <2>2. PICK resp \in Responses(w, r) : Finish(w, Fallback(resp, r))
    BY <2>1
  <2>3. shown' = Fallback(resp, r)
    BY <2>2 DEF Finish
  <2> HIDE DEF r
  <2>4. CASE r.page # "download"
    <3>1. PlainAnswer(resp)
      BY <2>1, <2>4, AnswersAre
    <3>2. resp.status # "file"
      <4>1. CASE resp \in {ErrorPage, Dropped, NotFound}
        BY <4>1, Statuses
      <4>2. CASE \E ls : LinksOK(ls) /\ resp = Page(ls)
        BY <4>2, Statuses
      <4> QED  BY <3>1, <4>1, <4>2 DEF PlainAnswer
    <3>3. shown'.status # "file"
      BY <2>3, <3>2, Statuses DEF Fallback
    <3> QED  BY <1>2, <3>3
  <2>5. CASE r.page = "download"
    <3>1. DownloadAnswer(src, s, resp)
      BY <2>1, <2>5, AnswersAre
    <3>2. shown' = resp
      BY <2>3, <2>5 DEF Fallback
    <3>3. CASE resp \in {Dropped, NotFound}
      <4>1. shown'.status # "file"
        BY <3>2, <3>3, Statuses
      <4> QED  BY <1>2, <4>1
    <3>4. CASE /\ a # None
               /\ resp = Download(s, to_archive_file(from_archive_file(a)))
               /\ from_archive_file(a) \notin {None, Panic}
      <4>1. UsesSource(r)
        BY <2>5 DEF UsesSource
      <4>2. s \in DOMAIN Arch /\ a = Arch[s]
        BY <2>1, <3>4, <4>1, SourceHas
      <4>3. Released(s) = a
        BY <4>2, ReleasedIs DEF ServerInv
      <4> DEFINE b == to_archive_file(from_archive_file(a))
      <4> HIDE DEF a, s
      <4>4. b.raw = a.raw /\ b.name = a.name /\ b.os = a.os
        BY <3>4, TakenApart
      <4> HIDE DEF b
      <4>5. shown'.body = [of |-> s, archive |-> b]
        BY <3>2, <3>4, Statuses DEF b
      <4>6. shown'.body.of = s /\ shown'.body.archive = b
        BY <4>5
      <4> QED  BY <4>3, <4>4, <4>6 DEF DownloadIsWhole, Released
    <3> QED  BY <3>1, <3>3, <3>4 DEF DownloadAnswer
  <2> QED  BY <2>4, <2>5
<1>4. ASSUME NEW w \in Threads, Accept(w) \/ ThreadStep(w) PROVE DownloadIsWhole'
  <2>1. CASE Accept(w)
    BY <1>2, <2>1, Statuses DEF Accept
  <2>2. CASE LoadSource(w)
    BY <1>1, <1>2, <2>2, Statuses DEF LoadSource, Finish
  <2>3. CASE BeginStats(w)
    BY <1>1, <2>3 DEF BeginStats
  <2>4. CASE EndStats(w)
    BY <1>1, <1>2, <2>4, Statuses DEF EndStats, AfterPanic, Finish
  <2>5. CASE StatsPoisoned(w)
    BY <1>2, <2>5, Statuses DEF StatsPoisoned, Finish
  <2> QED  BY <1>3, <1>4, <2>1, <2>2, <2>3, <2>4, <2>5 DEF ThreadStep
<1>5. CASE UpdateIndex \/ Mirror \/ FillStorage \/ UNCHANGED vars
  BY <1>1, <1>5 DEF UpdateIndex, Mirror, FillStorage, vars
<1> QED  BY <1>4, <1>5 DEF Next

(* A download has all of the files of the release asked for, from any      *)
(* source, also from a storage file loaded before it was made anew         *)
(* (main.rs:275-302).                                                      *)
THEOREM DownloadsAreWhole == Spec => []DownloadIsWhole
<1>1. Init => DownloadIsWhole
  BY Statuses DEF Init, DownloadIsWhole
<1>2. ServerInv /\ DownloadIsWhole /\ [Next]_vars => DownloadIsWhole'
  BY WholeStep
<1> QED  BY <1>1, <1>2, ServerHolds, PTL DEF Spec

-----------------------------------------------------------------------------
(* Links to the error page.                                                *)

(* get_crate_json looks where crates.io keeps the file.                    *)
LEMMA PathIsFound ==
  ASSUME NEW n \in Seq(STRING), n # <<>>
  PROVE  PathInIndex(n) = obtain_crate_name_path(n)
<1> DEFINE k == Len(n)
<1>1. k \in Nat /\ k # 0
  OBVIOUS
<1> HIDE DEF k
<1>2. k = 1 \/ k = 2 \/ k = 3 \/ (k > 3 /\ k # 1 /\ k # 2 /\ k # 3)
  BY <1>1
<1>3. CASE k = 1
  BY <1>3 DEF k, PathInIndex, obtain_crate_name_path
<1>4. CASE k = 2
  BY <1>4 DEF k, PathInIndex, obtain_crate_name_path
<1>5. CASE k = 3
  BY <1>5 DEF k, PathInIndex, obtain_crate_name_path
<1>6. CASE k > 3 /\ k # 1 /\ k # 2 /\ k # 3
  BY <1>6 DEF k, PathInIndex, obtain_crate_name_path
<1> QED  BY <1>2, <1>3, <1>4, <1>5, <1>6

(* What is read for a name is the file at its path.                        *)
LEMMA FileRead ==
  ASSUME NEW idx, IndexOK(idx), idx # NoRepo, NEW n, NEW k \in DOMAIN idx,
         idx[k].path = obtain_crate_name_path(n)
  PROVE  get_crate_json(idx, n) = IF idx[k].lines = BadJson THEN None ELSE idx[k].lines
<1>1. \A j \in DOMAIN idx : idx[j].path = obtain_crate_name_path(n) => j = k
  BY DEF IndexOK
<1> DEFINE at == {j \in DOMAIN idx : idx[j].path = obtain_crate_name_path(n)}
<1>2. at = {k}
  BY <1>1
<1>3. get_crate_json(idx, n) = LET i == CHOOSE i \in at : TRUE
                               IN IF idx[i].lines = BadJson THEN None ELSE idx[i].lines
  BY <1>2 DEF get_crate_json
<1> HIDE DEF at
<1>4. (CHOOSE i \in at : TRUE) = k
  BY <1>2
<1> QED  BY <1>3, <1>4

LEMMA VersionInFile ==
  ASSUME NEW idx, NEW v \in Versions(idx)
  PROVE  \E k \in DOMAIN idx :
           /\ IsCrate(idx[k]) /\ idx[k].lines # BadJson
           /\ \E l \in DOMAIN idx[k].lines : v = idx[k].lines[l]
<1> DEFINE K == {j \in DOMAIN idx : IsCrate(idx[j]) /\ idx[j].lines # BadJson}
           R(j) == Range(idx[j].lines)
<1>1. Versions(idx) = UNION {R(j) : j \in K}
  BY DEF Versions
<1> HIDE DEF K, R
<1>2. PICK k \in K : v \in R(k)
  BY <1>1
<1>3. k \in DOMAIN idx /\ IsCrate(idx[k]) /\ idx[k].lines # BadJson
  BY DEF K
<1>4. \E l \in DOMAIN idx[k].lines : v = idx[k].lines[l]
  BY <1>2 DEF R, Range
<1> QED  BY <1>3, <1>4

(* A version is found in the index under its crate's own spelling, if that *)
(* is in lower case.                                                       *)
LEMMA VersionIsFound ==
  ASSUME NEW idx, IndexOK(idx), idx # NoRepo, NEW v \in Versions(idx), v.name = Lower[v.name]
  PROVE  LET json == get_crate_json(idx, v.name)
         IN json # None /\ \E l \in DOMAIN json : v = json[l]
<1> DEFINE n == v.name
<1>1. PICK k \in DOMAIN idx : /\ IsCrate(idx[k]) /\ idx[k].lines # BadJson
                             /\ \E l \in DOMAIN idx[k].lines : v = idx[k].lines[l]
  BY VersionInFile
<1>2. FileOK(idx[k]) /\ idx[k].lines # None
  BY <1>1 DEF IndexOK
<1>3. n \in DOMAIN Lower /\ idx[k].path = PathInIndex(n)
  BY <1>1, <1>2 DEF FileOK
<1>4. idx[k].path = obtain_crate_name_path(n)
  BY <1>3, LowerOK, PathIsFound
<1>5. get_crate_json(idx, n) = idx[k].lines
  BY <1>1, <1>4, FileRead
<1> QED  BY <1>1, <1>2, <1>5

LEMMA CrateIsFound ==
  ASSUME NEW idx, IndexOK(idx), idx # NoRepo, NEW n \in NamesIn(idx), n = Lower[n]
  PROVE  get_crate_json(idx, n) \notin {None, <<>>}
<1>1. PICK v \in Versions(idx) : v.name = n
  BY DEF NamesIn
<1> DEFINE json == get_crate_json(idx, n)
<1>2. json # None /\ \E l \in DOMAIN json : v = json[l]
  BY <1>1, VersionIsFound
<1> HIDE DEF json
<1>3. json # <<>>
  BY <1>2
<1> QED  BY <1>2, <1>3 DEF json

LEMMA ErrorOfCrate ==
  ASSUME NEW src, NEW idx, IndexOK(idx), idx # NoRepo, NEW n \in NamesIn(idx), n = Lower[n], NEW v
  PROVE  get_crate_data(src, idx, n, v).status # "error"
<1> DEFINE json == get_crate_json(idx, n)
           version == IF v = None THEN Newest(json) ELSE v
           at == {i \in DOMAIN json : json[i].version = version}
           deps == {d \in json[CHOOSE i \in at : TRUE].deps : d.kind \in {"normal", "dev"}}
           ls == {DependentsPage(n), ListingPage(n, version)}
                 \cup {CratePage(n, u) : u \in ListedVersions(json)}
                 \cup {VersionsPage(n) : i \in {k \in DOMAIN json : Len(json) > MaxListed}}
                 \cup {CratePage(d.name, None) : d \in deps}
<1>1. json \notin {None, <<>>}
  BY CrateIsFound
<1>2. get_crate_data(src, idx, n, v) \in {Dropped, Page(ls)}
  BY <1>1 DEF get_crate_data
<1> HIDE DEF ls
<1> QED  BY <1>2 DEF Dropped, Page

(* Error pages come from pages of crates and from paths unknown.           *)
LEMMA OtherAnswers ==
  ASSUME NEW w, NEW r, r.page \in Pages \ {"crate", "static"}, NEW resp \in Responses(w, r)
  PROVE  Fallback(resp, r).status # "error"
<1>1. \A ls : Page(ls).status # "error"
  BY DEF Page
<1>2. Dropped.status # "error" /\ NotFound.status # "error" /\ \A s, a : Download(s, a).status # "error"
  BY DEF Dropped, NotFound, Download
<1>3. Fallback(resp, r) = resp
  BY DEF Fallback
<1>4. CASE r.page = "versions"
  BY <1>1, <1>2, <1>3, <1>4 DEF Responses, get_versions_data
<1>5. CASE r.page = "reverse_dependencies"
  BY <1>1, <1>2, <1>3, <1>5 DEF Responses, get_reverse_dependencies
<1>6. CASE r.page = "index"
  <2> DEFINE F(D, V) == Page({CratePage(n, None) : n \in D \cup V})
  <2>1. get_index_data(stats) = {F(D, V) : D \in LastOf(stats.most_directly_depended_on, MaxListed),
                                           V \in LastOf(stats.most_versions, MaxListed)}
    BY DEF get_index_data
  <2>2. \A D, V : F(D, V).status # "error"
    BY <1>1
  <2>3. resp \in get_index_data(stats)
    BY <1>6 DEF Responses
  <2> HIDE DEF F
  <2> QED  BY <1>3, <2>1, <2>2, <2>3
<1>7. CASE r.page = "search"
  BY <1>1, <1>2, <1>3, <1>7 DEF Responses, get_search_result_data
<1>8. CASE r.page = "files"
  <2>1. resp = get_crate_file_data(SourceOf(w), r.name, r.version, r.path)
    BY <1>8 DEF Responses
  <2> QED  BY <1>1, <1>2, <1>3, <2>1 DEF get_crate_file_data
<1>9. CASE r.page = "download"
  BY <1>1, <1>2, <1>3, <1>9 DEF Responses, api_crate
<1> QED  BY <1>4, <1>5, <1>6, <1>7, <1>8, <1>9 DEF Pages

ErrorIsForeign(w) ==
  (Asked(w) /\ req[w].linked /\ req'[w] = NoRequest /\ shown'.status = "error")
    => LET n == req[w].ask.name IN n # Lower[n] \/ Indexes[index] = NoRepo \/ n \notin NamesIn(Indexes[index])

LEMMA ErrorStep ==
  ASSUME ServerInv, [Next]_vars, NEW w \in Threads
  PROVE  ErrorIsForeign(w)
<1> SUFFICES ASSUME Asked(w), req[w].linked, req'[w] = NoRequest, shown'.status = "error",
                    Indexes[index] # NoRepo, NEW n, n = req[w].ask.name, n = Lower[n],
                    n \in NamesIn(Indexes[index])
             PROVE  FALSE
  BY DEF ErrorIsForeign
<1>1. req[w] # NoRequest /\ req' # req /\ DOMAIN req = Threads
  BY DEF Asked, ServerInv, RequestsOK
<1>2. Dropped.status # "error" /\ Blank.status # "error"
  BY DEF Dropped, Blank
<1>3. PICK u \in Threads : Accept(u) \/ ThreadStep(u)
  BY <1>1 DEF Next, UpdateIndex, Mirror, FillStorage, vars
<1>4. ~Accept(u)
  BY <1>2 DEF Accept
<1>5. ~LoadSource(u) /\ ~BeginStats(u) /\ ~EndStats(u) /\ ~StatsPoisoned(u)
  BY <1>1, <1>2 DEF LoadSource, BeginStats, EndStats, AfterPanic, StatsPoisoned, Finish
<1>6. Answer(u)
  BY <1>3, <1>4, <1>5 DEF ThreadStep
<1>7. PICK resp \in Responses(u, req[u].ask) : Finish(u, Fallback(resp, req[u].ask))
  BY <1>6, AnswerParts
<1>8. u = w
  BY <1>1, <1>7 DEF Finish
<1> DEFINE r == req[w].ask
<1>9. r.page \in Pages /\ r.page # "static"
  BY <1>1 DEF ServerInv, RequestsOK
<1>10. Fallback(resp, r).status = "error"
  BY <1>7, <1>8 DEF Finish
<1>11. r.page = "crate"
  BY <1>7, <1>8, <1>9, <1>10, OtherAnswers
<1>12. IndexOK(Indexes[index])
  BY ServerConstantsOK DEF ServerInv, TypeOK
<1>13. resp = get_crate_data(SourceOf(w), Indexes[index], r.name, r.version)
  BY <1>7, <1>8, <1>11 DEF Responses
<1>14. resp.status # "error"
  BY <1>12, <1>13, ErrorOfCrate
<1> QED  BY <1>9, <1>10, <1>14 DEF Fallback

(* A link leads to the error page only if the crate is not in the index or *)
(* is there under another spelling (registry.rs:186-207).                  *)
THEOREM ForeignErrors == Spec => ErrorLinksAreForeign
<1>1. ASSUME ServerInv, [Next]_vars
      PROVE  \A w \in Threads :
               (Asked(w) /\ req[w].linked /\ req'[w] = NoRequest /\ shown'.status = "error")
                 => LET n == req[w].ask.name IN n # Lower[n] \/ Indexes[index] = NoRepo
                                                  \/ n \notin NamesIn(Indexes[index])
  BY <1>1, ErrorStep DEF ErrorIsForeign
<1> QED  BY <1>1, ServerHolds, PTL DEF Spec, ErrorLinksAreForeign

-----------------------------------------------------------------------------
(* Maps of sets.                                                           *)

AtKey(map, k) == IF k \in DOMAIN map THEN map[k] ELSE {}
KeysOf(pairs) == {p[1] : p \in pairs}
Under(pairs, k) == {p[2] : p \in {q \in pairs : q[1] = k}}

LEMMA MergedParts ==
  ASSUME NEW m, NEW P
  PROVE  /\ Merged(m, P) = [k \in DOMAIN m \cup KeysOf(P) |-> AtKey(m, k) \cup Under(P, k)]
         /\ DOMAIN Merged(m, P) = DOMAIN m \cup KeysOf(P)
         /\ \A k : AtKey(Merged(m, P), k) = AtKey(m, k) \cup Under(P, k)
<1>1. Merged(m, P) = [k \in DOMAIN m \cup KeysOf(P) |-> AtKey(m, k) \cup Under(P, k)]
  BY DEF Merged, AtKey, KeysOf, Under
<1> DEFINE r == Merged(m, P)
           D == DOMAIN m \cup KeysOf(P)
<1>2. DOMAIN r = D /\ \A k \in D : r[k] = AtKey(m, k) \cup Under(P, k)
  BY <1>1
<1> HIDE DEF r
<1>3. ASSUME NEW k, k \notin D PROVE AtKey(m, k) = {} /\ Under(P, k) = {}
  BY <1>3 DEF AtKey, Under, KeysOf
<1>4. ASSUME NEW k PROVE AtKey(r, k) = AtKey(m, k) \cup Under(P, k)
  BY <1>2, <1>3 DEF AtKey
<1> QED  BY <1>1, <1>2, <1>4 DEF r

LEMMA MergedTwice ==
  ASSUME NEW m, NEW P, NEW Q
  PROVE  Merged(Merged(m, P), Q) = Merged(m, P \cup Q)
<1>1. KeysOf(P \cup Q) = KeysOf(P) \cup KeysOf(Q) /\ \A k : Under(P \cup Q, k) = Under(P, k) \cup Under(Q, k)
  BY DEF KeysOf, Under
<1> DEFINE r == Merged(m, P)
           D == DOMAIN m \cup KeysOf(P \cup Q)
           old(k) == AtKey(r, k) \cup Under(Q, k)
           new(k) == AtKey(m, k) \cup Under(P \cup Q, k)
<1>2. Merged(r, Q) = [k \in DOMAIN r \cup KeysOf(Q) |-> old(k)]
  BY MergedParts
<1>3. Merged(m, P \cup Q) = [k \in D |-> new(k)]
  BY MergedParts
<1>4. DOMAIN r = DOMAIN m \cup KeysOf(P) /\ \A k : AtKey(r, k) = AtKey(m, k) \cup Under(P, k)
  BY MergedParts
<1> HIDE DEF r
<1>5. DOMAIN r \cup KeysOf(Q) = D
  BY <1>1, <1>4
<1>6. ASSUME NEW k PROVE old(k) = new(k)
  <2>1. Under(P \cup Q, k) = Under(P, k) \cup Under(Q, k) /\ AtKey(r, k) = AtKey(m, k) \cup Under(P, k)
    BY <1>1, <1>4
  <2> QED  BY <2>1
<1> HIDE DEF D, old, new
<1>7. [k \in D |-> old(k)] = [k \in D |-> new(k)]
  BY <1>6
<1> QED  BY <1>2, <1>3, <1>5, <1>7 DEF r

LEMMA MergedInNone ==
  ASSUME NEW P
  PROVE  /\ Merged(NoKeys, P) = [k \in KeysOf(P) |-> Under(P, k)]
         /\ Merged(NoKeys, {}) = NoKeys
<1>1. DOMAIN NoKeys = {} /\ \A k : AtKey(NoKeys, k) = {}
  BY DEF NoKeys, AtKey
<1>2. ASSUME NEW Q PROVE Merged(NoKeys, Q) = [k \in KeysOf(Q) |-> Under(Q, k)]
  <2> DEFINE r(k) == AtKey(NoKeys, k) \cup Under(Q, k)
  <2>1. Merged(NoKeys, Q) = [k \in DOMAIN NoKeys \cup KeysOf(Q) |-> r(k)]
    BY MergedParts
  <2>2. DOMAIN NoKeys \cup KeysOf(Q) = KeysOf(Q)
    BY <1>1
  <2>3. \A k : r(k) = Under(Q, k)
    BY <1>1
  <2> HIDE DEF r
  <2> QED  BY <2>1, <2>2, <2>3
<1>3. KeysOf({}) = {}
  BY DEF KeysOf
<1> QED  BY <1>2, <1>3 DEF NoKeys

-----------------------------------------------------------------------------
(* The loops over crates and versions collect names and pairs.             *)

Plus(s, N, R, D) ==
  [names |-> s.names \cup N, revd |-> Merged(s.revd, R), ddon |-> Merged(s.ddon, D)]

UpTo(F, i) == UNION {F[j] : j \in 1..i}

LEMMA PlusTwice ==
  ASSUME NEW s, NEW N, NEW R, NEW D, NEW N2, NEW R2, NEW D2
  PROVE  Plus(Plus(s, N, R, D), N2, R2, D2) = Plus(s, N \cup N2, R \cup R2, D \cup D2)
BY MergedTwice DEF Plus

LEMMA UpToMore ==
  ASSUME NEW F, NEW i \in Nat
  PROVE  UpTo(F, i + 1) = UpTo(F, i) \cup F[i + 1] /\ UpTo(F, 1) = F[1]
<1>1. \A j : j \in 1..(i + 1) <=> j \in 1..i \/ j = i + 1
  OBVIOUS
<1>2. 1..1 = {1}
  OBVIOUS
<1> QED  BY <1>1, <1>2 DEF UpTo

Looping(g, n, s, N, R, D) ==
  g = [i \in 0..n |-> IF i = 0 THEN s ELSE Plus(g[i - 1], N[i], R[i], D[i])]

Total(s, N, R, D, i) == Plus(s, UpTo(N, i), UpTo(R, i), UpTo(D, i))

LEMMA TotalMore ==
  ASSUME NEW s, NEW N, NEW R, NEW D, NEW i \in Nat
  PROVE  /\ Total(s, N, R, D, 1) = Plus(s, N[1], R[1], D[1])
         /\ Total(s, N, R, D, i + 1) = Plus(Total(s, N, R, D, i), N[i + 1], R[i + 1], D[i + 1])
BY UpToMore, PlusTwice DEF Total

LEMMA LoopExists ==
  ASSUME NEW n \in Nat, NEW s, NEW N, NEW R, NEW D
  PROVE  \E g : Looping(g, n, s, N, R, D)
<1> DEFINE T(i) == Total(s, N, R, D, i)
           g == [i \in 0..n |-> IF i = 0 THEN s ELSE T(i)]
<1>1. \A i \in Nat : T(i + 1) = Plus(T(i), N[i + 1], R[i + 1], D[i + 1])
  BY TotalMore
<1>2. T(1) = Plus(s, N[1], R[1], D[1])
  BY TotalMore
<1> HIDE DEF T
<1>3. ASSUME NEW i \in 0..n
      PROVE  g[i] = IF i = 0 THEN s ELSE Plus(g[i - 1], N[i], R[i], D[i])
  <2>1. CASE i = 0
    BY <2>1
  <2>2. CASE i = 1
    <3>1. g[1] = T(1) /\ g[0] = s /\ i - 1 = 0
      BY <2>2
    <3> HIDE DEF g
    <3> QED  BY <1>2, <2>2, <3>1
  <2>3. CASE i > 1
    <3>1. i - 1 \in Nat /\ i - 1 \in 0..n /\ i - 1 # 0 /\ (i - 1) + 1 = i /\ i # 0
      BY <2>3
    <3>2. g[i] = T(i) /\ g[i - 1] = T(i - 1)
      BY <3>1
    <3>3. T(i) = Plus(T(i - 1), N[i], R[i], D[i])
      BY <1>1, <3>1
    <3> HIDE DEF g
    <3> QED  BY <3>1, <3>2, <3>3
  <2> QED  BY <2>1, <2>2, <2>3
<1>4. g = [i \in 0..n |-> g[i]]
  OBVIOUS
<1> HIDE DEF g
<1>5. Looping(g, n, s, N, R, D)
  BY <1>3, <1>4 DEF Looping
<1> QED  BY <1>5

LEMMA LoopTotal ==
  ASSUME NEW n \in Nat, NEW s, NEW N, NEW R, NEW D, NEW g, Looping(g, n, s, N, R, D)
  PROVE  g[0] = s /\ (n # 0 => g[n] = Total(s, N, R, D, n))
<1> DEFINE T(i) == Total(s, N, R, D, i)
           A == {i \in Nat : i + 1 <= n => g[i + 1] = T(i + 1)}
<1>1. \A i \in 0..n : g[i] = IF i = 0 THEN s ELSE Plus(g[i - 1], N[i], R[i], D[i])
  BY DEF Looping
<1>2. \A i \in Nat : T(i + 1) = Plus(T(i), N[i + 1], R[i + 1], D[i + 1])
  BY TotalMore
<1>3. T(1) = Plus(s, N[1], R[1], D[1])
  BY TotalMore
<1> HIDE DEF T
<1>4. g[0] = s
  BY <1>1
<1>5. 0 \in A
  <2> SUFFICES ASSUME 1 <= n PROVE g[1] = T(1)
    OBVIOUS
  <2>1. 1 \in 0..n /\ 1 - 1 = 0 /\ 1 # 0
    OBVIOUS
  <2> QED  BY <1>1, <1>3, <1>4, <2>1
<1>6. ASSUME NEW i \in Nat, i \in A PROVE i + 1 \in A
  <2> SUFFICES ASSUME (i + 1) + 1 <= n PROVE g[(i + 1) + 1] = T((i + 1) + 1)
    OBVIOUS
  <2> DEFINE k == i + 1
  <2>1. k \in Nat /\ k <= n /\ k + 1 \in 0..n /\ (k + 1) - 1 = k /\ k + 1 # 0
    OBVIOUS
  <2>2. g[k] = T(k)
    BY <1>6, <2>1
  <2> HIDE DEF k
  <2>3. g[k + 1] = Plus(g[k], N[k + 1], R[k + 1], D[k + 1])
    BY <1>1, <2>1
  <2>4. g[k + 1] = T(k + 1)
    BY <1>2, <2>1, <2>2, <2>3
  <2> QED  BY <2>4 DEF k
<1> HIDE DEF A
<1>7. Nat \subseteq A
  BY <1>5, <1>6, SetInduction
<1>8. n # 0 => g[n] = T(n)
  <2> SUFFICES ASSUME n # 0 PROVE g[n] = T(n)
    OBVIOUS
  <2>1. n - 1 \in Nat /\ (n - 1) + 1 = n /\ n <= n
    OBVIOUS
  <2>2. n - 1 \in A
    BY <1>7, <2>1
  <2> QED  BY <2>1, <2>2 DEF A
<1> QED  BY <1>4, <1>8 DEF T

(* What one version adds, and all versions of a crate, and all crates.     *)
VersionNames(v) == {d.name : d \in v.deps}
VersionPairs(krate, v) == {<<d.name, <<d.req, krate.name, v.version>> >> : d \in v.deps}
VersionUses(krate, v) == {<<d.name, krate.name>> : d \in {e \in v.deps : v.version = Newest(krate.versions)}}

CrateNames(krate) == UpTo([i \in 1..Len(krate.versions) |-> VersionNames(krate.versions[i])], Len(krate.versions))
CratePairs(krate) ==
  UpTo([i \in 1..Len(krate.versions) |-> VersionPairs(krate, krate.versions[i])], Len(krate.versions))
CrateUses(krate) ==
  UpTo([i \in 1..Len(krate.versions) |-> VersionUses(krate, krate.versions[i])], Len(krate.versions))

AllNames(acj) == UpTo([i \in 1..Len(acj) |-> CrateNames(acj[i])], Len(acj))
AllPairs(acj) == UpTo([i \in 1..Len(acj) |-> CratePairs(acj[i])], Len(acj))
AllUses(acj) == UpTo([i \in 1..Len(acj) |-> CrateUses(acj[i])], Len(acj))

LEMMA AddVersionIs ==
  ASSUME NEW s, NEW krate, NEW v
  PROVE  AddVersion(s, krate, v) = Plus(s, VersionNames(v), VersionPairs(krate, v), VersionUses(krate, v))
BY DEF AddVersion, Plus, VersionNames, VersionPairs, VersionUses

LEMMA AddCrateIs ==
  ASSUME NEW s, NEW krate, Len(krate.versions) \in Nat \ {0}
  PROVE  AddCrate(s, krate) = Plus(s, CrateNames(krate), CratePairs(krate), CrateUses(krate))
<1> DEFINE n == Len(krate.versions)
           N == [i \in 1..n |-> VersionNames(krate.versions[i])]
           R == [i \in 1..n |-> VersionPairs(krate, krate.versions[i])]
           D == [i \in 1..n |-> VersionUses(krate, krate.versions[i])]
           Adding(g) == g = [i \in 0..n |-> IF i = 0 THEN s
                                            ELSE AddVersion(g[i - 1], krate, krate.versions[i])]
           f == CHOOSE g : Adding(g)
<1>1. AddCrate(s, krate) = f[n]
  BY DEF AddCrate
<1>2. ASSUME NEW g PROVE Adding(g) <=> Looping(g, n, s, N, R, D)
  <2> DEFINE a(i) == IF i = 0 THEN s ELSE AddVersion(g[i - 1], krate, krate.versions[i])
             b(i) == IF i = 0 THEN s ELSE Plus(g[i - 1], N[i], R[i], D[i])
  <2>1. ASSUME NEW i \in 0..n PROVE a(i) = b(i)
    <3>1. CASE i = 0
      BY <3>1
    <3>2. CASE i # 0
      <4>1. i \in 1..n
        BY <3>2
      <4>2. /\ N[i] = VersionNames(krate.versions[i]) /\ R[i] = VersionPairs(krate, krate.versions[i])
            /\ D[i] = VersionUses(krate, krate.versions[i])
        BY <4>1
      <4> HIDE DEF N, R, D
      <4> QED  BY <3>2, <4>2, AddVersionIs
    <3> QED  BY <3>1, <3>2
  <2> HIDE DEF a, b
  <2>2. [i \in 0..n |-> a(i)] = [i \in 0..n |-> b(i)]
    BY <2>1
  <2> QED  BY <2>2 DEF a, b, Looping
<1> HIDE DEF Adding
<1>3. n \in Nat /\ n # 0
  OBVIOUS
<1> HIDE DEF n, N, R, D
<1>4. \E g : Adding(g)
  BY <1>2, <1>3, LoopExists
<1>5. Adding(f)
  BY <1>4
<1> HIDE DEF f
<1>6. f[n] = Total(s, N, R, D, n)
  BY <1>2, <1>3, <1>5, LoopTotal
<1> QED  BY <1>1, <1>6 DEF Total, n, N, R, D, CrateNames, CratePairs, CrateUses

LEMMA LoopsAre ==
  ASSUME NEW acj, Len(acj) \in Nat, \A i \in 1..Len(acj) : Len(acj[i].versions) \in Nat \ {0}
  PROVE  /\ Loops(acj).names = Names(acj) \cup AllNames(acj)
         /\ Loops(acj).revd = Merged(NoKeys, AllPairs(acj))
         /\ Loops(acj).ddon = Merged(NoKeys, AllUses(acj))
<1> DEFINE n == Len(acj)
           s == [names |-> Names(acj), revd |-> NoKeys, ddon |-> NoKeys]
           N == [i \in 1..n |-> CrateNames(acj[i])]
           R == [i \in 1..n |-> CratePairs(acj[i])]
           D == [i \in 1..n |-> CrateUses(acj[i])]
           Adding(g) == g = [i \in 0..n |-> IF i = 0 THEN s ELSE AddCrate(g[i - 1], acj[i])]
           f == CHOOSE g : Adding(g)
<1>1. Loops(acj) = f[n]
  BY DEF Loops
<1>2. ASSUME NEW g PROVE Adding(g) <=> Looping(g, n, s, N, R, D)
  <2> DEFINE a(i) == IF i = 0 THEN s ELSE AddCrate(g[i - 1], acj[i])
             b(i) == IF i = 0 THEN s ELSE Plus(g[i - 1], N[i], R[i], D[i])
  <2>1. ASSUME NEW i \in 0..n PROVE a(i) = b(i)
    <3>1. CASE i = 0
      BY <3>1
    <3>2. CASE i # 0
      <4>1. i \in 1..n /\ Len(acj[i].versions) \in Nat \ {0}
        BY <3>2
      <4>2. N[i] = CrateNames(acj[i]) /\ R[i] = CratePairs(acj[i]) /\ D[i] = CrateUses(acj[i])
        BY <4>1
      <4> HIDE DEF N, R, D, s
      <4>3. AddCrate(g[i - 1], acj[i]) = Plus(g[i - 1], N[i], R[i], D[i])
        BY <4>1, <4>2, AddCrateIs
      <4> QED  BY <3>2, <4>3
    <3> QED  BY <3>1, <3>2
  <2> HIDE DEF a, b
  <2>2. [i \in 0..n |-> a(i)] = [i \in 0..n |-> b(i)]
    BY <2>1
  <2> QED  BY <2>2 DEF a, b, Looping
<1> HIDE DEF Adding
<1>3. n \in Nat
  OBVIOUS
<1> HIDE DEF n, N, R, D
<1>4. \E g : Adding(g)
  BY <1>2, <1>3, LoopExists
<1>5. Adding(f)
  BY <1>4
<1> HIDE DEF f
<1>6. f[0] = s /\ (n # 0 => f[n] = Total(s, N, R, D, n))
  BY <1>2, <1>3, <1>5, LoopTotal
<1>7. UpTo(N, n) = AllNames(acj) /\ UpTo(R, n) = AllPairs(acj) /\ UpTo(D, n) = AllUses(acj)
  BY DEF n, N, R, D, AllNames, AllPairs, AllUses
<1>8. CASE n # 0
  BY <1>1, <1>6, <1>7, <1>8 DEF Total, Plus
<1>9. CASE n = 0
  <2>1. \A F : UpTo(F, 0) = {}
    BY DEF UpTo
  <2>2. AllNames(acj) = {} /\ AllPairs(acj) = {} /\ AllUses(acj) = {}
    BY <1>7, <1>9, <2>1
  <2>3. Loops(acj) = s
    BY <1>1, <1>6, <1>9
  <2> QED  BY <2>2, <2>3, MergedInNone
<1> QED  BY <1>8, <1>9

-----------------------------------------------------------------------------
(* All the crates of an index.                                             *)

CrateOf(file) == [name |-> CrateName(file), versions |-> file.lines]

Walking(idx, g) ==
  g = [i \in 0..Len(idx) |->
        IF i = 0 THEN <<>>
        ELSE IF ~IsCrate(idx[i]) THEN g[i - 1] ELSE Append(g[i - 1], CrateOf(idx[i]))]

CratesIn(idx) == {CrateOf(idx[i]) : i \in {j \in 1..Len(idx) : IsCrate(idx[j])}}

LEMMA WalkExists ==
  ASSUME NEW idx, Len(idx) \in Nat
  PROVE  \E g : Walking(idx, g)
<1> DEFINE n == Len(idx)
           T == CratesIn(idx)
           S == Seq(T)
           next(i, q) == IF ~IsCrate(idx[i]) THEN q ELSE Append(q, CrateOf(idx[i]))
           F == [i \in 1..n |-> [q \in S |-> next(i, q)]]
<1>1. ASSUME NEW i \in 1..n, NEW q \in S PROVE next(i, q) \in S
  <2>1. IsCrate(idx[i]) => CrateOf(idx[i]) \in T
    BY DEF CratesIn
  <2> HIDE DEF T
  <2> QED  BY <2>1
<1>2. <<>> \in S
  OBVIOUS
<1> HIDE DEF S, next, T
<1>3. F \in [1..n -> [S -> S]]
  BY <1>1
<1>4. \A i \in 1..n : \A q \in S : F[i][q] = next(i, q)
  OBVIOUS
<1> HIDE DEF F
<1>5. PICK g \in [0..n -> S] : g[0] = <<>> /\ \A i \in 1..n : g[i] = F[i][g[i - 1]]
  BY <1>2, <1>3, RecursionExists
<1>6. ASSUME NEW i \in 0..n PROVE g[i] = IF i = 0 THEN <<>> ELSE next(i, g[i - 1])
  <2>1. CASE i = 0
    BY <1>5, <2>1
  <2>2. CASE i # 0
    <3>1. i \in 1..n /\ i - 1 \in 0..n
      BY <2>2
    <3>2. g[i - 1] \in S
      BY <1>5, <3>1
    <3> QED  BY <1>4, <1>5, <2>2, <3>1, <3>2
  <2> QED  BY <2>1, <2>2
<1>7. g = [i \in 0..n |-> IF i = 0 THEN <<>> ELSE next(i, g[i - 1])]
  BY <1>5, <1>6
<1> QED  BY <1>7 DEF Walking, next

LEMMA WalkIs ==
  ASSUME NEW idx, Len(idx) \in Nat, NEW g, Walking(idx, g)
  PROVE  LET q == g[Len(idx)]
         IN q \in Seq(CratesIn(idx)) /\ \A c \in CratesIn(idx) : \E i \in 1..Len(q) : q[i] = c
<1> DEFINE n == Len(idx)
           T == CratesIn(idx)
           Has(k) == g[k] \in Seq(T) /\ \A j \in 1..k : IsCrate(idx[j]) =>
                                          \E i \in 1..Len(g[k]) : g[k][i] = CrateOf(idx[j])
           A == {k \in Nat : k <= n => Has(k)}
<1>1. \A i \in 0..n : g[i] = IF i = 0 THEN <<>>
                             ELSE IF ~IsCrate(idx[i]) THEN g[i - 1] ELSE Append(g[i - 1], CrateOf(idx[i]))
  BY DEF Walking
<1>2. 0 \in A
  <2>1. g[0] = <<>>
    BY <1>1
  <2>2. \A j \in 1..0 : FALSE
    OBVIOUS
  <2> HIDE DEF T
  <2>3. g[0] \in Seq(T)
    BY <2>1
  <2>4. Has(0)
    BY <2>2, <2>3
  <2> QED  BY <2>4
<1>3. ASSUME NEW k \in Nat, k \in A PROVE k + 1 \in A
  <2> SUFFICES ASSUME k + 1 <= n PROVE Has(k + 1)
    OBVIOUS
  <2>1. k <= n /\ k + 1 \in 0..n /\ k + 1 # 0 /\ (k + 1) - 1 = k /\ k + 1 \in 1..n
    OBVIOUS
  <2>2. Has(k)
    BY <1>3, <2>1
  <2>3. \A j \in 1..(k + 1) : j \in 1..k \/ j = k + 1
    OBVIOUS
  <2> DEFINE c == CrateOf(idx[k + 1])
             p == g[k]
             q == g[k + 1]
  <2>4. q = IF ~IsCrate(idx[k + 1]) THEN p ELSE Append(p, c)
    BY <1>1, <2>1
  <2>5. CASE ~IsCrate(idx[k + 1])
    BY <2>2, <2>3, <2>4, <2>5
  <2>6. CASE IsCrate(idx[k + 1])
    <3>1. c \in T
      BY <2>1, <2>6 DEF CratesIn
    <3>2. p \in Seq(T)
      BY <2>2
    <3> DEFINE P(j) == \E i \in 1..Len(p) : p[i] = CrateOf(idx[j])
               Q(j) == \E i \in 1..Len(q) : q[i] = CrateOf(idx[j])
    <3>3. \A j \in 1..k : IsCrate(idx[j]) => P(j)
      BY <2>2
    <3> HIDE DEF T, c, p
    <3>4. /\ Append(p, c) \in Seq(T) /\ Len(Append(p, c)) = Len(p) + 1 /\ Len(p) \in Nat
          /\ \A i \in 1..Len(p) : Append(p, c)[i] = p[i]
          /\ Append(p, c)[Len(p) + 1] = c
      BY <3>1, <3>2
    <3>5. q = Append(p, c)
      BY <2>4, <2>6
    <3> HIDE DEF q
    <3>6. /\ q \in Seq(T) /\ Len(q) = Len(p) + 1
          /\ \A i \in 1..Len(p) : q[i] = p[i]
          /\ q[Len(p) + 1] = c
      BY <3>4, <3>5
    <3>7. ASSUME NEW j \in 1..k, IsCrate(idx[j]) PROVE Q(j)
      <4>1. PICK i \in 1..Len(p) : p[i] = CrateOf(idx[j])
        BY <3>3, <3>7
      <4>2. i \in 1..Len(q) /\ q[i] = p[i]
        BY <3>4, <3>6
      <4> QED  BY <4>1, <4>2
    <3>8. Q(k + 1)
      <4>1. Len(p) + 1 \in 1..Len(q) /\ q[Len(p) + 1] = CrateOf(idx[k + 1])
        BY <3>4, <3>6 DEF c
      <4> QED  BY <4>1
    <3>9. \A j \in 1..(k + 1) : IsCrate(idx[j]) => Q(j)
      <4> HIDE DEF Q
      <4> QED  BY <2>3, <3>7, <3>8
    <3> QED  BY <3>6, <3>9 DEF q, T
  <2> QED  BY <2>5, <2>6
<1> HIDE DEF A
<1>4. n \in A
  BY <1>2, <1>3, SetInduction
<1> HIDE DEF n
<1>5. Has(n)
  BY <1>4 DEF A, n
<1> HIDE DEF Has
<1>6. ASSUME NEW c \in T PROVE \E i \in 1..Len(g[n]) : g[n][i] = c
  <2>1. PICK j \in {l \in 1..n : IsCrate(idx[l])} : c = CrateOf(idx[j])
    BY DEF CratesIn, n
  <2> QED  BY <1>5, <2>1 DEF Has
<1> QED  BY <1>5, <1>6 DEF Has, n

VersionsIn(acj) == UNION {Range(acj[i].versions) : i \in DOMAIN acj}

ListOK(c) ==
  /\ c.versions \in Seq(CrateIndexJson) /\ c.versions # <<>>
  /\ \A j \in DOMAIN c.versions : c.versions[j].name = c.name
  /\ \A j, k \in DOMAIN c.versions : c.versions[j].version = c.versions[k].version => j = k

ListsOK(acj) ==
  /\ Len(acj) \in Nat /\ DOMAIN acj = 1..Len(acj)
  /\ \A i \in DOMAIN acj : ListOK(acj[i])
  /\ \A i, j \in DOMAIN acj : acj[i].name = acj[j].name => acj[i].versions = acj[j].versions

LEMMA AllCratesAre ==
  ASSUME NEW idx, IndexOK(idx), NEW acj, acj = get_all_crates_json(idx), acj # None,
         \A i \in DOMAIN acj : acj[i].versions # <<>>
  PROVE  ListsOK(acj) /\ ~Unusable(idx) /\ Versions(idx) = VersionsIn(acj)
<1> DEFINE n == Len(idx)
           T == CratesIn(idx)
           K == {j \in DOMAIN idx : IsCrate(idx[j]) /\ idx[j].lines # BadJson}
<1>1. /\ idx # NoRepo
      /\ \A i \in DOMAIN idx : ~(IsCrate(idx[i]) /\ idx[i].lines = BadJson)
      /\ acj = (CHOOSE g : Walking(idx, g))[n]
  <2>1. acj = IF idx = NoRepo \/ (\E i \in DOMAIN idx : IsCrate(idx[i]) /\ idx[i].lines = BadJson)
              THEN None ELSE (CHOOSE g : Walking(idx, g))[n]
    BY DEF get_all_crates_json, Walking, CrateOf
  <2> QED  BY <2>1
<1>2. n \in Nat /\ DOMAIN idx = 1..n
  BY <1>1 DEF IndexOK
<1>3. acj \in Seq(T) /\ \A c \in T : \E i \in 1..Len(acj) : acj[i] = c
  <2> DEFINE f == CHOOSE g : Walking(idx, g)
  <2>1. Walking(idx, f)
    BY <1>2, WalkExists
  <2>2. acj = f[n]
    BY <1>1
  <2> HIDE DEF f
  <2> QED  BY <1>2, <2>1, <2>2, WalkIs
<1>4. \A i, j \in DOMAIN idx : idx[i].path = idx[j].path => i = j
  BY <1>1 DEF IndexOK
<1>5. \A i \in DOMAIN idx : IsCrate(idx[i]) => i \in K /\ FileOK(idx[i])
  BY <1>1 DEF IndexOK
<1>6. T = {CrateOf(idx[j]) : j \in K}
  BY <1>2, <1>5 DEF CratesIn
<1> HIDE DEF T
<1>7. Len(acj) \in Nat /\ DOMAIN acj = 1..Len(acj) /\ \A i \in DOMAIN acj : acj[i] \in T
  BY <1>3
<1>8. ASSUME NEW i \in DOMAIN acj
      PROVE  \E j \in K : acj[i].versions = idx[j].lines /\ FileOK(idx[j]) /\ acj[i] = CrateOf(idx[j])
                          /\ ListOK(acj[i]) /\ idx[j].path = PathInIndex(Lower[acj[i].name])
  <2>1. PICK j \in K : acj[i] = CrateOf(idx[j])
    BY <1>6, <1>7
  <2>2. FileOK(idx[j]) /\ acj[i].versions = idx[j].lines
    BY <1>5, <2>1 DEF CrateOf
  <2> DEFINE lines == idx[j].lines
  <2>3. lines # <<>> /\ lines \in Seq(CrateIndexJson)
    BY <2>2 DEF FileOK
  <2>4. 1 \in DOMAIN lines
    BY <2>3
  <2>5. acj[i].name = lines[1].name
    BY <2>1, <2>3 DEF CrateOf, CrateName
  <2>6. \A k \in DOMAIN lines : lines[k].name = acj[i].name
    BY <2>2, <2>4, <2>5 DEF FileOK
  <2>7. idx[j].path = PathInIndex(Lower[acj[i].name])
    BY <2>2, <2>4, <2>5 DEF FileOK
  <2>8. ListOK(acj[i])
    BY <2>2, <2>3, <2>6 DEF ListOK, FileOK
  <2> QED  BY <2>1, <2>2, <2>7, <2>8
<1>9. ASSUME NEW i \in DOMAIN acj, NEW j \in DOMAIN acj, acj[i].name = acj[j].name
      PROVE  acj[i].versions = acj[j].versions
  <2>1. PICK k \in K : acj[i].versions = idx[k].lines
                       /\ idx[k].path = PathInIndex(Lower[acj[i].name])
    BY <1>8
  <2>2. PICK l \in K : acj[j].versions = idx[l].lines
                       /\ idx[l].path = PathInIndex(Lower[acj[j].name])
    BY <1>8
  <2>3. k = l
    BY <1>4, <1>9, <2>1, <2>2
  <2> QED  BY <2>1, <2>2, <2>3
<1>10. ListsOK(acj)
  BY <1>7, <1>8, <1>9 DEF ListsOK
<1>11. ASSUME NEW j \in K PROVE \E i \in DOMAIN acj : acj[i].versions = idx[j].lines
  <2>1. PICK i \in 1..Len(acj) : acj[i] = CrateOf(idx[j])
    BY <1>3, <1>6
  <2> QED  BY <1>7, <2>1 DEF CrateOf
<1>12. ~Unusable(idx)
  <2>1. \A j \in K : idx[j].lines # <<>>
    BY <1>11
  <2> QED  BY <1>1, <1>5, <2>1 DEF Unusable
<1>13. Versions(idx) = VersionsIn(acj)
  <2> DEFINE R(j) == Range(idx[j].lines)
             Q(i) == Range(acj[i].versions)
  <2>1. Versions(idx) = UNION {R(j) : j \in K} /\ VersionsIn(acj) = UNION {Q(i) : i \in DOMAIN acj}
    BY DEF Versions, VersionsIn
  <2>2. \A i \in DOMAIN acj : \E j \in K : Q(i) = R(j)
    BY <1>8
  <2>3. \A j \in K : \E i \in DOMAIN acj : Q(i) = R(j)
    BY <1>11
  <2> HIDE DEF K, R, Q
  <2> QED  BY <2>1, <2>2, <2>3
<1> QED  BY <1>10, <1>12, <1>13

LEMMA NewestIs ==
  ASSUME NEW vs \in Seq(CrateIndexJson), vs # <<>>
  PROVE  /\ \E i \in DOMAIN vs : vs[i].version = Newest(vs)
         /\ Newest(vs) \in Nat /\ \A i \in DOMAIN vs : vs[i].version <= Newest(vs)
<1> DEFINE n == Len(vs)
           ver(i) == vs[i].version
           A == {k \in Nat : k + 1 <= n => \E i \in 1..(k + 1) : \A j \in 1..(k + 1) : ver(j) <= ver(i)}
<1>1. n \in Nat /\ n # 0 /\ DOMAIN vs = 1..n /\ \A i \in 1..n : vs[i] \in CrateIndexJson
  OBVIOUS
<1>2. \A i \in 1..n : ver(i) \in Nat
  BY <1>1 DEF CrateIndexJson
<1> HIDE DEF ver, n
<1>3. 0 \in A
  <2>1. 1..(0 + 1) = {1} /\ 1 \in 1..n
    BY <1>1
  <2>2. ver(1) <= ver(1)
    BY <1>2, <2>1
  <2> QED  BY <2>1, <2>2
<1>4. ASSUME NEW k \in Nat, k \in A PROVE k + 1 \in A
  <2> SUFFICES ASSUME (k + 1) + 1 <= n
               PROVE  \E i \in 1..((k + 1) + 1) : \A j \in 1..((k + 1) + 1) : ver(j) <= ver(i)
    OBVIOUS
  <2> DEFINE l == (k + 1) + 1
  <2>1. PICK i \in 1..(k + 1) : \A j \in 1..(k + 1) : ver(j) <= ver(i)
    BY <1>1, <1>4
  <2>2. i \in 1..n /\ l \in 1..n /\ i \in 1..l /\ l \in 1..l
    BY <1>1
  <2>3. \A j \in 1..l : j \in 1..(k + 1) \/ j = l
    OBVIOUS
  <2>4. \A j \in 1..l : j \in 1..n
    BY <1>1
  <2>5. ver(i) \in Nat /\ ver(l) \in Nat /\ \A j \in 1..l : ver(j) \in Nat
    BY <1>2, <2>2, <2>4
  <2> HIDE DEF l
  <2>6. CASE ver(l) <= ver(i)
    BY <2>1, <2>2, <2>3, <2>6 DEF l
  <2>7. CASE ver(i) <= ver(l)
    <3>1. \A j \in 1..l : ver(j) <= ver(l)
      BY <2>1, <2>3, <2>5, <2>7
    <3> QED  BY <2>2, <3>1 DEF l
  <2> QED  BY <2>5, <2>6, <2>7
<1> HIDE DEF A
<1>5. Nat \subseteq A
  BY <1>3, <1>4, SetInduction
<1>6. n - 1 \in Nat /\ (n - 1) + 1 = n
  BY <1>1
<1>7. PICK i \in 1..n : \A j \in 1..n : ver(j) <= ver(i)
  <2>1. n - 1 \in A
    BY <1>5, <1>6
  <2> QED  BY <1>6, <2>1 DEF A
<1> DEFINE all == {ver(j) : j \in DOMAIN vs}
<1>8. Newest(vs) = CHOOSE v \in all : \A u \in all : v >= u
  BY DEF Newest, ver
<1>9. ver(i) \in all /\ \A u \in all : ver(i) >= u
  BY <1>1, <1>2, <1>7
<1> HIDE DEF all
<1>10. Newest(vs) \in all /\ \A u \in all : Newest(vs) >= u
  BY <1>8, <1>9
<1> DEFINE m == Newest(vs)
<1> HIDE DEF m
<1>11. m \in all /\ \A u \in all : m >= u
  BY <1>10 DEF m
<1>12. PICK k \in 1..n : m = ver(k)
  BY <1>1, <1>11 DEF all
<1>13. m \in Nat
  BY <1>2, <1>12
<1>14. \A j \in 1..n : ver(j) <= m
  BY <1>1, <1>2, <1>11, <1>13 DEF all
<1> QED  BY <1>1, <1>12, <1>13, <1>14 DEF m, ver

-----------------------------------------------------------------------------
(* The fields of CrateStats, of a set of versions.                         *)

NamesOf(V) == {v.name : v \in V}
DepsOf(V) == UNION {v.deps : v \in V}
VersionsOf(V, n) == {v \in V : v.name = n}
TopOf(V, n) == CHOOSE v \in VersionsOf(V, n) : \A u \in VersionsOf(V, n) : u.version <= v.version
UsersOf(V, n) == {m \in NamesOf(V) : \E d \in TopOf(V, m).deps : d.name = n}
UsedBy(V) == {d.name : d \in UNION {TopOf(V, m).deps : m \in NamesOf(V)}}

LEMMA VersionIn ==
  ASSUME NEW acj, ListsOK(acj)
  PROVE  /\ \A i \in DOMAIN acj : \A j \in DOMAIN acj[i].versions : acj[i].versions[j] \in VersionsIn(acj)
         /\ \A v \in VersionsIn(acj) : \E i \in DOMAIN acj : \E j \in DOMAIN acj[i].versions : v = acj[i].versions[j]
<1> DEFINE R(i) == Range(acj[i].versions)
<1>1. VersionsIn(acj) = UNION {R(i) : i \in DOMAIN acj}
  BY DEF VersionsIn
<1>2. \A i, v : v \in R(i) <=> \E j \in DOMAIN acj[i].versions : v = acj[i].versions[j]
  BY DEF Range
<1> HIDE DEF R
<1> QED  BY <1>1, <1>2

(* The versions of one name are those of one crate.                        *)
LEMMA VersionsOfOne ==
  ASSUME NEW acj, ListsOK(acj), NEW i \in DOMAIN acj
  PROVE  LET V == VersionsIn(acj)
             n == acj[i].name
             vs == acj[i].versions
         IN /\ VersionsOf(V, n) = Range(vs)
            /\ \E k \in DOMAIN vs : TopOf(V, n) = vs[k]
            /\ TopOf(V, n).version = Newest(vs)
            /\ \A k \in DOMAIN vs : vs[k].version = Newest(vs) <=> vs[k] = TopOf(V, n)
<1> DEFINE V == VersionsIn(acj)
           n == acj[i].name
           vs == acj[i].versions
           O == VersionsOf(V, n)
           top == TopOf(V, n)
<1>1. ListOK(acj[i])
  BY DEF ListsOK
<1>2. vs \in Seq(CrateIndexJson) /\ vs # <<>> /\ \A k \in DOMAIN vs : vs[k].version \in Nat
  <2>1. vs \in Seq(CrateIndexJson) /\ vs # <<>>
    BY <1>1 DEF ListOK
  <2>2. \A v \in CrateIndexJson : v.version \in Nat
    BY DEF CrateIndexJson
  <2> HIDE DEF vs
  <2>3. \A k \in DOMAIN vs : vs[k] \in CrateIndexJson
    BY <2>1, SeqIsFunction
  <2> QED  BY <2>1, <2>2, <2>3
<1>3. ASSUME NEW v \in O PROVE \E k \in DOMAIN vs : v = vs[k]
  <2>1. v \in V /\ v.name = n
    BY DEF VersionsOf
  <2>2. PICK l \in DOMAIN acj : \E k \in DOMAIN acj[l].versions : v = acj[l].versions[k]
    BY <2>1, VersionIn
  <2>3. ListOK(acj[l])
    BY DEF ListsOK
  <2>4. acj[l].name = n
    BY <2>1, <2>2, <2>3 DEF ListOK
  <2>5. acj[l].versions = vs
    BY <2>4 DEF ListsOK
  <2> QED  BY <2>2, <2>5
<1>4. ASSUME NEW k \in DOMAIN vs PROVE vs[k] \in O
  <2>1. vs[k] \in V
    BY VersionIn
  <2>2. vs[k].name = n
    BY <1>1 DEF ListOK
  <2> QED  BY <2>1, <2>2 DEF VersionsOf
<1>5. O = Range(vs)
  BY <1>3, <1>4 DEF Range
<1>6. top = CHOOSE v \in O : \A u \in O : u.version <= v.version
  BY DEF TopOf
<1> HIDE DEF top, O
<1>7. PICK k \in DOMAIN vs : vs[k].version = Newest(vs)
  BY <1>2, NewestIs
<1>8. Newest(vs) \in Nat /\ \A j \in DOMAIN vs : vs[j].version <= Newest(vs)
  BY <1>2, NewestIs
<1>9. \A u \in O : u.version <= vs[k].version
  BY <1>3, <1>7, <1>8
<1>10. top \in O /\ \A u \in O : u.version <= top.version
  BY <1>4, <1>6, <1>9
<1>11. PICK l \in DOMAIN vs : top = vs[l]
  BY <1>3, <1>10
<1>12. vs[k].version <= vs[l].version /\ vs[l].version <= vs[k].version
  BY <1>4, <1>7, <1>8, <1>10, <1>11
<1>13. vs[l].version = Newest(vs)
  BY <1>2, <1>7, <1>12
<1>14. \A j \in DOMAIN vs : vs[j].version = Newest(vs) => j = l
  BY <1>1, <1>13 DEF ListOK
<1>15. \A j \in DOMAIN vs : vs[j].version = Newest(vs) <=> vs[j] = top
  BY <1>11, <1>13, <1>14
<1> QED  BY <1>5, <1>11, <1>13, <1>15 DEF top, O

LEMMA NamesAre ==
  ASSUME NEW acj, ListsOK(acj)
  PROVE  /\ Names(acj) = NamesOf(VersionsIn(acj))
         /\ \A n \in Names(acj) : \E i \in DOMAIN acj : acj[i].name = n
<1> DEFINE V == VersionsIn(acj)
<1>1. ASSUME NEW i \in DOMAIN acj PROVE \E v \in V : v.name = acj[i].name
  <2>1. ListOK(acj[i])
    BY DEF ListsOK
  <2>2. 1 \in DOMAIN acj[i].versions
    BY <2>1 DEF ListOK
  <2>3. acj[i].versions[1] \in V /\ acj[i].versions[1].name = acj[i].name
    BY <2>1, <2>2, VersionIn DEF ListOK
  <2> QED  BY <2>3
<1>2. ASSUME NEW v \in V PROVE \E i \in DOMAIN acj : acj[i].name = v.name
  <2>1. PICK i \in DOMAIN acj : \E j \in DOMAIN acj[i].versions : v = acj[i].versions[j]
    BY VersionIn
  <2>2. ListOK(acj[i])
    BY DEF ListsOK
  <2> QED  BY <2>1, <2>2 DEF ListOK
<1> HIDE DEF V
<1>3. Names(acj) = NamesOf(V)
  BY <1>1, <1>2 DEF Names, NamesOf
<1>4. \A n \in Names(acj) : \E i \in DOMAIN acj : acj[i].name = n
  BY DEF Names
<1> QED  BY <1>3, <1>4 DEF V

(* What the loops collect, without the order in which they do.             *)
LEMMA InUpTo ==
  ASSUME NEW F, NEW n, NEW x
  PROVE  x \in UpTo(F, n) <=> \E i \in 1..n : x \in F[i]
BY DEF UpTo

LEMMA CollectedIn ==
  ASSUME NEW acj, ListsOK(acj), NEW x
  PROVE  /\ x \in AllNames(acj) <=> \E i \in DOMAIN acj : \E j \in DOMAIN acj[i].versions :
                                      x \in VersionNames(acj[i].versions[j])
         /\ x \in AllPairs(acj) <=> \E i \in DOMAIN acj : \E j \in DOMAIN acj[i].versions :
                                      x \in VersionPairs(acj[i], acj[i].versions[j])
         /\ x \in AllUses(acj) <=> \E i \in DOMAIN acj : \E j \in DOMAIN acj[i].versions :
                                     x \in VersionUses(acj[i], acj[i].versions[j])
<1>1. DOMAIN acj = 1..Len(acj) /\ \A i \in DOMAIN acj : DOMAIN acj[i].versions = 1..Len(acj[i].versions)
  BY DEF ListsOK, ListOK
<1>2. ASSUME NEW i \in DOMAIN acj
      PROVE  /\ x \in CrateNames(acj[i]) <=> \E j \in DOMAIN acj[i].versions :
                                               x \in VersionNames(acj[i].versions[j])
             /\ x \in CratePairs(acj[i]) <=> \E j \in DOMAIN acj[i].versions :
                                               x \in VersionPairs(acj[i], acj[i].versions[j])
             /\ x \in CrateUses(acj[i]) <=> \E j \in DOMAIN acj[i].versions :
                                              x \in VersionUses(acj[i], acj[i].versions[j])
  <2> DEFINE n == Len(acj[i].versions)
             N == [j \in 1..n |-> VersionNames(acj[i].versions[j])]
             P == [j \in 1..n |-> VersionPairs(acj[i], acj[i].versions[j])]
             U == [j \in 1..n |-> VersionUses(acj[i], acj[i].versions[j])]
  <2>1. CrateNames(acj[i]) = UpTo(N, n) /\ CratePairs(acj[i]) = UpTo(P, n) /\ CrateUses(acj[i]) = UpTo(U, n)
    BY DEF CrateNames, CratePairs, CrateUses
  <2>2. DOMAIN acj[i].versions = 1..n
    BY <1>1
  <2>3. \A j \in 1..n : /\ N[j] = VersionNames(acj[i].versions[j])
                        /\ P[j] = VersionPairs(acj[i], acj[i].versions[j])
                        /\ U[j] = VersionUses(acj[i], acj[i].versions[j])
    OBVIOUS
  <2> HIDE DEF n, N, P, U
  <2> QED  BY <2>1, <2>2, <2>3, InUpTo
<1> DEFINE n == Len(acj)
           N == [i \in 1..n |-> CrateNames(acj[i])]
           P == [i \in 1..n |-> CratePairs(acj[i])]
           U == [i \in 1..n |-> CrateUses(acj[i])]
<1>3. AllNames(acj) = UpTo(N, n) /\ AllPairs(acj) = UpTo(P, n) /\ AllUses(acj) = UpTo(U, n)
  BY DEF AllNames, AllPairs, AllUses
<1>4. \A i \in 1..n : N[i] = CrateNames(acj[i]) /\ P[i] = CratePairs(acj[i]) /\ U[i] = CrateUses(acj[i])
  OBVIOUS
<1>5. DOMAIN acj = 1..n
  BY <1>1
<1> HIDE DEF n, N, P, U
<1>6. /\ x \in AllNames(acj) <=> \E i \in DOMAIN acj : x \in CrateNames(acj[i])
      /\ x \in AllPairs(acj) <=> \E i \in DOMAIN acj : x \in CratePairs(acj[i])
      /\ x \in AllUses(acj) <=> \E i \in DOMAIN acj : x \in CrateUses(acj[i])
  BY <1>3, <1>4, <1>5, InUpTo
<1> QED  BY <1>2, <1>6

LEMMA AllNamesAre ==
  ASSUME NEW acj, ListsOK(acj)
  PROVE  AllNames(acj) = {d.name : d \in DepsOf(VersionsIn(acj))}
<1> DEFINE V == VersionsIn(acj)
           names == {d.name : d \in DepsOf(V)}
<1>1. \A x : x \in names <=> \E v \in V : \E d \in v.deps : x = d.name
  BY DEF DepsOf
<1>2. \A x, v : x \in VersionNames(v) <=> \E d \in v.deps : x = d.name
  BY DEF VersionNames
<1> HIDE DEF names
<1>3. ASSUME NEW x \in AllNames(acj) PROVE x \in names
  <2>1. PICK i \in DOMAIN acj : \E j \in DOMAIN acj[i].versions : x \in VersionNames(acj[i].versions[j])
    BY CollectedIn
  <2>2. PICK j \in DOMAIN acj[i].versions : x \in VersionNames(acj[i].versions[j])
    BY <2>1
  <2>3. acj[i].versions[j] \in V
    BY VersionIn
  <2> QED  BY <1>1, <1>2, <2>2, <2>3
<1>4. ASSUME NEW x \in names PROVE x \in AllNames(acj)
  <2>1. PICK v \in V : \E d \in v.deps : x = d.name
    BY <1>1
  <2>2. PICK i \in DOMAIN acj : \E j \in DOMAIN acj[i].versions : v = acj[i].versions[j]
    BY VersionIn
  <2>3. PICK j \in DOMAIN acj[i].versions : v = acj[i].versions[j]
    BY <2>2
  <2> QED  BY <1>2, <2>1, <2>3, CollectedIn
<1> QED  BY <1>3, <1>4 DEF names

LEMMA AllPairsAre ==
  ASSUME NEW acj, ListsOK(acj), NEW x
  PROVE  x \in AllPairs(acj) <=>
           \E v \in VersionsIn(acj) : \E d \in v.deps : x = <<d.name, <<d.req, v.name, v.version>> >>
<1> DEFINE V == VersionsIn(acj)
           Is(v, d) == x = <<d.name, <<d.req, v.name, v.version>> >>
<1>1. \A i \in DOMAIN acj : \A j \in DOMAIN acj[i].versions :
        x \in VersionPairs(acj[i], acj[i].versions[j])
          <=> \E d \in acj[i].versions[j].deps : Is(acj[i].versions[j], d)
  BY DEF VersionPairs, ListsOK, ListOK
<1> HIDE DEF Is
<1>2. ASSUME x \in AllPairs(acj) PROVE \E v \in V : \E d \in v.deps : Is(v, d)
  <2>1. PICK i \in DOMAIN acj : \E j \in DOMAIN acj[i].versions : x \in VersionPairs(acj[i], acj[i].versions[j])
    BY <1>2, CollectedIn
  <2>2. PICK j \in DOMAIN acj[i].versions : x \in VersionPairs(acj[i], acj[i].versions[j])
    BY <2>1
  <2>3. acj[i].versions[j] \in V
    BY VersionIn
  <2> QED  BY <1>1, <2>2, <2>3
<1>3. ASSUME NEW v \in V, NEW d \in v.deps, Is(v, d) PROVE x \in AllPairs(acj)
  <2>1. PICK i \in DOMAIN acj : \E j \in DOMAIN acj[i].versions : v = acj[i].versions[j]
    BY VersionIn
  <2>2. PICK j \in DOMAIN acj[i].versions : v = acj[i].versions[j]
    BY <2>1
  <2> QED  BY <1>1, <1>3, <2>2, CollectedIn
<1> QED  BY <1>2, <1>3 DEF Is

LEMMA AllUsesAre ==
  ASSUME NEW acj, ListsOK(acj), NEW x
  PROVE  x \in AllUses(acj) <=>
           LET V == VersionsIn(acj) IN \E m \in NamesOf(V) : \E d \in TopOf(V, m).deps : x = <<d.name, m>>
<1> DEFINE V == VersionsIn(acj)
<1>1. ASSUME NEW i \in DOMAIN acj, NEW j \in DOMAIN acj[i].versions
      PROVE  x \in VersionUses(acj[i], acj[i].versions[j]) <=>
               /\ acj[i].versions[j] = TopOf(V, acj[i].name)
               /\ \E d \in acj[i].versions[j].deps : x = <<d.name, acj[i].name>>
  <2> DEFINE v == acj[i].versions[j]
             E == {e \in v.deps : v.version = Newest(acj[i].versions)}
  <2>1. v.version = Newest(acj[i].versions) <=> v = TopOf(V, acj[i].name)
    BY VersionsOfOne
  <2>2. VersionUses(acj[i], v) = {<<d.name, acj[i].name>> : d \in E}
    BY DEF VersionUses
  <2> HIDE DEF v, V
  <2>3. \A d : d \in E <=> d \in v.deps /\ v = TopOf(V, acj[i].name)
    BY <2>1
  <2> HIDE DEF E
  <2> QED  BY <2>2, <2>3 DEF v
<1>2. ASSUME x \in AllUses(acj) PROVE \E m \in NamesOf(V) : \E d \in TopOf(V, m).deps : x = <<d.name, m>>
  <2>1. PICK i \in DOMAIN acj : \E j \in DOMAIN acj[i].versions : x \in VersionUses(acj[i], acj[i].versions[j])
    BY <1>2, CollectedIn
  <2>2. PICK j \in DOMAIN acj[i].versions : x \in VersionUses(acj[i], acj[i].versions[j])
    BY <2>1
  <2>3. acj[i].name \in NamesOf(V)
    BY NamesAre DEF Names
  <2> QED  BY <1>1, <2>2, <2>3
<1>3. ASSUME NEW m \in NamesOf(V), NEW d \in TopOf(V, m).deps, x = <<d.name, m>> PROVE x \in AllUses(acj)
  <2>1. PICK i \in DOMAIN acj : acj[i].name = m
    BY NamesAre
  <2>2. PICK j \in DOMAIN acj[i].versions : TopOf(V, m) = acj[i].versions[j]
    BY <2>1, VersionsOfOne
  <2>3. x \in VersionUses(acj[i], acj[i].versions[j])
    BY <1>1, <1>3, <2>1, <2>2
  <2> QED  BY <2>3, CollectedIn
<1> QED  BY <1>2, <1>3

-----------------------------------------------------------------------------
(* Field by field.                                                         *)

LEMMA DependentsAre ==
  ASSUME NEW acj, ListsOK(acj)
  PROVE  LET V == VersionsIn(acj)
             deps == DepsOf(V)
             pairs == {p \in V \X deps : p[2] \in p[1].deps}
         IN Loops(acj).revd =
              [n \in {d.name : d \in deps} |->
                 {<<p[2].req, p[1].name, p[1].version>> : p \in {q \in pairs : q[2].name = n}}]
<1> DEFINE V == VersionsIn(acj)
           deps == DepsOf(V)
           pairs == {p \in V \X deps : p[2] \in p[1].deps}
           P == AllPairs(acj)
           of(n) == {<<p[2].req, p[1].name, p[1].version>> : p \in {q \in pairs : q[2].name = n}}
           keys == {d.name : d \in deps}
<1>1. Loops(acj).revd = [n \in KeysOf(P) |-> Under(P, n)]
  <2>1. \A i \in 1..Len(acj) : Len(acj[i].versions) \in Nat \ {0}
    BY DEF ListsOK, ListOK
  <2>2. Loops(acj).revd = Merged(NoKeys, P)
    BY <2>1, LoopsAre DEF ListsOK
  <2> QED  BY <2>2, MergedInNone
<1>2. \A d : d \in deps <=> \E v \in V : d \in v.deps
  BY DEF DepsOf
<1>3. \A v, d : v \in V /\ d \in v.deps <=> <<v, d>> \in pairs
  BY <1>2
<1>4. \A p \in pairs : p = <<p[1], p[2]>>
  OBVIOUS
<1>5. \A x : x \in P <=> \E v \in V : \E d \in v.deps : x = <<d.name, <<d.req, v.name, v.version>> >>
  BY AllPairsAre
<1> HIDE DEF P, V, deps
<1>6. KeysOf(P) = keys
  <2>1. \A v \in V : \A d \in v.deps : <<d.name, <<d.req, v.name, v.version>> >> \in P
    BY <1>5
  <2>2. \A x \in P : \E d \in deps : x[1] = d.name
    BY <1>2, <1>5
  <2>3. ASSUME NEW d \in deps PROVE \E x \in P : x[1] = d.name
    <3>1. PICK v \in V : d \in v.deps
      BY <1>2
    <3> DEFINE x == <<d.name, <<d.req, v.name, v.version>> >>
    <3>2. x \in P /\ x[1] = d.name
      BY <2>1, <3>1
    <3> QED  BY <3>2
  <2> QED  BY <2>2, <2>3 DEF KeysOf
<1> HIDE DEF pairs
<1>7. ASSUME NEW n PROVE Under(P, n) = of(n)
  <2>1. ASSUME NEW y \in Under(P, n) PROVE y \in of(n)
    <3>1. PICK x \in P : x[1] = n /\ y = x[2]
      BY DEF Under
    <3>2. PICK v \in V : \E d \in v.deps : x = <<d.name, <<d.req, v.name, v.version>> >>
      BY <1>5, <3>1
    <3>3. PICK d \in v.deps : x = <<d.name, <<d.req, v.name, v.version>> >>
      BY <3>2
    <3>4. d.name = n /\ y = <<d.req, v.name, v.version>>
      BY <3>1, <3>3
    <3> DEFINE p == <<v, d>>
    <3>5. p \in pairs /\ p[1] = v /\ p[2] = d
      BY <1>3
    <3> HIDE DEF p
    <3> QED  BY <3>4, <3>5
  <2>2. ASSUME NEW y \in of(n) PROVE y \in Under(P, n)
    <3>1. PICK p \in pairs : p[2].name = n /\ y = <<p[2].req, p[1].name, p[1].version>>
      OBVIOUS
    <3>2. p[1] \in V /\ p[2] \in p[1].deps
      BY <1>3, <1>4, <3>1
    <3> DEFINE x == <<p[2].name, y>>
    <3>3. x \in P
      BY <1>5, <3>1, <3>2
    <3>4. x[1] = n /\ x[2] = y
      BY <3>1
    <3> HIDE DEF x
    <3> QED  BY <3>3, <3>4 DEF Under
  <2> HIDE DEF of
  <2> QED  BY <2>1, <2>2
<1> HIDE DEF of, keys
<1>8. [n \in KeysOf(P) |-> Under(P, n)] = [n \in keys |-> of(n)]
  BY <1>6, <1>7
<1> QED  BY <1>1, <1>8 DEF of, keys, pairs, deps, V

LEMMA UsersAre ==
  ASSUME NEW acj, ListsOK(acj)
  PROVE  LET V == VersionsIn(acj)
         IN DOMAIN Loops(acj).ddon = UsedBy(V) /\ \A n \in UsedBy(V) : Loops(acj).ddon[n] = UsersOf(V, n)
<1> DEFINE V == VersionsIn(acj)
           P == AllUses(acj)
<1>1. Loops(acj).ddon = [n \in KeysOf(P) |-> Under(P, n)]
  <2>1. \A i \in 1..Len(acj) : Len(acj[i].versions) \in Nat \ {0}
    BY DEF ListsOK, ListOK
  <2>2. Loops(acj).ddon = Merged(NoKeys, P)
    BY <2>1, LoopsAre DEF ListsOK
  <2> QED  BY <2>2, MergedInNone
<1>2. \A x : x \in P <=> \E m \in NamesOf(V) : \E d \in TopOf(V, m).deps : x = <<d.name, m>>
  BY AllUsesAre
<1> HIDE DEF P, V
<1>3. \A m \in NamesOf(V) : \A d \in TopOf(V, m).deps : <<d.name, m>> \in P
  BY <1>2
<1>4. KeysOf(P) = UsedBy(V)
  <2>1. \A n : n \in UsedBy(V) <=> \E m \in NamesOf(V) : \E d \in TopOf(V, m).deps : n = d.name
    BY DEF UsedBy
  <2>2. ASSUME NEW n \in KeysOf(P) PROVE n \in UsedBy(V)
    <3>1. PICK x \in P : n = x[1]
      BY DEF KeysOf
    <3>2. PICK m \in NamesOf(V) : \E d \in TopOf(V, m).deps : x = <<d.name, m>>
      BY <1>2, <3>1
    <3>3. PICK d \in TopOf(V, m).deps : x = <<d.name, m>>
      BY <3>2
    <3> QED  BY <2>1, <3>1, <3>3
  <2>3. ASSUME NEW n \in UsedBy(V) PROVE n \in KeysOf(P)
    <3>1. PICK m \in NamesOf(V) : \E d \in TopOf(V, m).deps : n = d.name
      BY <2>1
    <3>2. PICK d \in TopOf(V, m).deps : n = d.name
      BY <3>1
    <3>3. <<n, m>> \in P /\ <<n, m>>[1] = n
      BY <1>3, <3>2
    <3> QED  BY <3>3 DEF KeysOf
  <2> QED  BY <2>2, <2>3
<1>5. ASSUME NEW n PROVE Under(P, n) = UsersOf(V, n)
  <2>1. ASSUME NEW m \in Under(P, n) PROVE m \in UsersOf(V, n)
    <3>1. PICK x \in P : x[1] = n /\ m = x[2]
      BY DEF Under
    <3>2. PICK l \in NamesOf(V) : \E d \in TopOf(V, l).deps : x = <<d.name, l>>
      BY <1>2, <3>1
    <3>3. PICK d \in TopOf(V, l).deps : x = <<d.name, l>>
      BY <3>2
    <3>4. l = m /\ d.name = n
      BY <3>1, <3>3
    <3> QED  BY <3>3, <3>4 DEF UsersOf
  <2>2. ASSUME NEW m \in UsersOf(V, n) PROVE m \in Under(P, n)
    <3>1. m \in NamesOf(V) /\ \E d \in TopOf(V, m).deps : d.name = n
      BY DEF UsersOf
    <3>2. <<n, m>> \in P /\ <<n, m>>[1] = n /\ <<n, m>>[2] = m
      BY <1>3, <3>1
    <3> QED  BY <3>2 DEF Under
  <2> QED  BY <2>1, <2>2
<1> QED  BY <1>1, <1>4, <1>5 DEF V

LEMMA CountIs ==
  ASSUME NEW acj, ListsOK(acj), NEW i \in DOMAIN acj
  PROVE  Len(acj[i].versions) = Cardinality(VersionsOf(VersionsIn(acj), acj[i].name))
<1> DEFINE vs == acj[i].versions
           n == Len(vs)
           f == [k \in 1..n |-> vs[k]]
<1>1. ListOK(acj[i])
  BY DEF ListsOK
<1>2. n \in Nat /\ DOMAIN vs = 1..n /\ \A j, k \in DOMAIN vs : vs[j] = vs[k] => j = k
  BY <1>1 DEF ListOK
<1>3. VersionsOf(VersionsIn(acj), acj[i].name) = Range(vs)
  BY VersionsOfOne
<1> HIDE DEF n, vs
<1>4. f \in Bijection(1..n, Range(vs))
  BY <1>2 DEF Bijection, Injection, IsInjective, Surjection, Range
<1>5. ExistsBijection(1..n, Range(vs))
  BY <1>4 DEF ExistsBijection
<1>6. Cardinality(Range(vs)) = n
  BY <1>2, <1>5, FS_CountingElements
<1> QED  BY <1>3, <1>6 DEF n, vs

HasLists(acj) == acj # None /\ \A i \in DOMAIN acj : acj[i].versions # <<>>

LEMMA ComputedAre ==
  ASSUME NEW idx, IndexOK(idx), HasLists(get_all_crates_json(idx))
  PROVE  ~Unusable(idx) /\ StatsOf(idx) = Reference(idx)
<1> DEFINE acj == get_all_crates_json(idx)
           V == VersionsIn(acj)
           versions(n) == acj[CHOOSE i \in DOMAIN acj : acj[i].name = n].versions
           deps == DepsOf(V)
           pairs == {p \in V \X deps : p[2] \in p[1].deps}
           loops == Loops(acj)
           computed ==
             [names |-> loops.names,
              reverse_dependencies |-> loops.revd,
              latest_crate_versions |-> [n \in Names(acj) |-> Newest(versions(n))],
              most_directly_depended_on |-> [n \in DOMAIN loops.ddon |-> Cardinality(loops.ddon[n])],
              most_versions |-> [n \in Names(acj) |-> Len(versions(n))]]
           revd == [n \in {d.name : d \in deps} |->
                      {<<p[2].req, p[1].name, p[1].version>> : p \in {q \in pairs : q[2].name = n}}]
           stated ==
             [names |-> NamesOf(V) \cup {d.name : d \in deps},
              reverse_dependencies |-> revd,
              latest_crate_versions |-> [n \in NamesOf(V) |-> TopOf(V, n).version],
              most_directly_depended_on |-> [n \in UsedBy(V) |-> Cardinality(UsersOf(V, n))],
              most_versions |-> [n \in NamesOf(V) |-> Cardinality(VersionsOf(V, n))]]
<1>1. acj # None /\ (\A i \in DOMAIN acj : acj[i].versions # <<>>) /\ StatsOf(idx) = computed
  <2>1. StatsOf(idx) = IF acj = None \/ \E i \in DOMAIN acj : acj[i].versions = <<>> THEN Panic ELSE computed
    BY DEF StatsOf, compute_crate_statistics
  <2> HIDE DEF acj, computed
  <2> QED  BY <2>1 DEF HasLists, acj
<1>2. ListsOK(acj) /\ ~Unusable(idx) /\ Versions(idx) = V
  BY <1>1, AllCratesAre
<1>3. Reference(idx) = stated
  BY <1>2 DEF Reference, NamesIn, NamesOf, DepsOf, VersionsOf, TopOf, UsersOf, UsedBy
<1> HIDE DEF acj
<1>4. Names(acj) = NamesOf(V)
  BY <1>2, NamesAre
<1>5. loops.names = NamesOf(V) \cup {d.name : d \in deps}
  <2>1. \A i \in 1..Len(acj) : Len(acj[i].versions) \in Nat \ {0}
    BY <1>2 DEF ListsOK, ListOK
  <2>2. loops.names = Names(acj) \cup AllNames(acj)
    BY <1>2, <2>1, LoopsAre DEF ListsOK
  <2> QED  BY <1>2, <1>4, <2>2, AllNamesAre
<1>6. loops.revd = revd
  BY <1>2, DependentsAre
<1>7. DOMAIN loops.ddon = UsedBy(V) /\ \A n \in UsedBy(V) : loops.ddon[n] = UsersOf(V, n)
  BY <1>2, UsersAre
<1>8. ASSUME NEW n \in NamesOf(V)
      PROVE  Newest(versions(n)) = TopOf(V, n).version /\ Len(versions(n)) = Cardinality(VersionsOf(V, n))
  <2> DEFINE i == CHOOSE i \in DOMAIN acj : acj[i].name = n
  <2>1. i \in DOMAIN acj /\ acj[i].name = n
    BY <1>2, <1>4, NamesAre
  <2>2. versions(n) = acj[i].versions
    OBVIOUS
  <2> HIDE DEF i, versions
  <2> QED  BY <1>2, <2>1, <2>2, VersionsOfOne, CountIs
<1> HIDE DEF V, versions, deps, pairs, loops, revd
<1>9. /\ [n \in Names(acj) |-> Newest(versions(n))] = [n \in NamesOf(V) |-> TopOf(V, n).version]
      /\ [n \in Names(acj) |-> Len(versions(n))] = [n \in NamesOf(V) |-> Cardinality(VersionsOf(V, n))]
  BY <1>4, <1>8
<1>10. [n \in DOMAIN loops.ddon |-> Cardinality(loops.ddon[n])] = [n \in UsedBy(V) |-> Cardinality(UsersOf(V, n))]
  BY <1>7
<1>11. computed = stated
  BY <1>5, <1>6, <1>9, <1>10
<1> QED  BY <1>1, <1>2, <1>3, <1>11

LEMMA StatisticsAre ==
  ASSUME NEW idx, IndexOK(idx), StatsOf(idx) # Panic
  PROVE  ~Unusable(idx) /\ StatsOf(idx) = Reference(idx)
<1>1. HasLists(get_all_crates_json(idx))
  BY DEF StatsOf, compute_crate_statistics, HasLists
<1> QED  BY <1>1, ComputedAre

LEMMA SnapshotStep == ServerInv /\ StatsAreOneSnapshot /\ [Next]_vars => StatsAreOneSnapshot'
<1> SUFFICES ASSUME ServerInv, StatsAreOneSnapshot, [Next]_vars PROVE StatsAreOneSnapshot'
  OBVIOUS
<1> DEFINE Good(k) == ~Unusable(Indexes[k]) /\ stats = Reference(Indexes[k])
<1>1. index \in DOMAIN Indexes /\ DOMAIN Indexes = 1..Len(Indexes) /\ Len(Indexes) \in Nat
  BY ServerConstantsOK DEF ServerInv, TypeOK
<1>2. ASSUME stats' = stats, index' \in {index, index + 1} PROVE StatsAreOneSnapshot'
  <2>1. 1..index \subseteq 1..index'
    BY <1>1, <1>2
  <2> QED  BY <1>2, <2>1 DEF StatsAreOneSnapshot
<1>3. ASSUME stats' \in {NotBuilt, Building, Poisoned} PROVE StatsAreOneSnapshot'
  BY <1>3 DEF StatsAreOneSnapshot
<1>4. ASSUME NEW w \in Threads, EndStats(w) PROVE StatsAreOneSnapshot'
  <2> DEFINE new == StatsOf(Indexes[index])
  <2>1. CASE new = Panic
    BY <1>3, <1>4, <2>1 DEF EndStats, AfterPanic
  <2>2. CASE new # Panic
    <3>1. IndexOK(Indexes[index])
      BY <1>1, ServerConstantsOK
    <3>2. ~Unusable(Indexes[index]) /\ new = Reference(Indexes[index])
      BY <2>2, <3>1, StatisticsAre
    <3>3. stats' = new /\ index' = index
      BY <1>4, <2>2 DEF EndStats, disk
    <3>4. index \in 1..index'
      BY <1>1, <3>3
    <3> QED  BY <3>2, <3>3, <3>4 DEF StatsAreOneSnapshot
  <2> QED  BY <2>1, <2>2
<1>5. ASSUME NEW w \in Threads, Accept(w) \/ ThreadStep(w) PROVE StatsAreOneSnapshot'
  <2>1. CASE Accept(w) \/ LoadSource(w) \/ StatsPoisoned(w) \/ Answer(w)
    BY <1>2, <2>1 DEF Accept, LoadSource, StatsPoisoned, Answer, disk, lazy
  <2>2. CASE BeginStats(w)
    BY <1>3, <2>2 DEF BeginStats
  <2> QED  BY <1>4, <1>5, <2>1, <2>2 DEF ThreadStep
<1>6. CASE UpdateIndex \/ Mirror \/ FillStorage \/ UNCHANGED vars
  BY <1>2, <1>6 DEF UpdateIndex, Mirror, FillStorage, vars, disk, lazy
<1> QED  BY <1>5, <1>6 DEF Next

(* Whatever the index, its changes and the threads do, statistics that are *)
(* shown are those of one state the index was in, each field as            *)
(* documented (statistics.rs:8-21).                                        *)
THEOREM OneSnapshot == Spec => []StatsAreOneSnapshot
<1>1. Init => StatsAreOneSnapshot
  BY DEF Init, StatsAreOneSnapshot
<1>2. ServerInv /\ StatsAreOneSnapshot /\ [Next]_vars => StatsAreOneSnapshot'
  BY SnapshotStep
<1> QED  BY <1>1, <1>2, ServerHolds, PTL DEF Spec

-----------------------------------------------------------------------------
(* Links between pages.  First what stays in the index.                    *)

LEMMA NameOfPath ==
  ASSUME NEW n, NEW m, obtain_crate_name_path(n) = obtain_crate_name_path(m)
  PROVE  n = m
<1> DEFINE last(p) == p[Len(p)]
<1>1. \A a, b : last(<<a, b>>) = b
  OBVIOUS
<1>2. \A a, b, c : last(<<a, b, c>>) = c
  OBVIOUS
<1>3. ASSUME NEW x PROVE \/ \E a : obtain_crate_name_path(x) = <<a, x>>
                         \/ \E a, b : obtain_crate_name_path(x) = <<a, b, x>>
  <2>1. CASE Len(x) = 1 \/ Len(x) = 2
    BY <2>1 DEF obtain_crate_name_path
  <2>2. CASE Len(x) # 1 /\ Len(x) # 2
    BY <2>2 DEF obtain_crate_name_path
  <2> QED  BY <2>1, <2>2
<1> HIDE DEF last
<1>4. \A x : last(obtain_crate_name_path(x)) = x
  BY <1>1, <1>2, <1>3
<1> QED  BY <1>4

LEMMA PathIsOfCrate ==
  ASSUME NEW f, NEW n, f.path = obtain_crate_name_path(n)
  PROVE  IsCrate(f)
<1>1. CASE Len(n) = 1 \/ Len(n) = 2
  <2>1. \E a : f.path = <<a, n>>
    BY <1>1 DEF obtain_crate_name_path
  <2> QED  BY <2>1 DEF IsCrate
<1>2. CASE Len(n) # 1 /\ Len(n) # 2
  <2>1. \E a, b : f.path = <<a, b, n>>
    BY <1>2 DEF obtain_crate_name_path
  <2> QED  BY <2>1 DEF IsCrate
<1> QED  BY <1>1, <1>2

LEMMA JsonIsFile ==
  ASSUME NEW idx, IndexOK(idx), NEW n, get_crate_json(idx, n) # None
  PROVE  /\ idx # NoRepo
         /\ \E k \in DOMAIN idx :
              /\ idx[k].path = obtain_crate_name_path(n) /\ idx[k].lines # BadJson
              /\ get_crate_json(idx, n) = idx[k].lines /\ FileOK(idx[k])
<1> DEFINE at == IF idx = NoRepo THEN {} ELSE {i \in DOMAIN idx : idx[i].path = obtain_crate_name_path(n)}
<1>1. get_crate_json(idx, n) = IF at = {} THEN None
                               ELSE LET i == CHOOSE i \in at : TRUE
                                    IN IF idx[i].lines = BadJson THEN None ELSE idx[i].lines
  BY DEF get_crate_json
<1>2. at # {}
  BY <1>1
<1>3. idx # NoRepo
  BY <1>2
<1>4. PICK k \in DOMAIN idx : idx[k].path = obtain_crate_name_path(n)
  BY <1>2
<1>5. idx[k].lines # BadJson /\ get_crate_json(idx, n) = idx[k].lines
  BY <1>3, <1>4, FileRead
<1>6. FileOK(idx[k])
  BY <1>3, <1>4, <1>5, PathIsOfCrate DEF IndexOK
<1> QED  BY <1>3, <1>4, <1>5, <1>6

LEMMA JsonHasVersions ==
  ASSUME NEW idx, IndexOK(idx), NEW n, get_crate_json(idx, n) # None
  PROVE  get_crate_json(idx, n) \in Seq(CrateIndexJson)
BY JsonIsFile DEF FileOK

(* The file of a crate is never found by a name that is not in lower case. *)
LEMMA NeverFound ==
  ASSUME NEW idx, IndexOK(idx), idx # NoRepo, NEW v \in Versions(idx), v.name # Lower[v.name],
         NEW idx2, IndexOK(idx2)
  PROVE  get_crate_json(idx2, v.name) = None
<1> DEFINE n == v.name
<1>1. n \in DOMAIN Lower
  <2>1. PICK k \in DOMAIN idx : /\ IsCrate(idx[k]) /\ idx[k].lines # BadJson
                               /\ \E l \in DOMAIN idx[k].lines : v = idx[k].lines[l]
    BY VersionInFile
  <2>2. FileOK(idx[k])
    BY <2>1 DEF IndexOK
  <2> QED  BY <2>1, <2>2 DEF FileOK
<1> SUFFICES ASSUME get_crate_json(idx2, n) # None PROVE FALSE
  OBVIOUS
<1>2. PICK k \in DOMAIN idx2 : idx2[k].path = obtain_crate_name_path(n) /\ FileOK(idx2[k])
  BY JsonIsFile
<1>3. PICK m \in DOMAIN Lower : idx2[k].path = PathInIndex(Lower[m])
  BY <1>2 DEF FileOK
<1>4. Lower[m] \in Seq(STRING) /\ Lower[m] # <<>> /\ Lower[Lower[m]] = Lower[m]
  BY LowerOK
<1>5. n = Lower[m]
  BY <1>2, <1>3, <1>4, PathIsFound, NameOfPath
<1> QED  BY <1>4, <1>5

HasVersion(idx, n, v) ==
  LET json == get_crate_json(idx, n)
  IN json # None /\ \E i \in DOMAIN json : json[i].version = v

LEMMA StaysInIndex ==
  ASSUME NEW j \in DOMAIN Indexes, NEW k \in DOMAIN Indexes, j <= k, NEW n
  PROVE  /\ get_crate_json(Indexes[j], n) # None => get_crate_json(Indexes[k], n) # None
         /\ \A v : HasVersion(Indexes[j], n, v) => HasVersion(Indexes[k], n, v)
<1> DEFINE a == Indexes[j]
           b == Indexes[k]
<1>1. IndexOK(a) /\ IndexOK(b)
  BY ServerConstantsOK
<1>2. SUFFICES ASSUME get_crate_json(a, n) # None
               PROVE  /\ get_crate_json(b, n) # None
                      /\ Range(get_crate_json(a, n)) \subseteq Range(get_crate_json(b, n))
  BY DEF HasVersion, Range
<1>3. PICK i \in DOMAIN a : /\ a[i].path = obtain_crate_name_path(n) /\ a[i].lines # BadJson
                            /\ get_crate_json(a, n) = a[i].lines
  BY <1>1, <1>2, JsonIsFile
<1>4. a # NoRepo
  BY <1>1, <1>2, JsonIsFile
<1>5. a[i] \in Range(a)
  BY DEF Range
<1>6. b # NoRepo /\ \E g \in Range(b) : /\ g.path = a[i].path /\ g.lines # BadJson
                                        /\ Range(a[i].lines) \subseteq Range(g.lines)
  <2> DEFINE Kept(x, y) ==
               /\ y # NoRepo
               /\ \A f \in Range(x) : f.lines # BadJson =>
                    \E g \in Range(y) : g.path = f.path /\ g.lines # BadJson /\ Range(f.lines) \subseteq Range(g.lines)
  <2>1. \A u, v \in DOMAIN Indexes : u <= v /\ Indexes[u] # NoRepo => Kept(Indexes[u], Indexes[v])
    BY LinkConstantsOK DEF IndexGrows
  <2>2. j <= k /\ Indexes[j] # NoRepo
    BY <1>4
  <2> HIDE DEF Kept
  <2>3. Kept(a, b)
    BY <2>1, <2>2
  <2> QED  BY <1>3, <1>5, <2>3 DEF Kept
<1>7. PICK l \in DOMAIN b : /\ b[l].path = a[i].path /\ b[l].lines # BadJson
                            /\ Range(a[i].lines) \subseteq Range(b[l].lines)
  BY <1>6 DEF Range
<1>8. get_crate_json(b, n) = b[l].lines
  BY <1>1, <1>3, <1>6, <1>7, FileRead
<1>9. b[l].lines # None
  BY <1>1, <1>6 DEF IndexOK
<1> QED  BY <1>3, <1>7, <1>8, <1>9

-----------------------------------------------------------------------------
(* Archives read with long paths, and the files a thread finds in them.    *)

FileEntry == [path : EntryPaths \cup Contents, content : Contents]
JoinedEntry == [path : (EntryPaths \ {LongLink}) \cup Contents, content : Contents]

LEMMA JoinedIsRead ==
  ASSUME NEW raw \in Seq(Entry)
  PROVE  Joined(raw) \in Seq(JoinedEntry)
<1> DEFINE n == Len(raw)
           X == [files : Seq(JoinedEntry), long : Contents \cup {None}]
           a == [files |-> <<>>, long |-> None]
           entry(s, e) == IF s.long = None THEN e ELSE [e EXCEPT !.path = s.long]
           step(s, e) == IF e.path = LongLink THEN [s EXCEPT !.long = e.content]
                         ELSE [files |-> Append(s.files, entry(s, e)), long |-> None]
           F == [i \in 1..n |-> [s \in X |-> step(s, raw[i])]]
<1>1. n \in Nat /\ DOMAIN raw = 1..n /\ \A i \in 1..n : raw[i] \in Entry
  OBVIOUS
<1>2. ASSUME NEW s \in X, NEW e \in Entry PROVE step(s, e) \in X
  <2>0. CASE e.path = LongLink
    <3>1. e.content \in Contents /\ s.files \in Seq(JoinedEntry) /\ s = [files |-> s.files, long |-> s.long]
      BY DEF Entry
    <3>2. [s EXCEPT !.long = e.content] = [files |-> s.files, long |-> e.content]
      BY <3>1
    <3> QED  BY <2>0, <3>1, <3>2
  <2> SUFFICES ASSUME e.path # LongLink PROVE step(s, e) \in X
    BY <2>0
  <2>1. e.path \in EntryPaths /\ e.content \in Contents /\ e = [path |-> e.path, content |-> e.content]
    BY DEF Entry
  <2>2. s.files \in Seq(JoinedEntry) /\ s.long \in Contents \cup {None}
        /\ s = [files |-> s.files, long |-> s.long]
    OBVIOUS
  <2>4. [e EXCEPT !.path = s.long] = [path |-> s.long, content |-> e.content]
    BY <2>1
  <2>5. entry(s, e) \in JoinedEntry
    BY <2>1, <2>2, <2>4 DEF JoinedEntry
  <2> HIDE DEF entry
  <2>6. Append(s.files, entry(s, e)) \in Seq(JoinedEntry)
    BY <2>2, <2>5
  <2> QED  BY <2>1, <2>2, <2>6
<1>3. a \in X
  OBVIOUS
<1> HIDE DEF X, a, step
<1>4. F \in [1..n -> [X -> X]]
  BY <1>1, <1>2
<1>5. PICK g \in [0..n -> X] : g[0] = a /\ \A i \in 1..n : g[i] = F[i][g[i - 1]]
  <2>1. n \in Nat
    BY <1>1
  <2> HIDE DEF F, n
  <2> QED  BY <1>3, <1>4, <2>1, RecursionExists
<1>6. \A i \in 0..n : i # 0 => i \in 1..n /\ i - 1 \in 0..n
  BY <1>1
<1>7. Reading(raw, g)
  <2>1. ASSUME NEW i \in 0..n PROVE g[i] = IF i = 0 THEN a ELSE step(g[i - 1], raw[i])
    <3>1. CASE i # 0
      <4>1. i \in 1..n /\ g[i - 1] \in X
        BY <1>5, <1>6, <3>1
      <4>2. F[i][g[i - 1]] = step(g[i - 1], raw[i])
        BY <4>1
      <4> QED  BY <1>5, <3>1, <4>1, <4>2
    <3> QED  BY <1>5, <3>1
  <2>2. g = [i \in 0..n |-> IF i = 0 THEN a ELSE step(g[i - 1], raw[i])]
    BY <1>5, <2>1
  <2> QED  BY <2>2 DEF Reading, a, step
<1>8. PICK f : Reading(raw, f) /\ Joined(raw) = f[n].files
  BY <1>7, JoinedReads
<1>9. \A i \in 0..n : f[i] = IF i = 0 THEN a ELSE step(f[i - 1], raw[i])
  BY <1>8 DEF Reading, a, step
<1> DEFINE A == {i \in Nat : i <= n => f[i] \in X}
<1>10. 0 \in A
  <2>1. 0 \in 0..n
    BY <1>1
  <2> QED  BY <1>3, <1>9, <2>1
<1>11. ASSUME NEW i \in Nat, i \in A PROVE i + 1 \in A
  <2> SUFFICES ASSUME i + 1 <= n PROVE f[i + 1] \in X
    OBVIOUS
  <2>1. i + 1 \in 0..n /\ i + 1 # 0 /\ (i + 1) - 1 = i /\ i <= n /\ i + 1 \in 1..n
    BY <1>1
  <2>2. f[i] \in X /\ raw[i + 1] \in Entry
    BY <1>1, <1>11, <2>1
  <2>3. f[i + 1] = step(f[i], raw[i + 1])
    BY <1>9, <2>1
  <2> QED  BY <1>2, <2>2, <2>3
<1>12. f[n] \in X
  <2> HIDE DEF A
  <2>1. n \in A
    BY <1>1, <1>10, <1>11, SetInduction
  <2> QED  BY <1>1, <2>1 DEF A
<1> QED  BY <1>8, <1>12 DEF X

(* What is read of a path is the content of an entry with that path.       *)
LEMMA EntryAmong ==
  ASSUME NEW T, NEW q \in Seq(T), NEW p
  PROVE  /\ (\E i \in DOMAIN q : q[i].path = p) => \E i \in DOMAIN q : q[i].path = p /\ EntryAt(q, p) = q[i].content
         /\ ~(\E i \in DOMAIN q : q[i].path = p) => EntryAt(q, p) = None
<1> DEFINE at == {j \in DOMAIN q : q[j].path = p}
           k == CHOOSE j \in at : \A i \in at : j <= i
<1>1. at \subseteq Nat
  OBVIOUS
<1>2. EntryAt(q, p) = IF at = {} THEN None ELSE q[k].content
  BY DEF EntryAt
<1>3. at # {} => k \in at
  <2> HIDE DEF at
  <2>1. at # {} => \E x \in at : \A y \in at : x <= y
    BY <1>1, LeastNumber
  <2> QED  BY <2>1
<1> HIDE DEF k
<1> QED  BY <1>2, <1>3

(* The files of a crate as its archive or its metadata lists them.         *)

LEMMA FilesAre ==
  ASSUME NEW a \in Archive
  PROVE  FilesOf(a) \in Seq(FileEntry) /\ (config # "file" => FilesOf(a) \in Seq(JoinedEntry))
<1>1. a.raw \in Seq(Entry)
  BY DEF Archive
<1>2. Entry \subseteq FileEntry /\ JoinedEntry \subseteq FileEntry
  BY DEF Entry, JoinedEntry, FileEntry
<1>3. Joined(a.raw) \in Seq(JoinedEntry)
  BY <1>1, JoinedIsRead
<1>4. a.raw \in Seq(FileEntry) /\ Joined(a.raw) \in Seq(FileEntry)
  <2> HIDE DEF Entry, JoinedEntry, FileEntry
  <2> QED  BY <1>1, <1>2, <1>3, SeqMonotone
<1> QED  BY <1>3, <1>4 DEF FilesOf

(* What thread w finds of a crate.                                         *)
LEMMA SourceReads ==
  ASSUME ServerInv, NEW w \in Threads, config = "file" => source[w] # NotLoaded, NEW s
  PROVE  LET src == SourceOf(w)
             fh == get_crate_handle_nv(src, s)
             a == Arch[s]
         IN /\ fh # None => s \in DOMAIN Arch /\ a \in Archive
            /\ fh # None => \/ config = "file" /\ get_file_list(fh, src) = [i \in DOMAIN FilesOf(a) |-> FilesOf(a)[i].path]
                            \/ config # "file" /\ get_file_list(fh, src) =
                                 IF a.kind \in {"nogz", "damaged"} THEN Panic
                                 ELSE [i \in DOMAIN FilesOf(a) |-> FilesOf(a)[i].path]
            /\ fh # None => \A p : \/ config = "file" /\ get_file(fh, src, p) =
                                        IF EntryAt(FilesOf(a), p) \in src.st.blobs THEN EntryAt(FilesOf(a), p) ELSE None
                                   \/ config # "file" /\ get_file(fh, src, p) =
                                        IF a.kind = "nogz" THEN None ELSE EntryAt(FilesOf(a), p)
            /\ fh = None => IF config = "file" THEN s \notin DOMAIN src.st.name_index \/ src.st.name_index[s] \notin src.st.blobs
                            ELSE s \notin DOMAIN Arch
<1> DEFINE src == SourceOf(w)
           fh == get_crate_handle_nv(src, s)
           a == Arch[s]
<1>1. ArchivesIn(Arch) /\ config \in {"cache", "tree", "file"} /\ (s \in DOMAIN Arch => a \in Archive)
  BY ArchIs, ServerConstantsOK DEF ServerInv, TypeOK, ArchivesIn
<1>2. CASE config = "file"
  <2>1. src = source[w] /\ src = FileSource(src.st) /\ SoundFile(src.st, Arch)
    BY <1>2 DEF SourceOf, ServerInv, SourcesOK, SoundSource
  <2> DEFINE st == src.st
             has == s \in DOMAIN st.name_index /\ st.name_index[s] \in st.blobs
  <2>2. src = FileSource(st) /\ SoundFile(st, Arch) /\ src.kind = "file"
    BY <2>1 DEF FileSource
  <2>3. fh = IF has THEN [of |-> "storage", meta |-> MetaOf(a)] ELSE None
    <3> HIDE DEF st, src
    <3> QED  BY <1>1, <2>2, FileCrate DEF st
  <2>4. ASSUME has PROVE fh # None /\ s \in DOMAIN Arch /\ a \in Archive /\ a.kind = "exact"
    <3>1. s \in DOMAIN Arch /\ a.kind = "exact"
      BY <2>2, <2>4 DEF SoundFile
    <3> QED  BY <1>1, <2>3, <2>4, <3>1, HandlesAre, MetaParts
  <2>5. ASSUME has
        PROVE  /\ get_file_list(fh, src) = [i \in DOMAIN FilesOf(a) |-> FilesOf(a)[i].path]
               /\ \A p : get_file(fh, src, p) =
                           IF EntryAt(FilesOf(a), p) \in st.blobs THEN EntryAt(FilesOf(a), p) ELSE None
    <3>1. fh.of = "storage" /\ fh.meta = MetaOf(a)
      BY <2>3, <2>5
    <3>2. FilesOf(a) = a.raw
      BY <1>2 DEF FilesOf
    <3> HIDE DEF fh, src, a
    <3>3. get_file_list(fh, src) = file_list(MetaOf(a)) /\ \A p : get_file(fh, src, p) = StoredFile(MetaOf(a), st, p)
      BY <2>2, <3>1 DEF get_file_list, get_file, OwnFileList, OwnFile, HandleOf, st
    <3>4. file_list(MetaOf(a)) = [i \in DOMAIN a.raw |-> a.raw[i].path]
      BY <2>4, <2>5, EntriesListed
    <3>5. \A p : StoredFile(MetaOf(a), st, p) = IF EntryAt(a.raw, p) \in st.blobs THEN EntryAt(a.raw, p) ELSE None
      BY <2>4, <2>5, EntriesListed DEF StoredFile
    <3> QED  BY <3>2, <3>3, <3>4, <3>5
  <2> HIDE DEF fh, src, a
  <2> QED  BY <1>2, <2>3, <2>4, <2>5 DEF fh, src, a
<1>3. CASE config # "file"
  <2>1. config \in {"cache", "tree"}
    BY <1>1, <1>3
  <2>2. src = DirSource(config) /\ src.kind = config
    BY <1>3 DEF SourceOf, DirSource
  <2>3. fh = IF s \in DOMAIN Arch THEN [of |-> "blob", content |-> a] ELSE None
    <3> HIDE DEF src
    <3> QED  BY <1>1, <2>1, <2>2, DirCrate
  <2>4. s \in DOMAIN Arch => fh # None
    BY <1>1, <2>3, HandlesAre
  <2>5. ASSUME s \in DOMAIN Arch
        PROVE  /\ get_file_list(fh, src) = IF a.kind \in {"nogz", "damaged"} THEN Panic
                                           ELSE [i \in DOMAIN FilesOf(a) |-> FilesOf(a)[i].path]
               /\ \A p : get_file(fh, src, p) = IF a.kind = "nogz" THEN None ELSE EntryAt(FilesOf(a), p)
    <3>1. fh.of = "blob" /\ fh.content = a
      BY <2>3, <2>5
    <3>2. FilesOf(a) = Joined(a.raw)
      BY <1>3 DEF FilesOf
    <3> HIDE DEF fh, src, a
    <3>3. get_file_list(fh, src) = ArchiveFileList(a) /\ \A p : get_file(fh, src, p) = ArchiveFile(a, p)
      BY <2>1, <2>2, <3>1 DEF get_file_list, get_file, OwnFileList, OwnFile, HandleOf
    <3> QED  BY <3>2, <3>3 DEF ArchiveFileList, ArchiveFile
  <2> HIDE DEF fh, src, a
  <2> QED  BY <1>1, <1>3, <2>3, <2>4, <2>5 DEF fh, src, a
<1> QED  BY <1>2, <1>3

-----------------------------------------------------------------------------
(* What is known of the links on a page: of a crate's version that it is   *)
(* in the index, or that its crate is never found there; of a file that    *)
(* it is in the archive.                                                   *)

InIndex(n, v) == \E k \in 1..index : HasVersion(Indexes[k], n, v)

NeverInIndex(n) == \A k \in DOMAIN Indexes : get_crate_json(Indexes[k], n) = None

CrateKnown(n, v) ==
  v = None \/ InIndex(n, v) \/ NeverInIndex(n) \/ (v # Junk /\ <<n, v>> \in DOMAIN Arch)

VersionsKnown(n) == \E k \in 1..index : get_crate_json(Indexes[k], n) # None

FileKnown(n, v, p) ==
  /\ v # Junk
  /\ p = None \/ (<<n, v>> \in DOMAIN Arch /\ \E q \in ListedPaths(Arch[<<n, v>>]) : p = InUrl(q))

LinkKnown(l) ==
  /\ l.page \in {"crate", "versions", "reverse_dependencies", "files"}
  /\ l.page = "crate" => CrateKnown(l.name, l.version)
  /\ l.page = "versions" => VersionsKnown(l.name)
  /\ l.page = "files" => FileKnown(l.name, l.version, l.path)

LinksKnown(ls) == \A l \in ls : LinkKnown(l)

LEMMA LinkParts ==
  \A n, v, p : /\ CrateKnown(n, v) <=> LinkKnown(CratePage(n, v))
               /\ VersionsKnown(n) <=> LinkKnown(VersionsPage(n))
               /\ LinkKnown(DependentsPage(n))
               /\ FileKnown(n, v, None) <=> LinkKnown(ListingPage(n, v))
               /\ FileKnown(n, v, p) <=> LinkKnown(FilePage(n, v, p))
<1> SUFFICES ASSUME NEW n, NEW v, NEW p
             PROVE  /\ CrateKnown(n, v) <=> LinkKnown(CratePage(n, v))
                    /\ VersionsKnown(n) <=> LinkKnown(VersionsPage(n))
                    /\ LinkKnown(DependentsPage(n))
                    /\ FileKnown(n, v, None) <=> LinkKnown(ListingPage(n, v))
                    /\ FileKnown(n, v, p) <=> LinkKnown(FilePage(n, v, p))
  OBVIOUS
<1>1. /\ CratePage(n, v).name = n /\ CratePage(n, v).version = v
      /\ VersionsPage(n).name = n
      /\ ListingPage(n, v).name = n /\ ListingPage(n, v).version = v /\ ListingPage(n, v).path = None
      /\ FilePage(n, v, p).name = n /\ FilePage(n, v, p).version = v /\ FilePage(n, v, p).path = p
  BY DEF CratePage, VersionsPage, ListingPage, FilePage, Ask
<1> QED  BY <1>1, LinkPages DEF LinkKnown

(* The index now has what it had before.                                   *)
LEMMA StillInIndex ==
  ASSUME TypeOK, NEW n, NEW v
  PROVE  /\ InIndex(n, v) <=> HasVersion(Indexes[index], n, v)
         /\ VersionsKnown(n) <=> get_crate_json(Indexes[index], n) # None
         /\ HasVersion(Indexes[index], n, v) => v \in Nat
<1>1. index \in DOMAIN Indexes /\ index \in 1..index
      /\ \A k \in 1..index : k \in DOMAIN Indexes /\ k <= index
  BY ServerConstantsOK DEF TypeOK
<1>2. InIndex(n, v) <=> HasVersion(Indexes[index], n, v)
  BY <1>1, StaysInIndex DEF InIndex
<1>3. VersionsKnown(n) <=> get_crate_json(Indexes[index], n) # None
  BY <1>1, StaysInIndex DEF VersionsKnown
<1>4. ASSUME HasVersion(Indexes[index], n, v) PROVE v \in Nat
  <2> DEFINE json == get_crate_json(Indexes[index], n)
  <2>1. json # None /\ \E i \in DOMAIN json : json[i].version = v
    BY <1>4 DEF HasVersion
  <2>2. json \in Seq(CrateIndexJson)
    BY <1>1, <2>1, ServerConstantsOK, JsonHasVersions
  <2> HIDE DEF json
  <2>3. \A i \in DOMAIN json : json[i] \in CrateIndexJson
    BY <2>2
  <2>4. \A x \in CrateIndexJson : x.version \in Nat
    BY DEF CrateIndexJson
  <2> QED  BY <2>1, <2>3, <2>4
<1> QED  BY <1>2, <1>3, <1>4

LEMMA NoLinksKnown ==
  /\ LinksKnown(Blank.links) /\ LinksKnown(Dropped.links) /\ LinksKnown(ErrorPage.links)
  /\ LinksKnown(NotFound.links) /\ \A s, a : LinksKnown(Download(s, a).links)
BY DEF LinksKnown, Blank, Dropped, ErrorPage, NotFound, Download

LEMMA PageLinks == \A ls : Page(ls).links = ls
BY DEF Page

LEMMA CratePageKnown ==
  ASSUME TypeOK, NEW src, NEW n, NEW v
  PROVE  LinksKnown(get_crate_data(src, Indexes[index], n, v).links)
<1> DEFINE json == get_crate_json(Indexes[index], n)
           version == IF v = None THEN Newest(json) ELSE v
           at == {i \in DOMAIN json : json[i].version = version}
           deps == {d \in json[CHOOSE i \in at : TRUE].deps : d.kind \in {"normal", "dev"}}
           ls == {DependentsPage(n), ListingPage(n, version)}
                 \cup {CratePage(n, u) : u \in ListedVersions(json)}
                 \cup {VersionsPage(n) : i \in {k \in DOMAIN json : Len(json) > MaxListed}}
                 \cup {CratePage(d.name, None) : d \in deps}
<1>1. \/ get_crate_data(src, Indexes[index], n, v) \in {Dropped, ErrorPage}
      \/ get_crate_data(src, Indexes[index], n, v) = Page(ls) /\ json # None /\ at # {}
  BY DEF get_crate_data
<1>2. ASSUME json # None, at # {} PROVE LinksKnown(ls)
  <2>1. \A i \in DOMAIN json : HasVersion(Indexes[index], n, json[i].version)
    BY <1>2 DEF HasVersion
  <2>2. HasVersion(Indexes[index], n, version)
    BY <1>2, <2>1
  <2>3. \A u \in ListedVersions(json) : HasVersion(Indexes[index], n, u)
    BY <2>1 DEF ListedVersions
  <2> DEFINE lv == ListedVersions(json)
  <2> HIDE DEF json, deps, version, lv
  <2>4. LinkKnown(DependentsPage(n)) /\ LinkKnown(ListingPage(n, version))
    BY <2>2, LinkParts, StillInIndex, LinkConstantsOK DEF FileKnown
  <2>5. \A u \in lv : LinkKnown(CratePage(n, u))
    BY <2>3, LinkParts, StillInIndex DEF CrateKnown, lv
  <2>6. LinkKnown(VersionsPage(n))
    BY <1>2, LinkParts, StillInIndex DEF json
  <2>7. \A d \in deps : LinkKnown(CratePage(d.name, None))
    BY LinkParts DEF CrateKnown
  <2>8. ls = {DependentsPage(n), ListingPage(n, version)}
                 \cup {CratePage(n, u) : u \in lv}
                 \cup {VersionsPage(n) : i \in {k \in DOMAIN json : Len(json) > MaxListed}}
                 \cup {CratePage(d.name, None) : d \in deps}
    BY DEF lv
  <2> HIDE DEF ls
  <2>9. ASSUME NEW l \in ls PROVE LinkKnown(l)
    <3>1. \/ l = DependentsPage(n) \/ l = ListingPage(n, version)
          \/ \E u \in lv : l = CratePage(n, u)
          \/ l = VersionsPage(n)
          \/ \E d \in deps : l = CratePage(d.name, None)
      BY <2>8
    <3> QED  BY <2>4, <2>5, <2>6, <2>7, <3>1
  <2> QED  BY <2>9 DEF LinksKnown
<1> HIDE DEF ls, at, json
<1> QED  BY <1>1, <1>2, NoLinksKnown, PageLinks

LEMMA VersionsPageKnown ==
  ASSUME TypeOK, NEW n
  PROVE  LinksKnown(get_versions_data(Indexes[index], n).links)
<1> DEFINE json == get_crate_json(Indexes[index], n)
           ls == {CratePage(n, json[i].version) : i \in DOMAIN json}
<1>1. \/ get_versions_data(Indexes[index], n) = Dropped
      \/ get_versions_data(Indexes[index], n) = Page(ls) /\ json # None
  BY DEF get_versions_data
<1>2. ASSUME json # None PROVE LinksKnown(ls)
  <2>1. \A i \in DOMAIN json : HasVersion(Indexes[index], n, json[i].version)
    BY <1>2 DEF HasVersion
  <2> HIDE DEF json
  <2>2. \A i \in DOMAIN json : LinkKnown(CratePage(n, json[i].version))
    BY <2>1, LinkParts, StillInIndex DEF CrateKnown
  <2> QED  BY <2>2 DEF LinksKnown
<1> HIDE DEF ls, json
<1> QED  BY <1>1, <1>2, NoLinksKnown, PageLinks

(* Dependents are versions of the index the statistics are of.             *)
LEMMA VersionsKnownByName ==
  ASSUME NEW k \in 1..index, TypeOK, Indexes[k] # NoRepo, NEW v \in Versions(Indexes[k])
  PROVE  CrateKnown(v.name, v.version)
<1>1. k \in DOMAIN Indexes /\ \A i \in DOMAIN Indexes : IndexOK(Indexes[i])
  BY ServerConstantsOK DEF TypeOK
<1>2. CASE v.name = Lower[v.name]
  <2>1. HasVersion(Indexes[k], v.name, v.version)
    BY <1>1, <1>2, VersionIsFound DEF HasVersion
  <2> QED  BY <2>1 DEF CrateKnown, InIndex
<1>3. CASE v.name # Lower[v.name]
  BY <1>1, <1>3, NeverFound DEF CrateKnown, NeverInIndex
<1> QED  BY <1>2, <1>3

LEMMA DependentsInReference ==
  ASSUME NEW idx, NEW n \in DOMAIN Reference(idx).reverse_dependencies,
         NEW d \in Reference(idx).reverse_dependencies[n]
  PROVE  \E v \in Versions(idx) : d[2] = v.name /\ d[3] = v.version
<1> DEFINE deps == UNION {v.deps : v \in Versions(idx)}
           pairs == {p \in Versions(idx) \X deps : p[2] \in p[1].deps}
           revd == [m \in {e.name : e \in deps} |->
                      {<<p[2].req, p[1].name, p[1].version>> : p \in {q \in pairs : q[2].name = m}}]
<1>1. Reference(idx).reverse_dependencies = revd
  BY DEF Reference
<1>2. d \in {<<p[2].req, p[1].name, p[1].version>> : p \in {q \in pairs : q[2].name = n}}
  BY <1>1
<1>3. \A p \in pairs : p[1] \in Versions(idx)
  OBVIOUS
<1> HIDE DEF pairs
<1>4. PICK p \in pairs : d = <<p[2].req, p[1].name, p[1].version>>
  BY <1>2
<1> QED  BY <1>3, <1>4

LEMMA DependentsPageKnown ==
  ASSUME TypeOK, StatsAreOneSnapshot, stats \notin {NotBuilt, Building, Poisoned}, NEW n
  PROVE  LinksKnown(get_reverse_dependencies(stats, n).links)
<1> DEFINE R == stats.reverse_dependencies[n]
           ls == {CratePage(d[2], d[3]) : d \in R}
<1>1. \/ get_reverse_dependencies(stats, n) = Dropped
      \/ get_reverse_dependencies(stats, n) = Page(ls) /\ n \in DOMAIN stats.reverse_dependencies
  BY DEF get_reverse_dependencies
<1>2. ASSUME n \in DOMAIN stats.reverse_dependencies PROVE LinksKnown(ls)
  <2>1. PICK k \in 1..index : ~Unusable(Indexes[k]) /\ stats = Reference(Indexes[k])
    BY DEF StatsAreOneSnapshot
  <2>2. Indexes[k] # NoRepo
    BY <2>1 DEF Unusable
  <2>3. \A d \in R : \E v \in Versions(Indexes[k]) : d[2] = v.name /\ d[3] = v.version
    BY <1>2, <2>1, DependentsInReference
  <2> HIDE DEF R
  <2>4. \A d \in R : LinkKnown(CratePage(d[2], d[3]))
    BY <2>2, <2>3, VersionsKnownByName, LinkParts
  <2> QED  BY <2>4 DEF LinksKnown
<1> HIDE DEF ls, R
<1> QED  BY <1>1, <1>2, NoLinksKnown, PageLinks

LEMMA NewestPagesKnown == \A N : LinksKnown({CratePage(n, None) : n \in N})
BY LinkParts DEF LinksKnown, CrateKnown

LEMMA IndexPageKnown ==
  ASSUME NEW st, NEW resp \in get_index_data(st)
  PROVE  LinksKnown(resp.links)
<1> DEFINE D == LastOf(st.most_directly_depended_on, MaxListed)
           V == LastOf(st.most_versions, MaxListed)
<1>1. get_index_data(st) = {Page({CratePage(n, None) : n \in d \cup v}) : d \in D, v \in V}
  BY DEF get_index_data
<1> HIDE DEF D, V
<1>2. \E d \in D, v \in V : resp = Page({CratePage(n, None) : n \in d \cup v})
  BY <1>1
<1> QED  BY <1>2, PageLinks, NewestPagesKnown

LEMMA SearchPageKnown ==
  ASSUME NEW st, NEW term
  PROVE  LinksKnown(get_search_result_data(st, term).links)
<1> DEFINE N == {m \in st.names : term \in SubSeqs(m)}
<1>1. get_search_result_data(st, term) \in {Dropped, Page({CratePage(n, None) : n \in N})}
  BY DEF get_search_result_data
<1> HIDE DEF N
<1> QED  BY <1>1, NoLinksKnown, PageLinks, NewestPagesKnown

LEMMA FilesPageKnown ==
  ASSUME ServerInv, NEW w \in Threads, config = "file" => source[w] # NotLoaded,
         NEW n, NEW v, NEW p
  PROVE  LinksKnown(get_crate_file_data(SourceOf(w), n, v, p).links)
<1> DEFINE src == SourceOf(w)
           s == <<n, v>>
           fh == get_crate_handle_nv(src, s)
           list == get_file_list(fh, src)
           resp == get_crate_file_data(src, n, v, p)
           listing == {CratePage(n, v)} \cup {FilePage(n, v, InUrl(list[i])) : i \in DOMAIN list}
<1>1. \/ resp = Dropped
      \/ v # Junk /\ resp = Page({ListingPage(n, v)})
      \/ v # Junk /\ fh # None /\ list # Panic /\ resp = Page(listing)
  BY DEF get_crate_file_data
<1>2. v # Junk => LinkKnown(ListingPage(n, v))
  BY LinkParts DEF FileKnown
<1>3. ASSUME v # Junk, fh # None, list # Panic PROVE LinksKnown(listing)
  <2> DEFINE a == Arch[s]
             files == FilesOf(a)
  <2>1. s \in DOMAIN Arch /\ list = [i \in DOMAIN files |-> files[i].path]
    BY <1>3, SourceReads
  <2> HIDE DEF list, files
  <2>2. \A i \in DOMAIN list : list[i] \in ListedPaths(a)
    BY <2>1 DEF ListedPaths, files
  <2>3. \A i \in DOMAIN list : LinkKnown(FilePage(n, v, InUrl(list[i])))
    BY <1>3, <2>1, <2>2, LinkParts DEF FileKnown
  <2>4. LinkKnown(CratePage(n, v))
    BY <1>3, <2>1, LinkParts DEF CrateKnown
  <2> QED  BY <1>2, <1>3, <2>3, <2>4 DEF LinksKnown
<1> HIDE DEF listing, list, fh, resp
<1>4. v # Junk => LinksKnown({ListingPage(n, v)})
  BY <1>2 DEF LinksKnown
<1> QED  BY <1>1, <1>3, <1>4, NoLinksKnown, PageLinks DEF resp

FollowedKnown ==
  \A w \in Threads : \A r : req[w] # NoRequest /\ r = req[w].ask /\ req[w].linked => LinkKnown(r)

PoisonedKnown == stats = Poisoned => \E k \in 1..index : Unusable(Indexes[k])

LinkInv == LinksKnown(shown.links) /\ FollowedKnown /\ PoisonedKnown

LEMMA AnswerKnown ==
  ASSUME ServerInv, StatsAreOneSnapshot, LinkInv, NEW w \in Threads, Answer(w),
         NEW resp \in Responses(w, req[w].ask)
  PROVE  LinksKnown(Fallback(resp, req[w].ask).links)
<1> DEFINE r == req[w].ask
<1>1. TypeOK /\ req[w] # NoRequest /\ r.page \in Pages
      /\ (UsesSource(r) => source[w] # NotLoaded)
      /\ (UsesStats(r) => stats \notin {NotBuilt, Building, Poisoned})
  BY AnswerParts DEF ServerInv
<1>2. LinksKnown(resp.links)
  <2>1. CASE r.page = "crate"
    BY <1>1, <2>1, CratePageKnown DEF Responses
  <2>2. CASE r.page = "versions"
    BY <1>1, <2>2, VersionsPageKnown DEF Responses
  <2>3. CASE r.page = "reverse_dependencies"
    BY <1>1, <2>3, DependentsPageKnown DEF Responses, UsesStats
  <2>4. CASE r.page = "index"
    <3>1. resp \in get_index_data(stats)
      BY <2>4 DEF Responses
    <3> QED  BY <3>1, IndexPageKnown
  <2>5. CASE r.page = "search"
    <3>1. resp = get_search_result_data(stats, r.name)
      BY <2>5 DEF Responses
    <3> QED  BY <3>1, SearchPageKnown
  <2>6. CASE r.page = "files"
    <3>1. source[w] # NotLoaded
      BY <1>1, <2>6 DEF UsesSource
    <3>2. resp = get_crate_file_data(SourceOf(w), r.name, r.version, r.path)
      BY <2>6 DEF Responses
    <3> QED  BY <3>1, <3>2, FilesPageKnown
  <2>7. CASE r.page = "download"
    <3>1. DownloadAnswer(SourceOf(w), <<r.name, r.version>>, resp)
      BY <1>1, <2>7, AnswersAre
    <3> QED  BY <3>1, NoLinksKnown DEF DownloadAnswer
  <2>8. CASE r.page = "static"
    BY <2>8, NoLinksKnown DEF Responses
  <2> QED  BY <1>1, <2>1, <2>2, <2>3, <2>4, <2>5, <2>6, <2>7, <2>8 DEF Pages
<1> QED  BY <1>2, NoLinksKnown DEF Fallback

(* What is known stays known.                                              *)
LEMMA KnownStays ==
  ASSUME TypeOK, TypeOK', config' = config, index <= index',
         \A s \in DOMAIN Arch : s \in DOMAIN Arch' /\ Arch'[s] = Arch[s], NEW l, LinkKnown(l)
  PROVE  LinkKnown(l)'
<1>1. 1..index \subseteq 1..(index')
  BY ServerConstantsOK DEF TypeOK
<1>2. \A n, v : InIndex(n, v) => InIndex(n, v)'
  BY <1>1 DEF InIndex
<1>3. \A n : VersionsKnown(n) => VersionsKnown(n)'
  BY <1>1 DEF VersionsKnown
<1>4. \A a : ListedPaths(a)' = ListedPaths(a)
  BY DEF ListedPaths, FilesOf
<1>5. \A n, v : CrateKnown(n, v) => CrateKnown(n, v)'
  BY <1>2 DEF CrateKnown, NeverInIndex
<1>6. \A n, v, p : FileKnown(n, v, p) => FileKnown(n, v, p)'
  BY <1>4 DEF FileKnown
<1> QED  BY <1>3, <1>5, <1>6 DEF LinkKnown

-----------------------------------------------------------------------------
(* Statistics that cannot be computed.                                     *)

LEMMA UsableLists ==
  ASSUME NEW idx, IndexOK(idx), ~Unusable(idx)
  PROVE  HasLists(get_all_crates_json(idx))
<1> DEFINE n == Len(idx)
           T == CratesIn(idx)
           C == [name : Seq(STRING), versions : Seq(CrateIndexJson)]
           acj == get_all_crates_json(idx)
<1>1. /\ idx # NoRepo
      /\ \A i \in DOMAIN idx : IsCrate(idx[i]) => idx[i].lines \notin {BadJson, <<>>}
  BY DEF Unusable
<1>2. acj = (CHOOSE g : Walking(idx, g))[n]
  <2>1. acj = IF idx = NoRepo \/ (\E i \in DOMAIN idx : IsCrate(idx[i]) /\ idx[i].lines = BadJson)
              THEN None ELSE (CHOOSE g : Walking(idx, g))[n]
    BY DEF get_all_crates_json, Walking, CrateOf
  <2> QED  BY <1>1, <2>1
<1>3. n \in Nat /\ DOMAIN idx = 1..n
  BY <1>1 DEF IndexOK
<1>4. acj \in Seq(T)
  <2> DEFINE f == CHOOSE g : Walking(idx, g)
  <2>1. Walking(idx, f)
    BY <1>3, WalkExists
  <2>2. acj = f[n]
    BY <1>2
  <2> HIDE DEF f, acj
  <2> QED  BY <1>3, <2>1, <2>2, WalkIs
<1>5. ASSUME NEW c \in T PROVE c \in C /\ c.versions # <<>>
  <2>1. PICK j \in 1..n : IsCrate(idx[j]) /\ c = CrateOf(idx[j])
    BY DEF CratesIn
  <2> DEFINE lines == idx[j].lines
  <2>2. lines # <<>> /\ lines # BadJson
    BY <1>1, <1>3, <2>1
  <2>3. lines \in Seq(CrateIndexJson)
    BY <1>1, <1>3, <2>1, <2>2 DEF IndexOK, FileOK
  <2>4. c = [name |-> lines[1].name, versions |-> lines]
    BY <2>1, <2>2 DEF CrateOf, CrateName
  <2> HIDE DEF lines
  <2>5. lines[1] \in CrateIndexJson
    BY <2>2, <2>3
  <2>6. lines[1].name \in Seq(STRING)
    BY <2>5 DEF CrateIndexJson
  <2> QED  BY <2>2, <2>3, <2>4, <2>6
<1> HIDE DEF T, C, acj
<1>6. acj \in Seq(C)
  BY <1>4, <1>5, SeqMonotone
<1>7. acj # None
  BY <1>6, LinkConstantsOK DEF C
<1>8. \A i \in DOMAIN acj : acj[i] \in T
  BY <1>4
<1> QED  BY <1>5, <1>7, <1>8 DEF HasLists, acj

LEMMA PanicIsUnusable ==
  ASSUME NEW k \in DOMAIN Indexes, StatsOf(Indexes[k]) = Panic
  PROVE  Unusable(Indexes[k])
<1>1. IndexOK(Indexes[k])
  BY ServerConstantsOK
<1> SUFFICES ASSUME ~Unusable(Indexes[k]) PROVE FALSE
  OBVIOUS
<1>2. StatsOf(Indexes[k]) = Reference(Indexes[k])
  BY <1>1, UsableLists, ComputedAre
<1> QED  BY <1>2, LinkConstantsOK

LEMMA StatsNotPoisoned ==
  ASSUME NEW k \in DOMAIN Indexes, StatsOf(Indexes[k]) # Panic
  PROVE  StatsOf(Indexes[k]) # Poisoned
<1>1. IndexOK(Indexes[k])
  BY ServerConstantsOK
<1>2. ~Unusable(Indexes[k]) /\ StatsOf(Indexes[k]) = Reference(Indexes[k])
  BY <1>1, StatisticsAre
<1> QED  BY <1>2, LinkConstantsOK

Known(q) == q # NoRequest /\ q.linked => LinkKnown(q.ask)

LEMMA FollowedIs == FollowedKnown <=> \A w \in Threads : Known(req[w])
BY DEF FollowedKnown, Known

LEMMA LinkInvStays ==
  ASSUME TypeOK, TypeOK', config' = config, index <= index',
         \A s \in DOMAIN Arch : s \in DOMAIN Arch' /\ Arch'[s] = Arch[s],
         LinksKnown(shown'.links), \A w \in Threads : Known(req'[w]),
         stats' = Poisoned => \E k \in 1..index : Unusable(Indexes[k])
  PROVE  LinkInv'
<1>1. \A l : LinkKnown(l) => LinkKnown(l)'
  BY KnownStays
<1>2. LinksKnown(shown.links)'
  BY <1>1 DEF LinksKnown
<1>3. FollowedKnown'
  <2> SUFFICES ASSUME NEW w \in Threads, NEW r, req'[w] # NoRequest, r = req'[w].ask,
                      req'[w].linked
               PROVE  LinkKnown(r)'
    BY DEF FollowedKnown
  <2>1. LinkKnown(r)
    BY DEF Known
  <2> QED  BY <1>1, <2>1
<1>4. PoisonedKnown'
  <2>1. 1..index \subseteq 1..(index')
    BY ServerConstantsOK DEF TypeOK
  <2> QED  BY <2>1 DEF PoisonedKnown
<1> QED  BY <1>2, <1>3, <1>4 DEF LinkInv

(* Steps that leave the disk alone.                                        *)
LEMMA LinkInvHere ==
  ASSUME TypeOK, TypeOK', UNCHANGED disk, LinksKnown(shown'.links), \A w \in Threads : Known(req'[w]),
         stats' = Poisoned => \E k \in 1..index : Unusable(Indexes[k])
  PROVE  LinkInv'
<1>1. config' = config /\ index' = index /\ Arch' = Arch
  BY DEF disk, Arch
<1>2. index <= index'
  BY <1>1, ServerConstantsOK DEF TypeOK
<1> QED  BY <1>1, <1>2, LinkInvStays

LEMMA FinishLinks ==
  ASSUME ServerInv, TypeOK', UNCHANGED disk, LinkInv, NEW w \in Threads, NEW resp, LinksKnown(resp.links),
         Finish(w, resp), stats' = Poisoned => \E k \in 1..index : Unusable(Indexes[k])
  PROVE  LinkInv'
<1>1. \A v \in Threads : req'[v] = NoRequest \/ req'[v] = req[v]
  BY FinishSources DEF ServerInv
<1>2. shown' = resp
  BY DEF Finish
<1>3. \A v \in Threads : Known(req[v])
  BY FollowedIs DEF LinkInv
<1>4. \A v \in Threads : Known(req'[v])
  BY <1>1, <1>3 DEF Known
<1>5. LinksKnown(shown'.links)
  BY <1>2
<1> QED  BY <1>4, <1>5, LinkInvHere DEF ServerInv

LEMMA AcceptLinks ==
  ASSUME ServerInv, TypeOK', LinkInv, NEW w \in Threads, Accept(w)
  PROVE  LinkInv'
<1>1. PICK r \in Typed \cup shown.links :
        /\ req' = [req EXCEPT ![w] = [ask |-> r, linked |-> r \in shown.links]]
        /\ shown' = Blank
        /\ UNCHANGED <<disk, lazy, source>>
  BY DEF Accept
<1>2. DOMAIN req = Threads
  BY DEF ServerInv, RequestsOK
<1>3. LinksKnown(shown'.links)
  BY <1>1, NoLinksKnown
<1>4. \A v \in Threads : Known(req[v])
  BY FollowedIs DEF LinkInv
<1>5. ASSUME NEW v \in Threads PROVE Known(req'[v])
  <2>1. CASE v # w
    <3>1. req'[v] = req[v]
      BY <1>1, <1>2, <2>1
    <3> QED  BY <1>4, <3>1
  <2>2. CASE v = w
    <3>1. req'[v].ask = r /\ req'[v].linked = (r \in shown.links)
      BY <1>1, <1>2, <2>2
    <3>2. r \in shown.links => LinkKnown(r)
      BY DEF LinkInv, LinksKnown
    <3> QED  BY <3>1, <3>2 DEF Known
  <2> QED  BY <2>1, <2>2
<1>6. stats' = Poisoned => \E k \in 1..index : Unusable(Indexes[k])
  BY <1>1 DEF LinkInv, PoisonedKnown, lazy
<1> QED  BY <1>1, <1>3, <1>5, <1>6, LinkInvHere DEF ServerInv

LEMMA LoadSourceLinks ==
  ASSUME ServerInv, TypeOK', LinkInv, NEW w \in Threads, LoadSource(w)
  PROVE  LinkInv'
<1>1. UNCHANGED <<disk, lazy>>
  BY DEF LoadSource
<1>2. stats' = Poisoned => \E k \in 1..index : Unusable(Indexes[k])
  BY <1>1 DEF LinkInv, PoisonedKnown, lazy
<1>3. CASE config = "file" /\ storage = NoFile
  <2>1. Finish(w, Dropped)
    BY <1>3 DEF LoadSource
  <2> QED  BY <1>1, <1>2, <2>1, FinishLinks, NoLinksKnown
<1>4. CASE ~ (config = "file" /\ storage = NoFile)
  <2>1. UNCHANGED <<req, shown>>
    BY <1>4 DEF LoadSource
  <2>2. \A v \in Threads : Known(req'[v])
    BY <2>1, FollowedIs DEF LinkInv
  <2>3. LinksKnown(shown'.links)
    BY <2>1 DEF LinkInv
  <2> QED  BY <1>1, <1>2, <2>2, <2>3, LinkInvHere DEF ServerInv
<1> QED  BY <1>3, <1>4

LEMMA BeginStatsLinks ==
  ASSUME ServerInv, TypeOK', LinkInv, NEW w \in Threads, BeginStats(w)
  PROVE  LinkInv'
<1>1. stats' = Building /\ UNCHANGED <<disk, source, req, shown>>
  BY DEF BeginStats
<1>2. stats' # Poisoned
  BY <1>1, ServerConstantsOK
<1>3. \A v \in Threads : Known(req'[v])
  BY <1>1, FollowedIs DEF LinkInv
<1>4. LinksKnown(shown'.links)
  BY <1>1 DEF LinkInv
<1> QED  BY <1>1, <1>2, <1>3, <1>4, LinkInvHere DEF ServerInv

LEMMA EndStatsLinks ==
  ASSUME ServerInv, TypeOK', LinkInv, NEW w \in Threads, EndStats(w)
  PROVE  LinkInv'
<1> DEFINE new == StatsOf(Indexes[index])
<1>1. UNCHANGED disk /\ index \in DOMAIN Indexes /\ index \in 1..index
  BY ServerConstantsOK DEF EndStats, ServerInv, TypeOK
<1>2. CASE new = Panic
  <2>1. Finish(w, Dropped)
    BY <1>2 DEF EndStats, AfterPanic
  <2>2. Unusable(Indexes[index])
    BY <1>1, <1>2, PanicIsUnusable
  <2> QED  BY <1>1, <2>1, <2>2, FinishLinks, NoLinksKnown
<1>3. CASE new # Panic
  <2>1. stats' = new /\ UNCHANGED <<source, req, shown>>
    BY <1>3 DEF EndStats
  <2>2. stats' # Poisoned
    BY <1>1, <1>3, <2>1, StatsNotPoisoned
  <2>3. \A v \in Threads : Known(req'[v])
    BY <2>1, FollowedIs DEF LinkInv
  <2>4. LinksKnown(shown'.links)
    BY <2>1 DEF LinkInv
  <2> QED  BY <1>1, <2>2, <2>3, <2>4, LinkInvHere DEF ServerInv
<1> QED  BY <1>2, <1>3

LEMMA StatsPoisonedLinks ==
  ASSUME ServerInv, TypeOK', LinkInv, NEW w \in Threads, StatsPoisoned(w)
  PROVE  LinkInv'
<1>1. stats = Poisoned /\ Finish(w, Dropped) /\ UNCHANGED <<disk, lazy>>
  BY DEF StatsPoisoned
<1> QED  BY <1>1, FinishLinks, NoLinksKnown DEF LinkInv, PoisonedKnown

LEMMA AnswerLinksKnown ==
  ASSUME ServerInv, TypeOK', StatsAreOneSnapshot, LinkInv, NEW w \in Threads, Answer(w)
  PROVE  LinkInv'
<1>1. UNCHANGED <<disk, lazy>> /\ \E resp \in Responses(w, req[w].ask) : Finish(w, Fallback(resp, req[w].ask))
  BY DEF Answer
<1>2. PICK resp \in Responses(w, req[w].ask) : Finish(w, Fallback(resp, req[w].ask))
  BY <1>1
<1>3. LinksKnown(Fallback(resp, req[w].ask).links)
  BY AnswerKnown
<1>4. stats' = Poisoned => \E k \in 1..index : Unusable(Indexes[k])
  BY <1>1 DEF LinkInv, PoisonedKnown, lazy
<1> QED  BY <1>1, <1>2, <1>3, <1>4, FinishLinks

(* The other programs, and steps that leave everything alone.              *)
LEMMA OutsideLinks ==
  ASSUME ServerInv, TypeOK', LinkInv, UpdateIndex \/ Mirror \/ FillStorage \/ UNCHANGED vars
  PROVE  LinkInv'
<1>1. UNCHANGED <<config, stats, req, shown>>
  BY DEF UpdateIndex, Mirror, FillStorage, vars, disk, lazy
<1>2. index <= index'
  BY ServerConstantsOK DEF UpdateIndex, Mirror, FillStorage, vars, disk, ServerInv, TypeOK
<1>3. archives \in DOMAIN Archives /\ archives' \in DOMAIN Archives /\ archives <= archives'
  BY ServerConstantsOK DEF UpdateIndex, Mirror, FillStorage, vars, disk, ServerInv, TypeOK
<1>4. \A s \in DOMAIN Arch : s \in DOMAIN Arch' /\ Arch'[s] = Arch[s]
  BY <1>3, ServerConstantsOK DEF Arch
<1>5. stats' = Poisoned => \E k \in 1..index : Unusable(Indexes[k])
  BY <1>1 DEF LinkInv, PoisonedKnown
<1>6. \A v \in Threads : Known(req'[v])
  BY <1>1, FollowedIs DEF LinkInv
<1>7. LinksKnown(shown'.links)
  BY <1>1 DEF LinkInv
<1> QED  BY <1>1, <1>2, <1>4, <1>5, <1>6, <1>7, LinkInvStays DEF ServerInv

LEMMA LinkStep == ServerInv /\ ServerInv' /\ StatsAreOneSnapshot /\ LinkInv /\ [Next]_vars => LinkInv'
<1> SUFFICES ASSUME ServerInv, ServerInv', StatsAreOneSnapshot, LinkInv, [Next]_vars PROVE LinkInv'
  OBVIOUS
<1>1. TypeOK'
  BY DEF ServerInv
<1>2. ASSUME NEW w \in Threads, Accept(w) \/ ThreadStep(w) PROVE LinkInv'
  BY <1>1, <1>2, AcceptLinks, LoadSourceLinks, BeginStatsLinks, EndStatsLinks, StatsPoisonedLinks,
     AnswerLinksKnown DEF ThreadStep
<1> QED  BY <1>1, <1>2, OutsideLinks DEF Next

LEMMA InitLinks == Init => LinkInv
<1> SUFFICES ASSUME Init PROVE LinkInv
  OBVIOUS
<1>1. stats # Poisoned
  BY LinkConstantsOK DEF Init
<1>2. LinksKnown(shown.links)
  BY NoLinksKnown DEF Init
<1>3. FollowedKnown
  BY DEF Init, FollowedKnown
<1> QED  BY <1>1, <1>2, <1>3 DEF LinkInv, PoisonedKnown

LEMMA LinksHold == Spec => []LinkInv
BY InitLinks, LinkStep, ServerHolds, OneSnapshot, PTL DEF Spec

-----------------------------------------------------------------------------
(* Whom a link takes down.                                                 *)

(* What there is to find at a path that is listed.                         *)
LEMMA ListedIsThere ==
  ASSUME NEW a \in Archive, NEW p \in ListedPaths(a)
  PROVE  \E i \in DOMAIN FilesOf(a) :
           FilesOf(a)[i].path = p /\ EntryAt(FilesOf(a), p) = FilesOf(a)[i].content
<1>1. \E i \in DOMAIN FilesOf(a) : FilesOf(a)[i].path = p
  BY DEF ListedPaths
<1>2. FilesOf(a) \in Seq(FileEntry)
  BY FilesAre
<1> QED  BY <1>1, <1>2, EntryAmong

(* Lists and contents are no failures.                                     *)
LEMMA FilesAreFiles ==
  ASSUME NEW a \in Archive
  PROVE  /\ [i \in DOMAIN FilesOf(a) |-> FilesOf(a)[i].path] # Panic
         /\ \A i \in DOMAIN FilesOf(a) : FilesOf(a)[i].content \notin {None, Panic}
<1> DEFINE q == FilesOf(a)
           P == EntryPaths \cup Contents
<1>1. q \in Seq(FileEntry)
  BY FilesAre
<1>2. \A e \in FileEntry : e.path \in P /\ e.content \in Contents
  BY DEF FileEntry
<1> HIDE DEF q, P
<1>3. \A i \in DOMAIN q : q[i].path \in P /\ q[i].content \in Contents
  BY <1>1, <1>2
<1>4. [i \in DOMAIN q |-> q[i].path] \in Seq(P)
  BY <1>1, <1>3
<1> QED  BY <1>3, <1>4, LinkConstantsOK DEF q, P

LEMMA FilesDrop ==
  ASSUME ServerInv, NEW w \in Threads, source[w] # NotLoaded, NEW r,
         FileKnown(r.name, r.version, r.path),
         get_crate_file_data(SourceOf(w), r.name, r.version, r.path) = Dropped
  PROVE  Unreadable(w, r)
<1> DEFINE src == SourceOf(w)
           s == <<r.name, r.version>>
           fh == get_crate_handle_nv(src, s)
           list == get_file_list(fh, src)
           content == get_file(fh, src, r.path)
           a == Arch[s]
<1>1. r.version # Junk
  BY DEF FileKnown
<1>2. \A ls : Page(ls) # Dropped
  BY DEF Page, Dropped
<1>3. \/ fh = None
      \/ fh # None /\ r.path = None /\ list = Panic
      \/ fh # None /\ r.path # None /\ content \in {None, Panic}
  <2>1. get_crate_file_data(src, r.name, r.version, r.path) =
          IF r.version = Junk \/ fh = None THEN Dropped
          ELSE IF r.path = None
          THEN IF list = Panic THEN Dropped
               ELSE Page({CratePage(r.name, r.version)}
                         \cup {FilePage(r.name, r.version, InUrl(list[i])) : i \in DOMAIN list})
          ELSE IF content \in {None, Panic} THEN Dropped
          ELSE Page({ListingPage(r.name, r.version)})
    BY DEF get_crate_file_data, Stripped
  <2> HIDE DEF src, fh, list, content
  <2> QED  BY <1>1, <1>2, <2>1 DEF src
<1>4. fh # None => s \in DOMAIN Arch /\ a \in Archive
  BY SourceReads
<1>5. config = "file" => src = source[w] /\ src.st = source[w].st
  BY DEF SourceOf
<1>6. CASE fh = None
  <2>1. IF config = "file" THEN s \notin DOMAIN src.st.name_index \/ src.st.name_index[s] \notin src.st.blobs
        ELSE s \notin DOMAIN Arch
    BY <1>6, SourceReads
  <2> HIDE DEF src, fh, list, content
  <2> QED  BY <1>5, <2>1 DEF Unreadable, Whole, Arch
<1>7. CASE fh # None /\ r.path = None /\ list = Panic
  <2> DEFINE paths == [i \in DOMAIN FilesOf(a) |-> FilesOf(a)[i].path]
  <2>1. \/ config = "file" /\ list = paths
        \/ config # "file" /\ list = IF a.kind \in {"nogz", "damaged"} THEN Panic ELSE paths
    BY <1>7, SourceReads
  <2>2. paths # Panic
    BY <1>4, <1>7, FilesAreFiles
  <2> HIDE DEF src, fh, list, content, paths
  <2> QED  BY <1>7, <2>1, <2>2 DEF Unreadable, Arch
<1>8. CASE fh # None /\ r.path # None /\ content \in {None, Panic}
  <2> DEFINE p == r.path
             e == EntryAt(FilesOf(a), p)
  <2>1. \/ config = "file" /\ content = IF e \in src.st.blobs THEN e ELSE None
        \/ config # "file" /\ content = IF a.kind = "nogz" THEN None ELSE e
    BY <1>8, SourceReads
  <2>2. \E q \in ListedPaths(a) : p = InUrl(q)
    BY <1>8 DEF FileKnown
  <2>3. s \in DOMAIN Arch /\ a \in Archive
    BY <1>4, <1>8
  <2> HIDE DEF src, fh, list, content, e
  <2>4. CASE p \notin ListedPaths(a)
    <3>1. PICK q \in ListedPaths(a) : p = InUrl(q)
      BY <2>2
    <3>2. q \in DOMAIN Encoded /\ p = Encoded[q]
      BY <2>4, <3>1 DEF InUrl
    <3>3. NotKept(a, p)
      BY <2>4, <3>2 DEF NotKept
    <3> QED  BY <2>3, <3>3 DEF Unreadable, Arch
  <2>5. CASE p \in ListedPaths(a)
    <3>1. PICK i \in DOMAIN FilesOf(a) : e = FilesOf(a)[i].content
      BY <2>3, <2>5, ListedIsThere DEF e
    <3>2. e \notin {None, Panic}
      BY <2>3, <3>1, FilesAreFiles
    <3>3. CASE config = "file"
      <4>1. e \notin src.st.blobs
        BY <1>8, <2>1, <3>2, <3>3
      <4>2. FilesOf(a) = a.raw
        BY <3>3 DEF FilesOf
      <4>3. a.raw[i] \in Range(Archives[archives][s].raw) /\ a.raw[i].content \notin source[w].st.blobs
        BY <1>5, <3>1, <3>3, <4>1, <4>2 DEF Range, Arch
      <4>4. ~Whole(source[w].st, s)
        BY <4>3 DEF Whole
      <4> QED  BY <3>3, <4>4 DEF Unreadable
    <3>4. CASE config # "file"
      <4>1. a.kind = "nogz"
        BY <1>8, <2>1, <3>2, <3>4
      <4> QED  BY <3>4, <4>1 DEF Unreadable, Arch
    <3> QED  BY <3>3, <3>4
  <2> QED  BY <2>4, <2>5
<1> QED  BY <1>3, <1>6, <1>7, <1>8

(* Details of a crate fail for want of a field in its Cargo.toml.          *)
LEMMA DetailsPanic ==
  ASSUME ServerInv, NEW w \in Threads, source[w] # NotLoaded, NEW n, NEW v,
         get_crate_details(SourceOf(w), <<n, v>>) = "panic"
  PROVE  HasIncompleteToml(n)
<1> DEFINE src == SourceOf(w)
           s == <<n, v>>
           fh == get_crate_handle_nv(src, s)
           toml == get_file(fh, src, CargoToml(s))
           a == Arch[s]
           q == FilesOf(a)
           e == EntryAt(q, CargoToml(s))
<1>1. fh # None /\ toml # None /\ toml \in {Panic, Incomplete}
  <2>1. get_crate_details(src, s) = IF fh = None \/ toml = None THEN "err_msg"
                                    ELSE IF toml = Panic \/ toml = Incomplete THEN "panic" ELSE "details"
    BY DEF get_crate_details
  <2> HIDE DEF fh, toml, src
  <2> QED  BY <2>1 DEF src
<1>2. s \in DOMAIN Arch /\ a \in Archive
  BY <1>1, SourceReads
<1>3. \/ toml = IF e \in src.st.blobs THEN e ELSE None
      \/ toml = IF a.kind = "nogz" THEN None ELSE e
  BY <1>1, SourceReads
<1>4. q \in Seq(FileEntry)
  BY <1>2, FilesAre
<1>5. \A i \in DOMAIN q : q[i].content \notin {None, Panic}
  BY <1>2, FilesAreFiles
<1>6. /\ (\E i \in DOMAIN q : q[i].path = CargoToml(s)) => \E i \in DOMAIN q : q[i].path = CargoToml(s) /\ e = q[i].content
      /\ ~(\E i \in DOMAIN q : q[i].path = CargoToml(s)) => e = None
  <2> HIDE DEF q
  <2> QED  BY <1>4, EntryAmong
<1> HIDE DEF fh, toml, e, src, q
<1>7. e = toml
  BY <1>1, <1>3
<1>8. PICK i \in DOMAIN q : q[i].path = CargoToml(s) /\ e = q[i].content
  BY <1>1, <1>6, <1>7
<1>9. q[i].content = Incomplete
  BY <1>1, <1>5, <1>7, <1>8
<1>10. q[i] \in Range(a.raw) \cup Range(Joined(a.raw))
  BY DEF q, FilesOf, Range
<1> QED  BY <1>2, <1>8, <1>9, <1>10 DEF HasIncompleteToml, Arch

LEMMA VersionListed ==
  ASSUME NEW idx, IndexOK(idx), NEW n, get_crate_json(idx, n) # None, NEW v \in Versions(idx), v.name = n
  PROVE  HasVersion(idx, n, v.version)
<1>1. PICK k \in DOMAIN idx : idx[k].path = obtain_crate_name_path(n) /\ FileOK(idx[k])
  BY JsonIsFile
<1>2. PICK m \in DOMAIN Lower : idx[k].path = PathInIndex(Lower[m])
  BY <1>1 DEF FileOK
<1>3. Lower[m] \in Seq(STRING) /\ Lower[m] # <<>> /\ Lower[Lower[m]] = Lower[m]
  BY LowerOK
<1>4. n = Lower[m]
  BY <1>1, <1>2, <1>3, PathIsFound, NameOfPath
<1>5. idx # NoRepo
  BY JsonIsFile
<1>6. v.name = Lower[v.name]
  BY <1>3, <1>4
<1> QED  BY <1>5, <1>6, VersionIsFound DEF HasVersion

LEMMA CrateDrops ==
  ASSUME ServerInv, NEW w \in Threads, source[w] # NotLoaded, NEW r, CrateKnown(r.name, r.version),
         get_crate_data(SourceOf(w), Indexes[index], r.name, r.version) = Dropped
  PROVE  HasIncompleteToml(r.name) \/ Unlisted(r)
<1> DEFINE idx == Indexes[index]
           src == SourceOf(w)
           n == r.name
           json == get_crate_json(idx, n)
           version == IF r.version = None THEN Newest(json) ELSE r.version
           at == {i \in DOMAIN json : json[i].version = version}
           deps == {d \in json[CHOOSE i \in at : TRUE].deps : d.kind \in {"normal", "dev"}}
           ls == {DependentsPage(n), ListingPage(n, version)}
                 \cup {CratePage(n, u) : u \in ListedVersions(json)}
                 \cup {VersionsPage(n) : i \in {k \in DOMAIN json : Len(json) > MaxListed}}
                 \cup {CratePage(d.name, None) : d \in deps}
           details == get_crate_details(src, <<n, version>>)
<1>1. /\ json # None /\ ~(r.version = None /\ json = <<>>)
      /\ r.version = Junk \/ details = "panic" \/ at = {}
  <2>1. get_crate_data(src, idx, n, r.version) =
          IF json = None \/ (r.version = None /\ json = <<>>) THEN ErrorPage
          ELSE IF r.version = Junk \/ details = "panic" \/ at = {} THEN Dropped ELSE Page(ls)
    BY DEF get_crate_data
  <2>2. ErrorPage # Dropped /\ \A l : Page(l) # Dropped
    BY DEF ErrorPage, Page, Dropped
  <2> HIDE DEF ls, at, json, details, src
  <2> QED  BY <2>1, <2>2 DEF src
<1>2. TypeOK /\ IndexOK(idx) /\ index \in DOMAIN Indexes
  BY ServerConstantsOK DEF ServerInv, TypeOK
<1>3. CASE details = "panic"
  BY <1>3, DetailsPanic
<1>4. CASE details # "panic"
  <2>1. json \in Seq(CrateIndexJson)
    BY <1>1, <1>2, JsonHasVersions
  <2>2. CASE r.version = None
    <3>1. json # <<>> /\ version = Newest(json)
      BY <1>1, <2>2
    <3> HIDE DEF json
    <3>2. \E i \in DOMAIN json : json[i].version = version
      BY <2>1, <3>1, NewestIs
    <3>3. at # {}
      BY <3>2
    <3> HIDE DEF at
    <3> QED  BY <1>1, <1>4, <2>2, <3>3, LinkConstantsOK
  <2>3. CASE r.version # None
    <3>1. version = r.version
      BY <2>3
    <3>2. CASE InIndex(n, r.version)
      <4>1. HasVersion(idx, n, r.version) /\ r.version \in Nat
        BY <1>2, <3>2, StillInIndex
      <4>2. at # {}
        BY <3>1, <4>1 DEF HasVersion
      <4> HIDE DEF at
      <4> QED  BY <1>1, <1>4, <4>1, <4>2, LinkConstantsOK
    <3>3. CASE NeverInIndex(n)
      BY <1>1, <1>2, <3>3 DEF NeverInIndex
    <3>4. CASE r.version # Junk /\ <<n, r.version>> \in DOMAIN Arch
      <4>1. at = {}
        BY <1>1, <1>4, <3>4
      <4>2. ~HasVersion(idx, n, r.version)
        BY <3>1, <4>1 DEF HasVersion
      <4>3. ~\E v \in Versions(idx) : v.name = n /\ v.version = r.version
        BY <1>1, <1>2, <4>2, VersionListed
      <4> QED  BY <3>4, <4>3 DEF Unlisted, Arch
    <3> QED  BY <2>3, <3>2, <3>3, <3>4 DEF CrateKnown
  <2> QED  BY <2>2, <2>3
<1> QED  BY <1>3, <1>4

LEMMA DependentsDrop ==
  ASSUME StatsAreOneSnapshot, stats \notin {NotBuilt, Building, Poisoned}, NEW n,
         get_reverse_dependencies(stats, n) = Dropped
  PROVE  NoDependents(n)
<1>1. PICK k \in 1..index : stats = Reference(Indexes[k])
  BY DEF StatsAreOneSnapshot
<1> DEFINE idx == Indexes[k]
           deps == UNION {u.deps : u \in Versions(idx)}
<1>2. stats.names = NamesIn(idx) \cup {d.name : d \in deps} /\ DOMAIN stats.reverse_dependencies = {d.name : d \in deps}
  BY <1>1 DEF Reference
<1>3. n \notin stats.names \/ n \notin DOMAIN stats.reverse_dependencies
  <2>1. \A ls : Page(ls) # Dropped
    BY DEF Page, Dropped
  <2> QED  BY <2>1 DEF get_reverse_dependencies
<1>4. \A d \in deps : d.name # n
  BY <1>2, <1>3
<1>5. ~\E v \in Versions(idx), d \in deps : d \in v.deps /\ d.name = n
  BY <1>4
<1> QED  BY <1>5 DEF NoDependents

LEMMA VersionsDrop ==
  ASSUME TypeOK, NEW n, VersionsKnown(n)
  PROVE  get_versions_data(Indexes[index], n) # Dropped
<1>1. get_crate_json(Indexes[index], n) # None
  BY StillInIndex
<1>2. \A ls : Page(ls) # Dropped
  BY DEF Page, Dropped
<1> QED  BY <1>1, <1>2 DEF get_versions_data

DropIsDead(w) ==
  (Asked(w) /\ req[w].linked /\ req'[w] = NoRequest /\ shown'.status = "dropped") => Dead(w, req[w].ask)

(* Only these have that status.                                            *)
LEMMA DroppedOnly ==
  /\ \A ls : Page(ls).status # "dropped"
  /\ ErrorPage.status # "dropped" /\ NotFound.status # "dropped" /\ Blank.status # "dropped"
  /\ \A s, a : Download(s, a).status # "dropped"
BY DEF Page, ErrorPage, NotFound, Blank, Download

LEMMA StatsDead ==
  ASSUME NEW w, NEW r, UsesStats(r), \E k \in 1..index : Unusable(Indexes[k])
  PROVE  Dead(w, r)
<1>1. r.page \notin {"files", "crate"}
  BY DEF UsesStats
<1> QED  BY <1>1 DEF Dead

LEMMA AnswerDrops ==
  ASSUME ServerInv, StatsAreOneSnapshot, NEW w \in Threads, NEW r, LinkKnown(r), r.page \in Pages,
         UsesSource(r) => source[w] # NotLoaded,
         UsesStats(r) => stats \notin {NotBuilt, Building, Poisoned},
         NEW resp \in Responses(w, r), Fallback(resp, r).status = "dropped"
  PROVE  Dead(w, r)
<1>1. resp = Dropped
  <2>1. resp.status = "dropped"
    BY DroppedOnly DEF Fallback
  <2>2. CASE r.page = "download"
    <3>1. DownloadAnswer(SourceOf(w), <<r.name, r.version>>, resp)
      BY <2>2, AnswersAre
    <3> QED  BY <2>1, <3>1, DroppedOnly DEF DownloadAnswer
  <2>3. CASE r.page # "download"
    <3>1. PlainAnswer(resp)
      BY <2>3, AnswersAre
    <3> QED  BY <2>1, <3>1, DroppedOnly DEF PlainAnswer
  <2> QED  BY <2>2, <2>3
<1>2. CASE r.page = "crate"
  <2>1. resp = get_crate_data(SourceOf(w), Indexes[index], r.name, r.version)
    BY <1>2 DEF Responses
  <2>2. source[w] # NotLoaded /\ CrateKnown(r.name, r.version)
    BY <1>2 DEF UsesSource, LinkKnown
  <2>3. HasIncompleteToml(r.name) \/ Unlisted(r)
    BY <1>1, <2>1, <2>2, CrateDrops
  <2> QED  BY <1>2, <2>3 DEF Dead, UsesStats
<1>3. CASE r.page = "versions"
  <2>1. resp = get_versions_data(Indexes[index], r.name)
    BY <1>3 DEF Responses
  <2>2. VersionsKnown(r.name)
    BY <1>3 DEF LinkKnown
  <2> QED  BY <1>1, <2>1, <2>2, VersionsDrop DEF ServerInv
<1>4. CASE r.page = "reverse_dependencies"
  <2>1. resp = get_reverse_dependencies(stats, r.name)
    BY <1>4 DEF Responses
  <2>2. UsesStats(r)
    BY <1>4 DEF UsesStats
  <2>3. NoDependents(r.name)
    BY <1>1, <2>1, <2>2, DependentsDrop
  <2> QED  BY <1>4, <2>2, <2>3 DEF Dead, UsesStats
<1>5. CASE r.page = "files"
  <2>1. resp = get_crate_file_data(SourceOf(w), r.name, r.version, r.path)
    BY <1>5 DEF Responses
  <2>2. source[w] # NotLoaded /\ FileKnown(r.name, r.version, r.path)
    BY <1>5 DEF UsesSource, LinkKnown
  <2>3. Unreadable(w, r)
    BY <1>1, <2>1, <2>2, FilesDrop
  <2> QED  BY <1>5, <2>3 DEF Dead, UsesStats
<1> QED  BY <1>2, <1>3, <1>4, <1>5 DEF LinkKnown

LEMMA DeadStep ==
  ASSUME ServerInv, StatsAreOneSnapshot, LinkInv, [Next]_vars, NEW w \in Threads
  PROVE  DropIsDead(w)
<1> DEFINE r == req[w].ask
<1> SUFFICES ASSUME Asked(w), req[w].linked, req'[w] = NoRequest, shown'.status = "dropped"
             PROVE  Dead(w, r)
  BY DEF DropIsDead
<1>1. req[w] # NoRequest /\ req' # req /\ DOMAIN req = Threads
  BY DEF Asked, ServerInv, RequestsOK
<1>2. LinkKnown(r) /\ r.page \in Pages /\ index \in 1..index
  BY <1>1, ServerConstantsOK DEF LinkInv, FollowedKnown, ServerInv, RequestsOK, TypeOK
<1>3. PICK u \in Threads : Accept(u) \/ ThreadStep(u)
  BY <1>1 DEF Next, UpdateIndex, Mirror, FillStorage, vars
<1>4. ~Accept(u)
  BY DroppedOnly DEF Accept
<1>5. \A resp : Finish(u, resp) => u = w /\ shown' = resp
  BY <1>1 DEF Finish
<1>6. CASE LoadSource(u)
  <2>1. u = w /\ config = "file" /\ Lacks(w)
    BY <1>1, <1>5, <1>6 DEF LoadSource
  <2>2. UsesSource(r) /\ source[w] = NotLoaded /\ ~UsesStats(r)
    BY <2>1 DEF Lacks, UsesSource, UsesStats
  <2>3. r.page \in {"crate", "files"}
    BY <1>2, <2>2 DEF UsesSource, LinkKnown
  <2> QED  BY <2>1, <2>2, <2>3 DEF Dead, Unreadable
<1>7. CASE BeginStats(u)
  BY <1>1, <1>7 DEF BeginStats
<1>8. CASE EndStats(u)
  <2>1. StatsOf(Indexes[index]) = Panic /\ u = w /\ builder = w
    BY <1>1, <1>5, <1>8 DEF EndStats, AfterPanic
  <2>2. UsesStats(r) /\ Unusable(Indexes[index])
    BY <2>1, PanicIsUnusable DEF ServerInv, TypeOK
  <2> QED  BY <1>2, <2>2, StatsDead
<1>9. CASE StatsPoisoned(u)
  <2>1. u = w /\ UsesStats(r) /\ stats = Poisoned
    BY <1>5, <1>9 DEF StatsPoisoned
  <2> QED  BY <2>1, StatsDead DEF LinkInv, PoisonedKnown
<1>10. CASE Answer(u)
  <2>1. PICK resp \in Responses(u, req[u].ask) : Finish(u, Fallback(resp, req[u].ask))
    BY <1>10, AnswerParts
  <2>2. u = w /\ Fallback(resp, r).status = "dropped" /\ resp \in Responses(w, r)
    BY <1>5, <2>1
  <2>3. /\ UsesSource(r) => source[w] # NotLoaded
        /\ UsesStats(r) => stats \notin {NotBuilt, Building, Poisoned}
    BY <1>10, <2>2, AnswerParts
  <2> QED  BY <1>2, <2>2, <2>3, AnswerDrops
<1> QED  BY <1>3, <1>4, <1>6, <1>7, <1>8, <1>9, <1>10 DEF ThreadStep

(* Whatever changes between a page and a click on one of its links, a link *)
(* takes a thread down for one of the reasons OnlyDeadLinksDrop gives      *)
(* (registry_data.rs:340, 475, 516).                                       *)
THEOREM DeadLinks == Spec => OnlyDeadLinksDrop
<1>1. ASSUME ServerInv, StatsAreOneSnapshot, LinkInv, [Next]_vars
      PROVE  \A w \in Threads :
               (Asked(w) /\ req[w].linked /\ req'[w] = NoRequest /\ shown'.status = "dropped")
                 => Dead(w, req[w].ask)
  BY <1>1, DeadStep DEF DropIsDead
<1> QED  BY <1>1, ServerHolds, OneSnapshot, LinksHold, PTL DEF Spec, OnlyDeadLinksDrop
=============================================================================
