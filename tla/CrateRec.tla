----------------------------- MODULE CrateRec ------------------------------
(***************************************************************************)
(* reconstruction.rs: a crate archive taken apart into its files and the   *)
(* metadata from which the archive is rebuilt, and the metadata's          *)
(* serialized form.                                                        *)
(*                                                                         *)
(* An archive is a record of the file name and operating system in its gz  *)
(* header, of its raw tar entries and of a kind that says what else there  *)
(* is to its bytes:                                                        *)
(*   "exact"    they are those that rebuilding it yields                   *)
(*   "differs"  they are not: another compressor, level or time stamp      *)
(*   "damaged"  reading fails behind the entries listed                    *)
(*   "nogz"     there is no gz header                                      *)
(* The digest of a content is the content, a tar header its path.          *)
(***************************************************************************)
EXTENDS Stream

CONSTANTS
  None,       \* Option's None, and every Err a caller turns into it
  Panic,      \* the handler panics
  MaxU64,     \* u64::MAX
  LongLink,   \* "././@LongLink": an entry whose content is the next one's path
  EntryPaths, Contents

Entry == [path : EntryPaths, content : Contents]
OptionalName == Seq(STRING) \cup {None}
Archive ==
  [kind : {"exact", "differs", "damaged", "nogz"}, name : OptionalName, os : STRING, raw : Seq(Entry)]
Meta == [name : OptionalName, os : STRING, entry_metadata : Seq(EntryPaths \X Contents)]

ASSUME RecConstantsOK ==
  /\ None \notin Archive \cup Meta
  /\ MaxU64 \notin Nat

from_archive_file(a) ==
  CASE a.kind = "nogz" -> Panic
    [] a.kind = "damaged" -> None
    [] OTHER -> [name |-> a.name, os |-> a.os, entries |-> a.raw]

to_archive_file(ccb) ==
  [kind |-> "exact", name |-> ccb.name, os |-> ccb.os, raw |-> ccb.entries]

into_meta_with_blobs(ccb) ==
  [meta |-> [name |-> ccb.name, os |-> ccb.os,
             entry_metadata |-> [i \in DOMAIN ccb.entries |->
                                   <<ccb.entries[i].path, ccb.entries[i].content>>]],
   blobs |-> [i \in DOMAIN ccb.entries |-> <<ccb.entries[i].content, ccb.entries[i].content>>]]

from_meta_with_blobs(m) ==
  [name |-> m.meta.name, os |-> m.meta.os,
   entries |-> [i \in DOMAIN m.meta.entry_metadata |->
                  [path |-> m.meta.entry_metadata[i][1], content |-> m.blobs[i][2]]]]

(* Slip: a missing name is written as an empty one.                        *)
NameFieldEmpty(name) == IF name = None THEN u64(0) ELSE delim(name)

NameField(name) == IF name = None THEN u64(MaxU64) ELSE delim(name)

serialize(meta) ==
  LET n == Len(meta.entry_metadata)
      entry(i) == meta.entry_metadata[(i + 1) \div 2]
  IN NameField(meta.name) \o u8(meta.os) \o u64(n)
     \o [i \in 1 .. 2 * n |-> IF i % 2 = 1 THEN <<"header", entry(i)[1]>> ELSE <<"digest", entry(i)[2]>>]

(* Each read by its position: the length and bytes of the name, the        *)
(* operating system, the number of entries, and two tokens for each.       *)
deserialize(in) ==
  LET name == IF in[1][2] = MaxU64 THEN 0 ELSE in[1][2]
      count == in[name + 3][2]
      hdr(i) == in[name + 2 + 2 * i]
      dig(i) == in[name + 3 + 2 * i]
  IN IF \/ in = <<>> \/ in[1][1] # "u64"
        \/ Len(in) < name + 3 \/ \E i \in 1..name : in[i + 1][1] # "byte"
        \/ in[name + 2][1] # "u8" \/ in[name + 3][1] # "u64"
        \/ Len(in) < name + 3 + 2 * count
        \/ \E i \in 1..count : hdr(i)[1] # "header" \/ dig(i)[1] # "digest"
     THEN None
     ELSE [name |-> IF in[1][2] = MaxU64 THEN None ELSE [i \in 1..name |-> in[i + 1][2]],
           os |-> in[name + 2][2],
           entry_metadata |-> [i \in 1..count |-> <<hdr(i)[2], dig(i)[2]>>]]

(* The listed paths are those of the headers, LongLink's among them.       *)
file_list(meta) == [i \in DOMAIN meta.entry_metadata |-> meta.entry_metadata[i][1]]

file_digest_list(meta) ==
  [i \in DOMAIN meta.entry_metadata |->
     [digest |-> meta.entry_metadata[i][2], path |-> meta.entry_metadata[i][1]]]
=============================================================================
