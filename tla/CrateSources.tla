--------------------------- MODULE CrateSources ----------------------------
(***************************************************************************)
(* crate_storage.rs and the reading half of blob_crate_storage.rs: where a *)
(* crate archive or one file of it comes from.  A source is a record:      *)
(*   [kind |-> "cache", dir |-> d]      CacheStorage, all in one directory *)
(*   [kind |-> "tree", dir |-> d]       FileTreeStorage                    *)
(*   [kind |-> "file", st |-> s]        BlobCrateStorage                   *)
(*   [kind |-> "overlay", default |-> s, fallback |-> t]                   *)
(* where d maps file paths to archives, s is a loaded storage file with    *)
(* its name_index and the set of its blobs, and an overlay is over sources *)
(* of the other kinds.  A crate is a pair of a name and a version, for     *)
(* which CrateSpec::file_name is another way to write it.  A name is a     *)
(* sequence of letters.                                                    *)
(***************************************************************************)
EXTENDS CrateRec

OwnHandles == [of : {"storage"}, meta : Meta] \cup [of : {"blob"}, content : Archive]
OverlayHandles == [of : {"overlay"}, in : {"default", "fallback"}, handle : OwnHandles]

ASSUME NoHandle == None \notin OwnHandles \cup OverlayHandles

(* Slip: names of three letters have no directory for the first of them.   *)
obtain_crate_name_path_flat(name) ==
  IF Len(name) < 4 THEN <<ToString(Len(name)), name>> ELSE <<SubSeq(name, 1, 2), SubSeq(name, 3, 4), name>>

obtain_crate_name_path(name) ==
  CASE Len(name) = 1 -> <<"1", name>>
    [] Len(name) = 2 -> <<"2", name>>
    [] Len(name) = 3 -> <<"3", SubSeq(name, 1, 1), name>>
    [] OTHER -> <<SubSeq(name, 1, 2), SubSeq(name, 3, 4), name>>

FilePath(src, s) ==
  IF src.kind = "cache" THEN <<s>> ELSE Append(obtain_crate_name_path(s[1]), s)

-----------------------------------------------------------------------------
(* Archives read as they are: the tar library joins a LongLink entry to    *)
(* the entry behind it.                                                    *)

Joined(raw) ==
  LET after[i \in 0..Len(raw)] ==
        IF i = 0 THEN [files |-> <<>>, long |-> None]
        ELSE LET s == after[i - 1]
                 e == raw[i]
             IN IF e.path = LongLink THEN [s EXCEPT !.long = e.content]
                ELSE [files |-> Append(s.files, IF s.long = None THEN e ELSE [e EXCEPT !.path = s.long]),
                      long |-> None]
  IN after[Len(raw)].files

(* The first entry with the path.                                          *)
EntryAt(files, path) ==
  LET at == {i \in DOMAIN files : files[i].path = path}
  IN IF at = {} THEN None ELSE files[CHOOSE i \in at : \A j \in at : i <= j].content

(* BlobCrateHandle; get_file_list unwraps every entry.                     *)
ArchiveFileList(a) ==
  IF a.kind \in {"nogz", "damaged"} THEN Panic
  ELSE [i \in DOMAIN Joined(a.raw) |-> Joined(a.raw)[i].path]

ArchiveFile(a, path) == IF a.kind = "nogz" THEN None ELSE EntryAt(Joined(a.raw), path)

-----------------------------------------------------------------------------
(* BlobCrateStorage.                                                       *)

get_crate_rec_meta(st, s) ==
  IF s \notin DOMAIN st.name_index \/ st.name_index[s] \notin st.blobs THEN None
  ELSE deserialize(st.name_index[s])

(* Slip: blobs that are missing are passed over.                           *)
StoredCrateAnyway(st, s) ==
  LET meta == get_crate_rec_meta(st, s)
      found == SelectSeq(meta.entry_metadata, LAMBDA e : e[2] \in st.blobs)
      ccb == [meta |-> [meta EXCEPT !.entry_metadata = SubSeq(@, 1, Len(found))],
              blobs |-> [i \in DOMAIN found |-> <<found[i][2], found[i][2]>>]]
  IN IF meta = None THEN None ELSE to_archive_file(from_meta_with_blobs(ccb))

StoredCrate(st, s) ==
  LET meta == get_crate_rec_meta(st, s)
      blobs == [i \in DOMAIN meta.entry_metadata |->
                  <<meta.entry_metadata[i][2], meta.entry_metadata[i][2]>>]
  IN IF meta = None \/ \E i \in DOMAIN meta.entry_metadata : meta.entry_metadata[i][2] \notin st.blobs
     THEN None
     ELSE to_archive_file(from_meta_with_blobs([meta |-> meta, blobs |-> blobs]))

(* StorageFileHandle::get_file: the first entry of that name decides.      *)
StoredFile(meta, st, path) ==
  LET d == EntryAt([i \in DOMAIN meta.entry_metadata |->
                      [path |-> meta.entry_metadata[i][1], content |-> meta.entry_metadata[i][2]]], path)
  IN IF d \in st.blobs THEN d ELSE None

-----------------------------------------------------------------------------
(* CrateSource, for all the variants of DynCrateSource: first those that   *)
(* are one source.                                                         *)

OwnCrate(src, s) ==
  IF src.kind = "file" THEN StoredCrate(src.st, s)
  ELSE IF FilePath(src, s) \in DOMAIN src.dir THEN src.dir[FilePath(src, s)] ELSE None

OwnHandle(src, s) ==
  LET meta == get_crate_rec_meta(src.st, s)
      content == OwnCrate(src, s)
  IN IF src.kind = "file"
     THEN IF meta = None THEN None ELSE [of |-> "storage", meta |-> meta]
     ELSE IF content = None THEN None ELSE [of |-> "blob", content |-> content]

(* The variant of handle that goes with a source; another one panics.      *)
HandleOf(src) == IF src.kind = "file" THEN "storage" ELSE "blob"

OwnFileList(h, src) ==
  IF h.of # HandleOf(src) THEN Panic
  ELSE IF h.of = "blob" THEN ArchiveFileList(h.content)
  ELSE file_list(h.meta)

OwnFile(h, src, path) ==
  IF h.of # HandleOf(src) THEN Panic
  ELSE IF h.of = "blob" THEN ArchiveFile(h.content, path)
  ELSE StoredFile(h.meta, src.st, path)

-----------------------------------------------------------------------------
(* All of them: an overlay asks its default source before the fallback.    *)

get_crate(src, s) ==
  IF src.kind # "overlay" THEN OwnCrate(src, s)
  ELSE IF OwnCrate(src.default, s) # None THEN OwnCrate(src.default, s)
  ELSE OwnCrate(src.fallback, s)

(* From the handles that the default and the fallback have.                *)
get_overlay_crate_handle_nv(d, f) ==
  IF d # None THEN [of |-> "overlay", in |-> "default", handle |-> d]
  ELSE IF f # None THEN [of |-> "overlay", in |-> "fallback", handle |-> f]
  ELSE None

get_crate_handle_nv(src, s) ==
  IF src.kind # "overlay" THEN OwnHandle(src, s)
  ELSE get_overlay_crate_handle_nv(OwnHandle(src.default, s), OwnHandle(src.fallback, s))

(* Slip: the fallback's handle is used with the default source.            *)
InDefault(h, src) == src.default

(* The source an overlay's handle came from.                               *)
In(h, src) == IF h.in = "default" THEN src.default ELSE src.fallback

get_file_list(h, src) ==
  IF src.kind # "overlay" THEN OwnFileList(h, src)
  ELSE IF h.of # "overlay" THEN Panic
  ELSE OwnFileList(h.handle, In(h, src))

get_file(h, src, path) ==
  IF src.kind # "overlay" THEN OwnFile(h, src, path)
  ELSE IF h.of # "overlay" THEN Panic
  ELSE OwnFile(h.handle, In(h, src), path)

(* What GraphOfBlobs::from_crate_source takes from a source for a crate.   *)
Digests(h, src, list) ==
  IF h = None THEN None
  ELSE [i \in DOMAIN list |-> [digest |-> get_file(h, src, list[i]), path |-> list[i]]]

digest_list(src, s) ==
  LET h == get_crate_handle_nv(src, s) IN Digests(h, src, get_file_list(h, src))

-----------------------------------------------------------------------------
(* fill_crate_storage_from_source: what the iterator yields, the versions  *)
(* of the index the source has; and what the storage holds of them when    *)
(* store_parallel_iter has done all of its work, with the blobs "lost"     *)
(* that it had not done when it returned.                                  *)

CrateIter(acj, src) ==
  LET specs == UNION {{<<acj[c].name, acj[c].versions[v].version>> : v \in DOMAIN acj[c].versions} :
                        c \in DOMAIN acj}
  IN {s \in specs : get_crate(src, s) # None}

Filled(acj, src, lost) ==
  LET yielded == {s \in CrateIter(acj, src) : get_crate(src, s).kind = "exact"}
      parts(s) == into_meta_with_blobs(from_archive_file(get_crate(src, s)))
      files(s) == {parts(s).blobs[i][1] : i \in DOMAIN parts(s).blobs}
      names == [s \in yielded |-> serialize(parts(s).meta)]
  IN [name_index |-> names,
      blobs |-> (Range(names) \cup UNION {files(s) : s \in yielded}) \ lost]
=============================================================================
