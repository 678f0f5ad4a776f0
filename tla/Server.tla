------------------------------ MODULE Server -------------------------------
(***************************************************************************)
(* cargo-local-serve: main.rs with the page data of registry_data.rs, over *)
(* Registry and CrateSources.  What is served is abstracted to its status  *)
(* and to the links on it, which a user may follow.                        *)
(*                                                                         *)
(* hyper runs the handlers on a pool of threads.  Each thread gets its     *)
(* crate source when a handler first uses it and keeps it; all of them     *)
(* share the statistics, computed by whichever thread needs them first     *)
(* while the others wait, or are poisoned by a panic on the way.  A thread *)
(* that panics is replaced by a new one (hyper) and its connection dropped.*)
(* Meanwhile cargo updates the index, the downloader adds archives, and    *)
(* create-crate-storage makes a new storage file.                          *)
(***************************************************************************)
EXTENDS Registry, TLC

CONSTANTS
  Threads,
  Sources,      \* the CrateSourceCfg to look at: of "cache", "tree" and "file"
  Indexes,      \* the states of the index, one after the other
  Archives,     \* the states of the directory: functions from crates to archives
  Lost,         \* what a storage tool may leave undone: sets of contents
  Typed,        \* requests users make on their own
  Encoded,      \* what a URL makes of the paths that it does not keep as they are
  MaxListed,    \* versions on a crate's page (5), entries of a list on the index page (10)
  Incomplete,   \* a Cargo.toml without a field that CratePackage needs
  NotLoaded,    \* the thread has no crate source yet
  NoRequest, NoFile, NotBuilt, Building, Poisoned, Junk

(* Requests: the page, and what of its path the handler looks at.          *)
Ask(page, name, version, path) == [page |-> page, name |-> name, version |-> version, path |-> path]

CratePage(n, v) == Ask("crate", n, v, None)
VersionsPage(n) == Ask("versions", n, None, None)
DependentsPage(n) == Ask("reverse_dependencies", n, None, None)
ListingPage(n, v) == Ask("files", n, v, None)
FilePage(n, v, p) == Ask("files", n, v, p)

Pages ==
  {"crate", "versions", "reverse_dependencies", "files", "index", "search", "download", "static"}

StatsOf(idx) == compute_crate_statistics(get_all_crates_json(idx))

(* The downloader adds archives it has verified and takes none away; cargo *)
(* keeps a copy of the index of crates.io.                                 *)
ASSUME ServerConstantsOK ==
  /\ None \notin Threads
  /\ Sources \subseteq {"cache", "tree", "file"}
  /\ Len(Indexes) \in Nat \ {0} /\ DOMAIN Indexes = 1..Len(Indexes)
  /\ Len(Archives) \in Nat \ {0} /\ DOMAIN Archives = 1..Len(Archives)
  /\ \A k \in DOMAIN Archives : \A s \in DOMAIN Archives[k] : Archives[k][s] \in Archive
  /\ \A j, k \in DOMAIN Archives : j <= k =>
       \A s \in DOMAIN Archives[j] : s \in DOMAIN Archives[k] /\ Archives[k][s] = Archives[j][s]
  /\ \A k \in DOMAIN Indexes : IndexOK(Indexes[k])
  /\ \A r \in Typed : r.page \in Pages
  /\ LongLink \in DOMAIN Encoded /\ \A p \in DOMAIN Encoded : Encoded[p] # p
  /\ Building \notin {NotBuilt, Poisoned} \cup {StatsOf(Indexes[k]) : k \in DOMAIN Indexes}

(* The listing writes a path as it is (file-listing.hbs:12), and a handler *)
(* looks up the path of the URL as it came (main.rs:257): a space or a     *)
(* letter that is not ASCII is percent-encoded by then, the path ends at a *)
(* "#" or "?", and the "." of "././@LongLink" is gone.                     *)
InUrl(p) == IF p \in DOMAIN Encoded THEN Encoded[p] ELSE p

-----------------------------------------------------------------------------
VARIABLES
  config,       \* the source configured, one of Sources
  index,        \* position in Indexes
  archives,     \* position in Archives
  storage,      \* the storage file: NoFile or its content
  stats,        \* CRATE_STATS: NotBuilt, Building, Poisoned or the statistics
  builder,      \* the thread that computes them, or None
  source,       \* source[w]: CRATE_SOURCE of thread w
  req,          \* req[w]: [ask, linked]: what w is asked, and whether by a link
  shown         \* the last answer: its status, links and the archive it sends

disk == <<config, index, archives, storage>>
lazy == <<stats, builder>>
vars == <<disk, lazy, source, req, shown>>

Blank == [status |-> "none", links |-> {}, body |-> None]
Page(ls) == [status |-> "page", links |-> ls, body |-> None]
ErrorPage == [status |-> "error", links |-> {}, body |-> None]
Dropped == [status |-> "dropped", links |-> {}, body |-> None]
NotFound == [status |-> "notfound", links |-> {}, body |-> None]
Download(s, a) == [status |-> "file", links |-> {}, body |-> [of |-> s, archive |-> a]]

Init ==
  /\ config \in Sources
  /\ index = 1 /\ archives = 1 /\ storage = NoFile
  /\ stats = NotBuilt /\ builder = None
  /\ source = [w \in Threads |-> NotLoaded]
  /\ req = [w \in Threads |-> NoRequest]
  /\ shown = Blank

-----------------------------------------------------------------------------
(* Page data.  src is the thread's crate source, idx the index.            *)

CargoToml(s) == <<s, "Cargo.toml">>

(* The toml must have all of the fields a CratePackage needs.              *)
get_crate_details(src, s) ==
  LET fh == get_crate_handle_nv(src, s)
      cargo_toml == get_file(fh, src, CargoToml(s))
  IN IF fh = None \/ cargo_toml = None THEN "err_msg"
     ELSE IF cargo_toml = Panic \/ cargo_toml = Incomplete THEN "panic"
     ELSE "details"

ListedVersions(json) ==
  {json[i].version : i \in {k \in DOMAIN json : k > Len(json) - MaxListed}}

(* Links to the builder's versions, dependencies and files of a crate.     *)
get_crate_data(src, idx, name, opt_version) ==
  LET json == get_crate_json(idx, name)
      version == IF opt_version = None THEN Newest(json) ELSE opt_version
      at == {i \in DOMAIN json : json[i].version = version}
      deps == {d \in json[CHOOSE i \in at : TRUE].deps : d.kind \in {"normal", "dev"}}
  IN IF json = None \/ (opt_version = None /\ json = <<>>) THEN ErrorPage
     ELSE IF opt_version = Junk \/ get_crate_details(src, <<name, version>>) = "panic" \/ at = {}
       THEN Dropped
     ELSE Page({DependentsPage(name), ListingPage(name, version)}
               \cup {CratePage(name, v) : v \in ListedVersions(json)}
               \cup {VersionsPage(name) : i \in {k \in DOMAIN json : Len(json) > MaxListed}}
               \cup {CratePage(d.name, None) : d \in deps})

get_versions_data(idx, name) ==
  LET json == get_crate_json(idx, name)
  IN IF json = None THEN Dropped
     ELSE Page({CratePage(name, json[i].version) : i \in DOMAIN json})

get_reverse_dependencies(st, name) ==
  IF name \notin st.names \/ name \notin DOMAIN st.reverse_dependencies THEN Dropped
  ELSE Page({CratePage(d[2], d[3]) : d \in st.reverse_dependencies[name]})

(* One of the index pages there can be: ties are broken by hash order.     *)
get_index_data(st) ==
  {Page({CratePage(n, None) : n \in D \cup V}) :
     D \in LastOf(st.most_directly_depended_on, MaxListed), V \in LastOf(st.most_versions, MaxListed)}

(* A single result is redirected to; without a term the handler panics.    *)
get_search_result_data(st, term) ==
  IF term = None THEN Dropped
  ELSE Page({CratePage(n, None) : n \in {m \in st.names : term \in SubSeqs(m)}})

(* Slip: the path keeps the slash it is folded with.                       *)
WithSlash(path) == <<"/", path>>

Stripped(path) == path

get_crate_file_data(src, name, version, path) ==
  LET fh == get_crate_handle_nv(src, <<name, version>>)
      list == get_file_list(fh, src)
      content == get_file(fh, src, Stripped(path))
  IN IF version = Junk \/ fh = None THEN Dropped
     ELSE IF path = None
     THEN IF list = Panic THEN Dropped
          ELSE Page({CratePage(name, version)}
                    \cup {FilePage(name, version, InUrl(list[i])) : i \in DOMAIN list})
     ELSE IF content \in {None, Panic} THEN Dropped
     ELSE Page({ListingPage(name, version)})

(* api_crate: whatever the source holds is taken apart and rebuilt.        *)
api_crate(src, s) ==
  LET krate == get_crate(src, s)
      ccb == from_archive_file(krate)
  IN IF s[2] = Junk THEN Dropped
     ELSE IF krate = None THEN NotFound
     ELSE IF ccb \in {None, Panic} THEN Dropped
     ELSE Download(s, to_archive_file(ccb))

-----------------------------------------------------------------------------
(* Threads.                                                                *)

UsesSource(r) == r.page \in {"crate", "files", "download"}
UsesStats(r) == r.page \in {"index", "search", "reverse_dependencies"}

Dir(kind) ==
  LET a == Archives[archives]
      at(s) == FilePath([kind |-> kind], s)
  IN [p \in {at(s) : s \in DOMAIN a} |-> a[CHOOSE s \in DOMAIN a : at(s) = p]]

(* Directories are looked into at each request, a storage file is read     *)
(* when the thread loads it.                                               *)
SourceOf(w) ==
  IF config = "file" THEN source[w] ELSE [kind |-> config, dir |-> Dir(config)]

(* The possible answers of thread w.                                       *)
Responses(w, r) ==
  CASE r.page = "crate" -> {get_crate_data(SourceOf(w), Indexes[index], r.name, r.version)}
    [] r.page = "versions" -> {get_versions_data(Indexes[index], r.name)}
    [] r.page = "reverse_dependencies" -> {get_reverse_dependencies(stats, r.name)}
    [] r.page = "index" -> get_index_data(stats)
    [] r.page = "search" -> {get_search_result_data(stats, r.name)}
    [] r.page = "files" -> {get_crate_file_data(SourceOf(w), r.name, r.version, r.path)}
    [] r.page = "download" -> {api_crate(SourceOf(w), <<r.name, r.version>>)}
    [] r.page = "static" -> {NotFound}

(* FallbackHandler: an Err with a status becomes an error page.            *)
Fallback(resp, r) == IF resp = NotFound /\ r.page = "static" THEN ErrorPage ELSE resp

(* The answer is sent; if it is the end of the thread, its source goes.    *)
Finish(w, resp) ==
  /\ req' = [req EXCEPT ![w] = NoRequest]
  /\ shown' = resp
  /\ source' = [source EXCEPT ![w] = IF resp = Dropped THEN NotLoaded ELSE @]

(* A user asks for a page or follows a link, and leaves the page shown.    *)
Accept(w) ==
  \E r \in Typed \cup shown.links :
    /\ req[w] = NoRequest
    /\ req' = [req EXCEPT ![w] = [ask |-> r, linked |-> r \in shown.links]]
    /\ shown' = Blank
    /\ UNCHANGED <<disk, lazy, source>>

Asked(w) == req[w] # NoRequest
Lacks(w) == UsesSource(req[w].ask) /\ source[w] = NotLoaded

(* CRATE_SOURCE's initialiser, which cannot open a file that is not there. *)
LoadSource(w) ==
  /\ Asked(w) /\ Lacks(w)
  /\ IF config = "file" /\ storage = NoFile
     THEN Finish(w, Dropped)
     ELSE /\ source' = [source EXCEPT ![w] = IF config = "file" THEN [kind |-> "file", st |-> storage]
                                             ELSE [kind |-> config]]
          /\ UNCHANGED <<req, shown>>
  /\ UNCHANGED <<disk, lazy>>

BeginStats(w) ==
  /\ Asked(w) /\ UsesStats(req[w].ask) /\ stats = NotBuilt
  /\ stats' = Building
  /\ builder' = w
  /\ UNCHANGED <<disk, source, req, shown>>

(* Slips: after a panic the Once is neither done nor poisoned, or starts   *)
(* anew.                                                                   *)
AfterPanicUnpoisoned(w) == UNCHANGED stats /\ Finish(w, Dropped)
AfterPanicAnew(w) == stats' = NotBuilt /\ UNCHANGED <<source, req, shown>>

AfterPanic(w) == stats' = Poisoned /\ Finish(w, Dropped)

EndStats(w) ==
  LET new == StatsOf(Indexes[index]) IN
  /\ builder = w
  /\ builder' = None
  /\ IF new = Panic THEN AfterPanic(w) ELSE stats' = new /\ UNCHANGED <<source, req, shown>>
  /\ UNCHANGED disk

StatsPoisoned(w) ==
  /\ Asked(w) /\ UsesStats(req[w].ask) /\ stats = Poisoned
  /\ Finish(w, Dropped)
  /\ UNCHANGED <<disk, lazy>>

Ready(w) ==
  Asked(w) /\ ~Lacks(w) /\ (UsesStats(req[w].ask) => stats \notin {NotBuilt, Building, Poisoned})

Answer(w) ==
  /\ Ready(w)
  /\ \E resp \in Responses(w, req[w].ask) : Finish(w, Fallback(resp, req[w].ask))
  /\ UNCHANGED <<disk, lazy>>

ThreadStep(w) == LoadSource(w) \/ BeginStats(w) \/ EndStats(w) \/ StatsPoisoned(w) \/ Answer(w)

-----------------------------------------------------------------------------
(* The other programs.                                                     *)

UpdateIndex ==
  /\ index < Len(Indexes)
  /\ index' = index + 1
  /\ UNCHANGED <<config, archives, storage, lazy, source, req, shown>>

Mirror ==
  /\ archives < Len(Archives)
  /\ archives' = archives + 1
  /\ UNCHANGED <<config, index, storage, lazy, source, req, shown>>

(* create-crate-storage from the directory tree into a new file, with an   *)
(* index it can read; "lost" is what its loop left undone.                 *)
FillStorage ==
  \E lost \in Lost :
    /\ config = "file"
    /\ get_all_crates_json(Indexes[index]) # None
    /\ storage' = Filled(get_all_crates_json(Indexes[index]), [kind |-> "tree", dir |-> Dir("tree")], lost)
    /\ storage' # storage
    /\ UNCHANGED <<config, index, archives, lazy, source, req, shown>>

Next ==
  \/ UpdateIndex \/ Mirror \/ FillStorage
  \/ \E w \in Threads : Accept(w) \/ ThreadStep(w)

Spec == Init /\ [][Next]_vars

(* The operating system runs each thread that is not blocked.  Of the steps *)
(* of Next, those of EndStats(w) are the ones of Built(w), and of the steps *)
(* of the threads that are ready those of Answer(w) the ones of Replied(w). *)
Built(w) == builder = w /\ builder' = None
Replied(w) == Ready(w) /\ req' = [req EXCEPT ![w] = NoRequest]

FairSpec ==
  Spec /\ \A w \in Threads : /\ WF_vars(LoadSource(w) \/ BeginStats(w) \/ StatsPoisoned(w))
                             /\ WF_builder(Built(w))
                             /\ WF_req(Replied(w))

-----------------------------------------------------------------------------
(* Properties.                                                             *)

(* Each variable has its type, and the statistics are being built exactly  *)
(* while a thread builds them (the Once of main.rs:132).                   *)
TypeOK ==
  /\ config \in Sources /\ index \in DOMAIN Indexes /\ archives \in DOMAIN Archives
  /\ builder \in Threads \cup {None} /\ (stats = Building <=> builder # None)
  /\ \A w \in Threads : source[w] = NotLoaded \/ source[w].kind = config
  /\ \A w \in Threads : builder = w => req[w] # NoRequest /\ UsesStats(req[w].ask)
  /\ storage = NoFile \/ DOMAIN storage.name_index \subseteq DOMAIN Archives[archives]

(* States of the index that statistics cannot be computed from.            *)
Unusable(idx) ==
  idx = NoRepo \/ \E i \in DOMAIN idx : IsCrate(idx[i]) /\ idx[i].lines \in {BadJson, <<>>}

Versions(idx) ==
  UNION {Range(idx[i].lines) : i \in {k \in DOMAIN idx : IsCrate(idx[k]) /\ idx[k].lines # BadJson}}

NamesIn(idx) == {v.name : v \in Versions(idx)}

(* What the fields of CrateStats are said to be (statistics.rs:8-21), of   *)
(* one state of the index.                                                 *)
Reference(idx) ==
  LET deps == UNION {v.deps : v \in Versions(idx)}
      of(n) == {v \in Versions(idx) : v.name = n}
      top(n) == CHOOSE v \in of(n) : \A u \in of(n) : u.version <= v.version
      on(n) == {m \in NamesIn(idx) : \E d \in top(m).deps : d.name = n}
      pairs == {p \in Versions(idx) \X deps : p[2] \in p[1].deps}
      users == {d.name : d \in UNION {top(m).deps : m \in NamesIn(idx)}}
  IN [names |-> NamesIn(idx) \cup {d.name : d \in deps},
      reverse_dependencies |->
        [n \in {d.name : d \in deps} |->
           {<<p[2].req, p[1].name, p[1].version>> : p \in {q \in pairs : q[2].name = n}}],
      latest_crate_versions |-> [n \in NamesIn(idx) |-> top(n).version],
      most_directly_depended_on |-> [n \in users |-> Cardinality(on(n))],
      most_versions |-> [n \in NamesIn(idx) |-> Cardinality(of(n))]]

(* All requests see the statistics of one state the index was in, whatever *)
(* the threads and cargo did meanwhile, with every count, latest version   *)
(* and dependent as documented: versions need not be published in order    *)
(* and are counted for their latest only.                                  *)
StatsAreOneSnapshot ==
  stats \in {NotBuilt, Building, Poisoned}
    \/ \E k \in 1..index : ~Unusable(Indexes[k]) /\ stats = Reference(Indexes[k])

(* The storage has all of an archive.                                      *)
Whole(st, s) ==
  /\ s \in DOMAIN st.name_index
  /\ st.name_index[s] \in st.blobs
  /\ \A e \in Range(Archives[archives][s].raw) : e.content \in st.blobs

Plain(a) == ~\E e \in Range(a.raw) : e.path = LongLink

NoPathTwice(a) == \A i, j \in DOMAIN a.raw : a.raw[i].path = a.raw[j].path => i = j

(* A crate that is whole in the storage file reads the same from there as  *)
(* from the archive: the file of api_crate, and for archives without long  *)
(* paths the list of files, each of them, and, if no path is there twice,  *)
(* the blobs of the graph (crate_storage.rs:54-66 is one interface to all  *)
(* of them).                                                               *)
SourcesAgree ==
  storage # NoFile =>
    LET file == [kind |-> "file", st |-> storage]
        tree == [kind |-> "tree", dir |-> Dir("tree")]
    IN \A s \in {t \in DOMAIN Archives[archives] : Whole(storage, t)} :
         LET f == get_crate_handle_nv(file, s)
             t == get_crate_handle_nv(tree, s)
             a == Archives[archives][s]
         IN /\ get_crate(file, s) = get_crate(tree, s)
            /\ f # None
            /\ Plain(a) =>
                 /\ get_file_list(f, file) = get_file_list(t, tree)
                 /\ NoPathTwice(a) => file_digest_list(f.meta) = digest_list(tree, s)
                 /\ \A e \in Range(a.raw) : get_file(f, file, e.path) = get_file(t, tree, e.path)

(* An overlay of the storage file over the directory answers for a crate   *)
(* as the file does when it has all of it, and as the directory does when  *)
(* it has nothing of it: a handle is used with the source it came from     *)
(* (crate_storage.rs:271-293).                                             *)
OverlayIsOneOfThem ==
  storage # NoFile =>
    LET file == [kind |-> "file", st |-> storage]
        tree == [kind |-> "tree", dir |-> Dir("tree")]
        both == [kind |-> "overlay", default |-> file, fallback |-> tree]
        same(src, s) ==
          LET o == get_crate_handle_nv(both, s)
              h == get_crate_handle_nv(src, s)
          IN /\ get_crate(both, s) = get_crate(src, s)
             /\ o # None
             /\ get_file_list(o, both) = get_file_list(h, src)
             /\ \A e \in Range(Archives[archives][s].raw) :
                  get_file(o, both, e.path) = get_file(h, src, e.path)
    IN \A s \in DOMAIN Archives[archives] :
         /\ Whole(storage, s) => same(file, s)
         /\ s \notin DOMAIN storage.name_index => same(tree, s)

(* What the checksum in the index is of: the mirrored archive, which the   *)
(* downloader has verified.                                                *)
Released(s) == Archives[Len(Archives)][s]

(* A download is all of the files of the release asked for, in their       *)
(* order, whatever the storage tool left undone (blob_crate_storage.rs:283,*)
(* main.rs:293).                                                           *)
DownloadIsWhole ==
  shown.status = "file" =>
    LET a == Released(shown.body.of)
        sent == shown.body.archive
    IN sent.raw = a.raw /\ sent.name = a.name /\ sent.os = a.os

(* Cargo checks what it downloads against the checksum of the index: what  *)
(* is served should be the release to the byte (reconstruction.rs:5-7).    *)
DownloadMatchesChecksum ==
  shown.status = "file" => shown.body.archive = Released(shown.body.of)

(* Whom a link can lead astray: see OnlyDeadLinksDrop.                     *)
NoDependents(name) ==
  \E k \in 1..index : ~\E v \in Versions(Indexes[k]), d \in UNION {u.deps : u \in Versions(Indexes[k])} :
                         d \in v.deps /\ d.name = name

(* The paths of an archive as the configured source lists them.            *)
FilesOf(a) == IF config = "file" THEN a.raw ELSE Joined(a.raw)

ListedPaths(a) == {FilesOf(a)[i].path : i \in DOMAIN FilesOf(a)}

(* The link to a listed path asks for one that is not there.               *)
NotKept(a, p) == p \notin ListedPaths(a) /\ \E q \in ListedPaths(a) \cap DOMAIN Encoded : p = Encoded[q]

Unreadable(w, r) ==
  LET s == <<r.name, r.version>>
      st == source[w].st
  IN \/ s \in DOMAIN Archives[archives] /\ NotKept(Archives[archives][s], r.path)
     \/ IF config # "file"
        THEN s \notin DOMAIN Archives[archives] \/ Archives[archives][s].kind \in {"nogz", "damaged"}
        ELSE source[w] = NotLoaded \/ s \notin DOMAIN st.name_index \/ ~Whole(st, s)

HasIncompleteToml(n) ==
  \E s \in DOMAIN Archives[archives] :
    /\ s[1] = n
    /\ \E e \in Range(Archives[archives][s].raw) \cup Range(Joined(Archives[archives][s].raw)) :
         e.path = CargoToml(s) /\ e.content = Incomplete

Unlisted(r) ==
  /\ <<r.name, r.version>> \in DOMAIN Archives[archives]
  /\ ~\E v \in Versions(Indexes[index]) : v.name = r.name /\ v.version = r.version

Dead(w, r) ==
  CASE UsesStats(r) -> \/ \E k \in 1..index : Unusable(Indexes[k])
                       \/ r.page = "reverse_dependencies" /\ NoDependents(r.name)
    [] r.page = "files" -> Unreadable(w, r)
    [] r.page = "crate" -> \/ HasIncompleteToml(r.name) \/ Unlisted(r)
                           \/ config = "file" /\ source[w] = NotLoaded
    [] OTHER -> FALSE

(* What is in the index stays in it.                                       *)
IndexGrows ==
  \A j, k \in DOMAIN Indexes : j <= k /\ Indexes[j] # NoRepo =>
    /\ Indexes[k] # NoRepo
    /\ \A f \in Range(Indexes[j]) : f.lines # BadJson =>
         \E g \in Range(Indexes[k]) :
           g.path = f.path /\ g.lines # BadJson /\ Range(f.lines) \subseteq Range(g.lines)

(* Nothing that is written in one way is anything else, and a long path is *)
(* not LongLink's.                                                         *)
ASSUME LinkConstantsOK ==
  /\ IndexGrows
  /\ Junk \notin Nat \cup {None} /\ LongLink \notin Contents
  /\ \A x \in {None, Panic} : x \notin Contents /\ x \notin Seq(EntryPaths \cup Contents)
  /\ NotBuilt # Poisoned
  /\ None \notin Seq([name : Seq(STRING), versions : Seq(CrateIndexJson)])
  /\ \A k \in DOMAIN Indexes : ~Unusable(Indexes[k]) => Reference(Indexes[k]) \notin {Panic, Poisoned}

(* A link that the server itself wrote on a page takes down the thread     *)
(* that follows it in these cases only: the crate is not mirrored, damaged *)
(* or not whole in the storage file, the link is to a file whose path a    *)
(* URL does not keep and the archive has no file at what it makes of it,   *)
(* nobody depends on the crate, the index was not usable when the          *)
(* statistics were computed, its Cargo.toml lacks a field, or the version  *)
(* is mirrored but not in the index; whatever changed between the page and *)
(* the click (registry_data.rs:340, 475, 516).                             *)
OnlyDeadLinksDrop ==
  [][\A w \in Threads :
       (Asked(w) /\ req[w].linked /\ req'[w] = NoRequest /\ shown'.status = "dropped")
         => Dead(w, req[w].ask)]_vars

(* A link leads to the error page only if the crate is not in the index,   *)
(* or is there under another spelling: the paths of the index are lower    *)
(* case, the names on the pages are not (registry.rs:194-196).             *)
ErrorLinksAreForeign ==
  [][\A w \in Threads :
       (Asked(w) /\ req[w].linked /\ req'[w] = NoRequest /\ shown'.status = "error")
         => LET n == req[w].ask.name IN n # Lower[n] \/ Indexes[index] = NoRepo
                                          \/ n \notin NamesIn(Indexes[index])]_vars

(* Every request is answered or dropped: a thread waits for the statistics *)
(* at most until the one that builds them is done or has panicked.         *)
EveryRequestEnds == \A w \in Threads : Asked(w) ~> ~Asked(w)
=============================================================================
