# Verification of cargo-local-serve

cargo-local-serve serves crates.io offline: a web server over a directory of
`.crate` files or over one *storage file* in which all crates are split into
deduplicated, compressed blobs. This directory holds TLA+ models of the
program, TLC configurations that check them and TLAPS proofs about them. Paths
below are relative to `src/`.

## 1. Inventory

| Component | Source | State | Operations | Hard behaviour |
|---|---|---|---|---|
| Parallel store loop | `all-crate-storage/blob_crate_storage.rs` 174-234, 296-442 | backlog, two bounded channels, `blobs_to_store`, storage | unpack (worker), compress (worker), take over a crate, store a blob (main) | threads, polling with a timeout, refusals of `try_send`, worker panics, shutdown |
| Blob storage file | `all-crate-storage/blob_storage.rs` | file, `blob_offsets`, `name_index`, `index_offset` | `new`/`load`, `insert`, `get`, `write_header_and_index` | a process stops between two writes; another loads or reads during a session |
| Archive reconstruction | `all-crate-storage/reconstruction.rs` | none | split an archive, rebuild it, (de)serialize its metadata | panics inside a worker |
| Reading crates from blobs | `blob_crate_storage.rs` 55-70, 236-294 | storage | `get_crate`, handles | metadata present, blobs missing |
| Multi blob store loop | `blob_crate_storage.rs` 72-172, 336-385, 430-440, `bin/create-mb-crate-storage.rs` | as the store loop, `digest_to_multi_blob` | `CreateMultiBlob`, `StoreMultiBlob` | the same loop, lists of digests from a graph |
| Multi blobs and diffs | `multi_blob.rs`, `diff.rs` | none | `get_blob`, `from_texts`, `reconstruct_new` | direction of edges, order of diffs, last piece |
| Graph of blobs | `multi_blob_crate_storage.rs` | graph, roots | `from_func`, `get_digest_lists` | roots and reachability, versions of a digest |
| Crate sources and handles | `crate_storage.rs` | file tree, cache, overlay | `get_crate`, `get_crate_handle`, `get_file`, `fill_crate_storage_from_source` | variants of handle and source must fit |
| Registry index | `registry/registry.rs` | git tree (read only) | `get_crate_json`, `get_all_crates_json` | casing and length of names |
| Statistics | `registry/statistics.rs` | none | `compute_crate_statistics` | latest version against past ones |
| Downloader | `bin/download-all-crates.rs` | directory of crates | verify, delete, download | crash and restart, partial files |
| Grep, analysis and diff tools | `all-crate-grep/main.rs`, `bin/analyze-all-crates.rs`, `bin/diff-all-crates.rs` | counter per thread, bounded channel | partition, report | each version by exactly one thread, end of all threads |
| Web server | `cargo-local-serve/main.rs`, `registry_data.rs` | lazy statics, a crate source per thread | handlers | first request, loading during a rewrite, panics |
| Rendering | `markdown_render.rs`, `code_format.rs`, `escape.rs`, `syntect_format.rs` | none | text to HTML | none kept between calls |

How they interact. A tool (`bin/create-crate-storage.rs`) opens the storage
file, lets `fill_crate_storage_from_source` pull crates from another source
through an iterator, and calls `store`, which is `write_header_and_index`. The
iterator is consumed by `store_parallel_iter`, which runs the store loop; only
its main thread touches the blob storage. Afterwards, or at the same time, the
threads of the web server open the same file, each with a `BlobStorage` of its
own. The downloader fills the directory that the tools read.

What makes each correct:

* store loop: no blob lost or stored twice; a crate in the name index is
  complete when the loop ends; bounded memory; all threads end;
* file: a blob of a stored index stays readable; a load sees one stored index, as
  long as no table is written to while it is read; a file whose index is intact
  holds what was stored last;
* multi blobs: `get_blob` returns the text that was put in; every digest is
  reached from a root;
* sources: all variants return the same bytes and the same files of a crate;
* downloader: what is on disk after a complete run matches the checksums,
  wherever earlier runs stopped;
* tools: each version is looked at by exactly one thread.

`PROJECT.json` lists the places where these can go wrong (`hazards`).

## 2. Modules

| Module | Content |
|---|---|
| `ParallelStore` | the store loop with its workers, as a state machine |
| `MCParallelStore` | four crate files for TLC |
| `ParallelStoreProofs` | theorems about `ParallelStore`: types, where the blobs are, where the crates are |
| `SnapshotStore` | abstract specification: what a storage file promises from one process to the next |
| `BlobFile` | the storage file, a writing process and loading threads; implements `SnapshotStore` |
| `MCBlobFile` | lengths for TLC |
| `BlobFileProofs` | theorems about `BlobFile`: types, which blobs stay readable, what loads, and that it implements `SnapshotStore` |
| `CrateMirror` | the directory of crates, the downloader and the threads of a tool |
| `CrateMirrorProofs` | theorems about `CrateMirror` |
| `BlobGraph` | the graph of blobs and the lists made from it, with every order the hash maps can have |
| `MultiBlobStore` | `create-mb-crate-storage`: the graph, then the store loop for lists of blobs; extends `BlobGraph` |
| `MCMultiBlobStore` | two crates for TLC |
| `BlobGraphProofs` | what holds of the graph and the lists in every state of `BlobGraph` |
| `MultiBlobStoreProofs` | theorems about `MultiBlobStore`: the graph, types, where the blobs are, the entries of multi blobs |
| `Stream` | tokens, in place of the bytes that serializers write |
| `TextDiff` | diffs of two texts: making, writing, reading and applying them |
| `MultiBlob` | the text part of `CreateMultiBlob`, and a multi blob written, read and looked into |
| `MultiBlobProofs` | theorems about `MultiBlob`, and lemmas about each operator of `TextDiff` |
| `CrateRec` | archives taken apart and rebuilt, and their metadata |
| `CrateSources` | the cache, the directory tree, the storage file and the overlay behind one interface |
| `Registry` | the index of crates.io and the statistics |
| `Server` | the web server over all of these, beside cargo, the downloader and the storage tool |
| `MCServer` | an index, archives and requests for TLC |
| `ServerProofs` | theorems about `Server`: types, sources, downloads, statistics, error links and dead links |
| `Recursion` | lemmas the proofs share: induction over a set of numbers, functions defined by recursion |

`Stream`, `TextDiff`, `CrateRec`, `CrateSources` and `Registry` are algorithms
and have no state; `MultiBlob` and `Server` are state machines built from them.
Recursion is written as functions everywhere, so that all modules can be proved about.

Operators whose comment begins with *Slip* are not part of a specification.
Each is a definition with a plausible mistake in it; putting it in the place of
the definition that follows must break a property (`mutants`).

### ParallelStore

| TLA+ | Code |
|---|---|
| `source` | `crate_iter` |
| `backlog` | `par_task_backlog`; `pop` and `push` at its end |
| `ptq`, `btq` | `mpmc_queue` and `sync_channel`, each of capacity `3 * thread_count` |
| `held[w]` | what worker `w` is computing or blocked on sending |
| `pc`, `cur`, `pos` | where the main thread is: in `recv_timeout`, in the loop over a crate's entries, before the refill, in the push loop, out |
| `blobs`, `name_index` | `BlobStorage::blob_offsets` (its keys), `name_index` |

Each receive, each turn of the loop over entries, the refill, each successful
`try_send`, the end of a round and the return is one action of the main thread;
taking a task, panicking, sending and ending are actions of a worker. Only the
main thread touches the storage, so nothing else can interleave within these
steps.

Abstractions: a crate file is a kind (can be rebuilt exactly, differs, damaged,
not gzip) with the digests of its parts; hashing is injective. A worker's
computation is part of taking the task and is seen when it sends.
`RecvTimeout` may happen whenever `btq` is empty: the model has no clock, and
any worker can be slower than 50 microseconds. A crate name is bound to one
archive, as on crates.io.

### BlobFile and SnapshotStore

The file is a header and a set of *intact extents*: blobs and the three tables
of the index, each with its offset and its length. Lengths are those of the
code: 8 bytes before each blob, 40 for an entry of the offset table, and so on,
so that new blobs overwrite an old index piece by piece. Every write takes two
steps: first the extents it overlaps stop being intact, then its own extent is
there. `Stop` may come at any point. An error of a write is a stop, because all
callers unwrap it. Writes reach the file in the order of the process, as `File`
without a buffer does; the order in which a disk forgets them after a power
failure is not modelled.

Tables are written and read entry by entry, in the order of a `HashMap`, which is
another one in every process. A read of a table takes two steps as well, its first
entry and its last, and what it yields is certain only if the table was intact from
the one to the other. Any other read is *torn*: what lies there are parts of blobs
or of several tables, and not even the right length protects it. A session that
stores without a new blob writes tables of the same length to the same place; a
load meanwhile, or after a stop half way, can succeed with entries missing or with
one digest and the offset of another. Nothing in the code prevents that and nothing
is promised of it:

* a reader whose load was torn goes to `torn`, of which the properties say nothing
  (it failed, or has a storage with any content);
* a process that opens a file with a torn index (`OpenTorn`) may be refused, or go on
  from *any* names and any offsets in `Garbage`, and from then on `sound` is false.
  It inserts and stores like any other, at `header_index`.

What holds nevertheless is the subject of the properties, and `SnapshotReadable` is
not restricted to `sound`: since even such a session writes behind the blobs that
were stored, whoever has loaded them can go on reading.

One process writes at a time: nothing in the code enforces it, the tools are
used that way. `digest_to_multi_blob` is empty in every file that is stored
(the tool that fills it never calls `store`).

`SnapshotStore` says: the file is empty, good (its index is intact, and exactly what
was stored last) or broken; a session may break it with any write and makes it good
by storing; it adds to what was stored before and takes nothing away. A file that
is broken when its session ends stays so, and once a process has opened a broken file
nothing is promised (`Anything`). Between the tables of a store the file can be good
for a moment with the old content, when the new offset table is the same as the old
one. So the deliberate price of writing in place is visible: a session that stops
halfway costs everything stored before.

### CrateMirror

| TLA+ | Code |
|---|---|
| `files` | `crate-archives/`, each file as its checksum and its writer see it |
| `dpc`, `dpos` | the place in the downloader's loop (`ctr`) |
| `tool` | which of `analyze-all-crates`, `diff-all-crates` and `all-crate-grep` runs |
| `ctr`, `tpc`, `out` | the counter of a thread, what it does with the version, the message it is blocked on |
| `channel`, `threads_running`, `main` | `sync_channel(10)`, the count of `Done` messages, the receiving loop |
| `reports` | history: messages about a version that have been received |

The downloader's open and comparison, its `remove_file`, request,
`File::create` and copy are steps of their own, and it may stop before each. The
three tools differ in three places: grep does not verify, analyze opens what it
has verified again and says when a thread is done, and its main thread counts
these messages while the others wait for the last sender to go.
Two downloaders at once and errors of `File::open` other than a missing file
(the code takes them for one) are not modelled.

### BlobGraph and MultiBlobStore

| TLA+ | Code |
|---|---|
| `krate`, `paths` | the loop over `acj`, and what is left of `path_to_digests` |
| `nodes`, `edges`, `roots` | the petgraph graph, whose nodes are named by their digests, and `roots` |
| `walked`, `to_walk`, `visited`, `mblob_digests`, `res` | the variables of `get_digest_lists` |
| `digests_iter`, `backlog`, `ptq`, `btq`, `held`, `pc` | as in `ParallelStore` |
| `blobs`, `digest_to_multi_blob` | the destination's `blob_offsets` (its keys) and `digest_to_multi_blob` |

Both functions of the graph are sequential, but their results depend on the
order of hash maps and sets and on a sort whose keys can be equal; `Sorted`,
`AddEdges` and `NextRoot` choose among all of these orders. Neighbours come in
the order petgraph yields them, the last edge first.

A task `CreateMultiBlob` is the list of digests for which the source has a
blob. Its results are the blobs that are not UTF-8 (one task `StoreBlob` each)
and then one multi blob; a multi blob of the texts `s` is `<<"mb", s>>`.
Which blobs are UTF-8 *as they are stored* is a parameter. In the program as it
is none of them are: `blob_crate_storage.rs:143` passes on what is in the file,
which is gzip data and starts with the bytes 1f 8b, so only `StoreBlob` occurs,
with blobs that are compressed a second time. The model keeps the other case,
for which the code is written.

The tool never calls `store` (`bin/create-mb-crate-storage.rs:37`), so the model
has no step in which the destination gets an index.

### Stream, TextDiff, MultiBlob

A serialized value is a sequence of tokens, each with the type it was written
as; reading it as another type fails. This keeps the order, number and
position of all fields and leaves out big endian and the like.

The crate `difference` is modelled from what it does: `Changesets` are the ways
to split two texts at the separator and to align their lines along a longest
common subsequence, with neighbouring lines of the same kind joined to one
piece. Any longest one is allowed. `Merge` is the loop of `Changeset::new`: it has taken
some lines of the old text, of the new one and of the common ones, and each turn takes
the lines that go on alike in all three (`Alike`), then those before the next common line in the
old text and in the new one (`Skip`). A text is a sequence of characters of one
byte each. `reconstruct_new` panics where a slice would go beyond the text.

### CrateRec, CrateSources, Registry

An archive is the name and system in its gz header, its raw tar entries, and a
kind that says whether rebuilding it gives the same bytes. A digest is the
content it is of. The tar library's treatment of `././@LongLink` is modelled
because the two readers of a crate differ there: an archive is read with long
names joined to the entries they are of, a storage file lists both entries
under the names in their headers.

A source is a record with its variant; `get_crate`, `get_crate_handle_nv`,
`get_file_list` and `get_file` dispatch as `DynCrateSource` and
`DynCrateHandle` do, with a panic for a handle of another variant. `Filled` is
what the storage holds after `fill_crate_storage_from_source`, minus blobs that
the store loop had not stored when it returned (`store_returns_early`).
An overlay is over two sources of the other variants.
Nothing in `main.rs` configures one; it is modelled because it is there.

An index is the sequence of files in the git tree, or `NoRepo`. Names are
sequences of letters: `obtain_crate_name_path` slices them. `IndexOK` says what crates.io
keeps to: a crate's versions are in one file, at the path of its name in lower case, and
none is there twice. Files that do not parse, empty ones and those in the top
directory are allowed. `IndexGrows` says that versions are yanked but never removed.

### Server

| TLA+ | Code |
|---|---|
| `config`, `source[w]` | the configured `CrateSourceCfg`; `CRATE_SOURCE` of a thread |
| `stats`, `builder` | `CRATE_STATS`, the `Once` inside it, and who runs its initialiser |
| `req[w]` | the request thread `w` is at, and whether a link led there |
| `shown` | the last answer: status, links, and the archive that is sent |
| `index`, `archives`, `storage` | what other programs change: the index, the directory of archives, the storage file |

A page is abstracted to its links; the properties are about where they lead.
`Accept` takes one of a few requests that are typed, or a link of the page that
was answered last. A handler is one step (`Answer`) because it shares nothing
with others but what it reads of the disk, except for the lazy initialisers,
which are steps of their own: another thread may run, and the disk change,
between a thread's begin and end of the statistics, and all others wait
meanwhile.
A thread that panics drops its connection; hyper replaces it, so its
`CRATE_SOURCE` is gone. A panic inside the initialiser of `CRATE_STATS` poisons it.

The page that lists the files of a crate writes their paths as they are
(`file-listing.hbs:12`), and the handler looks up the segments of the URL as they
arrive (`main.rs:257`, `registry_data.rs:477, 515`). Between them is the browser: it
percent-encodes a space or a letter that is not ASCII, ends the path at a `#` or
`?`, and drops the `.` of `././@LongLink`. `Encoded` is a constant function from the paths a URL
does not keep to what it makes of them, and may lead to another file of the archive.
Names of crates and their versions consist of characters that a URL keeps.

Not in the model: two requests on one connection, bodies of responses other than
archives, a change of the disk in the middle of one handler, and a load of the
storage file in the middle of a session, which is `BlobFile`'s subject.

## 3. Runs

| Run | Instance | Result |
|---|---|---|
| `store_parallel` | 3 workers; 4 crates: two share a blob, one holds a file twice, one is not gzip, one cannot be rebuilt; `PtCap` 2, `BtCap` 1, 2 crates per refill | 77 000 states, all properties hold |
| `store_returns_early` | 2 workers, 2 crates | `ReturnedMeansComplete` violated |
| `store_again` | as before, one crate stored by an earlier run | `NeverPresentAlready` violated |
| `store_invalid_gz` | 2 workers, 4 crates | `WorkersSurvive` violated |
| `blob_file` | 2 blobs of equal length, 1 name, 1 reader, torn indexes that list no blob, room for 2 blobs | 2 181 000 states, all properties hold |
| `crate_mirror` | 3 versions, 2 threads, a channel for 1 message, each of the tools | 418 000 states, all properties hold |
| `mb_tool` | 2 crates with 3 versions each, 8 contents with a cycle, 2 workers, channels for 1 task each, 2 lists per refill | all properties hold |
| `multi_blob` | lists of up to 3 different texts of up to 3 characters, two letters and the separator | all properties hold |
| `diff_texts` | as before | `Reconstructs` violated |
| `multi_blob_get` | as before | `EveryTextFound` violated |
| `server` | 2 threads; cache or storage file; an index that is unusable and then good, with 3 crates; 2 and then 5 archives, of each kind, with a path that is percent-encoded and one that is cut off to that of another file | 165 000 states, all properties hold |
| `download` | as before, the directory tree as source | `DownloadMatchesChecksum` violated |

Properties of the store loop:

* `NoBlobTwice`: the assertion in `StoreBlob` holds when the storage was empty.
* `NoBlobLost`, `NamedCrateOnItsWay`: as long as the loop runs, a blob that was
  to be stored is stored, queued or in some thread's hands; also a blob that a
  later crate shares and therefore does not compress again.
* `DrainedMeansComplete`: if the loop waits until there is nothing left to do,
  every crate that can be rebuilt is completely stored and named, and no other
  is named. It is the promise that the early return breaks.
* `BacklogBounded`: at most one refill of whole archives waits, below the blobs.
* `AllThreadsEnd`: neither side stays blocked on a channel; the function returns
  or panics and each worker ends.

Properties of the file:

* `SnapshotReadable`: each blob of each index that was stored is where that index
  says, always: while others insert and store, when one of them has stopped half way,
  when the file does not load any more, and when a process has taken a torn index for
  the content of the file and goes on from it.
* `LoadedIsStored`: a load none of whose tables is written to while it is read
  ends with the offsets and the names of one store, even if other processes insert and store
  between one table and the next. It says nothing of a load that
  overlaps the writing of a table; there the code has no protection.
* `WriterReadsBack`: blobs of the writing process overlap neither each other nor the
  index behind them, over any number of sessions before, unless one of them went on
  from a torn index (and so may have lost entries or holds offsets that are none).
* `KeepsPromise`: the refinement of `SnapshotStore`.

Properties of the mirror:

* `NothingPartial`: a run of the downloader that reaches its end leaves no
  partial file behind, wherever the runs before it stopped. (A file with wrong
  content may be left: a download is verified by the next run only.)
* `VerifiedStays`: with a downloader beside it, analyze never panics on the
  second `File::open`, and what it counts comes from verified archives.
* `EachReportedOnce`: no version is reported by two threads, and none is missing
  when the main thread ends, in either way of ending.
* `ToolEnds`: the main thread ends and no thread stays blocked.

Properties of the multi blob tool:

* `RootsHaveNoOlder`: a root is exactly a node without an edge that leads to
  it, however crates share blobs.
* `EachBlobInOneList`, `NothingStoredTwice`: the lists are disjoint, which is why
  the assertions in lines 428 and 439 hold.
* `LeftOutIsAfterCycle`: which blobs no list contains: those that no root leads to,
  all of which come after a cycle. Two files whose contents change places make
  one, and then neither content is in the destination.
* `DrainedMeansStored`: when all work is done each blob a root leads to is stored
  exactly once, by itself or in one multi blob.
* `EntryMeansStored`: `digest_to_multi_blob` names only what is stored. It also has
  entries for blobs that are not in the multi blob (line 378 collects the digests
  of the whole task); they are stored by themselves first.
* `AllThreadsEnd`, as in the store loop.

Properties of multi blobs:

* `ReconstructsIfEndIsSame`: `reconstruct_new` gives the new text back exactly when
  the diff ends in a piece that both texts have, or is a single piece.
* `Chained`: under the same condition, applying the diffs of the list in its order
  yields each of the texts. `ReadsWhatWasWritten`: also after writing and reading.
* `FoundOnlyAlone`: `get_blob` finds a text exactly when there is no other, and so
  it never returns a wrong one.

Properties of the server:

* `StatsAreOneSnapshot`: the statistics are those of one state of the index and
  equal a reference definition made of sets, also for versions published out of
  order.
* `SourcesAgree`: a crate that is complete in a storage file reads the same from
  there as from its archive; the list of files and single files for archives
  without long paths, and the blobs of the graph if moreover no path is twice in the
  archive: reading the archive keeps the last file with a path, reading the metadata
  lists both.
* `OverlayIsOneOfThem`: an overlay answers as one of its sources whenever one of
  them has the crate and the default has all or nothing of it. Between those
  it does not: a handle of the default is taken although blobs are missing, while
  `get_crate` falls through to the other source.
* `DownloadIsWhole`: whatever the storage tool left undone, what is downloaded has
  all files of the release.
* `OnlyDeadLinksDrop`, `ErrorLinksAreForeign`: which of the server's own links take
  a thread down or lead to the error page, and in no other case. A link to a file whose path
  a URL does not keep is dead only if the archive has no file at what the URL makes of it.
* `EveryRequestEnds`.

Bounds. The capacities are smaller than in the program (a multiple of the number
of threads) so that refusals and blocked senders are frequent; the constants of
a worker pool do not occur in the properties. Three workers and one gzip-less
file leave two to interleave after the panic. Two crates that share a blob and
one that repeats a blob give the three ways a digest is met twice. For the file,
blobs of equal length give different contents whose indices lie at the same
offset, the case in which a loading thread could mix two indices. One reader is enough
because readers change nothing and do not see each other; that it holds a snapshot
while others insert is `SnapshotReadable`, which is about all stored contents at once.
A torn index that lists no blob (`Garbage` is `{0}`) makes a session write its blobs
again; the theorems are for any `Garbage`. `FileBound` leaves room for two blobs; it is a guard of `Insert`, for a sequence of
torn sessions would let the file grow for ever. The two digests are interchangeable (`SYMMETRY`).

For the mirror, three versions and two threads give one thread two versions and
the other one; with room for one message both block on the channel.

For the multi blob tool: a cycle and a blob behind it, a blob with two
predecessors, an entry without usable path, two paths that are cut to the same
name, a blob the source lacks and a version without metadata; the numbers of
workers and places are those that make sending block. Text diffs: three
characters are enough for two lines with an empty one before, between or
behind them, and three texts for a list of two diffs.

For the server: two threads, so that one waits for the other's statistics, or
serves from an older storage file. `MaxListed` is 2 in place of 5 and 10, below
the 3 versions of one crate. Typed requests are the ones links do not lead to, and
a few entry points; junk versions and names are not among them. The directory
tree is not one of the sources of `server`: it differs from the cache in the path
only, and is used there to fill the storage file and in `SourcesAgree`.

Deadlock is checked in `server`, and in `mb_tool` and the store runs, where `Terminated` stands for the end of
all threads, and in `crate_mirror`, where the downloader can always be run again. It is not in the runs of `MultiBlob`, which end
with the loaded list, and in `blob_file`: when the file has no usable header and no reader
holds it, nobody can do anything.

Fairness. `AllThreadsEnd` assumes weak fairness of the main thread and of each
worker: the operating system runs every thread that is not blocked, and the main
thread never blocks for longer than its timeout. Nothing is assumed about which
of them is faster. The same holds for `mb_tool`. `ToolEnds` assumes the same of the tool's threads, and nothing
of the downloader, which the user may leave stopped. `EveryRequestEnds` assumes
that a thread that is able to go on does so: a thread that loads its source or
begins with the statistics, the thread that builds them, and one that has all it
needs to answer. The last two are stated as weak fairness of `Built` and
`Replied`, which hold for exactly the steps of `EndStats` and `Answer` (no other step
takes `builder` from that thread, or ends a request that is ready) and which
TLC decides without computing the answer.

### Where the code differs from what it says

* `store_returns_early`: `blob_crate_storage.rs:229` leaves the loop after one
  idle round. With slow workers the last tasks, and all blobs of the crates they
  would have yielded, are lost, and `store` then writes an index whose names have
  no metadata blob. README.md:39 promises files "that can store the entirety of
  crates.io".
* `store_again`: filling a storage that already holds one of the crates ends in
  the assertion of line 428. The comments in 410-414 and 424-427 describe a check
  for presence that looks only at the blobs of the current run.
* `store_invalid_gz`: a file that is not gzip ends a worker thread
  (`reconstruction.rs:46`) while the comment in `blob_crate_storage.rs:324`
  expects an error. Should every worker meet one, the loop would spin for
  ever on a backlog nobody takes; no run goes so far.
* `diff_texts`: whether a separator follows a piece is decided by its place in the
  list of differences (`diff.rs:53`), but the last piece of the old text, or of the
  new one, can stand before the last of the list. In the run's trace, from an empty line to a text without
  a line end, the removal counts a separator more than the old text has and
  `reconstruct_new` panics in the slice behind it (`diff.rs:79`). `bin/diff.rs:53` and the tests
  assert that the new text comes back.
* `multi_blob_get`: `get_blob` (`multi_blob.rs:33`) follows pairs from new to old,
  `CreateMultiBlob` (`blob_crate_storage.rs:346`) writes them from old to new; so
  no text of a multi blob with a diff in it is found (in the run, neither of two). If they agreed, line 44 would
  apply the diffs in the wrong order.
* `download`: `api_crate` rebuilds the archive without comparing it with what it
  got (`main.rs:294`); for an archive that cannot be rebuilt to the byte cargo sees a wrong
  checksum, even when the archive itself is at hand.

Not shown by a run, because nothing says otherwise: a page of a crate nobody depends on
links to a page that panics (`registry_data.rs:340-342`, a TODO), and so do the
links to files under long paths in a storage file, and to files with a space, a letter that is not
ASCII, a `#` or a `?` in their path (`registry_data.rs:516`); a load of the storage file that overlaps
a store can succeed with a mixture of two tables; renamed dependencies are counted under the name
they are given in the index.

## 4. Proofs

TLAPS proves, for every number of workers, crates, blobs and every capacity
allowed by `ConstantsOK` and `NoTaskOK`:

* `TypeCorrect`;
* `BlobsNotLost` and `NamedCratesOnTheirWay`. The invariant is conservation:
  every digest in `blobs_to_store` is in `blobs` or in one of the four places a
  task can be. It is inductive with the types, because each action takes a task
  out of one place and puts it, or its result, into the next one;
* `BlobsOnce`. `NoBlobTwice` alone is not inductive: to know that the digest
  which arrives is not stored one must know that no second task carries it.
  The strengthening `OnePlace` says that each digest is at one position of one
  place at most, and, filling an empty storage, that a digest in `blobs`
  is in none; everything in flight is in `blobs_to_store`, so that a
  new digest is in none either;
* `BacklogStaysBounded`: inductive with the types alone;
* `DrainedIsComplete`. The invariant follows the crates: one that can be rebuilt
  and has no name yet is still in the iterator, in some queue or hand as an
  archive or as its content, or is the one being taken over (`CratesKept`); and
  nothing but such crates gets as far as the name index (`OnlyExact`). When
  everything is drained only the name is left, and `NamedCratesOnTheirWay` says
  that its blobs are in the storage.

For every number of blobs, names and readers and all blob lengths allowed by
`BlobFileConstants`:

* `TypeCorrect`;
* `LoadedStaysReadable` and `InsertedCanBeRead`. The invariant calls an offset
  table *sound* below an offset if each blob it lists is intact and ends there. Every stored table
  is sound below `header_index` (`StoredSound`), and whichever way a process has opened
  the file, its `index_offset` never lies below the header's and it writes only there or
  behind: so no write overlaps a blob that was stored. This part does not need
  the variable `sound`. While it is true, all tables on the disk are sound below the index they
  stand in (`DiskSound`), and so are those of the writer (`WriterSound`);

* `LoadsOneSnapshot` and `PromiseKept`. Tables of several stores can be in the file
  at once, so neither is inductive by itself. The invariant calls what one
  `write_header_and_index` writes, and where, a *generation*. Those of which a table
  was written are ordered: a later one begins further behind or lists the same blobs at
  the same place, and has all names of the earlier ones. Hence their name tables
  and multi blob tables lie in different places unless they are equal
  (`SamePlace`), and a load that began with one cannot go on with another. An extent a reader
  is in the middle of is on the disk, or the read is torn (`ReadsIntact`). For the
  refinement: a generation all of whose tables are intact is the newest (`Newest`),
  since a table that is left of an older one lies behind what the writer has written
  so far (`Ahead`) and is written over before the new ones are complete; so a file whose index
  is intact holds what was stored last, and the last table of a store turns a broken file into
  a good one. When a process opens a torn index these invariants end, and so does the
  promise; what readers had loaded until then stays covered by `StoredSound`.

For every number of versions and threads and every capacity of the channel allowed
by `MirrorConstants`:

* `TypeCorrect`;
* `CompleteRun`: behind the version the downloader is at, each file is whole;
* `VerifiedIsThere`: a version a thread has verified is the good one, which the
  downloader neither removes nor opens for writing, because its comparison comes first;
* `ReportedOnce`: a thread reports only versions dealt to it that it has counted;
  each of them has been reported, or is queued or in the thread's hands, in one of
  these only. `threads_running` counts the threads that have not sent `Done` and the
  `Done` messages in the channel, and a thread's `Done` comes after its reports.

For every index, every order of the hash maps and every number of workers allowed by
`GraphConstantsOK`:

* `OlderKnown`: edges lead from and to nodes only, so that a node which is new has
  none, and the edges of a path lead to all of its blobs but the first;
* `ListsDisjoint`: the blobs of finished lists and of the one being made are visited,
  and a visited blob is not appended again;
* `LeftOutAfterCycle`. While a traversal runs, whatever an edge leads to from a visited
  blob is visited or in `to_walk`, and some root leads to everything that is visited
  or in `to_walk` (`TraversalInv`). At the end the visited blobs are closed under
  edges and hold all roots, so they are the blobs that roots lead to, and these are
  the lists. If no root leads to a blob, each blob before it has one before it again; as
  the graph is finite some blob comes before itself (`UnreachedHasCycle`);
* `TypeCorrect`, `StoredOnce` and `DrainedIsComplete`. The invariant `PlacesInv` says
  where each digest is: in a list not yet taken, in the backlog, in one of the channels, in a
  thread's hands, or covered by a key of the storage. No digest is in two places or
  twice in one, and as long as the loop runs those the source has are in some place. Each
  step moves digests from one place to another (`MovedContents`). So what arrives at the
  main thread is not stored yet, and what is in no other place at the end is in
  the storage, under one key;
* `EntriesAreStored`. An entry is made when a multi blob is taken from the
  channel. That the blobs of its task which are no text are stored by then is not
  inductive by itself: the invariant `EntriesInv` says of a thread's results and of the
  channel that each such blob is stored, in the channel, or goes ahead of the multi blob.

`Only` and `Before` are recursive functions. What they are for every argument
(`OnlyProperties`, `BeforeComplete`) is proved by induction over a set of numbers,
which the library's `NatLessThanWellFounded` allows without a theorem that takes an
operator (`SetInduction` in `Recursion`).

For every index, directory of archives, set of losses, number of threads and set of typed
requests allowed by `ServerConstantsOK` (the downloader only adds archives, the
index has the form `IndexOK`), and for each kind of source:

* `TypeCorrect`;
* `SourcesAlike`, `OverlayAgrees` and `DownloadsAreWhole`. Metadata is read back as it was
  written (`RoundTrip`, field by field over the tokens), and different crates have
  different paths (`PathOf`), so a directory yields the archive of the crate asked for or
  nothing. The invariant `ServerInv` says where a storage file comes from: each crate named
  in it, or in an older copy that some thread has loaded, has the metadata of an archive
  that is still in the directory and can be rebuilt to the byte. With it each of the three follows by comparing what the two
  readers compute of the same archive;
* `ForeignErrors`. No link on a page leads to a path without a handler (part of `ServerInv`), so
  the error page can only be the answer of a crate's page; and if the crate is in the
  index and its name in lower case, its file is at the path that `get_crate_json`
  computes (`CrateIsFound`);
* `OneSnapshot`. The statistics do not change after they are built, so all there is to prove is
  what the two nested loops compute. Each turn merges a set of pairs into a map of sets
  (`Merged`), and merging is associative; so after `i` crates the maps hold the union of
  the pairs of the first `i` (`LoopsAre`), which is a set no order or partition of the
  loops can be told from. That the latest version of a crate is one version, that only
  its dependencies are counted, and that `len` of the list is the number of versions
  follows from `IndexOK` (`StatisticsAre`);
* `DeadLinks`, of the action property `OnlyDeadLinksDrop`, with `LinkConstantsOK`: the index
  only grows, and distinct outcomes are distinct values. The invariant `LinkInv` says what is
  known of each link on the page shown and of each link a thread follows: the version it
  names was in the index at some time, or is in the directory, or its crate is under no path
  `get_crate_json` computes from that name; a file it names is what a URL makes of a path that the archive lists.
  All of that stays true while the index and the directory grow (`KnownStays`), and each
  page's links have it (`AnswerKnown`), the dependents on a page through
  `StatsAreOneSnapshot`. So when a thread drops the connection on such a link, the lookups that
  still succeed leave only the cases of `Dead` (`AnswerDrops`), for any `Encoded`; and statistics
  are poisoned only by an index that is `Unusable` (`PanicIsUnusable`). What users
  type is not restricted: a page of files that is not in the index may be asked for, and its
  link back to the crate is one of the dead ones (`Unlisted`).

For texts of any length over any characters, any number of them, and any longest common
subsequence (`MultiBlobBoundsOK`):

* `ReconstructionDecided`. Splitting a text into lines and ending each with the separator
  gives the text and one separator more (`EndedSplit`). The invariant `Taken` of the merge
  says that the pieces which are not added hold the lines of the old text taken so far, those
  which are not removed the lines of the new one, each in order; that what is left of the
  common lines still stands in what is left of both texts, so that no turn passes one by; and
  that only common pieces follow their like. At the end both texts are taken (`MergeIs`).
  Until the last piece `reconstruct_new` has taken from the old text what the pieces hold,
  and has added the lines of the new one, each with its separator (`ReconstructsUpTo`). So the last
  piece decides (`EndIsSameIff`): if it is a removal behind another piece, a separator too many has been
  added (`LastIsCommonOrRemoved`); if it is an addition behind another piece, one that is not
  there has been counted before, and the slice panics (`LastIsAdded`);
* `WrittenIsRead`. What a serializer writes is read back by its deserializer with whatever
  follows it left over (`ReadInstruction`, `ReadDiff`, `ReadEntry`, `ReadList`, `ReadFile`);
  for the two lists by induction over their length. The invariant `Inv` says that
  `diff_list` is the chain of diffs from each text to the next (`ListOK`) and that the file is
  what `serialize` makes of it (`FileOK`), before and after loading;
* `RootLeadsToAll`: the diffs of that chain, one after the other, with
  `ReconstructionDecided` for each;
* `OnlyAloneIsFound`. Walking the list from its end, what is needed stays the text asked for
  until the pair is met whose first component it is, and is the next text from then on:
  never the root, when there is another text, because texts differ.

The recursive functions of the models (`after`, `res`, `lines`, `found`) are shown to exist by
`RecursionExists`, which is again an induction over a set of numbers.

Only model-checked: liveness (`AllThreadsEnd`, `ToolEnds`, `EveryRequestEnds`), which is
outside of what the prover does. Each invariant and action property of a passing run is a theorem.

Assumptions on constants are evaluated by TLC in every run.

## 5. Plan

Done: all of the components below, except for rendering. What is left:

1. A run that composes the store loop with the file, action by action; so far
   `Server`'s `Filled` and `Lost` stand for the results of the loop.

### Not modelled

Rendering to HTML and templates (other than their links); the git library, the
HTTP client and server libraries, compression and tar formats (external, only
their outcome matters); `insert_named_blob`, which nothing calls, and `map_all_files`, of which the grep
tool needs no more than one message per version; short writes (`write` in place of `write_all`,
`blob_storage.rs:22`); two processes that fill one file; what a load of a torn index yields (any content is allowed); power failures that
reorder writes; archives whose files are not below the directory cargo
gives them, on which `strip_path` panics; characters of more than one byte.
