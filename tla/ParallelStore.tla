--------------------------- MODULE ParallelStore ---------------------------
(***************************************************************************)
(* BlobCrateStorage::store_parallel_iter: one main thread that owns the    *)
(* blob storage and a pool of worker threads that unpack and compress.     *)
(*                                                                         *)
(*          ParallelTask            BlockingTask                           *)
(*   main ----- ptq -----> workers ----- btq -----> main                   *)
(*                                                                         *)
(* ptq is the multiqueue mpmc_queue, btq the std sync_channel.  The main   *)
(* thread never blocks: it polls btq with a timeout, pulls new crate files *)
(* from the iterator when its backlog is empty, pushes as much of the      *)
(* backlog as ptq accepts, and leaves the loop after a round that did      *)
(* nothing.  Only the main thread touches the storage and blobs_to_store.  *)
(*                                                                         *)
(* A crate file is a member of Crates and stands for its file name too     *)
(* (CrateSpec::file_name is injective); its bytes are abstracted to what   *)
(* handle_parallel_task finds out about them (Kind) and to the digests of  *)
(* the blobs it is split into (Entries, Meta).                             *)
(***************************************************************************)
EXTENDS Naturals, Sequences, SequencesExt

CONSTANTS
  Workers,    \* the spawned threads (thread_count of them)
  Crates,     \* crate files
  Digests,    \* SHA-256 digests of blobs
  NoDigest,   \* "no entry" in the name index
  NoTask,     \* no task: nothing in a worker's or the main thread's hands
  Source,     \* the crates in the order the iterator yields them
  Kind,       \* what unpacking a crate file leads to
  Entries,    \* digests of the archive's files, in archive order
  Meta,       \* digest of the serialized CrateRecMetadata
  Stored,     \* crates an earlier run left complete in the storage
  PtCap,      \* capacity of ptq: 3 * thread_count, rounded up by multiqueue
  BtCap,      \* capacity of btq: 3 * thread_count
  TakeMax     \* crates pulled in one go: take(10)

(* "exact"   the archive is rebuilt bit for bit from its parts             *)
(* "differs" it can be unpacked but the rebuilt file has another digest    *)
(* "damaged" reading the tar entries fails with an io::Error               *)
(* "nogz"    there is no gzip header: header() is None and is unwrapped    *)
Kinds == {"exact", "differs", "damaged", "nogz"}

ASSUME ConstantsOK ==
  /\ Workers # {}
  /\ Source \in Seq(Crates)
  /\ Kind \in [Crates -> Kinds]
  /\ Entries \in [Crates -> Seq(Digests)]
  /\ Meta \in [Crates -> Digests]
  /\ Stored \subseteq Crates
  /\ NoDigest \notin Digests
  /\ PtCap \in Nat \ {0}
  /\ BtCap \in Nat \ {0}
  /\ TakeMax \in Nat \ {0}

-----------------------------------------------------------------------------
(* Tasks.  "op" is the enum variant, "of" the crate or digest it carries.  *)

ParallelTask == [op : {"obtain"}, of : Crates] \cup [op : {"compress"}, of : Digests]

BlockingTask ==
  [op : {"undedup", "content"}, of : Crates] \cup [op : {"blob"}, of : Digests]

ASSUME NoTaskOK == NoTask \notin ParallelTask \cup BlockingTask \cup Crates

(* All blobs a crate is stored as: its files and its metadata.             *)
BlobsOf(c) == Range(Entries[c]) \cup {Meta[c]}

(* handle_parallel_task: unpacking panics on a file without gzip header,   *)
(* every other outcome is the one blocking task the worker sends back.     *)
Panics(t) == t.op = "obtain" /\ Kind[t.of] = "nogz"

(* Slip: the rebuilt archive is not compared with the original one.        *)
ResultUncompared(t) ==
  IF t.op = "compress" THEN [op |-> "blob", of |-> t.of]
  ELSE IF Kind[t.of] \in {"exact", "differs"} THEN [op |-> "content", of |-> t.of]
  ELSE [op |-> "undedup", of |-> t.of]

ResultOf(t) ==
  IF t.op = "compress" THEN [op |-> "blob", of |-> t.of]
  ELSE IF Kind[t.of] = "exact" THEN [op |-> "content", of |-> t.of]
  ELSE [op |-> "undedup", of |-> t.of]

-----------------------------------------------------------------------------
VARIABLES
  source,          \* crate_iter: what it has still to yield
  backlog,         \* par_task_backlog, a stack
  ptq,             \* tasks for the workers
  btq,             \* tasks for the main thread
  held,            \* held[w]: the result worker w is computing or sending
  alive,           \* workers whose thread has not ended
  pc,              \* where the main thread is in its loop
  done_something,
  cur,             \* the crate whose content is being taken over, and ...
  pos,             \* ... the next of its entries
  blobs_to_store,
  blobs,           \* digests with an entry in the storage's blob_offsets
  name_index

channels == <<ptq, btq>>
threads == <<held, alive>>
loop == <<pc, done_something, cur, pos>>
store == <<blobs_to_store, blobs, name_index>>
vars == <<source, backlog, channels, threads, loop, store>>

Init ==
  /\ source = Source
  /\ backlog = <<>>
  /\ ptq = <<>>
  /\ btq = <<>>
  /\ held = [w \in Workers |-> NoTask]
  /\ alive = Workers
  /\ pc = "recv"
  /\ done_something = FALSE
  /\ cur = NoTask
  /\ pos = 1
  /\ blobs_to_store = {}
  /\ blobs = UNION {BlobsOf(c) : c \in Stored}
  /\ name_index = [c \in Crates |-> IF c \in Stored THEN Meta[c] ELSE NoDigest]

(* The main thread is inside store_parallel_iter; when it is not, both of  *)
(* its channel ends have been dropped.                                     *)
Running == pc \notin {"returned", "panicked"}

(* try_send succeeds: there is room and a receiver is left.                *)
PtAccepts == Len(ptq) < PtCap /\ alive # {}

-----------------------------------------------------------------------------
(* Worker threads: while let Ok(task) = pt_rx.recv() { .. }                *)

Idle(w) == w \in alive /\ held[w] = NoTask

WorkerTake(w) ==
  /\ Idle(w) /\ ptq # <<>>
  /\ ~Panics(Head(ptq))
  /\ ptq' = Tail(ptq)
  /\ held' = [held EXCEPT ![w] = ResultOf(Head(ptq))]
  /\ UNCHANGED <<source, backlog, btq, alive, loop, store>>

(* header().unwrap() ends the thread; the crate file is lost with it.      *)
WorkerPanics(w) ==
  /\ Idle(w) /\ ptq # <<>>
  /\ Panics(Head(ptq))
  /\ ptq' = Tail(ptq)
  /\ alive' = alive \ {w}
  /\ UNCHANGED <<source, backlog, btq, held, loop, store>>

(* Slip: btq without a bound.                                              *)
WorkerEmitUnbounded(w) ==
  /\ Running /\ held[w] # NoTask
  /\ btq' = Append(btq, held[w])
  /\ held' = [held EXCEPT ![w] = NoTask]
  /\ UNCHANGED <<source, backlog, ptq, alive, loop, store>>

(* bt_tx.send: blocks while the channel is full.                           *)
WorkerEmit(w) ==
  /\ Running /\ held[w] # NoTask
  /\ Len(btq) < BtCap
  /\ btq' = Append(btq, held[w])
  /\ held' = [held EXCEPT ![w] = NoTask]
  /\ UNCHANGED <<source, backlog, ptq, alive, loop, store>>

(* bt_tx.send(..).unwrap() after the receiver is gone.                     *)
WorkerSendFails(w) ==
  /\ ~Running /\ held[w] # NoTask
  /\ held' = [held EXCEPT ![w] = NoTask]
  /\ alive' = alive \ {w}
  /\ UNCHANGED <<source, backlog, channels, loop, store>>

(* pt_rx.recv() is an error once the sender is gone and ptq is drained.    *)
WorkerExit(w) ==
  /\ ~Running /\ Idle(w) /\ ptq = <<>>
  /\ alive' = alive \ {w}
  /\ UNCHANGED <<source, backlog, channels, held, loop, store>>

WorkerStep(w) ==
  \/ WorkerTake(w) \/ WorkerPanics(w)
  \/ WorkerEmit(w) \/ WorkerSendFails(w) \/ WorkerExit(w)

-----------------------------------------------------------------------------
(* Main thread, first part of a round: bt_rx.recv_timeout and, for what it *)
(* returned, handle_blocking_task.                                         *)

Received(op) == pc = "recv" /\ btq # <<>> /\ Head(btq).op = op

(* Nothing arrived within 50 microseconds, however busy the workers are.   *)
RecvTimeout ==
  /\ pc = "recv" /\ btq = <<>>
  /\ pc' = "refill"
  /\ UNCHANGED <<source, backlog, channels, threads, done_something, cur, pos, store>>

(* StoreCrateUndeduplicated is a TODO: the crate file is dropped.          *)
StoreCrateUndeduplicated ==
  /\ Received("undedup")
  /\ btq' = Tail(btq)
  /\ pc' = "refill"
  /\ done_something' = TRUE
  /\ UNCHANGED <<source, backlog, ptq, threads, cur, pos, store>>

StoreBlob ==
  LET d == Head(btq).of IN
  /\ Received("blob")
  /\ btq' = Tail(btq)
  /\ blobs' = blobs \cup {d}
  /\ pc' = IF d \in blobs THEN "panicked" ELSE "refill"
  /\ done_something' = TRUE
  /\ UNCHANGED <<source, backlog, ptq, threads, cur, pos, blobs_to_store, name_index>>

StoreCrateContentBlobs ==
  /\ Received("content")
  /\ btq' = Tail(btq)
  /\ cur' = Head(btq).of
  /\ pc' = "entries"
  /\ done_something' = TRUE
  /\ UNCHANGED <<source, backlog, ptq, threads, pos, store>>

(* Slip: every crate compresses all its blobs.                             *)
CompressAlways(d) ==
  /\ blobs_to_store' = blobs_to_store \cup {d}
  /\ backlog' = Append(backlog, [op |-> "compress", of |-> d])

(* if blobs_to_store.insert(d) { emit_task(CompressBlob(d, ..)) }          *)
CompressIfNew(d) ==
  /\ blobs_to_store' = blobs_to_store \cup {d}
  /\ backlog' = IF d \in blobs_to_store THEN backlog
                ELSE Append(backlog, [op |-> "compress", of |-> d])

(* One turn of "for entry in blobs".                                       *)
StoreEntry ==
  /\ pc = "entries" /\ pos <= Len(Entries[cur])
  /\ CompressIfNew(Entries[cur][pos])
  /\ pos' = pos + 1
  /\ UNCHANGED <<source, channels, threads, pc, done_something, cur, blobs, name_index>>

(* Slip: the last entry is not looked at.                                  *)
StoreMetaTooEarly ==
  /\ pc = "entries" /\ pos >= Len(Entries[cur])
  /\ CompressIfNew(Meta[cur])
  /\ name_index' = [name_index EXCEPT ![cur] = Meta[cur]]
  /\ cur' = NoTask
  /\ pos' = 1
  /\ pc' = "refill"
  /\ UNCHANGED <<source, channels, threads, done_something, blobs>>

StoreMeta ==
  /\ pc = "entries" /\ pos > Len(Entries[cur])
  /\ CompressIfNew(Meta[cur])
  /\ name_index' = [name_index EXCEPT ![cur] = Meta[cur]]
  /\ cur' = NoTask
  /\ pos' = 1
  /\ pc' = "refill"
  /\ UNCHANGED <<source, channels, threads, done_something, blobs>>

-----------------------------------------------------------------------------
(* Main thread, rest of the round.                                         *)

(* The crates (&mut crate_iter).take(10) yields.                           *)
TakeCount == IF Len(source) < TakeMax THEN Len(source) ELSE TakeMax

Archives(n) == [i \in 1..n |-> [op |-> "obtain", of |-> source[i]]]

(* Slip: crates are pulled whether or not the last ones have been pushed.  *)
RefillAlways ==
  /\ pc = "refill"
  /\ pc' = "push"
  /\ backlog' = backlog \o Archives(TakeCount)
  /\ source' = SubSeq(source, TakeCount + 1, Len(source))
  /\ done_something' = (done_something \/ TakeCount > 0)
  /\ UNCHANGED <<channels, threads, cur, pos, store>>

Refill ==
  /\ pc = "refill"
  /\ pc' = "push"
  /\ IF backlog = <<>>
     THEN /\ backlog' = Archives(TakeCount)
          /\ source' = SubSeq(source, TakeCount + 1, Len(source))
          /\ done_something' = (done_something \/ TakeCount > 0)
     ELSE UNCHANGED <<source, backlog, done_something>>
  /\ UNCHANGED <<channels, threads, cur, pos, store>>

(* Slip: what try_send refuses is not pushed back.                         *)
PushDropsRefused ==
  /\ pc = "push" /\ backlog # <<>>
  /\ ptq' = IF PtAccepts THEN Append(ptq, backlog[Len(backlog)]) ELSE ptq
  /\ backlog' = SubSeq(backlog, 1, Len(backlog) - 1)
  /\ done_something' = TRUE
  /\ UNCHANGED <<source, btq, threads, pc, cur, pos, store>>

(* pop and try_send; what is refused is pushed back, see LoopAgain.        *)
Push ==
  /\ pc = "push" /\ backlog # <<>> /\ PtAccepts
  /\ ptq' = Append(ptq, backlog[Len(backlog)])
  /\ backlog' = SubSeq(backlog, 1, Len(backlog) - 1)
  /\ done_something' = TRUE
  /\ UNCHANGED <<source, btq, threads, pc, cur, pos, store>>

PushingEnds == pc = "push" /\ (backlog = <<>> \/ ~PtAccepts)

(* Slip: done_something declared outside of the loop.                      *)
LoopAgainStillDone ==
  /\ PushingEnds
  /\ done_something \/ backlog # <<>>
  /\ pc' = "recv"
  /\ UNCHANGED <<source, backlog, channels, threads, done_something, cur, pos, store>>

LoopAgain ==
  /\ PushingEnds
  /\ done_something \/ backlog # <<>>
  /\ pc' = "recv"
  /\ done_something' = FALSE
  /\ UNCHANGED <<source, backlog, channels, threads, cur, pos, store>>

(* The break: bt_rx and pt_tx are dropped, and what btq holds with them.   *)
Return ==
  /\ PushingEnds
  /\ ~done_something /\ backlog = <<>>
  /\ pc' = "returned"
  /\ btq' = <<>>
  /\ UNCHANGED <<source, backlog, ptq, threads, done_something, cur, pos, store>>

HandleBlockingTask ==
  \/ StoreCrateUndeduplicated \/ StoreBlob
  \/ StoreCrateContentBlobs \/ StoreEntry \/ StoreMeta

MainStep ==
  \/ RecvTimeout \/ HandleBlockingTask
  \/ Refill \/ Push \/ LoopAgain \/ Return

(* All threads have ended.                                                 *)
Terminated == ~Running /\ alive = {} /\ UNCHANGED vars

Next == MainStep \/ (\E w \in Workers : WorkerStep(w)) \/ Terminated

Spec == Init /\ [][Next]_vars

(* The operating system runs every thread that is not blocked.             *)
FairSpec ==
  /\ Spec
  /\ WF_vars(MainStep)
  /\ \A w \in Workers : WF_vars(WorkerStep(w))

-----------------------------------------------------------------------------
(* Correctness.                                                            *)

(* The channels respect their capacities and every variable its type.      *)
TypeOK ==
  /\ source \in Seq(Crates)
  /\ backlog \in Seq(ParallelTask)
  /\ ptq \in Seq(ParallelTask) /\ Len(ptq) <= PtCap
  /\ btq \in Seq(BlockingTask) /\ Len(btq) <= BtCap
  /\ held \in [Workers -> BlockingTask \cup {NoTask}]
  /\ alive \subseteq Workers
  /\ pc \in {"recv", "entries", "refill", "push", "returned", "panicked"}
  /\ done_something \in BOOLEAN
  /\ cur \in Crates \cup {NoTask}
  /\ pc = "entries" <=> cur # NoTask
  /\ pos \in Nat \ {0}
  /\ blobs_to_store \subseteq Digests
  /\ blobs \subseteq Digests
  /\ name_index \in [Crates -> Digests \cup {NoDigest}]

(* The blob a task carries, the blobs of a queue and of all the workers.   *)
BlobTask == [op : {"compress", "blob"}, of : Digests]

DigestOf(t) == IF t \in BlobTask THEN {t.of} ELSE {}

DigestsIn(q) == UNION {DigestOf(q[i]) : i \in DOMAIN q}
DigestsHeld == UNION {DigestOf(held[w]) : w \in Workers}

InFlight == DigestsIn(backlog) \cup DigestsIn(ptq) \cup DigestsHeld \cup DigestsIn(btq)

(* The assertion in StoreBlob holds: filling a storage that was empty, no  *)
(* blob reaches it twice, however many crates share it and whichever of    *)
(* the workers compress them (blob_crate_storage.rs:428).                  *)
NoBlobTwice == Stored = {} => pc # "panicked"

(* A digest is entered into blobs_to_store before its blob is in the       *)
(* storage; until then the blob is in exactly the hands of one thread or   *)
(* in a queue: try_send's refusals, full channels and other crates' tasks  *)
(* lose none.                                                              *)
NoBlobLost == Running => blobs_to_store \subseteq blobs \cup InFlight

(* A crate is in name_index before its blobs are in the storage.  From     *)
(* then on each of them, also those it shares with a crate handled         *)
(* earlier, is stored or on its way.                                       *)
NamedCrateOnItsWay ==
  Running => \A c \in Crates :
    name_index[c] # NoDigest => BlobsOf(c) \subseteq blobs \cup InFlight

(* Nothing is left to do for anyone.                                       *)
Drained ==
  /\ Running /\ source = <<>> /\ InFlight = {} /\ cur = NoTask
  /\ backlog = <<>> /\ ptq = <<>> /\ btq = <<>>
  /\ \A w \in Workers : held[w] = NoTask

CompletelyStored(c) == name_index[c] = Meta[c] /\ BlobsOf(c) \subseteq blobs

(* When all work is done, each crate file that can be rebuilt from its     *)
(* parts is completely stored, and the name index holds no other.          *)
DrainedMeansComplete ==
  Drained => \A c \in Range(Source) :
    IF Kind[c] = "exact" THEN CompletelyStored(c)
    ELSE c \in Stored \/ name_index[c] = NoDigest

(* Whole crate archives wait in the backlog by the handful only: new ones  *)
(* are pulled when it is empty, and those in it lie below the blobs.       *)
BacklogBounded ==
  \E n \in 0..TakeMax : \A i \in DOMAIN backlog : backlog[i].op = "obtain" <=> i <= n

(* store_parallel_iter returns or panics, and every thread ends: nobody    *)
(* stays blocked on a channel.  A crate file without gzip header costs one *)
(* worker, so this needs more workers than such files.                     *)
AllThreadsEnd == <>(~Running /\ alive = {})

-----------------------------------------------------------------------------
(* What the repository says and the code does not do.                      *)

(* README.md: storage files hold the entirety of the crates given.         *)
ReturnedMeansComplete ==
  pc = "returned" => \A c \in Range(Source) : Kind[c] = "exact" => CompletelyStored(c)

(* "Tried to insert a blob into the storage that was already present" is a *)
(* bug that the check of blobs_to_store is said to exclude.                *)
NeverPresentAlready == pc # "panicked"

(* An invalid gz file makes the crate undeduplicated, it does not end the  *)
(* worker that looks at it.                                                *)
WorkersSurvive == Running => alive = Workers
=============================================================================
