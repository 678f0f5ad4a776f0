-------------------------- MODULE MultiBlobStore ---------------------------
(***************************************************************************)
(* bin/create-mb-crate-storage.rs: the graph of the blobs of a storage     *)
(* (BlobGraph) and BlobCrateStorage::store_parallel_mb, which makes each   *)
(* list of blobs into a multi blob.  The loop has the threads and channels *)
(* of ParallelStore; here one task leads to any number of results, and the *)
(* backlog never holds anything but tasks for whole lists.                 *)
(*                                                                         *)
(* The multi blob of texts s is <<"mb", s>>: its digest is that of what it *)
(* is made of.  The tool ends without a call of store, so it has no step   *)
(* that writes the index of the destination.                               *)
(***************************************************************************)
EXTENDS BlobGraph

CONSTANTS
  Workers,
  Present,    \* digests src.b.get finds a blob for
  Utf8,       \* those among them whose bytes, as they are stored, are UTF-8
  NoDigest,
  PtCap, BtCap, TakeMax

ASSUME LoopConstantsOK ==
  /\ Workers # {}
  /\ Utf8 \subseteq Present /\ Present \subseteq Digests
  /\ NoDigest \notin Digests
  /\ Digests \cap ({"mb"} \X Seq(Digests)) = {}  \* hashes do not collide
  /\ PtCap \in Nat \ {0} /\ BtCap \in Nat \ {0} /\ TakeMax \in Nat \ {0}

MultiBlob(s) == <<"mb", s>>

(* Slip: the multi blob before the blobs that are not part of it.          *)
CreateMultiBlobFirst(task) ==
  LET texts == Only(task, Utf8)
      others == Only(task, Digests \ Utf8)
  IN (IF texts = <<>> THEN <<>> ELSE <<[op |-> "multi", d |-> MultiBlob(texts), of |-> task]>>)
     \o [i \in DOMAIN others |-> [op |-> "blob", d |-> others[i], of |-> <<>>]]

(* handle_parallel_task on CreateMultiBlob: what it emits, in this order.  *)
(* The digests sent along are those of all blobs of the task.              *)
CreateMultiBlob(task) ==
  LET texts == Only(task, Utf8)
      others == Only(task, Digests \ Utf8)
  IN [i \in DOMAIN others |-> [op |-> "blob", d |-> others[i], of |-> <<>>]]
     \o (IF texts = <<>> THEN <<>> ELSE <<[op |-> "multi", d |-> MultiBlob(texts), of |-> task]>>)

-----------------------------------------------------------------------------
VARIABLES
  digests_iter,   \* the lists not yet taken
  backlog, ptq, btq,
  held,           \* held[w]: what worker w has still to send
  alive,
  pc, done_something,
  blobs,          \* digests in the destination's blob_offsets
  digest_to_multi_blob

threads == <<held, alive>>
store == <<blobs, digest_to_multi_blob>>
loopVars == <<digests_iter, backlog, ptq, btq, threads, pc, done_something, store>>
vars == <<graphVars, loopVars>>

Init ==
  /\ GraphInit
  /\ digests_iter = <<>> /\ backlog = <<>> /\ ptq = <<>> /\ btq = <<>>
  /\ held = [w \in Workers |-> <<>>]
  /\ alive = {}
  /\ pc = "graph"
  /\ done_something = FALSE
  /\ blobs = {}
  /\ digest_to_multi_blob = [d \in Digests |-> NoDigest]

(* get_digest_lists has returned: the channels and the threads.            *)
Start ==
  /\ pc = "graph" /\ phase = "listed"
  /\ pc' = "recv"
  /\ digests_iter' = res
  /\ alive' = Workers
  /\ UNCHANGED <<graphVars, backlog, ptq, btq, held, done_something, store>>

Running == pc \notin {"graph", "returned", "panicked"}
Over == pc \in {"returned", "panicked"}

-----------------------------------------------------------------------------
(* Worker threads.                                                         *)

WorkerTake(w) ==
  /\ w \in alive /\ held[w] = <<>> /\ ptq # <<>>
  /\ ptq' = Tail(ptq)
  /\ held' = [held EXCEPT ![w] = CreateMultiBlob(Head(ptq))]
  /\ UNCHANGED <<graphVars, digests_iter, backlog, btq, alive, pc, done_something, store>>

WorkerEmit(w) ==
  /\ Running /\ held[w] # <<>> /\ Len(btq) < BtCap
  /\ btq' = Append(btq, Head(held[w]))
  /\ held' = [held EXCEPT ![w] = Tail(held[w])]
  /\ UNCHANGED <<graphVars, digests_iter, backlog, ptq, alive, pc, done_something, store>>

(* send(..).unwrap() after the receiver is gone; the task's later results  *)
(* are gone too.                                                           *)
WorkerSendFails(w) ==
  /\ Over /\ held[w] # <<>>
  /\ held' = [held EXCEPT ![w] = <<>>]
  /\ alive' = alive \ {w}
  /\ UNCHANGED <<graphVars, digests_iter, backlog, ptq, btq, pc, done_something, store>>

WorkerExit(w) ==
  /\ Over /\ w \in alive /\ held[w] = <<>> /\ ptq = <<>>
  /\ alive' = alive \ {w}
  /\ UNCHANGED <<graphVars, digests_iter, backlog, ptq, btq, held, pc, done_something, store>>

WorkerStep(w) == WorkerTake(w) \/ WorkerEmit(w) \/ WorkerSendFails(w) \/ WorkerExit(w)

-----------------------------------------------------------------------------
(* Main thread.                                                            *)

RecvTimeout ==
  /\ pc = "recv" /\ btq = <<>>
  /\ pc' = "refill"
  /\ UNCHANGED <<graphVars, digests_iter, backlog, ptq, btq, threads, done_something, store>>

(* BlobStorage::insert and the assertion that it added something.          *)
Inserted(d) ==
  /\ blobs' = blobs \cup {d}
  /\ pc' = IF d \in blobs THEN "panicked" ELSE "refill"

StoreBlob ==
  /\ pc = "recv" /\ btq # <<>> /\ Head(btq).op = "blob"
  /\ btq' = Tail(btq)
  /\ Inserted(Head(btq).d)
  /\ done_something' = TRUE
  /\ UNCHANGED <<graphVars, digests_iter, backlog, ptq, threads, digest_to_multi_blob>>

StoreMultiBlob ==
  /\ pc = "recv" /\ btq # <<>> /\ Head(btq).op = "multi"
  /\ btq' = Tail(btq)
  /\ Inserted(Head(btq).d)
  /\ digest_to_multi_blob' = [d \in Digests |->
       IF d \in Range(Head(btq).of) THEN Head(btq).d ELSE digest_to_multi_blob[d]]
  /\ done_something' = TRUE
  /\ UNCHANGED <<graphVars, digests_iter, backlog, ptq, threads>>

TakeCount == IF Len(digests_iter) < TakeMax THEN Len(digests_iter) ELSE TakeMax

(* Slip: a digest without a blob is passed on.                             *)
ReadTaskAll(list) == list

(* src.b.get: digests the source has no blob for are left out.             *)
ReadTask(list) == Only(list, Present)

(* Slip: take(10) on a fresh iterator.                                     *)
RefillAgain ==
  /\ pc = "refill"
  /\ pc' = "push"
  /\ IF backlog = <<>> /\ digests_iter # <<>>
     THEN /\ backlog' = [i \in 1..TakeCount |-> ReadTask(digests_iter[i])]
          /\ digests_iter' = IF TakeCount < Len(digests_iter) THEN digests_iter ELSE <<>>
          /\ done_something' = TRUE
     ELSE UNCHANGED <<digests_iter, backlog, done_something>>
  /\ UNCHANGED <<graphVars, ptq, btq, threads, store>>

Refill ==
  /\ pc = "refill"
  /\ pc' = "push"
  /\ IF backlog = <<>> /\ digests_iter # <<>>
     THEN /\ backlog' = [i \in 1..TakeCount |-> ReadTask(digests_iter[i])]
          /\ digests_iter' = SubSeq(digests_iter, TakeCount + 1, Len(digests_iter))
          /\ done_something' = TRUE
     ELSE UNCHANGED <<digests_iter, backlog, done_something>>
  /\ UNCHANGED <<graphVars, ptq, btq, threads, store>>

PtAccepts == Len(ptq) < PtCap /\ alive # {}

(* Slip: what was refused is not pushed back.                              *)
PushDrops ==
  /\ pc = "push" /\ backlog # <<>>
  /\ ptq' = IF PtAccepts THEN Append(ptq, Last(backlog)) ELSE ptq
  /\ backlog' = Front(backlog)
  /\ done_something' = TRUE
  /\ UNCHANGED <<graphVars, digests_iter, btq, threads, pc, store>>

Push ==
  /\ pc = "push" /\ backlog # <<>> /\ PtAccepts
  /\ ptq' = Append(ptq, Last(backlog))
  /\ backlog' = Front(backlog)
  /\ done_something' = TRUE
  /\ UNCHANGED <<graphVars, digests_iter, btq, threads, pc, store>>

PushingEnds == pc = "push" /\ (backlog = <<>> \/ ~PtAccepts)

(* Slip: done_something is never reset.                                    *)
LoopAgainStillDone ==
  /\ PushingEnds /\ (done_something \/ backlog # <<>>)
  /\ pc' = "recv"
  /\ UNCHANGED <<graphVars, digests_iter, backlog, ptq, btq, threads, done_something, store>>

LoopAgain ==
  /\ PushingEnds /\ (done_something \/ backlog # <<>>)
  /\ pc' = "recv"
  /\ done_something' = FALSE
  /\ UNCHANGED <<graphVars, digests_iter, backlog, ptq, btq, threads, store>>

Return ==
  /\ PushingEnds /\ ~done_something /\ backlog = <<>>
  /\ pc' = "returned"
  /\ btq' = <<>>
  /\ UNCHANGED <<graphVars, digests_iter, backlog, ptq, threads, done_something, store>>

MainStep ==
  \/ GraphNext /\ UNCHANGED loopVars
  \/ Start \/ RecvTimeout \/ StoreBlob \/ StoreMultiBlob
  \/ Refill \/ Push \/ LoopAgain \/ Return

Terminated == Over /\ alive = {} /\ UNCHANGED vars

Next == MainStep \/ (\E w \in Workers : WorkerStep(w)) \/ Terminated

Spec == Init /\ [][Next]_vars

(* The operating system runs every thread that is not blocked.             *)
FairSpec == Spec /\ WF_vars(MainStep) /\ \A w \in Workers : WF_vars(WorkerStep(w))

-----------------------------------------------------------------------------
(* Correctness.                                                            *)

Result == [op : {"blob", "multi"}, d : Digests \cup (({"mb"}) \X Seq(Digests)), of : Seq(Digests)]

(* The channels respect their capacities and every variable its type.      *)
TypeOK ==
  /\ phase \in {"build", "roots", "walk", "listed"}
  /\ nodes \subseteq Digests /\ roots \subseteq nodes /\ visited \subseteq nodes
  /\ edges \in Seq(nodes \X nodes)
  /\ mblob_digests \in Seq(nodes) /\ res \in Seq(Seq(nodes))
  /\ digests_iter \in Seq(Seq(Digests))
  /\ backlog \in Seq(Seq(Present))
  /\ ptq \in Seq(Seq(Present)) /\ Len(ptq) <= PtCap
  /\ btq \in Seq(Result) /\ Len(btq) <= BtCap
  /\ held \in [Workers -> Seq(Result)]
  /\ alive \subseteq Workers
  /\ pc \in {"graph", "recv", "refill", "push", "returned", "panicked"}
  /\ blobs \subseteq Digests \cup ({"mb"} \X Seq(Digests))

(* The assertions that a blob or multi blob is not in the storage already  *)
(* hold: the lists share no blob, and each is taken once                   *)
(* (blob_crate_storage.rs:428, 439).                                       *)
NothingStoredTwice == pc # "panicked"

(* An entry of digest_to_multi_blob is made when the blob can be had: a    *)
(* text from its multi blob, and a blob that is no text, for which there   *)
(* is an entry as well (line 378), from the storage.  The worker sends the *)
(* latter first and nothing overtakes in the channel.                      *)
EntryMeansStored ==
  \A d \in Digests : digest_to_multi_blob[d] # NoDigest =>
    /\ digest_to_multi_blob[d] \in blobs
    /\ d \in Range(digest_to_multi_blob[d][2]) \cup blobs

Drained ==
  /\ Running /\ digests_iter = <<>> /\ backlog = <<>> /\ ptq = <<>> /\ btq = <<>>
  /\ \A w \in Workers : held[w] = <<>>

(* When all work is done each blob the source has is in the destination    *)
(* once, as a blob or in one multi blob, if any root of the graph leads to *)
(* it; what only cycles lead to is in none.                                *)
DrainedMeansStored ==
  Drained => \A d \in nodes \cap Present :
    LET homes == {b \in blobs : b = d \/ (b \notin Digests /\ d \in Range(b[2]))}
    IN Cardinality(homes) = IF Reached(d) THEN 1 ELSE 0

(* store_parallel_mb returns and every thread ends.                        *)
AllThreadsEnd == <>(Over /\ alive = {})
=============================================================================
