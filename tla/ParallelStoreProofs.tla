------------------------- MODULE ParallelStoreProofs -------------------------
(***************************************************************************)
(* Proofs of the safety properties of ParallelStore for any number of      *)
(* workers, crates and blobs and for any capacities.                       *)
(*                                                                         *)
(*   TypeCorrect    the type invariant                                     *)
(*   BlobsNotLost   a blob that is to be stored is stored or in flight     *)
(*   BlobsOnce      it is in one place only, so the assertion in StoreBlob *)
(*                  never fails while filling an empty storage             *)
(*   NamedCratesOnTheirWay  so are all blobs of a crate that has a name    *)
(*   BacklogStaysBounded    whole archives wait in the backlog by the      *)
(*                  handful only                                           *)
(*   DrainedIsComplete      when all work is done, the crates that can be  *)
(*                  rebuilt are stored, with all their blobs               *)
(***************************************************************************)
EXTENDS ParallelStore, TLAPS

Task == ParallelTask \cup BlockingTask

-----------------------------------------------------------------------------
(* Queues: what taking a task off one end and putting one on the other do  *)
(* to the blobs in it.                                                     *)

LEMMA AppendType ==
  ASSUME NEW T, NEW q \in Seq(T), NEW t \in T
  PROVE  /\ Append(q, t) \in Seq(T)
         /\ Len(Append(q, t)) = Len(q) + 1
         /\ \A i \in 1..Len(q) : Append(q, t)[i] = q[i]
         /\ Append(q, t)[Len(q) + 1] = t
OBVIOUS

LEMMA TailType ==
  ASSUME NEW T, NEW q \in Seq(T), q # <<>>
  PROVE  /\ Head(q) \in T /\ Head(q) = q[1]
         /\ Tail(q) \in Seq(T)
         /\ Len(Tail(q)) = Len(q) - 1
         /\ \A i \in 1..Len(Tail(q)) : Tail(q)[i] = q[i + 1]
OBVIOUS

(* The stack without its top.                                              *)
Below(q) == SubSeq(q, 1, Len(q) - 1)

LEMMA BelowType ==
  ASSUME NEW T, NEW q \in Seq(T), q # <<>>
  PROVE  /\ Len(q) \in Nat \ {0}
         /\ q[Len(q)] \in T
         /\ Below(q) \in Seq(T)
         /\ Len(Below(q)) = Len(q) - 1
         /\ \A i \in 1..Len(Below(q)) : Below(q)[i] = q[i]
<1>1. Len(q) \in Nat \ {0}
  OBVIOUS
<1>2. q[Len(q)] \in T
  BY <1>1
<1>3. \A i \in 1..(Len(q) - 1) : q[i] \in T
  BY <1>1
<1>4. Below(q) = [i \in 1..(Len(q) - 1) |-> q[i]]
  BY <1>1 DEF Below
<1>5. Below(q) \in Seq(T) /\ Len(Below(q)) = Len(q) - 1
  BY <1>1, <1>3, <1>4
<1> QED  BY <1>1, <1>2, <1>4, <1>5

-----------------------------------------------------------------------------
(* The type invariant.                                                     *)

LEMMA ResultType ==
  ASSUME NEW t \in ParallelTask
  PROVE  ResultOf(t) \in BlockingTask
BY ConstantsOK DEF ParallelTask, BlockingTask, ResultOf

LEMMA ArchivesType ==
  ASSUME source \in Seq(Crates), NEW n \in 0..Len(source)
  PROVE  Archives(n) \in Seq(ParallelTask) /\ Len(Archives(n)) = n
<1>1. n \in Nat /\ \A i \in 1..n : source[i] \in Crates
  OBVIOUS
<1>2. \A i \in 1..n : [op |-> "obtain", of |-> source[i]] \in ParallelTask
  BY <1>1 DEF ParallelTask
<1> QED  BY <1>1, <1>2 DEF Archives

LEMMA BlobsOfType == ASSUME NEW c \in Crates PROVE BlobsOf(c) \subseteq Digests
BY ConstantsOK DEF BlobsOf, Range

LEMMA TypeInit == Init => TypeOK
<1> SUFFICES ASSUME Init PROVE TypeOK
  OBVIOUS
<1>1. blobs \subseteq Digests
  BY BlobsOfType, ConstantsOK DEF Init
<1>2. name_index \in [Crates -> Digests \cup {NoDigest}]
  BY ConstantsOK DEF Init
<1>3. Len(<<>>) <= PtCap /\ Len(<<>>) <= BtCap
  BY ConstantsOK
<1>4. held \in [Workers -> BlockingTask \cup {NoTask}] /\ alive \subseteq Workers
  BY DEF Init
<1>5. source \in Seq(Crates)
  BY ConstantsOK DEF Init
<1>6. backlog \in Seq(ParallelTask) /\ ptq \in Seq(ParallelTask) /\ btq \in Seq(BlockingTask)
  BY DEF Init
<1>7. /\ Len(ptq) <= PtCap /\ Len(btq) <= BtCap
  BY <1>3 DEF Init
<1>8. /\ pc \in {"recv", "entries", "refill", "push", "returned", "panicked"}
      /\ cur \in Crates \cup {NoTask}
      /\ pc = "entries" <=> cur # NoTask
      /\ pos \in Nat \ {0}
      /\ blobs_to_store \subseteq Digests
  BY DEF Init
<1>9. done_something \in BOOLEAN
  BY DEF Init
<1> QED  BY <1>1, <1>2, <1>4, <1>5, <1>6, <1>7, <1>8, <1>9 DEF TypeOK

LEMMA TypeStep == TypeOK /\ [Next]_vars => TypeOK'
<1> SUFFICES ASSUME TypeOK, [Next]_vars PROVE TypeOK'
  OBVIOUS
<1> USE ConstantsOK, NoTaskOK DEF TypeOK
<1>1. ASSUME NEW w \in Workers, WorkerTake(w) PROVE TypeOK'
  <2>1. Head(ptq) \in ParallelTask /\ Tail(ptq) \in Seq(ParallelTask)
        /\ Len(Tail(ptq)) <= PtCap
    BY <1>1, TailType DEF WorkerTake
  <2>2. ResultOf(Head(ptq)) \in BlockingTask
    BY <2>1, ResultType
  <2> QED  BY <1>1, <2>1, <2>2 DEF WorkerTake, loop, store
<1>2. ASSUME NEW w \in Workers, WorkerPanics(w) PROVE TypeOK'
  <2>1. Tail(ptq) \in Seq(ParallelTask) /\ Len(Tail(ptq)) <= PtCap
    BY <1>2, TailType DEF WorkerPanics
  <2> QED  BY <1>2, <2>1 DEF WorkerPanics, loop, store
<1>3. ASSUME NEW w \in Workers, WorkerEmit(w) PROVE TypeOK'
  <2>1. held[w] \in BlockingTask
    BY <1>3 DEF WorkerEmit
  <2>2. btq' \in Seq(BlockingTask) /\ Len(btq') <= BtCap
    BY <1>3, <2>1, AppendType DEF WorkerEmit
  <2> QED  BY <1>3, <2>2 DEF WorkerEmit, loop, store
<1>4. ASSUME NEW w \in Workers, WorkerSendFails(w) PROVE TypeOK'
  BY <1>4 DEF WorkerSendFails, loop, store, channels
<1>5. ASSUME NEW w \in Workers, WorkerExit(w) PROVE TypeOK'
  BY <1>5 DEF WorkerExit, loop, store, channels
<1>6. CASE RecvTimeout
  BY <1>6 DEF RecvTimeout, channels, threads, store
<1>7. CASE StoreCrateUndeduplicated
  <2>1. Tail(btq) \in Seq(BlockingTask) /\ Len(Tail(btq)) <= BtCap
    BY <1>7, TailType DEF StoreCrateUndeduplicated, Received
  <2> QED  BY <1>7, <2>1 DEF StoreCrateUndeduplicated, Received, threads, store
<1>8. CASE StoreBlob
  <2>1. Tail(btq) \in Seq(BlockingTask) /\ Len(Tail(btq)) <= BtCap /\ Head(btq) \in BlockingTask
    BY <1>8, TailType DEF StoreBlob, Received
  <2>2. Head(btq).of \in Digests
    BY <1>8, <2>1 DEF StoreBlob, Received, BlockingTask
  <2> QED  BY <1>8, <2>1, <2>2 DEF StoreBlob, Received, threads
<1>9. CASE StoreCrateContentBlobs
  <2>1. Tail(btq) \in Seq(BlockingTask) /\ Len(Tail(btq)) <= BtCap /\ Head(btq) \in BlockingTask
    BY <1>9, TailType DEF StoreCrateContentBlobs, Received
  <2>2. Head(btq).of \in Crates
    BY <1>9, <2>1 DEF StoreCrateContentBlobs, Received, BlockingTask
  <2> QED  BY <1>9, <2>1, <2>2 DEF StoreCrateContentBlobs, Received, threads, store
<1>10. ASSUME NEW d \in Digests, CompressIfNew(d)
       PROVE  backlog' \in Seq(ParallelTask) /\ blobs_to_store' \subseteq Digests
  BY <1>10, AppendType DEF CompressIfNew, ParallelTask
<1>11. CASE StoreEntry
  <2>1. cur \in Crates /\ Entries[cur][pos] \in Digests
    BY <1>11 DEF StoreEntry
  <2> QED  BY <1>11, <1>10, <2>1 DEF StoreEntry, channels, threads
<1>12. CASE StoreMeta
  <2>1. cur \in Crates /\ Meta[cur] \in Digests
    BY <1>12 DEF StoreMeta
  <2> QED  BY <1>12, <1>10, <2>1 DEF StoreMeta, channels, threads
<1>13. CASE Refill
  <2>1. TakeCount \in 0..Len(source)
    BY DEF TakeCount
  <2>2. Archives(TakeCount) \in Seq(ParallelTask)
    BY <2>1, ArchivesType
  <2>3. SubSeq(source, TakeCount + 1, Len(source)) \in Seq(Crates)
    BY <2>1
  <2> QED  BY <1>13, <2>1, <2>2, <2>3 DEF Refill, channels, threads, store
<1>14. CASE Push
  <2>1. backlog[Len(backlog)] \in ParallelTask /\ Below(backlog) \in Seq(ParallelTask)
    BY <1>14, BelowType DEF Push
  <2>2. ptq' \in Seq(ParallelTask) /\ Len(ptq') <= PtCap
    BY <1>14, <2>1, AppendType DEF Push, PtAccepts
  <2> QED  BY <1>14, <2>1, <2>2 DEF Push, threads, store, Below
<1>15. CASE LoopAgain
  BY <1>15 DEF LoopAgain, PushingEnds, channels, threads, store
<1>16. CASE Return
  BY <1>16 DEF Return, PushingEnds, threads, store
<1>17. CASE UNCHANGED vars
  BY <1>17 DEF vars, channels, threads, loop, store
<1> QED
  BY <1>1, <1>2, <1>3, <1>4, <1>5, <1>6, <1>7, <1>8, <1>9, <1>11, <1>12, <1>13, <1>14,
     <1>15, <1>16, <1>17
  DEF Next, MainStep, HandleBlockingTask, WorkerStep, Terminated

(* Channels keep their capacities and the threads their types.             *)
THEOREM TypeCorrect == Spec => []TypeOK
BY TypeInit, TypeStep, PTL DEF Spec

-----------------------------------------------------------------------------
(* The blobs in a queue and in the workers' hands.                         *)

LEMMA DigestsAppend ==
  ASSUME NEW T, NEW q \in Seq(T), NEW t \in T
  PROVE  DigestsIn(Append(q, t)) = DigestsIn(q) \cup DigestOf(t)
<1>1. /\ DOMAIN q = 1..Len(q) /\ DOMAIN Append(q, t) = 1..(Len(q) + 1)
      /\ Len(q) \in Nat
  BY AppendType
<1>2. DOMAIN Append(q, t) = DOMAIN q \cup {Len(q) + 1}
  BY <1>1
<1> QED  BY <1>1, <1>2, AppendType DEF DigestsIn

LEMMA DigestsTail ==
  ASSUME NEW T, NEW q \in Seq(T), q # <<>>
  PROVE  DigestsIn(q) = DigestOf(Head(q)) \cup DigestsIn(Tail(q))
<1>1. /\ DOMAIN q = 1..Len(q) /\ DOMAIN Tail(q) = 1..(Len(q) - 1)
      /\ Len(q) \in Nat \ {0} /\ Head(q) = q[1]
      /\ \A i \in DOMAIN Tail(q) : Tail(q)[i] = q[i + 1]
  BY TailType
<1>2. \A i \in DOMAIN q : i = 1 \/ (i - 1 \in DOMAIN Tail(q) /\ q[i] = Tail(q)[i - 1])
  BY <1>1
<1>3. \A i \in DOMAIN Tail(q) : i + 1 \in DOMAIN q
  BY <1>1
<1>4. DigestsIn(q) \subseteq DigestOf(Head(q)) \cup DigestsIn(Tail(q))
  BY <1>1, <1>2 DEF DigestsIn
<1>5. DigestOf(Head(q)) \subseteq DigestsIn(q)
  BY <1>1 DEF DigestsIn
<1>6. DigestsIn(Tail(q)) \subseteq DigestsIn(q)
  BY <1>1, <1>3 DEF DigestsIn
<1> QED  BY <1>4, <1>5, <1>6

LEMMA DigestsBelow ==
  ASSUME NEW T, NEW q \in Seq(T), q # <<>>
  PROVE  DigestsIn(q) = DigestOf(q[Len(q)]) \cup DigestsIn(Below(q))
<1>1. /\ DOMAIN q = 1..Len(q) /\ DOMAIN Below(q) = 1..(Len(q) - 1)
      /\ Len(q) \in Nat \ {0}
      /\ \A i \in DOMAIN Below(q) : Below(q)[i] = q[i]
  BY BelowType
<1>2. DOMAIN q = DOMAIN Below(q) \cup {Len(q)}
  BY <1>1
<1> QED  BY <1>1, <1>2 DEF DigestsIn

LEMMA NoDigests ==
  /\ DigestsIn(<<>>) = {} /\ DigestOf(NoTask) = {}
  /\ \A n \in Nat : DigestsIn(Archives(n)) = {}
<1>1. DigestsIn(<<>>) = {}
  BY DEF DigestsIn
<1>2. DigestOf(NoTask) = {}
  BY NoTaskOK DEF DigestOf, BlobTask, ParallelTask, BlockingTask
<1>3. ASSUME NEW n \in Nat PROVE DigestsIn(Archives(n)) = {}
  <2>1. \A i \in DOMAIN Archives(n) : DigestOf(Archives(n)[i]) = {}
    BY DEF Archives, DigestOf, BlobTask
  <2> QED  BY <2>1 DEF DigestsIn
<1> QED  BY <1>1, <1>2, <1>3

(* Compressing keeps the digest.                                           *)
LEMMA ResultDigest ==
  ASSUME NEW t \in ParallelTask
  PROVE  DigestOf(ResultOf(t)) = DigestOf(t)
BY DEF DigestOf, ResultOf, BlobTask, ParallelTask

LEMMA HeldPut ==
  ASSUME TypeOK, NEW w \in Workers, held[w] = NoTask, NEW t, held' = [held EXCEPT ![w] = t]
  PROVE  DigestsHeld' = DigestsHeld \cup DigestOf(t)
<1>1. held'[w] = t /\ \A v \in Workers \ {w} : held'[v] = held[v]
  BY DEF TypeOK
<1> QED  BY <1>1, NoDigests DEF DigestsHeld

LEMMA HeldDrop ==
  ASSUME TypeOK, NEW w \in Workers, held' = [held EXCEPT ![w] = NoTask]
  PROVE  DigestsHeld = DigestsHeld' \cup DigestOf(held[w])
<1>1. held'[w] = NoTask /\ \A v \in Workers \ {w} : held'[v] = held[v]
  BY DEF TypeOK
<1> QED  BY <1>1, NoDigests DEF DigestsHeld

-----------------------------------------------------------------------------
(* What is put on its way stays there, whoever takes it.                   *)
LEMMA BlobsNotLostStep ==
  TypeOK /\ NoBlobLost /\ [Next]_vars => NoBlobLost'
<1> SUFFICES ASSUME TypeOK, NoBlobLost, [Next]_vars, Running' PROVE (blobs_to_store \subseteq blobs \cup InFlight)'
  BY DEF NoBlobLost
<1>0. TypeOK'
  BY TypeStep
<1>1. ASSUME NEW w \in Workers, WorkerTake(w) PROVE NoBlobLost'
  <2>1. DigestsIn(ptq) = DigestOf(Head(ptq)) \cup DigestsIn(ptq')
    BY <1>1, DigestsTail DEF WorkerTake, TypeOK
  <2>2. DigestsHeld' = DigestsHeld \cup DigestOf(Head(ptq))
    <3>1. Head(ptq) \in ParallelTask
      BY <1>1, TailType DEF WorkerTake, TypeOK
    <3>2. DigestsHeld' = DigestsHeld \cup DigestOf(ResultOf(Head(ptq)))
      BY <1>1, HeldPut DEF WorkerTake, Idle
    <3> QED  BY <3>1, <3>2, ResultDigest
  <2> QED  BY <1>1, <2>1, <2>2 DEF WorkerTake, NoBlobLost, InFlight, Running, loop, store
<1>2. ASSUME NEW w \in Workers, WorkerPanics(w) PROVE NoBlobLost'
  <2>1. DigestsIn(ptq) = DigestOf(Head(ptq)) \cup DigestsIn(ptq')
    BY <1>2, DigestsTail DEF WorkerPanics, TypeOK
  <2>2. DigestOf(Head(ptq)) = {}
    BY <1>2 DEF WorkerPanics, Panics, DigestOf, BlobTask
  <2>3. DigestsHeld' = DigestsHeld
    BY <1>2 DEF WorkerPanics, DigestsHeld
  <2> QED  BY <1>2, <2>1, <2>2, <2>3 DEF WorkerPanics, NoBlobLost, InFlight, Running, loop, store
<1>3. ASSUME NEW w \in Workers, WorkerEmit(w) PROVE NoBlobLost'
  <2>1. held[w] \in BlockingTask
    BY <1>3 DEF WorkerEmit, TypeOK
  <2>2. DigestsIn(btq') = DigestsIn(btq) \cup DigestOf(held[w])
    BY <1>3, <2>1, DigestsAppend DEF WorkerEmit, TypeOK
  <2>3. DigestsHeld = DigestsHeld' \cup DigestOf(held[w])
    BY <1>3, HeldDrop DEF WorkerEmit
  <2> QED  BY <1>3, <2>2, <2>3 DEF WorkerEmit, NoBlobLost, InFlight, Running, loop, store
<1>4. ASSUME NEW w \in Workers, WorkerSendFails(w) \/ WorkerExit(w) PROVE FALSE
  BY <1>4 DEF WorkerSendFails, WorkerExit, Running, loop
<1>5. CASE RecvTimeout
  <2>1. DigestsHeld' = DigestsHeld
    BY <1>5 DEF RecvTimeout, DigestsHeld, threads
  <2> QED  BY <1>5, <2>1 DEF RecvTimeout, NoBlobLost, InFlight, Running, channels, threads, store
<1>6. CASE StoreCrateUndeduplicated
  <2>1. DigestsIn(btq) = DigestOf(Head(btq)) \cup DigestsIn(btq') /\ DigestOf(Head(btq)) = {}
    BY <1>6, DigestsTail DEF StoreCrateUndeduplicated, Received, TypeOK, DigestOf, BlobTask
  <2>2. DigestsHeld' = DigestsHeld
    BY <1>6 DEF StoreCrateUndeduplicated, DigestsHeld, threads
  <2> QED  BY <1>6, <2>1, <2>2
           DEF StoreCrateUndeduplicated, Received, NoBlobLost, InFlight, Running, threads, store
<1>7. CASE StoreBlob
  <2>1. DigestsIn(btq) = DigestOf(Head(btq)) \cup DigestsIn(btq')
    BY <1>7, DigestsTail DEF StoreBlob, Received, TypeOK
  <2>2. DigestOf(Head(btq)) \subseteq {Head(btq).of}
    BY DEF DigestOf
  <2>3. DigestsHeld' = DigestsHeld
    BY <1>7 DEF StoreBlob, DigestsHeld, threads
  <2> QED  BY <1>7, <2>1, <2>2, <2>3
           DEF StoreBlob, Received, NoBlobLost, InFlight, Running, threads
<1>8. CASE StoreCrateContentBlobs
  <2>1. DigestsIn(btq) = DigestOf(Head(btq)) \cup DigestsIn(btq') /\ DigestOf(Head(btq)) = {}
    BY <1>8, DigestsTail DEF StoreCrateContentBlobs, Received, TypeOK, DigestOf, BlobTask
  <2>2. DigestsHeld' = DigestsHeld
    BY <1>8 DEF StoreCrateContentBlobs, DigestsHeld, threads
  <2> QED  BY <1>8, <2>1, <2>2
           DEF StoreCrateContentBlobs, Received, NoBlobLost, InFlight, Running, threads, store
<1>9. ASSUME NEW d \in Digests, CompressIfNew(d), Running, blobs' = blobs, UNCHANGED <<channels, threads>>
      PROVE  NoBlobLost'
  <2>1. DigestsIn(backlog') = IF d \in blobs_to_store THEN DigestsIn(backlog)
                              ELSE DigestsIn(backlog) \cup {d}
    <3>1. [op |-> "compress", of |-> d] \in ParallelTask /\ DigestOf([op |-> "compress", of |-> d]) = {d}
      BY DEF ParallelTask, DigestOf, BlobTask
    <3>2. CASE d \in blobs_to_store
      BY <1>9, <3>2 DEF CompressIfNew
    <3>3. CASE d \notin blobs_to_store
      <4>1. backlog' = Append(backlog, [op |-> "compress", of |-> d])
        BY <1>9, <3>3 DEF CompressIfNew
      <4>2. backlog \in Seq(ParallelTask)
        BY DEF TypeOK
      <4>3. DigestsIn(backlog') = DigestsIn(backlog) \cup DigestOf([op |-> "compress", of |-> d])
        BY <3>1, <4>1, <4>2, DigestsAppend
      <4> QED  BY <3>1, <3>3, <4>3
    <3> QED  BY <3>2, <3>3
  <2>2. DigestsHeld' = DigestsHeld
    BY <1>9 DEF DigestsHeld, threads
  <2> QED  BY <1>9, <2>1, <2>2 DEF CompressIfNew, NoBlobLost, InFlight, channels
<1>10. CASE StoreEntry
  <2>1. Entries[cur][pos] \in Digests
    BY <1>10, ConstantsOK DEF StoreEntry, TypeOK
  <2> QED  BY <1>10, <1>9, <2>1 DEF StoreEntry, NoBlobLost, Running, threads, channels
<1>11. CASE StoreMeta
  <2>1. Meta[cur] \in Digests
    BY <1>11, ConstantsOK DEF StoreMeta, TypeOK
  <2> QED  BY <1>11, <1>9, <2>1 DEF StoreMeta, NoBlobLost, Running, threads, channels
<1>12. CASE Refill
  <2>1. DigestsIn(backlog') = DigestsIn(backlog)
    <3>1. TakeCount \in Nat
      BY ConstantsOK DEF TakeCount, TypeOK
    <3> QED  BY <1>12, <3>1, NoDigests DEF Refill
  <2>2. DigestsHeld' = DigestsHeld
    BY <1>12 DEF Refill, DigestsHeld, threads
  <2> QED  BY <1>12, <2>1, <2>2 DEF Refill, NoBlobLost, InFlight, Running, channels, store
<1>13. CASE Push
  <2>1. DigestsIn(backlog) = DigestOf(backlog[Len(backlog)]) \cup DigestsIn(backlog')
    BY <1>13, DigestsBelow DEF Push, Below, TypeOK
  <2>2. DigestsIn(ptq') = DigestsIn(ptq) \cup DigestOf(backlog[Len(backlog)])
    BY <1>13, DigestsAppend, BelowType DEF Push, TypeOK
  <2>3. DigestsHeld' = DigestsHeld
    BY <1>13 DEF Push, DigestsHeld, threads
  <2> QED  BY <1>13, <2>1, <2>2, <2>3 DEF Push, NoBlobLost, InFlight, Running, store
<1>14. CASE LoopAgain
  <2>1. DigestsHeld' = DigestsHeld
    BY <1>14 DEF LoopAgain, DigestsHeld, threads
  <2> QED  BY <1>14, <2>1 DEF LoopAgain, PushingEnds, NoBlobLost, InFlight, Running, channels, store
<1>15. CASE Return
  BY <1>15 DEF Return, Running
<1>16. CASE UNCHANGED vars
  <2>1. DigestsHeld' = DigestsHeld
    BY <1>16 DEF vars, DigestsHeld, threads
  <2> QED  BY <1>16, <2>1 DEF vars, NoBlobLost, InFlight, Running, channels, threads, loop, store
<1> QED
  BY <1>1, <1>2, <1>3, <1>4, <1>5, <1>6, <1>7, <1>8, <1>10, <1>11, <1>12, <1>13, <1>14, <1>15, <1>16
  DEF NoBlobLost, Next, MainStep, HandleBlockingTask, WorkerStep, Terminated

(* Whatever the scheduling, the capacities and the crates have in common,  *)
(* no blob that was announced to blobs_to_store gets lost in the queues.   *)
THEOREM BlobsNotLost == Spec => []NoBlobLost
<1>1. Init => NoBlobLost
  BY DEF Init, NoBlobLost
<1> QED  BY <1>1, TypeCorrect, BlobsNotLostStep, PTL DEF Spec

-----------------------------------------------------------------------------
(* A blob that has not been stored is in one place only.  This is more     *)
(* than NoBlobTwice says and what makes it inductive: each of the queues,  *)
(* the workers' hands and the storage hold blobs of their own, all of them *)
(* announced, so that a digest which is not announced is nowhere.          *)

Meets(A, B) == A \cap B # {}

Once(q) == \A i, j \in DOMAIN q : Meets(DigestOf(q[i]), DigestOf(q[j])) => i = j

OnceHeld == \A v, w \in Workers : Meets(DigestOf(held[v]), DigestOf(held[w])) => v = w

Apart ==
  /\ ~Meets(DigestsIn(backlog), DigestsIn(ptq) \cup DigestsHeld \cup DigestsIn(btq) \cup blobs)
  /\ ~Meets(DigestsIn(ptq), DigestsHeld \cup DigestsIn(btq) \cup blobs)
  /\ ~Meets(DigestsHeld, DigestsIn(btq) \cup blobs)
  /\ ~Meets(DigestsIn(btq), blobs)

OnePlace ==
  /\ pc # "panicked"
  /\ Once(backlog) /\ Once(ptq) /\ Once(btq) /\ OnceHeld
  /\ Apart
  /\ InFlight \cup blobs \subseteq blobs_to_store

LEMMA OnceAppend ==
  ASSUME NEW T, NEW q \in Seq(T), NEW t \in T, Once(q), ~Meets(DigestsIn(q), DigestOf(t))
  PROVE  Once(Append(q, t))
<1>1. /\ DOMAIN q = 1..Len(q) /\ DOMAIN Append(q, t) = DOMAIN q \cup {Len(q) + 1}
      /\ \A i \in DOMAIN q : Append(q, t)[i] = q[i]
      /\ Append(q, t)[Len(q) + 1] = t
  BY AppendType
<1>2. \A i \in DOMAIN q : ~Meets(DigestOf(q[i]), DigestOf(t))
  BY DEF Meets, DigestsIn
<1> QED  BY <1>1, <1>2 DEF Once, Meets

LEMMA OnceTail ==
  ASSUME NEW T, NEW q \in Seq(T), q # <<>>, Once(q)
  PROVE  Once(Tail(q)) /\ ~Meets(DigestOf(Head(q)), DigestsIn(Tail(q)))
<1>1. /\ DOMAIN q = 1..Len(q) /\ DOMAIN Tail(q) = 1..(Len(q) - 1)
      /\ Len(q) \in Nat \ {0} /\ Head(q) = q[1]
      /\ \A i \in DOMAIN Tail(q) : Tail(q)[i] = q[i + 1]
  BY TailType
<1>2. \A i \in DOMAIN Tail(q) : i \in Nat /\ i + 1 \in DOMAIN q /\ i + 1 # 1
  BY <1>1
<1>3. \A i \in DOMAIN Tail(q) : ~Meets(DigestOf(Head(q)), DigestOf(Tail(q)[i]))
  BY <1>1, <1>2 DEF Once
<1>4. Once(Tail(q))
  <2>1. \A i, j \in DOMAIN Tail(q) : i + 1 = j + 1 => i = j
    BY <1>2
  <2> QED  BY <1>1, <1>2, <2>1 DEF Once
<1> QED  BY <1>3, <1>4 DEF DigestsIn, Meets

LEMMA OnceBelow ==
  ASSUME NEW T, NEW q \in Seq(T), q # <<>>, Once(q)
  PROVE  Once(Below(q)) /\ ~Meets(DigestOf(q[Len(q)]), DigestsIn(Below(q)))
<1>1. /\ DOMAIN q = 1..Len(q) /\ DOMAIN Below(q) = 1..(Len(q) - 1)
      /\ Len(q) \in Nat \ {0}
      /\ \A i \in DOMAIN Below(q) : Below(q)[i] = q[i]
  BY BelowType
<1>2. \A i \in DOMAIN Below(q) : i \in DOMAIN q /\ i # Len(q)
  BY <1>1
<1>3. Len(q) \in DOMAIN q
  BY <1>1
<1> QED  BY <1>1, <1>2, <1>3 DEF Once, DigestsIn, Meets

LEMMA OnceNothing == Once(<<>>) /\ \A n \in Nat : Once(Archives(n))
<1>1. ASSUME NEW n \in Nat PROVE Once(Archives(n))
  <2>1. \A i \in DOMAIN Archives(n) : DigestOf(Archives(n)[i]) = {}
    BY DEF Archives, DigestOf, BlobTask
  <2> QED  BY <2>1 DEF Once, Meets
<1> QED  BY <1>1 DEF Once

LEMMA HeldOncePut ==
  ASSUME TypeOK, OnceHeld, NEW w \in Workers, held[w] = NoTask, NEW t,
         held' = [held EXCEPT ![w] = t], ~Meets(DigestsHeld, DigestOf(t))
  PROVE  OnceHeld'
<1>1. held'[w] = t /\ \A v \in Workers \ {w} : held'[v] = held[v]
  BY DEF TypeOK
<1>2. \A v \in Workers : ~Meets(DigestOf(held[v]), DigestOf(t))
  BY DEF DigestsHeld, Meets
<1> QED  BY <1>1, <1>2 DEF OnceHeld, Meets

LEMMA HeldOnceDrop ==
  ASSUME TypeOK, OnceHeld, NEW w \in Workers, held' = [held EXCEPT ![w] = NoTask]
  PROVE  OnceHeld' /\ ~Meets(DigestOf(held[w]), DigestsHeld')
<1>1. held'[w] = NoTask /\ \A v \in Workers \ {w} : held'[v] = held[v]
  BY DEF TypeOK
<1>2. OnceHeld'
  BY <1>1, NoDigests DEF OnceHeld, Meets
<1>3. ASSUME NEW v \in Workers \ {w} PROVE ~Meets(DigestOf(held[w]), DigestOf(held[v]))
  BY DEF OnceHeld
<1>4. \A v \in Workers : ~Meets(DigestOf(held[w]), DigestOf(held'[v]))
  BY <1>1, <1>3, NoDigests DEF Meets
<1> QED  BY <1>2, <1>4 DEF DigestsHeld, Meets

LEMMA HeldSame ==
  ASSUME held' = held
  PROVE  DigestsHeld' = DigestsHeld /\ (OnceHeld => OnceHeld')
BY DEF DigestsHeld, OnceHeld

LEMMA OnePlaceStep ==
  TypeOK /\ OnePlace /\ [Next]_vars => OnePlace'
<1> SUFFICES ASSUME TypeOK, OnePlace, [Next]_vars PROVE OnePlace'
  OBVIOUS
<1>1. ASSUME NEW w \in Workers, WorkerTake(w) PROVE OnePlace'
  <2>1. Head(ptq) \in ParallelTask /\ ptq \in Seq(ParallelTask) /\ ptq # <<>>
    BY <1>1, TailType DEF WorkerTake, TypeOK
  <2>2. /\ DigestsIn(ptq) = DigestOf(Head(ptq)) \cup DigestsIn(ptq')
        /\ Once(ptq') /\ ~Meets(DigestOf(Head(ptq)), DigestsIn(ptq'))
    BY <1>1, <2>1, DigestsTail, OnceTail DEF WorkerTake, OnePlace
  <2>3. ~Meets(DigestsHeld, DigestOf(Head(ptq)))
    BY <2>2 DEF OnePlace, Apart, Meets
  <2>4. DigestsHeld' = DigestsHeld \cup DigestOf(Head(ptq)) /\ OnceHeld'
    <3>1. DigestOf(ResultOf(Head(ptq))) = DigestOf(Head(ptq))
      BY <2>1, ResultDigest
    <3> QED  BY <1>1, <2>3, <3>1, HeldPut, HeldOncePut DEF WorkerTake, Idle, OnePlace
  <2> QED  BY <1>1, <2>2, <2>4 DEF WorkerTake, OnePlace, Apart, InFlight, Meets, loop, store
<1>2. ASSUME NEW w \in Workers, WorkerPanics(w) PROVE OnePlace'
  <2>1. /\ DigestsIn(ptq) = DigestOf(Head(ptq)) \cup DigestsIn(ptq')
        /\ Once(ptq')
    BY <1>2, DigestsTail, OnceTail DEF WorkerPanics, OnePlace, TypeOK
  <2>2. DigestsHeld' = DigestsHeld /\ OnceHeld'
    BY <1>2, HeldSame DEF WorkerPanics, OnePlace
  <2> QED  BY <1>2, <2>1, <2>2 DEF WorkerPanics, OnePlace, Apart, InFlight, Meets, loop, store
<1>3. ASSUME NEW w \in Workers, WorkerEmit(w) PROVE OnePlace'
  <2>1. held[w] \in BlockingTask /\ btq \in Seq(BlockingTask)
    BY <1>3 DEF WorkerEmit, TypeOK
  <2>2. /\ DigestsHeld = DigestsHeld' \cup DigestOf(held[w])
        /\ OnceHeld' /\ ~Meets(DigestOf(held[w]), DigestsHeld')
    BY <1>3, HeldDrop, HeldOnceDrop DEF WorkerEmit, OnePlace
  <2>3. ~Meets(DigestsIn(btq), DigestOf(held[w]))
    BY <2>2 DEF OnePlace, Apart, Meets
  <2>4. DigestsIn(btq') = DigestsIn(btq) \cup DigestOf(held[w]) /\ Once(btq')
    BY <1>3, <2>1, <2>3, DigestsAppend, OnceAppend DEF WorkerEmit, OnePlace
  <2> QED  BY <1>3, <2>2, <2>4 DEF WorkerEmit, OnePlace, Apart, InFlight, Meets, loop, store
<1>4. ASSUME NEW w \in Workers, WorkerSendFails(w) PROVE OnePlace'
  <2>1. DigestsHeld = DigestsHeld' \cup DigestOf(held[w]) /\ OnceHeld'
    BY <1>4, HeldDrop, HeldOnceDrop DEF WorkerSendFails, OnePlace
  <2> QED  BY <1>4, <2>1 DEF WorkerSendFails, OnePlace, Apart, InFlight, Meets, channels, loop, store
<1>5. ASSUME NEW w \in Workers, WorkerExit(w) PROVE OnePlace'
  <2>1. DigestsHeld' = DigestsHeld /\ OnceHeld'
    BY <1>5, HeldSame DEF WorkerExit, OnePlace
  <2> QED  BY <1>5, <2>1 DEF WorkerExit, OnePlace, Apart, InFlight, channels, loop, store
<1>6. CASE RecvTimeout
  <2>1. DigestsHeld' = DigestsHeld /\ OnceHeld'
    BY <1>6, HeldSame DEF RecvTimeout, threads, OnePlace
  <2> QED  BY <1>6, <2>1 DEF RecvTimeout, OnePlace, Apart, InFlight, channels, store
<1>7. CASE StoreCrateUndeduplicated
  <2>1. /\ DigestsIn(btq) = DigestOf(Head(btq)) \cup DigestsIn(btq')
        /\ Once(btq')
    BY <1>7, DigestsTail, OnceTail DEF StoreCrateUndeduplicated, Received, OnePlace, TypeOK
  <2>2. DigestsHeld' = DigestsHeld /\ OnceHeld'
    BY <1>7, HeldSame DEF StoreCrateUndeduplicated, threads, OnePlace
  <2> QED  BY <1>7, <2>1, <2>2 DEF StoreCrateUndeduplicated, OnePlace, Apart, InFlight, Meets, store
<1>8. CASE StoreBlob
  <2>1. Head(btq) \in BlockingTask /\ btq \in Seq(BlockingTask) /\ btq # <<>>
    BY <1>8, TailType DEF StoreBlob, Received, TypeOK
  <2>2. DigestOf(Head(btq)) = {Head(btq).of}
    BY <1>8, <2>1 DEF StoreBlob, Received, DigestOf, BlobTask, BlockingTask
  <2>3. /\ DigestsIn(btq) = DigestOf(Head(btq)) \cup DigestsIn(btq')
        /\ Once(btq') /\ ~Meets(DigestOf(Head(btq)), DigestsIn(btq'))
    BY <1>8, <2>1, DigestsTail, OnceTail DEF StoreBlob, OnePlace
  <2>4. DigestsHeld' = DigestsHeld /\ OnceHeld'
    BY <1>8, HeldSame DEF StoreBlob, threads, OnePlace
  <2>5. Head(btq).of \notin blobs
    BY <2>2, <2>3 DEF OnePlace, Apart, Meets
  <2>6. pc' # "panicked"
    BY <1>8, <2>5 DEF StoreBlob
  <2> QED  BY <1>8, <2>2, <2>3, <2>4, <2>6 DEF StoreBlob, OnePlace, Apart, InFlight, Meets
<1>9. CASE StoreCrateContentBlobs
  <2>1. /\ DigestsIn(btq) = DigestOf(Head(btq)) \cup DigestsIn(btq')
        /\ Once(btq')
    BY <1>9, DigestsTail, OnceTail DEF StoreCrateContentBlobs, Received, OnePlace, TypeOK
  <2>2. DigestsHeld' = DigestsHeld /\ OnceHeld'
    BY <1>9, HeldSame DEF StoreCrateContentBlobs, threads, OnePlace
  <2> QED  BY <1>9, <2>1, <2>2 DEF StoreCrateContentBlobs, OnePlace, Apart, InFlight, Meets, store
<1>10. ASSUME NEW d \in Digests, CompressIfNew(d), pc' # "panicked", blobs' = blobs,
              UNCHANGED <<channels, threads>>
       PROVE  OnePlace'
  <2>1. DigestsHeld' = DigestsHeld /\ OnceHeld'
    BY <1>10, HeldSame DEF threads, OnePlace
  <2>2. CASE d \in blobs_to_store
    BY <1>10, <2>1, <2>2 DEF CompressIfNew, OnePlace, Apart, InFlight, Meets, channels
  <2>3. CASE d \notin blobs_to_store
    <3> DEFINE t == [op |-> "compress", of |-> d]
    <3>1. t \in ParallelTask /\ DigestOf(t) = {d}
      BY DEF ParallelTask, DigestOf, BlobTask
    <3>2. backlog' = Append(backlog, t) /\ backlog \in Seq(ParallelTask)
      BY <1>10, <2>3 DEF CompressIfNew, TypeOK
    <3>3. d \notin InFlight \cup blobs
      BY <2>3 DEF OnePlace
    <3>4. ~Meets(DigestsIn(backlog), DigestOf(t))
      BY <3>1, <3>3 DEF InFlight, Meets
    <3> HIDE DEF t
    <3>5. DigestsIn(backlog') = DigestsIn(backlog) \cup {d} /\ Once(backlog')
      <4>1. DigestsIn(backlog') = DigestsIn(backlog) \cup DigestOf(t)
        BY <3>1, <3>2, DigestsAppend
      <4>2. Once(backlog)
        BY DEF OnePlace
      <4>3. Once(backlog')
        BY <3>1, <3>2, <3>4, <4>2, OnceAppend
      <4> QED  BY <3>1, <4>1, <4>3
    <3> QED  BY <1>10, <2>1, <3>3, <3>5 DEF CompressIfNew, OnePlace, Apart, InFlight, Meets, channels
  <2> QED  BY <2>2, <2>3
<1>11. CASE StoreEntry
  <2>1. Entries[cur][pos] \in Digests
    BY <1>11, ConstantsOK DEF StoreEntry, TypeOK
  <2> QED  BY <1>11, <1>10, <2>1 DEF StoreEntry, threads, channels
<1>12. CASE StoreMeta
  <2>1. Meta[cur] \in Digests
    BY <1>12, ConstantsOK DEF StoreMeta, TypeOK
  <2> QED  BY <1>12, <1>10, <2>1 DEF StoreMeta, threads, channels
<1>13. CASE Refill
  <2>1. DigestsIn(backlog') = DigestsIn(backlog) /\ Once(backlog')
    <3>1. TakeCount \in Nat
      BY ConstantsOK DEF TakeCount, TypeOK
    <3> QED  BY <1>13, <3>1, NoDigests, OnceNothing DEF Refill, OnePlace
  <2>2. DigestsHeld' = DigestsHeld /\ OnceHeld'
    BY <1>13, HeldSame DEF Refill, threads, OnePlace
  <2> QED  BY <1>13, <2>1, <2>2 DEF Refill, OnePlace, Apart, InFlight, channels, store
<1>14. CASE Push
  <2> DEFINE t == backlog[Len(backlog)]
  <2>1. /\ backlog \in Seq(ParallelTask) /\ ptq \in Seq(ParallelTask)
        /\ backlog # <<>> /\ t \in ParallelTask
    BY <1>14, BelowType DEF Push, TypeOK
  <2>2. /\ DigestsIn(backlog) = DigestOf(t) \cup DigestsIn(backlog')
        /\ Once(backlog') /\ ~Meets(DigestOf(t), DigestsIn(backlog'))
    BY <1>14, <2>1, DigestsBelow, OnceBelow DEF Push, Below, OnePlace
  <2> HIDE DEF t
  <2>3. ~Meets(DigestsIn(ptq), DigestOf(t))
    BY <2>2 DEF OnePlace, Apart, Meets
  <2>4. DigestsIn(ptq') = DigestsIn(ptq) \cup DigestOf(t) /\ Once(ptq')
    <3>1. ptq' = Append(ptq, t)
      BY <1>14 DEF Push, t
    <3> QED  BY <2>1, <2>3, <3>1, DigestsAppend, OnceAppend DEF OnePlace
  <2>5. DigestsHeld' = DigestsHeld /\ OnceHeld'
    BY <1>14, HeldSame DEF Push, threads, OnePlace
  <2> QED  BY <1>14, <2>2, <2>4, <2>5 DEF Push, OnePlace, Apart, InFlight, Meets, store
<1>15. CASE LoopAgain
  <2>1. DigestsHeld' = DigestsHeld /\ OnceHeld'
    BY <1>15, HeldSame DEF LoopAgain, threads, OnePlace
  <2> QED  BY <1>15, <2>1 DEF LoopAgain, OnePlace, Apart, InFlight, channels, store
<1>16. CASE Return
  <2>1. DigestsHeld' = DigestsHeld /\ OnceHeld'
    BY <1>16, HeldSame DEF Return, threads, OnePlace
  <2>2. DigestsIn(btq') = {} /\ Once(btq')
    BY <1>16, NoDigests, OnceNothing DEF Return
  <2> QED  BY <1>16, <2>1, <2>2 DEF Return, OnePlace, Apart, InFlight, Meets, store
<1>17. CASE UNCHANGED vars
  <2>1. DigestsHeld' = DigestsHeld /\ OnceHeld'
    BY <1>17, HeldSame DEF vars, threads, OnePlace
  <2> QED  BY <1>17, <2>1 DEF vars, OnePlace, Apart, InFlight, channels, loop, store
<1> QED
  BY <1>1, <1>2, <1>3, <1>4, <1>5, <1>6, <1>7, <1>8, <1>9, <1>11, <1>12, <1>13, <1>14,
     <1>15, <1>16, <1>17
  DEF Next, MainStep, HandleBlockingTask, WorkerStep, Terminated

(* Filling an empty storage never trips over a blob that is there already: *)
(* blobs_to_store is check enough, whichever worker compresses what when.  *)
THEOREM BlobsOnce == Spec => []NoBlobTwice
<1>1. Init => (Stored = {} => OnePlace)
  <2> SUFFICES ASSUME Init, Stored = {} PROVE OnePlace
    OBVIOUS
  <2>1. blobs = {} /\ DigestsHeld = {} /\ OnceHeld
    BY NoDigests DEF Init, DigestsHeld, OnceHeld, Meets
  <2> QED  BY <2>1, NoDigests, OnceNothing DEF Init, OnePlace, Apart, InFlight, Meets
<1>2. TypeOK /\ (Stored = {} => OnePlace) /\ [Next]_vars => (Stored = {} => OnePlace)'
  BY OnePlaceStep
<1>3. (Stored = {} => OnePlace) => NoBlobTwice
  BY DEF OnePlace, NoBlobTwice
<1> QED  BY <1>1, <1>2, <1>3, TypeCorrect, PTL DEF Spec

-----------------------------------------------------------------------------
(* A named crate.  While the entries of a crate are gone through, those    *)
(* before pos have been announced; with the last of them and the metadata  *)
(* the name is entered.  Neither set ever shrinks.                         *)

Announced == blobs_to_store \cup blobs

NamedAnnounced ==
  /\ \A c \in Crates : name_index[c] # NoDigest => BlobsOf(c) \subseteq Announced
  /\ pc = "entries" => \A i \in 1..Len(Entries[cur]) : i < pos => Entries[cur][i] \in Announced
  /\ pc # "entries" => pos = 1

LEMMA AnnouncedStays ==
  ASSUME [Next]_vars
  PROVE  blobs_to_store \subseteq blobs_to_store' /\ blobs \subseteq blobs'
BY DEF Next, MainStep, HandleBlockingTask, WorkerStep, Terminated, WorkerTake, WorkerPanics,
       WorkerEmit, WorkerSendFails, WorkerExit, RecvTimeout, StoreCrateUndeduplicated, StoreBlob,
       StoreCrateContentBlobs, StoreEntry, StoreMeta, CompressIfNew, Refill, Push, LoopAgain,
       Return, vars, store

LEMMA NamedAnnouncedStep ==
  TypeOK /\ NamedAnnounced /\ [Next]_vars => NamedAnnounced'
<1> SUFFICES ASSUME TypeOK, NamedAnnounced, [Next]_vars PROVE NamedAnnounced'
  OBVIOUS
<1>1. Announced \subseteq Announced'
  BY AnnouncedStays DEF Announced
<1>2. CASE StoreCrateContentBlobs
  <2>1. Head(btq).of \in Crates
    BY <1>2, TailType DEF StoreCrateContentBlobs, Received, TypeOK, BlockingTask
  <2>2. \A i \in 1..Len(Entries[Head(btq).of]) : ~(i < 1)
    BY <2>1, ConstantsOK
  <2> QED  BY <1>1, <1>2, <2>2 DEF StoreCrateContentBlobs, Received, NamedAnnounced, store
<1>3. CASE StoreEntry
  <2>1. cur \in Crates /\ pos \in Nat /\ Len(Entries[cur]) \in Nat
    BY <1>3, ConstantsOK DEF StoreEntry, TypeOK
  <2>2. Entries[cur][pos] \in Announced'
    BY <1>3 DEF StoreEntry, CompressIfNew, Announced
  <2>3. \A i \in 1..Len(Entries[cur]) : i < pos + 1 => i < pos \/ i = pos
    BY <2>1
  <2>4. \A i \in 1..Len(Entries[cur]) : i < pos + 1 => Entries[cur][i] \in Announced'
    BY <1>1, <1>3, <2>2, <2>3 DEF StoreEntry, NamedAnnounced
  <2> QED  BY <1>1, <1>3, <2>4 DEF StoreEntry, NamedAnnounced
<1>4. CASE StoreMeta
  <2>1. cur \in Crates /\ pos \in Nat /\ Entries[cur] \in Seq(Digests)
    BY <1>4, ConstantsOK DEF StoreMeta, TypeOK
  <2>2. Meta[cur] \in Announced'
    BY <1>4 DEF StoreMeta, CompressIfNew, Announced
  <2>3. \A i \in 1..Len(Entries[cur]) : i < pos
    BY <1>4, <2>1 DEF StoreMeta
  <2>4. \A i \in 1..Len(Entries[cur]) : Entries[cur][i] \in Announced'
    BY <1>1, <1>4, <2>3 DEF StoreMeta, NamedAnnounced
  <2>5. BlobsOf(cur) \subseteq Announced'
    BY <2>1, <2>2, <2>4 DEF BlobsOf, Range
  <2>6. \A c \in Crates \ {cur} : name_index'[c] = name_index[c]
    BY <1>4 DEF StoreMeta, TypeOK
  <2> QED  BY <1>1, <1>4, <2>5, <2>6 DEF StoreMeta, NamedAnnounced
<1>5. ASSUME pc' # "entries", pc # "entries", pos' = pos, name_index' = name_index
      PROVE  NamedAnnounced'
  BY <1>1, <1>5 DEF NamedAnnounced
<1>6. ASSUME UNCHANGED <<loop, name_index>>
      PROVE  NamedAnnounced'
  BY <1>1, <1>6 DEF NamedAnnounced, loop
<1>7. CASE \E w \in Workers : WorkerStep(w)
  BY <1>6, <1>7 DEF WorkerStep, WorkerTake, WorkerPanics, WorkerEmit, WorkerSendFails,
     WorkerExit, store
<1>8. CASE RecvTimeout \/ StoreCrateUndeduplicated \/ StoreBlob
  BY <1>5, <1>8 DEF RecvTimeout, StoreCrateUndeduplicated, StoreBlob, Received, store
<1>9. CASE Refill \/ Push \/ LoopAgain \/ Return
  BY <1>5, <1>9 DEF Refill, Push, LoopAgain, Return, PushingEnds, store
<1>10. CASE UNCHANGED vars
  BY <1>6, <1>10 DEF vars, store
<1> QED
  BY <1>2, <1>3, <1>4, <1>7, <1>8, <1>9, <1>10
  DEF Next, MainStep, HandleBlockingTask, Terminated

(* Once a crate has a name its blobs are stored or on their way, those     *)
(* another crate brought in included, also when crates were stored before. *)
THEOREM NamedCratesOnTheirWay == Spec => []NamedCrateOnItsWay
<1>1. Init => NamedAnnounced
  <2> SUFFICES ASSUME Init PROVE NamedAnnounced
    OBVIOUS
  <2>1. ASSUME NEW c \in Crates, name_index[c] # NoDigest
        PROVE  BlobsOf(c) \subseteq Announced
    BY <2>1 DEF Init, Announced
  <2> QED  BY <2>1 DEF Init, NamedAnnounced
<1>2. NamedAnnounced /\ NoBlobLost => NamedCrateOnItsWay
  BY DEF NamedAnnounced, NoBlobLost, NamedCrateOnItsWay, Announced
<1> QED  BY <1>1, <1>2, NamedAnnouncedStep, TypeCorrect, BlobsNotLost, PTL DEF Spec

-----------------------------------------------------------------------------
(* When nothing is left to do: these proofs follow the crates, where those *)
(* before follow the blobs.                                                *)
(*                                                                         *)
(* The backlog.  A compress task goes on top of the archives; archives go  *)
(* into an empty backlog only.                                             *)

LEMMA BoundedCompress ==
  ASSUME TypeOK, BacklogBounded, NEW d \in Digests, CompressIfNew(d)
  PROVE  BacklogBounded'
<1> DEFINE t == [op |-> "compress", of |-> d]
<1>1. CASE d \in blobs_to_store
  BY <1>1 DEF CompressIfNew, BacklogBounded
<1>2. CASE d \notin blobs_to_store
  <2>1. backlog' = Append(backlog, t) /\ t \in ParallelTask /\ t.op # "obtain"
    BY <1>2 DEF CompressIfNew, ParallelTask
  <2> HIDE DEF t
  <2>2. backlog \in Seq(ParallelTask)
    BY DEF TypeOK
  <2>3. /\ Len(backlog) \in Nat /\ DOMAIN backlog = 1..Len(backlog)
        /\ DOMAIN backlog' = 1..(Len(backlog) + 1)
        /\ \A i \in 1..Len(backlog) : backlog'[i] = backlog[i]
        /\ backlog'[Len(backlog) + 1] = t
    BY <2>1, <2>2, AppendType
  <2>4. PICK n \in 0..TakeMax : \A i \in DOMAIN backlog : backlog[i].op = "obtain" <=> i <= n
    BY DEF BacklogBounded
  <2>5. CASE n <= Len(backlog)
    BY <2>1, <2>3, <2>4, <2>5, ConstantsOK DEF BacklogBounded
  <2>6. CASE n > Len(backlog)
    <3>1. Len(backlog) \in 0..TakeMax
      BY <2>3, <2>4, <2>6, ConstantsOK
    <3>2. \A i \in DOMAIN backlog' : backlog'[i].op = "obtain" <=> i <= Len(backlog)
      BY <2>1, <2>3, <2>4, <2>6, ConstantsOK
    <3> QED  BY <3>1, <3>2 DEF BacklogBounded
  <2> QED  BY <2>3, <2>4, <2>5, <2>6, ConstantsOK
<1> QED  BY <1>1, <1>2

LEMMA BacklogBoundedStep == TypeOK /\ BacklogBounded /\ [Next]_vars => BacklogBounded'
<1> SUFFICES ASSUME TypeOK, BacklogBounded, [Next]_vars PROVE BacklogBounded'
  OBVIOUS
<1>1. CASE StoreEntry
  <2>1. Entries[cur][pos] \in Digests
    BY <1>1, ConstantsOK DEF StoreEntry, TypeOK
  <2> QED  BY <1>1, <2>1, BoundedCompress DEF StoreEntry
<1>2. CASE StoreMeta
  <2>1. Meta[cur] \in Digests
    BY <1>2, ConstantsOK DEF StoreMeta, TypeOK
  <2> QED  BY <1>2, <2>1, BoundedCompress DEF StoreMeta
<1>3. CASE Refill
  <2>1. TakeCount \in 0..TakeMax
    BY ConstantsOK DEF TakeCount, TypeOK
  <2>2. \A i \in DOMAIN Archives(TakeCount) : Archives(TakeCount)[i].op = "obtain" <=> i <= TakeCount
    BY <2>1, ConstantsOK DEF Archives
  <2>3. CASE backlog = <<>>
    <3>1. backlog' = Archives(TakeCount)
      BY <1>3, <2>3 DEF Refill
    <3> QED  BY <2>1, <2>2, <3>1 DEF BacklogBounded
  <2>4. CASE backlog # <<>>
    BY <1>3, <2>4 DEF Refill, BacklogBounded
  <2> QED  BY <2>3, <2>4
<1>4. CASE Push
  <2>1. backlog' = Below(backlog) /\ backlog # <<>> /\ backlog \in Seq(ParallelTask)
    BY <1>4 DEF Push, Below, TypeOK
  <2>2. /\ DOMAIN backlog = 1..Len(backlog) /\ DOMAIN backlog' = 1..(Len(backlog) - 1)
        /\ Len(backlog) \in Nat
        /\ \A i \in DOMAIN backlog' : backlog'[i] = backlog[i]
    BY <2>1, BelowType
  <2>3. DOMAIN backlog' \subseteq DOMAIN backlog
    BY <2>2
  <2> QED  BY <2>2, <2>3 DEF BacklogBounded
<1>5. CASE backlog' = backlog
  BY <1>5 DEF BacklogBounded
<1> QED
  BY <1>1, <1>2, <1>3, <1>4, <1>5
  DEF Next, MainStep, HandleBlockingTask, WorkerStep, Terminated, WorkerTake, WorkerPanics,
      WorkerEmit, WorkerSendFails, WorkerExit, RecvTimeout, StoreCrateUndeduplicated, StoreBlob,
      StoreCrateContentBlobs, LoopAgain, Return, vars

(* However slow the workers are, at most one handful of archives waits.    *)
THEOREM BacklogStaysBounded == Spec => []BacklogBounded
<1>1. Init => BacklogBounded
  <2>1. 0 \in 0..TakeMax /\ DOMAIN <<>> = {}
    BY ConstantsOK
  <2> QED  BY <2>1 DEF Init, BacklogBounded
<1> QED  BY <1>1, BacklogBoundedStep, TypeCorrect, PTL DEF Spec

-----------------------------------------------------------------------------
(* Where a crate is.  All tasks of all queues and hands in one set: what a *)
(* step takes out of one place it puts, or its result, into another.       *)

Obtain(c) == [op |-> "obtain", of |-> c]
Content(c) == [op |-> "content", of |-> c]

Tasks == Range(backlog) \cup Range(ptq) \cup Range(held) \cup Range(btq)

Due(c) ==
  c \in Range(source) \/ Obtain(c) \in Tasks \/ Content(c) \in Tasks \/ cur = c

(* No crate is forgotten: it is due, or has its name.                      *)
CratesKept ==
  Running => \A c \in Range(Source) : Kind[c] = "exact" => Due(c) \/ name_index[c] = Meta[c]

(* Only crates that can be rebuilt get as far as the name index.           *)
OnlyExact ==
  /\ \A c \in Crates : Content(c) \in Tasks => Kind[c] = "exact"
  /\ cur # NoTask => Kind[cur] = "exact"
  /\ \A c \in Crates : name_index[c] # NoDigest =>
       name_index[c] = Meta[c] /\ (c \in Stored \/ Kind[c] = "exact")

LEMMA RangeAppended ==
  ASSUME NEW T, NEW q \in Seq(T), NEW t \in T
  PROVE  Range(Append(q, t)) = Range(q) \cup {t}
<1>1. /\ DOMAIN q = 1..Len(q) /\ DOMAIN Append(q, t) = DOMAIN q \cup {Len(q) + 1}
      /\ \A i \in DOMAIN q : Append(q, t)[i] = q[i]
      /\ Append(q, t)[Len(q) + 1] = t
  BY AppendType
<1> QED  BY <1>1 DEF Range

LEMMA RangeOfTail ==
  ASSUME NEW T, NEW q \in Seq(T), q # <<>>
  PROVE  Range(q) = {Head(q)} \cup Range(Tail(q))
<1>1. /\ DOMAIN q = 1..Len(q) /\ DOMAIN Tail(q) = 1..(Len(q) - 1)
      /\ Len(q) \in Nat \ {0} /\ Head(q) = q[1]
      /\ \A i \in DOMAIN Tail(q) : Tail(q)[i] = q[i + 1]
  BY TailType
<1>2. \A i \in DOMAIN q : i = 1 \/ (i - 1 \in DOMAIN Tail(q) /\ q[i] = Tail(q)[i - 1])
  BY <1>1
<1>3. \A i \in DOMAIN Tail(q) : i + 1 \in DOMAIN q
  BY <1>1
<1>4. Range(q) \subseteq {Head(q)} \cup Range(Tail(q))
  BY <1>1, <1>2 DEF Range
<1>5. Head(q) \in Range(q) /\ Range(Tail(q)) \subseteq Range(q)
  BY <1>1, <1>3 DEF Range
<1> QED  BY <1>4, <1>5

LEMMA RangeOfBelow ==
  ASSUME NEW T, NEW q \in Seq(T), q # <<>>
  PROVE  Range(q) = {q[Len(q)]} \cup Range(Below(q))
<1>1. /\ DOMAIN q = 1..Len(q) /\ DOMAIN Below(q) = 1..(Len(q) - 1)
      /\ Len(q) \in Nat \ {0}
      /\ \A i \in DOMAIN Below(q) : Below(q)[i] = q[i]
  BY BelowType
<1>2. DOMAIN q = DOMAIN Below(q) \cup {Len(q)}
  BY <1>1
<1> QED  BY <1>1, <1>2 DEF Range

LEMMA RangeHeld ==
  ASSUME TypeOK, NEW w \in Workers, NEW t, held' = [held EXCEPT ![w] = t]
  PROVE  /\ Range(held') \subseteq Range(held) \cup {t}
         /\ Range(held) \subseteq Range(held') \cup {held[w]}
         /\ t \in Range(held') /\ held[w] \in Range(held)
<1>1. /\ DOMAIN held = Workers /\ DOMAIN held' = Workers
      /\ held'[w] = t /\ \A v \in Workers \ {w} : held'[v] = held[v]
  BY DEF TypeOK
<1> QED  BY <1>1 DEF Range

(* The crates that one refill pulls, and those it leaves.                  *)
LEMMA RangeRefill ==
  ASSUME TypeOK, Refill, backlog = <<>>
  PROVE  /\ \A c \in Range(source) : c \in Range(source') \/ Obtain(c) \in Range(backlog')
         /\ \A t \in Range(backlog') : t.op = "obtain"
<1>1. /\ TakeCount \in 0..Len(source) /\ Len(source) \in Nat
      /\ DOMAIN source = 1..Len(source) /\ source \in Seq(Crates)
  BY ConstantsOK DEF TakeCount, TypeOK
<1>2. /\ backlog' = [i \in 1..TakeCount |-> [op |-> "obtain", of |-> source[i]]]
      /\ source' = SubSeq(source, TakeCount + 1, Len(source))
  BY DEF Refill, Archives
<1>3. source' = [i \in 1..(Len(source) - TakeCount) |-> source[TakeCount + i]]
  BY <1>1, <1>2
<1>4. ASSUME NEW i \in 1..Len(source)
      PROVE  source[i] \in Range(source') \/ Obtain(source[i]) \in Range(backlog')
  <2>1. CASE i <= TakeCount
    <3>1. i \in DOMAIN backlog' /\ backlog'[i] = Obtain(source[i])
      BY <1>1, <1>2, <2>1 DEF Obtain
    <3> QED  BY <3>1 DEF Range
  <2>2. CASE i > TakeCount
    <3>1. i - TakeCount \in DOMAIN source' /\ source'[i - TakeCount] = source[i]
      BY <1>1, <1>3, <2>2
    <3> QED  BY <3>1 DEF Range
  <2> QED  BY <1>1, <2>1, <2>2
<1>5. \A c \in Range(source) : \E i \in 1..Len(source) : c = source[i]
  BY <1>1 DEF Range
<1>6. \A t \in Range(backlog') : t.op = "obtain"
  <2>1. \A i \in DOMAIN backlog' : backlog'[i].op = "obtain"
    BY <1>2
  <2> QED  BY <2>1 DEF Range
<1> QED  BY <1>4, <1>5, <1>6

LEMMA TasksDiffer ==
  ASSUME NEW c \in Crates
  PROVE  /\ Obtain(c) \in ParallelTask /\ Content(c) \in BlockingTask
         /\ Obtain(c) \notin BlockingTask /\ Content(c) \notin ParallelTask
         /\ Obtain(c) # NoTask /\ Content(c) # NoTask
<1>1. Obtain(c) \in ParallelTask /\ Content(c) \in BlockingTask
  BY DEF Obtain, Content, ParallelTask, BlockingTask
<1>2. Obtain(c) \notin BlockingTask /\ Content(c) \notin ParallelTask
  BY DEF Obtain, Content, ParallelTask, BlockingTask
<1> QED  BY <1>1, <1>2, NoTaskOK

(* The result of unpacking an archive that can be rebuilt is its content,  *)
(* and no other task has it as a result.                                   *)
LEMMA ResultOfArchive ==
  ASSUME NEW c \in Crates
  PROVE  /\ Kind[c] = "exact" => ResultOf(Obtain(c)) = Content(c)
         /\ \A t \in ParallelTask : ResultOf(t) = Content(c) => Kind[c] = "exact"
<1>1. Kind[c] = "exact" => ResultOf(Obtain(c)) = Content(c)
  BY DEF ResultOf, Obtain, Content
<1>2. ASSUME NEW t \in ParallelTask, ResultOf(t) = Content(c) PROVE Kind[c] = "exact"
  <2>1. ResultOf(t).op = "content" /\ ResultOf(t).of = c
    BY <1>2 DEF Content
  <2>2. ResultOf(t).of = t.of
    BY DEF ResultOf
  <2>3. Kind[t.of] = "exact"
    BY <2>1 DEF ResultOf
  <2> QED  BY <2>1, <2>2, <2>3
<1> QED  BY <1>1, <1>2

LEMMA DrainStep ==
  TypeOK /\ CratesKept /\ OnlyExact /\ [Next]_vars => CratesKept' /\ OnlyExact'
<1> SUFFICES ASSUME TypeOK, CratesKept, OnlyExact, [Next]_vars PROVE CratesKept' /\ OnlyExact'
  OBVIOUS
<1>0. Range(Source) \subseteq Crates
  BY ConstantsOK DEF Range
<1>1. ASSUME source' = source, cur' = cur, name_index' = name_index, Running' => Running,
             \A c \in Crates : Kind[c] = "exact" /\ Obtain(c) \in Tasks =>
               Obtain(c) \in Tasks' \/ Content(c) \in Tasks',
             \A c \in Crates : Content(c) \in Tasks => Content(c) \in Tasks',
             \A c \in Crates : Content(c) \in Tasks' => Content(c) \in Tasks \/ Kind[c] = "exact"
      PROVE  CratesKept' /\ OnlyExact'
  <2>1. CratesKept'
    BY <1>0, <1>1 DEF CratesKept, Due
  <2>2. OnlyExact'
    BY <1>1 DEF OnlyExact
  <2> QED  BY <2>1, <2>2
<1>2. ASSUME ~Running', cur' = cur, name_index' = name_index,
             \A c \in Crates : Content(c) \in Tasks' => Content(c) \in Tasks
      PROVE  CratesKept' /\ OnlyExact'
  BY <1>2 DEF CratesKept, OnlyExact
<1>3. ASSUME NEW w \in Workers, WorkerTake(w) PROVE CratesKept' /\ OnlyExact'
  <2> DEFINE t == Head(ptq)
  <2>1. t \in ParallelTask /\ ptq # <<>> /\ ptq \in Seq(ParallelTask)
    BY <1>3, TailType DEF WorkerTake, TypeOK
  <2>2. Range(ptq) = {t} \cup Range(ptq')
    BY <1>3, <2>1, RangeOfTail DEF WorkerTake
  <2>3. held' = [held EXCEPT ![w] = ResultOf(t)] /\ held[w] = NoTask
    BY <1>3 DEF WorkerTake, Idle
  <2> HIDE DEF t
  <2>4. /\ Range(held') \subseteq Range(held) \cup {ResultOf(t)}
        /\ Range(held) \subseteq Range(held') \cup {NoTask}
        /\ ResultOf(t) \in Range(held')
    BY <2>3, RangeHeld
  <2>5. UNCHANGED <<source, backlog, btq, loop, store>>
    BY <1>3 DEF WorkerTake
  <2>6. Tasks \subseteq Tasks' \cup {t, NoTask} /\ Tasks' \subseteq Tasks \cup {ResultOf(t)}
        /\ ResultOf(t) \in Tasks'
    BY <2>2, <2>4, <2>5 DEF Tasks
  <2>7. ASSUME NEW c \in Crates, Kind[c] = "exact", Obtain(c) \in Tasks
        PROVE  Obtain(c) \in Tasks' \/ Content(c) \in Tasks'
    BY <2>6, <2>7, TasksDiffer, ResultOfArchive
  <2>8. ASSUME NEW c \in Crates, Content(c) \in Tasks PROVE Content(c) \in Tasks'
    BY <2>1, <2>6, <2>8, TasksDiffer
  <2>9. ASSUME NEW c \in Crates, Content(c) \in Tasks' PROVE Content(c) \in Tasks \/ Kind[c] = "exact"
    BY <2>1, <2>6, <2>9, ResultOfArchive
  <2> QED  BY <1>1, <2>5, <2>7, <2>8, <2>9 DEF Running, loop, store
<1>4. ASSUME NEW w \in Workers, WorkerPanics(w) PROVE CratesKept' /\ OnlyExact'
  <2> DEFINE t == Head(ptq)
  <2>1. t \in ParallelTask /\ t.op = "obtain" /\ Kind[t.of] = "nogz"
    BY <1>4, TailType DEF WorkerPanics, Panics, TypeOK
  <2>2. Range(ptq) = {t} \cup Range(ptq')
    BY <1>4, RangeOfTail DEF WorkerPanics, TypeOK
  <2> HIDE DEF t
  <2>3. UNCHANGED <<source, backlog, btq, held, loop, store>>
    BY <1>4 DEF WorkerPanics
  <2>4. Tasks = Tasks' \cup {t}
    BY <2>2, <2>3 DEF Tasks
  <2>5. \A c \in Crates : Kind[c] = "exact" => t # Obtain(c)
    BY <2>1 DEF Obtain
  <2>6. \A c \in Crates : t # Content(c)
    BY <2>1, TasksDiffer
  <2> QED  BY <1>1, <2>3, <2>4, <2>5, <2>6 DEF Running, loop, store
<1>5. ASSUME NEW w \in Workers, WorkerEmit(w) PROVE CratesKept' /\ OnlyExact'
  <2>1. held[w] \in BlockingTask /\ btq' = Append(btq, held[w])
    BY <1>5 DEF WorkerEmit, TypeOK
  <2>2. Range(btq') = Range(btq) \cup {held[w]}
    BY <2>1, RangeAppended DEF TypeOK
  <2>3. /\ Range(held') \subseteq Range(held) \cup {NoTask}
        /\ Range(held) \subseteq Range(held') \cup {held[w]}
        /\ held[w] \in Range(held)
    BY <1>5, RangeHeld DEF WorkerEmit
  <2>4. UNCHANGED <<source, backlog, ptq, loop, store>>
    BY <1>5 DEF WorkerEmit
  <2>5. Tasks \subseteq Tasks' /\ Tasks' \subseteq Tasks \cup {NoTask}
    BY <2>2, <2>3, <2>4 DEF Tasks
  <2> QED  BY <1>1, <2>4, <2>5, TasksDiffer DEF Running, loop, store
<1>6. ASSUME NEW w \in Workers, WorkerSendFails(w) PROVE CratesKept' /\ OnlyExact'
  <2>1. Range(held') \subseteq Range(held) \cup {NoTask}
    BY <1>6, RangeHeld DEF WorkerSendFails
  <2>2. ~Running' /\ UNCHANGED <<source, backlog, channels, loop, store>>
    BY <1>6 DEF WorkerSendFails, Running, loop
  <2>3. Tasks' \subseteq Tasks \cup {NoTask}
    BY <2>1, <2>2 DEF Tasks, channels
  <2> QED  BY <1>2, <2>2, <2>3, TasksDiffer DEF loop, store
<1>7. ASSUME UNCHANGED <<source, backlog, channels, held, cur, name_index>>, Running' => Running
      PROVE  CratesKept' /\ OnlyExact'
  <2>1. Tasks' = Tasks
    BY <1>7 DEF Tasks, channels
  <2> QED  BY <1>1, <1>7, <2>1
<1>8. ASSUME StoreCrateUndeduplicated \/ StoreBlob PROVE CratesKept' /\ OnlyExact'
  <2> DEFINE t == Head(btq)
  <2>1. t \in BlockingTask /\ t.op # "content"
    BY <1>8, TailType DEF StoreCrateUndeduplicated, StoreBlob, Received, TypeOK
  <2>2. Range(btq) = {t} \cup Range(btq')
    BY <1>8, RangeOfTail DEF StoreCrateUndeduplicated, StoreBlob, Received, TypeOK
  <2> HIDE DEF t
  <2>3. UNCHANGED <<source, backlog, ptq, threads, cur, name_index>> /\ Running
    BY <1>8 DEF StoreCrateUndeduplicated, StoreBlob, Received, Running, store
  <2>4. Tasks = Tasks' \cup {t}
    BY <2>2, <2>3 DEF Tasks, threads
  <2>5. \A c \in Crates : t # Content(c) /\ t # Obtain(c)
    <3>1. \A c \in Crates : Content(c).op = "content"
      BY DEF Content
    <3> QED  BY <2>1, <3>1, TasksDiffer
  <2> QED  BY <1>1, <2>3, <2>4, <2>5
<1>9. CASE StoreCrateContentBlobs
  <2> DEFINE t == Head(btq)
  <2>1. t \in BlockingTask /\ t.op = "content"
    BY <1>9, TailType DEF StoreCrateContentBlobs, Received, TypeOK
  <2>2. Range(btq) = {t} \cup Range(btq')
    BY <1>9, RangeOfTail DEF StoreCrateContentBlobs, Received, TypeOK
  <2>3. cur' = t.of /\ cur = NoTask
    BY <1>9 DEF StoreCrateContentBlobs, Received, TypeOK
  <2> HIDE DEF t
  <2>4. UNCHANGED <<source, backlog, ptq, threads, name_index>> /\ Running
    BY <1>9 DEF StoreCrateContentBlobs, Received, Running, store
  <2>5. t.of \in Crates /\ t = Content(t.of)
    BY <2>1 DEF Content, BlockingTask
  <2>6. Tasks = Tasks' \cup {Content(cur')} /\ cur' \in Crates
    BY <2>2, <2>3, <2>4, <2>5 DEF Tasks, threads
  <2>7. \A c \in Crates : Obtain(c) # Content(cur') /\ c # NoTask
    BY <2>6, TasksDiffer, NoTaskOK
  <2>8. \A c \in Crates : Content(c) = Content(cur') => c = cur'
    BY DEF Content
  <2>9. CratesKept'
    <3>1. ASSUME NEW c \in Crates, Due(c) PROVE Due(c)'
      BY <2>3, <2>4, <2>6, <2>7, <2>8, <3>1 DEF Due
    <3> QED  BY <1>0, <2>4, <3>1 DEF CratesKept
  <2>10. OnlyExact'
    BY <2>4, <2>6 DEF OnlyExact
  <2> QED  BY <2>9, <2>10
<1>10. ASSUME NEW d \in Digests, CompressIfNew(d), UNCHANGED <<channels, threads>>
       PROVE  /\ Tasks \subseteq Tasks'
              /\ \A c \in Crates : Content(c) \in Tasks' => Content(c) \in Tasks
  <2> DEFINE t == [op |-> "compress", of |-> d]
  <2>1. backlog \in Seq(ParallelTask) /\ t \in ParallelTask
    BY DEF TypeOK, ParallelTask
  <2>2. \A c \in Crates : t # Content(c)
    BY DEF Content
  <2>3. backlog' = backlog \/ backlog' = Append(backlog, t)
    BY <1>10 DEF CompressIfNew
  <2> HIDE DEF t
  <2>4. Range(backlog) \subseteq Range(backlog') /\ Range(backlog') \subseteq Range(backlog) \cup {t}
    <3>1. CASE backlog' = backlog
      BY <3>1
    <3>2. CASE backlog' = Append(backlog, t)
      <4>1. Range(backlog') = Range(backlog) \cup {t}
        BY <2>1, <3>2, RangeAppended
      <4> QED  BY <4>1
    <3> QED  BY <2>3, <3>1, <3>2
  <2> QED  BY <1>10, <2>2, <2>4 DEF Tasks, channels, threads
<1>11. CASE StoreEntry
  <2>1. Entries[cur][pos] \in Digests
    BY <1>11, ConstantsOK DEF StoreEntry, TypeOK
  <2>2. UNCHANGED <<source, channels, threads, pc, cur, name_index>>
    BY <1>11 DEF StoreEntry
  <2> QED  BY <1>1, <1>10, <1>11, <2>1, <2>2 DEF StoreEntry, Running
<1>12. CASE StoreMeta
  <2>1. Meta[cur] \in Digests /\ cur \in Crates
    BY <1>12, ConstantsOK DEF StoreMeta, TypeOK
  <2>2. UNCHANGED <<source, channels, threads>> /\ cur' = NoTask /\ Running
    BY <1>12 DEF StoreMeta, Running
  <2>3. Tasks \subseteq Tasks' /\ \A c \in Crates : Content(c) \in Tasks' => Content(c) \in Tasks
    BY <1>10, <1>12, <2>1, <2>2 DEF StoreMeta
  <2>4. name_index'[cur] = Meta[cur] /\ \A c \in Crates \ {cur} : name_index'[c] = name_index[c]
    BY <1>12, <2>1 DEF StoreMeta, TypeOK
  <2>5. CratesKept'
    BY <1>0, <2>2, <2>3, <2>4 DEF CratesKept, Due
  <2>6. Kind[cur] = "exact"
    BY <2>1, NoTaskOK DEF OnlyExact
  <2>7. OnlyExact'
    BY <2>2, <2>3, <2>4, <2>6 DEF OnlyExact
  <2> QED  BY <2>5, <2>7
<1>13. CASE Refill
  <2>1. CASE backlog # <<>>
    BY <1>7, <1>13, <2>1 DEF Refill, Running, threads, store
  <2>2. CASE backlog = <<>>
    <3>1. UNCHANGED <<channels, threads, cur, name_index>> /\ Running
      BY <1>13 DEF Refill, Running, store
    <3>2. Range(backlog) = {}
      BY <2>2 DEF Range
    <3>3. /\ \A c \in Range(source) : c \in Range(source') \/ Obtain(c) \in Range(backlog')
          /\ \A t \in Range(backlog') : t.op = "obtain"
      BY <1>13, <2>2, RangeRefill
    <3>4. Tasks' = Tasks \cup Range(backlog')
      BY <3>1, <3>2 DEF Tasks, channels, threads
    <3>5. \A c \in Crates : Content(c) \in Tasks' => Content(c) \in Tasks
      BY <3>3, <3>4 DEF Content
    <3>6. \A c \in Crates : Due(c) => Due(c)'
      BY <3>1, <3>3, <3>4 DEF Due
    <3>7. CratesKept'
      BY <1>0, <3>1, <3>6 DEF CratesKept
    <3>8. OnlyExact'
      BY <3>1, <3>5 DEF OnlyExact
    <3> QED  BY <3>7, <3>8
  <2> QED  BY <2>1, <2>2
<1>14. CASE Push
  <2> DEFINE t == backlog[Len(backlog)]
  <2>1. backlog \in Seq(ParallelTask) /\ backlog # <<>> /\ t \in ParallelTask /\ ptq \in Seq(ParallelTask)
    BY <1>14, BelowType DEF Push, TypeOK
  <2>2. Range(backlog) = {t} \cup Range(backlog')
    BY <1>14, <2>1, RangeOfBelow DEF Push, Below
  <2>3. Range(ptq') = Range(ptq) \cup {t}
    BY <1>14, <2>1, RangeAppended DEF Push
  <2> HIDE DEF t
  <2>4. Tasks' = Tasks
    BY <1>14, <2>2, <2>3 DEF Push, Tasks, threads
  <2> QED  BY <1>1, <1>14, <2>4 DEF Push, Running, store
<1>15. CASE Return
  <2>1. Range(btq') = {}
    BY <1>15 DEF Return, Range
  <2>2. Tasks' \subseteq Tasks
    BY <1>15, <2>1 DEF Return, Tasks, threads
  <2> QED  BY <1>2, <1>15, <2>2 DEF Return, Running, store
<1>16. CASE RecvTimeout \/ LoopAgain \/ (\E w \in Workers : WorkerExit(w)) \/ UNCHANGED vars
  BY <1>7, <1>16 DEF RecvTimeout, LoopAgain, PushingEnds, WorkerExit, vars, Running, threads, loop, store
<1> QED
  BY <1>3, <1>4, <1>5, <1>6, <1>8, <1>9, <1>11, <1>12, <1>13, <1>14, <1>15, <1>16
  DEF Next, MainStep, HandleBlockingTask, WorkerStep, Terminated

(* A loop that waited until nothing is left to do would have stored each   *)
(* crate that can be rebuilt, with all its blobs, and named no other.      *)
THEOREM DrainedIsComplete == Spec => []DrainedMeansComplete
<1>1. Init => CratesKept /\ OnlyExact
  <2> SUFFICES ASSUME Init PROVE CratesKept /\ OnlyExact
    OBVIOUS
  <2>1. CratesKept
    BY DEF Init, CratesKept, Due
  <2>2. Range(backlog) = {} /\ Range(ptq) = {} /\ Range(btq) = {} /\ Range(held) \subseteq {NoTask}
    BY DEF Init, Range
  <2>3. \A c \in Crates : Content(c) \notin Tasks
    BY <2>2, TasksDiffer DEF Tasks
  <2>4. OnlyExact
    BY <2>3 DEF Init, OnlyExact
  <2> QED  BY <2>1, <2>4
<1>2. TypeOK /\ CratesKept /\ OnlyExact /\ NamedCrateOnItsWay => DrainedMeansComplete
  <2> SUFFICES ASSUME TypeOK, CratesKept, OnlyExact, NamedCrateOnItsWay, Drained,
                      NEW c \in Range(Source)
               PROVE  IF Kind[c] = "exact" THEN CompletelyStored(c)
                      ELSE c \in Stored \/ name_index[c] = NoDigest
    BY DEF DrainedMeansComplete
  <2>1. c \in Crates /\ c # NoTask
    BY ConstantsOK, NoTaskOK DEF Range
  <2>2. Range(<<>>) = {} /\ Range(source) = {}
    BY DEF Range, Drained
  <2>3. Range(held) \subseteq {NoTask}
    BY DEF Drained, TypeOK, Range
  <2>4. Tasks \subseteq {NoTask}
    BY <2>2, <2>3 DEF Drained, Tasks
  <2>5. ~Due(c)
    BY <2>1, <2>2, <2>4, TasksDiffer DEF Due, Drained
  <2>6. CASE Kind[c] = "exact"
    <3>1. name_index[c] = Meta[c] /\ Meta[c] # NoDigest
      BY <2>1, <2>5, <2>6, ConstantsOK DEF CratesKept, Drained
    <3>2. BlobsOf(c) \subseteq blobs
      BY <2>1, <3>1 DEF NamedCrateOnItsWay, Drained
    <3> QED  BY <2>6, <3>1, <3>2 DEF CompletelyStored
  <2>7. CASE Kind[c] # "exact"
    BY <2>1, <2>7 DEF OnlyExact
  <2> QED  BY <2>6, <2>7
<1> QED  BY <1>1, <1>2, DrainStep, TypeCorrect, NamedCratesOnTheirWay, PTL DEF Spec
=============================================================================
