------------------------ MODULE MultiBlobStoreProofs ------------------------
(***************************************************************************)
(* Proofs about create-mb-crate-storage, for any index and any order of    *)
(* its crates and paths, any number of workers and any capacities.         *)
(*                                                                         *)
(*   OlderKnown         the roots are the blobs nothing comes before       *)
(*   ListsDisjoint      each blob is in one list at most, and there once   *)
(*   LeftOutAfterCycle  which blobs are in no list                         *)
(*   TypeCorrect        types, and the bounds of the channels              *)
(*   StoredOnce         no assertion of the main thread fails              *)
(*   EntriesAreStored   an entry is made for what is stored                *)
(*   DrainedIsComplete  nothing is lost                                    *)
(*                                                                         *)
(* PlacesInv is what carries StoredOnce and DrainedIsComplete: it says     *)
(* where each digest is.  A step moves digests from one place to another   *)
(* (MovedContents), so one lemma does for all of them that no digest gets  *)
(* into two places or into none.  EntriesInv carries EntriesAreStored: it  *)
(* says what goes ahead of a multi blob in a thread and in the channel.    *)
(***************************************************************************)
EXTENDS MultiBlobStore, BlobGraphProofs

-----------------------------------------------------------------------------
(* The loop leaves the graph alone.                                        *)
LEMMA GraphSteps == [Next]_vars => [GraphNext]_graphVars
<1> SUFFICES ASSUME [Next]_vars PROVE [GraphNext]_graphVars
  OBVIOUS
<1>1. ASSUME NEW w \in Workers, WorkerStep(w) PROVE UNCHANGED graphVars
  BY <1>1 DEF WorkerStep, WorkerTake, WorkerEmit, WorkerSendFails, WorkerExit
<1>2. CASE MainStep
  BY <1>2 DEF MainStep, Start, RecvTimeout, StoreBlob, StoreMultiBlob, Refill, Push, LoopAgain, Return
<1>3. CASE Terminated \/ UNCHANGED vars
  BY <1>3 DEF Terminated, vars
<1> QED  BY <1>1, <1>2, <1>3 DEF Next

LEMMA GraphHolds == Spec => []AllGraphInv
<1>1. Init => AllGraphInv
  BY AllGraphInit DEF Init
<1>2. AllGraphInv /\ [Next]_vars => AllGraphInv'
  BY GraphSteps, AllGraphStep
<1> QED  BY <1>1, <1>2, PTL DEF Spec

(* from_func finds the blobs nothing comes before while it adds edges, in  *)
(* whatever order: a blob known from another crate does not become a root  *)
(* again, one that gets an edge later is one no more.                      *)
THEOREM OlderKnown == Spec => []RootsHaveNoOlder
<1>1. AllGraphInv => RootsHaveNoOlder
  BY DEF AllGraphInv, GraphInv
<1> QED  BY <1>1, GraphHolds, PTL

(* get_digest_lists puts no blob into two lists nor twice into one, though *)
(* one may be reached from several roots and along several paths: visited  *)
(* is one set for all traversals.                                          *)
THEOREM ListsDisjoint == Spec => []EachBlobInOneList
<1>1. AllGraphInv => EachBlobInOneList
  BY DEF AllGraphInv, ListsInv
<1> QED  BY <1>1, GraphHolds, PTL

(* get_digest_lists leaves out exactly the blobs no root leads to, and     *)
(* each of them comes after a cycle of the graph.                          *)
THEOREM LeftOutAfterCycle == Spec => []LeftOutIsAfterCycle
<1> QED  BY LeftOut, GraphHolds, PTL

-----------------------------------------------------------------------------
(* Types.                                                                  *)

Key == Digests \cup ({"mb"} \X Seq(Digests))

LoopTypes ==
  /\ digests_iter \in Seq(Seq(Digests))
  /\ backlog \in Seq(Seq(Present))
  /\ ptq \in Seq(Seq(Present)) /\ Len(ptq) <= PtCap
  /\ btq \in Seq(Result) /\ Len(btq) <= BtCap
  /\ held \in [Workers -> Seq(Result)]
  /\ alive \subseteq Workers
  /\ pc \in {"graph", "recv", "refill", "push", "returned", "panicked"}
  /\ blobs \subseteq Key

LEMMA FrontType ==
  ASSUME NEW T, NEW q \in Seq(T), q # <<>>
  PROVE  Front(q) \in Seq(T) /\ Last(q) \in T
BY RangeParts

LEMMA TailType ==
  ASSUME NEW T, NEW q \in Seq(T), q # <<>>
  PROVE  Tail(q) \in Seq(T) /\ Head(q) \in T /\ Len(Tail(q)) = Len(q) - 1 /\ Len(q) \in Nat \ {0}
OBVIOUS

LEMMA CreateType ==
  ASSUME NEW task \in Seq(Present)
  PROVE  CreateMultiBlob(task) \in Seq(Result)
<1> DEFINE texts == Only(task, Utf8)
           others == Only(task, Digests \ Utf8)
           single == [i \in DOMAIN others |-> [op |-> "blob", d |-> others[i], of |-> <<>>]]
           multi == IF texts = <<>> THEN <<>> ELSE <<[op |-> "multi", d |-> MultiBlob(texts), of |-> task]>>
<1>1. Present \subseteq Digests /\ Utf8 \subseteq Digests
  BY LoopConstantsOK
<1>2. texts \in Seq(Utf8) /\ others \in Seq(Digests \ Utf8)
  BY OnlyProperties
<1> HIDE DEF texts, others
<1>3. texts \in Seq(Digests) /\ task \in Seq(Digests) /\ others \in Seq(Digests)
  BY <1>1, <1>2, SeqMonotonic
<1>4. single \in Seq(Result)
  <2>1. Len(others) \in Nat /\ DOMAIN others = 1..Len(others)
    BY <1>3
  <2>2. ASSUME NEW i \in 1..Len(others)
        PROVE  [op |-> "blob", d |-> others[i], of |-> <<>>] \in Result
    <3>1. others[i] \in Digests /\ <<>> \in Seq(Digests)
      BY <1>3, <2>1, ElementType
    <3> QED  BY <3>1 DEF Result
  <2>3. single \in [1..Len(others) -> Result]
    BY <2>1, <2>2
  <2> HIDE DEF single
  <2> QED  BY <2>1, <2>3, FunctionIsSeq
<1>5. multi \in Seq(Result)
  <2>1. [op |-> "multi", d |-> MultiBlob(texts), of |-> task] \in Result
    BY <1>3 DEF Result, MultiBlob
  <2> HIDE DEF Result
  <2> QED  BY <2>1
<1>6. CreateMultiBlob(task) = single \o multi
  BY DEF CreateMultiBlob, texts, others
<1> HIDE DEF single, multi
<1> QED  BY <1>4, <1>5, <1>6, ConcatType

LEMMA WorkerTypes ==
  ASSUME LoopTypes, NEW w \in Workers, WorkerStep(w)
  PROVE  LoopTypes'
<1> USE LoopConstantsOK
<1>1. CASE WorkerTake(w)
  <2>1. ptq # <<>> /\ ptq' = Tail(ptq) /\ held' = [held EXCEPT ![w] = CreateMultiBlob(Head(ptq))]
    BY <1>1 DEF WorkerTake
  <2>2. /\ ptq' \in Seq(Seq(Present)) /\ Head(ptq) \in Seq(Present)
        /\ Len(ptq') = Len(ptq) - 1 /\ Len(ptq) \in Nat \ {0}
    BY <2>1, TailType DEF LoopTypes
  <2>3. CreateMultiBlob(Head(ptq)) \in Seq(Result)
    BY <2>2, CreateType
  <2>4. held' \in [Workers -> Seq(Result)]
    BY <2>1, <2>3 DEF LoopTypes
  <2>5. Len(ptq') <= PtCap
    BY <2>2 DEF LoopTypes
  <2> QED  BY <1>1, <2>2, <2>4, <2>5 DEF WorkerTake, store, LoopTypes
<1>2. CASE WorkerEmit(w)
  <2>1. /\ held[w] # <<>> /\ Len(btq) < BtCap /\ btq' = Append(btq, Head(held[w]))
        /\ held' = [held EXCEPT ![w] = Tail(held[w])]
    BY <1>2 DEF WorkerEmit
  <2>2. Head(held[w]) \in Result /\ Tail(held[w]) \in Seq(Result)
    BY <2>1, TailType DEF LoopTypes
  <2>3. btq' \in Seq(Result) /\ Len(btq') = Len(btq) + 1 /\ Len(btq) \in Nat
    <3> HIDE DEF Result
    <3> QED  BY <2>1, <2>2 DEF LoopTypes
  <2>4. Len(btq') <= BtCap
    BY <2>1, <2>3
  <2>5. held' \in [Workers -> Seq(Result)]
    BY <2>1, <2>2 DEF LoopTypes
  <2> QED  BY <1>2, <2>3, <2>4, <2>5 DEF WorkerEmit, store, LoopTypes
<1>3. CASE WorkerSendFails(w)
  <2>1. held' = [held EXCEPT ![w] = <<>>] /\ alive' = alive \ {w}
    BY <1>3 DEF WorkerSendFails
  <2>2. held' \in [Workers -> Seq(Result)]
    BY <2>1 DEF LoopTypes
  <2> QED  BY <1>3, <2>1, <2>2 DEF WorkerSendFails, store, LoopTypes
<1>4. CASE WorkerExit(w)
  BY <1>4 DEF WorkerExit, store, LoopTypes
<1> QED  BY <1>1, <1>2, <1>3, <1>4 DEF WorkerStep

LEMMA RefillParts ==
  ASSUME LoopTypes, Refill, backlog = <<>>, digests_iter # <<>>
  PROVE  /\ TakeCount \in 1..Len(digests_iter) /\ Len(digests_iter) \in Nat
         /\ backlog' = [i \in 1..TakeCount |-> Only(digests_iter[i], Present)]
         /\ backlog' \in Seq(Seq(Present)) /\ DOMAIN backlog' = 1..TakeCount
         /\ digests_iter' \in Seq(Seq(Digests))
         /\ DOMAIN digests_iter' = 1..(Len(digests_iter) - TakeCount)
         /\ \A i \in DOMAIN digests_iter' : digests_iter'[i] = digests_iter[i + TakeCount]
<1> DEFINE q == digests_iter
           n == Len(q)
           k == TakeCount
           S == Seq(Digests)
<1>1. n \in Nat \ {0} /\ DOMAIN q = 1..n /\ q \in Seq(S)
  BY DEF LoopTypes
<1>2. k \in 1..n
  <2>1. TakeMax \in Nat \ {0}
    BY LoopConstantsOK
  <2> HIDE DEF q
  <2> QED  BY <1>1, <2>1 DEF TakeCount, q
<1>3. backlog' = [i \in 1..k |-> Only(q[i], Present)] /\ q' = SubSeq(q, k + 1, n)
  BY DEF Refill, ReadTask
<1> HIDE DEF S, k, n
<1>4. \A i \in 1..k : i \in 1..n
  BY <1>1, <1>2
<1>5. ASSUME NEW i \in 1..k PROVE Only(q[i], Present) \in Seq(Present)
  <2>1. q[i] \in Seq(Digests)
    BY <1>1, <1>4, ElementType DEF S
  <2> QED  BY <2>1, OnlyProperties
<1>6. backlog' \in [1..k -> Seq(Present)] /\ k \in Nat
  BY <1>1, <1>2, <1>3, <1>5
<1>7. backlog' \in Seq(Seq(Present)) /\ DOMAIN backlog' = 1..k
  <2> DEFINE P == Seq(Present)
  <2>1. backlog' \in [1..k -> P]
    BY <1>6
  <2> HIDE DEF P
  <2>2. backlog' \in Seq(P)
    BY <1>6, <2>1, FunctionIsSeq
  <2> QED  BY <2>1, <2>2 DEF P
<1>8. /\ SubSeq(q, k + 1, n) \in Seq(S) /\ DOMAIN SubSeq(q, k + 1, n) = 1..(n - k)
      /\ \A i \in 1..(n - k) : SubSeq(q, k + 1, n)[i] = q[i + k]
  <2> HIDE DEF q
  <2>1. k + 1 \in 1..(n + 1)
    BY <1>1, <1>2
  <2>2. /\ SubSeq(q, k + 1, n) \in Seq(S) /\ Len(SubSeq(q, k + 1, n)) = n - k
        /\ \A i \in 1..(n - k) : SubSeq(q, k + 1, n)[i] = q[i + k]
    <3>1. \A i \in (k + 1)..n : i \in 1..n
      BY <1>1, <1>2
    <3>2. \A i \in (k + 1)..n : q[i] \in S
      BY <1>1, <3>1, ElementType
    <3>3. k + 1 \in Int /\ n \in Int
      BY <1>1, <1>2
    <3>4. /\ SubSeq(q, k + 1, n) \in Seq(S)
          /\ Len(SubSeq(q, k + 1, n)) = IF k + 1 <= n THEN n - (k + 1) + 1 ELSE 0
          /\ \A i \in 1..(n - (k + 1) + 1) : SubSeq(q, k + 1, n)[i] = q[(k + 1) + i - 1]
      BY <3>2, <3>3, SubSeqProperties
    <3>5. n - (k + 1) + 1 = n - k /\ (~ (k + 1 <= n) => n - k = 0)
          /\ \A i \in 1..(n - k) : (k + 1) + i - 1 = i + k
      BY <1>1, <1>2
    <3> QED  BY <3>4, <3>5
  <2>3. \A r \in Seq(S) : DOMAIN r = 1..Len(r)
    OBVIOUS
  <2>4. DOMAIN SubSeq(q, k + 1, n) = 1..(n - k)
    BY <2>2, <2>3
  <2> QED  BY <2>2, <2>4
<1> QED  BY <1>1, <1>2, <1>3, <1>7, <1>8 DEF n, k, S

LEMMA MainTypes ==
  ASSUME LoopTypes, res \in Seq(Seq(Digests)), MainStep
  PROVE  LoopTypes'
<1>1. CASE GraphNext /\ UNCHANGED loopVars
  BY <1>1 DEF loopVars, threads, store, LoopTypes
<1>2. CASE Start
  BY <1>2 DEF Start, store, LoopTypes
<1>3. CASE RecvTimeout
  BY <1>3 DEF RecvTimeout, threads, store, LoopTypes
<1>4. CASE StoreBlob \/ StoreMultiBlob
  <2>1. /\ btq # <<>> /\ btq' = Tail(btq) /\ Inserted(Head(btq).d)
        /\ UNCHANGED <<digests_iter, backlog, ptq, threads>>
    BY <1>4 DEF StoreBlob, StoreMultiBlob
  <2>2. Head(btq) \in Result /\ btq' \in Seq(Result) /\ Len(btq') = Len(btq) - 1 /\ Len(btq) \in Nat
    BY <2>1, TailType DEF LoopTypes
  <2>3. Head(btq).d \in Key
    BY <2>2 DEF Result, Key
  <2>4. blobs' \subseteq Key /\ pc' \in {"panicked", "refill"}
    BY <2>1, <2>3 DEF Inserted, LoopTypes
  <2>5. Len(btq') <= BtCap
    BY <2>2, LoopConstantsOK DEF LoopTypes
  <2> QED  BY <2>1, <2>2, <2>4, <2>5 DEF threads, LoopTypes
<1>5. CASE Refill
  <2>1. UNCHANGED <<ptq, btq, threads, store>> /\ pc' = "push"
    BY <1>5 DEF Refill
  <2>2. CASE backlog = <<>> /\ digests_iter # <<>>
    <3>1. backlog' \in Seq(Seq(Present)) /\ digests_iter' \in Seq(Seq(Digests))
      BY <1>5, <2>2, RefillParts
    <3> QED  BY <2>1, <3>1 DEF threads, store, LoopTypes
  <2>3. CASE ~ (backlog = <<>> /\ digests_iter # <<>>)
    BY <1>5, <2>1, <2>3 DEF Refill, threads, store, LoopTypes
  <2> QED  BY <2>2, <2>3
<1>6. CASE Push
  <2>1. /\ backlog # <<>> /\ Len(ptq) < PtCap
        /\ ptq' = Append(ptq, Last(backlog)) /\ backlog' = Front(backlog)
        /\ UNCHANGED <<digests_iter, btq, threads, pc, store>>
    BY <1>6 DEF Push, PtAccepts
  <2>2. Last(backlog) \in Seq(Present) /\ backlog' \in Seq(Seq(Present))
    BY <2>1, FrontType DEF LoopTypes
  <2>3. ptq' \in Seq(Seq(Present)) /\ Len(ptq') = Len(ptq) + 1 /\ Len(ptq) \in Nat
    BY <2>1, <2>2 DEF LoopTypes
  <2>4. Len(ptq') <= PtCap
    BY <2>1, <2>3, LoopConstantsOK
  <2> QED  BY <2>1, <2>2, <2>3, <2>4 DEF threads, store, LoopTypes
<1>7. CASE LoopAgain
  BY <1>7 DEF LoopAgain, threads, store, LoopTypes
<1>8. CASE Return
  BY <1>8, LoopConstantsOK DEF Return, threads, store, LoopTypes
<1> QED  BY <1>1, <1>2, <1>3, <1>4, <1>5, <1>6, <1>7, <1>8 DEF MainStep

LEMMA TypesStep ==
  ASSUME LoopTypes, AllGraphInv, [Next]_vars
  PROVE  LoopTypes'
<1>1. res \in Seq(Seq(Digests))
  <2>1. res \in Seq(Seq(visited)) /\ visited \subseteq Digests
    BY DEF AllGraphInv, ListsInv, TraversalInv, GraphInv
  <2>2. Seq(visited) \subseteq Seq(Digests)
    BY <2>1, SeqMonotonic
  <2>3. \A A, B : A \subseteq B => Seq(A) \subseteq Seq(B)
    BY SeqMonotonic
  <2> QED  BY <2>1, <2>2, <2>3
<1>2. CASE Terminated \/ UNCHANGED vars
  BY <1>2 DEF Terminated, vars, loopVars, threads, store, LoopTypes
<1> QED  BY <1>1, <1>2, WorkerTypes, MainTypes DEF Next

LEMMA TypesInit == Init => LoopTypes
BY LoopConstantsOK DEF Init, LoopTypes

LEMMA GraphTypes ==
  AllGraphInv => /\ phase \in {"build", "roots", "walk", "listed"}
                 /\ nodes \subseteq Digests /\ roots \subseteq nodes /\ visited \subseteq nodes
                 /\ edges \in Seq(nodes \X nodes)
                 /\ mblob_digests \in Seq(nodes) /\ res \in Seq(Seq(nodes))
<1> SUFFICES ASSUME AllGraphInv
             PROVE  mblob_digests \in Seq(nodes) /\ res \in Seq(Seq(nodes))
  BY DEF AllGraphInv, GraphInv, TraversalInv, RootsHaveNoOlder
<1>1. mblob_digests \in Seq(visited) /\ res \in Seq(Seq(visited)) /\ visited \subseteq nodes
  BY DEF AllGraphInv, ListsInv, TraversalInv
<1>2. \A A, B : A \subseteq B => Seq(A) \subseteq Seq(B)
  BY SeqMonotonic
<1> QED  BY <1>1, <1>2

(* Every variable of the tool keeps its type, and the channels never hold  *)
(* more than they have room for.                                           *)
THEOREM TypeCorrect == Spec => []TypeOK
<1>1. Init => LoopTypes
  BY TypesInit
<1>2. AllGraphInv /\ LoopTypes /\ [Next]_vars => LoopTypes'
  BY TypesStep
<1>3. AllGraphInv /\ LoopTypes => TypeOK
  BY GraphTypes DEF LoopTypes, TypeOK, Key
<1> QED  BY <1>1, <1>2, <1>3, GraphHolds, PTL DEF Spec

-----------------------------------------------------------------------------
(* Lists that share no digest, and results that share none.                *)

InLists(q) == UNION {Range(q[i]) : i \in DOMAIN q}

NoRepeat(q) ==
  /\ \A i \in DOMAIN q : Distinct(q[i])
  /\ \A i, j \in DOMAIN q : i # j => Range(q[i]) \cap Range(q[j]) = {}

(* The digests a key of the storage stands for.                            *)
Covers(b) == IF b \in Digests THEN {b} ELSE Range(b[2])

InResults(r) == UNION {Covers(r[i].d) : i \in DOMAIN r}

Separate(r) == \A i, j \in DOMAIN r : i # j => Covers(r[i].d) \cap Covers(r[j].d) = {}

LEMMA TailParts ==
  ASSUME NEW T, NEW q \in Seq(T), q # <<>>
  PROVE  /\ 1 \in DOMAIN q /\ Head(q) = q[1]
         /\ \A i \in DOMAIN Tail(q) : i + 1 \in DOMAIN q /\ i + 1 # 1 /\ Tail(q)[i] = q[i + 1]
         /\ \A i \in DOMAIN q : i = 1 \/ \E j \in DOMAIN Tail(q) : i = j + 1
         /\ \A i, j \in DOMAIN Tail(q) : i # j => i + 1 # j + 1
<1> DEFINE n == Len(q)
           t == Tail(q)
<1>1. /\ n \in Nat \ {0} /\ DOMAIN q = 1..n /\ Head(q) = q[1]
      /\ DOMAIN t = 1..(n - 1) /\ \A i \in 1..(n - 1) : t[i] = q[i + 1]
  OBVIOUS
<1> HIDE DEF n, t
<1>2. \A i \in 1..(n - 1) : i + 1 \in 1..n /\ i + 1 # 1
  BY <1>1
<1>3. ASSUME NEW i \in 1..n, i # 1 PROVE \E j \in 1..(n - 1) : i = j + 1
  <2>1. i - 1 \in 1..(n - 1) /\ i = (i - 1) + 1
    BY <1>1, <1>3
  <2> QED  BY <2>1
<1>4. \A i, j \in 1..(n - 1) : i # j => i + 1 # j + 1
  BY <1>1
<1>5. 1 \in 1..n
  BY <1>1
<1> QED  BY <1>1, <1>2, <1>3, <1>4, <1>5 DEF t

LEMMA FrontParts ==
  ASSUME NEW T, NEW q \in Seq(T), q # <<>>
  PROVE  \E n \in DOMAIN q :
           /\ Last(q) = q[n] /\ n \notin DOMAIN Front(q)
           /\ \A i \in DOMAIN Front(q) : i \in DOMAIN q /\ Front(q)[i] = q[i]
           /\ \A i \in DOMAIN q : i = n \/ i \in DOMAIN Front(q)
<1> DEFINE n == Len(q)
           t == Front(q)
<1>1. /\ n \in Nat \ {0} /\ DOMAIN q = 1..n /\ Last(q) = q[n]
      /\ DOMAIN t = 1..(n - 1) /\ \A i \in 1..(n - 1) : t[i] = q[i]
  BY DEF Front, Last
<1> HIDE DEF n, t
<1>2. /\ n \in 1..n /\ n \notin 1..(n - 1)
      /\ \A i \in 1..(n - 1) : i \in 1..n
      /\ \A i \in 1..n : i = n \/ i \in 1..(n - 1)
  BY <1>1
<1> QED  BY <1>1, <1>2 DEF t

LEMMA ListsTail ==
  ASSUME NEW T, NEW q \in Seq(T), q # <<>>, NoRepeat(q)
  PROVE  /\ NoRepeat(Tail(q)) /\ Distinct(Head(q))
         /\ InLists(Tail(q)) = InLists(q) \ Range(Head(q))
         /\ Range(Head(q)) \subseteq InLists(q)
<1> DEFINE t == Tail(q)
<1>1. /\ 1 \in DOMAIN q /\ Head(q) = q[1]
      /\ \A i \in DOMAIN t : i + 1 \in DOMAIN q /\ i + 1 # 1 /\ t[i] = q[i + 1]
      /\ \A i \in DOMAIN q : i = 1 \/ \E j \in DOMAIN t : i = j + 1
      /\ \A i, j \in DOMAIN t : i # j => i + 1 # j + 1
  BY TailParts
<1> HIDE DEF t
<1>2. NoRepeat(t) /\ Distinct(Head(q))
  BY <1>1 DEF NoRepeat
<1>3. \A d \in InLists(t) : d \in InLists(q) /\ d \notin Range(Head(q))
  BY <1>1 DEF NoRepeat, InLists
<1>4. \A d \in InLists(q) : d \in InLists(t) \/ d \in Range(Head(q))
  BY <1>1 DEF InLists
<1>5. Range(Head(q)) \subseteq InLists(q)
  BY <1>1 DEF InLists
<1> QED  BY <1>2, <1>3, <1>4, <1>5 DEF t

LEMMA ListsFront ==
  ASSUME NEW T, NEW q \in Seq(T), q # <<>>, NoRepeat(q)
  PROVE  /\ NoRepeat(Front(q)) /\ Distinct(Last(q))
         /\ InLists(Front(q)) = InLists(q) \ Range(Last(q))
         /\ Range(Last(q)) \subseteq InLists(q)
<1> DEFINE t == Front(q)
           x == Last(q)
<1>1. PICK n \in DOMAIN q :
        /\ x = q[n] /\ n \notin DOMAIN t
        /\ \A i \in DOMAIN t : i \in DOMAIN q /\ t[i] = q[i]
        /\ \A i \in DOMAIN q : i = n \/ i \in DOMAIN t
  BY FrontParts
<1> HIDE DEF t, x
<1>2. NoRepeat(t) /\ Distinct(x)
  BY <1>1 DEF NoRepeat
<1>3. \A d \in InLists(t) : d \in InLists(q) /\ d \notin Range(x)
  BY <1>1 DEF NoRepeat, InLists
<1>4. \A d \in InLists(q) : d \in InLists(t) \/ d \in Range(x)
  BY <1>1 DEF InLists
<1>5. Range(x) \subseteq InLists(q)
  BY <1>1 DEF InLists
<1> QED  BY <1>2, <1>3, <1>4, <1>5 DEF t, x

LEMMA ListsAppend ==
  ASSUME NEW T, NEW q \in Seq(T), NEW x \in T, NoRepeat(q), Distinct(x),
         Range(x) \cap InLists(q) = {}
  PROVE  /\ NoRepeat(Append(q, x))
         /\ InLists(Append(q, x)) = InLists(q) \cup Range(x)
<1> DEFINE p == Append(q, x)
           n == Len(q) + 1
<1>1. /\ DOMAIN p = DOMAIN q \cup {n} /\ n \notin DOMAIN q
      /\ \A i \in DOMAIN q : p[i] = q[i]
      /\ p[n] = x
  BY AppendType
<1> HIDE DEF p, n
<1>2. \A i \in DOMAIN q : Range(q[i]) \cap Range(x) = {}
  BY DEF InLists
<1>3. NoRepeat(p)
  BY <1>1, <1>2 DEF NoRepeat
<1>4. InLists(p) = InLists(q) \cup Range(x)
  BY <1>1 DEF InLists
<1> QED  BY <1>3, <1>4 DEF p

LEMMA ResultsTail ==
  ASSUME NEW T, NEW r \in Seq(T), r # <<>>, Separate(r)
  PROVE  /\ Separate(Tail(r))
         /\ InResults(Tail(r)) = InResults(r) \ Covers(Head(r).d)
         /\ Covers(Head(r).d) \subseteq InResults(r)
<1> DEFINE t == Tail(r)
<1>1. /\ 1 \in DOMAIN r /\ Head(r) = r[1]
      /\ \A i \in DOMAIN t : i + 1 \in DOMAIN r /\ i + 1 # 1 /\ t[i] = r[i + 1]
      /\ \A i \in DOMAIN r : i = 1 \/ \E j \in DOMAIN t : i = j + 1
      /\ \A i, j \in DOMAIN t : i # j => i + 1 # j + 1
  BY TailParts
<1> HIDE DEF t
<1>2. Separate(t)
  BY <1>1 DEF Separate
<1>3. ASSUME NEW d \in InResults(t) PROVE d \in InResults(r) /\ d \notin Covers(Head(r).d)
  <2>1. PICK i \in DOMAIN t : d \in Covers(t[i].d)
    BY DEF InResults
  <2>2. i + 1 \in DOMAIN r /\ i + 1 # 1 /\ t[i] = r[i + 1]
    BY <1>1
  <2>3. Covers(r[i + 1].d) \cap Covers(r[1].d) = {}
    BY <1>1, <2>2 DEF Separate
  <2> QED  BY <1>1, <2>1, <2>2, <2>3 DEF InResults
<1>4. \A d \in InResults(r) : d \in InResults(t) \/ d \in Covers(Head(r).d)
  BY <1>1 DEF InResults
<1>5. Covers(Head(r).d) \subseteq InResults(r)
  BY <1>1 DEF InResults
<1> QED  BY <1>2, <1>3, <1>4, <1>5 DEF t

LEMMA ResultsAppend ==
  ASSUME NEW T, NEW r \in Seq(T), NEW x \in T, Separate(r),
         Covers(x.d) \cap InResults(r) = {}
  PROVE  /\ Separate(Append(r, x))
         /\ InResults(Append(r, x)) = InResults(r) \cup Covers(x.d)
<1> DEFINE p == Append(r, x)
           n == Len(r) + 1
<1>1. /\ DOMAIN p = DOMAIN r \cup {n} /\ n \notin DOMAIN r
      /\ \A i \in DOMAIN r : p[i] = r[i]
      /\ p[n] = x
  BY AppendType
<1> HIDE DEF p, n
<1>2. \A i \in DOMAIN r : Covers(r[i].d) \cap Covers(x.d) = {}
  BY DEF InResults
<1>3. Separate(p)
  BY <1>1, <1>2 DEF Separate
<1>4. InResults(p) = InResults(r) \cup Covers(x.d)
  BY <1>1 DEF InResults
<1> QED  BY <1>3, <1>4 DEF p

(* What handle_parallel_task makes of a task: each blob is in one result,  *)
(* and one that is no text comes before the multi blob.                    *)
Preceded(r, S) ==
  \A i \in DOMAIN r : r[i].op = "multi" => \A d \in Range(r[i].of) :
    d \in Range(r[i].d[2]) \cup S \/ \E j \in DOMAIN r : j < i /\ r[j].d = d

LEMMA CreateParts ==
  ASSUME NEW task \in Seq(Present), Distinct(task)
  PROVE  /\ Separate(CreateMultiBlob(task))
         /\ InResults(CreateMultiBlob(task)) = Range(task)
         /\ \A i \in DOMAIN CreateMultiBlob(task) : Covers(CreateMultiBlob(task)[i].d) # {}
         /\ Preceded(CreateMultiBlob(task), {})
<1> DEFINE texts == Only(task, Utf8)
           others == Only(task, Digests \ Utf8)
           n == Len(others)
           r == CreateMultiBlob(task)
           multi == [op |-> "multi", d |-> MultiBlob(texts), of |-> task]
           single == [i \in DOMAIN others |-> [op |-> "blob", d |-> others[i], of |-> <<>>]]
           last == IF texts = <<>> THEN <<>> ELSE <<multi>>
<1>1. Present \subseteq Digests /\ Utf8 \subseteq Digests
  BY LoopConstantsOK
<1>2. /\ texts \in Seq(Utf8) /\ others \in Seq(Digests \ Utf8)
      /\ Range(texts) = Range(task) \cap Utf8
      /\ Range(others) = Range(task) \cap (Digests \ Utf8)
      /\ Distinct(others)
  BY OnlyProperties
<1> HIDE DEF texts, others
<1>3. texts \in Seq(Digests)
  BY <1>1, <1>2, SeqMonotonic
<1>4. MultiBlob(texts) \notin Digests /\ Covers(MultiBlob(texts)) = Range(texts) /\ MultiBlob(texts)[2] = texts
  <2>1. MultiBlob(texts) \in {"mb"} \X Seq(Digests)
    BY <1>3 DEF MultiBlob
  <2>2. MultiBlob(texts) \notin Digests
    BY <2>1, LoopConstantsOK
  <2> QED  BY <2>2 DEF Covers, MultiBlob
<1>5. n \in Nat /\ DOMAIN others = 1..n /\ \A i \in 1..n : others[i] \in Digests
  <2>1. n \in Nat /\ DOMAIN others = 1..n
    BY <1>2
  <2>2. \A i \in DOMAIN others : others[i] \in Digests \ Utf8
    BY <1>2, ElementType
  <2> QED  BY <2>1, <2>2
<1>6. r = single \o last
  BY DEF CreateMultiBlob, texts, others
<1> HIDE DEF n
<1>7. /\ DOMAIN single = 1..n
      /\ \A i \in 1..n : single[i].op = "blob" /\ single[i].d = others[i]
  BY <1>5
<1>8. DOMAIN last = IF texts = <<>> THEN {} ELSE {1}
  OBVIOUS
<1>9. texts # <<>> => last[1] = multi
  OBVIOUS
<1>10. /\ DOMAIN r = 1..n \cup (IF texts = <<>> THEN {} ELSE {n + 1})
       /\ \A i \in 1..n : r[i] = single[i]
       /\ texts # <<>> => r[n + 1] = multi
  <2> DEFINE X == {single[i] : i \in 1..n} \cup {multi}
  <2>1. single \in Seq(X)
    <3>1. single \in [1..n -> X]
      BY <1>7
    <3> HIDE DEF X, single
    <3> QED  BY <1>5, <3>1, FunctionIsSeq
  <2>2. last \in Seq(X)
    <3>1. multi \in X
      OBVIOUS
    <3> HIDE DEF X, multi
    <3> QED  BY <3>1
  <2>3. /\ \A i \in DOMAIN single : i \in DOMAIN r /\ r[i] = single[i]
        /\ \A i \in DOMAIN last : Len(single) + i \in DOMAIN r /\ r[Len(single) + i] = last[i]
        /\ \A i \in DOMAIN r : i \in DOMAIN single \/ \E k \in DOMAIN last : i = Len(single) + k
    <3> HIDE DEF X, single, last, r
    <3> QED  BY <1>6, <2>1, <2>2, ConcatType
  <2>4. Len(single) = n
    BY <1>5
  <2> HIDE DEF r, single, last, X, multi
  <2>5. \A i \in DOMAIN last : i = 1
    BY <1>8
  <2>6. ASSUME texts # <<>> PROVE n + 1 \in DOMAIN r /\ r[n + 1] = multi
    BY <1>8, <1>9, <2>3, <2>4, <2>6
  <2>7. \A i \in DOMAIN r : i \in 1..n \/ (texts # <<>> /\ i = n + 1)
    BY <1>7, <1>8, <2>3, <2>4, <2>5
  <2>8. \A i \in 1..n : i \in DOMAIN r /\ r[i] = single[i]
    BY <1>7, <2>3
  <2> QED  BY <2>6, <2>7, <2>8
<1> HIDE DEF r, single, last
<1>11. /\ \A i \in 1..n : r[i].op = "blob" /\ r[i].d = others[i] /\ Covers(r[i].d) = {others[i]}
       /\ texts # <<>> => /\ r[n + 1].op = "multi" /\ r[n + 1].of = task
                          /\ r[n + 1].d = MultiBlob(texts)
  BY <1>5, <1>7, <1>10 DEF Covers
<1>12. texts # <<>> => Range(texts) # {}
  <2> SUFFICES ASSUME texts # <<>> PROVE 1 \in DOMAIN texts
    BY DEF Range
  <2> QED  BY <1>3
<1>13. texts = <<>> => Range(texts) = {}
  BY RangeParts
<1>14. n + 1 \notin 1..n /\ \A i \in 1..n : i < n + 1
  BY <1>5
<1>15. Separate(r)
  <2> SUFFICES ASSUME NEW i \in DOMAIN r, NEW j \in DOMAIN r, i # j
               PROVE  Covers(r[i].d) \cap Covers(r[j].d) = {}
    BY DEF Separate
  <2>1. CASE i \in 1..n /\ j \in 1..n
    <3>1. others[i] # others[j]
      BY <1>2, <1>5, <2>1 DEF Distinct
    <3> QED  BY <1>11, <2>1, <3>1
  <2>2. ASSUME NEW k \in 1..n, texts # <<>> PROVE Covers(r[k].d) \cap Covers(r[n + 1].d) = {}
    <3>1. others[k] \in Range(others)
      BY <1>5 DEF Range
    <3>2. others[k] \notin Utf8
      BY <1>2, <3>1
    <3> QED  BY <1>2, <1>4, <1>11, <2>2, <3>2
  <2> QED  BY <1>10, <2>1, <2>2
<1>16. ASSUME NEW d PROVE d \in InResults(r) <=> d \in Range(task)
  <2>1. \A e \in Range(task) : e \in Digests
    BY <1>1, ElementType DEF Range
  <2>2. d \in Range(task) <=> d \in Range(texts) \/ d \in Range(others)
    BY <1>2, <2>1
  <2>3. d \in Range(others) <=> \E i \in 1..n : d \in Covers(r[i].d)
    BY <1>5, <1>11 DEF Range
  <2>4. d \in Range(texts) <=> texts # <<>> /\ d \in Covers(r[n + 1].d)
    BY <1>4, <1>11, <1>13
  <2>5. d \in InResults(r) <=> \/ \E i \in 1..n : d \in Covers(r[i].d)
                               \/ texts # <<>> /\ d \in Covers(r[n + 1].d)
    <3>1. d \in InResults(r) <=> \E i \in DOMAIN r : d \in Covers(r[i].d)
      BY DEF InResults
    <3> QED  BY <1>10, <3>1
  <2> QED  BY <2>2, <2>3, <2>4, <2>5
<1>17. \A i \in DOMAIN r : Covers(r[i].d) # {}
  BY <1>4, <1>10, <1>11, <1>12
<1>18. Preceded(r, {})
  <2> SUFFICES ASSUME NEW i \in DOMAIN r, r[i].op = "multi", NEW d \in Range(r[i].of)
               PROVE  d \in Range(r[i].d[2]) \/ \E j \in DOMAIN r : j < i /\ r[j].d = d
    BY DEF Preceded
  <2>1. i = n + 1 /\ texts # <<>>
    BY <1>10, <1>11
  <2>2. d \in Range(task) /\ r[i].d[2] = texts
    BY <1>4, <1>11, <2>1
  <2>3. d \in Digests
    BY <1>1, <2>2, ElementType DEF Range
  <2>4. CASE d \in Utf8
    BY <1>2, <2>2, <2>4
  <2>5. CASE d \notin Utf8
    <3>1. d \in Range(others)
      BY <1>2, <2>2, <2>3, <2>5
    <3>2. PICK j \in 1..n : others[j] = d
      BY <1>5, <3>1 DEF Range
    <3> QED  BY <1>10, <1>11, <1>14, <2>1, <3>2
  <2> QED  BY <2>4, <2>5
<1> QED  BY <1>15, <1>16, <1>17, <1>18 DEF r

-----------------------------------------------------------------------------
(* Where the digests are.  Each is in one place at most and there once, so *)
(* that what is to be stored is in the storage not yet; those the source   *)
(* has a blob for are in some place as long as the loop runs.              *)

Places == ({"iter", "backlog", "pt", "bt", "store"} \X {"main"}) \cup ({"held"} \X Workers)

Where(p) ==
  CASE p[1] = "iter" -> InLists(digests_iter)
    [] p[1] = "backlog" -> InLists(backlog)
    [] p[1] = "pt" -> InLists(ptq)
    [] p[1] = "held" -> InResults(held[p[2]])
    [] p[1] = "bt" -> InResults(btq)
    [] p[1] = "store" -> UNION {Covers(b) : b \in blobs}

Contents == [p \in Places |-> Where(p)]

(* What is together in a place is not there twice.                         *)
Unrepeated ==
  /\ NoRepeat(digests_iter) /\ NoRepeat(backlog) /\ NoRepeat(ptq)
  /\ Separate(btq) /\ \A w \in Workers : Separate(held[w])
  /\ \A b, c \in blobs : b # c => Covers(b) \cap Covers(c) = {}

(* A result stands for something.                                          *)
Covering ==
  /\ \A i \in DOMAIN btq : Covers(btq[i].d) # {}
  /\ \A w \in Workers : \A i \in DOMAIN held[w] : Covers(held[w][i].d) # {}

(* What the loop has of the lists' blobs, over all places.                 *)
Spread ==
  /\ \A p, q \in Places : p # q => Contents[p] \cap Contents[q] = {}
  /\ \A p \in Places : Contents[p] \subseteq Listed
  /\ Running => Listed \cap Present \subseteq UNION {Contents[p] : p \in Places}

NotStarted ==
  /\ digests_iter = <<>> /\ backlog = <<>> /\ ptq = <<>> /\ btq = <<>>
  /\ held = [w \in Workers |-> <<>>]
  /\ blobs = {}

PlacesInv ==
  /\ Unrepeated /\ Covering
  /\ Spread
  /\ IF pc = "graph" THEN NotStarted ELSE phase = "listed"
  /\ pc # "panicked"

(* Entries are made for blobs that are stored: what a multi blob does not  *)
(* contain of its task goes before it all the way.                         *)
EntriesInv ==
  /\ EntryMeansStored
  /\ Preceded(btq, blobs)
  /\ Running => \A w \in Workers : Preceded(held[w], blobs \cup {btq[j].d : j \in DOMAIN btq})

LEMMA PlaceNames ==
  /\ <<"iter", "main">> \in Places /\ <<"backlog", "main">> \in Places /\ <<"pt", "main">> \in Places
  /\ <<"bt", "main">> \in Places /\ <<"store", "main">> \in Places
  /\ \A w \in Workers : <<"held", w>> \in Places
  /\ \A p \in Places :
       \/ p \in {<<"iter", "main">>, <<"backlog", "main">>, <<"pt", "main">>, <<"bt", "main">>, <<"store", "main">>}
       \/ \E w \in Workers : p = <<"held", w>>
BY DEF Places

ContentsByPlace ==
  /\ Contents[<<"iter", "main">>] = InLists(digests_iter)
  /\ Contents[<<"backlog", "main">>] = InLists(backlog)
  /\ Contents[<<"pt", "main">>] = InLists(ptq)
  /\ Contents[<<"bt", "main">>] = InResults(btq)
  /\ Contents[<<"store", "main">>] = UNION {Covers(b) : b \in blobs}
  /\ \A w \in Workers : Contents[<<"held", w>>] = InResults(held[w])

LEMMA ContentsAre == ContentsByPlace
<1>1. \A p \in Places : Contents[p] = Where(p)
  BY DEF Contents
<1>2. /\ Where(<<"iter", "main">>) = InLists(digests_iter)
      /\ Where(<<"backlog", "main">>) = InLists(backlog)
      /\ Where(<<"pt", "main">>) = InLists(ptq)
      /\ Where(<<"bt", "main">>) = InResults(btq)
      /\ Where(<<"store", "main">>) = UNION {Covers(b) : b \in blobs}
      /\ \A w \in Workers : Where(<<"held", w>>) = InResults(held[w])
  BY DEF Where
<1> QED  BY <1>1, <1>2, PlaceNames DEF ContentsByPlace

LEMMA ContentsAreNext == ContentsByPlace'
BY ContentsAre, PTL

(* Some digests go from one place to another, or are forgotten.            *)
LEMMA Moved ==
  ASSUME NEW P, NEW f, NEW g, NEW a \in P, NEW b \in P, a # b, NEW X, NEW L, NEW K,
         \A p, q \in P : p # q => f[p] \cap f[q] = {},
         \A p \in P : f[p] \subseteq L,
         X \subseteq f[a], g[a] \subseteq f[a] \ X, g[b] \subseteq f[b] \cup X,
         \A p \in P : p # a /\ p # b => g[p] = f[p],
         f[b] \subseteq g[b], f[a] \cap K \subseteq g[a] \cup g[b]
  PROVE  /\ \A p, q \in P : p # q => g[p] \cap g[q] = {}
         /\ \A p \in P : g[p] \subseteq L
         /\ K \subseteq UNION {f[p] : p \in P} => K \subseteq UNION {g[p] : p \in P}
<1>1. ASSUME NEW p \in P, NEW q \in P, p # q, NEW d \in g[p] \cap g[q] PROVE FALSE
  <2>1. \A r \in P : d \in g[r] => d \in f[r] \/ (r = b /\ d \in f[a])
    OBVIOUS
  <2>2. d \in g[a] => d \notin X
    OBVIOUS
  <2>3. CASE d \in f[p] /\ d \in f[q]
    BY <1>1, <2>3
  <2>4. CASE d \notin f[p] \/ d \notin f[q]
    <3>1. d \in X /\ d \in f[a] /\ (p = b \/ q = b)
      BY <1>1, <2>4
    <3>2. \A r \in P : d \in g[r] /\ r # b => d \in f[r] /\ r # a
      BY <2>1, <2>2, <3>1
    <3>3. \A r \in P : d \in f[r] => r = a
      BY <3>1
    <3> QED  BY <1>1, <3>1, <3>2, <3>3
  <2> QED  BY <2>3, <2>4
<1>2. \A p \in P : g[p] \subseteq L
  OBVIOUS
<1>3. ASSUME K \subseteq UNION {f[p] : p \in P}, NEW d \in K PROVE \E p \in P : d \in g[p]
  <2>1. PICK p \in P : d \in f[p]
    BY <1>3
  <2> QED  BY <2>1
<1> QED  BY <1>1, <1>2, <1>3

LEMMA SameListed == UNCHANGED graphVars => Listed' = Listed /\ phase' = phase
BY DEF graphVars, walking, Listed

LEMMA MovedContents ==
  ASSUME Spread, Listed' = Listed, Running' => Running,
         NEW a \in Places, NEW b \in Places, a # b, NEW X,
         X \subseteq Contents[a], Contents'[a] \subseteq Contents[a] \ X,
         Contents'[b] \subseteq Contents[b] \cup X, Contents[b] \subseteq Contents'[b],
         Contents[a] \cap Present \subseteq Contents'[a] \cup Contents'[b],
         \A p \in Places : p # a /\ p # b => Contents'[p] = Contents[p]
  PROVE  Spread'
<1> DEFINE f == Contents
           g == Contents'
           L == Listed
           K == Listed \cap Present
<1>1. /\ \A p, q \in Places : p # q => f[p] \cap f[q] = {}
      /\ \A p \in Places : f[p] \subseteq L
  BY DEF Spread
<1>2. /\ X \subseteq f[a] /\ g[a] \subseteq f[a] \ X /\ g[b] \subseteq f[b] \cup X
      /\ f[b] \subseteq g[b] /\ f[a] \cap K \subseteq g[a] \cup g[b]
      /\ \A p \in Places : p # a /\ p # b => g[p] = f[p]
  OBVIOUS
<1> HIDE DEF f, g, L, K
<1>3. /\ \A p, q \in Places : p # q => g[p] \cap g[q] = {}
      /\ \A p \in Places : g[p] \subseteq L
      /\ K \subseteq UNION {f[p] : p \in Places} => K \subseteq UNION {g[p] : p \in Places}
  BY <1>1, <1>2, Moved
<1> QED  BY <1>3 DEF Spread, f, g, L, K

(* Nothing moves but what is given up for good, after the loop.            *)
LEMMA ShrunkContents ==
  ASSUME Spread, Listed' = Listed, ~ Running',
         \A p \in Places : Contents'[p] \subseteq Contents[p]
  PROVE  Spread'
BY DEF Spread

LEMMA SameContents ==
  ASSUME Spread, Listed' = Listed, Running' => Running,
         \A p \in Places : Contents'[p] = Contents[p]
  PROVE  Spread'
<1> DEFINE f == Contents
           g == Contents'
<1>1. UNION {g[p] : p \in Places} = UNION {f[p] : p \in Places}
  OBVIOUS
<1> QED  BY <1>1 DEF Spread

LEMMA TakeContents ==
  ASSUME LoopTypes, PlacesInv, NEW w \in Workers, WorkerTake(w)
  PROVE  PlacesInv'
<1>1. /\ held[w] = <<>> /\ ptq # <<>> /\ ptq' = Tail(ptq)
      /\ held' = [held EXCEPT ![w] = CreateMultiBlob(Head(ptq))]
      /\ UNCHANGED <<graphVars, digests_iter, backlog, btq, pc, blobs>>
  BY DEF WorkerTake, store
<1> DEFINE task == Head(ptq)
           r == CreateMultiBlob(task)
<1>2. ptq \in Seq(Seq(Present)) /\ task \in Seq(Present) /\ NoRepeat(ptq) /\ held \in [Workers -> Seq(Result)]
  BY <1>1, TailType DEF LoopTypes, PlacesInv, Unrepeated
<1>3. /\ NoRepeat(ptq') /\ Distinct(task)
      /\ InLists(ptq') = InLists(ptq) \ Range(task) /\ Range(task) \subseteq InLists(ptq)
  BY <1>1, <1>2, ListsTail
<1>4. Separate(r) /\ InResults(r) = Range(task) /\ \A i \in DOMAIN r : Covers(r[i].d) # {}
  BY <1>2, <1>3, CreateParts
<1> HIDE DEF task, r
<1>5. held'[w] = r /\ \A v \in Workers : v # w => held'[v] = held[v]
  BY <1>1, <1>2 DEF r, task
<1>6. Unrepeated' /\ Covering'
  BY <1>1, <1>3, <1>4, <1>5 DEF PlacesInv, Unrepeated, Covering
<1> DEFINE a == <<"pt", "main">>
           b == <<"held", w>>
           X == Range(task)
<1>7. a \in Places /\ b \in Places /\ a # b
  BY PlaceNames
<1>8. /\ Contents[a] = InLists(ptq) /\ Contents'[a] = InLists(ptq')
      /\ Contents[b] = {} /\ Contents'[b] = X
  <2>1. InResults(held[w]) = {}
    BY <1>1 DEF InResults
  <2> QED  BY <1>4, <1>5, <2>1, ContentsAre, ContentsAreNext DEF ContentsByPlace
<1>9. ASSUME NEW p \in Places, p # a, p # b PROVE Contents'[p] = Contents[p]
  <2>1. CASE p \in {<<"iter", "main">>, <<"backlog", "main">>, <<"bt", "main">>, <<"store", "main">>}
    BY <1>1, <2>1, ContentsAre, ContentsAreNext DEF ContentsByPlace
  <2>2. ASSUME NEW v \in Workers, p = <<"held", v>> PROVE Contents'[p] = Contents[p]
    BY <1>5, <1>9, <2>2, ContentsAre, ContentsAreNext DEF ContentsByPlace
  <2> QED  BY <1>9, <2>1, <2>2, PlaceNames
<1>10. Listed' = Listed /\ phase' = phase /\ pc' = pc /\ (Running' <=> Running)
  BY <1>1, SameListed DEF Running
<1>11. Spread'
  <2> HIDE DEF a, b, X
  <2> QED  BY <1>3, <1>7, <1>8, <1>9, <1>10, MovedContents DEF PlacesInv, X
<1>12. pc # "graph"
  BY <1>1 DEF PlacesInv, NotStarted
<1> QED  BY <1>6, <1>10, <1>11, <1>12 DEF PlacesInv

LEMMA EmitContents ==
  ASSUME LoopTypes, PlacesInv, NEW w \in Workers, WorkerEmit(w)
  PROVE  PlacesInv'
<1> DEFINE r == held[w]
           x == Head(r)
<1>1. /\ r # <<>> /\ btq' = Append(btq, x) /\ held' = [held EXCEPT ![w] = Tail(r)]
      /\ UNCHANGED <<graphVars, digests_iter, backlog, ptq, pc, blobs>>
  BY DEF WorkerEmit, store
<1>2. /\ r \in Seq(Result) /\ x \in Result /\ Separate(r) /\ held \in [Workers -> Seq(Result)]
      /\ btq \in Seq(Result) /\ Separate(btq)
  BY <1>1, TailType DEF LoopTypes, PlacesInv, Unrepeated
<1>3. /\ Separate(Tail(r))
      /\ InResults(Tail(r)) = InResults(r) \ Covers(x.d) /\ Covers(x.d) \subseteq InResults(r)
  BY <1>1, <1>2, ResultsTail
<1>4. held'[w] = Tail(r) /\ \A v \in Workers : v # w => held'[v] = held[v]
  BY <1>1, <1>2
<1> DEFINE a == <<"held", w>>
           b == <<"bt", "main">>
           X == Covers(x.d)
<1>5. a \in Places /\ b \in Places /\ a # b
  BY PlaceNames
<1>6. Contents[a] = InResults(r) /\ Contents[b] = InResults(btq) /\ Contents[a] \cap Contents[b] = {}
  BY <1>5, ContentsAre DEF ContentsByPlace, PlacesInv, Spread
<1>7. X \cap InResults(btq) = {}
  BY <1>3, <1>6
<1>8. Separate(btq') /\ InResults(btq') = InResults(btq) \cup X
  <2> HIDE DEF r, x
  <2> QED  BY <1>1, <1>2, <1>7, ResultsAppend
<1>9. Contents'[a] = InResults(Tail(r)) /\ Contents'[b] = InResults(btq')
  BY <1>4, ContentsAreNext DEF ContentsByPlace
<1>10. Unrepeated'
  BY <1>1, <1>3, <1>4, <1>8 DEF PlacesInv, Unrepeated
<1>11. Covering'
  <2>1. /\ 1 \in DOMAIN r /\ x = r[1]
        /\ \A i \in DOMAIN Tail(r) : i + 1 \in DOMAIN r /\ Tail(r)[i] = r[i + 1]
    BY <1>1, <1>2, TailParts
  <2>2. \A i \in DOMAIN r : Covers(r[i].d) # {}
    BY DEF PlacesInv, Covering
  <2>3. \A i \in DOMAIN Tail(r) : Covers(Tail(r)[i].d) # {}
    BY <2>1, <2>2
  <2>4. Covers(x.d) # {}
    BY <2>1, <2>2
  <2>5. /\ DOMAIN btq' = DOMAIN btq \cup {Len(btq) + 1}
        /\ \A i \in DOMAIN btq : btq'[i] = btq[i]
        /\ btq'[Len(btq) + 1] = x
    <3> HIDE DEF r, x
    <3> QED  BY <1>1, <1>2, AppendType
  <2>6. \A i \in DOMAIN btq' : Covers(btq'[i].d) # {}
    <3> HIDE DEF r, x
    <3> QED  BY <2>4, <2>5 DEF PlacesInv, Covering
  <2> QED  BY <1>4, <2>3, <2>6 DEF PlacesInv, Covering
<1>12. ASSUME NEW p \in Places, p # a, p # b PROVE Contents'[p] = Contents[p]
  <2>1. CASE p \in {<<"iter", "main">>, <<"backlog", "main">>, <<"pt", "main">>, <<"store", "main">>}
    BY <1>1, <2>1, ContentsAre, ContentsAreNext DEF ContentsByPlace
  <2>2. ASSUME NEW v \in Workers, p = <<"held", v>> PROVE Contents'[p] = Contents[p]
    BY <1>4, <1>12, <2>2, ContentsAre, ContentsAreNext DEF ContentsByPlace
  <2> QED  BY <1>12, <2>1, <2>2, PlaceNames
<1>13. Listed' = Listed /\ phase' = phase /\ pc' = pc /\ (Running' <=> Running)
  BY <1>1, SameListed DEF Running
<1>14. Spread'
  <2> HIDE DEF a, b, X, r, x
  <2>1. /\ X \subseteq Contents[a] /\ Contents'[a] \subseteq Contents[a] \ X
        /\ Contents'[b] \subseteq Contents[b] \cup X /\ Contents[b] \subseteq Contents'[b]
        /\ Contents[a] \cap Present \subseteq Contents'[a] \cup Contents'[b]
    BY <1>3, <1>6, <1>8, <1>9 DEF X
  <2> QED  BY <1>5, <1>12, <1>13, <2>1, MovedContents DEF PlacesInv
<1>15. pc # "graph"
  BY DEF WorkerEmit, Running
<1> QED  BY <1>10, <1>11, <1>13, <1>14, <1>15 DEF PlacesInv

LEMMA SendFailsContents ==
  ASSUME LoopTypes, PlacesInv, NEW w \in Workers, WorkerSendFails(w)
  PROVE  PlacesInv'
<1>1. /\ Over /\ held' = [held EXCEPT ![w] = <<>>]
      /\ UNCHANGED <<graphVars, digests_iter, backlog, ptq, btq, pc, blobs>>
  BY DEF WorkerSendFails, store
<1>2. held'[w] = <<>> /\ \A v \in Workers : v # w => held'[v] = held[v]
  BY <1>1 DEF LoopTypes
<1>3. Separate(<<>>) /\ InResults(<<>>) = {}
  BY DEF Separate, InResults
<1>4. Unrepeated' /\ Covering'
  BY <1>1, <1>2, <1>3 DEF PlacesInv, Unrepeated, Covering
<1>5. ASSUME NEW p \in Places PROVE Contents'[p] \subseteq Contents[p]
  <2>1. CASE p \in {<<"iter", "main">>, <<"backlog", "main">>, <<"pt", "main">>, <<"bt", "main">>, <<"store", "main">>}
    BY <1>1, <2>1, ContentsAre, ContentsAreNext DEF ContentsByPlace
  <2>2. ASSUME NEW v \in Workers, p = <<"held", v>> PROVE Contents'[p] \subseteq Contents[p]
    BY <1>2, <1>3, <2>2, ContentsAre, ContentsAreNext DEF ContentsByPlace
  <2> QED  BY <2>1, <2>2, PlaceNames
<1>6. Listed' = Listed /\ phase' = phase /\ pc' = pc
  BY <1>1, SameListed
<1>7. ~ Running' /\ pc # "graph"
  BY <1>1 DEF Over, Running
<1>8. Spread'
  BY <1>5, <1>6, <1>7, ShrunkContents DEF PlacesInv
<1> QED  BY <1>4, <1>6, <1>7, <1>8 DEF PlacesInv

(* Steps that move nothing.                                                *)
LEMMA IdleContents ==
  ASSUME PlacesInv, UNCHANGED <<graphVars, digests_iter, backlog, ptq, btq, held, blobs>>,
         pc' # "graph" \/ pc' = pc, pc # "graph" \/ pc' = pc, pc' # "panicked",
         Running' => Running
  PROVE  PlacesInv'
<1>1. Unrepeated' /\ Covering'
  BY DEF PlacesInv, Unrepeated, Covering
<1>2. ASSUME NEW p \in Places PROVE Contents'[p] = Contents[p]
  <2>1. CASE p \in {<<"iter", "main">>, <<"backlog", "main">>, <<"pt", "main">>, <<"bt", "main">>, <<"store", "main">>}
    BY <2>1, ContentsAre, ContentsAreNext DEF ContentsByPlace
  <2>2. ASSUME NEW v \in Workers, p = <<"held", v>> PROVE Contents'[p] = Contents[p]
    BY <2>2, ContentsAre, ContentsAreNext DEF ContentsByPlace
  <2> QED  BY <2>1, <2>2, PlaceNames
<1>3. Listed' = Listed /\ phase' = phase
  BY SameListed
<1>4. Spread'
  BY <1>2, <1>3, SameContents DEF PlacesInv
<1>5. pc' = pc /\ pc = "graph" => NotStarted'
  BY DEF PlacesInv, NotStarted
<1> QED  BY <1>1, <1>3, <1>4, <1>5 DEF PlacesInv

LEMMA StoreContents ==
  ASSUME LoopTypes, PlacesInv, StoreBlob \/ StoreMultiBlob
  PROVE  PlacesInv'
<1> DEFINE x == Head(btq)
           a == <<"bt", "main">>
           b == <<"store", "main">>
           X == Covers(x.d)
<1>1. /\ pc = "recv" /\ btq # <<>> /\ btq' = Tail(btq) /\ Inserted(x.d)
      /\ UNCHANGED <<graphVars, digests_iter, backlog, ptq, held>>
  BY DEF StoreBlob, StoreMultiBlob, threads
<1>2. btq \in Seq(Result) /\ Separate(btq)
  BY DEF LoopTypes, PlacesInv, Unrepeated
<1>3. /\ Separate(btq')
      /\ InResults(btq') = InResults(btq) \ X /\ X \subseteq InResults(btq)
  BY <1>1, <1>2, ResultsTail
<1>4. /\ 1 \in DOMAIN btq /\ x = btq[1]
      /\ \A i \in DOMAIN btq' : i + 1 \in DOMAIN btq /\ btq'[i] = btq[i + 1]
  BY <1>1, <1>2, TailParts
<1>5. X # {} /\ \A i \in DOMAIN btq' : Covers(btq'[i].d) # {}
  BY <1>4 DEF PlacesInv, Covering
<1>6. a \in Places /\ b \in Places /\ a # b
  BY PlaceNames
<1>7. /\ Contents[a] = InResults(btq) /\ Contents'[a] = InResults(btq')
      /\ Contents[b] = UNION {Covers(c) : c \in blobs} /\ Contents[a] \cap Contents[b] = {}
  BY <1>6, ContentsAre, ContentsAreNext DEF ContentsByPlace, PlacesInv, Spread
<1> HIDE DEF x
<1>8. \A c \in blobs : X \cap Covers(c) = {}
  BY <1>3, <1>7
<1>9. x.d \notin blobs
  BY <1>5, <1>8
<1>10. blobs' = blobs \cup {x.d} /\ pc' = "refill"
  BY <1>1, <1>9 DEF Inserted
<1>11. Contents'[b] = Contents[b] \cup X
  BY <1>7, <1>10, ContentsAreNext DEF ContentsByPlace
<1>12. \A c, e \in blobs' : c # e => Covers(c) \cap Covers(e) = {}
  BY <1>8, <1>10 DEF PlacesInv, Unrepeated
<1>13. Unrepeated' /\ Covering'
  BY <1>1, <1>3, <1>5, <1>12 DEF PlacesInv, Unrepeated, Covering
<1>14. ASSUME NEW p \in Places, p # a, p # b PROVE Contents'[p] = Contents[p]
  <2>1. CASE p \in {<<"iter", "main">>, <<"backlog", "main">>, <<"pt", "main">>}
    BY <1>1, <2>1, ContentsAre, ContentsAreNext DEF ContentsByPlace
  <2>2. ASSUME NEW v \in Workers, p = <<"held", v>> PROVE Contents'[p] = Contents[p]
    BY <1>1, <2>2, ContentsAre, ContentsAreNext DEF ContentsByPlace
  <2> QED  BY <1>14, <2>1, <2>2, PlaceNames
<1>15. Listed' = Listed /\ phase' = phase /\ Running
  BY <1>1, SameListed DEF Running
<1>16. Spread'
  <2> HIDE DEF a, b, X
  <2>1. /\ X \subseteq Contents[a] /\ Contents'[a] \subseteq Contents[a] \ X
        /\ Contents'[b] \subseteq Contents[b] \cup X /\ Contents[b] \subseteq Contents'[b]
        /\ Contents[a] \cap Present \subseteq Contents'[a] \cup Contents'[b]
    BY <1>3, <1>7, <1>11
  <2> QED  BY <1>6, <1>14, <1>15, <2>1, MovedContents DEF PlacesInv
<1> QED  BY <1>1, <1>10, <1>13, <1>15, <1>16 DEF PlacesInv

(* take(10) and the reading of the blobs.                                  *)
SplitAt(q, k, f, g) ==
  /\ q \in Seq(Seq(Digests)) /\ k \in 1..Len(q)
  /\ DOMAIN f = 1..k /\ \A i \in 1..k : f[i] = Only(q[i], Present)
  /\ DOMAIN g = 1..(Len(q) - k) /\ \A i \in DOMAIN g : g[i] = q[i + k]

(* The digests of the first k lists.                                       *)
InFirst(q, k) == UNION {Range(q[i]) : i \in 1..k}

LEMMA ListsSplit ==
  ASSUME NEW q, NEW k, NEW f, NEW g, SplitAt(q, k, f, g), NoRepeat(q)
  PROVE  /\ NoRepeat(f) /\ NoRepeat(g)
         /\ InFirst(q, k) \subseteq InLists(q)
         /\ InLists(g) = InLists(q) \ InFirst(q, k)
         /\ InLists(f) = InFirst(q, k) \cap Present
<1> DEFINE n == Len(q)
           X == InFirst(q, k)
<1>1. n \in Nat /\ k \in 1..n /\ DOMAIN q = 1..n /\ DOMAIN f = 1..k
  BY DEF SplitAt
<1> HIDE DEF n
<1>2. /\ \A i \in 1..k : i \in DOMAIN q
      /\ \A i \in 1..(n - k) : i + k \in DOMAIN q /\ i + k \notin 1..k
      /\ \A i \in DOMAIN q : i \in 1..k \/ \E j \in 1..(n - k) : i = j + k
      /\ \A i, j \in 1..(n - k) : i # j => i + k # j + k
  <2>1. ASSUME NEW i \in 1..n, i \notin 1..k PROVE \E j \in 1..(n - k) : i = j + k
    <3>1. i - k \in 1..(n - k) /\ i = (i - k) + k
      BY <1>1, <2>1
    <3> QED  BY <3>1
  <2>2. /\ \A i \in 1..k : i \in 1..n
        /\ \A i \in 1..(n - k) : i + k \in 1..n /\ i + k \notin 1..k
        /\ \A i, j \in 1..(n - k) : i # j => i + k # j + k
    BY <1>1
  <2> QED  BY <1>1, <2>1, <2>2
<1>3. /\ DOMAIN g = 1..(n - k) /\ \A i \in 1..(n - k) : g[i] = q[i + k]
  BY DEF n, SplitAt
<1>4. \A i \in 1..k : /\ Range(f[i]) = Range(q[i]) \cap Present
                      /\ Distinct(q[i]) => Distinct(f[i])
  <2> SUFFICES ASSUME NEW i \in 1..k
               PROVE  /\ Range(f[i]) = Range(q[i]) \cap Present
                      /\ Distinct(q[i]) => Distinct(f[i])
    OBVIOUS
  <2> DEFINE S == Seq(Digests)
  <2>1. q \in Seq(S) /\ i \in DOMAIN q
    BY <1>2 DEF SplitAt
  <2> HIDE DEF S
  <2>2. q[i] \in S
    BY <2>1, ElementType
  <2>3. f[i] = Only(q[i], Present)
    BY DEF SplitAt
  <2>4. q[i] \in Seq(Digests)
    BY <2>2 DEF S
  <2>5. /\ Range(Only(q[i], Present)) = Range(q[i]) \cap Present
        /\ Distinct(q[i]) => Distinct(Only(q[i], Present))
    BY <2>4, OnlyProperties
  <2> QED  BY <2>3, <2>5
<1>5. NoRepeat(f)
  <2>1. \A i \in 1..k : Distinct(f[i])
    BY <1>2, <1>4 DEF NoRepeat
  <2>2. \A i, j \in 1..k : i # j => Range(f[i]) \cap Range(f[j]) = {}
    BY <1>2, <1>4 DEF NoRepeat
  <2> QED  BY <1>1, <2>1, <2>2 DEF NoRepeat
<1>6. NoRepeat(g)
  BY <1>2, <1>3 DEF NoRepeat
<1>7. X \subseteq InLists(q)
  BY <1>2 DEF InLists, InFirst
<1>8. ASSUME NEW d PROVE d \in InLists(g) <=> d \in InLists(q) /\ d \notin X
  <2>1. ASSUME d \in InLists(g) PROVE d \in InLists(q) /\ d \notin X
    <3>1. PICK i \in 1..(n - k) : d \in Range(g[i])
      BY <1>3, <2>1 DEF InLists
    <3>2. i + k \in DOMAIN q /\ i + k \notin 1..k /\ d \in Range(q[i + k])
      BY <1>2, <1>3, <3>1
    <3>3. \A j \in 1..k : Range(q[j]) \cap Range(q[i + k]) = {}
      BY <1>2, <3>2 DEF NoRepeat
    <3> QED  BY <3>2, <3>3 DEF InLists, InFirst
  <2>2. ASSUME d \in InLists(q), d \notin X PROVE d \in InLists(g)
    <3>1. PICK i \in DOMAIN q : d \in Range(q[i])
      BY <2>2 DEF InLists
    <3>2. i \notin 1..k
      BY <2>2, <3>1 DEF InFirst
    <3>3. PICK j \in 1..(n - k) : i = j + k
      BY <1>2, <3>2
    <3>4. j \in DOMAIN g /\ g[j] = q[i]
      BY <1>3, <3>3
    <3> QED  BY <3>1, <3>4 DEF InLists
  <2> QED  BY <2>1, <2>2
<1>9. InLists(f) = X \cap Present
  BY <1>1, <1>4 DEF InLists, InFirst
<1> QED  BY <1>5, <1>6, <1>7, <1>8, <1>9

LEMMA RefillContents ==
  ASSUME LoopTypes, PlacesInv, Refill
  PROVE  PlacesInv'
<1>1. /\ pc = "refill" /\ pc' = "push"
      /\ UNCHANGED <<graphVars, ptq, btq, held, blobs>>
  BY DEF Refill, threads, store
<1>2. Running /\ Running'
  BY <1>1 DEF Running
<1>3. CASE ~ (backlog = <<>> /\ digests_iter # <<>>)
  <2>1. UNCHANGED <<digests_iter, backlog>>
    BY <1>3 DEF Refill
  <2> QED  BY <1>1, <1>2, <2>1, IdleContents
<1>4. CASE backlog = <<>> /\ digests_iter # <<>>
  <2>1. /\ TakeCount \in 1..Len(digests_iter)
        /\ DOMAIN backlog' = 1..TakeCount
        /\ \A i \in 1..TakeCount : backlog'[i] = Only(digests_iter[i], Present)
        /\ DOMAIN digests_iter' = 1..(Len(digests_iter) - TakeCount)
        /\ \A i \in DOMAIN digests_iter' : digests_iter'[i] = digests_iter[i + TakeCount]
    BY <1>4, RefillParts
  <2>2. digests_iter \in Seq(Seq(Digests)) /\ NoRepeat(digests_iter)
    BY DEF LoopTypes, PlacesInv, Unrepeated
  <2> DEFINE a == <<"iter", "main">>
             b == <<"backlog", "main">>
             X == InFirst(digests_iter, TakeCount)
  <2>3. SplitAt(digests_iter, TakeCount, backlog', digests_iter')
    BY <2>1, <2>2 DEF SplitAt
  <2>4. /\ NoRepeat(backlog') /\ NoRepeat(digests_iter')
        /\ X \subseteq InLists(digests_iter)
        /\ InLists(digests_iter') = InLists(digests_iter) \ X
        /\ InLists(backlog') = X \cap Present
    BY <2>2, <2>3, ListsSplit
  <2>5. Unrepeated' /\ Covering'
    BY <1>1, <2>4 DEF PlacesInv, Unrepeated, Covering
  <2>6. a \in Places /\ b \in Places /\ a # b
    BY PlaceNames
  <2>7. /\ Contents[a] = InLists(digests_iter) /\ Contents'[a] = InLists(digests_iter')
        /\ Contents[b] = {} /\ Contents'[b] = InLists(backlog')
    <3>1. InLists(backlog) = {}
      BY <1>4 DEF InLists
    <3> QED  BY <3>1, ContentsAre, ContentsAreNext DEF ContentsByPlace
  <2>8. ASSUME NEW p \in Places, p # a, p # b PROVE Contents'[p] = Contents[p]
    <3>1. CASE p \in {<<"pt", "main">>, <<"bt", "main">>, <<"store", "main">>}
      BY <1>1, <3>1, ContentsAre, ContentsAreNext DEF ContentsByPlace
    <3>2. ASSUME NEW v \in Workers, p = <<"held", v>> PROVE Contents'[p] = Contents[p]
      BY <1>1, <3>2, ContentsAre, ContentsAreNext DEF ContentsByPlace
    <3> QED  BY <2>8, <3>1, <3>2, PlaceNames
  <2>9. Listed' = Listed /\ phase' = phase
    BY <1>1, SameListed
  <2>10. Spread'
    <3> HIDE DEF a, b, X
    <3>1. /\ X \subseteq Contents[a] /\ Contents'[a] \subseteq Contents[a] \ X
          /\ Contents'[b] \subseteq Contents[b] \cup X /\ Contents[b] \subseteq Contents'[b]
          /\ Contents[a] \cap Present \subseteq Contents'[a] \cup Contents'[b]
      BY <2>4, <2>7
    <3> QED  BY <1>2, <2>6, <2>8, <2>9, <3>1, MovedContents DEF PlacesInv
  <2> QED  BY <1>1, <2>5, <2>9, <2>10 DEF PlacesInv
<1> QED  BY <1>3, <1>4

LEMMA PushContents ==
  ASSUME LoopTypes, PlacesInv, Push
  PROVE  PlacesInv'
<1> DEFINE x == Last(backlog)
           a == <<"backlog", "main">>
           b == <<"pt", "main">>
           X == Range(x)
<1>1. /\ pc = "push" /\ pc' = pc /\ backlog # <<>>
      /\ ptq' = Append(ptq, x) /\ backlog' = Front(backlog)
      /\ UNCHANGED <<graphVars, digests_iter, btq, held, blobs>>
  BY DEF Push, threads, store
<1>2. /\ backlog \in Seq(Seq(Present)) /\ NoRepeat(backlog)
      /\ ptq \in Seq(Seq(Present)) /\ NoRepeat(ptq) /\ x \in Seq(Present)
  BY <1>1, FrontType DEF LoopTypes, PlacesInv, Unrepeated
<1>3. /\ NoRepeat(backlog') /\ Distinct(x)
      /\ InLists(backlog') = InLists(backlog) \ X /\ X \subseteq InLists(backlog)
  BY <1>1, <1>2, ListsFront
<1>4. a \in Places /\ b \in Places /\ a # b
  BY PlaceNames
<1>5. Contents[a] = InLists(backlog) /\ Contents[b] = InLists(ptq) /\ Contents[a] \cap Contents[b] = {}
  BY <1>4, ContentsAre DEF ContentsByPlace, PlacesInv, Spread
<1>6. NoRepeat(ptq') /\ InLists(ptq') = InLists(ptq) \cup X
  <2> DEFINE T == Seq(Present)
  <2>1. ptq \in Seq(T) /\ x \in T /\ Range(x) \cap InLists(ptq) = {}
    BY <1>2, <1>3, <1>5
  <2> HIDE DEF T, x
  <2> QED  BY <1>1, <1>2, <1>3, <2>1, ListsAppend
<1>7. Contents'[a] = InLists(backlog') /\ Contents'[b] = InLists(ptq')
  BY ContentsAreNext DEF ContentsByPlace
<1>8. Unrepeated' /\ Covering'
  BY <1>1, <1>3, <1>6 DEF PlacesInv, Unrepeated, Covering
<1>9. ASSUME NEW p \in Places, p # a, p # b PROVE Contents'[p] = Contents[p]
  <2>1. CASE p \in {<<"iter", "main">>, <<"bt", "main">>, <<"store", "main">>}
    BY <1>1, <2>1, ContentsAre, ContentsAreNext DEF ContentsByPlace
  <2>2. ASSUME NEW v \in Workers, p = <<"held", v>> PROVE Contents'[p] = Contents[p]
    BY <1>1, <2>2, ContentsAre, ContentsAreNext DEF ContentsByPlace
  <2> QED  BY <1>9, <2>1, <2>2, PlaceNames
<1>10. Listed' = Listed /\ phase' = phase /\ (Running' => Running)
  BY <1>1, SameListed DEF Running
<1>11. Spread'
  <2> HIDE DEF a, b, X, x
  <2>1. /\ X \subseteq Contents[a] /\ Contents'[a] \subseteq Contents[a] \ X
        /\ Contents'[b] \subseteq Contents[b] \cup X /\ Contents[b] \subseteq Contents'[b]
        /\ Contents[a] \cap Present \subseteq Contents'[a] \cup Contents'[b]
    BY <1>3, <1>5, <1>6, <1>7
  <2> QED  BY <1>4, <1>9, <1>10, <2>1, MovedContents DEF PlacesInv
<1> QED  BY <1>1, <1>8, <1>10, <1>11 DEF PlacesInv

LEMMA ReturnContents ==
  ASSUME PlacesInv, Return
  PROVE  PlacesInv'
<1>1. /\ pc = "push" /\ pc' = "returned" /\ btq' = <<>>
      /\ UNCHANGED <<graphVars, digests_iter, backlog, ptq, held, blobs>>
  BY DEF Return, PushingEnds, threads, store
<1>2. Separate(<<>>) /\ InResults(<<>>) = {}
  BY DEF Separate, InResults
<1>3. Unrepeated' /\ Covering'
  BY <1>1, <1>2 DEF PlacesInv, Unrepeated, Covering
<1>4. ASSUME NEW p \in Places PROVE Contents'[p] \subseteq Contents[p]
  <2>1. CASE p \in {<<"iter", "main">>, <<"backlog", "main">>, <<"pt", "main">>, <<"bt", "main">>, <<"store", "main">>}
    BY <1>1, <1>2, <2>1, ContentsAre, ContentsAreNext DEF ContentsByPlace
  <2>2. ASSUME NEW v \in Workers, p = <<"held", v>> PROVE Contents'[p] \subseteq Contents[p]
    BY <1>1, <2>2, ContentsAre, ContentsAreNext DEF ContentsByPlace
  <2> QED  BY <2>1, <2>2, PlaceNames
<1>5. Listed' = Listed /\ phase' = phase /\ ~ Running'
  BY <1>1, SameListed DEF Running
<1>6. Spread'
  BY <1>4, <1>5, ShrunkContents DEF PlacesInv
<1> QED  BY <1>1, <1>3, <1>5, <1>6 DEF PlacesInv

(* Before the loop starts there is nothing anywhere.                       *)
LEMMA NothingYet ==
  ASSUME NotStarted
  PROVE  /\ Unrepeated /\ Covering
         /\ \A p \in Places : Contents[p] = {}
<1>1. /\ NoRepeat(<<>>) /\ Separate(<<>>) /\ InLists(<<>>) = {} /\ InResults(<<>>) = {}
  BY DEF NoRepeat, Separate, InLists, InResults
<1>2. \A w \in Workers : held[w] = <<>>
  BY DEF NotStarted
<1>3. Unrepeated /\ Covering
  BY <1>1, <1>2 DEF Unrepeated, Covering, NotStarted
<1>4. ASSUME NEW p \in Places PROVE Contents[p] = {}
  <2>1. CASE p \in {<<"iter", "main">>, <<"backlog", "main">>, <<"pt", "main">>, <<"bt", "main">>}
    BY <1>1, <2>1, ContentsAre DEF ContentsByPlace, NotStarted
  <2>2. CASE p = <<"store", "main">>
    BY <2>2, ContentsAre DEF ContentsByPlace, NotStarted
  <2>3. ASSUME NEW v \in Workers, p = <<"held", v>> PROVE Contents[p] = {}
    BY <1>1, <1>2, <2>3, ContentsAre DEF ContentsByPlace
  <2> QED  BY <2>1, <2>2, <2>3, PlaceNames
<1> QED  BY <1>3, <1>4

LEMMA NothingYetNext ==
  NotStarted' => /\ Unrepeated' /\ Covering'
                 /\ \A p \in Places : Contents'[p] = {}
<1>1. NotStarted => /\ Unrepeated /\ Covering
                    /\ \A p \in Places : Contents[p] = {}
  BY NothingYet
<1>2. (NotStarted => /\ Unrepeated /\ Covering
                     /\ \A p \in Places : Contents[p] = {})'
  BY <1>1, PTL
<1> QED  BY <1>2

LEMMA StillNotStarted ==
  NotStarted' /\ pc' = "graph" => PlacesInv'
BY NothingYetNext DEF Spread, Running, PlacesInv

LEMMA GraphContents ==
  ASSUME PlacesInv, GraphNext, UNCHANGED loopVars
  PROVE  PlacesInv'
<1>1. UNCHANGED <<digests_iter, backlog, ptq, btq, held, blobs, pc>>
  BY DEF loopVars, threads, store
<1>2. CASE pc = "graph"
  BY <1>1, <1>2, StillNotStarted DEF PlacesInv, NotStarted
<1>3. CASE pc # "graph"
  <2>1. phase = "listed"
    BY <1>3 DEF PlacesInv
  <2> QED  BY <2>1 DEF GraphNext, AddNodes, AddEdges, GraphDone, NextRoot, Walk, WalkOn, ListDone, ListsDone
<1> QED  BY <1>2, <1>3

LEMMA StartContents ==
  ASSUME PlacesInv, EachBlobInOneList, Start
  PROVE  PlacesInv'
<1>1. /\ pc = "graph" /\ phase = "listed" /\ pc' = "recv" /\ digests_iter' = res
      /\ UNCHANGED <<graphVars, backlog, ptq, btq, held, blobs>>
  BY DEF Start, store
<1>2. NotStarted
  BY <1>1 DEF PlacesInv
<1>3. /\ Unrepeated /\ Covering /\ \A p \in Places : Contents[p] = {}
  BY <1>2, NothingYet
<1>4. NoRepeat(res)
  BY DEF EachBlobInOneList, NoRepeat, Distinct, Range
<1>5. Unrepeated' /\ Covering'
  BY <1>1, <1>3, <1>4 DEF Unrepeated, Covering
<1>6. Listed' = Listed /\ phase' = phase
  BY <1>1, SameListed
<1> DEFINE a == <<"iter", "main">>
<1>7. a \in Places /\ Contents'[a] = Listed
  BY <1>1, PlaceNames, ContentsAreNext DEF ContentsByPlace, InLists, Listed
<1>8. ASSUME NEW p \in Places, p # a PROVE Contents'[p] = {}
  <2>1. CASE p \in {<<"backlog", "main">>, <<"pt", "main">>, <<"bt", "main">>, <<"store", "main">>}
    BY <1>1, <1>3, <2>1, ContentsAre, ContentsAreNext DEF ContentsByPlace
  <2>2. ASSUME NEW v \in Workers, p = <<"held", v>> PROVE Contents'[p] = {}
    BY <1>1, <1>3, <2>2, ContentsAre, ContentsAreNext DEF ContentsByPlace
  <2> QED  BY <1>8, <2>1, <2>2, PlaceNames
<1>9. Spread'
  <2> HIDE DEF a
  <2> QED  BY <1>6, <1>7, <1>8 DEF Spread
<1> QED  BY <1>1, <1>5, <1>6, <1>9 DEF PlacesInv

LEMMA PlacesStep ==
  ASSUME LoopTypes, PlacesInv, EachBlobInOneList, [Next]_vars
  PROVE  PlacesInv'
<1>1. ASSUME NEW w \in Workers, WorkerStep(w) PROVE PlacesInv'
  <2>1. CASE WorkerExit(w)
    <3>1. /\ UNCHANGED <<graphVars, digests_iter, backlog, ptq, btq, held, blobs>> /\ pc' = pc
      BY <2>1 DEF WorkerExit, store
    <3>2. pc' # "panicked" /\ (Running' => Running)
      BY <3>1 DEF PlacesInv, Running
    <3> QED  BY <3>1, <3>2, IdleContents
  <2> QED  BY <1>1, <2>1, TakeContents, EmitContents, SendFailsContents DEF WorkerStep
<1>2. CASE RecvTimeout \/ LoopAgain
  <2>1. /\ UNCHANGED <<graphVars, digests_iter, backlog, ptq, btq, held, blobs>>
        /\ pc \in {"recv", "push"} /\ pc' \in {"refill", "recv"}
    BY <1>2 DEF RecvTimeout, LoopAgain, PushingEnds, threads, store
  <2>2. Running /\ pc' # "graph" /\ pc' # "panicked" /\ pc # "graph"
    BY <2>1 DEF Running
  <2> QED  BY <2>1, <2>2, IdleContents
<1>3. CASE Terminated \/ UNCHANGED vars
  <2>1. /\ UNCHANGED <<graphVars, digests_iter, backlog, ptq, btq, held, blobs>> /\ pc' = pc
    BY <1>3 DEF Terminated, vars, loopVars, threads, store
  <2>2. pc' # "panicked" /\ (Running' => Running)
    BY <2>1 DEF PlacesInv, Running
  <2> QED  BY <2>1, <2>2, IdleContents
<1>4. CASE GraphNext /\ UNCHANGED loopVars
  BY <1>4, GraphContents
<1>5. CASE Start
  BY <1>5, StartContents
<1>6. CASE StoreBlob \/ StoreMultiBlob
  BY <1>6, StoreContents
<1>7. CASE Refill
  BY <1>7, RefillContents
<1>8. CASE Push
  BY <1>8, PushContents
<1>9. CASE Return
  BY <1>9, ReturnContents
<1> QED  BY <1>1, <1>2, <1>3, <1>4, <1>5, <1>6, <1>7, <1>8, <1>9 DEF Next, MainStep

LEMMA PlacesInit == Init => PlacesInv
<1> SUFFICES ASSUME Init PROVE PlacesInv
  OBVIOUS
<1>1. NotStarted /\ pc = "graph"
  BY DEF Init, NotStarted
<1> QED  BY <1>1, NothingYet DEF Spread, Running, PlacesInv

LEMMA LoopHolds == Spec => [](AllGraphInv /\ LoopTypes /\ PlacesInv)
<1>1. Init => LoopTypes /\ PlacesInv
  BY TypesInit, PlacesInit
<1>2. AllGraphInv /\ LoopTypes /\ PlacesInv /\ [Next]_vars => LoopTypes' /\ PlacesInv'
  <2>1. AllGraphInv => EachBlobInOneList
    BY DEF AllGraphInv, ListsInv
  <2> QED  BY <2>1, TypesStep, PlacesStep
<1> QED  BY <1>1, <1>2, GraphHolds, PTL DEF Spec

(* The assertions at blob_crate_storage.rs:428 and 439 never fail: no      *)
(* thread makes, and the main thread never receives, a blob or a multi     *)
(* blob that is in the storage already, whatever the lists, the workers    *)
(* and the order the results arrive in.                                    *)
THEOREM StoredOnce == Spec => []NothingStoredTwice
<1>1. PlacesInv => NothingStoredTwice
  BY DEF PlacesInv, NothingStoredTwice
<1> QED  BY <1>1, LoopHolds, PTL

-----------------------------------------------------------------------------
(* Entries of digest_to_multi_blob.                                        *)

LEMMA PrecededMore ==
  ASSUME NEW r, NEW S, NEW T, S \subseteq T, Preceded(r, S)
  PROVE  Preceded(r, T)
BY DEF Preceded

LEMMA PrecededTail ==
  ASSUME NEW r \in Seq(Result), r # <<>>, NEW S, Preceded(r, S)
  PROVE  /\ Preceded(Tail(r), S \cup {Head(r).d})
         /\ Head(r).op = "multi" => \A d \in Range(Head(r).of) : d \in Range(Head(r).d[2]) \cup S
<1> DEFINE t == Tail(r)
           x == Head(r)
<1>1. /\ 1 \in DOMAIN r /\ x = r[1]
      /\ \A i \in DOMAIN t : i + 1 \in DOMAIN r /\ t[i] = r[i + 1]
      /\ \A i \in DOMAIN r : i = 1 \/ \E j \in DOMAIN t : i = j + 1
  BY TailParts
<1>2. DOMAIN r \subseteq Nat \ {0} /\ DOMAIN t \subseteq Nat
  OBVIOUS
<1> HIDE DEF t, x
<1>3. ASSUME NEW i \in DOMAIN t, t[i].op = "multi", NEW d \in Range(t[i].of)
      PROVE  d \in Range(t[i].d[2]) \cup S \cup {x.d} \/ \E j \in DOMAIN t : j < i /\ t[j].d = d
  <2>1. i + 1 \in DOMAIN r /\ t[i] = r[i + 1]
    BY <1>1
  <2>2. d \in Range(t[i].d[2]) \cup S \/ \E j \in DOMAIN r : j < i + 1 /\ r[j].d = d
    BY <1>3, <2>1 DEF Preceded
  <2>3. ASSUME NEW j \in DOMAIN r, j < i + 1, r[j].d = d
        PROVE  d = x.d \/ \E k \in DOMAIN t : k < i /\ t[k].d = d
    <3>1. CASE j = 1
      BY <1>1, <2>3, <3>1
    <3>2. ASSUME NEW k \in DOMAIN t, j = k + 1 PROVE k < i /\ t[k].d = d
      <4>1. k < i
        BY <1>2, <2>3, <3>2
      <4> QED  BY <1>1, <2>3, <3>2, <4>1
    <3> QED  BY <1>1, <3>1, <3>2
  <2> QED  BY <2>2, <2>3
<1>4. ASSUME x.op = "multi", NEW d \in Range(x.of)
      PROVE  d \in Range(x.d[2]) \cup S
  <2>1. d \in Range(x.d[2]) \cup S \/ \E j \in DOMAIN r : j < 1 /\ r[j].d = d
    BY <1>1, <1>4 DEF Preceded
  <2>2. \A j \in DOMAIN r : ~ (j < 1)
    BY <1>2
  <2> QED  BY <2>1, <2>2
<1>5. Preceded(t, S \cup {x.d})
  BY <1>3 DEF Preceded
<1> QED  BY <1>4, <1>5 DEF t, x

LEMMA PrecededAppend ==
  ASSUME NEW q \in Seq(Result), NEW x \in Result, NEW S, Preceded(q, S),
         x.op = "multi" =>
           \A d \in Range(x.of) : d \in Range(x.d[2]) \cup S \cup {q[j].d : j \in DOMAIN q}
  PROVE  Preceded(Append(q, x), S)
<1> DEFINE p == Append(q, x)
           n == Len(q)
<1>1. /\ DOMAIN q = 1..n /\ DOMAIN p = DOMAIN q \cup {n + 1}
      /\ \A i \in DOMAIN q : p[i] = q[i]
      /\ p[n + 1] = x
  <2> HIDE DEF Result
  <2> QED  BY AppendType
<1>2. n \in Nat
  BY DEF Result
<1> HIDE DEF p, n
<1>3. \A j \in DOMAIN q : j < n + 1
  BY <1>1, <1>2
<1>4. ASSUME NEW i \in DOMAIN p, p[i].op = "multi", NEW d \in Range(p[i].of)
      PROVE  d \in Range(p[i].d[2]) \cup S \/ \E j \in DOMAIN p : j < i /\ p[j].d = d
  <2>1. CASE i \in DOMAIN q
    <3>1. p[i] = q[i]
      BY <1>1, <2>1
    <3>2. d \in Range(p[i].d[2]) \cup S \/ \E j \in DOMAIN q : j < i /\ q[j].d = d
      BY <1>4, <2>1, <3>1 DEF Preceded
    <3> QED  BY <1>1, <3>2
  <2>2. CASE i = n + 1
    <3>1. p[i] = x
      BY <1>1, <2>2
    <3>2. d \in Range(p[i].d[2]) \cup S \/ \E j \in DOMAIN q : q[j].d = d
      BY <1>4, <3>1
    <3> QED  BY <1>1, <1>3, <2>2, <3>2
  <2> QED  BY <1>1, <2>1, <2>2
<1> QED  BY <1>4 DEF Preceded, p

InBt == {btq[j].d : j \in DOMAIN btq}

LEMMA TakeEntries ==
  ASSUME LoopTypes, PlacesInv, EntriesInv, NEW w \in Workers, WorkerTake(w)
  PROVE  EntriesInv'
<1>1. /\ ptq # <<>>
      /\ held' = [held EXCEPT ![w] = CreateMultiBlob(Head(ptq))]
      /\ UNCHANGED <<btq, pc, blobs, digest_to_multi_blob>>
  BY DEF WorkerTake, store
<1> DEFINE task == Head(ptq)
           r == CreateMultiBlob(task)
<1>2. ptq \in Seq(Seq(Present)) /\ task \in Seq(Present) /\ NoRepeat(ptq) /\ held \in [Workers -> Seq(Result)]
  BY <1>1, TailType DEF LoopTypes, PlacesInv, Unrepeated
<1>3. Distinct(task)
  BY <1>1, <1>2, ListsTail
<1>4. Preceded(r, {})
  BY <1>2, <1>3, CreateParts
<1> HIDE DEF task, r
<1>5. Preceded(r, blobs \cup InBt)
  BY <1>4, PrecededMore
<1>6. held'[w] = r /\ \A v \in Workers : v # w => held'[v] = held[v]
  BY <1>1, <1>2 DEF r, task
<1> QED  BY <1>1, <1>5, <1>6 DEF EntriesInv, EntryMeansStored, Running, InBt

LEMMA EmitEntries ==
  ASSUME LoopTypes, EntriesInv, NEW w \in Workers, WorkerEmit(w)
  PROVE  EntriesInv'
<1> DEFINE r == held[w]
           x == Head(r)
<1>1. /\ Running /\ r # <<>> /\ btq' = Append(btq, x) /\ held' = [held EXCEPT ![w] = Tail(r)]
      /\ UNCHANGED <<pc, blobs, digest_to_multi_blob>>
  BY DEF WorkerEmit, store
<1>2. /\ r \in Seq(Result) /\ x \in Result /\ held \in [Workers -> Seq(Result)] /\ btq \in Seq(Result)
  BY <1>1, TailType DEF LoopTypes
<1>3. Preceded(r, blobs \cup InBt) /\ Preceded(btq, blobs)
  BY <1>1 DEF EntriesInv, InBt
<1>4. /\ Preceded(Tail(r), blobs \cup InBt \cup {x.d})
      /\ x.op = "multi" => \A d \in Range(x.of) : d \in Range(x.d[2]) \cup blobs \cup InBt
  BY <1>1, <1>2, <1>3, PrecededTail
<1>5. held'[w] = Tail(r) /\ \A v \in Workers : v # w => held'[v] = held[v]
  BY <1>1, <1>2
<1> HIDE DEF r, x
<1>6. Preceded(btq', blobs)
  BY <1>1, <1>2, <1>3, <1>4, PrecededAppend DEF InBt
<1>7. InBt' = InBt \cup {x.d}
  <2>1. /\ DOMAIN btq' = DOMAIN btq \cup {Len(btq) + 1}
        /\ \A i \in DOMAIN btq : btq'[i] = btq[i]
        /\ btq'[Len(btq) + 1] = x
    <3> HIDE DEF Result
    <3> QED  BY <1>1, <1>2, AppendType
  <2> QED  BY <2>1 DEF InBt
<1>8. ASSUME NEW v \in Workers PROVE Preceded(held'[v], blobs \cup InBt')
  <2>1. CASE v = w
    <3>1. blobs \cup InBt' = blobs \cup InBt \cup {x.d}
      BY <1>7
    <3> QED  BY <1>4, <1>5, <2>1, <3>1
  <2>2. CASE v # w
    <3>1. Preceded(held[v], blobs \cup InBt)
      BY <1>1 DEF EntriesInv, InBt
    <3>2. blobs \cup InBt \subseteq blobs \cup InBt'
      BY <1>7
    <3> QED  BY <1>5, <2>2, <3>1, <3>2, PrecededMore
  <2> QED  BY <2>1, <2>2
<1> QED  BY <1>1, <1>6, <1>8 DEF EntriesInv, EntryMeansStored, InBt

LEMMA StoreEntries ==
  ASSUME LoopTypes, EntriesInv, StoreBlob \/ StoreMultiBlob
  PROVE  EntriesInv'
<1> DEFINE x == Head(btq)
<1>1. /\ pc = "recv" /\ btq # <<>> /\ btq' = Tail(btq) /\ held' = held
      /\ blobs' = blobs \cup {x.d}
      /\ \/ x.op = "blob" /\ UNCHANGED digest_to_multi_blob
         \/ x.op = "multi" /\ digest_to_multi_blob' =
              [d \in Digests |-> IF d \in Range(x.of) THEN x.d ELSE digest_to_multi_blob[d]]
  BY DEF StoreBlob, StoreMultiBlob, threads, Inserted
<1>2. btq \in Seq(Result)
  BY DEF LoopTypes
<1>3. Running /\ Preceded(btq, blobs)
  BY <1>1 DEF EntriesInv, Running
<1>4. /\ Preceded(btq', blobs')
      /\ x.op = "multi" => \A d \in Range(x.of) : d \in Range(x.d[2]) \cup blobs
  BY <1>1, <1>2, <1>3, PrecededTail
<1>5. blobs \cup InBt \subseteq blobs' \cup InBt'
  <2>1. /\ x = btq[1] /\ \A i \in DOMAIN btq' : btq'[i] = btq[i + 1]
        /\ \A i \in DOMAIN btq : i = 1 \/ \E j \in DOMAIN btq' : i = j + 1
    BY <1>1, <1>2, TailParts
  <2> HIDE DEF x
  <2> QED  BY <1>1, <2>1 DEF InBt
<1> HIDE DEF x
<1>6. ASSUME NEW v \in Workers PROVE Preceded(held'[v], blobs' \cup InBt')
  <2>1. Preceded(held[v], blobs \cup InBt)
    BY <1>3 DEF EntriesInv, InBt
  <2> QED  BY <1>1, <1>5, <2>1, PrecededMore
<1>7. EntryMeansStored'
  <2>1. CASE x.op = "blob" /\ UNCHANGED digest_to_multi_blob
    BY <1>1, <2>1 DEF EntriesInv, EntryMeansStored
  <2>2. CASE x.op = "multi" /\ digest_to_multi_blob' =
              [d \in Digests |-> IF d \in Range(x.of) THEN x.d ELSE digest_to_multi_blob[d]]
    BY <1>1, <1>4, <2>2 DEF EntriesInv, EntryMeansStored
  <2> QED  BY <1>1, <2>1, <2>2
<1> QED  BY <1>4, <1>6, <1>7 DEF EntriesInv, InBt

LEMMA OtherEntries ==
  ASSUME EntriesInv, UNCHANGED <<blobs, digest_to_multi_blob>>,
         btq' = btq \/ btq' = <<>>,
         Running' => \/ Running /\ UNCHANGED <<btq, held>>
                     \/ \A w \in Workers : held'[w] = <<>>
  PROVE  EntriesInv'
<1>1. \A S : Preceded(<<>>, S)
  BY DEF Preceded
<1>2. EntryMeansStored' /\ Preceded(btq', blobs')
  BY <1>1 DEF EntriesInv, EntryMeansStored
<1>3. Running' => \A w \in Workers : Preceded(held'[w], blobs' \cup InBt')
  BY <1>1 DEF EntriesInv, InBt
<1> QED  BY <1>2, <1>3 DEF EntriesInv, InBt

LEMMA EntriesStep ==
  ASSUME LoopTypes, PlacesInv, EntriesInv, [Next]_vars
  PROVE  EntriesInv'
<1>1. ASSUME NEW w \in Workers, WorkerStep(w) PROVE EntriesInv'
  <2>1. CASE WorkerSendFails(w) \/ WorkerExit(w)
    <3>1. UNCHANGED <<blobs, digest_to_multi_blob, btq>> /\ ~ Running'
      BY <2>1 DEF WorkerSendFails, WorkerExit, Over, Running, store
    <3> QED  BY <3>1, OtherEntries
  <2> QED  BY <1>1, <2>1, TakeEntries, EmitEntries DEF WorkerStep
<1>2. CASE StoreBlob \/ StoreMultiBlob
  BY <1>2, StoreEntries
<1>3. CASE Start
  <2>1. /\ UNCHANGED <<blobs, digest_to_multi_blob, btq, held>> /\ pc = "graph"
    BY <1>3 DEF Start, store
  <2>2. \A w \in Workers : held'[w] = <<>>
    BY <2>1 DEF PlacesInv, NotStarted
  <2> QED  BY <2>1, <2>2, OtherEntries
<1>4. CASE Return
  <2>1. /\ UNCHANGED <<blobs, digest_to_multi_blob>> /\ btq' = <<>> /\ ~ Running'
    BY <1>4 DEF Return, Running, store
  <2> QED  BY <2>1, OtherEntries
<1>5. CASE RecvTimeout \/ Refill \/ Push \/ LoopAgain
  <2>1. UNCHANGED <<blobs, digest_to_multi_blob, btq, held>> /\ Running
    BY <1>5 DEF RecvTimeout, Refill, Push, LoopAgain, PushingEnds, Running, threads, store
  <2> QED  BY <2>1, OtherEntries
<1>6. CASE (GraphNext /\ UNCHANGED loopVars) \/ Terminated \/ UNCHANGED vars
  <2>1. UNCHANGED <<blobs, digest_to_multi_blob, btq, held, pc>>
    BY <1>6 DEF Terminated, vars, loopVars, threads, store
  <2>2. Running' => Running
    BY <2>1 DEF Running
  <2> QED  BY <2>1, <2>2, OtherEntries
<1> QED  BY <1>1, <1>2, <1>3, <1>4, <1>5, <1>6 DEF Next, MainStep

(* An entry of digest_to_multi_blob is made only when the multi blob is in *)
(* the storage, and the blob in it or stored by itself: a task's results   *)
(* reach the main thread in the order handle_parallel_task emits them.     *)
THEOREM EntriesAreStored == Spec => []EntryMeansStored
<1>1. Init => EntriesInv
  <2>1. \A S : Preceded(<<>>, S)
    BY DEF Preceded
  <2> QED  BY <2>1 DEF Init, EntriesInv, EntryMeansStored
<1>2. LoopTypes /\ PlacesInv /\ EntriesInv /\ [Next]_vars => EntriesInv'
  BY EntriesStep
<1>3. EntriesInv => EntryMeansStored
  BY DEF EntriesInv
<1> QED  BY <1>1, <1>2, <1>3, LoopHolds, PTL DEF Spec

-----------------------------------------------------------------------------
(* What is stored when all work is done.                                   *)
LEMMA DrainedIsStored ==
  AllGraphInv /\ PlacesInv => DrainedMeansStored
<1> SUFFICES ASSUME AllGraphInv, PlacesInv, Drained, NEW d \in nodes \cap Present
             PROVE  Cardinality({b \in blobs : b = d \/ (b \notin Digests /\ d \in Range(b[2]))})
                      = IF Reached(d) THEN 1 ELSE 0
  BY DEF DrainedMeansStored
<1> DEFINE homes == {b \in blobs : b = d \/ (b \notin Digests /\ d \in Range(b[2]))}
<1>1. d \in Digests
  BY LoopConstantsOK
<1>2. \A b \in blobs : b \in homes <=> d \in Covers(b)
  BY <1>1 DEF Covers
<1> HIDE DEF homes
<1>3. homes \subseteq blobs
  BY DEF homes
<1>4. Running /\ phase = "listed"
  BY DEF Drained, Running, PlacesInv
<1>5. d \in Listed <=> Reached(d)
  BY <1>4, ListedAreReached DEF AllGraphInv
<1>6. Contents[<<"store", "main">>] = UNION {Covers(b) : b \in blobs}
  BY ContentsAre DEF ContentsByPlace
<1>7. CASE Reached(d)
  <2>1. PICK p \in Places : d \in Contents[p]
    BY <1>4, <1>5, <1>7 DEF PlacesInv, Spread
  <2>2. InLists(<<>>) = {} /\ InResults(<<>>) = {}
    BY DEF InLists, InResults
  <2>3. p = <<"store", "main">>
    <3>1. CASE p \in {<<"iter", "main">>, <<"backlog", "main">>, <<"pt", "main">>, <<"bt", "main">>}
      BY <2>1, <2>2, <3>1, ContentsAre DEF ContentsByPlace, Drained
    <3>2. ASSUME NEW v \in Workers, p = <<"held", v>> PROVE FALSE
      BY <2>1, <2>2, <3>2, ContentsAre DEF ContentsByPlace, Drained
    <3> QED  BY <3>1, <3>2, PlaceNames
  <2>4. PICK b \in blobs : d \in Covers(b)
    BY <1>6, <2>1, <2>3
  <2>5. \A c \in blobs : d \in Covers(c) => c = b
    BY <2>4 DEF PlacesInv, Unrepeated
  <2>6. homes = {b}
    BY <1>2, <1>3, <2>4, <2>5
  <2>7. Cardinality(homes) = 1
    BY <2>6, FS_Singleton
  <2> QED  BY <1>7, <2>7 DEF homes
<1>8. CASE ~ Reached(d)
  <2>1. d \notin Contents[<<"store", "main">>]
    BY <1>5, <1>8, PlaceNames DEF PlacesInv, Spread
  <2>2. homes = {}
    BY <1>2, <1>3, <1>6, <2>1
  <2>3. Cardinality(homes) = 0
    BY <2>2, FS_EmptySet
  <2> QED  BY <1>8, <2>3 DEF homes
<1> QED  BY <1>7, <1>8

(* No blob is lost between the lists, the two channels, the threads and    *)
(* the storage, and none comes through twice: when the loop has nothing    *)
(* left, what the source has of the blobs that roots lead to is in the     *)
(* destination once, and nothing else is.                                  *)
THEOREM DrainedIsComplete == Spec => []DrainedMeansStored
<1> QED  BY DrainedIsStored, LoopHolds, PTL
=============================================================================
