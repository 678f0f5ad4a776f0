--------------------------- MODULE BlobGraphProofs ---------------------------
(***************************************************************************)
(* What is known of the graph of blobs in every state, for any index and   *)
(* any order of its crates, paths and roots (AllGraphInv), and what        *)
(* follows for the lists get_digest_lists returns.  The theorems are those *)
(* of the tool that builds the graph, in MultiBlobStoreProofs.             *)
(*                                                                         *)
(*   GraphInv      what from_func has done: the roots are right            *)
(*   ListsInv      no blob is in two lists                                 *)
(*   TraversalInv  what is reached from a visited blob is visited or due,  *)
(*                 and a root leads to everything visited or due           *)
(*   LeftOut       what the lists leave out, when they are complete        *)
(*                                                                         *)
(* Two definitions of the model are recursive functions, Only and Before.  *)
(* What they are for every argument is OnlyProperties and BeforeComplete,  *)
(* by induction over a set of numbers (Recursion).                         *)
(***************************************************************************)
EXTENDS BlobGraph, Recursion, SequenceTheorems, FiniteSetTheorems

-----------------------------------------------------------------------------
(* Sequences.                                                              *)
LEMMA ElementType ==
  ASSUME NEW T, NEW q \in Seq(T), NEW i \in DOMAIN q
  PROVE  q[i] \in T
OBVIOUS

LEMMA AppendType ==
  ASSUME NEW T, NEW q \in Seq(T), NEW m \in T
  PROVE  /\ Append(q, m) \in Seq(T)
         /\ DOMAIN q = 1..Len(q) /\ DOMAIN Append(q, m) = DOMAIN q \cup {Len(q) + 1}
         /\ Len(q) + 1 \notin DOMAIN q
         /\ \A i \in DOMAIN q : Append(q, m)[i] = q[i]
         /\ Append(q, m)[Len(q) + 1] = m
OBVIOUS

-----------------------------------------------------------------------------
(* A loop that takes some elements.                                        *)

Distinct(list) == \A k, l \in DOMAIN list : list[k] = list[l] => k = l

(* What has been taken after the first n elements of s: g[i] after i.      *)
Taken(s, S, g, n) ==
  g = [i \in 0..n |->
        IF i = 0 THEN <<>>
        ELSE IF s[i] \in S THEN Append(g[i - 1], s[i]) ELSE g[i - 1]]

LEMMA TakenExists ==
  ASSUME NEW T, NEW s \in Seq(T), NEW S
  PROVE  \E g : Taken(s, S, g, Len(s))
<1> DEFINE n == Len(s)
           F == [i \in 1..n |-> [q \in Seq(T) |-> IF s[i] \in S THEN Append(q, s[i]) ELSE q]]
<1>1. n \in Nat /\ DOMAIN s = 1..n
  OBVIOUS
<1>2. F \in [1..n -> [Seq(T) -> Seq(T)]]
  <2>1. ASSUME NEW i \in 1..n, NEW q \in Seq(T) PROVE Append(q, s[i]) \in Seq(T)
    BY <1>1, ElementType, AppendType
  <2> QED  BY <2>1
<1>3. <<>> \in Seq(T)
  OBVIOUS
<1>4. \A i \in 1..n : \A q \in Seq(T) : F[i][q] = IF s[i] \in S THEN Append(q, s[i]) ELSE q
  OBVIOUS
<1> HIDE DEF F, n
<1>5. PICK g \in [0..n -> Seq(T)] : g[0] = <<>> /\ \A i \in 1..n : g[i] = F[i][g[i - 1]]
  <2> DEFINE X == Seq(T)
             none == <<>>
  <2>1. n \in Nat /\ none \in X /\ F \in [1..n -> [X -> X]]
    BY <1>1, <1>2, <1>3
  <2> HIDE DEF X, none
  <2>2. \E g \in [0..n -> X] : g[0] = none /\ \A i \in 1..n : g[i] = F[i][g[i - 1]]
    BY <2>1, RecursionExists
  <2> QED  BY <2>2 DEF X, none
<1>6. ASSUME NEW i \in 0..n
      PROVE  g[i] = IF i = 0 THEN <<>>
                    ELSE IF s[i] \in S THEN Append(g[i - 1], s[i]) ELSE g[i - 1]
  <2>1. CASE i # 0
    <3>1. i \in 1..n /\ i - 1 \in 0..n
      BY <1>1, <2>1
    <3>2. g[i - 1] \in Seq(T)
      BY <3>1
    <3> QED  BY <1>4, <1>5, <2>1, <3>1, <3>2
  <2> QED  BY <1>5, <2>1
<1>7. g = [i \in 0..n |-> g[i]]
  OBVIOUS
<1>8. Taken(s, S, g, n)
  BY <1>6, <1>7 DEF Taken
<1> QED  BY <1>8 DEF n

LEMMA OnlyIsTaken ==
  ASSUME NEW T, NEW s \in Seq(T), NEW S
  PROVE  \E g : Taken(s, S, g, Len(s)) /\ Only(s, S) = g[Len(s)]
<1> DEFINE n == Len(s)
           f == CHOOSE g : Taken(s, S, g, n)
<1>1. \E g : Taken(s, S, g, n)
  BY TakenExists
<1>2. Taken(s, S, f, n)
  BY <1>1
<1>3. Only(s, S) = f[n]
  BY DEF Only, Taken
<1> QED  BY <1>2, <1>3

(* After i elements: the elements of S among them, each once if s holds    *)
(* each once.                                                              *)
TakenUpTo(s, S, q, i) ==
  /\ q \in Seq(S)
  /\ \A x : (\E k \in DOMAIN q : q[k] = x) <=> x \in S /\ \E j \in 1..i : s[j] = x
  /\ Distinct(s) => Distinct(q)

LEMMA TakeOne ==
  ASSUME NEW s, NEW S, NEW q, NEW i \in Nat, i + 1 \in DOMAIN s, 1..i \subseteq DOMAIN s,
         TakenUpTo(s, S, q, i)
  PROVE  TakenUpTo(s, S, IF s[i + 1] \in S THEN Append(q, s[i + 1]) ELSE q, i + 1)
<1> DEFINE e == s[i + 1]
<1>1. 1..(i + 1) = 1..i \cup {i + 1} /\ i + 1 \notin 1..i
  OBVIOUS
<1>2. CASE e \notin S
  <2>1. \A x : x \in S => ((\E j \in 1..i : s[j] = x) <=> \E j \in 1..(i + 1) : s[j] = x)
    BY <1>1, <1>2
  <2> QED  BY <1>2, <2>1 DEF TakenUpTo
<1>3. CASE e \in S
  <2> DEFINE p == Append(q, e)
  <2>1. /\ p \in Seq(S)
        /\ DOMAIN p = DOMAIN q \cup {Len(q) + 1} /\ Len(q) + 1 \notin DOMAIN q
        /\ \A k \in DOMAIN q : p[k] = q[k]
        /\ p[Len(q) + 1] = e
    BY <1>3, AppendType DEF TakenUpTo
  <2> HIDE DEF p, e
  <2>2. \A x : (\E k \in DOMAIN p : p[k] = x) <=> x = e \/ \E k \in DOMAIN q : q[k] = x
    BY <2>1
  <2>3. \A x : (\E j \in 1..(i + 1) : s[j] = x) <=> x = e \/ \E j \in 1..i : s[j] = x
    BY <1>1 DEF e
  <2>4. \A x : (\E k \in DOMAIN p : p[k] = x) <=> x \in S /\ \E j \in 1..(i + 1) : s[j] = x
    BY <1>3, <2>2, <2>3 DEF TakenUpTo
  <2>5. ASSUME Distinct(s) PROVE Distinct(p)
    <3>1. \A j \in 1..i : s[j] # e
      BY <1>1, <2>5 DEF Distinct, e
    <3>2. \A k \in DOMAIN q : q[k] # e
      BY <3>1 DEF TakenUpTo
    <3>3. Distinct(q)
      BY <2>5 DEF TakenUpTo
    <3> QED  BY <2>1, <3>2, <3>3 DEF Distinct
  <2> QED  BY <1>3, <2>1, <2>4, <2>5 DEF TakenUpTo, p, e
<1> QED  BY <1>2, <1>3

LEMMA OnlyTaken ==
  ASSUME NEW T, NEW s \in Seq(T), NEW S
  PROVE  TakenUpTo(s, S, Only(s, S), Len(s))
<1> DEFINE n == Len(s)
<1>1. n \in Nat /\ DOMAIN s = 1..n
  OBVIOUS
<1>2. PICK g : Taken(s, S, g, n) /\ Only(s, S) = g[n]
  BY OnlyIsTaken
<1>3. \A i \in 0..n : g[i] = IF i = 0 THEN <<>>
                             ELSE IF s[i] \in S THEN Append(g[i - 1], s[i]) ELSE g[i - 1]
  BY <1>2 DEF Taken
<1> DEFINE A == {i \in Nat : i <= n => TakenUpTo(s, S, g[i], i)}
<1>4. 0 \in A
  <2>1. g[0] = <<>>
    BY <1>1, <1>3
  <2>2. TakenUpTo(s, S, <<>>, 0)
    BY DEF TakenUpTo, Distinct
  <2> QED  BY <2>1, <2>2
<1>5. ASSUME NEW i \in Nat, i \in A PROVE i + 1 \in A
  <2> SUFFICES ASSUME i + 1 <= n PROVE TakenUpTo(s, S, g[i + 1], i + 1)
    OBVIOUS
  <2>1. i <= n /\ i + 1 \in 0..n /\ i + 1 # 0 /\ (i + 1) - 1 = i /\ i + 1 \in DOMAIN s /\ 1..i \subseteq DOMAIN s
    BY <1>1
  <2>2. TakenUpTo(s, S, g[i], i)
    BY <1>5, <2>1
  <2>3. g[i + 1] = IF s[i + 1] \in S THEN Append(g[i], s[i + 1]) ELSE g[i]
    BY <1>3, <2>1
  <2> QED  BY <2>1, <2>2, <2>3, TakeOne
<1> HIDE DEF A
<1>6. Nat \subseteq A
  BY <1>4, <1>5, SetInduction
<1> QED  BY <1>1, <1>2, <1>6 DEF A

LEMMA OnlyProperties ==
  ASSUME NEW T, NEW s \in Seq(T), NEW S
  PROVE  /\ Only(s, S) \in Seq(T) /\ Only(s, S) \in Seq(S)
         /\ Range(Only(s, S)) = Range(s) \cap S
         /\ Distinct(s) => Distinct(Only(s, S))
<1>1. DOMAIN s = 1..Len(s)
  OBVIOUS
<1> DEFINE q == Only(s, S)
<1>2. TakenUpTo(s, S, q, Len(s))
  BY OnlyTaken
<1> HIDE DEF q
<1>3. \A x : x \in Range(q) <=> x \in S /\ x \in Range(s)
  BY <1>1, <1>2 DEF TakenUpTo, Range
<1>4. \A k \in DOMAIN q : q[k] \in T
  BY <1>3, ElementType DEF Range
<1>5. q \in Seq(T)
  BY <1>2, <1>4, SeqDef DEF TakenUpTo
<1> QED  BY <1>2, <1>3, <1>5 DEF TakenUpTo, q
-----------------------------------------------------------------------------
(* What comes before a blob.                                               *)

EdgesOK == IsFiniteSet(nodes) /\ edges \in Seq(nodes \X nodes)

LEMMA EdgeEnds ==
  ASSUME EdgesOK
  PROVE  /\ \A m, n : IsEdge(m, n) => m \in nodes /\ n \in nodes
         /\ \A S : Sources(S) = {m \in nodes : \E n \in S : IsEdge(m, n)}
<1>1. \A i \in DOMAIN edges : edges[i] \in nodes \X nodes
  BY ElementType DEF EdgesOK
<1>2. \A i \in DOMAIN edges : edges[i] = <<edges[i][1], edges[i][2]>>
                              /\ edges[i][1] \in nodes /\ edges[i][2] \in nodes
  BY <1>1
<1>3. \A m, n : IsEdge(m, n) => m \in nodes /\ n \in nodes
  BY <1>2 DEF IsEdge
<1>4. ASSUME NEW S PROVE Sources(S) = {m \in nodes : \E n \in S : IsEdge(m, n)}
  <2>1. ASSUME NEW m \in Sources(S) PROVE m \in nodes /\ \E n \in S : IsEdge(m, n)
    <3>1. PICK i \in DOMAIN edges : edges[i][2] \in S /\ m = edges[i][1]
      BY <2>1 DEF Sources
    <3> QED  BY <1>2, <3>1 DEF IsEdge
  <2>2. ASSUME NEW m \in nodes, NEW n \in S, IsEdge(m, n) PROVE m \in Sources(S)
    <3>1. PICK i \in DOMAIN edges : edges[i] = <<m, n>>
      BY <2>2 DEF IsEdge
    <3> QED  BY <3>1 DEF Sources
  <2> QED  BY <2>1, <2>2
<1> QED  BY <1>3, <1>4

Grown(n, g) ==
  g = [k \in 0..Cardinality(nodes) |->
        IF k = 0 THEN Sources({n}) ELSE g[k - 1] \cup Sources(g[k - 1])]

LEMMA BeforeIsGrown ==
  ASSUME EdgesOK, NEW n
  PROVE  \E g \in [0..Cardinality(nodes) -> SUBSET nodes] :
           /\ Before(n) = g[Cardinality(nodes)]
           /\ g[0] = Sources({n})
           /\ \A k \in 1..Cardinality(nodes) : g[k] = g[k - 1] \cup Sources(g[k - 1])
<1> DEFINE N == Cardinality(nodes)
           X == SUBSET nodes
           F == [k \in 1..N |-> [S \in X |-> S \cup Sources(S)]]
           a == Sources({n})
<1>1. N \in Nat
  BY FS_CardinalityType DEF EdgesOK
<1>2. \A S : Sources(S) \in X
  BY EdgeEnds
<1>3. F \in [1..N -> [X -> X]] /\ a \in X
  BY <1>2
<1>4. \A k \in 1..N : \A S \in X : F[k][S] = S \cup Sources(S)
  OBVIOUS
<1> HIDE DEF F, X, N, a
<1>5. PICK g \in [0..N -> X] : g[0] = a /\ \A k \in 1..N : g[k] = F[k][g[k - 1]]
  BY <1>1, <1>3, RecursionExists
<1>6. \A k \in 1..N : k - 1 \in 0..N /\ k \in 0..N /\ k # 0
  BY <1>1
<1>7. \A k \in 0..N : k = 0 \/ k \in 1..N
  BY <1>1
<1>8. \A k \in 1..N : g[k] = g[k - 1] \cup Sources(g[k - 1])
  BY <1>4, <1>5, <1>6
<1>9. Grown(n, g)
  <2>1. \A k \in 0..N : g[k] = IF k = 0 THEN a ELSE g[k - 1] \cup Sources(g[k - 1])
    BY <1>5, <1>6, <1>7, <1>8
  <2>2. g = [k \in 0..N |-> g[k]]
    OBVIOUS
  <2> QED  BY <2>1, <2>2 DEF Grown, N, a
<1> DEFINE f == CHOOSE h : Grown(n, h)
<1>10. Grown(n, f)
  BY <1>9
<1>11. Before(n) = f[N]
  BY DEF Before, Grown, N
<1> HIDE DEF f
<1>12. /\ DOMAIN f = 0..N /\ f = [k \in 0..N |-> f[k]]
       /\ f[0] = a
       /\ \A k \in 1..N : f[k] = f[k - 1] \cup Sources(f[k - 1])
  <2>1. f = [k \in 0..N |-> IF k = 0 THEN a ELSE f[k - 1] \cup Sources(f[k - 1])]
    BY <1>10 DEF Grown, N, a
  <2>2. 0 \in 0..N
    BY <1>1
  <2> QED  BY <1>6, <2>1, <2>2
<1> DEFINE A == {k \in Nat : k <= N => f[k] \in X}
<1>13. 0 \in A
  BY <1>3, <1>12
<1>14. ASSUME NEW k \in Nat, k \in A PROVE k + 1 \in A
  <2> SUFFICES ASSUME k + 1 <= N PROVE f[k + 1] \in X
    OBVIOUS
  <2>1. k <= N /\ k + 1 \in 1..N /\ (k + 1) - 1 = k
    BY <1>1
  <2>2. f[k + 1] = f[k] \cup Sources(f[k]) /\ f[k] \in X
    BY <1>12, <1>14, <2>1
  <2> QED  BY <1>2, <2>2 DEF X
<1> HIDE DEF A
<1>15. \A k \in 0..N : f[k] \in X
  <2>1. Nat \subseteq A
    BY <1>13, <1>14, SetInduction
  <2> QED  BY <1>1, <2>1 DEF A
<1>16. f \in [0..N -> X]
  BY <1>12, <1>15
<1> QED  BY <1>11, <1>12, <1>16 DEF N, X, a

(* The sets grow until they do not, and then for good; so each one but the *)
(* last has one blob more than the one before, or nothing is missing.      *)
LEMMA BeforeComplete ==
  ASSUME EdgesOK, NEW n
  PROVE  /\ Before(n) \subseteq nodes
         /\ Sources({n}) \subseteq Before(n)
         /\ Sources(Before(n)) \subseteq Before(n)
         /\ \A C : Sources({n}) \subseteq C /\ Sources(C) \subseteq C => Before(n) \subseteq C
<1> DEFINE N == Cardinality(nodes)
<1>1. N \in Nat
  BY FS_CardinalityType DEF EdgesOK
<1>2. PICK g \in [0..N -> SUBSET nodes] :
        /\ Before(n) = g[N]
        /\ g[0] = Sources({n})
        /\ \A k \in 1..N : g[k] = g[k - 1] \cup Sources(g[k - 1])
  BY BeforeIsGrown
<1>3. \A S, T : S \subseteq T => Sources(S) \subseteq Sources(T)
  BY EdgeEnds
<1>4. \A k \in 0..N : g[k] \subseteq nodes /\ IsFiniteSet(g[k]) /\ Cardinality(g[k]) \in Nat
                      /\ Cardinality(g[k]) <= N
  BY FS_Subset, FS_CardinalityType DEF EdgesOK
<1> HIDE DEF N
<1>5. \A k \in Nat : k + 1 <= N => /\ k \in 0..N /\ k + 1 \in 1..N /\ k + 1 \in 0..N
                                   /\ g[k + 1] = g[k] \cup Sources(g[k])
  <2> SUFFICES ASSUME NEW k \in Nat, k + 1 <= N
               PROVE  /\ k \in 0..N /\ k + 1 \in 1..N /\ k + 1 \in 0..N
                      /\ g[k + 1] = g[k] \cup Sources(g[k])
    OBVIOUS
  <2>1. k \in 0..N /\ k + 1 \in 1..N /\ k + 1 \in 0..N /\ (k + 1) - 1 = k
    BY <1>1
  <2> QED  BY <1>2, <2>1
<1>6. 0 \in 0..N /\ N \in 0..N
  BY <1>1
<1>7. Sources({n}) \subseteq g[N]
  <2> DEFINE T == Sources({n})
  <2>0. g[0] = T
    BY <1>2
  <2> HIDE DEF T
  <2> DEFINE A == {k \in Nat : k <= N => T \subseteq g[k]}
  <2>1. 0 \in A
    BY <2>0
  <2>2. ASSUME NEW k \in Nat, k \in A PROVE k + 1 \in A
    <3> SUFFICES ASSUME k + 1 <= N PROVE T \subseteq g[k + 1]
      OBVIOUS
    <3>1. k <= N
      BY <1>1
    <3>2. T \subseteq g[k]
      BY <2>2, <3>1
    <3> QED  BY <1>5, <3>2
  <2> HIDE DEF A
  <2>3. N \in A
    BY <1>1, <2>1, <2>2, SetInduction
  <2> QED  BY <1>1, <2>3 DEF A, T
<1>8. ASSUME NEW C, Sources({n}) \subseteq C, Sources(C) \subseteq C
      PROVE  g[N] \subseteq C
  <2> DEFINE A == {k \in Nat : k <= N => g[k] \subseteq C}
  <2>1. 0 \in A
    BY <1>2, <1>8
  <2>2. ASSUME NEW k \in Nat, k \in A PROVE k + 1 \in A
    <3> SUFFICES ASSUME k + 1 <= N PROVE g[k + 1] \subseteq C
      OBVIOUS
    <3>1. k <= N
      BY <1>1
    <3>2. g[k] \subseteq C
      BY <2>2, <3>1
    <3>3. Sources(g[k]) \subseteq C
      BY <1>3, <1>8, <3>2
    <3> QED  BY <1>5, <3>2, <3>3
  <2> HIDE DEF A
  <2>3. N \in A
    BY <1>1, <2>1, <2>2, SetInduction
  <2> QED  BY <1>1, <2>3 DEF A
<1>9. Sources(g[N]) \subseteq g[N]
  <2> DEFINE Closed(k) == Sources(g[k]) \subseteq g[k]
             A == {k \in Nat : k <= N => Closed(k) \/ Cardinality(g[k]) >= k + 1}
  <2>0. ASSUME NEW k \in 0..N, ~ Closed(k) PROVE g[k] # {}
    <3>1. g[k] = {} => Sources(g[k]) = {}
      BY EdgeEnds
    <3> QED  BY <2>0, <3>1
  <2>1. 0 \in A
    <3> SUFFICES ASSUME ~ Closed(0) PROVE Cardinality(g[0]) >= 1
      BY <1>1
    <3>1. g[0] # {}
      BY <1>6, <2>0
    <3> QED  BY <1>4, <1>6, <3>1, FS_EmptySet
  <2>2. ASSUME NEW k \in Nat, k \in A PROVE k + 1 \in A
    <3> SUFFICES ASSUME k + 1 <= N, ~ Closed(k + 1) PROVE Cardinality(g[k + 1]) >= k + 2
      OBVIOUS
    <3>1. /\ k <= N /\ k \in 0..N /\ k + 1 \in 0..N
          /\ g[k + 1] = g[k] \cup Sources(g[k])
      BY <1>1, <1>5
    <3>2. ~ Closed(k)
      <4> SUFFICES ASSUME Closed(k) PROVE FALSE
        OBVIOUS
      <4>1. g[k + 1] = g[k]
        BY <3>1
      <4> QED  BY <4>1
    <3>3. Cardinality(g[k]) >= k + 1
      BY <2>2, <3>1, <3>2
    <3>4. g[k] \subseteq g[k + 1] /\ g[k] # g[k + 1]
      BY <3>1, <3>2
    <3>5. /\ IsFiniteSet(g[k + 1]) /\ Cardinality(g[k]) \in Nat /\ Cardinality(g[k + 1]) \in Nat
      BY <1>4, <3>1
    <3>6. Cardinality(g[k]) < Cardinality(g[k + 1])
      <4> DEFINE a == g[k]
                 b == g[k + 1]
      <4>1. a \subseteq b /\ a # b /\ IsFiniteSet(b) /\ Cardinality(a) \in Nat /\ Cardinality(b) \in Nat
        BY <3>4, <3>5
      <4> HIDE DEF a, b
      <4>2. Cardinality(a) <= Cardinality(b) /\ (Cardinality(a) = Cardinality(b) => a = b)
        BY <4>1, FS_Subset
      <4> QED  BY <4>1, <4>2 DEF a, b
    <3> QED  BY <3>3, <3>5, <3>6
  <2> HIDE DEF A
  <2>3. N \in A
    BY <1>1, <2>1, <2>2, SetInduction
  <2>4. Closed(N) \/ Cardinality(g[N]) >= N + 1
    BY <1>1, <2>3 DEF A
  <2>5. ~ (Cardinality(g[N]) >= N + 1)
    BY <1>1, <1>4, <1>6
  <2> QED  BY <2>4, <2>5
<1>10. g[N] \subseteq nodes
  BY <1>4, <1>6
<1> DEFINE b == g[N]
<1> HIDE DEF b
<1>11. /\ b \subseteq nodes
       /\ Sources({n}) \subseteq b
       /\ Sources(b) \subseteq b
       /\ \A C : Sources({n}) \subseteq C /\ Sources(C) \subseteq C => b \subseteq C
  BY <1>7, <1>8, <1>9, <1>10 DEF b
<1>12. Before(n) = b
  BY <1>2 DEF b
<1> QED  BY <1>11, <1>12
-----------------------------------------------------------------------------
(* The roots.  All edges are between nodes, so a node that is added has    *)
(* none yet; the edges of a path lead to all of its blobs but one.         *)

GraphInv ==
  /\ krate \in 0..Len(Acj)
  /\ nodes \subseteq Digests
  /\ paths = {} \/ NodesOf(krate) \subseteq nodes
  /\ edges \in Seq(nodes \X nodes)
  /\ RootsHaveNoOlder

LEMMA NodesAreDigests == \A c \in 1..Len(Acj) : NodesOf(c) \subseteq Digests
<1> SUFFICES ASSUME NEW c \in 1..Len(Acj), NEW e \in Entries(c) PROVE At(c, e).digest \in Digests
  BY DEF NodesOf
<1>0. PICK v \in DOMAIN Acj[c] :
        /\ Acj[c][v].files # NoList
        /\ \E i \in DOMAIN Acj[c][v].files : e = <<v, i>>
  BY DEF Entries
<1>1. PICK i \in DOMAIN Acj[c][v].files : e = <<v, i>>
  BY <1>0
<1>2. Acj[c] \in Seq([version : Nat, files : FileList \cup {NoList}])
  BY GraphConstantsOK
<1>3. Acj[c][v].files \in FileList
  <2> DEFINE R == [version : Nat, files : FileList \cup {NoList}]
  <2> HIDE DEF R
  <2>1. Acj[c] \in Seq(R)
    BY <1>2 DEF R
  <2>2. Acj[c][v] \in R
    BY <2>1, ElementType
  <2> QED  BY <1>0, <2>2 DEF R
<1>4. Acj[c][v].files[i] \in [digest : Digests, path : Paths \cup {LongLink}]
  BY <1>3, ElementType DEF FileList
<1> QED  BY <1>1, <1>4 DEF At

LEMMA PathsBlobs == \A c, p : DigestsAt(c, p) \subseteq NodesOf(c)
BY DEF DigestsAt, NodesOf, Named

LEMMA GraphInvInit == GraphInit => GraphInv
<1> SUFFICES ASSUME GraphInit PROVE GraphInv
  OBVIOUS
<1>1. Len(Acj) \in Nat
  BY GraphConstantsOK
<1>2. krate \in 0..Len(Acj)
  BY <1>1 DEF GraphInit
<1> QED  BY <1>2 DEF GraphInit, GraphInv, RootsHaveNoOlder

LEMMA AddNodesInv == GraphInv /\ AddNodes => GraphInv'
<1> SUFFICES ASSUME GraphInv, AddNodes PROVE GraphInv'
  OBVIOUS
<1>1. Len(Acj) \in Nat /\ krate + 1 \in 1..Len(Acj) /\ krate' = krate + 1
  BY GraphConstantsOK DEF GraphInv, AddNodes
<1>2. NodesOf(krate + 1) \subseteq Digests
  BY <1>1, NodesAreDigests
<1>3. nodes' = nodes \cup NodesOf(krate + 1) /\ edges' = edges
  BY DEF AddNodes
<1>4. edges \in Seq(nodes' \X nodes')
  BY <1>3 DEF GraphInv
<1>5. \A m, n : IsEdge(m, n) => m \in nodes /\ n \in nodes
  BY DEF GraphInv, IsEdge
<1>6. RootsHaveNoOlder'
  <2>1. \A m, n : IsEdge(m, n)' <=> IsEdge(m, n)
    BY <1>3 DEF IsEdge
  <2>2. roots' = roots \cup (NodesOf(krate + 1) \ nodes)
    BY DEF AddNodes
  <2>3. \A n : n \in roots <=> n \in nodes /\ ~\E m \in nodes : IsEdge(m, n)
    BY DEF GraphInv, RootsHaveNoOlder
  <2>4. \A n : n \in roots' <=> n \in nodes' /\ ~\E m \in nodes' : IsEdge(m, n)
    BY <1>3, <1>5, <2>2, <2>3
  <2> QED  BY <2>1, <2>4 DEF RootsHaveNoOlder
<1> QED  BY <1>1, <1>2, <1>3, <1>4, <1>6 DEF GraphInv

LEMMA ConcatType ==
  ASSUME NEW T, NEW p \in Seq(T), NEW q \in Seq(T)
  PROVE  /\ p \o q \in Seq(T)
         /\ \A i \in DOMAIN p : i \in DOMAIN (p \o q) /\ (p \o q)[i] = p[i]
         /\ \A i \in DOMAIN q : Len(p) + i \in DOMAIN (p \o q) /\ (p \o q)[Len(p) + i] = q[i]
         /\ \A i \in DOMAIN (p \o q) :
              i \in DOMAIN p \/ \E j \in DOMAIN q : i = Len(p) + j
<1>1. /\ p \o q \in Seq(T)
      /\ Len(p \o q) = Len(p) + Len(q)
      /\ \A i \in 1..Len(p) : (p \o q)[i] = p[i]
      /\ \A i \in 1..Len(q) : (p \o q)[Len(p) + i] = q[i]
      /\ Len(p) \in Nat /\ Len(q) \in Nat
      /\ DOMAIN p = 1..Len(p) /\ DOMAIN q = 1..Len(q) /\ DOMAIN (p \o q) = 1..Len(p \o q)
  OBVIOUS
<1>2. \A i \in 1..Len(p \o q) : i \in 1..Len(p) \/ \E j \in 1..Len(q) : i = Len(p) + j
  <2> SUFFICES ASSUME NEW i \in 1..Len(p \o q), i \notin 1..Len(p)
               PROVE  \E j \in 1..Len(q) : i = Len(p) + j
    OBVIOUS
  <2>1. i - Len(p) \in 1..Len(q) /\ i = Len(p) + (i - Len(p))
    BY <1>1
  <2> QED  BY <2>1
<1>3. \A i \in 1..Len(p) : i \in 1..Len(p \o q)
  BY <1>1
<1>4. \A i \in 1..Len(q) : Len(p) + i \in 1..Len(p \o q)
  BY <1>1
<1> QED  BY <1>1, <1>2, <1>3, <1>4

LEMMA FunctionIsSeq ==
  ASSUME NEW T, NEW n \in Nat, NEW f \in [1..n -> T]
  PROVE  f \in Seq(T)
OBVIOUS

LEMMA AddEdgesInv == GraphInv /\ AddEdges => GraphInv'
<1> SUFFICES ASSUME GraphInv, AddEdges PROVE GraphInv'
  OBVIOUS
<1>0. PICK p \in paths : \E s \in Sorted(krate, DigestsAt(krate, p)) :
        /\ paths' = paths \ {p}
        /\ edges' = edges \o [i \in 1 .. Len(s) - 1 |-> <<s[i], s[i + 1]>>]
        /\ roots' = roots \ {s[i] : i \in 2 .. Len(s)}
        /\ UNCHANGED <<krate, nodes>>
  BY DEF AddEdges
<1>1. PICK s \in Sorted(krate, DigestsAt(krate, p)) :
        /\ paths' = paths \ {p}
        /\ edges' = edges \o [i \in 1 .. Len(s) - 1 |-> <<s[i], s[i + 1]>>]
        /\ roots' = roots \ {s[i] : i \in 2 .. Len(s)}
        /\ UNCHANGED <<krate, nodes>>
  BY <1>0
<1> DEFINE S == DigestsAt(krate, p)
           k == Cardinality(S)
           chain == [i \in 1 .. Len(s) - 1 |-> <<s[i], s[i + 1]>>]
<1>2. S \subseteq nodes /\ S \subseteq Digests
  BY PathsBlobs DEF GraphInv
<1>3. k \in Nat
  BY <1>2, GraphConstantsOK, FS_Subset, FS_CardinalityType
<1>4. s \in [1..k -> S]
  BY DEF Sorted
<1> HIDE DEF S, k
<1>5. Len(s) = k /\ \A i \in 1..k : s[i] \in nodes
  BY <1>2, <1>3, <1>4
<1>6. \A i \in 1..(k - 1) : i \in 1..k /\ i + 1 \in 1..k
  BY <1>3
<1>7. \A i \in 1..(k - 1) : chain[i] = <<s[i], s[i + 1]>> /\ s[i] \in nodes /\ s[i + 1] \in nodes
  BY <1>5, <1>6
<1>8. chain \in Seq(nodes \X nodes) /\ DOMAIN chain = 1..(k - 1)
  <2>1. chain \in [1..(k - 1) -> nodes \X nodes]
    BY <1>5, <1>7
  <2>2. CASE k = 0
    <3>1. 1..(k - 1) = 1..0
      BY <2>2
    <3> QED  BY <2>1, <3>1, FunctionIsSeq
  <2>3. CASE k # 0
    <3>1. k - 1 \in Nat
      BY <1>3, <2>3
    <3> QED  BY <2>1, <3>1, FunctionIsSeq
  <2> QED  BY <2>2, <2>3
<1>9. edges' = edges \o chain /\ edges \in Seq(nodes \X nodes)
  BY <1>1 DEF GraphInv
<1> DEFINE J == 1..(k - 1)
<1> HIDE DEF chain, J
<1>10. /\ edges' \in Seq(nodes \X nodes)
       /\ \A i \in DOMAIN edges : i \in DOMAIN edges' /\ edges'[i] = edges[i]
       /\ \A i \in J : Len(edges) + i \in DOMAIN edges' /\ edges'[Len(edges) + i] = chain[i]
       /\ \A i \in DOMAIN edges' : i \in DOMAIN edges \/ \E j \in J : i = Len(edges) + j
  <2> DEFINE E == nodes \X nodes
  <2>1. DOMAIN chain = J
    BY <1>8 DEF J
  <2>2. edges \in Seq(E) /\ chain \in Seq(E)
    BY <1>8, <1>9
  <2> HIDE DEF E
  <2>3. /\ edges \o chain \in Seq(E)
        /\ \A i \in DOMAIN edges : i \in DOMAIN (edges \o chain) /\ (edges \o chain)[i] = edges[i]
        /\ \A i \in DOMAIN chain :
             Len(edges) + i \in DOMAIN (edges \o chain) /\ (edges \o chain)[Len(edges) + i] = chain[i]
        /\ \A i \in DOMAIN (edges \o chain) :
             i \in DOMAIN edges \/ \E j \in DOMAIN chain : i = Len(edges) + j
    BY <2>2, ConcatType
  <2>4. edges' \in Seq(E)
    BY <1>9, <2>3
  <2> QED  BY <1>9, <2>1, <2>3, <2>4 DEF E
<1>11. \A m, n : IsEdge(m, n)' <=> IsEdge(m, n) \/ \E i \in 1..(k - 1) : m = s[i] /\ n = s[i + 1]
  <2>1. \A i \in J : chain[i] = <<s[i], s[i + 1]>>
    BY <1>7 DEF J
  <2> SUFFICES ASSUME NEW m, NEW n
               PROVE  IsEdge(m, n)' <=> IsEdge(m, n) \/ \E i \in J : m = s[i] /\ n = s[i + 1]
    BY DEF J
  <2>2. ASSUME IsEdge(m, n)' PROVE IsEdge(m, n) \/ \E i \in J : m = s[i] /\ n = s[i + 1]
    <3>1. PICK x \in DOMAIN edges' : edges'[x] = <<m, n>>
      BY <2>2 DEF IsEdge
    <3>2. CASE x \in DOMAIN edges
      BY <1>10, <3>1, <3>2 DEF IsEdge
    <3>3. ASSUME NEW j \in J, x = Len(edges) + j PROVE m = s[j] /\ n = s[j + 1]
      BY <1>10, <2>1, <3>1, <3>3
    <3> QED  BY <1>10, <3>2, <3>3
  <2>3. ASSUME IsEdge(m, n) PROVE IsEdge(m, n)'
    BY <1>10, <2>3 DEF IsEdge
  <2>4. ASSUME NEW i \in J, m = s[i], n = s[i + 1] PROVE IsEdge(m, n)'
    BY <1>10, <2>1, <2>4 DEF IsEdge
  <2> QED  BY <2>2, <2>3, <2>4
<1>12. \A n : n \in {s[i] : i \in 2 .. Len(s)} <=> \E i \in 1..(k - 1) : n = s[i + 1]
  <2>1. \A i \in 2..k : i - 1 \in 1..(k - 1) /\ (i - 1) + 1 = i
    BY <1>3
  <2>2. \A i \in 1..(k - 1) : i + 1 \in 2..k
    BY <1>3
  <2> QED  BY <1>5, <2>1, <2>2
<1>13. RootsHaveNoOlder'
  <2>1. \A n : n \in roots <=> n \in nodes /\ ~\E m \in nodes : IsEdge(m, n)
    BY DEF GraphInv, RootsHaveNoOlder
  <2>2. \A n : n \in roots' <=> n \in roots /\ ~\E i \in 1..(k - 1) : n = s[i + 1]
    BY <1>1, <1>12
  <2>3. \A n : (\E m \in nodes : IsEdge(m, n)') <=>
               (\E m \in nodes : IsEdge(m, n)) \/ \E i \in 1..(k - 1) : n = s[i + 1]
    BY <1>7, <1>11
  <2>4. \A n : n \in roots' <=> n \in nodes /\ ~\E m \in nodes : IsEdge(m, n)'
    BY <2>1, <2>2, <2>3
  <2> QED  BY <1>1, <2>4 DEF RootsHaveNoOlder
<1> QED  BY <1>1, <1>10, <1>13 DEF GraphInv

LEMMA GraphInvStep == GraphInv /\ [GraphNext]_graphVars => GraphInv'
<1> SUFFICES ASSUME GraphInv, [GraphNext]_graphVars PROVE GraphInv'
  OBVIOUS
<1>1. UNCHANGED building => GraphInv'
  BY DEF GraphInv, RootsHaveNoOlder, IsEdge, building
<1>2. \/ AddNodes \/ AddEdges \/ UNCHANGED building
  BY DEF GraphNext, GraphDone, NextRoot, Walk, WalkOn, ListDone, ListsDone, graphVars
<1> QED  BY <1>1, <1>2, AddNodesInv, AddEdgesInv

-----------------------------------------------------------------------------
(* The lists.  Whatever is in one has been visited, and what has been      *)
(* visited is not put into another.                                        *)

ListsInv ==
  /\ mblob_digests \in Seq(visited) /\ res \in Seq(Seq(visited))
  /\ EachBlobInOneList
  /\ Distinct(mblob_digests)
  /\ \A i \in DOMAIN res : \A k \in DOMAIN res[i], l \in DOMAIN mblob_digests :
       res[i][k] # mblob_digests[l]

LEMMA WalkInv == ListsInv /\ Walk => ListsInv'
<1> SUFFICES ASSUME ListsInv, Walk PROVE ListsInv'
  OBVIOUS
<1> DEFINE n == Last(to_walk)
           q == mblob_digests
<1>1. n \notin visited /\ visited' = visited \cup {n} /\ mblob_digests' = Append(q, n) /\ res' = res
  BY DEF Walk
<1> HIDE DEF n
<1>2. q \in Seq(visited') /\ n \in visited' /\ res \in Seq(Seq(visited'))
  BY <1>1 DEF ListsInv
<1>3. /\ mblob_digests' \in Seq(visited')
      /\ DOMAIN mblob_digests' = DOMAIN q \cup {Len(q) + 1} /\ Len(q) + 1 \notin DOMAIN q
      /\ \A i \in DOMAIN q : mblob_digests'[i] = q[i]
      /\ mblob_digests'[Len(q) + 1] = n
  BY <1>1, <1>2, AppendType
<1>4. \A k \in DOMAIN q : q[k] # n
  BY <1>1 DEF ListsInv
<1>5. \A i \in DOMAIN res : \A k \in DOMAIN res[i] : res[i][k] # n
  BY <1>1 DEF ListsInv
<1>6. Distinct(mblob_digests')
  BY <1>3, <1>4 DEF ListsInv, Distinct
<1>7. \A i \in DOMAIN res : \A k \in DOMAIN res[i], l \in DOMAIN mblob_digests' :
        res[i][k] # mblob_digests'[l]
  BY <1>3, <1>5 DEF ListsInv
<1> QED  BY <1>1, <1>2, <1>3, <1>6, <1>7 DEF ListsInv, EachBlobInOneList, Distinct

LEMMA ListDoneInv == ListsInv /\ ListDone => ListsInv'
<1> SUFFICES ASSUME ListsInv, ListDone PROVE ListsInv'
  OBVIOUS
<1> DEFINE q == mblob_digests
<1>1. res' = Append(res, q) /\ mblob_digests' = <<>> /\ visited' = visited
  BY DEF ListDone
<1>2. /\ res' \in Seq(Seq(visited))
      /\ DOMAIN res' = DOMAIN res \cup {Len(res) + 1}
      /\ \A i \in DOMAIN res : res'[i] = res[i]
      /\ res'[Len(res) + 1] = q
  BY <1>1, AppendType DEF ListsInv
<1>3. EachBlobInOneList'
  <2> SUFFICES ASSUME NEW i \in DOMAIN res', NEW j \in DOMAIN res',
                      NEW k \in DOMAIN res'[i], NEW l \in DOMAIN res'[j], res'[i][k] = res'[j][l]
               PROVE  i = j /\ k = l
    BY DEF EachBlobInOneList
  <2>1. CASE i \in DOMAIN res /\ j \in DOMAIN res
    BY <1>2, <2>1 DEF ListsInv, EachBlobInOneList
  <2>2. CASE i = Len(res) + 1 /\ j = Len(res) + 1
    BY <1>2, <2>2 DEF ListsInv, Distinct
  <2>3. CASE i \in DOMAIN res /\ j = Len(res) + 1
    BY <1>2, <2>3 DEF ListsInv
  <2>4. CASE i = Len(res) + 1 /\ j \in DOMAIN res
    BY <1>2, <2>4 DEF ListsInv
  <2> QED  BY <1>2, <2>1, <2>2, <2>3, <2>4
<1> QED  BY <1>1, <1>2, <1>3 DEF ListsInv, Distinct

LEMMA ListsInvStep == ListsInv /\ [GraphNext]_graphVars => ListsInv'
<1> SUFFICES ASSUME ListsInv, [GraphNext]_graphVars PROVE ListsInv'
  OBVIOUS
<1>1. UNCHANGED <<res, mblob_digests, visited>> => ListsInv'
  BY DEF ListsInv, EachBlobInOneList, Distinct
<1>2. \/ Walk \/ ListDone \/ UNCHANGED <<res, mblob_digests, visited>>
  BY DEF GraphNext, AddNodes, AddEdges, GraphDone, NextRoot, WalkOn, ListsDone, graphVars, walking
<1> QED  BY <1>1, <1>2, WalkInv, ListDoneInv

-----------------------------------------------------------------------------
(* What a traversal reaches: behind what is visited or waits, nothing is   *)
(* forgotten, and a root leads to all of it.                               *)

TraversalInv ==
  /\ phase \in {"build", "roots", "walk", "listed"}
  /\ walked \subseteq roots /\ visited \subseteq nodes /\ to_walk \in Seq(nodes)
  /\ phase = "build" => walked = {} /\ visited = {}
  /\ phase # "walk" => to_walk = <<>> /\ mblob_digests = <<>>
  /\ phase = "listed" => walked = roots
  /\ walked \subseteq visited \cup Range(to_walk)
  /\ \A n \in visited : \A m : IsEdge(n, m) => m \in visited \cup Range(to_walk)
  /\ \A n \in visited \cup Range(to_walk) : Reached(n)
  /\ visited = Listed \cup Range(mblob_digests)

LEMMA ReachedOn ==
  ASSUME EdgesOK, NEW n \in nodes, NEW m \in nodes, IsEdge(n, m), Reached(n)
  PROVE  Reached(m)
<1>1. n \in Sources({m})
  BY EdgeEnds
<1>2. n \in Before(m) /\ Sources(Before(m)) \subseteq Before(m)
  BY <1>1, BeforeComplete
<1>3. Sources({n}) \subseteq Sources(Before(m))
  BY <1>2, EdgeEnds
<1>4. Before(n) \subseteq Before(m)
  BY <1>2, <1>3, BeforeComplete
<1> QED  BY <1>2, <1>4 DEF Reached

LEMMA NeighborsAre ==
  ASSUME EdgesOK, NEW n
  PROVE  /\ Neighbors(n) \in Seq(nodes)
         /\ \A m : m \in Range(Neighbors(n)) <=> IsEdge(n, m)
<1> DEFINE T == nodes \X nodes
           S == {n} \X nodes
           out == Only(edges, S)
           k == Len(out)
<1>1. out \in Seq(T) /\ Range(out) = Range(edges) \cap S
  <2>1. edges \in Seq(T)
    BY DEF EdgesOK
  <2> HIDE DEF T, S
  <2> QED  BY <2>1, OnlyProperties
<1>2. Neighbors(n) = [i \in DOMAIN out |-> out[Len(out) + 1 - i][2]]
  BY DEF Neighbors
<1> HIDE DEF out, T, S
<1>3. k \in Nat /\ DOMAIN out = 1..k
  BY <1>1
<1>4. Neighbors(n) = [i \in 1..k |-> out[k + 1 - i][2]]
  BY <1>2, <1>3
<1> HIDE DEF k
<1>5. \A i \in 1..k : k + 1 - i \in 1..k /\ k + 1 - (k + 1 - i) = i
  BY <1>3
<1>6. \A i \in 1..k : out[i] \in nodes \X nodes
  BY <1>1, <1>3, ElementType DEF T
<1>7. \A i \in 1..k : out[i][2] \in nodes /\ out[i] = <<out[i][1], out[i][2]>>
  BY <1>6
<1>8. Neighbors(n) \in [1..k -> nodes]
  BY <1>4, <1>5, <1>7
<1>9. Neighbors(n) \in Seq(nodes)
  BY <1>3, <1>8, FunctionIsSeq
<1>10. ASSUME NEW m, m \in Range(Neighbors(n)) PROVE IsEdge(n, m)
  <2>1. PICK i \in 1..k : m = Neighbors(n)[i]
    BY <1>4, <1>10 DEF Range
  <2>2. k + 1 - i \in 1..k /\ m = out[k + 1 - i][2]
    BY <1>4, <1>5, <2>1
  <2> DEFINE x == out[k + 1 - i]
  <2>3. x \in {n} \X nodes /\ \E j \in DOMAIN edges : edges[j] = x
    BY <1>1, <1>3, <2>2 DEF S, Range
  <2>4. x = <<n, m>>
    BY <2>2, <2>3
  <2> QED  BY <2>3, <2>4 DEF IsEdge
<1>11. ASSUME NEW m, IsEdge(n, m) PROVE m \in Range(Neighbors(n))
  <2>1. m \in nodes /\ <<n, m>> \in {n} \X nodes
    BY <1>11, EdgeEnds
  <2>2. PICK i \in 1..k : out[i] = <<n, m>>
    BY <1>1, <1>3, <1>11, <2>1 DEF IsEdge, S, Range
  <2>3. Neighbors(n)[k + 1 - i] = m
    BY <1>4, <1>5, <2>2
  <2> QED  BY <1>4, <1>5, <2>3 DEF Range
<1> QED  BY <1>9, <1>10, <1>11

LEMMA RangeParts ==
  /\ \A T : \A q \in Seq(T) : q # <<>> =>
       /\ Front(q) \in Seq(T) /\ Last(q) \in T
       /\ Range(q) = Range(Front(q)) \cup {Last(q)}
  /\ \A T : \A q \in Seq(T) : \A m \in T : Range(Append(q, m)) = Range(q) \cup {m}
  /\ \A T : \A p, q \in Seq(T) : Range(p \o q) = Range(p) \cup Range(q)
  /\ Range(<<>>) = {}
<1>1. ASSUME NEW T, NEW q \in Seq(T), q # <<>>
      PROVE  /\ Front(q) \in Seq(T) /\ Last(q) \in T
             /\ Range(q) = Range(Front(q)) \cup {Last(q)}
  <2>1. Len(q) \in Nat /\ Len(q) # 0 /\ DOMAIN q = 1..Len(q)
    BY <1>1
  <2>2. /\ Front(q) \in Seq(T) /\ DOMAIN Front(q) = 1..(Len(q) - 1)
        /\ \A i \in 1..(Len(q) - 1) : Front(q)[i] = q[i]
    BY <2>1 DEF Front
  <2>3. Last(q) = q[Len(q)] /\ Len(q) \in 1..Len(q)
    BY <2>1 DEF Last
  <2>6. Last(q) \in T
    BY <2>1, <2>3, ElementType
  <2>4. /\ \A i \in 1..Len(q) : i = Len(q) \/ i \in 1..(Len(q) - 1)
        /\ \A i \in 1..(Len(q) - 1) : i \in 1..Len(q)
    <3> DEFINE k == Len(q)
    <3>1. k \in Nat
      BY <2>1
    <3> HIDE DEF k
    <3>2. /\ \A i \in 1..k : i = k \/ i \in 1..(k - 1)
          /\ \A i \in 1..(k - 1) : i \in 1..k
      BY <3>1
    <3> QED  BY <3>2 DEF k
  <2> QED  BY <2>1, <2>2, <2>3, <2>4, <2>6 DEF Range
<1>2. ASSUME NEW T, NEW q \in Seq(T), NEW m \in T
      PROVE  Range(Append(q, m)) = Range(q) \cup {m}
  BY AppendType DEF Range
<1>3. ASSUME NEW T, NEW p \in Seq(T), NEW q \in Seq(T)
      PROVE  Range(p \o q) = Range(p) \cup Range(q)
  <2>1. /\ \A i \in DOMAIN p : i \in DOMAIN (p \o q) /\ (p \o q)[i] = p[i]
        /\ \A i \in DOMAIN q : Len(p) + i \in DOMAIN (p \o q) /\ (p \o q)[Len(p) + i] = q[i]
        /\ \A i \in DOMAIN (p \o q) :
             i \in DOMAIN p \/ \E j \in DOMAIN q : i = Len(p) + j
    BY ConcatType
  <2> DEFINE r == p \o q
  <2> HIDE DEF r
  <2>2. \A x \in Range(r) : x \in Range(p) \cup Range(q)
    BY <2>1 DEF Range, r
  <2>3. \A x \in Range(p) \cup Range(q) : x \in Range(r)
    BY <2>1 DEF Range, r
  <2> QED  BY <2>2, <2>3 DEF r
<1>4. Range(<<>>) = {}
  BY DEF Range
<1> QED  BY <1>1, <1>2, <1>3, <1>4

LEMMA GraphFinite == GraphInv => EdgesOK
BY GraphConstantsOK, FS_Subset DEF GraphInv, EdgesOK

LEMMA SameBefore == UNCHANGED building => \A n : Reached(n)' <=> Reached(n)
BY DEF Reached, Before, Sources, building

LEMMA BuildingTraversal ==
  GraphInv /\ TraversalInv /\ (AddNodes \/ AddEdges) => TraversalInv'
<1> SUFFICES ASSUME GraphInv, TraversalInv, AddNodes \/ AddEdges PROVE TraversalInv'
  OBVIOUS
<1>1. /\ phase = "build" /\ phase' = "build" /\ UNCHANGED walking
      /\ walked = {} /\ visited = {} /\ to_walk = <<>> /\ mblob_digests = <<>>
  BY DEF AddNodes, AddEdges, TraversalInv
<1>2. to_walk' \in Seq(nodes') /\ Range(to_walk') = {}
  BY <1>1, RangeParts DEF walking
<1>3. Listed' = Listed /\ Range(mblob_digests') = Range(mblob_digests)
  BY <1>1 DEF walking, Listed
<1> QED  BY <1>1, <1>2, <1>3 DEF TraversalInv, walking

LEMMA NextRootTraversal ==
  GraphInv /\ TraversalInv /\ NextRoot => TraversalInv'
<1> SUFFICES ASSUME GraphInv, TraversalInv, NextRoot PROVE TraversalInv'
  OBVIOUS
<1>1. PICK r \in roots \ walked :
        /\ phase = "roots" /\ phase' = "walk"
        /\ walked' = walked \cup {r} /\ to_walk' = <<r>>
        /\ UNCHANGED <<building, visited, mblob_digests, res>>
  BY DEF NextRoot
<1>2. r \in nodes /\ nodes' = nodes /\ roots' = roots
  BY <1>1 DEF GraphInv, RootsHaveNoOlder, building
<1>3. to_walk' \in Seq(nodes') /\ Range(to_walk') = {r}
  BY <1>1, <1>2 DEF Range
<1>4. Range(to_walk) = {}
  BY <1>1, RangeParts DEF TraversalInv
<1>5. \A n : Reached(n)' <=> Reached(n)
  BY <1>1, SameBefore
<1>6. Reached(r)
  BY DEF Reached
<1>7. \A n, m : IsEdge(n, m)' <=> IsEdge(n, m)
  BY <1>1 DEF IsEdge, building
<1>8. Listed' = Listed /\ Range(mblob_digests') = Range(mblob_digests)
  BY <1>1 DEF Listed
<1>9. walked' \subseteq visited' \cup Range(to_walk')
  BY <1>1, <1>3, <1>4 DEF TraversalInv
<1>10. \A n \in visited' : \A m : IsEdge(n, m)' => m \in visited' \cup Range(to_walk')
  BY <1>1, <1>3, <1>4, <1>7 DEF TraversalInv
<1>11. \A n \in visited' \cup Range(to_walk') : Reached(n)'
  BY <1>1, <1>3, <1>5, <1>6 DEF TraversalInv
<1>12. walked' \subseteq roots' /\ visited' \subseteq nodes' /\ phase' = "walk"
  BY <1>1, <1>2 DEF TraversalInv
<1>13. visited' = Listed' \cup Range(mblob_digests')
  BY <1>1, <1>8 DEF TraversalInv
<1> QED  BY <1>3, <1>9, <1>10, <1>11, <1>12, <1>13 DEF TraversalInv

LEMMA WalkTraversal ==
  GraphInv /\ ListsInv /\ TraversalInv /\ Walk => TraversalInv'
<1> SUFFICES ASSUME GraphInv, ListsInv, TraversalInv, Walk PROVE TraversalInv'
  OBVIOUS
<1> DEFINE n == Last(to_walk)
           front == Front(to_walk)
           next == Neighbors(n)
<1>1. /\ phase = "walk" /\ phase' = "walk" /\ to_walk # <<>>
      /\ visited' = visited \cup {n} /\ mblob_digests' = Append(mblob_digests, n)
      /\ to_walk' = front \o next
      /\ UNCHANGED <<building, walked, res>>
  BY DEF Walk
<1>2. front \in Seq(nodes) /\ n \in nodes /\ Range(to_walk) = Range(front) \cup {n}
  BY <1>1, RangeParts DEF TraversalInv
<1>3. EdgesOK
  BY GraphFinite
<1>4. next \in Seq(nodes) /\ \A m : m \in Range(next) <=> IsEdge(n, m)
  BY <1>3, NeighborsAre
<1> HIDE DEF n, front, next
<1>5. to_walk' \in Seq(nodes) /\ Range(to_walk') = Range(front) \cup Range(next)
  BY <1>1, <1>2, <1>4, RangeParts, ConcatType
<1>6. nodes' = nodes /\ roots' = roots /\ \A x, y : IsEdge(x, y)' <=> IsEdge(x, y)
  BY <1>1 DEF IsEdge, building
<1>7. \A x : Reached(x)' <=> Reached(x)
  BY <1>1, SameBefore
<1>8. walked' \subseteq visited' \cup Range(to_walk')
  BY <1>1, <1>2, <1>5 DEF TraversalInv
<1>9. \A x \in visited' : \A m : IsEdge(x, m)' => m \in visited' \cup Range(to_walk')
  BY <1>1, <1>2, <1>4, <1>5, <1>6 DEF TraversalInv
<1>10. ASSUME NEW x \in visited' \cup Range(to_walk') PROVE Reached(x)'
  <2>1. Reached(n)
    BY <1>2 DEF TraversalInv
  <2>2. CASE x \in Range(next)
    <3>1. IsEdge(n, x) /\ x \in nodes
      BY <1>3, <1>4, <2>2, EdgeEnds
    <3> QED  BY <1>2, <1>3, <1>7, <2>1, <3>1, ReachedOn
  <2>3. CASE x \in visited \cup {n} \cup Range(front)
    BY <1>2, <1>7, <2>1, <2>3 DEF TraversalInv
  <2> QED  BY <1>1, <1>5, <2>2, <2>3
<1>11. Range(mblob_digests') = Range(mblob_digests) \cup {n}
  <2>1. mblob_digests \in Seq(visited')
    BY <1>1 DEF ListsInv
  <2> QED  BY <1>1, <2>1, RangeParts
<1>12. Listed' = Listed
  BY <1>1 DEF Listed
<1>13. visited' = Listed' \cup Range(mblob_digests')
  BY <1>1, <1>11, <1>12 DEF TraversalInv
<1>14. walked' \subseteq roots' /\ visited' \subseteq nodes' /\ to_walk' \in Seq(nodes')
  BY <1>1, <1>2, <1>5, <1>6 DEF TraversalInv
<1> QED  BY <1>1, <1>8, <1>9, <1>10, <1>13, <1>14 DEF TraversalInv

LEMMA WalkOnTraversal ==
  GraphInv /\ TraversalInv /\ WalkOn => TraversalInv'
<1> SUFFICES ASSUME GraphInv, TraversalInv, WalkOn PROVE TraversalInv'
  OBVIOUS
<1>1. /\ phase = "walk" /\ to_walk # <<>> /\ Last(to_walk) \in visited
      /\ to_walk' = Front(to_walk)
      /\ UNCHANGED <<phase, building, walked, visited, mblob_digests, res>>
  BY DEF WalkOn
<1>2. Front(to_walk) \in Seq(nodes) /\ Range(to_walk) = Range(Front(to_walk)) \cup {Last(to_walk)}
  BY <1>1, RangeParts DEF TraversalInv
<1>3. visited \cup Range(to_walk) = visited' \cup Range(to_walk')
  BY <1>1, <1>2
<1>4. nodes' = nodes /\ roots' = roots /\ \A x, y : IsEdge(x, y)' <=> IsEdge(x, y)
  BY <1>1 DEF IsEdge, building
<1>5. \A x : Reached(x)' <=> Reached(x)
  BY <1>1, SameBefore
<1>6. Listed' = Listed /\ Range(mblob_digests') = Range(mblob_digests)
  BY <1>1 DEF Listed
<1>7. to_walk' \in Seq(nodes')
  BY <1>1, <1>2, <1>4
<1>8. \A x \in visited' : \A m : IsEdge(x, m)' => m \in visited' \cup Range(to_walk')
  BY <1>1, <1>3, <1>4 DEF TraversalInv
<1>9. \A x \in visited' \cup Range(to_walk') : Reached(x)'
  BY <1>3, <1>5 DEF TraversalInv
<1>10. walked' \subseteq visited' \cup Range(to_walk')
  BY <1>1, <1>3 DEF TraversalInv
<1> QED  BY <1>1, <1>4, <1>6, <1>7, <1>8, <1>9, <1>10 DEF TraversalInv

(* The steps that only end something.                                      *)
LEMMA DoneTraversal ==
  GraphInv /\ ListsInv /\ TraversalInv /\ (GraphDone \/ ListDone \/ ListsDone) => TraversalInv'
<1> SUFFICES ASSUME GraphInv, ListsInv, TraversalInv, GraphDone \/ ListDone \/ ListsDone
             PROVE  TraversalInv'
  OBVIOUS
<1>1. UNCHANGED <<building, walked, to_walk, visited>>
  BY DEF GraphDone, ListDone, ListsDone, walking
<1>2. /\ nodes' = nodes /\ roots' = roots /\ Range(to_walk') = Range(to_walk)
      /\ \A x, y : IsEdge(x, y)' <=> IsEdge(x, y)
  BY <1>1 DEF IsEdge, building, Range
<1>3. \A x : Reached(x)' <=> Reached(x)
  BY <1>1, SameBefore
<1>4. /\ phase' \in {"roots", "listed"} /\ to_walk' = <<>> /\ mblob_digests' = <<>>
      /\ phase' = "listed" => walked' = roots'
  BY <1>1, <1>2 DEF GraphDone, ListDone, ListsDone, walking, TraversalInv
<1>5. Listed' \cup Range(mblob_digests') = Listed \cup Range(mblob_digests)
  <2>1. Range(mblob_digests') = {}
    BY <1>4, RangeParts
  <2>2. CASE ListDone
    <3>1. res \in Seq(Seq(visited)) /\ mblob_digests \in Seq(visited) /\ res' = Append(res, mblob_digests)
      BY <2>2 DEF ListDone, ListsInv
    <3>2. /\ DOMAIN res' = DOMAIN res \cup {Len(res) + 1}
          /\ \A i \in DOMAIN res : res'[i] = res[i]
          /\ res'[Len(res) + 1] = mblob_digests /\ Len(res) + 1 \notin DOMAIN res
      BY <3>1, AppendType
    <3>3. Listed' = Listed \cup Range(mblob_digests)
      BY <3>2 DEF Listed
    <3> QED  BY <2>1, <3>3
  <2>3. CASE GraphDone \/ ListsDone
    <3>1. mblob_digests = <<>> /\ mblob_digests' = <<>> /\ res' = res
      BY <1>4, <2>3 DEF GraphDone, ListsDone, walking
    <3> QED  BY <2>1, <3>1 DEF Listed
  <2> QED  BY <2>2, <2>3
<1>6. visited' = Listed' \cup Range(mblob_digests')
  BY <1>1, <1>5 DEF TraversalInv
<1>7. /\ walked' \subseteq visited' \cup Range(to_walk')
      /\ \A x \in visited' : \A m : IsEdge(x, m)' => m \in visited' \cup Range(to_walk')
      /\ \A x \in visited' \cup Range(to_walk') : Reached(x)'
  BY <1>1, <1>2, <1>3 DEF TraversalInv
<1>8. walked' \subseteq roots' /\ visited' \subseteq nodes' /\ to_walk' \in Seq(nodes')
  BY <1>1, <1>2 DEF TraversalInv
<1> QED  BY <1>4, <1>6, <1>7, <1>8 DEF TraversalInv

AllGraphInv == GraphInv /\ ListsInv /\ TraversalInv

LEMMA AllGraphInit == GraphInit => AllGraphInv
<1> SUFFICES ASSUME GraphInit PROVE AllGraphInv
  OBVIOUS
<1>1. GraphInv
  BY GraphInvInit
<1>2. ListsInv
  BY DEF GraphInit, ListsInv, EachBlobInOneList, Distinct
<1>3. Range(to_walk) = {} /\ Range(mblob_digests) = {} /\ Listed = {}
  BY RangeParts DEF GraphInit, Listed
<1>4. TraversalInv
  BY <1>3 DEF GraphInit, TraversalInv
<1> QED  BY <1>1, <1>2, <1>4 DEF AllGraphInv

LEMMA AllGraphStep == AllGraphInv /\ [GraphNext]_graphVars => AllGraphInv'
<1> SUFFICES ASSUME AllGraphInv, [GraphNext]_graphVars PROVE AllGraphInv'
  OBVIOUS
<1>1. GraphInv /\ ListsInv /\ TraversalInv
  BY DEF AllGraphInv
<1>2. GraphInv' /\ ListsInv'
  BY <1>1, GraphInvStep, ListsInvStep
<1>3. CASE UNCHANGED graphVars
  <2>1. \A x : Reached(x)' <=> Reached(x)
    BY <1>3, SameBefore DEF graphVars
  <2>2. /\ \A x, y : IsEdge(x, y)' <=> IsEdge(x, y)
        /\ Listed' = Listed /\ Range(to_walk') = Range(to_walk)
        /\ Range(mblob_digests') = Range(mblob_digests)
    BY <1>3 DEF graphVars, building, walking, IsEdge, Listed, Range
  <2>3. UNCHANGED <<phase, nodes, roots, walked, visited, to_walk, mblob_digests>>
    BY <1>3 DEF graphVars, building, walking
  <2>4. TraversalInv'
    BY <1>1, <2>1, <2>2, <2>3 DEF TraversalInv
  <2> QED  BY <1>2, <2>4 DEF AllGraphInv
<1>4. CASE GraphNext
  <2>1. TraversalInv'
    BY <1>1, <1>4, BuildingTraversal, NextRootTraversal, WalkTraversal, WalkOnTraversal, DoneTraversal
       DEF GraphNext
  <2> QED  BY <1>2, <2>1 DEF AllGraphInv
<1> QED  BY <1>3, <1>4

(* When all lists are made, what has been visited is what a root leads to; *)
(* going back from any other blob one meets no root, so one goes round.    *)
LEMMA ListedAreReached ==
  ASSUME GraphInv, TraversalInv, phase = "listed", NEW n \in nodes
  PROVE  n \in Listed <=> Reached(n)
<1>1. EdgesOK
  BY GraphFinite
<1>2. Range(to_walk) = {} /\ Range(mblob_digests) = {} /\ walked = roots
  BY RangeParts DEF TraversalInv
<1>3. /\ visited = Listed /\ roots \subseteq visited
      /\ \A x \in visited : \A m : IsEdge(x, m) => m \in visited
      /\ \A x \in visited : Reached(x)
  BY <1>2 DEF TraversalInv
<1>4. ASSUME Reached(n), n \notin visited PROVE FALSE
  <2> DEFINE C == nodes \ visited
  <2>1. PICK r \in roots : r \in {n} \cup Before(n)
    BY <1>4 DEF Reached
  <2>2. r \in visited /\ r # n
    BY <1>3, <1>4
  <2>3. Sources({n}) \subseteq C /\ Sources(C) \subseteq C
    BY <1>1, <1>3, <1>4, EdgeEnds
  <2>4. Before(n) \subseteq C
    BY <1>1, <2>3, BeforeComplete
  <2> QED  BY <2>1, <2>2, <2>4
<1> QED  BY <1>3, <1>4

LEMMA UnreachedHasCycle ==
  ASSUME GraphInv, NEW n \in nodes, ~ Reached(n)
  PROVE  \E m \in Before(n) : m \in Before(m)
<1>1. EdgesOK
  BY GraphFinite
<1> DEFINE B == Before(n)
<1>2. B \subseteq nodes /\ Sources({n}) \subseteq B /\ Sources(B) \subseteq B
  BY <1>1, BeforeComplete
<1>3. ASSUME NEW x \in B \cup {n} PROVE \E p \in B : p \in Sources({x})
  <2>1. x \in nodes /\ x \notin roots
    BY <1>2 DEF Reached
  <2>2. PICK p \in nodes : IsEdge(p, x)
    BY <2>1 DEF GraphInv, RootsHaveNoOlder
  <2>3. p \in Sources({x}) /\ (x \in B => p \in Sources(B))
    BY <1>1, <2>2, EdgeEnds
  <2> QED  BY <1>2, <2>3
<1> DEFINE K == {Cardinality(Before(x)) : x \in B}
<1>4. \A x \in B : Before(x) \subseteq nodes /\ IsFiniteSet(Before(x)) /\ Cardinality(Before(x)) \in Nat
  <2> SUFFICES ASSUME NEW x \in B
               PROVE  Before(x) \subseteq nodes /\ IsFiniteSet(Before(x)) /\ Cardinality(Before(x)) \in Nat
    OBVIOUS
  <2>1. Before(x) \subseteq nodes
    BY <1>1, BeforeComplete
  <2> QED  BY <1>1, <2>1, FS_Subset, FS_CardinalityType DEF EdgesOK
<1>5. K \subseteq Nat /\ K # {}
  <2>1. B # {}
    BY <1>3
  <2>2. K \subseteq Nat
    BY <1>4
  <2> HIDE DEF B
  <2> QED  BY <2>1, <2>2
<1>6. PICK x \in B : \A y \in B : Cardinality(Before(x)) <= Cardinality(Before(y))
  <2> HIDE DEF K
  <2>1. PICK k \in K : \A j \in K : k <= j
    BY <1>5, LeastNumber
  <2> QED  BY <2>1 DEF K
<1>7. PICK p \in B : p \in Sources({x})
  BY <1>3
<1>8. p \in Before(x) /\ Sources(Before(x)) \subseteq Before(x)
  BY <1>1, <1>7, BeforeComplete
<1>9. Sources({p}) \subseteq Before(x)
  BY <1>1, <1>8, EdgeEnds
<1>10. Before(p) \subseteq Before(x)
  BY <1>1, <1>8, <1>9, BeforeComplete
<1>11. Before(p) = Before(x)
  <2> DEFINE b == Before(p)
             c == Before(x)
  <2>1. /\ b \subseteq c /\ IsFiniteSet(c) /\ Cardinality(c) <= Cardinality(b)
        /\ Cardinality(b) \in Nat /\ Cardinality(c) \in Nat
    BY <1>4, <1>6, <1>10
  <2> HIDE DEF b, c
  <2>2. Cardinality(b) <= Cardinality(c) /\ (Cardinality(c) = Cardinality(b) => c = b)
    BY <2>1, FS_Subset
  <2>3. b = c
    BY <2>1, <2>2
  <2> QED  BY <2>3 DEF b, c
<1> QED  BY <1>7, <1>8, <1>11

LEMMA LeftOut == AllGraphInv => LeftOutIsAfterCycle
<1> SUFFICES ASSUME AllGraphInv, phase = "listed", NEW n \in nodes
             PROVE  /\ n \in Listed <=> Reached(n)
                    /\ n \notin Listed => \E m \in Before(n) : m \in Before(m)
  BY DEF LeftOutIsAfterCycle
<1>1. GraphInv /\ TraversalInv
  BY DEF AllGraphInv
<1>2. n \in Listed <=> Reached(n)
  BY <1>1, ListedAreReached
<1>3. ~ Reached(n) => \E m \in Before(n) : m \in Before(m)
  BY <1>1, UnreachedHasCycle
<1> QED  BY <1>2, <1>3
=============================================================================
