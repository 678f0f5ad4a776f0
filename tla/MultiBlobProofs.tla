-------------------------- MODULE MultiBlobProofs --------------------------
(***************************************************************************)
(* Proofs about multi blobs, for texts of any length over any characters,  *)
(* any number of them, and any longest common subsequence the diff takes.  *)
(*                                                                         *)
(*   ReconstructionDecided  when a diff yields its new text                *)
(*   WrittenIsRead          deserialize reads what serialize wrote         *)
(*   RootLeadsToAll         the loaded diffs lead through all the texts    *)
(*   OnlyAloneIsFound       get_blob finds a text that is alone, only      *)
(*                                                                         *)
(* First what the operators compute, by induction over a set of numbers    *)
(* (Recursion), for each recursive function of the model:                  *)
(*                                                                         *)
(*   EndedSplit       splitting a text into lines loses nothing            *)
(*   MergeIs          the pieces of a merge hold all lines of both texts,  *)
(*                    in their order, and no piece but a common one        *)
(*                    stands behind one of its kind (Taken is the          *)
(*                    invariant of the loop)                               *)
(*   ReconstructionIs what the instructions do to an old text              *)
(*   EndIsSameIff     these together: the new text is had back iff the     *)
(*                    last piece is common, or the only one                *)
(*   ReadDiff, ReadList  a list is read as it was written: a diff's        *)
(*                    instructions, a file's entries                       *)
(*                                                                         *)
(* Then the inductive invariant Inv: the list is the chain of diffs from   *)
(* each text to the next (ListOK), and the file is what serialize makes of *)
(* root and list (FileOK).                                                 *)
(***************************************************************************)
EXTENDS MultiBlob, Recursion, SequenceTheorems

-----------------------------------------------------------------------------
(* Sequences.                                                              *)

LEMMA SeqOfFunction ==
  ASSUME NEW T, NEW n \in Nat, NEW q \in [1..n -> T]
  PROVE  q \in Seq(T) /\ Len(q) = n
OBVIOUS

LEMMA PrefixStep ==
  ASSUME NEW T, NEW q \in Seq(T), NEW k \in Nat, k + 1 <= Len(q)
  PROVE  /\ SubSeq(q, 1, k) \in Seq(T) /\ q[k + 1] \in T /\ Len(SubSeq(q, 1, k)) = k
         /\ SubSeq(q, 1, k + 1) = Append(SubSeq(q, 1, k), q[k + 1])
<1>1. k + 1 \in 1..Len(q) /\ k \in 0..Len(q) /\ k \in Int /\ 1 \in Int /\ \A i \in 1..k : i \in 1..Len(q)
  OBVIOUS
<1>2. \A i \in 1..Len(q) : q[i] \in T
  OBVIOUS
<1>3. SubSeq(q, 1, k) \in Seq(T) /\ Len(SubSeq(q, 1, k)) = k
  BY <1>1, <1>2, SubSeqProperties
<1>4. SubSeq(q, 1, k + 1) = SubSeq(q, 1, (k + 1) - 1) \o <<q[k + 1]>>
  <2>1. 1 \in 1..Len(q) /\ k + 1 \in 1..Len(q)
    BY <1>1
  <2> QED  BY <2>1, SubSeqRecursiveSecond
<1>5. SubSeq(q, 1, k) \o <<q[k + 1]>> = Append(SubSeq(q, 1, k), q[k + 1])
  BY <1>1, <1>2, <1>3, AppendIsConcat
<1> QED  BY <1>1, <1>2, <1>3, <1>4, <1>5

LEMMA ReplaceLast ==
  ASSUME NEW T, NEW q \in Seq(T), NEW l \in T, NEW m \in T
  PROVE  [Append(q, l) EXCEPT ![Len(q) + 1] = m] = Append(q, m)
<1> DEFINE a == Append(q, l)
           b == Append(q, m)
           n == Len(q) + 1
           c == [a EXCEPT ![n] = m]
<1>1. /\ a \in Seq(T) /\ b \in Seq(T) /\ Len(a) = n /\ Len(b) = n /\ a[n] = l /\ b[n] = m
      /\ \A i \in 1..n : i # n => a[i] = q[i] /\ b[i] = q[i]
  OBVIOUS
<1>2. n \in 1..n
  OBVIOUS
<1> HIDE DEF a, b, n
<1>3. c \in Seq(T) /\ Len(c) = n /\ \A i \in 1..n : c[i] = IF i = n THEN m ELSE a[i]
  BY <1>1, <1>2, ExceptSeq
<1> HIDE DEF c
<1>4. c = b
  BY <1>1, <1>3, SeqEqual
<1> QED  BY <1>4 DEF a, b, c, n

-----------------------------------------------------------------------------
(* FlattenSeq.                                                             *)

Flattens(s, f) == f = [i \in 1..Len(s) |-> IF i = 1 THEN s[i] ELSE f[i - 1] \o s[i]]

Monoid(X) == <<>> \in X /\ (\A p, q \in X : p \o q \in X) /\ \A q \in X : <<>> \o q = q

LEMMA SeqIsMonoid == \A T : Monoid(Seq(T))
BY DEF Monoid

LEMMA FlattenEmpty == FlattenSeq(<<>>) = <<>>
BY DEF FlattenSeq

LEMMA FlattenRuns ==
  ASSUME NEW X, Monoid(X), NEW s \in Seq(X)
  PROVE  \E g :
           /\ \A i \in 0..Len(s) : g[i] \in X
           /\ g[0] = <<>>
           /\ \A i \in 1..Len(s) : g[i] = g[i - 1] \o s[i]
           /\ FlattenSeq(s) = g[Len(s)]
<1> DEFINE n == Len(s)
           F == [i \in 1..n |-> [q \in X |-> q \o s[i]]]
<1>1. n \in Nat /\ \A i \in 1..n : s[i] \in X
  OBVIOUS
<1>2. <<>> \in X /\ (\A p, q \in X : p \o q \in X) /\ \A q \in X : <<>> \o q = q
  BY DEF Monoid
<1>4. F \in [1..n -> [X -> X]]
  BY <1>1, <1>2
<1>5. \A i \in 1..n : \A q \in X : F[i][q] = q \o s[i]
  OBVIOUS
<1>6. PICK g \in [0..n -> X] : g[0] = <<>> /\ \A i \in 1..n : g[i] = F[i][g[i - 1]]
  <2> DEFINE e == <<>>
  <2>1. n \in Nat
    BY <1>1
  <2>2. e \in X
    BY <1>2
  <2> HIDE DEF F, n, e
  <2>3. \E g \in [0..n -> X] : g[0] = e /\ \A i \in 1..n : g[i] = F[i][g[i - 1]]
    BY ONLY <1>4, <2>1, <2>2, RecursionExists
  <2> QED  BY <2>3 DEF e
<1> HIDE DEF F
<1>7. \A i \in 1..n : i - 1 \in 0..n /\ g[i - 1] \in X /\ g[i] = g[i - 1] \o s[i]
  <2> TAKE i \in 1..n
  <2>1. i - 1 \in 0..n
    BY <1>1
  <2> QED  BY <1>5, <1>6, <2>1
<1>8. CASE n = 0
  <2>1. s = <<>>
    BY <1>8
  <2> QED  BY <1>6, <1>7, <1>8, <2>1, FlattenEmpty
<1>9. CASE n # 0
  <2> DEFINE h == [i \in 1..n |-> g[i]]
  <2>1. ASSUME NEW i \in 1..n
        PROVE  h[i] = IF i = 1 THEN s[i] ELSE h[i - 1] \o s[i]
    <3>1. CASE i = 1
      <4>1. i - 1 = 0
        BY <3>1
      <4>2. g[i] = g[i - 1] \o s[i]
        BY <1>7
      <4>3. g[i] = <<>> \o s[i]
        BY <1>6, <4>1, <4>2
      <4>4. g[i] = s[i]
        BY <1>1, <1>2, <4>3
      <4> QED  BY <3>1, <4>4
    <3>2. CASE i # 1
      <4>1. i - 1 \in 1..n
        BY <1>1, <3>2
      <4> QED  BY <1>7, <3>2, <4>1
    <3> QED  BY <3>1, <3>2
  <2>2. Flattens(s, h)
    BY <2>1 DEF Flattens
  <2>3. FlattenSeq(s) = (CHOOSE f : Flattens(s, f))[n]
    BY <1>9 DEF FlattenSeq, Flattens
  <2>4. PICK f : Flattens(s, f) /\ FlattenSeq(s) = f[n]
    BY <2>2, <2>3
  <2>5. \A i \in 1..n : f[i] = IF i = 1 THEN s[i] ELSE f[i - 1] \o s[i]
    BY <2>4 DEF Flattens
  <2> DEFINE A == {i \in Nat : i + 1 <= n => f[i + 1] = g[i + 1]}
  <2>6. 0 \in A
    <3>1. 1 \in 1..n
      BY <1>1, <1>9
    <3>2. f[1] = s[1] /\ g[1] = s[1]
      <4>1. g[1 - 1] = <<>>
        BY <1>6
      <4>2. g[1] = g[1 - 1] \o s[1]
        BY <1>7, <3>1
      <4> QED  BY <1>1, <1>2, <2>5, <3>1, <4>1, <4>2
    <3> QED  BY <3>2
  <2>7. ASSUME NEW i \in Nat, i \in A PROVE i + 1 \in A
    <3> SUFFICES ASSUME (i + 1) + 1 <= n PROVE f[(i + 1) + 1] = g[(i + 1) + 1]
      OBVIOUS
    <3>1. (i + 1) + 1 \in 1..n /\ (i + 1) + 1 # 1 /\ ((i + 1) + 1) - 1 = i + 1 /\ i + 1 <= n
      BY <1>1
    <3>2. f[i + 1] = g[i + 1]
      BY <2>7, <3>1
    <3>3. f[(i + 1) + 1] = f[i + 1] \o s[(i + 1) + 1]
      BY <2>5, <3>1
    <3>4. g[(i + 1) + 1] = g[i + 1] \o s[(i + 1) + 1]
      BY <1>7, <3>1
    <3> QED  BY <3>2, <3>3, <3>4
  <2>8. n - 1 \in A
    <3> HIDE DEF A
    <3>1. n - 1 \in Nat
      BY <1>1, <1>9
    <3> QED  BY <2>6, <2>7, <3>1, SetInduction
  <2>9. f[n] = g[n]
    <3>1. (n - 1) + 1 = n /\ n <= n
      BY <1>1
    <3> QED  BY <2>8, <3>1
  <2> QED  BY <1>6, <1>7, <2>4, <2>9
<1> QED  BY <1>8, <1>9

LEMMA FlattenRunsOn ==
  ASSUME NEW X, Monoid(X), NEW s \in Seq(X), NEW q \in X
  PROVE  FlattenSeq(Append(s, q)) = FlattenSeq(s) \o q
<1> DEFINE t == Append(s, q)
           n == Len(s)
           F == [i \in 1..n |-> [p \in X |-> p \o s[i]]]
<1>1. /\ n \in Nat /\ t \in Seq(X) /\ Len(t) = n + 1 /\ t[n + 1] = q
      /\ \A i \in 1..n : t[i] = s[i] /\ s[i] \in X
  OBVIOUS
<1>2. PICK g : /\ \A i \in 0..n : g[i] \in X
               /\ g[0] = <<>>
               /\ \A i \in 1..n : g[i] = g[i - 1] \o s[i]
               /\ FlattenSeq(s) = g[n]
  BY FlattenRuns
<1> HIDE DEF t
<1>3. PICK h : /\ h[0] = <<>>
               /\ \A i \in 1..Len(t) : h[i] = h[i - 1] \o t[i]
               /\ FlattenSeq(t) = h[Len(t)]
  BY <1>1, FlattenRuns
<1>4. \A p, r \in X : p \o r \in X
  BY DEF Monoid
<1>5. F \in [1..n -> [X -> X]] /\ \A i \in 1..n : \A p \in X : F[i][p] = p \o s[i]
  BY <1>1, <1>4
<1>6. \A i \in 1..n : i - 1 \in 0..n /\ g[i - 1] \in X /\ g[i] = F[i][g[i - 1]]
  <2> TAKE i \in 1..n
  <2>1. i - 1 \in 0..n
    BY <1>1
  <2> QED  BY <1>2, <1>5, <2>1
<1>7. \A i \in 1..n : i \in 1..Len(t)
  BY <1>1
<1>8. \A i \in 1..n : h[i - 1] \in X => h[i] = F[i][h[i - 1]]
  BY <1>1, <1>3, <1>5, <1>7
<1>9. \A i \in 0..n : h[i] = g[i]
  <2>1. n \in Nat
    BY <1>1
  <2>2. Runs(g, X, n, F)
    BY <1>6 DEF Runs
  <2>6. Runs(h, X, n, F)
    BY <1>8 DEF Runs
  <2>3. \A i \in 0..n : g[i] \in X
    BY <1>2
  <2>4. h[0] = g[0]
    BY <1>2, <1>3
  <2>5. F \in [1..n -> [X -> X]]
    BY <1>5
  <2> HIDE DEF F, n
  <2> QED  BY ONLY <2>1, <2>2, <2>3, <2>4, <2>5, <2>6, RecursionUnique
<1>10. h[n + 1] = h[n] \o q
  <2>1. n + 1 \in 1..Len(t) /\ (n + 1) - 1 = n
    BY <1>1
  <2> QED  BY <1>1, <1>3, <2>1
<1>11. n \in 0..n
  BY <1>1
<1> QED  BY <1>1, <1>2, <1>3, <1>9, <1>10, <1>11 DEF t

LEMMA FlattenType ==
  ASSUME NEW T, NEW s \in Seq(Seq(T))
  PROVE  FlattenSeq(s) \in Seq(T)
<1> DEFINE X == Seq(T)
<1>1. Monoid(X)
  BY SeqIsMonoid
<1>2. s \in Seq(X) /\ Len(s) \in 0..Len(s)
  OBVIOUS
<1> HIDE DEF X
<1>3. PICK g : (\A i \in 0..Len(s) : g[i] \in X) /\ FlattenSeq(s) = g[Len(s)]
  BY <1>1, <1>2, FlattenRuns
<1> QED  BY <1>2, <1>3 DEF X

LEMMA FlattenAppend ==
  ASSUME NEW T, NEW s \in Seq(Seq(T)), NEW q \in Seq(T)
  PROVE  FlattenSeq(Append(s, q)) = FlattenSeq(s) \o q
<1> DEFINE X == Seq(T)
<1>1. Monoid(X)
  BY SeqIsMonoid
<1>2. s \in Seq(X) /\ q \in X
  OBVIOUS
<1> HIDE DEF X
<1> QED  BY <1>1, <1>2, FlattenRunsOn

-----------------------------------------------------------------------------
(* Lines.                                                                  *)

LEMMA EndedEmpty == Ended(<<>>) = <<>>
<1>1. [i \in DOMAIN <<>> |-> Append(<<>>[i], NL)] = <<>>
  OBVIOUS
<1> QED  BY <1>1, FlattenEmpty DEF Ended

LEMMA EndedAppend ==
  ASSUME NEW T, NL \in T, NEW ls \in Seq(Seq(T)), NEW l \in Seq(T)
  PROVE  Ended(ls) \in Seq(T) /\ Ended(Append(ls, l)) = Append(Ended(ls) \o l, NL)
<1> DEFINE L == Seq(T)
           e == [i \in DOMAIN ls |-> Append(ls[i], NL)]
           m == Append(ls, l)
           d == [i \in DOMAIN m |-> Append(m[i], NL)]
<1>1. \A p \in L : Append(p, NL) \in L
  OBVIOUS
<1>2. ls \in Seq(L) /\ l \in L
  OBVIOUS
<1>3. e \in Seq(L) /\ d = Append(e, Append(l, NL))
  <2> HIDE DEF L
  <2>1. e \in Seq(L) /\ Len(e) = Len(ls)
    <3>1. Len(ls) \in Nat /\ DOMAIN ls = 1..Len(ls) /\ \A i \in DOMAIN ls : Append(ls[i], NL) \in L
      BY <1>1, <1>2
    <3>2. e \in [1..Len(ls) -> L]
      BY <3>1
    <3> QED  BY <3>1, <3>2, SeqOfFunction
  <2>2. DOMAIN m = 1..(Len(ls) + 1) /\ m[Len(ls) + 1] = l /\ \A i \in 1..Len(ls) : m[i] = ls[i]
    BY <1>2
  <2>3. DOMAIN ls = 1..Len(ls) /\ Len(ls) \in Nat
    BY <1>2
  <2>4. d \in Seq(L) /\ Len(d) = Len(ls) + 1 /\ Append(e, Append(l, NL)) \in Seq(L)
    <3>1. m \in Seq(L)
      BY <1>2
    <3> HIDE DEF m
    <3>2. \A i \in DOMAIN m : Append(m[i], NL) \in L
      BY <1>1, <3>1
    <3>3. d \in Seq(L) /\ Len(d) = Len(m)
      <4>1. Len(m) \in Nat /\ DOMAIN m = 1..Len(m)
        BY <3>1
      <4>2. d \in [1..Len(m) -> L]
        BY <3>2, <4>1
      <4> QED  BY <4>1, <4>2, SeqOfFunction
    <3>4. Len(m) = Len(ls) + 1
      BY <1>2 DEF m
    <3> HIDE DEF e, d
    <3> QED  BY <1>1, <1>2, <2>1, <3>3, <3>4
  <2>5. Len(Append(e, Append(l, NL))) = Len(ls) + 1
    <3> HIDE DEF e
    <3> QED  BY <1>1, <1>2, <2>1
  <2>6. ASSUME NEW i \in 1..(Len(ls) + 1) PROVE d[i] = Append(e, Append(l, NL))[i]
    <3>1. d[i] = Append(m[i], NL)
      BY <2>2
    <3>2. CASE i = Len(ls) + 1
      <4> HIDE DEF e, d, m
      <4> QED  BY <1>1, <1>2, <2>1, <2>2, <2>3, <3>1, <3>2
    <3>3. CASE i \in 1..Len(ls)
      <4>1. e[i] = Append(ls[i], NL)
        BY <2>3, <3>3
      <4> HIDE DEF e, d, m
      <4> QED  BY <1>1, <1>2, <2>1, <2>2, <3>1, <3>3, <4>1
    <3> QED  BY <2>3, <3>2, <3>3
  <2> HIDE DEF e, d, m
  <2>7. Append(e, Append(l, NL)) \in Seq(L) /\ d \in Seq(L)
    BY <2>4
  <2> DEFINE a == Append(e, Append(l, NL))
  <2> HIDE DEF a
  <2>8. d = a
    BY <2>4, <2>5, <2>6, <2>7, SeqEqual DEF a
  <2> QED  BY <2>1, <2>8 DEF a
<1>4. Ended(ls) = FlattenSeq(e) /\ Ended(m) = FlattenSeq(d)
  BY DEF Ended
<1> HIDE DEF e, d
<1>5. e \in Seq(Seq(T)) /\ Append(l, NL) \in Seq(T)
  BY <1>1, <1>3
<1>6. FlattenSeq(e) \in Seq(T) /\ FlattenSeq(Append(e, Append(l, NL))) = FlattenSeq(e) \o Append(l, NL)
  BY <1>5, FlattenType, FlattenAppend
<1>7. \A p \in Seq(T) : p \o Append(l, NL) = Append(p \o l, NL)
  OBVIOUS
<1> QED  BY <1>3, <1>4, <1>6, <1>7

LEMMA EndedType ==
  ASSUME NEW T, NL \in T, NEW ls \in Seq(Seq(T))
  PROVE  Ended(ls) \in Seq(T)
<1>1. <<>> \in Seq(T)
  OBVIOUS
<1> QED  BY <1>1, EndedAppend

LEMMA JoinedEnded ==
  ASSUME NEW T, NL \in T, NEW ls \in Seq(Seq(T)), ls # <<>>
  PROVE  JoinLines(ls) \in Seq(T) /\ Append(JoinLines(ls), NL) = Ended(ls)
<1> DEFINE L == Seq(T)
<1>1. ls \in Seq(L)
  OBVIOUS
<1> HIDE DEF L
<1>2. PICK f \in Seq(L), l \in L : ls = Append(f, l)
  BY <1>1, SequenceEmptyOrAppend
<1>3. Ended(f) \in Seq(T) /\ Ended(ls) = Append(Ended(f) \o l, NL) /\ l \in Seq(T)
  BY <1>2, EndedAppend DEF L
<1> DEFINE p == Ended(f) \o l
<1>4. p \in Seq(T)
  BY <1>3
<1> HIDE DEF p
<1>5. Front(Append(p, NL)) = p
  BY <1>4 DEF Front
<1> QED  BY <1>3, <1>4, <1>5 DEF JoinLines, p

(* The lines after one more character.                                     *)
SplitOn(ls, c) == IF c = NL THEN Append(ls, <<>>) ELSE [ls EXCEPT ![Len(ls)] = Append(@, c)]

Splits(t, f) == f = [i \in 0..Len(t) |-> IF i = 0 THEN << <<>> >> ELSE SplitOn(f[i - 1], t[i])]

LinesAre(T, t, ls) ==
  t \in Seq(T) /\ ls \in Seq(Seq(T)) /\ ls # <<>> /\ Ended(ls) = Append(t, NL)

LEMMA SplitStep ==
  ASSUME NEW T, NL \in T, NEW p, NEW c \in T, NEW ls, LinesAre(T, p, ls)
  PROVE  LinesAre(T, Append(p, c), SplitOn(ls, c))
<1> DEFINE L == Seq(T)
<1>0. p \in Seq(T) /\ ls \in Seq(Seq(T)) /\ ls # <<>> /\ Ended(ls) = Append(p, NL) /\ Append(p, c) \in Seq(T)
  BY DEF LinesAre
<1>1. ls \in Seq(L) /\ <<>> \in L /\ \A q \in L : Append(q, c) \in L
  BY <1>0
<1>2. CASE c = NL
  <2>1. SplitOn(ls, c) = Append(ls, <<>>)
    BY <1>2 DEF SplitOn
  <2>2. Ended(ls) \in Seq(T) /\ Ended(Append(ls, <<>>)) = Append(Ended(ls) \o <<>>, NL)
    BY <1>1, EndedAppend
  <2>3. Ended(ls) \o <<>> = Ended(ls)
    BY <2>2
  <2>4. Append(ls, <<>>) \in Seq(L) /\ Append(ls, <<>>) # <<>>
    <3> HIDE DEF L
    <3> QED  BY <1>1, AppendProperties
  <2> QED  BY <1>0, <1>2, <2>1, <2>2, <2>3, <2>4 DEF LinesAre
<1>3. CASE c # NL
  <2> HIDE DEF L
  <2>1. PICK f \in Seq(L), l \in L : ls = Append(f, l)
    BY <1>0, <1>1, SequenceEmptyOrAppend
  <2>2. Append(l, c) \in L
    BY <1>1
  <2> DEFINE a == Append(l, c)
  <2>3. SplitOn(ls, c) = [ls EXCEPT ![Len(ls)] = Append(ls[Len(ls)], c)]
    BY <1>3 DEF SplitOn
  <2>4. ls[Len(ls)] = l /\ Len(ls) = Len(f) + 1 /\ Len(f) \in Nat
    BY <2>1
  <2>5. SplitOn(ls, c) = [ls EXCEPT ![Len(f) + 1] = a]
    BY <2>3, <2>4
  <2> HIDE DEF a
  <2>6. [Append(f, l) EXCEPT ![Len(f) + 1] = a] = Append(f, a)
    <3>1. a \in L
      BY <2>2 DEF a
    <3> QED  BY <3>1, ReplaceLast
  <2>7. SplitOn(ls, c) = Append(f, a) /\ a \in L
    BY <2>1, <2>2, <2>5, <2>6 DEF a
  <2>8. Append(f, a) \in Seq(L) /\ Append(f, a) # <<>>
    BY <2>7
  <2>9. Ended(f) \in Seq(T) /\ l \in Seq(T) /\ Ended(ls) = Append(Ended(f) \o l, NL)
    BY <2>1, EndedAppend DEF L
  <2>10. Ended(Append(f, a)) = Append(Ended(f) \o a, NL)
    BY <2>7, EndedAppend DEF L
  <2>11. Ended(f) \o l = p
    <3> DEFINE q == Ended(f) \o l
    <3>1. q \in Seq(T)
      BY <2>9
    <3> HIDE DEF q
    <3>2. Append(q, NL) = Append(p, NL)
      BY <1>0, <2>9 DEF q
    <3>3. q = p
      BY <1>0, <3>1, <3>2, AppendInjective
    <3> QED  BY <3>3 DEF q
  <2>12. \A u \in Seq(T) : u \o Append(l, c) = Append(u \o l, c)
    BY <2>9
  <2>13. Ended(f) \o a = Append(p, c)
    BY <2>9, <2>11, <2>12 DEF a
  <2> QED  BY <1>0, <2>7, <2>8, <2>10, <2>13 DEF L, LinesAre
<1> QED  BY <1>2, <1>3

LEMMA SplitEnded ==
  ASSUME NEW T, NL \in T, NEW t \in Seq(T)
  PROVE  LinesAre(T, t, SplitLines(t))
<1> DEFINE n == Len(t)
           X == {ls \in Seq(Seq(T)) : \E p \in Seq(T) : LinesAre(T, p, ls)}
           e == << <<>> >>
           F == [i \in 1..n |-> [ls \in X |-> SplitOn(ls, t[i])]]
<1>1. n \in Nat /\ \A i \in 1..n : t[i] \in T
  OBVIOUS
<1>2. LinesAre(T, <<>>, e)
  <2>1. <<>> \in Seq(T) /\ <<>> \in Seq(Seq(T)) /\ e = Append(<<>>, <<>>)
    OBVIOUS
  <2> HIDE DEF e
  <2>2. Ended(e) = Append(Ended(<<>>) \o <<>>, NL)
    BY <2>1, EndedAppend
  <2>3. <<>> \o <<>> = <<>>
    OBVIOUS
  <2>4. e \in Seq(Seq(T)) /\ e # <<>>
    BY <2>1 DEF e
  <2> QED  BY <2>1, <2>2, <2>3, <2>4, EndedEmpty DEF LinesAre
<1>3. ASSUME NEW ls \in X, NEW c \in T PROVE SplitOn(ls, c) \in X
  <2>1. PICK p : LinesAre(T, p, ls)
    OBVIOUS
  <2>2. LinesAre(T, Append(p, c), SplitOn(ls, c))
    BY <2>1, SplitStep
  <2> QED  BY <2>2 DEF LinesAre
<1>4. e \in X
  BY <1>2 DEF LinesAre
<1> HIDE DEF X, e
<1>5. F \in [1..n -> [X -> X]] /\ \A i \in 1..n : \A ls \in X : F[i][ls] = SplitOn(ls, t[i])
  BY <1>1, <1>3
<1>6. PICK g : g \in [0..n -> X] /\ g[0] = e /\ \A i \in 1..n : g[i] = F[i][g[i - 1]]
  <2>1. n \in Nat
    BY <1>1
  <2>2. F \in [1..n -> [X -> X]]
    BY <1>5
  <2> HIDE DEF F, n
  <2> QED  BY ONLY <1>4, <2>1, <2>2, RecursionExists
<1> HIDE DEF F
<1>7. Splits(t, g)
  <2>1. ASSUME NEW i \in 0..n PROVE g[i] = IF i = 0 THEN e ELSE SplitOn(g[i - 1], t[i])
    <3>1. CASE i # 0
      <4>1. i \in 1..n /\ i - 1 \in 0..n
        BY <1>1, <3>1
      <4>2. g[i - 1] \in X
        BY <1>6, <4>1
      <4> QED  BY <1>5, <1>6, <3>1, <4>1, <4>2
    <3> QED  BY <1>6, <3>1
  <2>2. g = [i \in 0..n |-> IF i = 0 THEN e ELSE SplitOn(g[i - 1], t[i])]
    BY <1>6, <2>1
  <2> QED  BY <2>2 DEF Splits, e
<1>8. PICK f : Splits(t, f) /\ SplitLines(t) = f[n]
  <2>1. SplitLines(t) = (CHOOSE f : Splits(t, f))[n]
    BY DEF SplitLines, Splits, SplitOn
  <2> QED  BY <1>7, <2>1
<1>9. \A i \in 0..n : f[i] = IF i = 0 THEN e ELSE SplitOn(f[i - 1], t[i])
  BY <1>8 DEF Splits, e
<1> DEFINE Good(i) == LinesAre(T, SubSeq(t, 1, i), f[i])
           A == {i \in Nat : i <= n => Good(i)}
<1>10. 0 \in A
  <2>1. f[0] = e /\ SubSeq(t, 1, 0) = <<>>
    BY <1>1, <1>9
  <2> QED  BY <1>2, <2>1
<1>11. ASSUME NEW i \in Nat, i \in A PROVE i + 1 \in A
  <2> SUFFICES ASSUME i + 1 <= n PROVE Good(i + 1)
    OBVIOUS
  <2>1. i + 1 \in 0..n /\ i + 1 # 0 /\ (i + 1) - 1 = i /\ i <= n /\ i + 1 \in 1..n
    BY <1>1
  <2>2. Good(i)
    BY <1>11, <2>1
  <2>3. f[i + 1] = SplitOn(f[i], t[i + 1])
    BY <1>9, <2>1
  <2>4. t[i + 1] \in T /\ SubSeq(t, 1, i + 1) = Append(SubSeq(t, 1, i), t[i + 1])
    BY PrefixStep
  <2>5. LinesAre(T, Append(SubSeq(t, 1, i), t[i + 1]), SplitOn(f[i], t[i + 1]))
    BY <2>2, <2>4, SplitStep
  <2> QED  BY <2>3, <2>4, <2>5
<1>12. n \in A
  <2>1. n \in Nat
    BY <1>1
  <2> HIDE DEF A, n
  <2> QED  BY <1>10, <1>11, <2>1, SetInduction
<1>13. SubSeq(t, 1, n) = t
  BY SubSeqFull
<1>14. Good(n)
  <2>1. n <= n
    BY <1>1
  <2> QED  BY <1>12, <2>1
<1> QED  BY <1>8, <1>13, <1>14

LEMMA AppendIs ==
  ASSUME NEW L, NEW e \in Seq(L), NEW x \in L, NEW d \in Seq(L), Len(d) = Len(e) + 1,
         \A i \in 1..Len(e) : d[i] = e[i], d[Len(e) + 1] = x
  PROVE  d = Append(e, x)
<1> DEFINE a == Append(e, x)
<1>1. /\ a \in Seq(L) /\ Len(a) = Len(e) + 1 /\ a[Len(e) + 1] = x /\ Len(e) \in Nat
      /\ \A i \in 1..Len(e) : a[i] = e[i]
  OBVIOUS
<1> HIDE DEF a
<1>2. \A i \in 1..Len(d) : d[i] = a[i]
  BY <1>1
<1>3. d = a
  BY <1>1, <1>2, SeqEqual
<1> QED  BY <1>3 DEF a

LEMMA EndedSplit ==
  ASSUME NEW T, NL \in T, NEW ls \in Seq(Seq(T)), NEW from \in Nat, NEW to \in Nat,
         from <= to, to <= Len(ls)
  PROVE  /\ Ended(SubSeq(ls, from + 1, to)) \in Seq(T)
         /\ Ended(SubSeq(ls, 1, from)) \in Seq(T)
         /\ Ended(SubSeq(ls, 1, to)) = Ended(SubSeq(ls, 1, from)) \o Ended(SubSeq(ls, from + 1, to))
<1> DEFINE L == Seq(T)
           part(a, b) == SubSeq(ls, a, b)
           Holds(k) == Ended(part(1, from + k)) = Ended(part(1, from)) \o Ended(part(from + 1, from + k))
           A == {k \in Nat : from + k <= Len(ls) => Holds(k)}
<1>1. ls \in Seq(L) /\ Len(ls) \in Nat
  OBVIOUS
<1> HIDE DEF L
<1>2. \A i \in 1..Len(ls) : ls[i] \in L
  BY <1>1
<1>3. ASSUME NEW a \in Nat, NEW b \in Nat, a + 1 <= Len(ls) + 1, b <= Len(ls)
      PROVE  part(a + 1, b) \in Seq(L)
  <2>1. \A i \in (a + 1)..b : ls[i] \in L
    BY <1>1, <1>2, <1>3
  <2> QED  BY <2>1, SubSeqProperties
<1>4. ASSUME NEW a \in Nat, NEW b \in Nat, a <= b, b + 1 <= Len(ls)
      PROVE  part(a + 1, b + 1) = Append(part(a + 1, b), ls[b + 1])
  <2>1. a + 1 \in 1..Len(ls) /\ b + 1 \in (a + 1)..Len(ls) /\ (b + 1) - 1 = b /\ b + 1 \in 1..Len(ls)
    BY <1>1, <1>4
  <2>2. part(a + 1, b + 1) = part(a + 1, b) \o <<ls[b + 1]>>
    BY <1>1, <2>1, SubSeqRecursiveSecond
  <2>3. part(a + 1, b) \in Seq(L)
    BY <1>1, <1>3, <1>4
  <2> HIDE DEF part
  <2> QED  BY <1>2, <2>1, <2>2, <2>3, AppendIsConcat
<1>5. 0 \in A
  <2>1. from + 0 = from /\ part(from + 1, from) = <<>>
    BY SubSeqEmpty
  <2>2. part(0 + 1, from) \in Seq(L)
    BY <1>1, <1>3
  <2>3. Ended(part(0 + 1, from)) \in Seq(T)
    <3> HIDE DEF part
    <3> QED  BY <2>2, EndedType DEF L
  <2>4. Ended(part(1, from)) \o <<>> = Ended(part(1, from))
    BY <2>3
  <2> QED  BY <2>1, <2>4, EndedEmpty
<1>6. ASSUME NEW k \in Nat, k \in A PROVE k + 1 \in A
  <2> SUFFICES ASSUME from + (k + 1) <= Len(ls) PROVE Holds(k + 1)
    OBVIOUS
  <2> DEFINE b == from + k
             x == ls[b + 1]
  <2>1. b \in Nat /\ from + (k + 1) = b + 1 /\ from <= b /\ b <= Len(ls) /\ b + 1 <= Len(ls) /\ 0 <= b
    BY <1>1
  <2>2. Holds(k)
    BY <1>6, <2>1
  <2>3. part(0 + 1, b + 1) = Append(part(0 + 1, b), x) /\ part(from + 1, b + 1) = Append(part(from + 1, b), x)
    BY <1>4, <2>1
  <2>4. x \in L
    BY <1>1, <1>2, <2>1
  <2>5. part(0 + 1, b) \in Seq(L) /\ part(from + 1, b) \in Seq(L) /\ part(0 + 1, from) \in Seq(L)
    BY <1>1, <1>3, <2>1
  <2> DEFINE p == part(0 + 1, b)
             q == part(from + 1, b)
             h == part(0 + 1, from)
  <2> HIDE DEF part, x, p, q, h
  <2>6. /\ Ended(p) \in Seq(T) /\ Ended(Append(p, x)) = Append(Ended(p) \o x, NL)
        /\ Ended(q) \in Seq(T) /\ Ended(Append(q, x)) = Append(Ended(q) \o x, NL)
        /\ Ended(h) \in Seq(T) /\ x \in Seq(T)
    BY <2>4, <2>5, EndedAppend DEF L, p, q, h
  <2>7. Ended(p) = Ended(h) \o Ended(q)
    BY <2>2, <2>1 DEF p, q, h
  <2>8. Append((Ended(h) \o Ended(q)) \o x, NL) = Ended(h) \o Append(Ended(q) \o x, NL)
    <3> DEFINE u == Ended(h)
               v == Ended(q)
               w == v \o x
    <3>1. u \in Seq(T) /\ v \in Seq(T) /\ x \in Seq(T)
      BY <2>6
    <3>2. w \in Seq(T) /\ <<NL>> \in Seq(T)
      BY <2>6
    <3> HIDE DEF u, v
    <3>3. (u \o v) \o x = u \o w
      BY ONLY <3>1
    <3> HIDE DEF w
    <3>4. Append(u \o w, NL) = (u \o w) \o <<NL>> /\ Append(w, NL) = w \o <<NL>>
      <4>1. u \o w \in Seq(T)
        BY <3>1, <3>2
      <4> QED  BY <3>2, <4>1, AppendIsConcat
    <3>5. (u \o w) \o <<NL>> = u \o (w \o <<NL>>)
      BY ONLY <3>1, <3>2
    <3> QED  BY <3>3, <3>4, <3>5 DEF u, v, w
  <2>9. Ended(Append(p, x)) = Ended(h) \o Ended(Append(q, x))
    BY <2>6, <2>7, <2>8
  <2>10. 0 + 1 = 1
    OBVIOUS
  <2>11. Ended(part(1, b + 1)) = Ended(part(1, from)) \o Ended(part(from + 1, b + 1))
    BY <2>3, <2>9, <2>10 DEF p, q, h
  <2> QED  BY <2>1, <2>11
<1>7. to - from \in A
  <2>1. to - from \in Nat
    OBVIOUS
  <2> HIDE DEF A
  <2> QED  BY <1>5, <1>6, <2>1, SetInduction
<1>8. from + (to - from) = to
  OBVIOUS
<1>9. part(from + 1, to) \in Seq(L) /\ part(0 + 1, from) \in Seq(L)
  BY <1>1, <1>3
<1>10. Ended(part(from + 1, to)) \in Seq(T) /\ Ended(part(0 + 1, from)) \in Seq(T)
  <2> HIDE DEF part
  <2> QED  BY <1>9, EndedType DEF L
<1> QED  BY <1>7, <1>8, <1>10

-----------------------------------------------------------------------------
(* Pieces.  What they stand for in one of the texts: all but those of one  *)
(* kind, "Add" for the old text and "Rem" for the new.                     *)

Kinds == {"Same", "Rem", "Add"}
PiecesOf(T) == [kind : Kinds, text : Seq(T)]

Lined(x, out) == IF x.kind = out THEN <<>> ELSE Append(x.text, NL)
TextOf(pieces, out) == FlattenSeq([i \in DOMAIN pieces |-> Lined(pieces[i], out)])

LEMMA LinedType ==
  ASSUME NEW T, NL \in T, NEW x \in PiecesOf(T), NEW out
  PROVE  Lined(x, out) \in Seq(T)
BY DEF PiecesOf, Lined

LEMMA TextOfEmpty == \A out : TextOf(<<>>, out) = <<>>
<1> TAKE out
<1>1. [i \in DOMAIN <<>> |-> Lined(<<>>[i], out)] = <<>>
  OBVIOUS
<1> QED  BY <1>1, FlattenEmpty DEF TextOf

LEMMA TextOfAppend ==
  ASSUME NEW T, NL \in T, NEW p \in Seq(PiecesOf(T)), NEW x \in PiecesOf(T), NEW out
  PROVE  /\ TextOf(p, out) \in Seq(T)
         /\ TextOf(Append(p, x), out) = TextOf(p, out) \o Lined(x, out)
<1> DEFINE L == Seq(T)
           P == PiecesOf(T)
           m == Append(p, x)
           e == [i \in DOMAIN p |-> Lined(p[i], out)]
           d == [i \in DOMAIN m |-> Lined(m[i], out)]
<1>1. \A y \in P : Lined(y, out) \in L
  BY LinedType
<1> HIDE DEF L, P
<1>2. p \in Seq(P) /\ x \in P
  BY DEF P
<1>3. /\ m \in Seq(P) /\ Len(m) = Len(p) + 1 /\ m[Len(p) + 1] = x /\ \A i \in 1..Len(p) : m[i] = p[i]
      /\ Len(p) \in Nat /\ DOMAIN p = 1..Len(p) /\ \A i \in 1..Len(p) : p[i] \in P
  BY <1>2
<1> HIDE DEF m
<1>4. DOMAIN m = 1..Len(m) /\ \A i \in 1..Len(m) : m[i] \in P
  BY <1>3
<1>5. e \in Seq(L) /\ Len(e) = Len(p)
  <2>1. e \in [1..Len(p) -> L]
    BY <1>1, <1>3
  <2> QED  BY <1>3, <2>1, SeqOfFunction
<1>6. d \in Seq(L) /\ Len(d) = Len(m)
  <2>1. d \in [1..Len(m) -> L]
    BY <1>1, <1>4
  <2>2. Len(m) \in Nat
    BY <1>3
  <2> QED  BY <2>1, <2>2, SeqOfFunction
<1>7. /\ \A i \in 1..Len(p) : d[i] = e[i]
      /\ d[Len(p) + 1] = Lined(x, out)
  BY <1>3, <1>4
<1>8. TextOf(p, out) = FlattenSeq(e) /\ TextOf(m, out) = FlattenSeq(d)
  BY DEF TextOf
<1> HIDE DEF e, d
<1>9. d = Append(e, Lined(x, out))
  BY <1>1, <1>2, <1>3, <1>5, <1>6, <1>7, AppendIs
<1>10. e \in Seq(Seq(T)) /\ Lined(x, out) \in Seq(T)
  BY <1>1, <1>2, <1>5 DEF L
<1> QED  BY <1>8, <1>9, <1>10, FlattenType, FlattenAppend DEF m

(* No piece but a common one stands behind one of its kind.                *)
Alternate(p) == \A i \in 2..Len(p) : p[i].kind # "Same" => p[i - 1].kind # p[i].kind

Ends(p, kinds) == p = <<>> \/ p[Len(p)].kind \in kinds

(* What one more piece keeps of the order of the kinds.                    *)
InOrder(p, q, kind) ==
  /\ Alternate(p) /\ (kind = "Same" \/ Ends(p, Kinds \ {kind})) => Alternate(q)
  /\ q = p \/ Ends(q, {kind})

(* One more piece, or none: lines from + 1 to to of ls.                    *)
WithPiece(p, kind, ls, from, to) == p \o Piece(kind, ls, from, to)

AddsLines(T, p, q, kind, new) ==
  /\ q \in Seq(PiecesOf(T))
  /\ \A out : TextOf(q, out) = IF kind = out THEN TextOf(p, out) ELSE TextOf(p, out) \o new

LEMMA OnePiece ==
  ASSUME NEW T, NL \in T, NEW p \in Seq(PiecesOf(T)), NEW ls \in Seq(Seq(T)), NEW kind \in Kinds,
         NEW from \in Nat, NEW to \in Nat, from <= to, to <= Len(ls)
  PROVE  LET q == WithPiece(p, kind, ls, from, to)
         IN /\ AddsLines(T, p, q, kind, Ended(SubSeq(ls, from + 1, to)))
            /\ InOrder(p, q, kind)
            /\ from < to => Ends(q, {kind})
<1> DEFINE q == p \o Piece(kind, ls, from, to)
           part == SubSeq(ls, from + 1, to)
           new == Ended(part)
           P == PiecesOf(T)
<1>1. new \in Seq(T)
  BY EndedSplit
<1>2. p \in Seq(P)
  OBVIOUS
<1>3. CASE from = to
  <2>1. Piece(kind, ls, from, to) = <<>> /\ part = <<>>
    BY <1>3, SubSeqEmpty DEF Piece
  <2>2. q = p
    <3> HIDE DEF P
    <3> QED  BY <1>2, <2>1
  <2>3. new = <<>>
    BY <2>1, EndedEmpty
  <2>4. ASSUME NEW out PROVE TextOf(p, out) = TextOf(p, out) \o <<>>
    <3>1. PICK x : x \in PiecesOf(T)
      <4>1. [kind |-> "Same", text |-> <<>>] \in PiecesOf(T)
        BY DEF PiecesOf, Kinds
      <4> QED  BY <4>1
    <3>2. TextOf(p, out) \in Seq(T)
      BY <3>1, TextOfAppend
    <3> QED  BY <3>2
  <2> HIDE DEF q, new, P
  <2>5. \A out : TextOf(q, out) = IF kind = out THEN TextOf(p, out) ELSE TextOf(p, out) \o new
    BY <2>2, <2>3, <2>4
  <2>6. q \in Seq(P) /\ (Alternate(p) => Alternate(q)) /\ ~(from < to)
    BY <1>2, <1>3, <2>2
  <2> QED  BY <1>1, <2>2, <2>5, <2>6 DEF P, q, new, AddsLines, InOrder, WithPiece
<1>4. CASE from # to
  <2> DEFINE text == JoinLines(part)
             x == [kind |-> kind, text |-> text]
  <2>1. Piece(kind, ls, from, to) = <<x>>
    BY <1>4 DEF Piece
  <2>2. part \in Seq(Seq(T)) /\ part # <<>>
    <3> DEFINE L == Seq(T)
    <3>1. ls \in Seq(L)
      OBVIOUS
    <3> HIDE DEF L
    <3>2. \A i \in (from + 1)..to : ls[i] \in L
      BY <3>1
    <3>3. part \in Seq(L) /\ Len(part) = to - (from + 1) + 1
      BY <1>4, <3>2, SubSeqProperties
    <3>4. Len(part) > 0
      BY <1>4, <3>3
    <3> HIDE DEF part
    <3>5. part # <<>>
      BY <3>3, <3>4
    <3> QED  BY <3>3, <3>5 DEF L
  <2>3. text \in Seq(T) /\ Append(text, NL) = new
    <3> HIDE DEF part
    <3> QED  BY <2>2, JoinedEnded
  <2>4. x \in PiecesOf(T)
    <3> HIDE DEF text
    <3> QED  BY <2>3 DEF PiecesOf
  <2>5. x.kind = kind /\ \A out : Lined(x, out) = IF kind = out THEN <<>> ELSE new
    BY <2>3 DEF Lined
  <2> HIDE DEF x, P
  <2>6. q = Append(p, x) /\ x \in P
    BY <1>2, <2>1, <2>4, AppendIsConcat DEF P
  <2> HIDE DEF q, new
  <2>7. q \in Seq(P) /\ q # <<>> /\ Len(q) = Len(p) + 1 /\ q[Len(p) + 1] = x
        /\ Len(p) \in Nat /\ \A i \in 1..Len(p) : q[i] = p[i]
    BY <1>2, <2>6, AppendProperties
  <2>8. ASSUME NEW out
        PROVE  TextOf(q, out) = IF kind = out THEN TextOf(p, out) ELSE TextOf(p, out) \o new
    <3>1. TextOf(p, out) \in Seq(T) /\ TextOf(q, out) = TextOf(p, out) \o Lined(x, out)
      BY <2>4, <2>6, TextOfAppend
    <3>2. TextOf(p, out) \o <<>> = TextOf(p, out)
      BY <3>1
    <3> QED  BY <2>5, <3>1, <3>2
  <2>9. Ends(q, {kind})
    BY <2>5, <2>7 DEF Ends
  <2>10. ASSUME Alternate(p), kind = "Same" \/ Ends(p, Kinds \ {kind})
         PROVE  Alternate(q)
    <3> SUFFICES ASSUME NEW i \in 2..Len(q), q[i].kind # "Same"
                 PROVE  q[i - 1].kind # q[i].kind
      BY DEF Alternate
    <3>1. i \in Nat /\ (i = Len(p) + 1 \/ i \in 2..Len(p)) /\ i - 1 \in 1..Len(p)
      BY <2>7
    <3>2. CASE i = Len(p) + 1
      <4>1. q[i].kind = kind /\ i - 1 = Len(p)
        BY <2>5, <2>7, <3>1, <3>2
      <4>2. p # <<>>
        BY <3>1
      <4>3. p[Len(p)].kind \in Kinds \ {kind}
        BY <2>10, <4>1, <4>2 DEF Ends
      <4> QED  BY <2>7, <3>1, <4>1, <4>3
    <3>3. CASE i \in 2..Len(p)
      <4>1. i \in 1..Len(p)
        BY <3>3
      <4> QED  BY <2>7, <2>10, <3>1, <3>3, <4>1 DEF Alternate
    <3> QED  BY <3>1, <3>2, <3>3
  <2> QED  BY <1>1, <2>7, <2>8, <2>9, <2>10 DEF P, q, new, AddsLines, InOrder, WithPiece
<1> QED  BY <1>3, <1>4

-----------------------------------------------------------------------------
(* The merge.                                                              *)

LEMMA MaxIs ==
  ASSUME NEW n \in Nat, NEW S, S \subseteq 0..n, S # {}
  PROVE  Max(S) \in S /\ \A y \in S : Max(S) >= y
<1>1. \E x \in S : \A y \in S : x >= y
  BY GreatestNumber
<1> QED  BY <1>1 DEF Max

LEMMA MinIs ==
  ASSUME NEW S, S \subseteq Nat, S # {}
  PROVE  Min(S) \in S /\ \A y \in S : Min(S) <= y
<1>1. \E x \in S : \A y \in S : x <= y
  BY LeastNumber
<1> QED  BY <1>1 DEF Min

StateOK(l, r, c, s) == s.l \in 0..Len(l) /\ s.r \in 0..Len(r) /\ s.c \in 0..Len(c)

LEMMA AlikeIs ==
  ASSUME NEW l, NEW r, NEW c, NEW s, Len(l) \in Nat, Len(r) \in Nat, Len(c) \in Nat,
         StateOK(l, r, c, s)
  PROVE  LET same == Alike(l, r, c, s)
         IN /\ same \in Nat
            /\ s.l + same <= Len(l) /\ s.r + same <= Len(r) /\ s.c + same <= Len(c)
            /\ \A i \in 1..same : l[s.l + i] = c[s.c + i] /\ r[s.r + i] = c[s.c + i]
            /\ s.l + same < Len(l) /\ s.r + same < Len(r) /\ s.c + same < Len(c) =>
                 l[s.l + same + 1] # c[s.c + same + 1] \/ r[s.r + same + 1] # c[s.c + same + 1]
<1> DEFINE M == {Len(l) - s.l, Len(r) - s.r, Len(c) - s.c}
           b == Min(M)
           Equal(i) == l[s.l + i] = c[s.c + i] /\ r[s.r + i] = c[s.c + i]
           S == {n \in 0..b : \A i \in 1..n : Equal(i)}
           same == Alike(l, r, c, s)
<1>0. s.l \in Nat /\ s.r \in Nat /\ s.c \in Nat
  BY DEF StateOK
<1>1. Len(l) - s.l \in Nat /\ Len(r) - s.r \in Nat /\ Len(c) - s.c \in Nat
  BY DEF StateOK
<1>2. b \in M /\ b <= Len(l) - s.l /\ b <= Len(r) - s.r /\ b <= Len(c) - s.c
  <2>1. M \subseteq Nat /\ M # {}
    BY <1>1
  <2>2. b \in M /\ \A y \in M : b <= y
    <3> HIDE DEF M
    <3> QED  BY <2>1, MinIs
  <2> QED  BY <2>2
<1>3. b \in Nat
  <2> HIDE DEF b
  <2> QED  BY <1>1, <1>2
<1>4. same = Max(S)
  BY DEF Alike
<1> HIDE DEF b, M
<1>5. same \in S /\ \A y \in S : same >= y
  <2>1. S \subseteq 0..b
    OBVIOUS
  <2>2. 0 \in S
    BY <1>3
  <2> HIDE DEF S
  <2> QED  BY <1>3, <1>4, <2>1, <2>2, MaxIs
<1> HIDE DEF same
<1>6. same \in Nat /\ same <= b /\ \A i \in 1..same : Equal(i)
  BY <1>3, <1>5
<1>10. same \in Nat /\ same <= b
  BY <1>6
<1>7. s.l + same <= Len(l) /\ s.r + same <= Len(r) /\ s.c + same <= Len(c)
  <2>1. b <= Len(l) - s.l /\ b <= Len(r) - s.r /\ b <= Len(c) - s.c
    BY <1>2
  <2>2. Len(l) \in Nat /\ Len(r) \in Nat /\ Len(c) \in Nat
    OBVIOUS
  <2>3. \A a, n, k, m \in Nat : n <= k /\ k <= m - a => a + n <= m
    OBVIOUS
  <2> QED  BY ONLY <1>0, <1>3, <1>10, <2>1, <2>2, <2>3
<1>8. ASSUME s.l + same < Len(l), s.r + same < Len(r), s.c + same < Len(c), Equal(same + 1)
      PROVE  FALSE
  <2>1. same + 1 <= b
    <3>1. b = Len(l) - s.l \/ b = Len(r) - s.r \/ b = Len(c) - s.c
      BY <1>2 DEF M
    <3>2. s.l + same < Len(l) /\ s.r + same < Len(r) /\ s.c + same < Len(c)
      BY <1>8
    <3> QED  BY <1>0, <1>10, <3>1, <3>2
  <2> HIDE DEF Equal
  <2>2. \A i \in 1..(same + 1) : Equal(i)
    <3>1. \A i \in 1..(same + 1) : i \in 1..same \/ i = same + 1
      BY <1>6
    <3> QED  BY <1>6, <1>8, <3>1
  <2>3. same + 1 \in 0..b
    BY <1>3, <1>6, <2>1
  <2>4. same + 1 \in S
    BY <2>2, <2>3
  <2> HIDE DEF S
  <2>5. same >= same + 1
    BY <1>5, <2>4
  <2> QED  BY <1>6, <2>5
<1>9. s.l + (same + 1) = s.l + same + 1 /\ s.r + (same + 1) = s.r + same + 1 /\ s.c + (same + 1) = s.c + same + 1
  BY ONLY <1>0, <1>10
<1> QED  BY <1>6, <1>7, <1>8, <1>9 DEF same

LEMMA SkipIs ==
  ASSUME NEW ls, NEW n, NEW c, NEW taken, Len(ls) \in Nat, Len(c) \in Nat,
         n \in 0..Len(ls), taken \in 0..Len(c)
  PROVE  LET m == Skip(ls, n, c, taken)
         IN /\ m \in Nat /\ n <= m /\ m <= Len(ls)
            /\ taken # Len(c) => \A i \in (n + 1)..m : ls[i] # c[taken + 1]
            /\ taken = Len(c) => m = Len(ls)
            /\ m < Len(ls) => taken < Len(c) /\ ls[m + 1] = c[taken + 1]
<1> DEFINE Passed(i) == taken = Len(c) \/ ls[i] # c[taken + 1]
           S == {m \in n..Len(ls) : \A i \in (n + 1)..m : Passed(i)}
           m == Skip(ls, n, c, taken)
<1>1. m \in S /\ \A y \in S : m >= y
  <2>1. S \subseteq 0..Len(ls)
    OBVIOUS
  <2>2. n \in S
    OBVIOUS
  <2>3. m = Max(S)
    BY DEF Skip
  <2> HIDE DEF S, m
  <2> QED  BY <2>1, <2>2, <2>3, MaxIs
<1> HIDE DEF m
<1>2. m \in Nat /\ n <= m /\ m <= Len(ls) /\ \A i \in (n + 1)..m : Passed(i)
  BY <1>1
<1>3. taken = Len(c) => m = Len(ls)
  <2> SUFFICES ASSUME taken = Len(c) PROVE m = Len(ls)
    OBVIOUS
  <2>1. Len(ls) \in S
    OBVIOUS
  <2>2. m >= Len(ls)
    <3> HIDE DEF S
    <3> QED  BY <1>1, <2>1
  <2> QED  BY <1>2, <2>2
<1>4. ASSUME m < Len(ls), Passed(m + 1) PROVE FALSE
  <2>1. m + 1 \in n..Len(ls) /\ \A i \in (n + 1)..(m + 1) : i \in (n + 1)..m \/ i = m + 1
    BY <1>2, <1>4
  <2> HIDE DEF Passed
  <2>2. m + 1 \in S
    BY <1>2, <1>4, <2>1
  <2>3. m >= m + 1
    <3> HIDE DEF S
    <3> QED  BY <1>1, <2>2
  <2> QED  BY <1>2, <2>3
<1>5. m < Len(ls) => taken < Len(c) /\ ls[m + 1] = c[taken + 1]
  BY <1>4
<1> QED  BY <1>2, <1>3, <1>5 DEF m

(* f tells where the elements of c are in ls,                              *)
Embeds(f, c, ls) ==
  /\ \A i \in 1..Len(c) : f[i] \in 1..Len(ls) /\ ls[f[i]] = c[i]
  /\ \A i, j \in 1..Len(c) : i < j => f[i] < f[j]

(* and those that are not taken yet are after the first at lines.          *)
After(f, c, taken, at) == \A k \in (taken + 1)..Len(c) : f[k] > at

LEMMA AfterMore ==
  ASSUME NEW f, NEW c, NEW ls, Len(c) \in Nat, Embeds(f, c, ls),
         NEW taken \in Nat, NEW at \in Nat, After(f, c, taken, at), NEW n \in Nat
  PROVE  After(f, c, taken + n, at + n)
<1> DEFINE A == {k \in Nat : After(f, c, taken + k, at + k)}
<1>1. 0 \in A
  BY DEF After
<1>2. ASSUME NEW k \in Nat, k \in A PROVE k + 1 \in A
  <2> SUFFICES ASSUME NEW i \in (taken + (k + 1) + 1)..Len(c) PROVE f[i] > at + (k + 1)
    BY DEF After
  <2> DEFINE j == taken + k + 1
  <2>1. j \in (taken + k + 1)..Len(c) /\ j \in 1..Len(c) /\ i \in 1..Len(c) /\ j < i
    OBVIOUS
  <2>2. f[j] > at + k
    BY <1>2, <2>1 DEF After
  <2> HIDE DEF j
  <2>3. f[j] < f[i] /\ f[i] \in 1..Len(ls) /\ f[j] \in 1..Len(ls)
    BY <2>1 DEF Embeds
  <2>4. f[i] \in Int /\ f[j] \in Int
    BY <2>3
  <2> QED  BY <2>2, <2>3, <2>4
<1> HIDE DEF A
<1>3. n \in A
  BY <1>1, <1>2, SetInduction
<1> QED  BY <1>3 DEF A

(* m is where the next common line is, or the end if there is none.        *)
StopsAt(ls, n, c, taken, f, m) ==
  /\ m \in Nat /\ n <= m /\ m <= Len(ls) /\ After(f, c, taken, m)
  /\ taken = Len(c) => m = Len(ls)
  /\ taken # Len(c) => m < Len(ls) /\ ls[m + 1] = c[taken + 1]

LEMMA SkipStops ==
  ASSUME NEW ls, NEW n, NEW c, NEW taken, NEW f, Len(ls) \in Nat, Len(c) \in Nat,
         n \in 0..Len(ls), taken \in 0..Len(c), Embeds(f, c, ls), After(f, c, taken, n)
  PROVE  StopsAt(ls, n, c, taken, f, Skip(ls, n, c, taken))
<1> DEFINE m == Skip(ls, n, c, taken)
           j == f[taken + 1]
<1>1. /\ m \in Nat /\ n <= m /\ m <= Len(ls)
      /\ taken # Len(c) => \A i \in (n + 1)..m : ls[i] # c[taken + 1]
      /\ taken = Len(c) => m = Len(ls)
      /\ m < Len(ls) => taken < Len(c) /\ ls[m + 1] = c[taken + 1]
  BY SkipIs
<1> HIDE DEF m
<1>2. CASE taken = Len(c)
  <2>1. After(f, c, taken, m)
    BY <1>2 DEF After
  <2> QED  BY <1>1, <1>2, <2>1 DEF StopsAt, m
<1>3. CASE taken # Len(c)
  <2>1. taken + 1 \in 1..Len(c) /\ taken + 1 \in (taken + 1)..Len(c)
    BY <1>3
  <2>2. j \in 1..Len(ls) /\ ls[j] = c[taken + 1] /\ j > n
    BY <2>1 DEF Embeds, After
  <2>3. m < j
    <3> SUFFICES ASSUME ~(m < j) PROVE FALSE
      OBVIOUS
    <3>1. j \in (n + 1)..m
      BY <1>1, <2>2
    <3> QED  BY <1>1, <1>3, <2>2, <3>1
  <2>4. ASSUME NEW k \in (taken + 1)..Len(c) PROVE f[k] > m
    <3>1. k \in 1..Len(c) /\ (k = taken + 1 \/ taken + 1 < k)
      BY <2>1
    <3>2. f[k] \in 1..Len(ls) /\ (k = taken + 1 \/ j < f[k])
      BY <2>1, <3>1 DEF Embeds
    <3> HIDE DEF j
    <3>3. k = taken + 1 => f[k] = j
      BY DEF j
    <3> QED  BY <1>1, <2>2, <2>3, <3>2, <3>3
  <2>5. m < Len(ls)
    <3> HIDE DEF j
    <3> QED  BY <1>1, <2>2, <2>3
  <2> QED  BY <1>1, <1>3, <2>4, <2>5 DEF After, StopsAt, m
<1> QED  BY <1>2, <1>3

Finished(l, r, s) == s.l = Len(l) /\ s.r = Len(r)

(* All three go on with the same line.                                     *)
Common(l, r, c, s) ==
  /\ s.l < Len(l) /\ s.r < Len(r) /\ s.c < Len(c)
  /\ l[s.l + 1] = c[s.c + 1] /\ r[s.r + 1] = c[s.c + 1]

LEMMA TurnMoves ==
  ASSUME NEW l, NEW r, NEW c, NEW s, NEW f, NEW g,
         Len(l) \in Nat, Len(r) \in Nat, Len(c) \in Nat, Embeds(f, c, l), Embeds(g, c, r),
         StateOK(l, r, c, s), After(f, c, s.c, s.l), After(g, c, s.c, s.r), ~Finished(l, r, s)
  PROVE  LET same == Alike(l, r, c, s)
             t == Turn(l, r, c, s)
         IN /\ same \in Nat /\ t.c = s.c + same /\ StateOK(l, r, c, t)
            /\ s.l + same <= t.l /\ s.r + same <= t.r /\ s.r + same <= Len(r)
            /\ \A i \in 1..same : l[s.l + i] = r[s.r + i]
            /\ After(f, c, t.c, t.l) /\ After(g, c, t.c, t.r)
            /\ Finished(l, r, t) \/ Common(l, r, c, t)
            /\ t.l + t.r > s.l + s.r
            /\ Common(l, r, c, s) => same > 0
<1> DEFINE same == Alike(l, r, c, s)
           t == Turn(l, r, c, s)
           a == s.l
           b == s.r
           k == s.c
           rem == t.l
           add == t.r
<1>1. /\ same \in Nat
      /\ a + same <= Len(l) /\ b + same <= Len(r) /\ k + same <= Len(c)
      /\ \A i \in 1..same : l[a + i] = c[k + i] /\ r[b + i] = c[k + i]
      /\ a + same < Len(l) /\ b + same < Len(r) /\ k + same < Len(c) =>
           l[a + same + 1] # c[k + same + 1] \/ r[b + same + 1] # c[k + same + 1]
  BY AlikeIs
<1>2. /\ rem = Skip(l, a + same, c, k + same)
      /\ add = Skip(r, b + same, c, k + same)
      /\ t.c = k + same
  BY DEF Turn
<1>3. a \in Nat /\ b \in Nat /\ k \in Nat /\ a <= Len(l) /\ b <= Len(r) /\ k <= Len(c)
  BY DEF StateOK
<1>4. After(f, c, k, a) /\ After(g, c, k, b) /\ ~(a = Len(l) /\ b = Len(r))
  BY DEF Finished
<1>5. /\ StateOK(l, r, c, t) <=> rem \in 0..Len(l) /\ add \in 0..Len(r) /\ t.c \in 0..Len(c)
      /\ Finished(l, r, t) <=> rem = Len(l) /\ add = Len(r)
      /\ Common(l, r, c, t) <=> /\ rem < Len(l) /\ add < Len(r) /\ t.c < Len(c)
                                /\ l[rem + 1] = c[t.c + 1] /\ r[add + 1] = c[t.c + 1]
      /\ Common(l, r, c, s) <=> /\ a < Len(l) /\ b < Len(r) /\ k < Len(c)
                                /\ l[a + 1] = c[k + 1] /\ r[b + 1] = c[k + 1]
  BY DEF StateOK, Finished, Common
<1> DEFINE n == t.c
<1> HIDE DEF same, a, b, k, rem, add, t, n
<1>6. n = k + same /\ n \in 0..Len(c) /\ a + same \in 0..Len(l) /\ b + same \in 0..Len(r)
  BY <1>1, <1>2, <1>3 DEF n
<1>7. After(f, c, n, a + same) /\ After(g, c, n, b + same)
  BY <1>1, <1>3, <1>4, <1>6, AfterMore
<1>8. /\ rem \in Nat /\ a + same <= rem /\ rem <= Len(l) /\ After(f, c, n, rem)
      /\ n = Len(c) => rem = Len(l)
      /\ n # Len(c) => rem < Len(l) /\ l[rem + 1] = c[n + 1]
  <2>1. rem = Skip(l, a + same, c, n)
    BY <1>2, <1>6
  <2>2. Len(l) \in Nat /\ Len(c) \in Nat /\ Embeds(f, c, l)
    OBVIOUS
  <2>3. StopsAt(l, a + same, c, n, f, rem)
    BY ONLY <1>6, <1>7, <2>1, <2>2, SkipStops
  <2> QED  BY <2>3 DEF StopsAt
<1>9. /\ add \in Nat /\ b + same <= add /\ add <= Len(r) /\ After(g, c, n, add)
      /\ n = Len(c) => add = Len(r)
      /\ n # Len(c) => add < Len(r) /\ r[add + 1] = c[n + 1]
  <2>1. add = Skip(r, b + same, c, n)
    BY <1>2, <1>6
  <2>2. Len(r) \in Nat /\ Len(c) \in Nat /\ Embeds(g, c, r)
    OBVIOUS
  <2>3. StopsAt(r, b + same, c, n, g, add)
    BY ONLY <1>6, <1>7, <2>1, <2>2, SkipStops
  <2> QED  BY <2>3 DEF StopsAt
<1>10. rem + add > a + b
  <2>1. CASE same > 0
    BY <1>1, <1>3, <1>8, <1>9, <2>1
  <2>2. CASE same = 0 /\ n = Len(c)
    BY <1>1, <1>3, <1>4, <1>8, <1>9, <2>2
  <2>3. CASE same = 0 /\ n # Len(c)
    <3>1. k < Len(c) /\ n = k /\ a <= rem /\ b <= add /\ a + 0 = a /\ b + 0 = b /\ k + 0 = k
      BY <1>3, <1>6, <1>8, <1>9, <2>3
    <3>2. a < Len(l) /\ b < Len(r)
      BY <1>3, <1>8, <1>9, <2>3, <3>1
    <3>3. l[a + 1] # c[k + 1] \/ r[b + 1] # c[k + 1]
      BY <1>1, <2>3, <3>1, <3>2
    <3>4. a # rem \/ b # add
      BY <1>8, <1>9, <2>3, <3>1, <3>3
    <3> QED  BY <1>3, <1>8, <1>9, <3>1, <3>4
  <2> QED  BY <1>1, <2>1, <2>2, <2>3
<1>11. Common(l, r, c, s) => same > 0
  <2> SUFFICES ASSUME Common(l, r, c, s), same = 0 PROVE FALSE
    BY <1>1
  <2>1. a + 0 = a /\ b + 0 = b /\ k + 0 = k
    BY <1>3
  <2> QED  BY <1>1, <1>5, <2>1
<1>12. \A i \in 1..same : l[a + i] = r[b + i]
  BY <1>1
<1>13. StateOK(l, r, c, t)
  BY <1>5, <1>6, <1>8, <1>9 DEF n
<1>14. Finished(l, r, t) \/ Common(l, r, c, t)
  <2>1. CASE n = Len(c)
    BY <1>5, <1>8, <1>9, <2>1
  <2>2. CASE n # Len(c)
    <3>1. n < Len(c)
      BY <1>6, <2>2
    <3> QED  BY <1>5, <1>8, <1>9, <2>2, <3>1 DEF n
  <2> QED  BY <2>1, <2>2
<1>15. /\ same \in Nat /\ n = k + same /\ a + same <= rem /\ b + same <= add /\ b + same <= Len(r)
       /\ After(f, c, n, rem) /\ After(g, c, n, add)
  BY <1>1, <1>6, <1>8, <1>9
<1> QED  BY <1>10, <1>11, <1>12, <1>13, <1>14, <1>15 DEF same, a, b, k, rem, add, t, n

(* p stands for the first a lines of l and the first b lines of r.         *)
Stands(T, l, r, p, a, b) ==
  /\ p \in Seq(PiecesOf(T))
  /\ TextOf(p, "Add") = Ended(SubSeq(l, 1, a))
  /\ TextOf(p, "Rem") = Ended(SubSeq(r, 1, b))

IsLines(T, ls) == ls \in Seq(Seq(T))

LEMMA TakeSame ==
  ASSUME NEW T, NL \in T, NEW l, NEW r, IsLines(T, l), IsLines(T, r), NEW p,
         NEW a \in Nat, NEW b \in Nat, NEW n \in Nat, a + n <= Len(l), b + n <= Len(r),
         Stands(T, l, r, p, a, b), \A i \in 1..n : l[a + i] = r[b + i]
  PROVE  LET q == WithPiece(p, "Same", l, a, a + n)
         IN /\ Stands(T, l, r, q, a + n, b + n)
            /\ InOrder(p, q, "Same")
            /\ n > 0 => Ends(q, {"Same"})
<1> DEFINE q == WithPiece(p, "Same", l, a, a + n)
           L == Seq(T)
           u == SubSeq(l, a + 1, a + n)
           v == SubSeq(r, b + 1, b + n)
<1>1. l \in Seq(L) /\ r \in Seq(L)
  BY DEF IsLines
<1>2. u = v
  <2> HIDE DEF L
  <2>1. (\A i \in (a + 1)..(a + n) : l[i] \in L) /\ (\A i \in (b + 1)..(b + n) : r[i] \in L)
    BY <1>1
  <2>2. a + 1 \in Int /\ a + n \in Int /\ b + 1 \in Int /\ b + n \in Int
    OBVIOUS
  <2>3. /\ u \in Seq(L) /\ Len(u) = IF a + 1 <= a + n THEN (a + n) - (a + 1) + 1 ELSE 0
        /\ \A i \in 1..((a + n) - (a + 1) + 1) : u[i] = l[(a + 1) + i - 1]
    BY ONLY <2>1, <2>2, SubSeqProperties
  <2>4. /\ v \in Seq(L) /\ Len(v) = IF b + 1 <= b + n THEN (b + n) - (b + 1) + 1 ELSE 0
        /\ \A i \in 1..((b + n) - (b + 1) + 1) : v[i] = r[(b + 1) + i - 1]
    BY ONLY <2>1, <2>2, SubSeqProperties
  <2> HIDE DEF u, v
  <2>5. Len(u) = n /\ Len(v) = n /\ (a + n) - (a + 1) + 1 = n /\ (b + n) - (b + 1) + 1 = n
    BY <2>3, <2>4
  <2>6. \A i \in 1..n : u[i] = l[a + i] /\ v[i] = r[b + i]
    <3> TAKE i \in 1..n
    <3>1. (a + 1) + i - 1 = a + i /\ (b + 1) + i - 1 = b + i
      OBVIOUS
    <3> QED  BY <2>3, <2>4, <2>5, <3>1
  <2>7. u \in Seq(L) /\ v \in Seq(L) /\ Len(u) = Len(v) /\ \A i \in 1..Len(u) : u[i] = v[i]
    BY <2>3, <2>4, <2>5, <2>6
  <2> QED  BY ONLY <2>7, SeqEqual
<1>3. p \in Seq(PiecesOf(T)) /\ TextOf(p, "Add") = Ended(SubSeq(l, 1, a)) /\ TextOf(p, "Rem") = Ended(SubSeq(r, 1, b))
  BY DEF Stands
<1>4. "Same" \in Kinds /\ a + n \in Nat /\ b + n \in Nat /\ a <= a + n /\ b <= b + n
  BY DEF Kinds
<1>5. /\ AddsLines(T, p, q, "Same", Ended(u))
      /\ InOrder(p, q, "Same")
      /\ a < a + n => Ends(q, {"Same"})
  <2>1. a + n <= Len(l) /\ l \in Seq(Seq(T))
    BY DEF IsLines
  <2>2. NL \in T /\ a \in Nat
    OBVIOUS
  <2> QED  BY ONLY <1>3, <1>4, <2>1, <2>2, OnePiece
<1>6. Ended(SubSeq(l, 1, a + n)) = Ended(SubSeq(l, 1, a)) \o Ended(u)
  <2>1. a + n <= Len(l) /\ l \in Seq(Seq(T)) /\ NL \in T /\ a \in Nat
    BY DEF IsLines
  <2> QED  BY ONLY <1>4, <2>1, EndedSplit
<1>7. Ended(SubSeq(r, 1, b + n)) = Ended(SubSeq(r, 1, b)) \o Ended(v)
  <2>1. b + n <= Len(r) /\ r \in Seq(Seq(T)) /\ NL \in T /\ b \in Nat
    BY DEF IsLines
  <2> QED  BY ONLY <1>4, <2>1, EndedSplit
<1> HIDE DEF q, u, v
<1>8. Stands(T, l, r, q, a + n, b + n)
  BY <1>2, <1>3, <1>5, <1>6, <1>7 DEF Stands, AddsLines
<1>9. n > 0 => Ends(q, {"Same"})
  BY <1>5
<1> QED  BY <1>5, <1>8, <1>9 DEF q

LEMMA TakeRem ==
  ASSUME NEW T, NL \in T, NEW l, NEW r, IsLines(T, l), NEW p,
         NEW a \in Nat, NEW b, NEW m \in Nat, a <= m, m <= Len(l), Stands(T, l, r, p, a, b)
  PROVE  LET q == WithPiece(p, "Rem", l, a, m)
         IN Stands(T, l, r, q, m, b) /\ InOrder(p, q, "Rem")
<1> DEFINE q == WithPiece(p, "Rem", l, a, m)
           u == SubSeq(l, a + 1, m)
<1>1. a <= m /\ m <= Len(l) /\ l \in Seq(Seq(T)) /\ NL \in T /\ a \in Nat /\ m \in Nat
  BY DEF IsLines
<1>2. p \in Seq(PiecesOf(T)) /\ TextOf(p, "Add") = Ended(SubSeq(l, 1, a)) /\ TextOf(p, "Rem") = Ended(SubSeq(r, 1, b))
  BY DEF Stands
<1>3. "Rem" \in Kinds
  BY DEF Kinds
<1>4. /\ AddsLines(T, p, q, "Rem", Ended(u))
      /\ InOrder(p, q, "Rem")
  BY ONLY <1>1, <1>2, <1>3, OnePiece
<1>5. Ended(SubSeq(l, 1, m)) = Ended(SubSeq(l, 1, a)) \o Ended(u)
  BY ONLY <1>1, EndedSplit
<1> HIDE DEF q, u
<1>6. Stands(T, l, r, q, m, b)
  BY <1>2, <1>4, <1>5 DEF Stands, AddsLines
<1> QED  BY <1>4, <1>6 DEF q

LEMMA TakeAdd ==
  ASSUME NEW T, NL \in T, NEW l, NEW r, IsLines(T, r), NEW p,
         NEW b \in Nat, NEW a, NEW m \in Nat, b <= m, m <= Len(r), Stands(T, l, r, p, a, b)
  PROVE  LET q == WithPiece(p, "Add", r, b, m)
         IN Stands(T, l, r, q, a, m) /\ InOrder(p, q, "Add")
<1> DEFINE q == WithPiece(p, "Add", r, b, m)
           u == SubSeq(r, b + 1, m)
<1>1. b <= m /\ m <= Len(r) /\ r \in Seq(Seq(T)) /\ NL \in T /\ b \in Nat /\ m \in Nat
  BY DEF IsLines
<1>2. p \in Seq(PiecesOf(T)) /\ TextOf(p, "Add") = Ended(SubSeq(l, 1, a)) /\ TextOf(p, "Rem") = Ended(SubSeq(r, 1, b))
  BY DEF Stands
<1>3. "Add" \in Kinds
  BY DEF Kinds
<1>4. /\ AddsLines(T, p, q, "Add", Ended(u))
      /\ InOrder(p, q, "Add")
  BY ONLY <1>1, <1>2, <1>3, OnePiece
<1>5. Ended(SubSeq(r, 1, m)) = Ended(SubSeq(r, 1, b)) \o Ended(u)
  BY ONLY <1>1, EndedSplit
<1> HIDE DEF q, u
<1>6. Stands(T, l, r, q, a, m)
  BY <1>2, <1>4, <1>5 DEF Stands, AddsLines
<1> QED  BY <1>4, <1>6 DEF q

(* The invariant of the merge.                                             *)
Taken(T, l, r, c, f, g, s) ==
  /\ StateOK(l, r, c, s)
  /\ Stands(T, l, r, s.pieces, s.l, s.r)
  /\ After(f, c, s.c, s.l) /\ After(g, c, s.c, s.r)
  /\ Alternate(s.pieces)
  /\ s.pieces = <<>> \/ Finished(l, r, s) \/ Common(l, r, c, s)

(* c is common to l and r, at f and at g.                                  *)
IsCommon(l, r, c, f, g) ==
  Len(l) \in Nat /\ Len(r) \in Nat /\ Len(c) \in Nat /\ Embeds(f, c, l) /\ Embeds(g, c, r)

LEMMA TurnTakes ==
  ASSUME NEW T, NL \in T, NEW l, NEW r, IsLines(T, l), IsLines(T, r), NEW c, NEW f, NEW g,
         IsCommon(l, r, c, f, g), NEW s, Taken(T, l, r, c, f, g, s), ~Finished(l, r, s)
  PROVE  LET t == Turn(l, r, c, s)
         IN Taken(T, l, r, c, f, g, t) /\ t.l + t.r > s.l + s.r
<1> DEFINE t == Turn(l, r, c, s)
           same == Alike(l, r, c, s)
           a == s.l
           b == s.r
           p == s.pieces
           rem == t.l
           add == t.r
           p1 == WithPiece(p, "Same", l, a, a + same)
           p2 == WithPiece(p1, "Rem", l, a + same, rem)
           p3 == WithPiece(p2, "Add", r, b + same, add)
<1>1. /\ same \in Nat /\ t.c = s.c + same /\ StateOK(l, r, c, t)
      /\ a + same <= rem /\ b + same <= add /\ b + same <= Len(r)
      /\ \A i \in 1..same : l[a + i] = r[b + i]
      /\ After(f, c, t.c, t.l) /\ After(g, c, t.c, t.r)
      /\ Finished(l, r, t) \/ Common(l, r, c, t)
      /\ t.l + t.r > s.l + s.r
      /\ Common(l, r, c, s) => same > 0
  BY TurnMoves DEF Taken, IsCommon
<1>2. t.pieces = p3
  BY DEF Turn, WithPiece
<1>3. Stands(T, l, r, p, a, b) /\ Alternate(p) /\ (p = <<>> \/ Common(l, r, c, s))
  BY DEF Taken
<1>4. /\ a \in Nat /\ b \in Nat /\ Len(l) \in Nat /\ Len(r) \in Nat
      /\ rem \in Nat /\ add \in Nat /\ rem <= Len(l) /\ add <= Len(r)
  <2>1. StateOK(l, r, c, s) /\ StateOK(l, r, c, t) /\ Len(l) \in Nat /\ Len(r) \in Nat
    BY <1>1 DEF Taken, IsCommon
  <2> HIDE DEF t
  <2> QED  BY <2>1 DEF StateOK
<1> HIDE DEF same, a, b, p, rem, add
<1>5. a + same \in Nat /\ b + same \in Nat /\ a + same <= Len(l)
  BY <1>1, <1>4
<1>6. /\ Stands(T, l, r, p1, a + same, b + same)
      /\ InOrder(p, p1, "Same")
      /\ same > 0 => Ends(p1, {"Same"})
  <2>1. NL \in T /\ IsLines(T, l) /\ IsLines(T, r)
    OBVIOUS
  <2> QED  BY ONLY <1>1, <1>3, <1>4, <1>5, <2>1, TakeSame
<1> HIDE DEF p1
<1>7. Stands(T, l, r, p2, rem, b + same) /\ InOrder(p1, p2, "Rem")
  <2>1. NL \in T /\ IsLines(T, l)
    OBVIOUS
  <2>2. a + same <= rem
    BY <1>1
  <2> QED  BY ONLY <1>4, <1>5, <1>6, <2>1, <2>2, TakeRem
<1> HIDE DEF p2
<1>8. Stands(T, l, r, p3, rem, add) /\ InOrder(p2, p3, "Add")
  <2>1. NL \in T /\ IsLines(T, r)
    OBVIOUS
  <2>2. b + same <= add
    BY <1>1
  <2> QED  BY ONLY <1>4, <1>5, <1>7, <2>1, <2>2, TakeAdd
<1> HIDE DEF p3
<1>9. Ends(p1, {"Same"})
  <2>1. CASE p = <<>>
    <3>1. Ends(<<>>, {"Same"})
      BY DEF Ends
    <3> QED  BY <1>6, <2>1, <3>1 DEF InOrder
  <2>2. CASE Common(l, r, c, s)
    BY <1>1, <1>6, <2>2
  <2> QED  BY <1>3, <2>1, <2>2
<1>10. Alternate(p1) /\ Ends(p1, Kinds \ {"Rem"})
  <2>1. "Same" \in Kinds \ {"Rem"}
    BY DEF Kinds
  <2> QED  BY <1>3, <1>6, <1>9, <2>1 DEF InOrder, Ends
<1>11. Alternate(p2) /\ Ends(p2, Kinds \ {"Add"})
  <2>1. "Same" \in Kinds \ {"Add"} /\ "Rem" \in Kinds \ {"Add"}
    BY DEF Kinds
  <2> QED  BY <1>7, <1>9, <1>10, <2>1 DEF InOrder, Ends
<1>12. Alternate(p3)
  BY <1>8, <1>11 DEF InOrder
<1>13. Taken(T, l, r, c, f, g, t)
  BY <1>1, <1>2, <1>8, <1>12 DEF Taken, rem, add
<1> QED  BY <1>1, <1>13

MergeStart == [l |-> 0, r |-> 0, c |-> 0, pieces |-> <<>>]

MergeStep(l, r, c, s) == IF s.l = Len(l) /\ s.r = Len(r) THEN s ELSE Turn(l, r, c, s)

Merges(l, r, c, f) ==
  f = [n \in 0 .. Len(l) + Len(r) |-> IF n = 0 THEN MergeStart ELSE MergeStep(l, r, c, f[n - 1])]

(* The pieces are those of l and r, in order.                              *)
MergedFrom(T, l, r, p) ==
  /\ p \in Seq(PiecesOf(T))
  /\ TextOf(p, "Add") = Ended(l)
  /\ TextOf(p, "Rem") = Ended(r)
  /\ Alternate(p)

LEMMA MergeIs ==
  ASSUME NEW T, NL \in T, NEW l, NEW r, IsLines(T, l), IsLines(T, r), NEW c, NEW f, NEW g,
         IsCommon(l, r, c, f, g)
  PROVE  MergedFrom(T, l, r, Merge(l, r, c))
<1> DEFINE N == Len(l) + Len(r)
           Good(s) == Taken(T, l, r, c, f, g, s)
           S == [l : Nat, r : Nat, c : Nat, pieces : Seq(PiecesOf(T))]
           X == {s \in S : Good(s)}
           Step(s) == MergeStep(l, r, c, s)
           F == [i \in 1..N |-> [s \in X |-> Step(s)]]
<1>0. NL \in T /\ IsLines(T, l) /\ IsLines(T, r) /\ IsCommon(l, r, c, f, g)
  OBVIOUS
<1>1. Len(l) \in Nat /\ Len(r) \in Nat /\ Len(c) \in Nat /\ N \in Nat
  BY DEF IsCommon
<1>2. MergeStart \in X
  <2> DEFINE s == MergeStart
  <2>1. s.l = 0 /\ s.r = 0 /\ s.c = 0 /\ s.pieces = <<>> /\ s \in S
    BY DEF MergeStart
  <2>2. StateOK(l, r, c, s)
    BY <1>1, <2>1 DEF StateOK
  <2>3. SubSeq(l, 1, 0) = <<>> /\ SubSeq(r, 1, 0) = <<>>
    BY SubSeqEmpty
  <2>4. Stands(T, l, r, <<>>, 0, 0)
    <3>1. TextOf(<<>>, "Add") = <<>> /\ TextOf(<<>>, "Rem") = <<>>
      BY TextOfEmpty
    <3>2. Ended(SubSeq(l, 1, 0)) = <<>> /\ Ended(SubSeq(r, 1, 0)) = <<>>
      BY <2>3, EndedEmpty
    <3>3. <<>> \in Seq(PiecesOf(T))
      OBVIOUS
    <3> QED  BY ONLY <3>1, <3>2, <3>3 DEF Stands
  <2>5. After(f, c, 0, 0) /\ After(g, c, 0, 0)
    <3>1. \A i \in (0 + 1)..Len(c) : i \in 1..Len(c)
      OBVIOUS
    <3>2. (\A i \in 1..Len(c) : f[i] \in 1..Len(l)) /\ (\A i \in 1..Len(c) : g[i] \in 1..Len(r))
      BY DEF IsCommon, Embeds
    <3>3. \A i \in 1..Len(c) : f[i] > 0 /\ g[i] > 0
      BY <1>1, <3>2
    <3> QED  BY <3>1, <3>3 DEF After
  <2>6. Alternate(<<>>)
    BY DEF Alternate
  <2> HIDE DEF s, S
  <2> QED  BY <2>1, <2>2, <2>4, <2>5, <2>6 DEF Taken, s
<1>3. ASSUME NEW s, Good(s), s \in S
      PROVE  /\ Good(Step(s)) /\ Step(s) \in S
             /\ Finished(l, r, s) => Step(s) = s
             /\ ~Finished(l, r, s) => Step(s).l + Step(s).r > s.l + s.r
  <2>1. CASE Finished(l, r, s)
    BY <1>3, <2>1 DEF Finished, MergeStep
  <2>2. CASE ~Finished(l, r, s)
    <3> DEFINE t == Turn(l, r, c, s)
    <3>1. Step(s) = t
      BY <2>2 DEF Finished, MergeStep
    <3>2. Taken(T, l, r, c, f, g, t) /\ t.l + t.r > s.l + s.r
      BY <1>0, <1>3, <2>2, TurnTakes
    <3>3. t = [l |-> t.l, r |-> t.r, c |-> t.c, pieces |-> t.pieces]
      BY DEF Turn
    <3> HIDE DEF t
    <3>4. StateOK(l, r, c, t) /\ t.pieces \in Seq(PiecesOf(T))
      BY <3>2 DEF Taken, Stands
    <3>5. t.l \in Nat /\ t.r \in Nat /\ t.c \in Nat
      BY <1>1, <3>4 DEF StateOK
    <3>6. t \in S
      BY <3>3, <3>4, <3>5
    <3> QED  BY <2>2, <3>1, <3>2, <3>6
  <2> QED  BY <2>1, <2>2
<1> HIDE DEF Step, Good, S
<1>4. F \in [1..N -> [X -> X]] /\ \A i \in 1..N : \A s \in X : F[i][s] = Step(s)
  BY <1>3
<1> HIDE DEF X
<1>5. PICK h : h \in [0..N -> X] /\ h[0] = MergeStart /\ \A i \in 1..N : h[i] = F[i][h[i - 1]]
  <2>1. N \in Nat /\ F \in [1..N -> [X -> X]]
    BY <1>1, <1>4
  <2> HIDE DEF F, N
  <2> QED  BY ONLY <1>2, <2>1, RecursionExists
<1> HIDE DEF F
<1>6. Merges(l, r, c, h)
  <2>1. ASSUME NEW i \in 0..N PROVE h[i] = IF i = 0 THEN MergeStart ELSE Step(h[i - 1])
    <3>1. CASE i # 0
      <4>1. i \in 1..N /\ i - 1 \in 0..N
        BY <1>1, <3>1
      <4>2. h[i - 1] \in X
        BY <1>5, <4>1
      <4> QED  BY <1>4, <1>5, <3>1, <4>1, <4>2
    <3> QED  BY <1>5, <3>1
  <2>2. h = [i \in 0..N |-> IF i = 0 THEN MergeStart ELSE Step(h[i - 1])]
    BY <1>5, <2>1
  <2> QED  BY <2>2 DEF Merges, Step
<1>7. PICK m : Merges(l, r, c, m) /\ Merge(l, r, c) = m[N].pieces
  <2>1. Merge(l, r, c) = (CHOOSE m : Merges(l, r, c, m))[N].pieces
    BY DEF Merge, Merges, MergeStart, MergeStep
  <2> QED  BY <1>6, <2>1
<1>8. \A i \in 0..N : m[i] = IF i = 0 THEN MergeStart ELSE Step(m[i - 1])
  BY <1>7 DEF Merges, Step
<1> DEFINE Far(i) == Good(m[i]) /\ m[i] \in S /\ (Finished(l, r, m[i]) \/ m[i].l + m[i].r >= i)
           A == {i \in Nat : i <= N => Far(i)}
<1>9. 0 \in A
  <2>1. m[0] = MergeStart
    BY <1>1, <1>8
  <2>2. MergeStart.l + MergeStart.r >= 0
    BY DEF MergeStart
  <2> QED  BY <1>2, <2>1, <2>2 DEF X
<1>10. ASSUME NEW i \in Nat, i \in A PROVE i + 1 \in A
  <2> SUFFICES ASSUME i + 1 <= N PROVE Far(i + 1)
    OBVIOUS
  <2>1. i + 1 \in 0..N /\ i + 1 # 0 /\ (i + 1) - 1 = i /\ i <= N
    BY <1>1
  <2>2. Far(i)
    BY <1>10, <2>1
  <2>3. m[i + 1] = Step(m[i])
    BY <1>8, <2>1
  <2> DEFINE s == m[i]
             t == m[i + 1]
  <2>4. Good(s) /\ s \in S /\ (Finished(l, r, s) \/ s.l + s.r >= i) /\ t = Step(s)
    BY <2>2, <2>3
  <2> HIDE DEF s, t
  <2>5. /\ Good(t) /\ t \in S
        /\ Finished(l, r, s) => t = s
        /\ ~Finished(l, r, s) => t.l + t.r > s.l + s.r
    BY <1>3, <2>4
  <2>6. Finished(l, r, t) \/ t.l + t.r >= i + 1
    <3>1. CASE Finished(l, r, s)
      BY <2>5, <3>1
    <3>2. CASE ~Finished(l, r, s)
      <4>1. s.l \in Nat /\ s.r \in Nat /\ t.l \in Nat /\ t.r \in Nat
        BY <2>4, <2>5 DEF S
      <4> QED  BY <2>4, <2>5, <3>2, <4>1
    <3> QED  BY <3>1, <3>2
  <2> QED  BY <2>5, <2>6 DEF t
<1>11. Far(N)
  <2>1. N \in Nat /\ N <= N
    BY <1>1
  <2>2. N \in A
    <3> HIDE DEF A, N
    <3> QED  BY <1>9, <1>10, <2>1, SetInduction
  <2> QED  BY <2>1, <2>2
<1> DEFINE s == m[N]
<1>12. Good(s) /\ s \in S /\ (Finished(l, r, s) \/ s.l + s.r >= Len(l) + Len(r))
  BY <1>11
<1>13. Merge(l, r, c) = s.pieces
  BY <1>7
<1> HIDE DEF s
<1>14. /\ StateOK(l, r, c, s) /\ Stands(T, l, r, s.pieces, s.l, s.r) /\ Alternate(s.pieces)
  BY <1>12 DEF Good, Taken
<1>15. s.l = Len(l) /\ s.r = Len(r)
  BY <1>1, <1>12, <1>14 DEF Finished, StateOK
<1>16. SubSeq(l, 1, Len(l)) = l /\ SubSeq(r, 1, Len(r)) = r
  BY <1>0, SubSeqFull DEF IsLines
<1> QED  BY <1>13, <1>14, <1>15, <1>16 DEF Stands, MergedFrom

(* Every result of Changeset::new is such a merge.                         *)
LEMMA LinesOfIs ==
  ASSUME NEW T, NL \in T, NEW t \in Seq(T)
  PROVE  /\ IsLines(T, LinesOf(t))
         /\ Ended(LinesOf(t)) = IF t = <<>> THEN <<>> ELSE Append(t, NL)
<1>1. CASE t = <<>>
  <2>1. LinesOf(t) = <<>>
    BY <1>1 DEF LinesOf
  <2>2. <<>> \in Seq(Seq(T))
    OBVIOUS
  <2> QED  BY ONLY <1>1, <2>1, <2>2, EndedEmpty DEF IsLines
<1>2. CASE t # <<>>
  <2>1. LinesOf(t) = SplitLines(t)
    BY <1>2 DEF LinesOf
  <2>2. LinesAre(T, t, SplitLines(t))
    BY SplitEnded
  <2> QED  BY <1>2, <2>1, <2>2 DEF LinesAre, IsLines
<1> QED  BY <1>1, <1>2

LEMMA SubsequenceEmbeds ==
  ASSUME NEW T, NEW ls, IsLines(T, ls), NEW x \in Subsequences(ls)
  PROVE  Len(x) \in Nat /\ \E f : Embeds(f, x, ls)
<1> DEFINE n == Len(ls)
           L == Seq(T)
<1>1. n \in Nat /\ \A i \in 1..n : ls[i] \in L
  <2>1. ls \in Seq(L)
    BY DEF IsLines
  <2> HIDE DEF L
  <2> QED  BY <2>1
<1> HIDE DEF L
<1>2. PICK f \in Positions(n) : x = [i \in DOMAIN f |-> ls[f[i]]]
  BY DEF Subsequences
<1> HIDE DEF n
<1>3. PICK m \in 0..n : f \in [1..m -> 1..n] /\ \A i, j \in 1..m : i < j => f[i] < f[j]
  BY DEF Positions
<1>4. m \in Nat /\ DOMAIN f = 1..m /\ \A i \in 1..m : f[i] \in 1..n
  BY <1>1, <1>3
<1>5. x \in [1..m -> L] /\ \A i \in 1..m : x[i] = ls[f[i]]
  BY <1>1, <1>2, <1>4
<1>6. x \in Seq(L) /\ Len(x) = m
  BY <1>4, <1>5, SeqOfFunction
<1>7. Embeds(f, x, ls)
  BY <1>3, <1>4, <1>5, <1>6 DEF Embeds, n
<1> QED  BY <1>4, <1>6, <1>7

LEMMA ChangesetIs ==
  ASSUME NEW T, NL \in T, NEW old \in Seq(T), NEW new \in Seq(T), NEW p \in Changesets(old, new)
  PROVE  MergedFrom(T, LinesOf(old), LinesOf(new), p)
<1> DEFINE l == LinesOf(old)
           r == LinesOf(new)
<1>1. IsLines(T, l) /\ IsLines(T, r) /\ NL \in T
  BY LinesOfIs
<1>2. PICK c \in CommonLines(old, new) : p = Merge(l, r, c)
  BY DEF Changesets
<1>3. PICK x \in Subsequences(l) \cap Subsequences(r) : c = IF x = << <<>> >> THEN <<>> ELSE x
  BY DEF CommonLines
<1> HIDE DEF l, r
<1>4. Len(l) \in Nat /\ Len(r) \in Nat
  BY <1>1 DEF IsLines
<1>5. \E f, g : IsCommon(l, r, c, f, g)
  <2>1. CASE c = <<>>
    <3>1. Len(c) = 0
      BY <2>1
    <3>2. Embeds(<<>>, c, l) /\ Embeds(<<>>, c, r)
      BY <3>1 DEF Embeds
    <3> QED  BY <1>4, <3>1, <3>2 DEF IsCommon
  <2>2. CASE c = x
    <3>1. Len(x) \in Nat /\ (\E f : Embeds(f, x, l)) /\ \E g : Embeds(g, x, r)
      BY <1>1, SubsequenceEmbeds
    <3> QED  BY <1>4, <2>2, <3>1 DEF IsCommon
  <2> QED  BY <1>3, <2>1, <2>2
<1>6. PICK f, g : IsCommon(l, r, c, f, g)
  BY <1>5
<1>7. MergedFrom(T, l, r, Merge(l, r, c))
  BY ONLY <1>1, <1>6, MergeIs
<1> QED  BY <1>2, <1>7 DEF l, r

-----------------------------------------------------------------------------
(* reconstruct_new.                                                        *)

Instructions(T) == [op : {"Same", "Removal"}, len : Nat] \cup [op : {"Addition"}, text : Seq(T)]

LEMMA DifferenceType ==
  ASSUME NEW T, NL \in T, NEW x \in PiecesOf(T)
  PROVE  from_difference(x) \in Instructions(T) /\ from_difference_last(x) \in Instructions(T)
<1>1. x.kind \in {"Same", "Rem", "Add"} /\ x.text \in Seq(T)
  BY DEF PiecesOf, Kinds
<1>2. Len(x.text) \in Nat /\ Len(x.text) + 1 \in Nat /\ Append(x.text, NL) \in Seq(T)
  BY <1>1
<1>3. CASE x.kind = "Same"
  BY <1>2, <1>3 DEF from_difference, from_difference_last, Same, Instructions
<1>4. CASE x.kind = "Rem"
  BY <1>2, <1>4 DEF from_difference, from_difference_last, Removal, Instructions
<1>5. CASE x.kind = "Add"
  BY <1>1, <1>2, <1>5 DEF from_difference, from_difference_last, Addition, Instructions
<1> QED  BY <1>1, <1>3, <1>4, <1>5

At(res, oldsl) == [res |-> res, oldsl |-> oldsl]

LEMMA AtExcept ==
  ASSUME NEW a, NEW b, NEW h
  PROVE  [At(a, b) EXCEPT !.res = h] = At(h, b)
<1>1. At(a, b) = [f \in {"res", "oldsl"} |-> IF f = "res" THEN a ELSE b]
  BY DEF At
<1>2. At(h, b) = [f \in {"res", "oldsl"} |-> IF f = "res" THEN h ELSE b]
  BY DEF At
<1> QED  BY ONLY <1>1, <1>2, Zenon

LEMMA NoPanic == \A res, oldsl : At(res, oldsl) # Panic
<1> TAKE res, oldsl
<1>1. DOMAIN At(res, oldsl) = {"res", "oldsl"} /\ DOMAIN Panic = {"panicked"}
  BY DEF At, Panic
<1>2. "res" # "panicked"
  OBVIOUS
<1> HIDE DEF At
<1> QED  BY <1>1, <1>2

LEMMA Slices ==
  ASSUME NEW T, NEW x \in Seq(T), NEW z \in Seq(T), NEW u, u = x \o z
  PROVE  Len(x) <= Len(u) /\ SubSeq(u, 1, Len(x)) = x /\ From(u, Len(x)) = z
<1>1. /\ Len(x) \in Nat /\ Len(z) \in Nat /\ u \in Seq(T) /\ Len(u) = Len(x) + Len(z)
      /\ \A i \in 1..Len(x) : u[i] = x[i]
      /\ \A i \in 1..Len(z) : u[Len(x) + i] = z[i]
  OBVIOUS
<1>2. \A i \in 1..Len(u) : u[i] \in T
  BY <1>1
<1> DEFINE y == SubSeq(u, 1, Len(x))
           w == SubSeq(u, Len(x) + 1, Len(u))
<1>3. y \in Seq(T) /\ Len(y) = Len(x) /\ \A i \in 1..Len(x) : y[i] = u[i]
  <2>1. (\A i \in 1..Len(x) : u[i] \in T) /\ 1 \in Int /\ Len(x) \in Int
    BY <1>1, <1>2
  <2>2. /\ y \in Seq(T) /\ Len(y) = IF 1 <= Len(x) THEN Len(x) - 1 + 1 ELSE 0
        /\ \A i \in 1..(Len(x) - 1 + 1) : y[i] = u[1 + i - 1]
    BY ONLY <2>1, SubSeqProperties
  <2> HIDE DEF y
  <2> QED  BY <1>1, <2>2
<1>4. w \in Seq(T) /\ Len(w) = Len(z) /\ \A i \in 1..Len(z) : w[i] = u[Len(x) + i]
  <2>1. (\A i \in (Len(x) + 1)..Len(u) : u[i] \in T) /\ Len(x) + 1 \in Int /\ Len(u) \in Int
    BY <1>1, <1>2
  <2>2. /\ w \in Seq(T)
        /\ Len(w) = IF Len(x) + 1 <= Len(u) THEN Len(u) - (Len(x) + 1) + 1 ELSE 0
        /\ \A i \in 1..(Len(u) - (Len(x) + 1) + 1) : w[i] = u[(Len(x) + 1) + i - 1]
    BY ONLY <2>1, SubSeqProperties
  <2>3. Len(u) - (Len(x) + 1) + 1 = Len(z) /\ \A i \in 1..Len(z) : (Len(x) + 1) + i - 1 = Len(x) + i
    BY <1>1
  <2> HIDE DEF w
  <2>4. Len(w) = Len(z)
    <3>1. \A i, k, n \in Nat : n = i + k => IF i + 1 <= n THEN n - (i + 1) + 1 = k ELSE k = 0
      OBVIOUS
    <3> QED  BY <1>1, <2>2, <3>1
  <2>5. \A i \in 1..Len(z) : w[i] = u[Len(x) + i]
    BY <2>2, <2>3
  <2> QED  BY <2>2, <2>4, <2>5
<1> HIDE DEF y, w
<1>5. y = x
  <2>1. y \in Seq(T) /\ x \in Seq(T) /\ Len(y) = Len(x) /\ \A i \in 1..Len(y) : y[i] = x[i]
    BY <1>1, <1>3
  <2> QED  BY ONLY <2>1, SeqEqual
<1>6. w = z
  <2>1. w \in Seq(T) /\ z \in Seq(T) /\ Len(w) = Len(z) /\ \A i \in 1..Len(w) : w[i] = z[i]
    BY <1>1, <1>4
  <2> QED  BY ONLY <2>1, SeqEqual
<1> QED  BY <1>1, <1>5, <1>6 DEF y, w, From

(* One instruction takes from the old text what the piece stands for in    *)
(* it, and appends what it stands for in the new one.                      *)
Moves(T, x, g, u, v, z) ==
  /\ NL \in T /\ x \in PiecesOf(T) /\ g \in Seq(T) /\ z \in Seq(T)
  /\ u = Lined(x, "Add") \o z
  /\ v = g \o Lined(x, "Rem")

LEMMA InstructMore ==
  ASSUME NEW T, NEW x, NEW g, NEW u, NEW v, NEW z, Moves(T, x, g, u, v, z)
  PROVE  Instruct(At(g, u), from_difference(x)) = At(v, z)
<1> DEFINE e == Append(x.text, NL)
<1>0. /\ NL \in T /\ x \in PiecesOf(T) /\ g \in Seq(T) /\ z \in Seq(T)
      /\ u = Lined(x, "Add") \o z /\ v = g \o Lined(x, "Rem")
  BY DEF Moves
<1>1. x.kind \in {"Same", "Rem", "Add"} /\ x.text \in Seq(T)
  BY <1>0 DEF PiecesOf, Kinds
<1>2. e \in Seq(T) /\ Len(e) = Len(x.text) + 1
  BY <1>0, <1>1
<1> HIDE DEF e
<1>3. At(g, u) # Panic /\ At(g, u).res = g /\ At(g, u).oldsl = u
  <2>1. At(g, u).res = g /\ At(g, u).oldsl = u
    BY DEF At
  <2> QED  BY <2>1, NoPanic
<1>4. CASE x.kind = "Same"
  <2>1. u = e \o z /\ v = g \o e
    BY <1>0, <1>4 DEF Lined, e
  <2>2. Len(e) <= Len(u) /\ SubSeq(u, 1, Len(e)) = e /\ From(u, Len(e)) = z
    BY ONLY <1>2, <2>1, <1>0, Slices
  <2>3. from_difference(x) = [op |-> "Same", len |-> Len(e)]
    BY <1>2, <1>4 DEF from_difference, Same
  <2>4. Len(e) \in Nat /\ Len(u) \in Nat
    BY <1>0, <1>2, <2>1
  <2>5. ~ (Len(e) > Len(u))
    BY <2>2, <2>4
  <2>6. Instruct(At(g, u), from_difference(x)) =
          [res |-> g \o SubSeq(u, 1, Len(e)), oldsl |-> From(u, Len(e))]
    <3> DEFINE s == At(g, u)
               d == from_difference(x)
    <3>1. d.op = "Same" /\ d.len = Len(e)
      BY <2>3
    <3>2. s # Panic /\ s.res = g /\ s.oldsl = u
      BY <1>3
    <3> HIDE DEF s, d
    <3>3. Instruct(s, d) = [res |-> s.res \o SubSeq(s.oldsl, 1, d.len), oldsl |-> From(s.oldsl, d.len)]
      BY ONLY <2>5, <3>1, <3>2 DEF Instruct
    <3> QED  BY <3>1, <3>2, <3>3 DEF s, d
  <2> QED  BY <2>1, <2>2, <2>6 DEF At
<1>5. CASE x.kind = "Rem"
  <2>1. u = e \o z /\ v = g
    <3>1. g \o <<>> = g
      BY <1>0
    <3> QED  BY <1>0, <1>5, <3>1 DEF Lined, e
  <2>2. Len(e) <= Len(u) /\ From(u, Len(e)) = z
    BY ONLY <1>2, <2>1, <1>0, Slices
  <2>3. from_difference(x) = [op |-> "Removal", len |-> Len(e)]
    BY <1>2, <1>5 DEF from_difference, Removal
  <2>4. Len(e) \in Nat /\ Len(u) \in Nat
    BY <1>0, <1>2, <2>1
  <2>5. ~ (Len(e) > Len(u))
    BY <2>2, <2>4
  <2>6. Instruct(At(g, u), from_difference(x)) = [res |-> g, oldsl |-> From(u, Len(e))]
    <3> DEFINE s == At(g, u)
               d == from_difference(x)
    <3>1. d.op = "Removal" /\ d.len = Len(e)
      BY <2>3
    <3>2. s # Panic /\ s.res = g /\ s.oldsl = u
      BY <1>3
    <3> HIDE DEF s, d
    <3>3. Instruct(s, d) = [res |-> s.res, oldsl |-> From(s.oldsl, d.len)]
      BY ONLY <2>5, <3>1, <3>2 DEF Instruct
    <3> QED  BY <3>1, <3>2, <3>3 DEF s, d
  <2> QED  BY <2>1, <2>2, <2>6 DEF At
<1>6. CASE x.kind = "Add"
  <2>1. u = z /\ v = g \o e
    <3>1. <<>> \o z = z
      BY <1>0
    <3> QED  BY <1>0, <1>6, <3>1 DEF Lined, e
  <2>2. from_difference(x) = [op |-> "Addition", text |-> e]
    BY <1>6 DEF from_difference, Addition, e
  <2>3. Instruct(At(g, u), from_difference(x)) = [At(g, u) EXCEPT !.res = @ \o e]
    BY <1>3, <2>2 DEF Instruct
  <2>4. [At(g, u) EXCEPT !.res = @ \o e] = At(g \o e, u)
    <3> DEFINE h == g \o e
    <3>1. At(g, u).res \o e = h
      BY <1>3
    <3> HIDE DEF h
    <3>2. [At(g, u) EXCEPT !.res = h] = At(h, u)
      BY ONLY AtExcept, Zenon
    <3> QED  BY <3>1, <3>2 DEF h
  <2> QED  BY <2>1, <2>3, <2>4
<1> QED  BY <1>1, <1>4, <1>5, <1>6

LoopStates(T) == {Panic} \cup [res : Seq(T), oldsl : Seq(T)]

LEMMA InstructType ==
  ASSUME NEW T, NEW s \in LoopStates(T), NEW d \in Instructions(T)
  PROVE  Instruct(s, d) \in LoopStates(T)
<1>1. CASE s = Panic
  BY <1>1 DEF Instruct, LoopStates
<1>2. CASE s # Panic
  <2>1. s = At(s.res, s.oldsl) /\ s.res \in Seq(T) /\ s.oldsl \in Seq(T)
    BY <1>2 DEF LoopStates, At
  <2> DEFINE g == s.res
             u == s.oldsl
  <2>2. g \in Seq(T) /\ u \in Seq(T) /\ s = At(g, u)
    BY <2>1
  <2>3. \A h \in Seq(T), z \in Seq(T) : At(h, z) \in LoopStates(T)
    BY DEF At, LoopStates
  <2>4. CASE d.op = "Addition"
    <3>1. d.text \in Seq(T)
      BY <2>4 DEF Instructions
    <3>2. Instruct(s, d) = [s EXCEPT !.res = @ \o d.text]
      BY <1>2, <2>4 DEF Instruct
    <3> DEFINE h == g \o d.text
    <3>3. h \in Seq(T) /\ Instruct(s, d) = [s EXCEPT !.res = h]
      BY <2>2, <3>1, <3>2
    <3> HIDE DEF h, g, u
    <3>4. [s EXCEPT !.res = h] = At(h, u)
      BY ONLY <2>2, AtExcept, Zenon
    <3> QED  BY <2>2, <2>3, <3>3, <3>4
  <2>5. CASE d.op # "Addition" /\ d.len > Len(u)
    <3>1. Instruct(s, d) = Panic
      BY <1>2, <2>5 DEF Instruct
    <3> QED  BY <3>1 DEF LoopStates
  <2>6. CASE d.op # "Addition" /\ ~(d.len > Len(u))
    <3> DEFINE n == d.len
    <3>1. n \in Nat
      BY <2>6 DEF Instructions
    <3>2. n <= Len(u) /\ Len(u) \in Nat
      BY <2>2, <2>6, <3>1
    <3>3. Instruct(s, d) = At(IF d.op = "Same" THEN g \o SubSeq(u, 1, n) ELSE g, From(u, n))
      BY <1>2, <2>6 DEF Instruct, At
    <3> HIDE DEF g, u, n
    <3>4. \A i \in 1..Len(u) : u[i] \in T
      BY <2>2
    <3>5. SubSeq(u, 1, n) \in Seq(T)
      <4>1. (\A i \in 1..n : u[i] \in T) /\ 1 \in Int /\ n \in Int
        BY <3>1, <3>2, <3>4
      <4> QED  BY ONLY <4>1, SubSeqProperties
    <3>6. SubSeq(u, n + 1, Len(u)) \in Seq(T)
      <4>1. (\A i \in (n + 1)..Len(u) : u[i] \in T) /\ n + 1 \in Int /\ Len(u) \in Int
        BY <3>1, <3>2, <3>4
      <4> QED  BY ONLY <4>1, SubSeqProperties
    <3>7. From(u, n) \in Seq(T)
      BY <3>6 DEF From
    <3>8. g \o SubSeq(u, 1, n) \in Seq(T)
      BY <2>2, <3>5
    <3> DEFINE h == IF d.op = "Same" THEN g \o SubSeq(u, 1, n) ELSE g
    <3>9. h \in Seq(T)
      BY <2>2, <3>8
    <3> HIDE DEF h
    <3> QED  BY <2>3, <3>3, <3>7, <3>9 DEF h
  <2> QED  BY <2>4, <2>5, <2>6
<1> QED  BY <1>1, <1>2

(* The recursion of reconstruct_new.                                       *)
Reconstruction(diff, old, f) ==
  f = [i \in 0..Len(diff) |-> IF i = 0 THEN At(<<>>, old) ELSE Instruct(f[i - 1], diff[i])]

LEMMA ReconstructionIs ==
  ASSUME NEW T, NEW old \in Seq(T), NEW diff, diff \in Seq(Instructions(T))
  PROVE  \E f :
           /\ \A i \in 0..Len(diff) :
                f[i] \in LoopStates(T) /\ f[i] = IF i = 0 THEN At(<<>>, old) ELSE Instruct(f[i - 1], diff[i])
           /\ reconstruct_new(diff, old) =
                IF f[Len(diff)] = Panic THEN Panic ELSE [text |-> f[Len(diff)].res]
<1> DEFINE n == Len(diff)
           X == LoopStates(T)
           a == At(<<>>, old)
           D == Instructions(T)
           F == [i \in 1..n |-> [s \in X |-> Instruct(s, diff[i])]]
<1>1. n \in Nat /\ \A i \in 1..n : diff[i] \in D
  <2>1. diff \in Seq(D)
    OBVIOUS
  <2> HIDE DEF D
  <2> QED  BY <2>1
<1>2. a \in X
  BY DEF At, LoopStates
<1>3. \A s \in X, i \in 1..n : Instruct(s, diff[i]) \in X
  <2> HIDE DEF n
  <2> QED  BY <1>1, InstructType
<1>4. F \in [1..n -> [X -> X]] /\ \A i \in 1..n : \A s \in X : F[i][s] = Instruct(s, diff[i])
  BY <1>3
<1> HIDE DEF X, a, D
<1>5. PICK h : h \in [0..n -> X] /\ h[0] = a /\ \A i \in 1..n : h[i] = F[i][h[i - 1]]
  <2>1. n \in Nat /\ F \in [1..n -> [X -> X]]
    BY <1>1, <1>4
  <2> HIDE DEF F, n
  <2> QED  BY ONLY <1>2, <2>1, RecursionExists
<1> HIDE DEF F
<1>6. Reconstruction(diff, old, h)
  <2>1. ASSUME NEW i \in 0..n PROVE h[i] = IF i = 0 THEN a ELSE Instruct(h[i - 1], diff[i])
    <3>1. CASE i # 0
      <4>1. i \in 1..n /\ i - 1 \in 0..n
        BY <1>1, <3>1
      <4>2. h[i - 1] \in X
        BY <1>5, <4>1
      <4> QED  BY <1>4, <1>5, <3>1, <4>1, <4>2
    <3> QED  BY <1>5, <3>1
  <2>2. h = [i \in 0..n |-> IF i = 0 THEN a ELSE Instruct(h[i - 1], diff[i])]
    BY <1>5, <2>1
  <2> QED  BY <2>2 DEF Reconstruction, a
<1>7. PICK f : /\ Reconstruction(diff, old, f)
               /\ reconstruct_new(diff, old) = IF f[n] = Panic THEN Panic ELSE [text |-> f[n].res]
  <2> DEFINE r == CHOOSE f : Reconstruction(diff, old, f)
  <2>1. reconstruct_new(diff, old) = IF r[n] = Panic THEN Panic ELSE [text |-> r[n].res]
    BY DEF reconstruct_new, Reconstruction, At
  <2>2. Reconstruction(diff, old, r)
    BY <1>6
  <2> HIDE DEF r
  <2> QED  BY <2>1, <2>2
<1>8. \A i \in 0..n : f[i] = IF i = 0 THEN a ELSE Instruct(f[i - 1], diff[i])
  BY <1>7 DEF Reconstruction, a
<1> DEFINE A == {i \in Nat : i <= n => f[i] \in X}
<1>9. 0 \in A
  BY <1>1, <1>2, <1>8
<1>10. ASSUME NEW i \in Nat, i \in A PROVE i + 1 \in A
  <2> SUFFICES ASSUME i + 1 <= n PROVE f[i + 1] \in X
    OBVIOUS
  <2>1. i + 1 \in 0..n /\ i + 1 # 0 /\ (i + 1) - 1 = i /\ i <= n /\ i + 1 \in 1..n
    BY <1>1
  <2>2. f[i] \in X
    BY <1>10, <2>1
  <2>3. f[i + 1] = Instruct(f[i], diff[i + 1])
    BY <1>8, <2>1
  <2> QED  BY <1>3, <2>1, <2>2, <2>3
<1>11. Nat \subseteq A
  <2> HIDE DEF A
  <2> QED  BY <1>9, <1>10, SetInduction
<1>12. \A i \in 0..n : f[i] \in X
  <2> TAKE i \in 0..n
  <2>1. i \in Nat /\ i <= n
    BY <1>1
  <2> QED  BY <1>11, <2>1
<1> QED  BY <1>7, <1>8, <1>12 DEF X, a

LEMMA DiffIs ==
  ASSUME NEW T, NL \in T, NEW p, p \in Seq(PiecesOf(T))
  PROVE  /\ Len(p) \in Nat /\ \A i \in 1..Len(p) : p[i] \in PiecesOf(T)
         /\ from_changeset(p) \in Seq(Instructions(T)) /\ Len(from_changeset(p)) = Len(p)
         /\ \A i \in 1..Len(p) : from_changeset(p)[i] =
              IF i < Len(p) THEN from_difference(p[i]) ELSE from_difference_last(p[i])
<1> DEFINE P == PiecesOf(T)
           D == Instructions(T)
           m == Len(p)
           d == from_changeset(p)
<1>1. p \in Seq(P)
  OBVIOUS
<1>2. \A x \in P : from_difference(x) \in D /\ from_difference_last(x) \in D
  BY DifferenceType
<1> HIDE DEF P, D
<1>3. m \in Nat /\ DOMAIN p = 1..m /\ \A i \in 1..m : p[i] \in P
  BY <1>1
<1>4. d = [i \in 1..m |-> IF i < m THEN from_difference(p[i]) ELSE from_difference_last(p[i])]
  BY <1>3 DEF from_changeset
<1> HIDE DEF d, m
<1>5. d \in [1..m -> D]
  BY <1>2, <1>3, <1>4
<1>6. d \in Seq(D) /\ Len(d) = m
  BY <1>3, <1>5, SeqOfFunction
<1> QED  BY <1>3, <1>4, <1>6 DEF d, m, P, D

(* The state before the last instruction, when it has not panicked.        *)
First(p, k, out) == TextOf(SubSeq(p, 1, k), out)

ReconstructsTo(T, p, old, f, k) ==
  \A z \in Seq(T) : First(p, k, "Add") \o z = old => f[k] = At(First(p, k, "Rem"), z)

OneMore(T, p, k, out) ==
  /\ p[k + 1] \in PiecesOf(T) /\ First(p, k, out) \in Seq(T) /\ Lined(p[k + 1], out) \in Seq(T)
  /\ First(p, k + 1, out) = First(p, k, out) \o Lined(p[k + 1], out)

LEMMA FirstStep ==
  ASSUME NEW T, NL \in T, NEW p, p \in Seq(PiecesOf(T)), NEW k \in Nat, k + 1 <= Len(p), NEW out
  PROVE  OneMore(T, p, k, out)
<1> DEFINE P == PiecesOf(T)
           q == SubSeq(p, 1, k)
           x == p[k + 1]
<1>1. p \in Seq(P) /\ k \in Nat /\ k + 1 <= Len(p)
  OBVIOUS
<1> HIDE DEF P
<1>2. q \in Seq(P) /\ x \in P /\ SubSeq(p, 1, k + 1) = Append(q, x)
  BY ONLY <1>1, PrefixStep
<1> HIDE DEF q, x
<1>3. TextOf(q, out) \in Seq(T) /\ TextOf(Append(q, x), out) = TextOf(q, out) \o Lined(x, out)
  BY <1>2, TextOfAppend DEF P
<1>4. Lined(x, out) \in Seq(T)
  BY <1>2, LinedType DEF P
<1> QED  BY <1>2, <1>3, <1>4 DEF OneMore, First, P, q, x

LEMMA FirstNone == \A p, out : First(p, 0, out) = <<>>
<1> TAKE p, out
<1>1. SubSeq(p, 1, 0) = <<>>
  BY SubSeqEmpty
<1> QED  BY <1>1, TextOfEmpty DEF First

LEMMA ReconstructsUpTo ==
  ASSUME NEW T, NL \in T, NEW p, p \in Seq(PiecesOf(T)), NEW old \in Seq(T), NEW f,
         \A i \in 0..Len(p) :
           f[i] = IF i = 0 THEN At(<<>>, old) ELSE Instruct(f[i - 1], from_changeset(p)[i]),
         NEW n \in Nat, n < Len(p)
  PROVE  ReconstructsTo(T, p, old, f, n)
<1> DEFINE Holds(k) == ReconstructsTo(T, p, old, f, k)
           A == {k \in Nat : k < Len(p) => Holds(k)}
           m == Len(p)
<1>0. m \in Nat /\ \A i \in 1..m : i < m => from_changeset(p)[i] = from_difference(p[i])
  BY DiffIs
<1>1. 0 \in A
  <2>1. f[0] = At(<<>>, old)
    BY <1>0
  <2>2. \A z \in Seq(T) : <<>> \o z = z
    OBVIOUS
  <2> QED  BY <2>1, <2>2, FirstNone DEF ReconstructsTo
<1>2. ASSUME NEW k \in Nat, k \in A PROVE k + 1 \in A
  <2> SUFFICES ASSUME k + 1 < m, NEW z \in Seq(T), First(p, k + 1, "Add") \o z = old
               PROVE  f[k + 1] = At(First(p, k + 1, "Rem"), z)
    BY DEF ReconstructsTo
  <2> DEFINE x == p[k + 1]
             h == First(p, k, "Add")
             g == First(p, k, "Rem")
             a == Lined(x, "Add")
             v == First(p, k + 1, "Rem")
             u == a \o z
  <2>1. Holds(k)
    BY <1>0, <1>2
  <2>0. OneMore(T, p, k, "Add") /\ OneMore(T, p, k, "Rem")
    <3>1. k + 1 <= Len(p)
      BY <1>0
    <3> QED  BY <3>1, FirstStep
  <2>2. x \in PiecesOf(T) /\ h \in Seq(T) /\ a \in Seq(T) /\ First(p, k + 1, "Add") = h \o a
    BY <2>0 DEF OneMore
  <2>3. g \in Seq(T) /\ v = g \o Lined(x, "Rem")
    BY <2>0 DEF OneMore
  <2>4. f[k + 1] = Instruct(f[k], from_difference(x))
    <3>1. k + 1 \in 0..m /\ k + 1 # 0 /\ (k + 1) - 1 = k /\ k + 1 \in 1..m
      BY <1>0
    <3> QED  BY <1>0, <3>1
  <2> HIDE DEF x, h, g, a, v
  <2>5. u \in Seq(T) /\ h \o u = old
    <3>0. z \in Seq(T) /\ First(p, k + 1, "Add") \o z = old
      OBVIOUS
    <3>1. (h \o a) \o z = h \o (a \o z) /\ a \o z \in Seq(T)
      BY ONLY <2>2, <3>0
    <3> QED  BY ONLY <2>2, <3>0, <3>1
  <2>6. f[k] = At(g, u)
    BY <2>1, <2>5 DEF ReconstructsTo, h, g
  <2>7. u = Lined(x, "Add") \o z
    BY DEF a
  <2> HIDE DEF u
  <2>8. Instruct(At(g, u), from_difference(x)) = At(v, z)
    <3>1. Moves(T, x, g, u, v, z)
      BY <2>2, <2>3, <2>7 DEF Moves
    <3> QED  BY ONLY <3>1, InstructMore
  <2> QED  BY <2>4, <2>6, <2>8 DEF v
<1> HIDE DEF A, Holds, m
<1>3. n \in A
  BY <1>1, <1>2, SetInduction
<1> QED  BY <1>3 DEF A, Holds

(* A text with a separator behind it, unless it is empty.                  *)
WithEnd(t) == IF t = <<>> THEN <<>> ELSE Append(t, NL)

EndsIn(T, t, h, text) ==
  NL \in T /\ t \in Seq(T) /\ h \in Seq(T) /\ text \in Seq(T) /\ WithEnd(t) = h \o Append(text, NL)

LEMMA EndTaken ==
  ASSUME NEW T, NEW t, NEW h, NEW text, EndsIn(T, t, h, text)
  PROVE  t = h \o text
<1> DEFINE u == h \o text
<1>1. NL \in T /\ t \in Seq(T) /\ h \in Seq(T) /\ text \in Seq(T) /\ WithEnd(t) = h \o Append(text, NL)
  BY DEF EndsIn
<1>2. h \o Append(text, NL) = Append(u, NL) /\ u \in Seq(T) /\ Append(u, NL) # <<>>
  BY <1>1
<1> HIDE DEF u
<1>3. Append(t, NL) = Append(u, NL)
  BY <1>1, <1>2 DEF WithEnd
<1>4. t = u
  BY <1>1, <1>2, <1>3
<1> QED  BY <1>4 DEF u

TextIs(t) == [text |-> t]

LEMMA TextsDiffer == \A t, u : TextIs(t) = TextIs(u) => t = u
<1> TAKE t, u
<1>1. TextIs(t).text = t /\ TextIs(u).text = u
  BY DEF TextIs
<1> HIDE DEF TextIs
<1> QED  BY <1>1

LEMMA TextIsNoPanic == \A t : TextIs(t) # Panic
<1> TAKE t
<1>1. DOMAIN TextIs(t) = {"text"} /\ DOMAIN Panic = {"panicked"}
  BY DEF TextIs, Panic
<1>2. "text" # "panicked"
  OBVIOUS
<1> QED  BY <1>1, <1>2

(* What the last instruction makes of a state.                             *)
LEMMA LastInstruction ==
  ASSUME NEW T, NEW x, x.kind \in {"Same", "Rem"}, x.text \in Seq(T), NEW g \in Seq(T)
  PROVE  LET s == Instruct(At(g, x.text), from_difference_last(x))
         IN s # Panic /\ s.res = IF x.kind = "Same" THEN g \o x.text ELSE g
<1> DEFINE u == x.text
           n == Len(u)
           d == from_difference_last(x)
           s == At(g, u)
<1>1. d.len = n /\ d.op = IF x.kind = "Same" THEN "Same" ELSE "Removal"
  <2>1. CASE x.kind = "Same"
    <3>1. d = Same(n)
      BY <2>1 DEF from_difference_last
    <3> QED  BY <2>1, <3>1 DEF Same
  <2>2. CASE x.kind = "Rem"
    <3>1. d = Removal(n)
      BY <2>2 DEF from_difference_last
    <3> QED  BY <2>2, <3>1 DEF Removal
  <2> QED  BY <2>1, <2>2
<1>2. s # Panic /\ s.res = g /\ s.oldsl = u
  <2>1. s.res = g /\ s.oldsl = u
    BY DEF At
  <2> QED  BY <2>1, NoPanic
<1>3. n \in Nat /\ SubSeq(u, 1, n) = u
  BY SubSeqFull
<1>4. ~ (n > n)
  BY <1>3
<1> HIDE DEF u, n, d, s
<1>5. Instruct(s, d) = At(IF d.op = "Same" THEN g \o u ELSE g, From(u, n))
  <2>1. d.op # "Addition" /\ ~ (d.len > Len(s.oldsl))
    BY <1>1, <1>2, <1>3, <1>4 DEF n
  <2>2. Instruct(s, d) =
          [res |-> IF d.op = "Same" THEN s.res \o SubSeq(s.oldsl, 1, d.len) ELSE s.res,
           oldsl |-> From(s.oldsl, d.len)]
    BY <1>2, <2>1 DEF Instruct
  <2>3. SubSeq(s.oldsl, 1, d.len) = u /\ From(s.oldsl, d.len) = From(u, n) /\ s.res = g
    BY <1>1, <1>2, <1>3
  <2> QED  BY <2>2, <2>3 DEF At
<1> DEFINE h == IF d.op = "Same" THEN g \o u ELSE g
<1>6. Instruct(s, d) = At(h, From(u, n))
  BY <1>5
<1>7. h = IF x.kind = "Same" THEN g \o u ELSE g
  BY <1>1
<1> HIDE DEF h
<1>8. Instruct(s, d).res = h
  BY <1>6 DEF At
<1> QED  BY <1>6, <1>7, <1>8, NoPanic DEF u, d, s

LEMMA NotEmpty ==
  ASSUME NEW T, NL \in T
  PROVE  /\ \A q \in Seq(T) : Append(q, NL) # <<>>
         /\ \A q, r \in Seq(T) : q \o Append(r, NL) # <<>>
<1>1. \A q \in Seq(T) : Append(q, NL) # <<>>
  BY AppendProperties
<1>2. ASSUME NEW q \in Seq(T), NEW r \in Seq(T)
      PROVE  q \o Append(r, NL) # <<>>
  <2>1. Len(q \o Append(r, NL)) = Len(q) + (Len(r) + 1) /\ Len(q) \in Nat /\ Len(r) \in Nat
    OBVIOUS
  <2>2. Len(q \o Append(r, NL)) # 0
    BY <2>1
  <2> QED  BY <2>2
<1> QED  BY <1>1, <1>2

(* The kind of the last piece decides what reconstruct_new returns.        *)
LEMMA LastIsCommonOrRemoved ==
  ASSUME NEW T, NL \in T, NEW old \in Seq(T), NEW new \in Seq(T), NEW p,
         p \in Seq(PiecesOf(T)), Alternate(p),
         TextOf(p, "Add") = WithEnd(old), TextOf(p, "Rem") = WithEnd(new),
         NEW m \in Nat, m = Len(p), m # 0, p[m].kind # "Add"
  PROVE  /\ reconstruct_new(from_changeset(p), old) # Panic
         /\ reconstruct_new(from_changeset(p), old) = TextIs(new) <=> m = 1 \/ p[m].kind = "Same"
<1> DEFINE x == p[m]
           text == x.text
           k == m - 1
           h == First(p, k, "Add")
           g == First(p, k, "Rem")
           d == from_changeset(p)
<1>1. k \in Nat /\ k + 1 = m /\ k + 1 <= Len(p) /\ k < Len(p) /\ m \in 1..m /\ ~(m < m)
  OBVIOUS
<1>2. OneMore(T, p, k, "Add") /\ OneMore(T, p, k, "Rem")
  <2> HIDE DEF k
  <2> QED  BY <1>1, FirstStep
<1>3. First(p, m, "Add") = WithEnd(old) /\ First(p, m, "Rem") = WithEnd(new)
  <2>1. SubSeq(p, 1, m) = p
    BY SubSeqFull
  <2> QED  BY <2>1 DEF First
<1>4. /\ x \in PiecesOf(T) /\ h \in Seq(T) /\ g \in Seq(T)
      /\ WithEnd(old) = h \o Lined(x, "Add") /\ WithEnd(new) = g \o Lined(x, "Rem")
  BY <1>1, <1>2, <1>3 DEF OneMore
<1>5. x.kind \in {"Same", "Rem"} /\ text \in Seq(T)
  BY <1>4 DEF PiecesOf, Kinds
<1>6. Lined(x, "Add") = Append(text, NL)
  BY DEF Lined
<1>7. PICK f : /\ \A i \in 0..Len(d) :
                    f[i] \in LoopStates(T) /\ f[i] = IF i = 0 THEN At(<<>>, old) ELSE Instruct(f[i - 1], d[i])
               /\ reconstruct_new(d, old) = IF f[Len(d)] = Panic THEN Panic ELSE [text |-> f[Len(d)].res]
  <2>1. d \in Seq(Instructions(T))
    BY DiffIs
  <2> HIDE DEF d
  <2> QED  BY <2>1, ReconstructionIs
<1>8. Len(d) = m /\ d[m] = from_difference_last(x)
  BY <1>1, DiffIs
<1> HIDE DEF h, g, x, text
<1>9. old = h \o text
  <2>1. EndsIn(T, old, h, text)
    BY <1>4, <1>5, <1>6 DEF EndsIn
  <2> QED  BY <2>1, EndTaken
<1>10. f[k] = At(g, text)
  <2>1. \A i \in 0..Len(p) : f[i] = IF i = 0 THEN At(<<>>, old) ELSE Instruct(f[i - 1], from_changeset(p)[i])
    BY <1>7, <1>8
  <2>2. ReconstructsTo(T, p, old, f, k)
    <3> HIDE DEF k
    <3> QED  BY <1>1, <2>1, ReconstructsUpTo
  <2> QED  BY <1>5, <1>9, <2>2 DEF ReconstructsTo, h, g
<1> DEFINE s == Instruct(At(g, text), from_difference_last(x))
<1>11. f[m] = s
  <2>1. m \in 0..Len(d) /\ m # 0 /\ m - 1 = k
    BY <1>1, <1>8
  <2> QED  BY <1>7, <1>8, <1>10, <2>1
<1>12. s # Panic /\ s.res = IF x.kind = "Same" THEN g \o text ELSE g
  <2>1. x.kind \in {"Same", "Rem"} /\ x.text \in Seq(T) /\ g \in Seq(T)
    BY <1>4, <1>5 DEF text
  <2> QED  BY ONLY <2>1, LastInstruction DEF text
<1> HIDE DEF s, d, k
<1>13. reconstruct_new(d, old) = TextIs(s.res)
  BY <1>7, <1>8, <1>11, <1>12 DEF TextIs
<1>14. CASE x.kind = "Same"
  <2>1. Lined(x, "Rem") = Append(text, NL)
    BY <1>14 DEF Lined, text
  <2>2. EndsIn(T, new, g, text)
    BY <1>4, <1>5, <2>1 DEF EndsIn
  <2>3. new = g \o text
    BY <2>2, EndTaken
  <2> QED  BY <1>12, <1>13, <1>14, <2>3, TextIsNoPanic DEF x, d
<1>15. CASE x.kind = "Rem"
  <2>1. s.res = g /\ x.kind # "Same"
    BY <1>12, <1>15
  <2>2. g = WithEnd(new)
    <3>1. Lined(x, "Rem") = <<>>
      BY <1>15 DEF Lined
    <3>2. g \o <<>> = g
      BY <1>4
    <3> QED  BY <1>4, <3>1, <3>2
  <2>3. CASE m = 1
    <3>1. g = <<>>
      BY <2>3, FirstNone DEF g, k
    <3>2. \A q \in Seq(T) : Append(q, NL) # <<>>
      BY NotEmpty
    <3>3. new = g
      BY <2>2, <3>1, <3>2 DEF WithEnd
    <3> QED  BY <1>13, <2>1, <2>3, <3>3, TextIsNoPanic DEF d
  <2>4. CASE m # 1
    <3> DEFINE j == k - 1
               y == p[k]
    <3>1. j \in Nat /\ j + 1 = k /\ j + 1 <= Len(p) /\ m \in 2..Len(p) /\ m - 1 = k
      BY <1>1, <2>4 DEF k
    <3>2. y.kind # "Rem"
      BY <1>15, <3>1 DEF Alternate, x
    <3>3. OneMore(T, p, j, "Rem")
      <4> HIDE DEF j
      <4> QED  BY <3>1, FirstStep
    <3>4. g = First(p, j, "Rem") \o Append(y.text, NL) /\ First(p, j, "Rem") \in Seq(T) /\ y.text \in Seq(T)
      BY <3>1, <3>2, <3>3 DEF OneMore, Lined, g, PiecesOf
    <3>5. g # <<>>
      <4>1. \A q, r \in Seq(T) : q \o Append(r, NL) # <<>>
        BY NotEmpty
      <4> QED  BY <3>4, <4>1
    <3>6. g = Append(new, NL)
      BY <2>2, <3>5 DEF WithEnd
    <3>7. g # new
      <4>1. Len(Append(new, NL)) = Len(new) + 1 /\ Len(new) \in Nat
        OBVIOUS
      <4> QED  BY <3>6, <4>1
    <3>8. TextIs(g) # TextIs(new)
      BY <3>7, TextsDiffer
    <3> QED  BY <1>13, <2>1, <2>4, <3>8, TextIsNoPanic DEF d, x
  <2> QED  BY <2>3, <2>4
<1> QED  BY <1>5, <1>14, <1>15

LEMMA LastIsAdded ==
  ASSUME NEW T, NL \in T, NEW old \in Seq(T), NEW new \in Seq(T), NEW p,
         p \in Seq(PiecesOf(T)), Alternate(p),
         TextOf(p, "Add") = WithEnd(old), TextOf(p, "Rem") = WithEnd(new),
         NEW m \in Nat, m = Len(p), m # 0, p[m].kind = "Add"
  PROVE  reconstruct_new(from_changeset(p), old) = IF m = 1 THEN TextIs(new) ELSE Panic
<1> DEFINE x == p[m]
           text == x.text
           k == m - 1
           h == First(p, k, "Add")
           g == First(p, k, "Rem")
           d == from_changeset(p)
<1>1. k \in Nat /\ k + 1 = m /\ k + 1 <= Len(p) /\ k < Len(p) /\ m \in 1..m /\ ~(m < m)
  OBVIOUS
<1>2. OneMore(T, p, k, "Add") /\ OneMore(T, p, k, "Rem")
  <2> HIDE DEF k
  <2> QED  BY <1>1, FirstStep
<1>3. First(p, m, "Add") = WithEnd(old) /\ First(p, m, "Rem") = WithEnd(new)
  <2>1. SubSeq(p, 1, m) = p
    BY SubSeqFull
  <2> QED  BY <2>1 DEF First
<1>4. /\ x \in PiecesOf(T) /\ h \in Seq(T) /\ g \in Seq(T)
      /\ WithEnd(old) = h \o Lined(x, "Add") /\ WithEnd(new) = g \o Lined(x, "Rem")
  BY <1>1, <1>2, <1>3 DEF OneMore
<1>5. text \in Seq(T)
  BY <1>4 DEF PiecesOf
<1>6. Lined(x, "Add") = <<>> /\ Lined(x, "Rem") = Append(text, NL)
  BY DEF Lined
<1>7. PICK f : /\ \A i \in 0..Len(d) :
                    f[i] \in LoopStates(T) /\ f[i] = IF i = 0 THEN At(<<>>, old) ELSE Instruct(f[i - 1], d[i])
               /\ reconstruct_new(d, old) = IF f[Len(d)] = Panic THEN Panic ELSE [text |-> f[Len(d)].res]
  <2>1. d \in Seq(Instructions(T))
    BY DiffIs
  <2> HIDE DEF d
  <2> QED  BY <2>1, ReconstructionIs
<1>8. Len(d) = m /\ d[m] = from_difference_last(x)
  BY <1>1, DiffIs
<1>9. \A i \in 1..m : f[i] = Instruct(f[i - 1], d[i])
  <2> TAKE i \in 1..m
  <2>1. i \in 0..Len(d) /\ i # 0
    BY <1>8
  <2> QED  BY <1>7, <2>1
<1> HIDE DEF d, h, g, x, text
<1>10. CASE m = 1
  <2>1. k = 0 /\ g = <<>>
    BY <1>10, FirstNone DEF g
  <2>2. EndsIn(T, new, g, text)
    BY <1>4, <1>5, <1>6 DEF EndsIn
  <2>3. new = g \o text
    BY <2>2, EndTaken
  <2>4. new = text
    BY <1>5, <2>1, <2>3
  <2>5. f[0] = At(<<>>, old)
    BY <1>7, <1>8
  <2>6. f[1] = Instruct(f[0], d[1])
    <3>1. 1 \in 1..m /\ 1 - 1 = 0
      BY <1>10
    <3> QED  BY <1>9, <3>1
  <2>7. d[1] = [op |-> "Addition", text |-> text]
    BY <1>8, <1>10 DEF from_difference_last, Addition, x, text
  <2> DEFINE s == At(<<>>, old)
             e == <<>>
  <2>8. s # Panic /\ s.res = e
    BY NoPanic DEF At
  <2>9. Instruct(s, d[1]) = [s EXCEPT !.res = @ \o text]
    BY <2>7, <2>8 DEF Instruct
  <2>10. s.res \o text = text
    BY <1>5, <2>8
  <2>11. [s EXCEPT !.res = @ \o text] = [s EXCEPT !.res = text]
    BY <2>10
  <2>12. [s EXCEPT !.res = text] = At(text, old)
    <3> HIDE DEF e
    <3> QED  BY ONLY AtExcept, Zenon
  <2>13. f[1] = At(text, old)
    BY <2>5, <2>6, <2>9, <2>11, <2>12
  <2>14. f[1] # Panic /\ f[1].res = text
    <3>1. At(text, old).res = text
      BY DEF At
    <3> QED  BY <2>13, <3>1, NoPanic
  <2> HIDE DEF s
  <2>15. reconstruct_new(d, old) = [text |-> text]
    BY <1>7, <1>8, <1>10, <2>14
  <2> QED  BY <1>10, <2>4, <2>15 DEF TextIs, d
<1>11. CASE m # 1
  <2> DEFINE j == k - 1
             y == p[k]
             n == Len(y.text)
  <2>1. /\ j \in Nat /\ j + 1 = k /\ j + 1 <= Len(p) /\ j < Len(p) /\ m \in 2..Len(p) /\ m - 1 = k
        /\ k \in 1..Len(p) /\ k < Len(p) /\ k - 1 = j /\ k \in 1..m /\ m \in 1..m
    BY <1>1, <1>11
  <2>2. y.kind # "Add"
    BY <2>1 DEF Alternate
  <2> HIDE DEF k
  <2>3. OneMore(T, p, j, "Add")
    <3> HIDE DEF j
    <3> QED  BY <2>1, FirstStep
  <2>4. /\ h = First(p, j, "Add") \o Append(y.text, NL)
        /\ First(p, j, "Add") \in Seq(T) /\ y.text \in Seq(T) /\ y \in PiecesOf(T)
    BY <2>1, <2>2, <2>3 DEF OneMore, Lined, h, PiecesOf
  <2>5. h = WithEnd(old)
    <3>1. h \o <<>> = h
      BY <1>4
    <3> QED  BY <1>4, <1>6, <3>1
  <2>6. old = First(p, j, "Add") \o y.text
    <3>1. EndsIn(T, old, First(p, j, "Add"), y.text)
      BY <2>4, <2>5 DEF EndsIn
    <3> QED  BY <3>1, EndTaken
  <2>7. f[j] = At(First(p, j, "Rem"), y.text)
    <3>1. \A i \in 0..Len(p) : f[i] = IF i = 0 THEN At(<<>>, old) ELSE Instruct(f[i - 1], from_changeset(p)[i])
      BY <1>7, <1>8 DEF d
    <3>2. ReconstructsTo(T, p, old, f, j)
      <4> HIDE DEF j
      <4> QED  BY <2>1, <3>1, ReconstructsUpTo
    <3> QED  BY <2>4, <2>6, <3>2 DEF ReconstructsTo
  <2>8. d[k] = from_difference(y)
    BY <2>1, DiffIs DEF d
  <2>9. d[k].op # "Addition" /\ d[k].len = n + 1
    <3>1. y.kind \in {"Same", "Rem"}
      BY <2>2, <2>4 DEF PiecesOf, Kinds
    <3>2. CASE y.kind = "Same"
      <4>1. d[k] = [op |-> "Same", len |-> n + 1]
        BY <2>8, <3>2 DEF from_difference, Same
      <4> QED  BY <4>1
    <3>3. CASE y.kind = "Rem"
      <4>1. d[k] = [op |-> "Removal", len |-> n + 1]
        BY <2>8, <3>3 DEF from_difference, Removal
      <4> QED  BY <4>1
    <3> QED  BY <3>1, <3>2, <3>3
  <2>10. f[j].oldsl = y.text
    BY <2>7 DEF At
  <2>11. n + 1 > n
    BY <2>4
  <2>12. f[k] = Panic
    <3>1. f[k] = Instruct(f[j], d[k])
      BY <1>9, <2>1
    <3>2. d[k].len > Len(f[j].oldsl)
      BY <2>9, <2>10, <2>11
    <3> QED  BY <2>9, <3>1, <3>2 DEF Instruct
  <2>13. f[m] = Panic
    BY <1>9, <2>1, <2>12 DEF Instruct
  <2> QED  BY <1>7, <1>8, <1>11, <2>13 DEF d
<1> QED  BY <1>10, <1>11

LEMMA EndIsSameIff ==
  ASSUME NEW T, NL \in T, NEW old \in Seq(T), NEW new \in Seq(T), old # new,
         NEW p \in Changesets(old, new)
  PROVE  reconstruct_new(from_changeset(p), old) = [text |-> new] <=> EndIsSame(from_changeset(p))
<1> DEFINE m == Len(p)
           d == from_changeset(p)
           got == reconstruct_new(d, old)
<1>1. MergedFrom(T, LinesOf(old), LinesOf(new), p)
  BY ChangesetIs
<1>2. Ended(LinesOf(old)) = WithEnd(old) /\ Ended(LinesOf(new)) = WithEnd(new)
  BY LinesOfIs DEF WithEnd
<1>3. p \in Seq(PiecesOf(T)) /\ Alternate(p) /\ TextOf(p, "Add") = WithEnd(old) /\ TextOf(p, "Rem") = WithEnd(new)
  BY <1>1, <1>2 DEF MergedFrom
<1>4. /\ m \in Nat /\ Len(d) = m
      /\ \A i \in 1..m : p[i] \in PiecesOf(T) /\ d[i] = IF i < m THEN from_difference(p[i]) ELSE from_difference_last(p[i])
  BY <1>3, DiffIs
<1>5. m # 0
  <2> SUFFICES ASSUME m = 0 PROVE FALSE
    OBVIOUS
  <2>1. p = <<>>
    <3>1. p \in Seq(PiecesOf(T)) /\ Len(p) = 0
      BY <1>3
    <3> HIDE DEF m
    <3> QED  BY ONLY <3>1, EmptySeq
  <2>2. WithEnd(old) = <<>> /\ WithEnd(new) = <<>>
    BY <1>3, <2>1, TextOfEmpty
  <2>3. \A q \in Seq(T) : Append(q, NL) # <<>>
    BY NotEmpty
  <2>4. old = <<>> /\ new = <<>>
    BY <2>2, <2>3 DEF WithEnd
  <2> QED  BY <2>4
<1> DEFINE x == p[m]
<1>6. d[m] = from_difference_last(x) /\ x.kind \in Kinds
  <2>1. m \in 1..m /\ ~(m < m)
    BY <1>4, <1>5
  <2> QED  BY <1>4, <2>1 DEF PiecesOf
<1>7. d[m].op = "Same" <=> x.kind = "Same"
  <2> HIDE DEF d, x, m
  <2>1. CASE x.kind = "Same"
    <3>1. d[m] = [op |-> "Same", len |-> Len(x.text)]
      BY <1>6, <2>1 DEF from_difference_last, Same
    <3> QED  BY <2>1, <3>1
  <2>2. CASE x.kind = "Rem"
    <3>1. d[m] = [op |-> "Removal", len |-> Len(x.text)]
      BY <1>6, <2>2 DEF from_difference_last, Removal
    <3> QED  BY <2>2, <3>1
  <2>3. CASE x.kind = "Add"
    <3>1. d[m] = [op |-> "Addition", text |-> x.text]
      BY <1>6, <2>3 DEF from_difference_last, Addition
    <3> QED  BY <2>3, <3>1
  <2> QED  BY <1>6, <2>1, <2>2, <2>3 DEF Kinds
<1>8. EndIsSame(d) <=> m = 1 \/ x.kind = "Same"
  BY <1>4, <1>7 DEF EndIsSame, Last
<1>9. CASE x.kind # "Add"
  <2>1. got = TextIs(new) <=> m = 1 \/ x.kind = "Same"
    <3>1. m = Len(p) /\ x.kind # "Add"
      BY <1>9
    <3> HIDE DEF m
    <3> QED  BY <1>3, <1>4, <1>5, <3>1, LastIsCommonOrRemoved
  <2> QED  BY <1>8, <2>1 DEF TextIs
<1>10. CASE x.kind = "Add"
  <2>1. got = IF m = 1 THEN TextIs(new) ELSE Panic
    <3>1. m = Len(p) /\ x.kind = "Add"
      BY <1>10
    <3> HIDE DEF m
    <3> QED  BY <1>3, <1>4, <1>5, <3>1, LastIsAdded
  <2> HIDE DEF got, d, m, x
  <2>2. got = TextIs(new) <=> m = 1
    BY <2>1, TextIsNoPanic
  <2>3. x.kind # "Same"
    BY <1>10
  <2> QED  BY <1>8, <2>2, <2>3 DEF TextIs, got, d
<1> QED  BY <1>9, <1>10

-----------------------------------------------------------------------------
(* Reading what was written.                                               *)

(* What is left of a concatenation behind each of its parts.               *)
Rests(X, e, z, R) ==
  /\ \A k \in 0..Len(e) : R[k] \in X
  /\ R[0] = FlattenSeq(e) \o z
  /\ \A k \in 1..Len(e) : R[k - 1] = e[k] \o R[k]
  /\ R[Len(e)] = z

LEMMA RestsExist ==
  ASSUME NEW V, NEW e, e \in Seq(Seq(V)), NEW z, z \in Seq(V)
  PROVE  \E R : Rests(Seq(V), e, z, R)
<1> DEFINE X == Seq(V)
           n == Len(e)
           F == [j \in 1..n |-> [y \in X |-> e[n - j + 1] \o y]]
<1>1. Monoid(X) /\ (\A p, q \in X : p \o q \in X) /\ \A p, q, r \in X : (p \o q) \o r = p \o (q \o r)
  BY SeqIsMonoid
<1>2. e \in Seq(X) /\ z \in X
  OBVIOUS
<1> HIDE DEF X
<1>3. n \in Nat /\ \A k \in 1..n : e[k] \in X
  BY <1>2
<1>4. F \in [1..n -> [X -> X]] /\ \A j \in 1..n : \A y \in X : F[j][y] = e[n - j + 1] \o y
  <2>1. \A j \in 1..n : n - j + 1 \in 1..n
    BY <1>3
  <2> HIDE DEF n
  <2> QED  BY <1>1, <1>3, <2>1
<1>5. PICK h : h \in [0..n -> X] /\ h[0] = z /\ \A j \in 1..n : h[j] = F[j][h[j - 1]]
  <2>1. n \in Nat
    BY <1>3
  <2>2. F \in [1..n -> [X -> X]]
    BY <1>4
  <2> HIDE DEF F, n
  <2> QED  BY ONLY <1>2, <2>1, <2>2, RecursionExists
<1> HIDE DEF F
<1> DEFINE R == [k \in 0..n |-> h[n - k]]
<1>6. \A k \in 0..n : n - k \in 0..n /\ R[k] = h[n - k] /\ R[k] \in X
  <2>1. \A k \in 0..n : n - k \in 0..n
    BY <1>3
  <2> HIDE DEF n
  <2> QED  BY <1>5, <2>1
<1>7. \A k \in 1..n : R[k - 1] = e[k] \o R[k]
  <2> TAKE k \in 1..n
  <2> DEFINE j == n - k + 1
  <2>1. k \in 0..n /\ k - 1 \in 0..n /\ n - (k - 1) = j /\ j \in 1..n /\ j - 1 = n - k /\ n - j + 1 = k /\ j - 1 \in 0..n
    BY <1>3
  <2> HIDE DEF j, n
  <2>2. R[k - 1] = h[j] /\ R[k] = h[j - 1] /\ h[j - 1] \in X
    BY <1>5, <1>6, <2>1
  <2> QED  BY <1>4, <1>5, <2>1, <2>2
<1>8. R[n] = z
  <2>1. n \in 0..n /\ n - n = 0
    BY <1>3
  <2> QED  BY <1>5, <1>6, <2>1
<1> HIDE DEF R
<1>9. PICK g : /\ \A i \in 0..n : g[i] \in X
               /\ g[0] = <<>>
               /\ \A i \in 1..n : g[i] = g[i - 1] \o e[i]
               /\ FlattenSeq(e) = g[n]
  BY <1>1, <1>2, FlattenRuns
<1> DEFINE Holds(k) == g[k] \o R[k] = R[0]
           A == {k \in Nat : k <= n => Holds(k)}
<1> HIDE DEF Holds
<1>10. 0 \in A
  <2>1. 0 \in 0..n
    BY <1>3
  <2>2. <<>> \o R[0] = R[0]
    BY <1>1, <1>6, <2>1 DEF Monoid
  <2> QED  BY <1>9, <2>2 DEF Holds
<1>11. ASSUME NEW k \in Nat, k \in A PROVE k + 1 \in A
  <2> SUFFICES ASSUME k + 1 <= n PROVE Holds(k + 1)
    OBVIOUS
  <2>1. k + 1 \in 1..n /\ (k + 1) - 1 = k /\ k \in 0..n /\ k + 1 \in 0..n /\ k <= n
    BY <1>3
  <2>2. g[k + 1] = g[k] \o e[k + 1] /\ R[k] = e[k + 1] \o R[k + 1]
    BY <1>7, <1>9, <2>1
  <2>3. g[k] \in X /\ e[k + 1] \in X /\ R[k + 1] \in X
    BY <1>3, <1>6, <1>9, <2>1
  <2>4. (g[k] \o e[k + 1]) \o R[k + 1] = g[k] \o (e[k + 1] \o R[k + 1])
    BY <1>1, <2>3
  <2>5. g[k] \o R[k] = R[0]
    BY <1>11, <2>1 DEF Holds
  <2> QED  BY <2>2, <2>4, <2>5 DEF Holds
<1>12. n \in A
  <2>1. n \in Nat
    BY <1>3
  <2> HIDE DEF A, n
  <2> QED  BY <1>10, <1>11, <2>1, SetInduction
<1>13. g[n] \o z = R[0]
  <2>1. n <= n
    BY <1>3
  <2> QED  BY <1>8, <1>12, <2>1 DEF Holds
<1>14. Rests(X, e, z, R)
  BY <1>6, <1>7, <1>8, <1>9, <1>13 DEF Rests
<1> QED  BY <1>14 DEF X

LEMMA Agree ==
  ASSUME NEW n \in Nat, NEW f, NEW g, f[0] = g[0], \A k \in 1..n : f[k - 1] = g[k - 1] => f[k] = g[k]
  PROVE  f[n] = g[n]
<1> DEFINE A == {k \in Nat : k <= n => f[k] = g[k]}
<1>1. 0 \in A
  OBVIOUS
<1>2. ASSUME NEW k \in Nat, k \in A PROVE k + 1 \in A
  <2> SUFFICES ASSUME k + 1 <= n PROVE f[k + 1] = g[k + 1]
    OBVIOUS
  <2>1. k + 1 \in 1..n /\ (k + 1) - 1 = k /\ k <= n
    OBVIOUS
  <2> QED  BY <1>2, <2>1
<1> HIDE DEF A
<1>3. n \in A
  BY <1>1, <1>2, SetInduction
<1> QED  BY <1>3 DEF A

(* The tokens of a multi blob of texts of T.                               *)
Tokens(T) == ({"u8", "u64"} \X Nat) \cup ({"byte"} \X T) \cup ({"digest"} \X Seq(T))

LEMMA TokensOf ==
  ASSUME NEW T
  PROVE  /\ \A n \in Nat : u8(n) \in Seq(Tokens(T)) /\ u64(n) \in Seq(Tokens(T))
         /\ \A s \in Seq(T) : digest(s) \in Seq(Tokens(T)) /\ bytes(s) \in Seq(Tokens(T)) /\ Len(bytes(s)) = Len(s)
         /\ \A s \in Seq(T) : delim(s) \in Seq(Tokens(T))
<1> DEFINE V == Tokens(T)
<1>1. /\ \A n \in Nat : <<"u8", n>> \in V /\ <<"u64", n>> \in V
      /\ \A s \in Seq(T) : <<"digest", s>> \in V
      /\ \A c \in T : <<"byte", c>> \in V
  BY DEF Tokens
<1> HIDE DEF V
<1>2. \A n \in Nat : u8(n) \in Seq(V) /\ u64(n) \in Seq(V)
  <2>1. \A v \in V : <<v>> \in Seq(V)
    OBVIOUS
  <2> TAKE n \in Nat
  <2>2. <<"u8", n>> \in V /\ <<"u64", n>> \in V
    BY <1>1
  <2>3. << <<"u8", n>> >> \in Seq(V) /\ << <<"u64", n>> >> \in Seq(V)
    BY <2>1, <2>2
  <2> QED  BY <2>3 DEF u8, u64
<1>3. ASSUME NEW s \in Seq(T)
      PROVE  digest(s) \in Seq(V) /\ bytes(s) \in Seq(V) /\ Len(bytes(s)) = Len(s)
  <2>1. digest(s) \in Seq(V)
    BY <1>1 DEF digest
  <2>2. Len(s) \in Nat /\ DOMAIN s = 1..Len(s) /\ \A i \in 1..Len(s) : s[i] \in T
    OBVIOUS
  <2>3. bytes(s) \in [1..Len(s) -> V]
    BY <1>1, <2>2 DEF bytes
  <2> QED  BY <2>1, <2>2, <2>3, SeqOfFunction
<1>4. ASSUME NEW s \in Seq(T) PROVE delim(s) \in Seq(V)
  <2>1. Len(s) \in Nat
    OBVIOUS
  <2>2. u64(Len(s)) \in Seq(V) /\ bytes(s) \in Seq(V)
    BY <1>2, <1>3, <2>1
  <2> QED  BY <2>2 DEF delim
<1> QED  BY <1>2, <1>3, <1>4 DEF V

Got(rest, val) == [rest |-> rest, val |-> val]

LEMMA GotIs == \A rest, val : Got(rest, val) # Fail /\ Got(rest, val).rest = rest /\ Got(rest, val).val = val
<1> TAKE rest, val
<1>1. DOMAIN Got(rest, val) = {"rest", "val"} /\ DOMAIN Fail = {"failed"}
  BY DEF Got, Fail
<1>2. "rest" # "failed"
  OBVIOUS
<1>3. Got(rest, val).rest = rest /\ Got(rest, val).val = val
  BY DEF Got
<1> HIDE DEF Got
<1> QED  BY <1>1, <1>2, <1>3

(* in is p, and z behind it.                                               *)
Before(V, p, z, in) == p \in Seq(V) /\ z \in Seq(V) /\ in = p \o z

LEMMA ReadToken ==
  ASSUME NEW V, NEW type, NEW v, NEW z, NEW in, Before(V, << <<type, v>> >>, z, in)
  PROVE  read(type, in) = Got(z, v)
<1> DEFINE w == <<type, v>>
           p == <<w>>
<1>1. w[1] = type /\ w[2] = v
  OBVIOUS
<1>2. p \in Seq(V) /\ z \in Seq(V) /\ in = p \o z
  BY DEF Before
<1> HIDE DEF w
<1>3. in \in Seq(V) /\ Len(in) = 1 + Len(z) /\ in[1] = w /\ Len(z) \in Nat /\ \A i \in 1..Len(z) : in[1 + i] = z[i]
  BY <1>2
<1> HIDE DEF p
<1>4. in # <<>> /\ Head(in) = w
  BY <1>3
<1>5. Tail(in) = z
  <2>1. Tail(in) \in Seq(V) /\ Len(Tail(in)) = Len(z) /\ \A i \in 1..Len(z) : Tail(in)[i] = in[i + 1]
    BY <1>3, <1>4, HeadTailProperties
  <2>2. \A i \in 1..Len(z) : Tail(in)[i] = z[i]
    <3>1. \A i \in 1..Len(z) : 1 + i = i + 1
      OBVIOUS
    <3> QED  BY <1>3, <2>1, <3>1
  <2> HIDE DEF w
  <2>3. z \in Seq(V)
    BY <1>2
  <2> QED  BY ONLY <2>1, <2>2, <2>3, SeqEqual
<1> QED  BY <1>1, <1>4, <1>5 DEF read, Got

LEMMA ReadBytes ==
  ASSUME NEW T, NEW s, s \in Seq(T), NEW z, NEW in, Before(Tokens(T), bytes(s), z, in)
  PROVE  read_bytes(Len(s), in) = Got(z, s)
<1> DEFINE V == Tokens(T)
           p == bytes(s)
           n == Len(s)
<1>1. n \in Nat /\ DOMAIN s = 1..n /\ \A i \in 1..n : s[i] \in T
  OBVIOUS
<1>2. \A i \in 1..n : p[i] = <<"byte", s[i]>>
  BY <1>1 DEF bytes
<1>3. \A i \in 1..n : p[i][1] = "byte" /\ p[i][2] = s[i]
  BY <1>2
<1>4. p \in Seq(V) /\ z \in Seq(V) /\ in = p \o z
  BY DEF Before
<1>5. Len(p) = n
  BY TokensOf
<1> HIDE DEF V, p
<1>6. Len(p) <= Len(in) /\ From(in, Len(p)) = z
  BY ONLY <1>4, Slices
<1>7. in \in Seq(V) /\ \A i \in 1..Len(p) : in[i] = p[i]
  BY <1>4
<1>8. \A i \in 1..n : in[i][1] = "byte" /\ in[i][2] = s[i]
  BY <1>3, <1>5, <1>7
<1> DEFINE v == [i \in 1..n |-> in[i][2]]
<1>9. v = s
  <2>1. v = [i \in 1..n |-> s[i]]
    BY <1>8
  <2>2. s = [i \in 1..n |-> s[i]]
    BY <1>1
  <2> QED  BY <2>1, <2>2
<1>10. ~ (n > Len(in))
  <2>1. Len(in) \in Nat
    BY <1>7
  <2> QED  BY <1>1, <1>5, <1>6, <2>1
<1>11. read_bytes(n, in) = [rest |-> From(in, n), val |-> v]
  BY <1>8, <1>10 DEF read_bytes
<1> QED  BY <1>5, <1>6, <1>9, <1>11 DEF Got

LEMMA BeforeBoth ==
  ASSUME NEW V, NEW p, NEW q, NEW z, NEW in, p \in Seq(V), q \in Seq(V), Before(V, p \o q, z, in)
  PROVE  \E y : Before(V, p, y, in) /\ Before(V, q, z, y)
<1> DEFINE y == q \o z
<1>1. p \in Seq(V) /\ q \in Seq(V) /\ z \in Seq(V) /\ in = (p \o q) \o z
  BY DEF Before
<1>2. y \in Seq(V) /\ (p \o q) \o z = p \o y
  BY ONLY <1>1
<1> HIDE DEF y
<1>3. Before(V, p, y, in)
  BY <1>1, <1>2 DEF Before
<1>4. Before(V, q, z, y)
  BY <1>1 DEF Before, y
<1> QED  BY <1>3, <1>4

LEMMA ReadDelim ==
  ASSUME NEW T, NEW s, s \in Seq(T), NEW z, NEW in, Before(Tokens(T), delim(s), z, in)
  PROVE  read_delim(in) = Got(z, s)
<1> DEFINE V == Tokens(T)
           a == u64(Len(s))
           b == bytes(s)
<1>1. a \in Seq(V) /\ b \in Seq(V)
  <2>1. Len(s) \in Nat
    OBVIOUS
  <2> QED  BY <2>1, TokensOf
<1>2. PICK y : Before(V, a, y, in) /\ Before(V, b, z, y)
  <2>1. Before(V, a \o b, z, in)
    BY DEF delim
  <2> HIDE DEF V, a, b
  <2> QED  BY ONLY <1>1, <2>1, BeforeBoth
<1>3. read("u64", in) = Got(y, Len(s))
  <2>1. Before(V, << <<"u64", Len(s)>> >>, y, in)
    BY <1>2 DEF u64
  <2> HIDE DEF V
  <2> QED  BY ONLY <2>1, ReadToken
<1>4. read_bytes(Len(s), y) = Got(z, s)
  <2>1. s \in Seq(T) /\ Before(Tokens(T), bytes(s), z, y)
    BY <1>2
  <2> QED  BY ONLY <2>1, ReadBytes
<1> DEFINE len == read("u64", in)
<1>5. read_delim(in) = IF len = Fail THEN Fail ELSE read_bytes(len.val, len.rest)
  BY DEF read_delim
<1>6. len # Fail /\ len.val = Len(s) /\ len.rest = y
  BY <1>3, GotIs
<1> HIDE DEF len
<1> QED  BY <1>4, <1>5, <1>6

LEMMA InstructionIs ==
  ASSUME NEW T, NEW d, d \in Instructions(T)
  PROVE  \/ d.op = "Same" /\ d.len \in Nat /\ d = Same(d.len)
         \/ d.op = "Removal" /\ d.len \in Nat /\ d = Removal(d.len)
         \/ d.op = "Addition" /\ d.text \in Seq(T) /\ d = Addition(d.text)
<1>1. CASE d \in [op : {"Same", "Removal"}, len : Nat]
  <2>1. d = [op |-> d.op, len |-> d.len] /\ d.op \in {"Same", "Removal"} /\ d.len \in Nat
    BY <1>1
  <2> QED  BY <2>1 DEF Same, Removal
<1>2. CASE d \in [op : {"Addition"}, text : Seq(T)]
  <2>1. d = [op |-> d.op, text |-> d.text] /\ d.op = "Addition" /\ d.text \in Seq(T)
    BY <1>2
  <2> QED  BY <2>1 DEF Addition
<1> QED  BY <1>1, <1>2 DEF Instructions

LEMMA SerializeInstructionIs ==
  ASSUME NEW T, NEW d, d \in Instructions(T)
  PROVE  /\ SerializeInstruction(d) \in Seq(Tokens(T))
         /\ d.op = "Same" => SerializeInstruction(d) = u8(1) \o u64(d.len)
         /\ d.op = "Addition" => SerializeInstruction(d) = u8(2) \o delim(d.text)
         /\ d.op = "Removal" => SerializeInstruction(d) = u8(3) \o u64(d.len)
<1> DEFINE V == Tokens(T)
<1>1. /\ \A n \in Nat : u8(n) \in Seq(V) /\ u64(n) \in Seq(V)
      /\ \A s \in Seq(T) : delim(s) \in Seq(V)
  BY TokensOf
<1>2. 1 \in Nat /\ 2 \in Nat /\ 3 \in Nat
  OBVIOUS
<1>3. u8(1) \in Seq(V) /\ u8(2) \in Seq(V) /\ u8(3) \in Seq(V)
  BY <1>1, <1>2
<1>4. \A p, q \in Seq(V) : p \o q \in Seq(V)
  OBVIOUS
<1>5. \/ d.op = "Same" /\ d.len \in Nat
      \/ d.op = "Removal" /\ d.len \in Nat
      \/ d.op = "Addition" /\ d.text \in Seq(T)
  BY InstructionIs
<1> HIDE DEF V
<1>6. CASE d.op = "Same"
  <2>1. SerializeInstruction(d) = u8(1) \o u64(d.len)
    BY <1>6 DEF SerializeInstruction
  <2>2. u64(d.len) \in Seq(V)
    BY <1>1, <1>5, <1>6
  <2> QED  BY <1>3, <1>4, <1>6, <2>1, <2>2 DEF V
<1>7. CASE d.op = "Removal"
  <2>1. SerializeInstruction(d) = u8(3) \o u64(d.len)
    BY <1>7 DEF SerializeInstruction
  <2>2. u64(d.len) \in Seq(V)
    BY <1>1, <1>5, <1>7
  <2> QED  BY <1>3, <1>4, <1>7, <2>1, <2>2 DEF V
<1>8. CASE d.op = "Addition"
  <2>1. SerializeInstruction(d) = u8(2) \o delim(d.text)
    BY <1>8 DEF SerializeInstruction
  <2>2. delim(d.text) \in Seq(V)
    BY <1>1, <1>5, <1>8
  <2> QED  BY <1>3, <1>4, <1>8, <2>1, <2>2 DEF V
<1> QED  BY <1>5, <1>6, <1>7, <1>8

(* A token of one byte, and one more part behind it.                       *)
LEMMA ReadKind ==
  ASSUME NEW T, NEW n \in Nat, NEW q, q \in Seq(Tokens(T)), NEW z, NEW in,
         Before(Tokens(T), u8(n) \o q, z, in)
  PROVE  \E y : read("u8", in) = Got(y, n) /\ Before(Tokens(T), q, z, y)
<1> DEFINE V == Tokens(T)
           a == u8(n)
<1>1. a \in Seq(V)
  BY TokensOf
<1>2. q \in Seq(V) /\ Before(V, a \o q, z, in)
  OBVIOUS
<1>3. PICK y : Before(V, a, y, in) /\ Before(V, q, z, y)
  <2> HIDE DEF V, a
  <2> QED  BY ONLY <1>1, <1>2, BeforeBoth
<1>4. read("u8", in) = Got(y, n)
  <2>1. Before(V, << <<"u8", n>> >>, y, in)
    BY <1>3 DEF u8
  <2> HIDE DEF V
  <2> QED  BY ONLY <2>1, ReadToken
<1> QED  BY <1>3, <1>4

LEMMA ReadU64 ==
  ASSUME NEW V, NEW n, NEW z, NEW in, Before(V, u64(n), z, in)
  PROVE  read("u64", in) = Got(z, n)
BY ReadToken DEF u64

LEMMA ReadInstruction ==
  ASSUME NEW T, NEW d, d \in Instructions(T), NEW z, NEW in,
         Before(Tokens(T), SerializeInstruction(d), z, in)
  PROVE  DeserializeInstruction(in) = Got(z, d)
<1> DEFINE V == Tokens(T)
           kind == read("u8", in)
           body == IF kind.val = 2 THEN read_delim(kind.rest) ELSE read("u64", kind.rest)
<1>1. /\ \A n \in Nat : u64(n) \in Seq(V)
      /\ \A s \in Seq(T) : delim(s) \in Seq(V)
  BY TokensOf
<1>2. DeserializeInstruction(in) =
        IF kind = Fail \/ body = Fail THEN Fail
        ELSE [rest |-> body.rest,
              val |-> CASE kind.val = 1 -> Same(body.val)
                        [] kind.val = 2 -> Addition(body.val)
                        [] kind.val = 3 -> Removal(body.val)]
  BY DEF DeserializeInstruction
<1>3. \/ d.op = "Same" /\ d.len \in Nat /\ d = Same(d.len)
      \/ d.op = "Removal" /\ d.len \in Nat /\ d = Removal(d.len)
      \/ d.op = "Addition" /\ d.text \in Seq(T) /\ d = Addition(d.text)
  BY InstructionIs
<1>4. CASE d.op = "Same"
  <2>1. SerializeInstruction(d) = u8(1) \o u64(d.len) /\ u64(d.len) \in Seq(V) /\ 1 \in Nat
    BY <1>1, <1>3, <1>4, SerializeInstructionIs
  <2>2. PICK y : kind = Got(y, 1) /\ Before(V, u64(d.len), z, y)
    BY <2>1, ReadKind
  <2>3. kind # Fail /\ kind.val = 1 /\ kind.rest = y
    BY <2>2, GotIs
  <2>4. read("u64", y) = Got(z, d.len)
    BY <2>2, ReadU64
  <2> HIDE DEF kind
  <2>5. body = Got(z, d.len)
    BY <2>3, <2>4
  <2>6. body # Fail /\ body.val = d.len /\ body.rest = z
    BY <2>5, GotIs
  <2> HIDE DEF body
  <2> QED  BY <1>2, <1>3, <1>4, <2>3, <2>6 DEF Got
<1>5. CASE d.op = "Removal"
  <2>1. SerializeInstruction(d) = u8(3) \o u64(d.len) /\ u64(d.len) \in Seq(V) /\ 3 \in Nat
    BY <1>1, <1>3, <1>5, SerializeInstructionIs
  <2>2. PICK y : kind = Got(y, 3) /\ Before(V, u64(d.len), z, y)
    BY <2>1, ReadKind
  <2>3. kind # Fail /\ kind.val = 3 /\ kind.rest = y
    BY <2>2, GotIs
  <2>4. read("u64", y) = Got(z, d.len)
    BY <2>2, ReadU64
  <2> HIDE DEF kind
  <2>5. body = Got(z, d.len)
    BY <2>3, <2>4
  <2>6. body # Fail /\ body.val = d.len /\ body.rest = z
    BY <2>5, GotIs
  <2> HIDE DEF body
  <2> QED  BY <1>2, <1>3, <1>5, <2>3, <2>6 DEF Got
<1>6. CASE d.op = "Addition"
  <2>1. SerializeInstruction(d) = u8(2) \o delim(d.text) /\ delim(d.text) \in Seq(V) /\ 2 \in Nat
        /\ d.text \in Seq(T)
    BY <1>1, <1>3, <1>6, SerializeInstructionIs
  <2>2. PICK y : kind = Got(y, 2) /\ Before(V, delim(d.text), z, y)
    BY <2>1, ReadKind
  <2>3. kind # Fail /\ kind.val = 2 /\ kind.rest = y
    BY <2>2, GotIs
  <2>4. read_delim(y) = Got(z, d.text)
    <3>1. d.text \in Seq(T) /\ Before(Tokens(T), delim(d.text), z, y)
      BY <2>1, <2>2
    <3> QED  BY ONLY <3>1, ReadDelim
  <2> HIDE DEF kind
  <2>5. body = Got(z, d.text)
    BY <2>3, <2>4
  <2>6. body # Fail /\ body.val = d.text /\ body.rest = z
    BY <2>5, GotIs
  <2> HIDE DEF body
  <2> QED  BY <1>2, <1>3, <1>6, <2>3, <2>6 DEF Got
<1> QED  BY <1>3, <1>4, <1>5, <1>6

(* One turn of ReadMany.                                                   *)
ReadStep(before, one) ==
  IF before = Fail \/ one = Fail THEN Fail ELSE Got(one.rest, Append(before.val, one.val))

(* g goes through the list d, written as the parts e with z behind them.   *)
Follows(V, d, e, z, in, g) ==
  /\ g[0] = Got(in, <<>>) /\ g[Len(d)] = Got(z, d)
  /\ \A k \in 1..Len(d) :
       \E y : Before(V, e[k], y, g[k - 1].rest) /\ g[k] = ReadStep(g[k - 1], Got(y, d[k]))
  /\ g = [k \in 0..Len(d) |-> g[k]]

LEMMA FollowsExists ==
  ASSUME NEW V, NEW D, NEW d, d \in Seq(D), NEW e, e \in Seq(Seq(V)), Len(e) = Len(d),
         NEW z, NEW in, Before(V, FlattenSeq(e), z, in)
  PROVE  \E g : Follows(V, d, e, z, in, g)
<1> DEFINE n == Len(d)
           X == Seq(V)
<1>1. n \in Nat /\ \A k \in 1..n : d[k] \in D
  OBVIOUS
<1>2. e \in Seq(Seq(V)) /\ z \in Seq(V) /\ in = FlattenSeq(e) \o z
  BY DEF Before
<1>3. \A k \in 1..n : e[k] \in X
  <2>1. e \in Seq(X)
    OBVIOUS
  <2> HIDE DEF X
  <2> QED  BY <2>1
<1>4. PICK R : Rests(Seq(V), e, z, R)
  BY ONLY <1>2, RestsExist
<1>5. /\ \A k \in 0..n : R[k] \in X
      /\ R[0] = in
      /\ \A k \in 1..n : R[k - 1] = e[k] \o R[k]
      /\ R[n] = z
  BY <1>2, <1>4 DEF Rests
<1> DEFINE g == [k \in 0..n |-> Got(R[k], SubSeq(d, 1, k))]
<1>6. g[0] = Got(in, <<>>)
  <2>1. 0 \in 0..n /\ SubSeq(d, 1, 0) = <<>>
    BY <1>1, SubSeqEmpty
  <2> QED  BY <1>5, <2>1
<1>7. g[n] = Got(z, d)
  <2>1. n \in 0..n /\ SubSeq(d, 1, n) = d
    BY <1>1, SubSeqFull
  <2> QED  BY <1>5, <2>1
<1>8. ASSUME NEW k \in 1..n
      PROVE  Before(V, e[k], R[k], g[k - 1].rest) /\ g[k] = ReadStep(g[k - 1], Got(R[k], d[k]))
  <2> DEFINE j == k - 1
             p == SubSeq(d, 1, j)
  <2>1. j \in Nat /\ j \in 0..n /\ k \in 0..n /\ j + 1 = k /\ j + 1 <= Len(d)
    BY <1>1
  <2>2. SubSeq(d, 1, k) = Append(p, d[k])
    <3>1. d \in Seq(D)
      OBVIOUS
    <3>2. SubSeq(d, 1, j + 1) = Append(SubSeq(d, 1, j), d[j + 1])
      <4> HIDE DEF j
      <4> QED  BY ONLY <2>1, <3>1, PrefixStep
    <3> QED  BY <2>1, <3>2
  <2>3. g[j] = Got(R[j], p) /\ g[k] = Got(R[k], SubSeq(d, 1, k))
    BY <2>1
  <2> HIDE DEF p, g, j
  <2>4. g[j] # Fail /\ g[j].rest = R[j] /\ g[j].val = p
    BY <2>3, GotIs
  <2>5. Before(V, e[k], R[k], g[j].rest)
    <3>1. e[k] \in X /\ R[k] \in X /\ R[j] = e[k] \o R[k]
      BY <1>3, <1>5, <2>1 DEF j
    <3> QED  BY <2>4, <3>1 DEF Before
  <2>6. ReadStep(g[j], Got(R[k], d[k])) = Got(R[k], Append(p, d[k]))
    BY <2>4, GotIs DEF ReadStep
  <2> QED  BY <2>2, <2>3, <2>5, <2>6 DEF j
<1>9. g = [k \in 0..n |-> g[k]]
  OBVIOUS
<1> HIDE DEF g
<1>10. Follows(V, d, e, z, in, g)
  BY <1>6, <1>7, <1>8, <1>9 DEF Follows
<1> QED  BY <1>10

ReadsInstructions(n, in, f) ==
  f = [k \in 0..n |->
         IF k = 0 THEN Got(in, <<>>)
         ELSE ReadStep(f[k - 1], DeserializeInstruction(f[k - 1].rest))]

LEMMA SerializeDiffIs ==
  ASSUME NEW T, NEW d, d \in Seq(Instructions(T))
  PROVE  LET e == [i \in DOMAIN d |-> SerializeInstruction(d[i])]
         IN /\ e \in Seq(Seq(Tokens(T))) /\ Len(e) = Len(d)
            /\ \A i \in 1..Len(d) : d[i] \in Instructions(T) /\ e[i] = SerializeInstruction(d[i])
            /\ u64(Len(d)) \in Seq(Tokens(T)) /\ FlattenSeq(e) \in Seq(Tokens(T))
<1> DEFINE V == Tokens(T)
           D == Instructions(T)
           n == Len(d)
           e == [i \in DOMAIN d |-> SerializeInstruction(d[i])]
           X == Seq(V)
<1>0. d \in Seq(D)
  OBVIOUS
<1>1. \A x \in D : SerializeInstruction(x) \in X
  BY SerializeInstructionIs
<1> HIDE DEF D
<1>2. n \in Nat /\ DOMAIN d = 1..n /\ \A i \in 1..n : d[i] \in D
  BY <1>0
<1>3. e \in Seq(X) /\ Len(e) = n /\ \A i \in 1..n : e[i] = SerializeInstruction(d[i])
  <2> HIDE DEF X
  <2>1. e \in [1..n -> X]
    BY <1>1, <1>2
  <2>2. e \in Seq(X) /\ Len(e) = n
    BY <1>2, <2>1, SeqOfFunction
  <2> QED  BY <1>2, <2>2
<1>5. u64(n) \in Seq(V) /\ FlattenSeq(e) \in Seq(V)
  <2>1. u64(n) \in Seq(V)
    BY <1>2, TokensOf
  <2>2. e \in Seq(Seq(V))
    BY <1>3
  <2> HIDE DEF e, V
  <2> QED  BY ONLY <2>1, <2>2, FlattenType
<1> QED  BY <1>2, <1>3, <1>5 DEF D

LEMMA SerializeDiffType ==
  ASSUME NEW T, NEW d, d \in Seq(Instructions(T))
  PROVE  SerializeDiff(d) \in Seq(Tokens(T))
<1> DEFINE V == Tokens(T)
           a == u64(Len(d))
           b == FlattenSeq([i \in DOMAIN d |-> SerializeInstruction(d[i])])
<1>1. a \in Seq(V) /\ b \in Seq(V)
  BY SerializeDiffIs
<1>2. SerializeDiff(d) = a \o b
  BY DEF SerializeDiff
<1> HIDE DEF a, b, V
<1>3. a \o b \in Seq(V)
  BY ONLY <1>1
<1> QED  BY <1>2, <1>3 DEF V

LEMMA ReadDiff ==
  ASSUME NEW T, NEW d, d \in Seq(Instructions(T)), NEW z, NEW in,
         Before(Tokens(T), SerializeDiff(d), z, in)
  PROVE  DeserializeDiff(in) = Got(z, d)
<1> DEFINE V == Tokens(T)
           D == Instructions(T)
           n == Len(d)
           e == [i \in DOMAIN d |-> SerializeInstruction(d[i])]
<1>0. d \in Seq(D)
  OBVIOUS
<1>1. /\ e \in Seq(Seq(V)) /\ Len(e) = n /\ u64(n) \in Seq(V) /\ FlattenSeq(e) \in Seq(V)
      /\ \A i \in 1..n : d[i] \in D /\ e[i] = SerializeInstruction(d[i])
  BY SerializeDiffIs
<1>2. n \in Nat
  OBVIOUS
<1>3. n \in Nat /\ u64(n) \in Seq(V) /\ FlattenSeq(e) \in Seq(V) /\ e \in Seq(Seq(V)) /\ Len(e) = Len(d)
  BY <1>1, <1>2
<1>4. SerializeDiff(d) = u64(n) \o FlattenSeq(e)
  BY DEF SerializeDiff
<1> HIDE DEF D
<1> HIDE DEF e
<1>7. PICK in2 : Before(V, u64(n), in2, in) /\ Before(V, FlattenSeq(e), z, in2)
  <2>1. Before(V, u64(n) \o FlattenSeq(e), z, in)
    BY <1>4
  <2> HIDE DEF V, n
  <2> QED  BY ONLY <1>3, <2>1, BeforeBoth
<1>8. read("u64", in) = Got(in2, n)
  BY <1>7, ReadU64
<1>9. PICK g : Follows(V, d, e, z, in2, g)
  <2> HIDE DEF V, n
  <2> QED  BY ONLY <1>0, <1>3, <1>7, FollowsExists
<1>10. ASSUME NEW k \in 1..n
       PROVE  g[k] = ReadStep(g[k - 1], DeserializeInstruction(g[k - 1].rest))
  <2>1. PICK y : Before(V, e[k], y, g[k - 1].rest) /\ g[k] = ReadStep(g[k - 1], Got(y, d[k]))
    BY <1>9 DEF Follows
  <2>2. d[k] \in Instructions(T) /\ Before(Tokens(T), SerializeInstruction(d[k]), y, g[k - 1].rest)
    BY <1>1, <2>1 DEF D
  <2>3. DeserializeInstruction(g[k - 1].rest) = Got(y, d[k])
    BY ONLY <2>2, ReadInstruction
  <2> QED  BY <2>1, <2>3
<1>11. ReadsInstructions(n, in2, g)
  <2>1. g[0] = Got(in2, <<>>) /\ g = [k \in 0..n |-> g[k]]
    BY <1>9 DEF Follows
  <2>2. ASSUME NEW k \in 0..n
        PROVE  g[k] = IF k = 0 THEN Got(in2, <<>>)
                      ELSE ReadStep(g[k - 1], DeserializeInstruction(g[k - 1].rest))
    <3>1. k = 0 \/ k \in 1..n
      BY <1>2
    <3> QED  BY <1>10, <2>1, <3>1
  <2> QED  BY <2>1, <2>2 DEF ReadsInstructions
<1>12. PICK f : ReadsInstructions(n, in2, f) /\ ReadMany(DeserializeInstruction, n, in2) = f[n]
  <2> DEFINE r == CHOOSE f : ReadsInstructions(n, in2, f)
  <2>1. ReadMany(DeserializeInstruction, n, in2) = r[n]
    BY DEF ReadMany, ReadsInstructions, ReadStep, Got
  <2>2. ReadsInstructions(n, in2, r)
    BY <1>11
  <2> HIDE DEF r
  <2> QED  BY <2>1, <2>2
<1>13. f[n] = g[n]
  <2>1. \A k \in 0..n : f[k] = IF k = 0 THEN Got(in2, <<>>)
                               ELSE ReadStep(f[k - 1], DeserializeInstruction(f[k - 1].rest))
    BY <1>12 DEF ReadsInstructions
  <2>2. 0 \in 0..n /\ \A k \in 1..n : k \in 0..n /\ k # 0
    BY <1>2
  <2>3. g[0] = Got(in2, <<>>)
    BY <1>9 DEF Follows
  <2>4. f[0] = g[0]
    BY <2>1, <2>2, <2>3
  <2>5. ASSUME NEW k \in 1..n, f[k - 1] = g[k - 1] PROVE f[k] = g[k]
    BY <1>10, <2>1, <2>2, <2>5
  <2> HIDE DEF n
  <2> QED  BY <1>2, <2>4, <2>5, Agree
<1>14. g[n] = Got(z, d)
  BY <1>9 DEF Follows
<1> DEFINE len == read("u64", in)
<1>15. len # Fail /\ len.val = n /\ len.rest = in2
  BY <1>8, GotIs
<1>16. DeserializeDiff(in) = IF len = Fail THEN Fail ELSE ReadMany(DeserializeInstruction, len.val, len.rest)
  BY DEF DeserializeDiff
<1> HIDE DEF len, n
<1>17. DeserializeDiff(in) = ReadMany(DeserializeInstruction, n, in2)
  BY <1>15, <1>16
<1> QED  BY <1>12, <1>13, <1>14, <1>17

Entries(T) == Seq(T) \X Seq(T) \X Seq(Instructions(T))

LEMMA ReadDigest ==
  ASSUME NEW V, NEW s, NEW z, NEW in, Before(V, digest(s), z, in)
  PROVE  read("digest", in) = Got(z, s)
BY ReadToken DEF digest

LEMMA SerializeEntryIs ==
  ASSUME NEW T, NEW e, e \in Entries(T)
  PROVE  /\ e[1] \in Seq(T) /\ e[2] \in Seq(T) /\ e[3] \in Seq(Instructions(T)) /\ e = <<e[1], e[2], e[3]>>
         /\ digest(e[1]) \in Seq(Tokens(T)) /\ digest(e[2]) \in Seq(Tokens(T))
         /\ SerializeDiff(e[3]) \in Seq(Tokens(T)) /\ SerializeEntry(e) \in Seq(Tokens(T))
<1> DEFINE V == Tokens(T)
           a == digest(e[1])
           b == digest(e[2])
           c == SerializeDiff(e[3])
<1>1. e[1] \in Seq(T) /\ e[2] \in Seq(T) /\ e[3] \in Seq(Instructions(T)) /\ e = <<e[1], e[2], e[3]>>
  BY DEF Entries
<1>2. a \in Seq(V) /\ b \in Seq(V)
  BY <1>1, TokensOf
<1>4. c \in Seq(V)
  <2> DEFINE d == e[3]
  <2>1. d \in Seq(Instructions(T))
    BY <1>1
  <2> HIDE DEF d, V
  <2>2. SerializeDiff(d) \in Seq(V)
    BY ONLY <2>1, SerializeDiffType DEF V
  <2> QED  BY <2>2 DEF d
<1>5. SerializeEntry(e) = a \o b \o c
  BY DEF SerializeEntry
<1> HIDE DEF a, b, c, V
<1>6. a \o b \o c \in Seq(V)
  BY ONLY <1>2, <1>4
<1> QED  BY <1>1, <1>2, <1>4, <1>5, <1>6 DEF a, b, c, V

LEMMA ReadEntry ==
  ASSUME NEW T, NEW e, e \in Entries(T), NEW z, NEW in, Before(Tokens(T), SerializeEntry(e), z, in)
  PROVE  DeserializeEntry(in) = Got(z, e)
<1> DEFINE V == Tokens(T)
           a == digest(e[1])
           b == digest(e[2])
           c == SerializeDiff(e[3])
           ab == a \o b
           from == read("digest", in)
           to == read("digest", from.rest)
           diff == DeserializeDiff(to.rest)
<1>1. /\ e[1] \in Seq(T) /\ e[2] \in Seq(T) /\ e[3] \in Seq(Instructions(T)) /\ e = <<e[1], e[2], e[3]>>
      /\ a \in Seq(V) /\ b \in Seq(V) /\ c \in Seq(V)
  BY SerializeEntryIs
<1>2. ab \in Seq(V)
  <2>1. a \in Seq(V) /\ b \in Seq(V)
    BY <1>1
  <2> HIDE DEF a, b, V
  <2> QED  BY ONLY <2>1
<1>3. PICK y2 : Before(V, ab, y2, in) /\ Before(V, c, z, y2)
  <2>1. Before(V, ab \o c, z, in)
    BY DEF SerializeEntry
  <2> HIDE DEF V, ab, c
  <2> QED  BY ONLY <1>1, <1>2, <2>1, BeforeBoth
<1>4. PICK y1 : Before(V, a, y1, in) /\ Before(V, b, y2, y1)
  <2>1. Before(V, a \o b, y2, in)
    BY <1>3
  <2> HIDE DEF V, a, b
  <2> QED  BY ONLY <1>1, <2>1, BeforeBoth
<1>5. from = Got(y1, e[1])
  BY <1>4, ReadDigest
<1>6. read("digest", y1) = Got(y2, e[2])
  BY <1>4, ReadDigest
<1>7. DeserializeDiff(y2) = Got(z, e[3])
  <2> DEFINE d == e[3]
  <2>1. d \in Seq(Instructions(T)) /\ Before(Tokens(T), SerializeDiff(d), z, y2)
    BY <1>1, <1>3
  <2> HIDE DEF d
  <2>2. DeserializeDiff(y2) = Got(z, d)
    BY ONLY <2>1, ReadDiff
  <2> QED  BY <2>2 DEF d
<1>8. DeserializeEntry(in) =
        IF from = Fail \/ to = Fail \/ diff = Fail THEN Fail
        ELSE [rest |-> diff.rest, val |-> <<from.val, to.val, diff.val>>]
  BY DEF DeserializeEntry
<1>9. from # Fail /\ from.val = e[1] /\ from.rest = y1
  BY <1>5, GotIs
<1> HIDE DEF from
<1>10. to = Got(y2, e[2])
  BY <1>6, <1>9
<1>11. to # Fail /\ to.val = e[2] /\ to.rest = y2
  BY <1>10, GotIs
<1> HIDE DEF to
<1>12. diff = Got(z, e[3])
  BY <1>7, <1>11
<1>13. diff # Fail /\ diff.val = e[3] /\ diff.rest = z
  BY <1>12, GotIs
<1> HIDE DEF diff
<1> QED  BY <1>1, <1>8, <1>9, <1>11, <1>13 DEF Got

ReadsEntries(n, in, f) ==
  f = [k \in 0..n |->
         IF k = 0 THEN Got(in, <<>>)
         ELSE ReadStep(f[k - 1], DeserializeEntry(f[k - 1].rest))]

ListParts(d) == [i \in DOMAIN d |-> SerializeEntry(d[i])]

LEMMA ReadList ==
  ASSUME NEW T, NEW d, d \in Seq(Entries(T)), NEW z, NEW in,
         Before(Tokens(T), FlattenSeq(ListParts(d)), z, in)
  PROVE  ReadMany(DeserializeEntry, Len(d), in) = Got(z, d)
<1> DEFINE V == Tokens(T)
           D == Entries(T)
           n == Len(d)
           e == ListParts(d)
           X == Seq(V)
<1>0. d \in Seq(D)
  OBVIOUS
<1>1. \A x \in D : SerializeEntry(x) \in X
  BY SerializeEntryIs
<1> HIDE DEF D
<1>2. n \in Nat /\ DOMAIN d = 1..n /\ \A i \in 1..n : d[i] \in D
  BY <1>0
<1>3. e \in Seq(X) /\ Len(e) = n /\ \A i \in 1..n : e[i] = SerializeEntry(d[i])
  <2> HIDE DEF X
  <2>1. e \in [1..n -> X]
    BY <1>1, <1>2 DEF ListParts
  <2>2. e \in Seq(X) /\ Len(e) = n
    BY <1>2, <2>1, SeqOfFunction
  <2> QED  BY <1>2, <2>2 DEF ListParts
<1> HIDE DEF e
<1>9. PICK g : Follows(V, d, e, z, in, g)
  <2>1. e \in Seq(Seq(V)) /\ Len(e) = Len(d) /\ Before(V, FlattenSeq(e), z, in)
    BY <1>3 DEF e
  <2> HIDE DEF V, n
  <2> QED  BY ONLY <1>0, <2>1, FollowsExists
<1>10. ASSUME NEW k \in 1..n
       PROVE  g[k] = ReadStep(g[k - 1], DeserializeEntry(g[k - 1].rest))
  <2>1. PICK y : Before(V, e[k], y, g[k - 1].rest) /\ g[k] = ReadStep(g[k - 1], Got(y, d[k]))
    BY <1>9 DEF Follows
  <2>2. d[k] \in Entries(T) /\ Before(Tokens(T), SerializeEntry(d[k]), y, g[k - 1].rest)
    BY <1>2, <1>3, <2>1 DEF D
  <2>3. DeserializeEntry(g[k - 1].rest) = Got(y, d[k])
    BY ONLY <2>2, ReadEntry
  <2> QED  BY <2>1, <2>3
<1>11. ReadsEntries(n, in, g)
  <2>1. g[0] = Got(in, <<>>) /\ g = [k \in 0..n |-> g[k]]
    BY <1>9 DEF Follows
  <2>2. ASSUME NEW k \in 0..n
        PROVE  g[k] = IF k = 0 THEN Got(in, <<>>)
                      ELSE ReadStep(g[k - 1], DeserializeEntry(g[k - 1].rest))
    <3>1. k = 0 \/ k \in 1..n
      BY <1>2
    <3> QED  BY <1>10, <2>1, <3>1
  <2> QED  BY <2>1, <2>2 DEF ReadsEntries
<1>12. PICK f : ReadsEntries(n, in, f) /\ ReadMany(DeserializeEntry, n, in) = f[n]
  <2> DEFINE r == CHOOSE f : ReadsEntries(n, in, f)
  <2>1. ReadMany(DeserializeEntry, n, in) = r[n]
    BY DEF ReadMany, ReadsEntries, ReadStep, Got
  <2>2. ReadsEntries(n, in, r)
    BY <1>11
  <2> HIDE DEF r
  <2> QED  BY <2>1, <2>2
<1>13. f[n] = g[n]
  <2>1. \A k \in 0..n : f[k] = IF k = 0 THEN Got(in, <<>>)
                               ELSE ReadStep(f[k - 1], DeserializeEntry(f[k - 1].rest))
    BY <1>12 DEF ReadsEntries
  <2>2. 0 \in 0..n /\ \A k \in 1..n : k \in 0..n /\ k # 0
    BY <1>2
  <2>3. g[0] = Got(in, <<>>)
    BY <1>9 DEF Follows
  <2>4. f[0] = g[0]
    BY <2>1, <2>2, <2>3
  <2>5. ASSUME NEW k \in 1..n, f[k - 1] = g[k - 1] PROVE f[k] = g[k]
    BY <1>10, <2>1, <2>2, <2>5
  <2> HIDE DEF n
  <2> QED  BY <1>2, <2>4, <2>5, Agree
<1>14. g[n] = Got(z, d)
  BY <1>9 DEF Follows
<1> QED  BY <1>12, <1>13, <1>14

FileOf(root, list) == digest(root) \o delim(root) \o u64(Len(list)) \o FlattenSeq(ListParts(list))

LEMMA FilePartsIs ==
  ASSUME NEW T, NEW root, root \in Seq(T), NEW list, list \in Seq(Entries(T))
  PROVE  /\ digest(root) \in Seq(Tokens(T)) /\ delim(root) \in Seq(Tokens(T))
         /\ u64(Len(list)) \in Seq(Tokens(T)) /\ FlattenSeq(ListParts(list)) \in Seq(Tokens(T))
<1> DEFINE V == Tokens(T)
           D == Entries(T)
           n == Len(list)
           e == ListParts(list)
           X == Seq(V)
<1>1. \A x \in D : SerializeEntry(x) \in X
  BY SerializeEntryIs
<1>2. list \in Seq(D)
  OBVIOUS
<1> HIDE DEF D
<1>3. n \in Nat /\ DOMAIN list = 1..n /\ \A i \in 1..n : list[i] \in D
  BY <1>2
<1>4. e \in Seq(X)
  <2> HIDE DEF X
  <2>1. e \in [1..n -> X]
    BY <1>1, <1>3 DEF ListParts
  <2> QED  BY <1>3, <2>1, SeqOfFunction
<1>5. FlattenSeq(e) \in Seq(V)
  <2>1. e \in Seq(Seq(V))
    BY <1>4
  <2> HIDE DEF e, V
  <2> QED  BY ONLY <2>1, FlattenType
<1> QED  BY <1>3, <1>5, TokensOf

LEMMA ReadFile ==
  ASSUME NEW T, NEW root, root \in Seq(T), NEW list, list \in Seq(Entries(T)), file = FileOf(root, list)
  PROVE  Deserialized = [rest |-> <<>>, root |-> root, text |-> root, list |-> list]
<1> DEFINE V == Tokens(T)
           a == digest(root)
           b == delim(root)
           c == u64(Len(list))
           d == FlattenSeq(ListParts(list))
           ab == a \o b
           abc == ab \o c
           first == read("digest", file)
           text == read_delim(first.rest)
           len == read("u64", text.rest)
           all == ReadMany(DeserializeEntry, len.val, len.rest)
<1>1. a \in Seq(V) /\ b \in Seq(V) /\ c \in Seq(V) /\ d \in Seq(V)
  BY FilePartsIs
<1>2. file = abc \o d
  BY DEF FileOf
<1> HIDE DEF V, a, b, c, d
<1>3. ab \in Seq(V) /\ abc \in Seq(V)
  BY ONLY <1>1
<1>4. Before(V, abc \o d, <<>>, file)
  <2>1. (abc \o d) \o <<>> = abc \o d /\ abc \o d \in Seq(V) /\ <<>> \in Seq(V)
    BY ONLY <1>1, <1>3
  <2> QED  BY <1>2, <2>1 DEF Before
<1> HIDE DEF abc
<1>5. PICK y3 : Before(V, abc, y3, file) /\ Before(V, d, <<>>, y3)
  BY ONLY <1>1, <1>3, <1>4, BeforeBoth
<1>6. Before(V, ab \o c, y3, file)
  BY <1>5 DEF abc
<1> HIDE DEF ab
<1>7. PICK y2 : Before(V, ab, y2, file) /\ Before(V, c, y3, y2)
  BY ONLY <1>1, <1>3, <1>6, BeforeBoth
<1>8. Before(V, a \o b, y2, file)
  BY <1>7 DEF ab
<1>9. PICK y1 : Before(V, a, y1, file) /\ Before(V, b, y2, y1)
  BY ONLY <1>1, <1>8, BeforeBoth
<1>10. first = Got(y1, root)
  BY <1>9, ReadDigest DEF a
<1>11. read_delim(y1) = Got(y2, root)
  <2>1. root \in Seq(T) /\ Before(Tokens(T), delim(root), y2, y1)
    BY <1>9 DEF b, V
  <2> QED  BY ONLY <2>1, ReadDelim
<1>12. read("u64", y2) = Got(y3, Len(list))
  BY <1>7, ReadU64 DEF c
<1>13. ReadMany(DeserializeEntry, Len(list), y3) = Got(<<>>, list)
  <2>1. list \in Seq(Entries(T)) /\ Before(Tokens(T), FlattenSeq(ListParts(list)), <<>>, y3)
    BY <1>5 DEF d, V
  <2> QED  BY ONLY <2>1, ReadList
<1>14. Deserialized =
         IF first = Fail \/ text = Fail \/ len = Fail \/ all = Fail THEN Fail
         ELSE [rest |-> all.rest, root |-> first.val, text |-> text.val, list |-> all.val]
  BY DEF Deserialized
<1>15. first # Fail /\ first.val = root /\ first.rest = y1
  BY <1>10, GotIs
<1> HIDE DEF first
<1>16. text = Got(y2, root)
  BY <1>11, <1>15
<1>17. text # Fail /\ text.val = root /\ text.rest = y2
  BY <1>16, GotIs
<1> HIDE DEF text
<1>18. len = Got(y3, Len(list))
  BY <1>12, <1>17
<1>19. len # Fail /\ len.val = Len(list) /\ len.rest = y3
  BY <1>18, GotIs
<1> HIDE DEF len
<1>20. all = Got(<<>>, list)
  BY <1>13, <1>19
<1>21. all # Fail /\ all.val = list /\ all.rest = <<>>
  BY <1>20, GotIs
<1> HIDE DEF all
<1> QED  BY <1>14, <1>15, <1>17, <1>19, <1>21

-----------------------------------------------------------------------------
(* The inductive invariant.                                                *)

Characters == Chars \cup {NL}

BlobsOK ==
  /\ Len(blobs) \in Nat /\ Len(blobs) # 0 /\ DOMAIN blobs = 1..Len(blobs)
  /\ \A i \in 1..Len(blobs) : blobs[i] \in Seq(Characters)
  /\ \A i, j \in 1..Len(blobs) : blobs[i] = blobs[j] => i = j

(* The list is the chain of the texts that are done.                       *)
IsLink(e, old, new) ==
  \E c \in Changesets(old, new) : e = <<old, new, from_changeset(c)>>

ListOK ==
  /\ done \in 1..Len(blobs)
  /\ diff_list \in Seq(Entries(Characters)) /\ Len(diff_list) = done - 1
  /\ \A i \in 1..(done - 1) : IsLink(diff_list[i], blobs[i], blobs[i + 1])

FileOK ==
  /\ pc \in {"create", "written", "loaded"}
  /\ pc # "create" => done = Len(blobs) /\ file = FileOf(root_blob, diff_list)

Inv == BlobsOK /\ ListOK /\ root_blob = blobs[1] /\ FileOK

LEMMA LinkType ==
  ASSUME NEW T, NL \in T, NEW old, old \in Seq(T), NEW new, new \in Seq(T), NEW e, IsLink(e, old, new)
  PROVE  e \in Entries(T)
<1>1. PICK c \in Changesets(old, new) : e = <<old, new, from_changeset(c)>>
  BY DEF IsLink
<1>2. MergedFrom(T, LinesOf(old), LinesOf(new), c)
  BY ChangesetIs
<1>3. from_changeset(c) \in Seq(Instructions(T))
  <2>1. c \in Seq(PiecesOf(T)) /\ NL \in T
    BY <1>2 DEF MergedFrom
  <2> QED  BY ONLY <2>1, DiffIs
<1> DEFINE d == from_changeset(c)
           D == Seq(Instructions(T))
<1>4. d \in D
  BY <1>3
<1> HIDE DEF d, D
<1>5. e \in Seq(T) \X Seq(T) \X D
  BY <1>1, <1>4 DEF d
<1> QED  BY <1>5 DEF Entries, D

LEMMA InitInv == Init => Inv
<1> SUFFICES ASSUME Init PROVE Inv
  OBVIOUS
<1>1. PICK n \in 1..MaxTexts : blobs \in [1..n -> Texts]
  BY DEF Init
<1>2. n \in Nat /\ n # 0 /\ DOMAIN blobs = 1..n /\ \A i \in 1..n : blobs[i] \in Texts
  BY <1>1, MultiBlobBoundsOK
<1>3. \A t \in Texts : t \in Seq(Characters)
  <2> TAKE t \in Texts
  <2>1. PICK m \in 0..MaxChars : t \in [1..m -> Characters]
    BY DEF Texts, BoundedSeq, SeqOf, Characters
  <2>2. m \in Nat
    BY MultiBlobBoundsOK
  <2> QED  BY <2>1, <2>2, SeqOfFunction
<1>4. Len(blobs) = n
  BY <1>1, <1>2, SeqOfFunction
<1>5. BlobsOK
  <2>1. \A i, j \in DOMAIN blobs : blobs[i] = blobs[j] => i = j
    BY DEF Init, IsInjective
  <2> QED  BY <1>2, <1>3, <1>4, <2>1 DEF BlobsOK
<1>6. ListOK
  <2>1. done = 1 /\ diff_list = <<>>
    BY DEF Init
  <2>2. <<>> \in Seq(Entries(Characters)) /\ Len(<<>>) = 0
    OBVIOUS
  <2> QED  BY <1>2, <1>4, <2>1, <2>2 DEF ListOK
<1> QED  BY <1>5, <1>6 DEF Inv, FileOK, Init

LEMMA ListGrows ==
  ASSUME NEW D, NEW q, q \in Seq(D), NEW x, x \in D
  PROVE  /\ Append(q, x) \in Seq(D) /\ Len(Append(q, x)) = Len(q) + 1 /\ Append(q, x)[Len(q) + 1] = x
         /\ \A i \in 1..Len(q) : Append(q, x)[i] = q[i]
BY AppendProperties

LEMMA Preserved == Inv /\ [Next]_vars => Inv'
<1> SUFFICES ASSUME Inv, [Next]_vars PROVE Inv'
  OBVIOUS
<1> DEFINE D == Entries(Characters)
<1>0. BlobsOK /\ ListOK /\ root_blob = blobs[1] /\ FileOK
  BY DEF Inv
<1>1. CASE AddDiff
  <2> DEFINE old == blobs[done]
             new == blobs[done + 1]
  <2>1. PICK c \in Changesets(old, new) : diff_list' = Append(diff_list, <<old, new, from_changeset(c)>>)
    BY <1>1 DEF AddDiff
  <2> DEFINE e == <<old, new, from_changeset(c)>>
  <2>2. IsLink(e, old, new)
    BY <2>1 DEF IsLink
  <2>3. /\ pc = "create" /\ done < Len(blobs) /\ done' = done + 1
        /\ blobs' = blobs /\ root_blob' = root_blob /\ file' = file /\ pc' = pc
    BY <1>1 DEF AddDiff
  <2>4. done \in Nat /\ done >= 1 /\ Len(blobs) \in Nat /\ done \in 1..Len(blobs) /\ done + 1 \in 1..Len(blobs)
    BY <1>0, <2>3 DEF ListOK, BlobsOK
  <2>5. e \in D
    <3>1. NL \in Characters /\ old \in Seq(Characters) /\ new \in Seq(Characters)
      BY <1>0, <2>4 DEF BlobsOK, Characters
    <3> HIDE DEF e, old, new
    <3> QED  BY ONLY <2>2, <3>1, LinkType
  <2>6. diff_list \in Seq(D) /\ Len(diff_list) = done - 1
    BY <1>0 DEF ListOK
  <2>7. diff_list' = Append(diff_list, e)
    BY <2>1
  <2> HIDE DEF D, e
  <2>8. /\ diff_list' \in Seq(D) /\ Len(diff_list') = done /\ diff_list'[done] = e
        /\ \A i \in 1..(done - 1) : diff_list'[i] = diff_list[i]
    <3>1. /\ Append(diff_list, e) \in Seq(D)
          /\ Len(Append(diff_list, e)) = Len(diff_list) + 1
          /\ Append(diff_list, e)[Len(diff_list) + 1] = e
          /\ \A i \in 1..Len(diff_list) : Append(diff_list, e)[i] = diff_list[i]
      BY ONLY <2>5, <2>6, ListGrows
    <3>2. Len(diff_list) + 1 = done
      BY <2>4, <2>6
    <3> QED  BY <2>6, <2>7, <3>1, <3>2
  <2>9. \A i \in 1..done : IsLink(diff_list'[i], blobs[i], blobs[i + 1])
    <3> TAKE i \in 1..done
    <3>1. CASE i = done
      BY <2>2, <2>8, <3>1
    <3>2. CASE i # done
      <4>1. i \in 1..(done - 1)
        BY <2>4, <3>2
      <4> QED  BY <1>0, <2>8, <4>1 DEF ListOK
    <3> QED  BY <3>1, <3>2
  <2>10. ListOK'
    <3>1. done' \in 1..Len(blobs') /\ done' - 1 = done
      BY <2>3, <2>4
    <3> QED  BY <2>3, <2>8, <2>9, <3>1 DEF ListOK, D
  <2>11. BlobsOK'
    BY <1>0, <2>3 DEF BlobsOK
  <2>12. FileOK'
    BY <1>0, <2>3 DEF FileOK
  <2> QED  BY <1>0, <2>3, <2>10, <2>11, <2>12 DEF Inv
<1>2. CASE serialize
  <2>1. /\ pc = "create" /\ done = Len(blobs) /\ pc' = "written"
        /\ blobs' = blobs /\ done' = done /\ root_blob' = root_blob /\ diff_list' = diff_list
        /\ file' = FileOf(root_blob, diff_list)
    BY <1>2 DEF serialize, FileOf, ListParts
  <2>2. BlobsOK' /\ ListOK'
    BY <1>0, <2>1 DEF BlobsOK, ListOK
  <2>3. FileOK'
    BY <2>1 DEF FileOK
  <2> QED  BY <1>0, <2>1, <2>2, <2>3 DEF Inv
<1>3. CASE deserialize
  <2>1. /\ pc = "written" /\ pc' = "loaded"
        /\ blobs' = blobs /\ done' = done /\ file' = file
        /\ root_blob' = Deserialized.text /\ diff_list' = Deserialized.list
    BY <1>3 DEF deserialize
  <2>2. Deserialized = [rest |-> <<>>, root |-> root_blob, text |-> root_blob, list |-> diff_list]
    <3>1. root_blob \in Seq(Characters)
      BY <1>0 DEF BlobsOK
    <3>2. diff_list \in Seq(Entries(Characters)) /\ file = FileOf(root_blob, diff_list)
      BY <1>0, <2>1 DEF ListOK, FileOK
    <3> QED  BY ONLY <3>1, <3>2, ReadFile
  <2>3. root_blob' = root_blob /\ diff_list' = diff_list
    BY <2>1, <2>2
  <2>4. BlobsOK' /\ ListOK'
    BY <1>0, <2>1, <2>3 DEF BlobsOK, ListOK
  <2>5. FileOK'
    BY <1>0, <2>1, <2>3 DEF FileOK
  <2> QED  BY <1>0, <2>1, <2>3, <2>4, <2>5 DEF Inv
<1>4. CASE UNCHANGED vars
  <2>1. BlobsOK' /\ ListOK' /\ FileOK'
    BY <1>0, <1>4 DEF vars, BlobsOK, ListOK, FileOK
  <2> QED  BY <1>0, <1>4, <2>1 DEF vars, Inv
<1> QED  BY <1>1, <1>2, <1>3, <1>4 DEF Next

-----------------------------------------------------------------------------
(* get_blob.                                                               *)

(* The recursion of Resolve.                                               *)
Resolves(text, diffs, f) ==
  f = [i \in 0..Len(diffs) |-> IF i = 0 THEN [text |-> text] ELSE ResolveDiff(f[i - 1], diffs[i])]

LEMMA ResolveIs ==
  ASSUME NEW T, NEW text, text \in Seq(T), NEW diffs, diffs \in Seq(Seq(Instructions(T)))
  PROVE  \E f : /\ \A i \in 0..Len(diffs) :
                     f[i] = IF i = 0 THEN TextIs(text) ELSE ResolveDiff(f[i - 1], diffs[i])
                /\ Resolve(text, diffs) = f[Len(diffs)]
<1> DEFINE n == Len(diffs)
           D == Seq(Instructions(T))
           X == {Panic} \cup [text : Seq(T)]
           a == TextIs(text)
           F == [i \in 1..n |-> [t \in X |-> ResolveDiff(t, diffs[i])]]
<1>1. n \in Nat /\ \A i \in 1..n : diffs[i] \in D
  <2>1. diffs \in Seq(D)
    OBVIOUS
  <2> HIDE DEF D
  <2> QED  BY <2>1
<1>2. a \in X
  BY DEF TextIs
<1>3. ASSUME NEW t \in X, NEW d \in D PROVE ResolveDiff(t, d) \in X
  <2>1. CASE t = Panic
    BY <2>1 DEF ResolveDiff
  <2>2. CASE t # Panic
    <3> DEFINE old == t.text
    <3>1. old \in Seq(T) /\ d \in Seq(Instructions(T))
      BY <2>2
    <3>2. ResolveDiff(t, d) = reconstruct_new(d, old)
      BY <2>2 DEF ResolveDiff
    <3> HIDE DEF old, X, D
    <3>3. PICK f : /\ \A i \in 0..Len(d) :
                        f[i] \in LoopStates(T) /\ f[i] = IF i = 0 THEN At(<<>>, old) ELSE Instruct(f[i - 1], d[i])
                   /\ reconstruct_new(d, old) = IF f[Len(d)] = Panic THEN Panic ELSE [text |-> f[Len(d)].res]
      BY ONLY <3>1, ReconstructionIs
    <3>4. Len(d) \in 0..Len(d)
      BY <3>1
    <3>5. f[Len(d)] \in LoopStates(T)
      BY <3>3, <3>4
    <3>6. f[Len(d)] = Panic \/ f[Len(d)].res \in Seq(T)
      BY <3>5 DEF LoopStates
    <3> QED  BY <3>2, <3>3, <3>6 DEF X
  <2> QED  BY <2>1, <2>2
<1> HIDE DEF D, X, a
<1>4. F \in [1..n -> [X -> X]] /\ \A i \in 1..n : \A t \in X : F[i][t] = ResolveDiff(t, diffs[i])
  BY <1>1, <1>3
<1>5. PICK h : h \in [0..n -> X] /\ h[0] = a /\ \A i \in 1..n : h[i] = F[i][h[i - 1]]
  <2>1. n \in Nat
    BY <1>1
  <2>2. F \in [1..n -> [X -> X]]
    BY <1>4
  <2> HIDE DEF F, n
  <2> QED  BY ONLY <1>2, <2>1, <2>2, RecursionExists
<1> HIDE DEF F
<1>6. Resolves(text, diffs, h)
  <2>1. ASSUME NEW i \in 0..n PROVE h[i] = IF i = 0 THEN a ELSE ResolveDiff(h[i - 1], diffs[i])
    <3>1. CASE i # 0
      <4>1. i \in 1..n /\ i - 1 \in 0..n
        BY <1>1, <3>1
      <4>2. h[i - 1] \in X
        BY <1>5, <4>1
      <4> QED  BY <1>4, <1>5, <3>1, <4>1, <4>2
    <3> QED  BY <1>5, <3>1
  <2>2. h = [i \in 0..n |-> IF i = 0 THEN a ELSE ResolveDiff(h[i - 1], diffs[i])]
    BY <1>5, <2>1
  <2> QED  BY <2>2 DEF Resolves, a, TextIs
<1>7. PICK f : Resolves(text, diffs, f) /\ Resolve(text, diffs) = f[n]
  <2> DEFINE r == CHOOSE f : Resolves(text, diffs, f)
  <2>1. Resolve(text, diffs) = r[n]
    BY DEF Resolve, Resolves
  <2>2. Resolves(text, diffs, r)
    BY <1>6
  <2> HIDE DEF r
  <2> QED  BY <2>1, <2>2
<1>8. \A i \in 0..n : f[i] = IF i = 0 THEN TextIs(text) ELSE ResolveDiff(f[i - 1], diffs[i])
  BY <1>7 DEF Resolves, TextIs
<1> QED  BY <1>7, <1>8

Finds(list, d, f) ==
  f = [i \in 0..Len(list) |->
         IF i = 0 THEN [needed |-> d, diffs |-> <<>>] ELSE Find(f[i - 1], list[Len(list) - i + 1])]

LEMMA FoundInIs ==
  ASSUME NEW T, NEW list, list \in Seq(Entries(T)), NEW d, d \in Seq(T)
  PROVE  \E f : /\ f[0] = [needed |-> d, diffs |-> <<>>]
                /\ \A i \in 1..Len(list) : f[i] = Find(f[i - 1], list[Len(list) - i + 1])
                /\ FoundIn(list, d) = f[Len(list)]
<1> DEFINE n == Len(list)
           D == Seq(Instructions(T))
           L == Seq(T)
           E == Entries(T)
           X == [needed : L, diffs : Seq(D)]
           a == [needed |-> d, diffs |-> <<>>]
           e(i) == list[n - i + 1]
           F == [i \in 1..n |-> [s \in X |-> Find(s, e(i))]]
<1>1. n \in Nat /\ \A i \in 1..n : list[i] \in E
  <2>1. list \in Seq(E)
    OBVIOUS
  <2> HIDE DEF E
  <2> QED  BY <2>1
<1>2. \A i \in 1..n : e(i) \in E
  <2>1. \A i \in 1..n : n - i + 1 \in 1..n
    BY <1>1
  <2> HIDE DEF n, E
  <2> QED  BY <1>1, <2>1
<1>3. a \in X
  <2>1. d \in L
    OBVIOUS
  <2> HIDE DEF L, D
  <2> QED  BY <2>1
<1>4. ASSUME NEW s \in X, NEW cr \in E PROVE Find(s, cr) \in X
  <2>1. cr[2] \in L /\ cr[3] \in D
    BY DEF Entries
  <2> HIDE DEF L, D, E
  <2>2. s.diffs \in Seq(D)
    OBVIOUS
  <2>3. Append(s.diffs, cr[3]) \in Seq(D)
    BY <2>1, <2>2, AppendProperties
  <2>4. CASE cr[1] = s.needed
    <3>1. Find(s, cr) = [needed |-> cr[2], diffs |-> Append(s.diffs, cr[3])]
      BY <2>4 DEF Find
    <3> QED  BY <2>1, <2>3, <3>1
  <2>5. CASE cr[1] # s.needed
    BY <2>5 DEF Find
  <2> QED  BY <2>4, <2>5
<1> HIDE DEF X, E, a
<1>5. F \in [1..n -> [X -> X]] /\ \A i \in 1..n : \A s \in X : F[i][s] = Find(s, e(i))
  <2> HIDE DEF e
  <2> QED  BY <1>2, <1>4
<1>6. PICK h : h \in [0..n -> X] /\ h[0] = a /\ \A i \in 1..n : h[i] = F[i][h[i - 1]]
  <2>1. n \in Nat
    BY <1>1
  <2>2. F \in [1..n -> [X -> X]]
    BY <1>5
  <2> HIDE DEF F, n
  <2> QED  BY ONLY <1>3, <2>1, <2>2, RecursionExists
<1> HIDE DEF F
<1>7. Finds(list, d, h)
  <2>1. ASSUME NEW i \in 0..n PROVE h[i] = IF i = 0 THEN a ELSE Find(h[i - 1], e(i))
    <3>1. CASE i # 0
      <4>1. i \in 1..n /\ i - 1 \in 0..n
        BY <1>1, <3>1
      <4>2. h[i - 1] \in X
        BY <1>6, <4>1
      <4> HIDE DEF e
      <4> QED  BY <1>5, <1>6, <3>1, <4>1, <4>2
    <3> QED  BY <1>6, <3>1
  <2>2. h = [i \in 0..n |-> IF i = 0 THEN a ELSE Find(h[i - 1], e(i))]
    BY <1>6, <2>1
  <2> QED  BY <2>2 DEF Finds, a
<1>8. PICK f : Finds(list, d, f) /\ FoundIn(list, d) = f[n]
  <2> DEFINE r == CHOOSE f : Finds(list, d, f)
  <2>1. FoundIn(list, d) = r[n]
    BY DEF FoundIn, Finds
  <2>2. Finds(list, d, r)
    BY <1>7
  <2> HIDE DEF r
  <2> QED  BY <2>1, <2>2
<1>9. \A i \in 0..n : f[i] = IF i = 0 THEN [needed |-> d, diffs |-> <<>>] ELSE Find(f[i - 1], list[n - i + 1])
  BY <1>8 DEF Finds
<1>10. 0 \in 0..n /\ \A i \in 1..n : i \in 0..n /\ i # 0
  BY <1>1
<1>11. f[0] = [needed |-> d, diffs |-> <<>>]
  BY <1>9, <1>10
<1>12. \A i \in 1..n : f[i] = Find(f[i - 1], list[n - i + 1])
  BY <1>9, <1>10
<1> QED  BY <1>8, <1>11, <1>12

LEMMA LinksAre ==
  ASSUME Inv, NEW i \in 1..(done - 1)
  PROVE  /\ i \in 1..Len(blobs) /\ i + 1 \in 1..Len(blobs)
         /\ blobs[i] \in Seq(Characters) /\ blobs[i + 1] \in Seq(Characters) /\ blobs[i] # blobs[i + 1]
         /\ diff_list[i][1] = blobs[i] /\ diff_list[i][2] = blobs[i + 1]
         /\ diff_list[i][3] \in Seq(Instructions(Characters))
         /\ reconstruct_new(diff_list[i][3], blobs[i]) = TextIs(blobs[i + 1]) <=> EndIsSame(diff_list[i][3])
<1> DEFINE old == blobs[i]
           new == blobs[i + 1]
           e == diff_list[i]
<1>1. i \in 1..Len(blobs) /\ i + 1 \in 1..Len(blobs) /\ i # i + 1
  BY DEF Inv, ListOK, BlobsOK
<1>2. old \in Seq(Characters) /\ new \in Seq(Characters) /\ old # new /\ NL \in Characters
  BY <1>1 DEF Inv, BlobsOK, Characters
<1>3. IsLink(e, old, new)
  BY DEF Inv, ListOK
<1> HIDE DEF old, new, e
<1>4. PICK c \in Changesets(old, new) : e = <<old, new, from_changeset(c)>>
  BY <1>3 DEF IsLink
<1>5. e[1] = old /\ e[2] = new /\ e[3] = from_changeset(c)
  BY <1>4
<1>6. reconstruct_new(from_changeset(c), old) = [text |-> new] <=> EndIsSame(from_changeset(c))
  BY ONLY <1>2, <1>4, EndIsSameIff
<1>7. e[3] \in Seq(Instructions(Characters))
  <2>1. e \in Entries(Characters)
    BY ONLY <1>2, <1>3, LinkType
  <2> QED  BY ONLY <2>1 DEF Entries
<1> QED  BY <1>1, <1>2, <1>5, <1>6, <1>7 DEF TextIs, old, new, e

LEMMA InvReconstructs == Inv => ReconstructsIfEndIsSame
<1> SUFFICES ASSUME Inv, done > 1
             PROVE  reconstruct_new(diff_list[done - 1][3], blobs[done - 1]) = [text |-> blobs[done]]
                      <=> EndIsSame(diff_list[done - 1][3])
  BY DEF ReconstructsIfEndIsSame
<1> DEFINE i == done - 1
<1>1. i \in 1..(done - 1) /\ i + 1 = done
  BY DEF Inv, ListOK
<1> HIDE DEF i
<1>2. reconstruct_new(diff_list[i][3], blobs[i]) = TextIs(blobs[i + 1]) <=> EndIsSame(diff_list[i][3])
  BY <1>1, LinksAre
<1> QED  BY <1>1, <1>2 DEF i, TextIs

LEMMA InvReads == Inv => ReadsWhatWasWritten
<1> SUFFICES ASSUME Inv, pc = "written"
             PROVE  Deserialized = [rest |-> <<>>, root |-> root_blob, text |-> root_blob, list |-> diff_list]
  BY DEF ReadsWhatWasWritten
<1>1. root_blob \in Seq(Characters)
  <2>1. 1 \in 1..Len(blobs)
    BY DEF Inv, BlobsOK
  <2> QED  BY <2>1 DEF Inv, BlobsOK
<1>2. diff_list \in Seq(Entries(Characters)) /\ file = FileOf(root_blob, diff_list)
  BY DEF Inv, ListOK, FileOK
<1> QED  BY ONLY <1>1, <1>2, ReadFile

LEMMA InvChained == Inv => Chained
<1> SUFFICES ASSUME Inv, pc = "loaded", NEW n \in 0 .. Len(diff_list),
                    \A i \in 1..n : EndIsSame(diff_list[i][3])
             PROVE  Resolve(root_blob, [i \in 1..n |-> diff_list[i][3]]) = [text |-> blobs[n + 1]]
  BY DEF Chained
<1> DEFINE q == [i \in 1..n |-> diff_list[i][3]]
           D == Seq(Instructions(Characters))
<1>1. n \in Nat /\ \A i \in 1..n : i \in 1..(done - 1)
  BY DEF Inv, ListOK
<1>2. q \in Seq(D) /\ Len(q) = n
  <2>1. \A i \in 1..n : diff_list[i][3] \in D
    BY <1>1, LinksAre
  <2> HIDE DEF D
  <2>2. q \in [1..n -> D]
    BY <2>1
  <2> QED  BY <1>1, <2>2, SeqOfFunction
<1>3. root_blob = blobs[1] /\ root_blob \in Seq(Characters)
  <2>1. 1 \in 1..Len(blobs)
    BY DEF Inv, BlobsOK
  <2> QED  BY <2>1 DEF Inv, BlobsOK
<1>4. \A i \in 1..n : q[i] = diff_list[i][3]
  OBVIOUS
<1> HIDE DEF q
<1>5. PICK f : /\ \A i \in 0..n : f[i] = IF i = 0 THEN TextIs(root_blob) ELSE ResolveDiff(f[i - 1], q[i])
               /\ Resolve(root_blob, q) = f[n]
  <2>1. root_blob \in Seq(Characters) /\ q \in Seq(Seq(Instructions(Characters)))
    BY <1>2, <1>3 DEF D
  <2>2. \E f : /\ \A i \in 0..Len(q) : f[i] = IF i = 0 THEN TextIs(root_blob) ELSE ResolveDiff(f[i - 1], q[i])
               /\ Resolve(root_blob, q) = f[Len(q)]
    BY ONLY <2>1, ResolveIs
  <2> QED  BY <1>2, <2>2
<1> DEFINE A == {k \in Nat : k <= n => f[k] = TextIs(blobs[k + 1])}
<1>6. 0 \in A
  <2>1. 0 \in 0..n
    BY <1>1
  <2> QED  BY <1>3, <1>5, <2>1
<1>7. ASSUME NEW k \in Nat, k \in A PROVE k + 1 \in A
  <2> DEFINE j == k + 1
  <2> SUFFICES ASSUME j <= n PROVE f[j] = TextIs(blobs[j + 1])
    OBVIOUS
  <2>1. j \in 1..n /\ j \in 0..n /\ j # 0 /\ j - 1 = k /\ j \in 1..(done - 1)
    BY <1>1
  <2>2. f[k] = TextIs(blobs[j])
    BY <1>7
  <2> HIDE DEF j
  <2>3. f[j] = ResolveDiff(f[k], q[j])
    BY <1>5, <2>1
  <2>4. reconstruct_new(q[j], blobs[j]) = TextIs(blobs[j + 1])
    BY <1>4, <2>1, LinksAre
  <2>5. TextIs(blobs[j]) # Panic /\ TextIs(blobs[j]).text = blobs[j]
    <3>1. TextIs(blobs[j]).text = blobs[j]
      BY DEF TextIs
    <3> QED  BY <3>1, TextIsNoPanic
  <2> QED  BY <2>2, <2>3, <2>4, <2>5 DEF ResolveDiff
<1>8. n \in A
  <2> HIDE DEF A
  <2> QED  BY <1>1, <1>6, <1>7, SetInduction
<1>9. f[n] = TextIs(blobs[n + 1])
  BY <1>1, <1>8
<1> QED  BY <1>5, <1>9 DEF TextIs, q

LEMMA InvFound == Inv => FoundOnlyAlone
<1> SUFFICES ASSUME Inv, pc = "loaded", NEW i \in DOMAIN blobs
             PROVE  get_blob(blobs[i]) = IF Len(blobs) = 1 THEN [text |-> blobs[i]] ELSE None
  BY DEF FoundOnlyAlone
<1> DEFINE n == Len(diff_list)
           d == blobs[i]
<1>1. /\ n \in Nat /\ Len(blobs) = n + 1 /\ diff_list \in Seq(Entries(Characters))
      /\ \A k \in 1..n : k \in 1..(done - 1)
  BY DEF Inv, BlobsOK, ListOK, FileOK
<1>2. i \in 1..(n + 1)
  <2>1. DOMAIN blobs = 1..Len(blobs)
    BY DEF Inv, BlobsOK
  <2> QED  BY <1>1, <2>1
<1>3. /\ d \in Seq(Characters) /\ root_blob = blobs[1]
      /\ \A j, k \in 1..(n + 1) : blobs[j] = blobs[k] => j = k
  BY <1>1, <1>2 DEF Inv, BlobsOK
<1> HIDE DEF n
<1>4. PICK f : /\ f[0] = [needed |-> d, diffs |-> <<>>]
               /\ \A k \in 1..n : f[k] = Find(f[k - 1], diff_list[n - k + 1])
               /\ FoundIn(diff_list, d) = f[n]
  <2>1. \E f : /\ f[0] = [needed |-> d, diffs |-> <<>>]
               /\ \A k \in 1..Len(diff_list) : f[k] = Find(f[k - 1], diff_list[Len(diff_list) - k + 1])
               /\ FoundIn(diff_list, d) = f[Len(diff_list)]
    <3>1. diff_list \in Seq(Entries(Characters)) /\ d \in Seq(Characters)
      BY <1>1, <1>3
    <3> HIDE DEF d
    <3> QED  BY ONLY <3>1, FoundInIs
  <2> QED  BY <2>1 DEF n
<1> HIDE DEF d
<1> DEFINE A == {k \in Nat : k <= n => f[k].needed = blobs[IF i + k <= n \/ i = n + 1 THEN i ELSE i + 1]}
<1>5. 0 \in A
  <2>1. f[0].needed = d
    BY <1>4
  <2>2. i + 0 <= n \/ i = n + 1
    BY <1>1, <1>2
  <2> QED  BY <2>1, <2>2 DEF d
<1>6. ASSUME NEW k \in Nat, k \in A PROVE k + 1 \in A
  <2> SUFFICES ASSUME k + 1 <= n
               PROVE  f[k + 1].needed = blobs[IF i + (k + 1) <= n \/ i = n + 1 THEN i ELSE i + 1]
    OBVIOUS
  <2> DEFINE j == n - (k + 1) + 1
             w == IF i + k <= n \/ i = n + 1 THEN i ELSE i + 1
  <2>1. /\ j \in 1..n /\ k + 1 \in 1..n /\ (k + 1) - 1 = k /\ k <= n /\ j = n - k
        /\ j \in 1..(n + 1) /\ j + 1 \in 1..(n + 1) /\ w \in 1..(n + 1)
    BY <1>1, <1>2
  <2>2. f[k].needed = blobs[w]
    BY <1>6, <2>1
  <2>3. f[k + 1] = Find(f[k], diff_list[j])
    BY <1>4, <2>1
  <2>4. diff_list[j][1] = blobs[j] /\ diff_list[j][2] = blobs[j + 1]
    <3> HIDE DEF j
    <3> QED  BY <1>1, <2>1, LinksAre
  <2>5. blobs[j] = blobs[w] <=> j = w
    <3> HIDE DEF j, w
    <3> QED  BY <1>3, <2>1
  <2>6. f[k + 1].needed = IF j = w THEN blobs[j + 1] ELSE blobs[w]
    <3> HIDE DEF j, w
    <3>1. CASE j = w
      <4>1. f[k + 1] = [needed |-> blobs[j + 1], diffs |-> Append(f[k].diffs, diff_list[j][3])]
        BY <2>2, <2>3, <2>4, <2>5, <3>1 DEF Find
      <4> QED  BY <3>1, <4>1
    <3>2. CASE j # w
      BY <2>2, <2>3, <2>4, <2>5, <3>2 DEF Find
    <3> QED  BY <3>1, <3>2
  <2>7. CASE j = w
    <3>1. j = i /\ ~(i + (k + 1) <= n \/ i = n + 1)
      BY <1>1, <1>2, <2>1, <2>7
    <3> QED  BY <2>6, <2>7, <3>1
  <2>8. CASE j # w
    <3>1. w = IF i + (k + 1) <= n \/ i = n + 1 THEN i ELSE i + 1
      BY <1>1, <1>2, <2>1, <2>8
    <3> QED  BY <2>6, <2>8, <3>1
  <2> QED  BY <2>7, <2>8
<1>7. f[n].needed = blobs[IF i = n + 1 THEN i ELSE i + 1]
  <2>1. n \in A
    <3> HIDE DEF A
    <3> QED  BY <1>1, <1>5, <1>6, SetInduction
  <2>2. n <= n /\ ~(i + n <= n)
    BY <1>1, <1>2
  <2> QED  BY <1>1, <2>1, <2>2
<1> DEFINE found == FoundIn(diff_list, d)
<1>8. get_blob(d) = IF found.needed # root_blob THEN None ELSE Resolve(root_blob, found.diffs)
  BY DEF get_blob
<1>9. found = f[n]
  BY <1>4
<1>10. CASE n = 0
  <2>1. i = 1 /\ found = [needed |-> d, diffs |-> <<>>] /\ root_blob = d
    BY <1>2, <1>3, <1>4, <1>9, <1>10 DEF d
  <2> HIDE DEF found
  <2>2. found.needed = d /\ found.diffs = <<>>
    BY <2>1
  <2>3. get_blob(d) = Resolve(d, <<>>)
    BY <1>8, <2>1, <2>2
  <2>4. Resolve(d, <<>>) = TextIs(d)
    <3> DEFINE q == <<>>
    <3>1. d \in Seq(Characters) /\ q \in Seq(Seq(Instructions(Characters)))
      BY <1>3
    <3>2. Len(q) = 0
      OBVIOUS
    <3> HIDE DEF q
    <3>3. \E h : /\ \A k \in 0..Len(q) : h[k] = IF k = 0 THEN TextIs(d) ELSE ResolveDiff(h[k - 1], q[k])
                 /\ Resolve(d, q) = h[Len(q)]
      BY ONLY <3>1, ResolveIs
    <3>4. PICK h : h[0] = TextIs(d) /\ Resolve(d, q) = h[0]
      BY <3>2, <3>3
    <3> QED  BY <3>4 DEF q
  <2>5. Len(blobs) = 1
    BY <1>1, <1>10
  <2> QED  BY <2>3, <2>4, <2>5 DEF TextIs, d
<1>11. CASE n # 0
  <2> DEFINE w == IF i = n + 1 THEN i ELSE i + 1
  <2>1. w \in 1..(n + 1) /\ 1 \in 1..(n + 1) /\ w # 1
    BY <1>1, <1>2, <1>11
  <2>2. found.needed = blobs[w]
    BY <1>7, <1>9
  <2> HIDE DEF w, found
  <2>3. blobs[w] # blobs[1]
    BY <1>3, <2>1
  <2>4. Len(blobs) # 1
    BY <1>1, <1>11
  <2> QED  BY <1>3, <1>8, <2>2, <2>3, <2>4 DEF d
<1> QED  BY <1>10, <1>11

-----------------------------------------------------------------------------
(* The theorems.                                                           *)

(* Whatever the diff that handle_parallel_task takes of two texts, its     *)
(* reconstruct_new yields the new text exactly if the last piece of the    *)
(* diff is common to both texts or the only one.                           *)
THEOREM ReconstructionDecided == Spec => []ReconstructsIfEndIsSame
<1> QED  BY InitInv, Preserved, InvReconstructs, PTL DEF Spec

(* MultiBlob::deserialize reads from what serialize wrote the same root    *)
(* text and diffs, and leaves nothing unread.                              *)
THEOREM WrittenIsRead == Spec => []ReadsWhatWasWritten
<1> QED  BY InitInv, Preserved, InvReads, PTL DEF Spec

(* The first n diffs of a loaded multi blob turn its root into the n-th    *)
(* text after it, if the texts end alike up to there.                      *)
THEOREM RootLeadsToAll == Spec => []Chained
<1> QED  BY InitInv, Preserved, InvChained, PTL DEF Spec

(* MultiBlob::get_blob finds the text of a multi blob that has one only,   *)
(* and none of the texts of any other.                                     *)
THEOREM OnlyAloneIsFound == Spec => []FoundOnlyAlone
<1> QED  BY InitInv, Preserved, InvFound, PTL DEF Spec
=============================================================================
