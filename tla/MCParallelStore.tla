-------------------------- MODULE MCParallelStore --------------------------
(* Four crate files for the runs of ParallelStore: two share a blob, one   *)
(* contains the same file twice, one has no gzip header.                   *)
EXTENDS ParallelStore, TLC

CONSTANTS c1, c2, c3, c4, d1, d2, m1, m2, m3, m4

MCCrates == {c1, c2, c3, c4}
MCDigests == {d1, d2, m1, m2, m3, m4}
MCEntries == c1 :> <<d1, d2>> @@ c2 :> <<d2, d2>> @@ c3 :> <<>> @@ c4 :> <<d1>>
MCMeta == c1 :> m1 @@ c2 :> m2 @@ c3 :> m3 @@ c4 :> m4

AllFour == <<c1, c2, c3, c4>>
FirstTwo == <<c1, c2>>

MixedKinds == c1 :> "exact" @@ c2 :> "exact" @@ c3 :> "nogz" @@ c4 :> "differs"

NoneStored == {}
FirstStored == {c1}
=============================================================================
