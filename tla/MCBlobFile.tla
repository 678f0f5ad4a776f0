----------------------------- MODULE MCBlobFile -----------------------------
(* Two blobs of the same length, so that different contents have indices   *)
(* in the same place, and one crate name.                                  *)
EXTENDS BlobFile, TLC

MCBlobLen == [d \in Digests |-> 24]
MCSymmetry == Permutations(Digests)
=============================================================================
