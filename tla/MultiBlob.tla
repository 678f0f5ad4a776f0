----------------------------- MODULE MultiBlob -----------------------------
(***************************************************************************)
(* Multi blobs from their making to a blob's reading: the text part of     *)
(* handle_parallel_task on CreateMultiBlob, MultiBlob::serialize,          *)
(* deserialize and get_blob.  SHA-256 is taken as injective: the digest of *)
(* a text is the text.                                                     *)
(***************************************************************************)
EXTENDS TextDiff

CONSTANTS
  Chars,      \* characters other than NL
  MaxChars,   \* bound on the length of a text
  MaxTexts    \* bound on the texts of a multi blob

ASSUME MultiBlobBoundsOK == MaxChars \in Nat /\ MaxTexts \in Nat

Texts == BoundedSeq(Chars \cup {NL}, MaxChars)

VARIABLES
  blobs,      \* the texts of the task, oldest first
  done,       \* how many of them the loop is done with
  root_blob, diff_list,
  file,       \* the serialized multi blob
  pc

vars == <<blobs, done, root_blob, diff_list, file, pc>>

(* Lists of blobs hold no digest twice.                                    *)
Init ==
  /\ blobs \in {s \in UNION {[1..n -> Texts] : n \in 1..MaxTexts} : IsInjective(s)}
  /\ done = 1
  /\ root_blob = blobs[1]
  /\ diff_list = <<>>
  /\ file = <<>>
  /\ pc = "create"

(* Slip: last stays the root.                                              *)
AddDiffToRoot ==
  LET l == blobs[1]
      s == blobs[done + 1]
  IN /\ pc = "create" /\ done < Len(blobs)
     /\ \E c \in Changesets(l, s) :
          diff_list' = Append(diff_list, <<blobs[done], s, from_changeset(c)>>)
     /\ done' = done + 1
     /\ UNCHANGED <<blobs, root_blob, file, pc>>

(* The next text: its diff from the last one, under both digests.          *)
AddDiff ==
  LET l == blobs[done]
      s == blobs[done + 1]
  IN /\ pc = "create" /\ done < Len(blobs)
     /\ \E c \in Changesets(l, s) :
          diff_list' = Append(diff_list, <<l, s, from_changeset(c)>>)
     /\ done' = done + 1
     /\ UNCHANGED <<blobs, root_blob, file, pc>>

SerializeEntry(e) == digest(e[1]) \o digest(e[2]) \o SerializeDiff(e[3])

serialize ==
  /\ pc = "create" /\ done = Len(blobs)
  /\ file' = digest(root_blob) \o delim(root_blob) \o u64(Len(diff_list))
             \o FlattenSeq([i \in DOMAIN diff_list |-> SerializeEntry(diff_list[i])])
  /\ pc' = "written"
  /\ UNCHANGED <<blobs, done, root_blob, diff_list>>

DeserializeEntry(in) ==
  LET from == read("digest", in)
      to == read("digest", from.rest)
      diff == DeserializeDiff(to.rest)
  IN IF from = Fail \/ to = Fail \/ diff = Fail THEN Fail
     ELSE [rest |-> diff.rest, val |-> <<from.val, to.val, diff.val>>]

Deserialized ==
  LET root == read("digest", file)
      text == read_delim(root.rest)
      len == read("u64", text.rest)
      list == ReadMany(DeserializeEntry, len.val, len.rest)
  IN IF root = Fail \/ text = Fail \/ len = Fail \/ list = Fail THEN Fail
     ELSE [rest |-> list.rest, root |-> root.val, text |-> text.val, list |-> list.val]

deserialize ==
  /\ pc = "written"
  /\ Deserialized # Fail
  /\ root_blob' = Deserialized.text
  /\ diff_list' = Deserialized.list
  /\ pc' = "loaded"
  /\ UNCHANGED <<blobs, done, file>>

Next == AddDiff \/ serialize \/ deserialize

Spec == Init /\ [][Next]_vars

-----------------------------------------------------------------------------
(* get_blob.                                                               *)

(* Slip: the pair is read as (new, old), so that a path to the root is     *)
(* found, with its last diff first.                                        *)
FindNewOld(s, cr) ==
  IF cr[2] = s.needed THEN [needed |-> cr[1], diffs |-> Append(s.diffs, cr[3])] ELSE s

Find(s, cr) ==
  IF cr[1] = s.needed THEN [needed |-> cr[2], diffs |-> Append(s.diffs, cr[3])] ELSE s

ResolveDiff(t, diff) == IF t = Panic THEN Panic ELSE reconstruct_new(diff, t.text)

Resolve(text, diffs) ==
  LET after[i \in 0..Len(diffs)] ==
        IF i = 0 THEN [text |-> text] ELSE ResolveDiff(after[i - 1], diffs[i])
  IN after[Len(diffs)]

(* What is needed and the diffs found, from the list's end.                *)
FoundIn(list, d) ==
  LET found[i \in 0..Len(list)] ==
        IF i = 0 THEN [needed |-> d, diffs |-> <<>>]
        ELSE Find(found[i - 1], list[Len(list) - i + 1])
  IN found[Len(list)]

None == [none |-> TRUE]

get_blob(d) ==
  LET found == FoundIn(diff_list, d)
  IN IF found.needed # root_blob THEN None ELSE Resolve(root_blob, found.diffs)

-----------------------------------------------------------------------------
(* Correctness.                                                            *)

(* The last piece of a diff is common to both texts, or the only one.      *)
EndIsSame(diff) == Len(diff) = 1 \/ Last(diff).op = "Same"

(* The pieces of a diff alone tell whether reconstruct_new yields the new  *)
(* text: when the end is the same.  Else a piece that ends one of the      *)
(* texts is not the last of the list, and an instruction counts a          *)
(* separator behind it that is not there (diff.rs:53).                     *)
ReconstructsIfEndIsSame ==
  pc = "create" /\ done > 1 =>
    LET diff == diff_list[done - 1][3] IN
    reconstruct_new(diff, blobs[done - 1]) = [text |-> blobs[done]] <=> EndIsSame(diff)

(* What is read is what was written, to the last token.                    *)
ReadsWhatWasWritten ==
  pc = "written" =>
    Deserialized = [rest |-> <<>>, root |-> root_blob, text |-> root_blob, list |-> diff_list]

(* The loaded list leads from the root through all the texts in order, as  *)
(* long as the ends of the texts are the same.                             *)
Chained ==
  pc = "loaded" => \A n \in 0 .. Len(diff_list) :
    (\A i \in 1..n : EndIsSame(diff_list[i][3])) =>
      Resolve(root_blob, [i \in 1..n |-> diff_list[i][3]]) = [text |-> blobs[n + 1]]

(* A text that is alone is found; of several none is, not even the root:   *)
(* the pairs are (old, new), and get_blob follows them from new to old.    *)
(* So nothing wrong is returned either.                                    *)
FoundOnlyAlone ==
  pc = "loaded" => \A i \in DOMAIN blobs :
    get_blob(blobs[i]) = IF Len(blobs) = 1 THEN [text |-> blobs[i]] ELSE None

-----------------------------------------------------------------------------
(* What the repository says and the code does not do.                      *)

(* diff.rs:143, 160, 172 and bin/diff.rs:53 assert it of their texts.      *)
Reconstructs ==
  pc = "create" /\ done > 1 =>
    reconstruct_new(diff_list[done - 1][3], blobs[done - 1]) = [text |-> blobs[done]]

(* multi_blob.rs:4: the structure stores multiple blobs, each of which can *)
(* be had from it.                                                         *)
EveryTextFound == pc = "loaded" => \A i \in DOMAIN blobs : get_blob(blobs[i]) # None
=============================================================================
