----------------------------- MODULE TextDiff ------------------------------
(***************************************************************************)
(* diff.rs: a diff of two texts as instructions that turn the old text     *)
(* into the new one, and its serialized form.                              *)
(*                                                                         *)
(* A text is a sequence of characters, one of which is NL.  Characters     *)
(* have one byte, so no slice is cut inside of one.                        *)
(***************************************************************************)
EXTENDS Stream, FiniteSets, FiniteSetsExt

CONSTANT NL    \* "\n", the separator

-----------------------------------------------------------------------------
(* The crate "difference": Changeset::new splits both texts at the         *)
(* separator, takes a longest common subsequence and merges the three.     *)

SplitLines(t) ==
  LET lines[i \in 0..Len(t)] ==
        IF i = 0 THEN << <<>> >>
        ELSE LET ls == lines[i - 1]
             IN IF t[i] = NL THEN Append(ls, <<>>) ELSE [ls EXCEPT ![Len(ls)] = Append(@, t[i])]
  IN lines[Len(t)]

LinesOf(t) == IF t = <<>> THEN <<>> ELSE SplitLines(t)

(* The lines with a separator behind each, and with one between them.      *)
Ended(ls) == FlattenSeq([i \in DOMAIN ls |-> Append(ls[i], NL)])

JoinLines(ls) == Front(Ended(ls))

(* Where the elements of a subsequence of n elements may stand.            *)
Positions(n) ==
  UNION {{f \in [1..m -> 1..n] : \A i, j \in 1..m : i < j => f[i] < f[j]} : m \in 0..n}

Subsequences(ls) == {[i \in DOMAIN f |-> ls[f[i]]] : f \in Positions(Len(ls))}

(* The common lines; one empty line alone is joined to "" and lost.        *)
CommonLines(old, new) ==
  LET both == Subsequences(LinesOf(old)) \cap Subsequences(LinesOf(new))
      longest == Max({Len(c) : c \in both})
  IN {IF c = << <<>> >> THEN <<>> ELSE c : c \in {x \in both : Len(x) = longest}}

(* Lines from + 1 to to, joined.                                           *)
Piece(kind, ls, from, to) ==
  IF from = to THEN <<>> ELSE <<[kind |-> kind, text |-> JoinLines(SubSeq(ls, from + 1, to))]>>

(* The merge has taken s.l, s.r and s.c of the lines l, r and c.  How many *)
(* lines the three go on with alike,                                       *)
Alike(l, r, c, s) ==
  Max({n \in 0 .. Min({Len(l) - s.l, Len(r) - s.r, Len(c) - s.c}) :
         \A i \in 1..n : l[s.l + i] = c[s.c + i] /\ r[s.r + i] = c[s.c + i]})

(* and where in ls, from its first n lines on, the next common line is.    *)
Skip(ls, n, c, taken) ==
  Max({m \in n..Len(ls) : \A i \in (n + 1)..m : taken = Len(c) \/ ls[i] # c[taken + 1]})

(* One turn of the loop: what is the same, what is removed, what is added. *)
Turn(l, r, c, s) ==
  LET same == Alike(l, r, c, s)
      rem == Skip(l, s.l + same, c, s.c + same)
      add == Skip(r, s.r + same, c, s.c + same)
  IN [l |-> rem, r |-> add, c |-> s.c + same,
      pieces |-> s.pieces \o Piece("Same", l, s.l, s.l + same)
                          \o Piece("Rem", l, s.l + same, rem) \o Piece("Add", r, s.r + same, add)]

(* Each turn takes a line at least.                                        *)
Merge(l, r, c) ==
  LET after[n \in 0 .. Len(l) + Len(r)] ==
        IF n = 0 THEN [l |-> 0, r |-> 0, c |-> 0, pieces |-> <<>>]
        ELSE LET s == after[n - 1]
             IN IF s.l = Len(l) /\ s.r = Len(r) THEN s ELSE Turn(l, r, c, s)
  IN after[Len(l) + Len(r)].pieces

Changesets(old, new) == {Merge(LinesOf(old), LinesOf(new), c) : c \in CommonLines(old, new)}

-----------------------------------------------------------------------------
(* Diff.                                                                   *)

Same(n) == [op |-> "Same", len |-> n]
Addition(s) == [op |-> "Addition", text |-> s]
Removal(n) == [op |-> "Removal", len |-> n]

from_difference_last(d) ==
  CASE d.kind = "Same" -> Same(Len(d.text))
    [] d.kind = "Add" -> Addition(d.text)
    [] d.kind = "Rem" -> Removal(Len(d.text))

from_difference(d) ==
  CASE d.kind = "Same" -> Same(Len(d.text) + 1)
    [] d.kind = "Add" -> Addition(Append(d.text, NL))
    [] d.kind = "Rem" -> Removal(Len(d.text) + 1)

(* Slip: no piece is the last one.                                         *)
from_changeset_unending(cset) == [i \in DOMAIN cset |-> from_difference(cset[i])]

(* from_texts, for a given result of Changeset::new.                       *)
from_changeset(cset) ==
  [i \in DOMAIN cset |-> IF i < Len(cset) THEN from_difference(cset[i]) ELSE from_difference_last(cset[i])]

(* What comes of a slice past the end of the old text.                     *)
Panic == [panicked |-> TRUE]

(* One turn of the loop of reconstruct_new.                                *)
Instruct(s, ins) ==
  IF s = Panic THEN Panic
  ELSE IF ins.op = "Addition" THEN [s EXCEPT !.res = @ \o ins.text]
  ELSE IF ins.len > Len(s.oldsl) THEN Panic
  ELSE [res |-> IF ins.op = "Same" THEN s.res \o SubSeq(s.oldsl, 1, ins.len) ELSE s.res,
        oldsl |-> From(s.oldsl, ins.len)]

reconstruct_new(diff, old) ==
  LET after[i \in 0..Len(diff)] ==
        IF i = 0 THEN [res |-> <<>>, oldsl |-> old] ELSE Instruct(after[i - 1], diff[i])
  IN IF after[Len(diff)] = Panic THEN Panic ELSE [text |-> after[Len(diff)].res]

-----------------------------------------------------------------------------
(* Serialized form.                                                        *)

SerializeInstruction(ins) ==
  CASE ins.op = "Same" -> u8(1) \o u64(ins.len)
    [] ins.op = "Addition" -> u8(2) \o delim(ins.text)
    [] ins.op = "Removal" -> u8(3) \o u64(ins.len)

(* Slip: the kinds of Addition and Removal change places.                  *)
DeserializeInstructionSwapped(in) ==
  LET kind == read("u8", in)
      body == IF kind.val = 3 THEN read_delim(kind.rest) ELSE read("u64", kind.rest)
  IN IF kind = Fail \/ body = Fail THEN Fail
     ELSE [rest |-> body.rest,
           val |-> CASE kind.val = 1 -> Same(body.val)
                     [] kind.val = 3 -> Addition(body.val)
                     [] kind.val = 2 -> Removal(body.val)]

DeserializeInstruction(in) ==
  LET kind == read("u8", in)
      body == IF kind.val = 2 THEN read_delim(kind.rest) ELSE read("u64", kind.rest)
  IN IF kind = Fail \/ body = Fail THEN Fail
     ELSE [rest |-> body.rest,
           val |-> CASE kind.val = 1 -> Same(body.val)
                     [] kind.val = 2 -> Addition(body.val)
                     [] kind.val = 3 -> Removal(body.val)]

SerializeDiff(diff) == u64(Len(diff)) \o FlattenSeq([i \in DOMAIN diff |-> SerializeInstruction(diff[i])])

DeserializeDiff(in) ==
  LET len == read("u64", in)
  IN IF len = Fail THEN Fail ELSE ReadMany(DeserializeInstruction, len.val, len.rest)
=============================================================================
