------------------------------ MODULE Stream ------------------------------
(***************************************************************************)
(* What the serializers write and the deserializers read, with byteorder   *)
(* and blob_storage.rs's delimited slices: a sequence of tokens            *)
(* <<type, value>>, one for each integer, byte, digest or tar header.      *)
(* Reading a token as another type than it was written as has no meaning   *)
(* and fails; the lengths that stand before lists and slices are read as   *)
(* they were written.                                                      *)
(***************************************************************************)
EXTENDS Naturals, Sequences, SequencesExt

(* Every io::Error; else a read returns the value and the tokens left.     *)
Fail == [failed |-> TRUE]

u64(n) == << <<"u64", n>> >>
u8(n) == << <<"u8", n>> >>
digest(d) == << <<"digest", d>> >>
header(h) == << <<"header", h>> >>
bytes(s) == [i \in DOMAIN s |-> <<"byte", s[i]>>]
delim(s) == u64(Len(s)) \o bytes(s)

From(s, n) == SubSeq(s, n + 1, Len(s))

read(type, in) ==
  IF in = <<>> \/ Head(in)[1] # type THEN Fail ELSE [rest |-> Tail(in), val |-> Head(in)[2]]

(* read_exact of n bytes.                                                  *)
read_bytes(n, in) ==
  IF n > Len(in) \/ \E i \in 1..n : in[i][1] # "byte" THEN Fail
  ELSE [rest |-> From(in, n), val |-> [i \in 1..n |-> in[i][2]]]

read_delim(in) ==
  LET len == read("u64", in) IN IF len = Fail THEN Fail ELSE read_bytes(len.val, len.rest)

(* "for _ in 0 .. n": what one call of ReadOne returns after the other.    *)
ReadMany(ReadOne(_), n, in) ==
  LET after[k \in 0..n] ==
        IF k = 0 THEN [rest |-> in, val |-> <<>>]
        ELSE LET before == after[k - 1]
                 one == ReadOne(before.rest)
             IN IF before = Fail \/ one = Fail THEN Fail
                ELSE [rest |-> one.rest, val |-> Append(before.val, one.val)]
  IN after[n]
=============================================================================
