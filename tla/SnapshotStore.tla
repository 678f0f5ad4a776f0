---------------------------- MODULE SnapshotStore ----------------------------
(***************************************************************************)
(* What a blob storage file promises from one process to the next.  It is  *)
(* empty, or it is good and holds what the last session stored, or it is   *)
(* broken.  A session may break it with any byte it writes, and makes it   *)
(* good again by storing what it has, which adds to what was stored and    *)
(* takes nothing away.  A file that is broken when the session ends stays  *)
(* so; a process that opens it may find anything in it, and nothing is     *)
(* promised any more.                                                      *)
(***************************************************************************)
CONSTANTS Digests, Names, NoDigest, NothingListed

VARIABLES
  session,   \* a process has the storage open for writing
  content,   \* "empty", "good" or "broken"
  last,      \* what was stored last
  trusted    \* no process has opened a broken file

vars == <<session, content, last, trusted>>

(* All entries of old are in new, unchanged.                               *)
Extends(new, old) ==
  /\ \A d \in Digests : old.offsets[d] # NothingListed => new.offsets[d] = old.offsets[d]
  /\ \A n \in Names : old.names[n] # NoDigest => new.names[n] = old.names[n]

Nothing ==
  [offsets |-> [d \in Digests |-> NothingListed], names |-> [n \in Names |-> NoDigest]]

Init == session = FALSE /\ content = "empty" /\ last = Nothing /\ trusted = TRUE

Open ==
  /\ ~session /\ content \in {"empty", "good"}
  /\ session' = TRUE
  /\ UNCHANGED <<content, last, trusted>>

OpenBroken ==
  /\ ~session /\ content = "broken"
  /\ session' = TRUE
  /\ trusted' = FALSE
  /\ UNCHANGED <<content, last>>

Spoil ==
  /\ session /\ content # "broken"
  /\ content' = "broken"
  /\ UNCHANGED <<session, last, trusted>>

Commit ==
  /\ session /\ content = "broken"
  /\ content' = "good"
  /\ Extends(last', last)
  /\ UNCHANGED <<session, trusted>>

Close ==
  /\ session
  /\ session' = FALSE
  /\ UNCHANGED <<content, last, trusted>>

(* Once a broken file has been opened.                                     *)
Anything == ~trusted /\ ~trusted'

Next == Open \/ OpenBroken \/ Spoil \/ Commit \/ Close \/ Anything

Spec == Init /\ [][Next]_vars
=============================================================================
