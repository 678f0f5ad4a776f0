------------------------- MODULE CrateMirrorProofs -------------------------
(***************************************************************************)
(* Proofs about CrateMirror for any number of versions and threads and any *)
(* capacity of the channel.                                                *)
(*                                                                         *)
(*   TypeCorrect        the type invariant                                 *)
(*   CompleteRun        no partial file after a complete run               *)
(*   VerifiedIsThere    what analyze has verified is still there           *)
(*   ReportedOnce       each version is reported by one thread             *)
(***************************************************************************)
EXTENDS CrateMirror, FiniteSetTheorems, FunctionTheorems, TLAPS

-----------------------------------------------------------------------------
(* Types.  A thread looks at a version it has counted, and the main thread *)
(* receives as long as a thread may still be running.                      *)

TypeInv ==
  /\ TypeOK
  /\ \A t \in Threads : tpc[t] \in {"look", "reopen"} => ctr[t] \in Versions
  /\ main = "receiving" => threads_running > 0

LEMMA AppendType ==
  ASSUME NEW T, NEW q \in Seq(T), NEW m \in T
  PROVE  /\ Append(q, m) \in Seq(T)
         /\ Len(Append(q, m)) = Len(q) + 1
         /\ \A i \in 1..Len(q) : Append(q, m)[i] = q[i]
         /\ Append(q, m)[Len(q) + 1] = m
OBVIOUS

LEMMA TailType ==
  ASSUME NEW T, NEW q \in Seq(T), q # <<>>
  PROVE  /\ Head(q) \in T /\ Head(q) = q[1] /\ Len(q) \in Nat \ {0}
         /\ Tail(q) \in Seq(T)
         /\ Len(Tail(q)) = Len(q) - 1
         /\ \A i \in 1..Len(Tail(q)) : Tail(q)[i] = q[i + 1]
OBVIOUS

LEMMA SingleType ==
  ASSUME NEW T, NEW q \in Seq(T), q # <<>>, Len(q) <= 1
  PROVE  Tail(q) = <<>> /\ Head(q) = q[1] /\ 1 \in DOMAIN q /\ Head(q) \in T /\ Len(q) = 1
<1>1. Len(q) \in Nat /\ Len(q) # 0
  OBVIOUS
<1>2. Len(q) = 1
  <2>1. \A n \in Nat : n # 0 /\ n <= 1 => n = 1
    OBVIOUS
  <2> QED  BY <1>1, <2>1
<1>3. Head(q) = q[1] /\ Head(q) \in T
  OBVIOUS
<1>4. Tail(q) \in Seq(T) /\ Len(Tail(q)) = 0
  BY <1>2
<1>5. Tail(q) = <<>>
  BY <1>4
<1>6. 1 \in DOMAIN q
  BY <1>2
<1> QED  BY <1>2, <1>3, <1>5, <1>6

LEMMA TypeInit == Init => TypeInv
<1> SUFFICES ASSUME Init PROVE TypeInv
  OBVIOUS
<1>1. /\ files \in [Versions -> Contents] /\ tool \in Tools
      /\ ctr \in [Threads -> 0..N]
      /\ tpc \in [Threads -> {"scan", "look", "reopen", "panicked", "ended"}]
      /\ reports \in [Versions -> Nat] /\ threads_running \in 0..ThreadCount
  BY MirrorConstants DEF Init, Contents
<1>2. out \in [Threads -> Seq(Message)] /\ channel \in Seq(Message) /\ Len(channel) <= Capacity
  BY MirrorConstants DEF Init
<1> QED  BY <1>1, <1>2, MirrorConstants DEF Init, TypeInv, TypeOK

LEMMA DownloaderTypes == TypeInv /\ DownloaderStep => TypeInv'
<1> SUFFICES ASSUME TypeInv, DownloaderStep PROVE TypeInv'
  OBVIOUS
<1> USE MirrorConstants DEF TypeInv, TypeOK
<1>1. dpc \notin {"stopped", "ended"} => dpos \in 1..N
  OBVIOUS
<1>2. /\ files' \in [Versions -> Contents]
      /\ dpc' \in {"stopped", "open", "remove", "request", "create", "copy", "ended"}
      /\ dpos' \in 0..N
      /\ dpc' \in {"stopped", "ended"} <=> dpos' = 0
  <2> DEFINE Place == /\ dpc' \in {"stopped", "open", "remove", "request", "create", "copy", "ended"}
                      /\ dpos' \in 0..N
                      /\ dpc' \in {"stopped", "ended"} <=> dpos' = 0
  <2>0. dpos \in 1..N /\ NextVersion => Place
    BY DEF NextVersion
  <2>1. CASE Run  BY <2>1 DEF Run
  <2>2. CASE Open
    <3>1. CASE NextVersion  BY <1>1, <2>0, <2>2, <3>1 DEF Open
    <3>2. CASE dpc' \in {"request", "remove"} /\ UNCHANGED dpos  BY <1>1, <2>2, <3>2 DEF Open
    <3> QED  BY <2>2, <3>1, <3>2 DEF Open
  <2>3. CASE Remove  BY <1>1, <2>3 DEF Remove, Contents
  <2>4. CASE Request  BY <1>1, <2>0, <2>4 DEF Request
  <2>5. CASE Create  BY <1>1, <2>5 DEF Create, Contents
  <2>6. CASE Copy
    <3>1. files' \in [Versions -> Contents]
      BY <2>6 DEF Copy, Contents
    <3> QED  BY <1>1, <2>0, <2>6, <3>1 DEF Copy
  <2>7. CASE Stop  BY <2>7 DEF Stop
  <2> QED  BY <2>1, <2>2, <2>3, <2>4, <2>5, <2>6, <2>7 DEF DownloaderStep
<1>3. UNCHANGED <<tool, thread, channel, receiver>>
  BY DEF DownloaderStep, Run, Open, Remove, Request, Create, Copy, Stop
<1> QED  BY <1>2, <1>3 DEF thread, receiver

LEMMA SayTypes ==
  ASSUME TypeInv, NEW t \in Threads, NEW what, NEW v,
         [what |-> what, of |-> v] \in Message, Say(t, what, v)
  PROVE  out' \in [Threads -> Seq(Message)]
<1>1. Append(out[t], [what |-> what, of |-> v]) \in Seq(Message)
  BY AppendType DEF TypeInv, TypeOK
<1> QED  BY <1>1 DEF Say, TypeInv, TypeOK

LEMMA ThreadTypes == ASSUME TypeInv, NEW t \in Threads, ThreadStep(t) PROVE TypeInv'
<1> USE MirrorConstants DEF TypeInv, TypeOK
<1>1. CASE Count(t)
  <2>1. ctr' = [ctr EXCEPT ![t] = ctr[t] + 1] /\ ctr[t] + 1 \in 1..N
    BY <1>1 DEF Count
  <2>2. \E p \in {"look", "scan"} : tpc' = [tpc EXCEPT ![t] = p]
    BY <1>1 DEF Count, Goto
  <2>3. UNCHANGED <<files, downloader, tool, out, channel, receiver>>
    BY <1>1 DEF Count
  <2> QED  BY <2>1, <2>2, <2>3 DEF downloader, receiver, Versions
<1>2. CASE Look(t)
  <2>1. ctr[t] \in Versions
    BY <1>2 DEF Look, Ready
  <2>2. out' \in [Threads -> Seq(Message)]
    <3>1. \A what \in {"missing", "mismatch", "seen"} : [what |-> what, of |-> ctr[t]] \in Message
      BY <2>1 DEF Message
    <3>2. \E what \in {"missing", "mismatch", "seen"} : Say(t, what, ctr[t])
      BY <1>2 DEF Look
    <3> QED  BY <3>1, <3>2, SayTypes
  <2>3. \E p \in {"scan", "reopen"} : tpc' = [tpc EXCEPT ![t] = p]
    BY <1>2 DEF Look, Goto
  <2>4. UNCHANGED <<files, downloader, tool, ctr, channel, receiver>>
    BY <1>2 DEF Look
  <2> QED  BY <2>1, <2>2, <2>3, <2>4 DEF downloader, receiver
<1>3. CASE Reopen(t)
  <2>1. ctr[t] \in Versions /\ files[ctr[t]] \in Contents
    BY <1>3 DEF Reopen, Ready
  <2>2. out' \in [Threads -> Seq(Message)]
    <3>1. [what |-> "file", of |-> files[ctr[t]]] \in Message
      BY <2>1 DEF Message
    <3>2. CASE Say(t, "file", files[ctr[t]])  BY <3>1, <3>2, SayTypes
    <3>3. CASE UNCHANGED out  BY <3>3
    <3> QED  BY <1>3, <3>2, <3>3 DEF Reopen
  <2>3. \E p \in {"scan", "panicked"} : tpc' = [tpc EXCEPT ![t] = p]
    BY <1>3 DEF Reopen, Goto
  <2>4. UNCHANGED <<files, downloader, tool, ctr, channel, receiver>>
    BY <1>3 DEF Reopen
  <2> QED  BY <2>2, <2>3, <2>4 DEF downloader, receiver
<1>4. CASE Send(t)
  <2>1. out[t] \in Seq(Message) /\ out[t] # <<>>
    BY <1>4 DEF Send
  <2>2. Head(out[t]) \in Message /\ Tail(out[t]) \in Seq(Message)
    BY <2>1, TailType
  <2>3. channel' \in Seq(Message) /\ Len(channel') <= Capacity
    BY <1>4, <2>2, AppendType DEF Send
  <2>4. out' \in [Threads -> Seq(Message)]
    BY <1>4, <2>2 DEF Send
  <2>5. UNCHANGED <<files, downloader, tool, ctr, tpc, receiver>>
    BY <1>4 DEF Send
  <2> QED  BY <2>3, <2>4, <2>5 DEF downloader, receiver
<1>5. CASE Finish(t)
  <2>1. out' \in [Threads -> Seq(Message)]
    <3>1. [what |-> "done", of |-> 0] \in Message
      BY DEF Message
    <3>2. CASE Say(t, "done", 0)  BY <3>1, <3>2, SayTypes
    <3>3. CASE UNCHANGED out  BY <3>3
    <3> QED  BY <1>5, <3>2, <3>3 DEF Finish
  <2>2. tpc' = [tpc EXCEPT ![t] = "ended"]
    BY <1>5 DEF Finish, Goto
  <2>3. UNCHANGED <<files, downloader, tool, ctr, channel, receiver>>
    BY <1>5 DEF Finish
  <2> QED  BY <2>1, <2>2, <2>3 DEF downloader, receiver
<1> QED  BY <1>1, <1>2, <1>3, <1>4, <1>5 DEF ThreadStep

LEMMA MessageOf ==
  ASSUME NEW m \in Message, m.what \in {"missing", "mismatch", "seen"}
  PROVE  m.of \in Versions
BY DEF Message

LEMMA ReceiveTypes == TypeInv /\ Receive => TypeInv'
<1> SUFFICES ASSUME TypeInv, Receive PROVE TypeInv'
  OBVIOUS
<1> USE MirrorConstants DEF TypeInv, TypeOK
<1>1. /\ Head(channel) \in Message /\ channel' \in Seq(Message)
      /\ Len(channel') <= Capacity
  BY TailType DEF Receive
<1>2. reports' \in [Versions -> Nat]
  <2>1. CASE Head(channel).what \in {"missing", "mismatch", "seen"}
    BY <1>1, <2>1, MessageOf DEF Receive
  <2>2. CASE Head(channel).what \notin {"missing", "mismatch", "seen"}
    BY <2>2 DEF Receive
  <2> QED  BY <2>1, <2>2
<1>3. /\ threads_running' \in 0..ThreadCount /\ main' \in {"receiving", "ended"}
      /\ main' = "receiving" => threads_running' > 0
  BY DEF Receive
<1>4. UNCHANGED <<files, downloader, tool, thread>>
  BY DEF Receive
<1> QED  BY <1>1, <1>2, <1>3, <1>4 DEF downloader, thread

LEMMA TypeStep == TypeInv /\ [Next]_vars => TypeInv'
<1>1. TypeInv /\ ReceiveFails => TypeInv'
  BY DEF ReceiveFails, TypeInv, TypeOK, downloader, thread
<1>2. TypeInv /\ UNCHANGED vars => TypeInv'
  BY DEF vars, TypeInv, TypeOK, downloader, thread, receiver
<1> QED  BY <1>1, <1>2, DownloaderTypes, ThreadTypes, ReceiveTypes DEF Next

LEMMA TypeInvariant == Spec => []TypeInv
BY TypeInit, TypeStep, PTL DEF Spec

(* Every variable keeps its type, the channel its capacity, and a thread   *)
(* only looks at versions there are.                                       *)
THEOREM TypeCorrect == Spec => []TypeOK
<1>1. TypeInv => TypeOK
  BY DEF TypeInv
<1> QED  BY <1>1, TypeInvariant, PTL

-----------------------------------------------------------------------------
(* The directory.  What the downloader is about to do fits the file it is  *)
(* at, and the files it has been at in this run are not partial.           *)

AtFile ==
  /\ dpc \in {"request", "create"} => files[dpos] = "absent"
  /\ dpc = "remove" => files[dpos] \notin {"absent", "good"}
  /\ dpc = "copy" => files[dpos] = "partial"

WholeBefore ==
  /\ dpc \notin {"stopped", "ended"} => \A v \in Versions : v < dpos => files[v] # "partial"
  /\ NothingPartial

Directory == AtFile /\ WholeBefore

LEMMA DirectoryInit == Init => Directory
BY DEF Init, Directory, AtFile, WholeBefore, NothingPartial

(* The next version, when the file at dpos is not partial any more.        *)
LEMMA NextVersionDirectory ==
  ASSUME TypeInv, Directory, dpc \notin {"stopped", "ended"}, NextVersion, files'[dpos] # "partial",
         \A v \in Versions : v # dpos => files'[v] = files[v]
  PROVE  Directory'
<1>1. dpos \in 1..N /\ N \in Nat
  BY MirrorConstants DEF TypeInv, TypeOK
<1>2. \A v \in Versions : v <= dpos => files'[v] # "partial"
  BY <1>1 DEF Directory, WholeBefore, Versions
<1>3. CASE dpos < N
  <2>1. dpc' = "open" /\ dpos' = dpos + 1
    BY <1>3 DEF NextVersion
  <2>2. \A v \in Versions : v < dpos' => files'[v] # "partial"
    BY <1>1, <1>2, <2>1 DEF Versions
  <2> QED  BY <2>1, <2>2 DEF Directory, AtFile, WholeBefore, NothingPartial
<1>4. CASE ~(dpos < N)
  <2>1. dpc' = "ended"
    BY <1>4 DEF NextVersion
  <2>2. \A v \in Versions : files'[v] # "partial"
    BY <1>1, <1>2, <1>4 DEF Versions
  <2> QED  BY <2>1, <2>2 DEF Directory, AtFile, WholeBefore, NothingPartial
<1> QED  BY <1>3, <1>4

LEMMA DirectoryStep == TypeInv /\ Directory /\ [Next]_vars => Directory'
<1> SUFFICES ASSUME TypeInv, Directory, [Next]_vars PROVE Directory'
  OBVIOUS
<1>1. /\ files \in [Versions -> Contents] /\ N \in Nat
      /\ dpc \notin {"stopped", "ended"} => dpos \in Versions
  BY MirrorConstants DEF TypeInv, TypeOK, Versions
<1> USE DEF Directory, AtFile, WholeBefore
<1>2. CASE Run
  BY <1>2 DEF Run, NothingPartial, Versions
<1>3. CASE Open
  <2>1. CASE files[dpos] = "absent"  BY <1>1, <1>3, <2>1 DEF Open, NothingPartial
  <2>2. CASE files[dpos] = "good"
    <3>1. NextVersion  BY <1>3, <2>2 DEF Open
    <3> QED  BY <1>1, <1>3, <2>2, <3>1, NextVersionDirectory DEF Open
  <2>3. CASE files[dpos] \notin {"absent", "good"}
    BY <1>1, <1>3, <2>3 DEF Open, NothingPartial
  <2> QED  BY <2>1, <2>2, <2>3
<1>4. CASE Remove
  BY <1>1, <1>4 DEF Remove, NothingPartial
<1>5. CASE Request
  <2>1. CASE NextVersion
    BY <1>1, <1>5, <2>1, NextVersionDirectory DEF Request
  <2>2. CASE dpc' = "create" /\ UNCHANGED dpos
    BY <1>1, <1>5, <2>2 DEF Request, NothingPartial
  <2> QED  BY <1>5, <2>1, <2>2 DEF Request
<1>6. CASE Create
  <2>1. dpos \in Versions /\ ~(dpos < dpos)
    BY <1>1, <1>6 DEF Create, Versions
  <2> QED  BY <1>1, <1>6, <2>1 DEF Create, NothingPartial
<1>7. CASE Copy
  <2>1. dpos \in Versions /\ \E c \in {"good", "bad"} : files' = [files EXCEPT ![dpos] = c]
    BY <1>1, <1>7 DEF Copy
  <2>2. files'[dpos] # "partial" /\ \A v \in Versions : v # dpos => files'[v] = files[v]
    BY <1>1, <2>1
  <2> QED  BY <1>7, <2>2, NextVersionDirectory DEF Copy
<1>8. CASE Stop
  BY <1>8 DEF Stop, NothingPartial
<1>9. CASE UNCHANGED <<files, downloader>>
  BY <1>9 DEF NothingPartial, downloader
<1>10. ASSUME NEW t \in Threads, ThreadStep(t) PROVE UNCHANGED <<files, downloader>>
  BY <1>10 DEF ThreadStep, Count, Look, Reopen, Send, Finish
<1>11. Receive \/ ReceiveFails \/ UNCHANGED vars => UNCHANGED <<files, downloader>>
  BY DEF Receive, ReceiveFails, vars
<1> QED  BY <1>2, <1>3, <1>4, <1>5, <1>6, <1>7, <1>8, <1>9, <1>10, <1>11 DEF Next, DownloaderStep

LEMMA DirectoryInvariant == Spec => []Directory
BY DirectoryInit, DirectoryStep, TypeInvariant, PTL DEF Spec

(* A run of the downloader that gets to its end leaves no partial file,    *)
(* wherever the runs before it were stopped.                               *)
THEOREM CompleteRun == Spec => []NothingPartial
<1>1. Directory => NothingPartial
  BY DEF Directory, WholeBefore
<1> QED  BY <1>1, DirectoryInvariant, PTL

-----------------------------------------------------------------------------
(* Verified files.  Only analyze gets as far as "reopen"; the file is good *)
(* then, and good files are not touched.                                   *)

LEMMA GoodStays ==
  ASSUME TypeInv, Directory, [Next]_vars, NEW v \in Versions, files[v] = "good"
  PROVE  files'[v] = "good"
<1>1. files \in [Versions -> Contents]
  BY DEF TypeInv, TypeOK
<1> USE DEF Directory, AtFile
<1>2. CASE Remove  BY <1>1, <1>2 DEF Remove
<1>3. CASE Create  BY <1>1, <1>3 DEF Create
<1>4. CASE Copy
  <2>1. \E c \in {"good", "bad"} : files' = [files EXCEPT ![dpos] = c]
    BY <1>4 DEF Copy
  <2>2. v # dpos
    BY <1>4 DEF Copy
  <2> QED  BY <1>1, <2>1, <2>2
<1>5. Run \/ Open \/ Request \/ Stop \/ UNCHANGED vars => UNCHANGED files
  BY DEF Run, Open, Request, Stop, vars
<1>6. ASSUME NEW t \in Threads, ThreadStep(t) PROVE UNCHANGED files
  BY <1>6 DEF ThreadStep, Count, Look, Reopen, Send, Finish
<1>7. Receive \/ ReceiveFails => UNCHANGED files
  BY DEF Receive, ReceiveFails
<1> QED  BY <1>2, <1>3, <1>4, <1>5, <1>6, <1>7 DEF Next, DownloaderStep

(* A thread has one message at most, as it goes on when it has sent it.    *)
Verified ==
  /\ \A t \in Threads : tpc[t] = "reopen" => files[ctr[t]] = "good"
  /\ \A t \in Threads : Len(out[t]) <= 1
  /\ \A t \in Threads : \A i \in DOMAIN out[t] : out[t][i].what = "file" => out[t][i].of = "good"
  /\ VerifiedStays

LEMMA VerifiedInit == Init => Verified
BY DEF Init, Verified, VerifiedStays

(* Only in "look" does a thread decide what to do next.                    *)
LEMMA SayOne ==
  ASSUME TypeInv, NEW t \in Threads, out[t] = <<>>, NEW what, NEW v, Say(t, what, v)
  PROVE  out' = [out EXCEPT ![t] = << [what |-> what, of |-> v] >>]
<1>1. Append(<<>>, [what |-> what, of |-> v]) = << [what |-> what, of |-> v] >>
  OBVIOUS
<1> QED  BY <1>1 DEF Say, TypeInv, TypeOK

LEMMA VerifiedThread ==
  ASSUME TypeInv, Directory, Verified, NEW t \in Threads, ThreadStep(t)
  PROVE  Verified'
<1>1. /\ out \in [Threads -> Seq(Message)] /\ ctr \in [Threads -> 0..N]
      /\ tpc \in [Threads -> {"scan", "look", "reopen", "panicked", "ended"}]
      /\ channel \in Seq(Message)
  BY DEF TypeInv, TypeOK
<1>2. files' = files
  BY DEF ThreadStep, Count, Look, Reopen, Send, Finish
<1> USE DEF Verified, VerifiedStays
<1>3. ASSUME NEW m, out' = [out EXCEPT ![t] = <<m>>], m.what = "file" => m.of = "good"
      PROVE  /\ \A u \in Threads : Len(out'[u]) <= 1
             /\ \A u \in Threads : \A i \in DOMAIN out'[u] : out'[u][i].what = "file" => out'[u][i].of = "good"
  BY <1>1, <1>3
<1>4. CASE Count(t)
  BY <1>1, <1>2, <1>4 DEF Count, Goto
<1>5. CASE Look(t)
  <2>1. PICK what \in {"missing", "mismatch", "seen"} : Say(t, what, ctr[t])
    BY <1>5 DEF Look
  <2>2. out' = [out EXCEPT ![t] = << [what |-> what, of |-> ctr[t]] >>]
    BY <1>5, <2>1, SayOne DEF Look, Ready
  <2>3. [what |-> what, of |-> ctr[t]].what # "file"
    BY <2>1
  <2>4. PICK p \in {"scan", "reopen"} : tpc' = [tpc EXCEPT ![t] = p]
    BY <1>5 DEF Look, Goto
  <2>5. p = "reopen" => files[ctr[t]] = "good"
    <3>1. CASE files[ctr[t]] = "absent"
      BY <1>1, <1>5, <2>4, <3>1 DEF Look, Goto
    <3>2. CASE files[ctr[t]] \in {"partial", "bad"}
      <4>1. CASE tool # "grep"  BY <1>1, <1>5, <2>4, <3>2, <4>1 DEF Look, Goto
      <4>2. CASE tool = "grep"  BY <1>1, <1>5, <2>4, <3>2, <4>2 DEF Look, Goto
      <4> QED  BY <4>1, <4>2
    <3>3. files[ctr[t]] \in Contents
      BY <1>5 DEF TypeInv, TypeOK, Look, Ready
    <3> QED  BY <3>1, <3>2, <3>3 DEF Contents
  <2>6. UNCHANGED <<ctr, channel>>
    BY <1>5 DEF Look
  <2> QED  BY <1>1, <1>2, <1>3, <2>2, <2>3, <2>4, <2>5, <2>6
<1>6. CASE Reopen(t)
  <2>1. files[ctr[t]] = "good"
    BY <1>6 DEF Reopen, Ready
  <2>2. Say(t, "file", "good") /\ Goto(t, "scan") /\ UNCHANGED <<ctr, channel>>
    BY <1>6, <2>1 DEF Reopen
  <2>3. out' = [out EXCEPT ![t] = << [what |-> "file", of |-> "good"] >>]
    BY <1>6, <2>2, SayOne DEF Reopen, Ready
  <2> QED  BY <1>1, <1>2, <1>3, <2>2, <2>3 DEF Goto
<1>7. CASE Send(t)
  <2>1. out[t] # <<>> /\ out[t] \in Seq(Message)
    BY <1>1, <1>7 DEF Send
  <2>2. Len(out[t]) <= 1
    OBVIOUS
  <2>3. Tail(out[t]) = <<>> /\ Head(out[t]) = out[t][1] /\ 1 \in DOMAIN out[t] /\ Head(out[t]) \in Message
    BY <2>1, <2>2, SingleType
  <2>4. out' = [out EXCEPT ![t] = <<>>] /\ channel' = Append(channel, Head(out[t])) /\ UNCHANGED <<tpc, ctr>>
    BY <1>7, <2>3 DEF Send
  <2>5. \A i \in DOMAIN channel' : channel'[i].what = "file" => channel'[i].of = "good"
    BY <1>1, <2>3, <2>4, AppendType
  <2> QED  BY <1>1, <1>2, <2>4, <2>5
<1>8. CASE Finish(t)
  <2>1. Goto(t, "ended") /\ UNCHANGED <<ctr, channel>>
    BY <1>8 DEF Finish
  <2>2. CASE UNCHANGED out
    BY <1>1, <1>2, <2>1, <2>2 DEF Goto
  <2>3. CASE Say(t, "done", 0)
    <3>1. out' = [out EXCEPT ![t] = << [what |-> "done", of |-> 0] >>]
      BY <1>8, <2>3, SayOne DEF Finish, Ready
    <3> QED  BY <1>1, <1>2, <1>3, <2>1, <3>1 DEF Goto
  <2> QED  BY <1>8, <2>2, <2>3 DEF Finish
<1> QED  BY <1>4, <1>5, <1>6, <1>7, <1>8 DEF ThreadStep

LEMMA VerifiedStep == TypeInv /\ Directory /\ Verified /\ [Next]_vars => Verified'
<1> SUFFICES ASSUME TypeInv, Directory, Verified, [Next]_vars PROVE Verified'
  OBVIOUS
<1>1. \A t \in Threads : tpc[t] = "reopen" => files'[ctr[t]] = "good"
  <2>1. \A t \in Threads : tpc[t] = "reopen" => ctr[t] \in Versions
    BY DEF TypeInv
  <2> QED  BY <2>1, GoodStays DEF Verified
<1>2. CASE UNCHANGED <<thread, channel>>
  BY <1>1, <1>2 DEF Verified, VerifiedStays, thread
<1>3. CASE Receive
  <2>1. channel # <<>> /\ channel \in Seq(Message) /\ channel' = Tail(channel) /\ UNCHANGED thread
    BY <1>3 DEF Receive, TypeInv, TypeOK
  <2>2. \A i \in DOMAIN channel' : channel'[i] = channel[i + 1] /\ i + 1 \in DOMAIN channel
    BY <2>1, TailType
  <2> QED  BY <1>1, <2>1, <2>2 DEF Verified, VerifiedStays, thread
<1>4. DownloaderStep \/ ReceiveFails \/ UNCHANGED vars => UNCHANGED <<thread, channel>>
  BY DEF DownloaderStep, Run, Open, Remove, Request, Create, Copy, Stop, ReceiveFails, vars
<1> QED  BY <1>2, <1>3, <1>4, VerifiedThread DEF Next

LEMMA VerifiedInvariant == Spec => []Verified
BY VerifiedInit, VerifiedStep, TypeInvariant, DirectoryInvariant, PTL DEF Spec

(* What analyze has verified it can open again, and the files it counts    *)
(* are those of verified archives, whatever the downloader does beside it. *)
THEOREM VerifiedIsThere == Spec => []VerifiedStays
<1>1. Verified => VerifiedStays
  BY DEF Verified
<1> QED  BY <1>1, VerifiedInvariant, PTL

-----------------------------------------------------------------------------
(* Reports.  The report about a version is in its thread's hand, in the    *)
(* channel or received from the moment the thread has looked at it, and it *)
(* is in one of these places only.                                         *)

About(m, v) == m.what \in {"missing", "mismatch", "seen"} /\ m.of = v

Owner(v) == v % ThreadCount

Passed(v) ==
  \/ ctr[Owner(v)] > v
  \/ ctr[Owner(v)] = v /\ tpc[Owner(v)] # "look"

InHand(v) == out[Owner(v)] # <<>> /\ About(out[Owner(v)][1], v)

InChannel(v) == \E i \in DOMAIN channel : About(channel[i], v)

(* A thread looks at its own versions only and speaks of no other.         *)
OwnOnly ==
  /\ \A t \in Threads : tpc[t] \in {"look", "reopen"} => Owner(ctr[t]) = t
  /\ \A t \in Threads, v \in Versions : out[t] # <<>> /\ About(out[t][1], v) => Owner(v) = t

OnePlace ==
  \A v \in Versions :
    /\ reports[v] <= 1
    /\ InHand(v) => ~InChannel(v) /\ reports[v] = 0
    /\ InChannel(v) => reports[v] = 0
    /\ \A i, j \in DOMAIN channel : About(channel[i], v) /\ About(channel[j], v) => i = j
    /\ Passed(v) <=> InHand(v) \/ InChannel(v) \/ reports[v] = 1

Once == OwnOnly /\ OnePlace

LEMMA OwnerType == \A v \in Versions : Owner(v) \in Threads
<1> SUFFICES ASSUME NEW v \in Versions PROVE Owner(v) \in Threads
  OBVIOUS
<1>1. v \in Nat /\ ThreadCount \in Nat \ {0}
  BY MirrorConstants DEF Versions
<1>2. v % ThreadCount \in 0..ThreadCount - 1
  BY <1>1
<1> QED  BY <1>2 DEF Owner, Threads

LEMMA OnceInit == Init => Once
<1> SUFFICES ASSUME Init PROVE Once
  OBVIOUS
<1>1. OwnOnly
  BY DEF Init, OwnOnly
<1>2. ASSUME NEW v \in Versions PROVE ~Passed(v) /\ ~InHand(v) /\ ~InChannel(v) /\ reports[v] = 0
  <2>1. Owner(v) \in Threads /\ v > 0 /\ v \in Nat
    BY OwnerType, MirrorConstants DEF Versions
  <2> QED  BY <2>1 DEF Init, Passed, InHand, InChannel
<1>3. DOMAIN channel = {}
  BY DEF Init
<1> QED  BY <1>1, <1>2, <1>3 DEF Once, OnePlace

(* Steps that move no report.                                              *)
LEMMA OnceSame ==
  ASSUME Once, UNCHANGED <<channel, reports>>,
         \A v \in Versions : Passed(v)' <=> Passed(v),
         \A v \in Versions : InHand(v)' <=> InHand(v),
         OwnOnly'
  PROVE  Once'
BY DEF Once, OnePlace, InChannel

LEMMA OnceCount ==
  ASSUME TypeInv, Once, NEW t \in Threads, Count(t)
  PROVE  Once'
<1>1. /\ ctr \in [Threads -> 0..N] /\ N \in Nat /\ t \in Nat /\ Versions \subseteq Nat
      /\ tpc \in [Threads -> {"scan", "look", "reopen", "panicked", "ended"}]
  BY MirrorConstants DEF TypeInv, TypeOK, Threads, Versions
<1>2. /\ ctr' = [ctr EXCEPT ![t] = ctr[t] + 1] /\ ctr[t] + 1 \in Nat /\ tpc[t] = "scan"
      /\ tpc' = [tpc EXCEPT ![t] = IF Owner(ctr[t] + 1) = t THEN "look" ELSE "scan"]
      /\ UNCHANGED <<out, channel, reports>>
  BY <1>1 DEF Count, Goto, Ready, Owner, receiver
<1>3. ASSUME NEW v \in Versions PROVE Passed(v)' <=> Passed(v)
  <2>0. Owner(v) \in Threads /\ v \in Nat /\ ctr[t] \in Nat
    BY <1>1, OwnerType
  <2>1. CASE Owner(v) # t
    BY <1>1, <1>2, <2>0, <2>1 DEF Passed
  <2>2. CASE Owner(v) = t /\ v = ctr[t] + 1
    <3>1. ctr'[t] = v /\ tpc'[t] = "look" /\ ~(ctr[t] > v) /\ ctr[t] # v
      BY <1>1, <1>2, <2>0, <2>2
    <3>2. ~(ctr'[t] > v)
      BY <2>0, <3>1
    <3> QED  BY <2>2, <3>1, <3>2 DEF Passed
  <2>3. CASE Owner(v) = t /\ v # ctr[t] + 1
    <3>1. ctr'[t] = ctr[t] + 1 /\ (ctr[t] + 1 > v <=> ctr[t] > v \/ ctr[t] = v)
      BY <1>1, <1>2, <2>0, <2>3
    <3>2. Passed(v) <=> ctr[t] > v \/ ctr[t] = v
      BY <1>2, <2>3 DEF Passed
    <3>3. Passed(v)' <=> ctr[t] + 1 > v
      BY <2>3, <3>1 DEF Passed
    <3> QED  BY <3>1, <3>2, <3>3
  <2> QED  BY <2>1, <2>2, <2>3
<1>4. OwnOnly'
  BY <1>1, <1>2 DEF Once, OwnOnly
<1>5. \A v \in Versions : InHand(v)' <=> InHand(v)
  BY <1>2 DEF InHand
<1> QED  BY <1>2, <1>3, <1>4, <1>5, OnceSame

LEMMA OnceLook ==
  ASSUME TypeInv, Once, NEW t \in Threads, Look(t)
  PROVE  Once'
<1>0. PICK u \in Versions : u = ctr[t]
  BY DEF Look, Ready, TypeInv
<1>1. /\ ctr \in [Threads -> 0..N] /\ ctr[t] = u /\ Owner(u) = t /\ u \in Nat
      /\ tpc \in [Threads -> {"scan", "look", "reopen", "panicked", "ended"}]
      /\ out \in [Threads -> Seq(Message)] /\ out[t] = <<>> /\ tpc[t] = "look"
  BY <1>0 DEF Look, Ready, TypeInv, TypeOK, Once, OwnOnly, Versions
<1>2. PICK what \in {"missing", "mismatch", "seen"} : Say(t, what, u)
  BY <1>0 DEF Look
<1>3. out' = [out EXCEPT ![t] = << [what |-> what, of |-> u] >>]
  BY <1>1, <1>2, SayOne
<1>4. PICK p \in {"scan", "reopen"} : tpc' = [tpc EXCEPT ![t] = p]
  BY DEF Look, Goto
<1>5. UNCHANGED <<ctr, channel, reports>>
  BY DEF Look, receiver
<1>6. out'[t] # <<>> /\ out'[t][1] = [what |-> what, of |-> u] /\ tpc'[t] = p
  BY <1>1, <1>3, <1>4
<1>7. \A v \in Versions : About(out'[t][1], v) <=> v = u
  BY <1>2, <1>6 DEF About
<1>8. OwnOnly'
  <2>1. \A x \in Threads : tpc'[x] \in {"look", "reopen"} => Owner(ctr[x]) = x
    BY <1>1, <1>4 DEF Once, OwnOnly
  <2>2. \A x \in Threads, v \in Versions : out'[x] # <<>> /\ About(out'[x][1], v) => Owner(v) = x
    <3> SUFFICES ASSUME NEW x \in Threads, NEW v \in Versions, out'[x] # <<>>, About(out'[x][1], v)
                 PROVE  Owner(v) = x
      OBVIOUS
    <3>1. CASE x = t  BY <1>1, <1>7, <3>1
    <3>2. CASE x # t  BY <1>1, <1>3, <3>2 DEF Once, OwnOnly
    <3> QED  BY <3>1, <3>2
  <2>3. ctr' = ctr
    BY <1>5
  <2> QED  BY <2>1, <2>2, <2>3 DEF OwnOnly, About, Owner
<1>9. ~Passed(u) /\ ~InHand(u) /\ ~InChannel(u) /\ reports[u] = 0
  <2>1. ~Passed(u)
    BY <1>1 DEF Passed
  <2>2. reports[u] \in Nat /\ reports[u] <= 1 /\ reports[u] # 1
    BY <1>1, <2>1 DEF Once, OnePlace, TypeInv, TypeOK
  <2>3. reports[u] = 0
    BY <2>2
  <2> QED  BY <1>1, <2>1, <2>3 DEF Once, OnePlace
<1>10. Passed(u)' /\ InHand(u)'
  <2>1. Passed(u)'
    BY <1>1, <1>5, <1>6 DEF Passed, Owner
  <2>2. InHand(u)'
    BY <1>1, <1>5, <1>6, <1>7 DEF InHand, Owner, About
  <2> QED  BY <2>1, <2>2
<1>11. ASSUME NEW v \in Versions, v # u
       PROVE  (Passed(v)' <=> Passed(v)) /\ (InHand(v)' <=> InHand(v))
  <2>1. Owner(v) \in Threads /\ ctr[Owner(v)] \in Nat /\ v \in Nat
    BY <1>1, OwnerType DEF Versions
  <2>2. CASE Owner(v) # t
    BY <1>1, <1>3, <1>4, <1>5, <2>1, <2>2 DEF Passed, InHand
  <2>3. CASE Owner(v) = t
    <3>1. Passed(v)' <=> Passed(v)
      BY <1>1, <1>5, <1>11, <2>1, <2>3 DEF Passed
    <3>2. ~InHand(v)' /\ ~InHand(v)
      BY <1>1, <1>7, <1>11, <2>3 DEF InHand, Owner, About
    <3> QED  BY <3>1, <3>2
  <2> QED  BY <2>2, <2>3
<1>12. OnePlace'
  <2> SUFFICES ASSUME NEW v \in Versions
               PROVE  /\ reports[v] <= 1
                      /\ InHand(v)' => ~InChannel(v) /\ reports[v] = 0
                      /\ InChannel(v) => reports[v] = 0
                      /\ \A i, j \in DOMAIN channel : About(channel[i], v) /\ About(channel[j], v) => i = j
                      /\ Passed(v)' <=> InHand(v)' \/ InChannel(v) \/ reports[v] = 1
    BY <1>5 DEF OnePlace, InChannel
  <2>1. CASE v = u
    <3>1. reports[v] = 0 /\ ~InChannel(v) /\ Passed(v)' /\ InHand(v)'
      BY <1>9, <1>10, <2>1
    <3>2. \A i, j \in DOMAIN channel : About(channel[i], v) /\ About(channel[j], v) => i = j
      BY DEF Once, OnePlace
    <3> QED  BY <3>1, <3>2
  <2>2. CASE v # u  BY <1>11, <2>2 DEF Once, OnePlace
  <2> QED  BY <2>1, <2>2
<1> QED  BY <1>8, <1>12 DEF Once

(* Messages that are no reports: those of Reopen and Finish.               *)
LEMMA OnceOther ==
  ASSUME TypeInv, Once, NEW t \in Threads, Reopen(t) \/ Finish(t)
  PROVE  Once'
<1>1. /\ out \in [Threads -> Seq(Message)] /\ out[t] = <<>>
      /\ tpc \in [Threads -> {"scan", "look", "reopen", "panicked", "ended"}]
      /\ tpc[t] \in {"reopen", "scan"}
  BY DEF Reopen, Finish, Ready, TypeInv, TypeOK
<1>2. PICK p \in {"scan", "panicked", "ended"} : tpc' = [tpc EXCEPT ![t] = p]
  BY DEF Reopen, Finish, Goto
<1>3. UNCHANGED <<ctr, channel, reports>>
  BY DEF Reopen, Finish, receiver
<1>4. UNCHANGED out \/ \E v : \E what \in {"file", "done"} : Say(t, what, v)
  BY DEF Reopen, Finish
<1>5. \/ out' = out
      \/ \E v : \E what \in {"file", "done"} : out' = [out EXCEPT ![t] = << [what |-> what, of |-> v] >>]
  BY <1>1, <1>4, SayOne
<1>6. \A x \in Threads, v \in Versions :
        (out'[x] # <<>> /\ About(out'[x][1], v)) <=> (out[x] # <<>> /\ About(out[x][1], v))
  <2>1. CASE out' = out  BY <2>1
  <2>2. ASSUME NEW what \in {"file", "done"}, NEW w,
               out' = [out EXCEPT ![t] = << [what |-> what, of |-> w] >>]
        PROVE  <1>6!:
    <3>1. \A v : ~About(out'[t][1], v)
      BY <1>1, <2>2 DEF About
    <3>2. \A x \in Threads : x # t => out'[x] = out[x]
      BY <1>1, <2>2
    <3> QED  BY <1>1, <3>1, <3>2 DEF About
  <2> QED  BY <1>5, <2>1, <2>2
<1>7. \A v \in Versions : InHand(v)' <=> InHand(v)
  BY <1>6, OwnerType DEF InHand, Owner, About
<1>8. \A v \in Versions : Passed(v)' <=> Passed(v)
  <2> SUFFICES ASSUME NEW v \in Versions PROVE Passed(v)' <=> Passed(v)
    OBVIOUS
  <2>1. tpc'[Owner(v)] # "look" <=> tpc[Owner(v)] # "look"
    BY <1>1, <1>2, OwnerType
  <2> QED  BY <1>3, <2>1 DEF Passed, Owner
<1>9. OwnOnly'
  <2>1. \A x \in Threads : tpc'[x] \in {"look", "reopen"} => Owner(ctr'[x]) = x
    BY <1>1, <1>2, <1>3 DEF Once, OwnOnly
  <2>2. \A x \in Threads, v \in Versions : out'[x] # <<>> /\ About(out'[x][1], v) => Owner(v) = x
    BY <1>6 DEF Once, OwnOnly
  <2> QED  BY <2>1, <2>2 DEF OwnOnly, Owner, About
<1> QED  BY <1>3, <1>7, <1>8, <1>9, OnceSame

LEMMA OnceSend ==
  ASSUME TypeInv, Verified, Once, NEW t \in Threads, Send(t)
  PROVE  Once'
<1>1. /\ out \in [Threads -> Seq(Message)] /\ channel \in Seq(Message)
      /\ out[t] \in Seq(Message) /\ out[t] # <<>> /\ Len(out[t]) <= 1
  BY DEF Send, TypeInv, TypeOK, Verified
<1> DEFINE m == out[t][1]
           n == Len(channel)
<1>2. Tail(out[t]) = <<>> /\ Head(out[t]) = m /\ m \in Message
  BY <1>1, SingleType
<1>3. /\ out' = [out EXCEPT ![t] = <<>>] /\ channel' = Append(channel, m)
      /\ UNCHANGED <<ctr, tpc, reports>>
  BY <1>2 DEF Send, receiver
<1>4. /\ n \in Nat /\ DOMAIN channel = 1..n /\ DOMAIN channel' = 1..(n + 1)
      /\ \A i \in 1..n : channel'[i] = channel[i]
      /\ channel'[n + 1] = m
  BY <1>1, <1>2, <1>3, AppendType
<1> HIDE DEF m, n
<1>5. OwnOnly'
  <2>1. \A x \in Threads : out'[x] # <<>> => out'[x] = out[x]
    BY <1>1, <1>3
  <2>2. \A x \in Threads, v \in Versions : out'[x] # <<>> /\ About(out'[x][1], v) => Owner(v) = x
    BY <2>1 DEF Once, OwnOnly
  <2>3. \A x \in Threads : tpc'[x] \in {"look", "reopen"} => Owner(ctr'[x]) = x
    BY <1>3 DEF Once, OwnOnly
  <2> QED  BY <2>2, <2>3 DEF OwnOnly, Owner, About
<1>6. \A v \in Versions : Passed(v)' <=> Passed(v)
  BY <1>3 DEF Passed, Owner
<1>7. ASSUME NEW v \in Versions PROVE InChannel(v)' <=> InChannel(v) \/ About(m, v)
  BY <1>4 DEF InChannel, About
<1>8. ASSUME NEW v \in Versions, About(m, v) PROVE InHand(v) /\ ~InHand(v)'
  <2>1. Owner(v) = t
    BY <1>1, <1>8 DEF Once, OwnOnly, m
  <2>2. InHand(v)
    BY <1>1, <1>8, <2>1 DEF InHand, m
  <2>3. ~InHand(v)'
    BY <1>1, <1>3, <2>1 DEF InHand, Owner
  <2> QED  BY <2>2, <2>3
<1>9. ASSUME NEW v \in Versions, ~About(m, v) PROVE InHand(v)' <=> InHand(v)
  <2>1. CASE Owner(v) = t
    BY <1>1, <1>3, <1>9, <2>1 DEF InHand, Owner, About, m
  <2>2. CASE Owner(v) # t
    <3>1. out'[Owner(v)] = out[Owner(v)]
      BY <1>1, <1>3, <2>2, OwnerType
    <3> QED  BY <3>1 DEF InHand, Owner, About
  <2> QED  BY <2>1, <2>2
<1>10. OnePlace'
  <2> SUFFICES ASSUME NEW v \in Versions
               PROVE  /\ reports[v] <= 1
                      /\ InHand(v)' => ~InChannel(v)' /\ reports[v] = 0
                      /\ InChannel(v)' => reports[v] = 0
                      /\ \A i, j \in DOMAIN channel' : About(channel'[i], v) /\ About(channel'[j], v) => i = j
                      /\ Passed(v)' <=> InHand(v)' \/ InChannel(v)' \/ reports[v] = 1
    BY <1>3 DEF OnePlace, About
  <2>1. CASE About(m, v)
    <3>1. InHand(v) /\ ~InHand(v)' /\ InChannel(v)' /\ ~InChannel(v) /\ reports[v] = 0
      BY <1>7, <1>8, <2>1 DEF Once, OnePlace
    <3>2. \A i \in 1..n : ~About(channel'[i], v)
      BY <1>4, <3>1 DEF InChannel
    <3>3. \A i, j \in DOMAIN channel' : About(channel'[i], v) /\ About(channel'[j], v) => i = j
      BY <1>4, <3>2
    <3>4. Passed(v)'
      BY <1>6, <3>1 DEF Once, OnePlace
    <3> QED  BY <3>1, <3>3, <3>4
  <2>2. CASE ~About(m, v)
    <3>1. \A i, j \in DOMAIN channel' : About(channel'[i], v) /\ About(channel'[j], v) => i = j
      BY <1>4, <2>2 DEF Once, OnePlace
    <3>2. InChannel(v)' <=> InChannel(v)
      BY <1>7, <2>2
    <3>3. InHand(v)' <=> InHand(v)
      BY <1>9, <2>2
    <3> QED  BY <1>6, <3>1, <3>2, <3>3 DEF Once, OnePlace
  <2> QED  BY <2>1, <2>2
<1> QED  BY <1>5, <1>10 DEF Once

LEMMA OnceReceive == TypeInv /\ Once /\ Receive => Once'
<1> SUFFICES ASSUME TypeInv, Once, Receive PROVE Once'
  OBVIOUS
<1> DEFINE m == channel[1]
           n == Len(channel)
<1>1. channel \in Seq(Message) /\ channel # <<>> /\ reports \in [Versions -> Nat]
  BY DEF Receive, TypeInv, TypeOK
<1>2. /\ Head(channel) = m /\ m \in Message /\ n \in Nat \ {0}
      /\ Len(Tail(channel)) = n - 1 /\ Tail(channel) \in Seq(Message)
      /\ \A i \in 1..(n - 1) : Tail(channel)[i] = channel[i + 1]
  BY <1>1, TailType
<1>3. /\ channel' = Tail(channel) /\ UNCHANGED <<ctr, tpc, out>>
      /\ reports' = IF m.what \in {"missing", "mismatch", "seen"}
                    THEN [reports EXCEPT ![m.of] = reports[m.of] + 1] ELSE reports
  BY <1>2 DEF Receive, thread
<1>4. DOMAIN channel = 1..n /\ DOMAIN channel' = 1..(n - 1) /\ \A i \in 1..(n - 1) : channel'[i] = channel[i + 1]
  BY <1>1, <1>2, <1>3
<1>5. 1 \in DOMAIN channel /\ \A i \in DOMAIN channel' : i + 1 \in DOMAIN channel /\ channel'[i] = channel[i + 1] /\ i + 1 # 1
  BY <1>2, <1>4
<1>6. \A i \in DOMAIN channel : i # 1 => \E j \in DOMAIN channel' : i = j + 1
  <2> SUFFICES ASSUME NEW i \in DOMAIN channel, i # 1 PROVE \E j \in DOMAIN channel' : i = j + 1
    OBVIOUS
  <2>1. i - 1 \in DOMAIN channel' /\ i = (i - 1) + 1
    BY <1>2, <1>4
  <2> QED  BY <2>1
<1> HIDE DEF m, n
<1>7. OwnOnly'
  BY <1>3 DEF Once, OwnOnly, Owner, About
<1>8. \A v \in Versions : (Passed(v)' <=> Passed(v)) /\ (InHand(v)' <=> InHand(v))
  BY <1>3 DEF Passed, InHand, Owner, About
<1>9. \A v \in Versions :
        \A i, j \in DOMAIN channel' : About(channel'[i], v) /\ About(channel'[j], v) => i = j
  <2> SUFFICES ASSUME NEW v \in Versions, NEW i \in DOMAIN channel', NEW j \in DOMAIN channel',
                      About(channel'[i], v), About(channel'[j], v)
               PROVE  i = j
    OBVIOUS
  <2>1. i + 1 = j + 1
    BY <1>5 DEF Once, OnePlace
  <2>2. i \in Nat /\ j \in Nat
    BY <1>4
  <2> QED  BY <2>1, <2>2
<1>10. ASSUME NEW v \in Versions, About(m, v)
       PROVE  InChannel(v) /\ ~InChannel(v)' /\ reports[v] = 0 /\ reports'[v] = 1 /\ ~InHand(v)
  <2>1. InChannel(v)
    BY <1>5, <1>10 DEF InChannel, m
  <2>2. reports[v] = 0 /\ ~InHand(v)
    BY <2>1 DEF Once, OnePlace
  <2>3. reports'[v] = 1
    BY <1>1, <1>3, <1>10, <2>2 DEF About
  <2>4. ~InChannel(v)'
    <3> SUFFICES ASSUME NEW i \in DOMAIN channel', About(channel'[i], v) PROVE FALSE
      BY DEF InChannel, About
    <3>1. About(channel[i + 1], v) /\ About(channel[1], v)
      BY <1>5, <1>10 DEF m
    <3> QED  BY <1>5, <3>1 DEF Once, OnePlace
  <2> QED  BY <2>1, <2>2, <2>3, <2>4
<1>11. ASSUME NEW v \in Versions, ~About(m, v)
       PROVE  (InChannel(v)' <=> InChannel(v)) /\ reports'[v] = reports[v]
  <2>1. reports'[v] = reports[v]
    BY <1>1, <1>3, <1>11 DEF About
  <2>2. ASSUME InChannel(v) PROVE InChannel(v)'
    <3>1. PICK i \in DOMAIN channel : About(channel[i], v)
      BY <2>2 DEF InChannel
    <3>2. PICK j \in DOMAIN channel' : i = j + 1
      BY <1>6, <1>11, <3>1 DEF m
    <3>3. About(channel'[j], v)
      BY <1>5, <3>1, <3>2
    <3> QED  BY <3>3 DEF InChannel, About
  <2>3. ASSUME InChannel(v)' PROVE InChannel(v)
    <3>1. PICK i \in DOMAIN channel' : About(channel'[i], v)
      BY <2>3 DEF InChannel, About
    <3> QED  BY <1>5, <3>1 DEF InChannel
  <2> QED  BY <2>1, <2>2, <2>3
<1>12. OnePlace'
  <2> SUFFICES ASSUME NEW v \in Versions
               PROVE  /\ reports'[v] <= 1
                      /\ InHand(v)' => ~InChannel(v)' /\ reports'[v] = 0
                      /\ InChannel(v)' => reports'[v] = 0
                      /\ Passed(v)' <=> InHand(v)' \/ InChannel(v)' \/ reports'[v] = 1
    BY <1>9 DEF OnePlace, About
  <2>1. CASE About(m, v)
    BY <1>8, <1>10, <2>1 DEF Once, OnePlace
  <2>2. CASE ~About(m, v)
    BY <1>8, <1>11, <2>2 DEF Once, OnePlace
  <2> QED  BY <2>1, <2>2
<1> QED  BY <1>7, <1>12 DEF Once

LEMMA OnceStep == TypeInv /\ Verified /\ Once /\ [Next]_vars => Once'
<1> SUFFICES ASSUME TypeInv, Verified, Once, [Next]_vars PROVE Once'
  OBVIOUS
<1>1. UNCHANGED <<thread, channel, reports>> => Once'
  BY DEF Once, OwnOnly, OnePlace, Passed, InHand, InChannel, Owner, About, thread
<1>2. DownloaderStep \/ ReceiveFails \/ UNCHANGED vars => UNCHANGED <<thread, channel, reports>>
  BY DEF DownloaderStep, Run, Open, Remove, Request, Create, Copy, Stop, ReceiveFails, vars, receiver
<1>3. ASSUME NEW t \in Threads, ThreadStep(t) PROVE Once'
  BY <1>3, OnceCount, OnceLook, OnceOther, OnceSend DEF ThreadStep
<1> QED  BY <1>1, <1>2, <1>3, OnceReceive DEF Next

LEMMA OnceInvariant == Spec => []Once
BY OnceInit, OnceStep, TypeInvariant, VerifiedInvariant, PTL DEF Spec

-----------------------------------------------------------------------------
(* The end.  analyze counts its threads down: threads_running is how many  *)
(* still have to say or send something, and how many last messages are     *)
(* under way.  The tools that do not count wait for the senders to go.     *)

Unfinished == {t \in Threads : ~(tpc[t] = "ended" /\ out[t] = <<>>)}

DonesIn(q) == {i \in DOMAIN q : q[i].what = "done"}

Dones == DonesIn(channel)

(* "done" is the last thing a thread of analyze says, and only of analyze. *)
LastWord ==
  /\ \A t \in Threads : tpc[t] = "ended" => ctr[t] = N
  /\ \A t \in Threads :
       out[t] # <<>> => (out[t][1].what = "done" <=> tool = "analyze" /\ tpc[t] = "ended")

CountDown ==
  /\ tool = "analyze" => threads_running = Cardinality(Unfinished) + Cardinality(Dones)
  /\ tool # "analyze" => threads_running = ThreadCount /\ Dones = {}
  /\ tool = "analyze" /\ Unfinished = {} /\ channel # <<>> => channel[Len(channel)].what = "done"

Quiet == main = "ended" => channel = <<>> /\ Unfinished = {}

Ending == LastWord /\ CountDown /\ Quiet

LEMMA FiniteCounts ==
  ASSUME TypeInv
  PROVE  /\ IsFiniteSet(Unfinished) /\ Cardinality(Unfinished) \in Nat
         /\ IsFiniteSet(Dones) /\ Cardinality(Dones) \in Nat
<1>1. ThreadCount - 1 \in Int /\ 0 \in Int /\ Len(channel) \in Int /\ 1 \in Int
  BY MirrorConstants DEF TypeInv, TypeOK
<1>2. IsFiniteSet(Threads)
  BY <1>1, FS_Interval DEF Threads
<1>3. DOMAIN channel = 1..Len(channel)
  BY DEF TypeInv, TypeOK
<1>4. IsFiniteSet(DOMAIN channel)
  BY <1>1, <1>3, FS_Interval
<1>5. Unfinished \in SUBSET Threads /\ Dones \in SUBSET DOMAIN channel
  BY DEF Unfinished, Dones, DonesIn
<1>6. IsFiniteSet(Unfinished) /\ IsFiniteSet(Dones)
  BY <1>2, <1>4, <1>5, FS_Subset
<1> QED  BY <1>6, FS_CardinalityType

(* Without its first element a channel holds the same last words but one.  *)
LEMMA DonesOfTail ==
  ASSUME NEW q \in Seq(Message), q # <<>>, IsFiniteSet(DonesIn(q))
  PROVE  Cardinality(DonesIn(Tail(q))) = Cardinality(DonesIn(q) \ {1})
<1> DEFINE n == Len(q)
           S == DonesIn(Tail(q))
           T == DonesIn(q) \ {1}
           f == [i \in S |-> i + 1]
           g == [i \in T |-> i - 1]
<1>1. /\ n \in Nat \ {0} /\ DOMAIN q = 1..n /\ DOMAIN Tail(q) = 1..(n - 1)
      /\ \A i \in 1..(n - 1) : Tail(q)[i] = q[i + 1]
  BY TailType
<1>2. \A i \in S : i \in 1..(n - 1) /\ q[i + 1].what = "done"
  BY <1>1 DEF DonesIn
<1>3. \A i \in T : i \in 2..n /\ q[i].what = "done"
  BY <1>1 DEF DonesIn
<1>4. \A i \in T : i - 1 \in 1..(n - 1) /\ (i - 1) + 1 = i
  BY <1>1, <1>3
<1>5. \A i \in T : i - 1 \in S
  BY <1>1, <1>3, <1>4 DEF DonesIn
<1>6. \A i \in S : i + 1 \in 1..n /\ i + 1 # 1
  BY <1>1, <1>2
<1>7. \A i \in S : i + 1 \in T
  BY <1>1, <1>2, <1>6 DEF DonesIn
<1> HIDE DEF n, S, T
<1>8. g \in [T -> S]
  BY <1>5
<1>9. \A a, b \in T : g[a] = g[b] => a = b
  BY <1>3
<1>10. \A s \in S : \E t \in T : g[t] = s
  <2> SUFFICES ASSUME NEW s \in S PROVE \E t \in T : g[t] = s
    OBVIOUS
  <2>1. s + 1 \in T /\ (s + 1) - 1 = s
    BY <1>2, <1>7
  <2> QED  BY <2>1
<1>11. g \in Bijection(T, S)
  BY <1>8, <1>9, <1>10, Fun_IsBij
<1>12. IsFiniteSet(T)
  BY FS_RemoveElement DEF T
<1> HIDE DEF g
<1>13. Cardinality(S) = Cardinality(T)
  BY <1>11, <1>12, FS_Bijection DEF ExistsBijection
<1> QED  BY <1>13 DEF S, T

LEMMA EndingInit == Init => Ending
<1> SUFFICES ASSUME Init PROVE Ending
  OBVIOUS
<1>1. Unfinished = Threads /\ Dones = {}
  BY DEF Init, Unfinished, Dones, DonesIn
<1>2. Cardinality(Threads) = ThreadCount
  <2>1. 0 \in Int /\ ThreadCount - 1 \in Int /\ ~(0 > ThreadCount - 1) /\ (ThreadCount - 1) - 0 + 1 = ThreadCount
    BY MirrorConstants
  <2> QED  BY <2>1, FS_Interval DEF Threads
<1>3. threads_running = Cardinality(Unfinished) + Cardinality(Dones)
  BY <1>1, <1>2, FS_EmptySet, MirrorConstants DEF Init
<1> QED  BY <1>1, <1>3 DEF Init, Ending, LastWord, CountDown, Quiet

(* A thread that takes a step has not finished, so the main thread has not *)
(* stopped receiving.                                                      *)
LEMMA EndingSame ==
  ASSUME Ending, Unfinished # {}, tool = "analyze" => Unfinished' = Unfinished,
         UNCHANGED <<tool, channel, threads_running, main>>, LastWord'
  PROVE  Ending'
<1>1. Dones' = Dones
  BY DEF Dones, DonesIn
<1>2. CountDown'
  BY <1>1 DEF Ending, CountDown
<1>3. Quiet'
  BY DEF Ending, Quiet
<1> QED  BY <1>2, <1>3 DEF Ending

LEMMA EndingScan ==
  ASSUME TypeInv, Ending, NEW t \in Threads, Count(t) \/ Look(t) \/ Reopen(t) \/ Finish(t)
  PROVE  Ending'
<1>1. /\ out \in [Threads -> Seq(Message)] /\ out[t] = <<>> /\ ctr \in [Threads -> 0..N]
      /\ tpc \in [Threads -> {"scan", "look", "reopen", "panicked", "ended"}] /\ tpc[t] # "ended"
  BY DEF Count, Look, Reopen, Finish, Ready, TypeInv, TypeOK
<1>2. UNCHANGED <<tool, channel, threads_running, main>>
  BY DEF Count, Look, Reopen, Finish, receiver
<1> DEFINE A == tpc'[t] = "ended" => ctr'[t] = N
           B == out'[t] # <<>> => (out'[t][1].what = "done" <=> tool = "analyze" /\ tpc'[t] = "ended")
           C == tool = "analyze" => ~(tpc'[t] = "ended" /\ out'[t] = <<>>)
           Others == \A x \in Threads : x # t => tpc'[x] = tpc[x] /\ out'[x] = out[x] /\ ctr'[x] = ctr[x]
<1>3. A /\ B /\ C /\ Others
  <2>1. CASE Count(t)
    <3>1. /\ \E n : ctr' = [ctr EXCEPT ![t] = n]
          /\ \E p \in {"look", "scan"} : tpc' = [tpc EXCEPT ![t] = p]
          /\ out' = out
      BY <2>1 DEF Count, Goto
    <3> QED  BY <1>1, <3>1
  <2>2. CASE Look(t)
    <3>1. /\ \E what \in {"missing", "mismatch", "seen"} : Say(t, what, ctr[t])
          /\ \E p \in {"scan", "reopen"} : tpc' = [tpc EXCEPT ![t] = p]
          /\ ctr' = ctr
      BY <2>2 DEF Look, Goto
    <3>2. \E what \in {"missing", "mismatch", "seen"} :
            out' = [out EXCEPT ![t] = << [what |-> what, of |-> ctr[t]] >>]
      BY <1>1, <3>1, SayOne
    <3> QED  BY <1>1, <3>1, <3>2
  <2>3. CASE Reopen(t)
    <3>1. /\ UNCHANGED out \/ \E v : Say(t, "file", v)
          /\ \E p \in {"panicked", "scan"} : tpc' = [tpc EXCEPT ![t] = p]
          /\ ctr' = ctr
      BY <2>3 DEF Reopen, Goto
    <3>2. UNCHANGED out \/ \E v : out' = [out EXCEPT ![t] = << [what |-> "file", of |-> v] >>]
      BY <1>1, <3>1, SayOne
    <3> QED  BY <1>1, <3>1, <3>2
  <2>4. CASE Finish(t)
    <3>1. /\ IF tool = "analyze" THEN Say(t, "done", 0) ELSE UNCHANGED out
          /\ tpc' = [tpc EXCEPT ![t] = "ended"] /\ ctr' = ctr /\ ctr[t] = N
      BY <2>4 DEF Finish, Goto
    <3>2. IF tool = "analyze" THEN out' = [out EXCEPT ![t] = << [what |-> "done", of |-> 0] >>]
          ELSE UNCHANGED out
      BY <1>1, <3>1, SayOne
    <3>3. CASE tool = "analyze"
      <4>1. out' = [out EXCEPT ![t] = << [what |-> "done", of |-> 0] >>]
        BY <3>2, <3>3
      <4> QED  BY <1>1, <3>1, <3>3, <4>1
    <3>4. CASE tool # "analyze"
      <4>1. out' = out
        BY <3>2, <3>4
      <4> QED  BY <1>1, <3>1, <3>4, <4>1
    <3> QED  BY <3>3, <3>4
  <2> QED  BY <2>1, <2>2, <2>3, <2>4
<1> HIDE DEF A, B, C, Others
<1>4. LastWord'
  <2> SUFFICES ASSUME NEW x \in Threads
               PROVE  /\ tpc'[x] = "ended" => ctr'[x] = N
                      /\ out'[x] # <<>> =>
                           (out'[x][1].what = "done" <=> tool = "analyze" /\ tpc'[x] = "ended")
    BY <1>2 DEF LastWord
  <2>1. CASE x = t  BY <1>3, <2>1 DEF A, B
  <2>2. CASE x # t  BY <1>3, <2>2 DEF Others, Ending, LastWord
  <2> QED  BY <2>1, <2>2
<1>5. t \in Unfinished
  BY <1>1 DEF Unfinished
<1>6. ASSUME tool = "analyze" PROVE Unfinished' = Unfinished
  <2>1. \A x \in Threads : (tpc'[x] = "ended" /\ out'[x] = <<>>) <=> (tpc[x] = "ended" /\ out[x] = <<>>)
    BY <1>1, <1>3, <1>6 DEF C, Others
  <2> QED  BY <2>1 DEF Unfinished
<1> QED  BY <1>2, <1>4, <1>5, <1>6, EndingSame

LEMMA EndingSend ==
  ASSUME TypeInv, Verified, Ending, NEW t \in Threads, Send(t)
  PROVE  Ending'
<1> DEFINE m == out[t][1]
           n == Len(channel)
<1>1. /\ out \in [Threads -> Seq(Message)] /\ channel \in Seq(Message)
      /\ out[t] \in Seq(Message) /\ out[t] # <<>> /\ Len(out[t]) <= 1
  BY DEF Send, TypeInv, TypeOK, Verified
<1>2. Tail(out[t]) = <<>> /\ Head(out[t]) = m /\ m \in Message
  BY <1>1, SingleType
<1>3. /\ out' = [out EXCEPT ![t] = <<>>] /\ channel' = Append(channel, m)
      /\ UNCHANGED <<tool, ctr, tpc, threads_running, main>>
  BY <1>2 DEF Send, receiver
<1>4. /\ n \in Nat /\ DOMAIN channel = 1..n /\ DOMAIN channel' = 1..(n + 1) /\ Len(channel') = n + 1
      /\ \A i \in 1..n : channel'[i] = channel[i]
      /\ channel'[n + 1] = m
  BY <1>1, <1>2, <1>3, AppendType
<1>5. m.what = "done" <=> tool = "analyze" /\ tpc[t] = "ended"
  BY <1>1 DEF Ending, LastWord
<1>6. t \in Unfinished
  BY <1>1 DEF Unfinished
<1> HIDE DEF m, n
<1>7. LastWord'
  <2>1. \A x \in Threads : out'[x] # <<>> => out'[x] = out[x]
    BY <1>1, <1>3
  <2> QED  BY <1>3, <2>1 DEF Ending, LastWord
<1>8. Quiet'
  BY <1>3, <1>6 DEF Ending, Quiet
<1>9. Unfinished' = IF tpc[t] = "ended" THEN Unfinished \ {t} ELSE Unfinished
  <2>1. \A x \in Threads : x # t => out'[x] = out[x]
    BY <1>1, <1>3
  <2>2. out'[t] = <<>> /\ tpc' = tpc
    BY <1>1, <1>3
  <2>3. CASE tpc[t] = "ended"  BY <2>1, <2>2, <2>3 DEF Unfinished
  <2>4. CASE tpc[t] # "ended"  BY <2>1, <2>2, <2>4 DEF Unfinished
  <2> QED  BY <2>3, <2>4
<1>10. Dones' = IF m.what = "done" THEN Dones \cup {n + 1} ELSE Dones
  <2>1. Dones' = {i \in 1..(n + 1) : channel'[i].what = "done"} /\ Dones = {i \in 1..n : channel[i].what = "done"}
    BY <1>4 DEF Dones, DonesIn
  <2>2. 1..(n + 1) = (1..n) \cup {n + 1}
    BY <1>4
  <2>3. Dones' = {i \in 1..n : channel'[i].what = "done"} \cup {i \in {n + 1} : channel'[i].what = "done"}
    BY <2>1, <2>2
  <2>4. {i \in 1..n : channel'[i].what = "done"} = Dones
    BY <1>4, <2>1
  <2>5. {i \in {n + 1} : channel'[i].what = "done"} = IF m.what = "done" THEN {n + 1} ELSE {}
    BY <1>4
  <2> QED  BY <2>3, <2>4, <2>5
<1>11. n + 1 \notin Dones
  BY <1>4 DEF Dones, DonesIn
<1>12. CountDown'
  <2>1. CASE tool # "analyze"
    BY <1>3, <1>5, <1>10, <2>1 DEF Ending, CountDown
  <2>2. CASE tool = "analyze" /\ tpc[t] # "ended"
    <3>1. Unfinished' = Unfinished /\ Dones' = Dones
      BY <1>5, <1>9, <1>10, <2>2
    <3> QED  BY <1>3, <1>6, <2>2, <3>1 DEF Ending, CountDown
  <2>3. CASE tool = "analyze" /\ tpc[t] = "ended"
    <3>1. Unfinished' = Unfinished \ {t} /\ Dones' = Dones \cup {n + 1} /\ m.what = "done"
      BY <1>5, <1>9, <1>10, <2>3
    <3>2. Cardinality(Unfinished \ {t}) = Cardinality(Unfinished) - 1
      BY <1>6, FiniteCounts, FS_RemoveElement
    <3>3. Cardinality(Dones \cup {n + 1}) = Cardinality(Dones) + 1
      BY <1>11, FiniteCounts, FS_AddElement
    <3>4. threads_running = Cardinality(Unfinished) + Cardinality(Dones)
      BY <2>3 DEF Ending, CountDown
    <3>5. threads_running = Cardinality(Unfinished \ {t}) + Cardinality(Dones \cup {n + 1})
      BY <3>2, <3>3, <3>4, FiniteCounts
    <3>6. channel'[Len(channel')].what = "done"
      BY <1>4, <3>1
    <3> QED  BY <1>3, <2>3, <3>1, <3>5, <3>6 DEF CountDown
  <2> QED  BY <2>1, <2>2, <2>3
<1> QED  BY <1>7, <1>8, <1>12 DEF Ending

LEMMA EndingReceive == TypeInv /\ Ending /\ Receive => Ending'
<1> SUFFICES ASSUME TypeInv, Ending, Receive PROVE Ending'
  OBVIOUS
<1> DEFINE m == channel[1]
           n == Len(channel)
<1>1. channel \in Seq(Message) /\ channel # <<>> /\ threads_running \in Nat
  BY MirrorConstants DEF Receive, TypeInv, TypeOK
<1>2. /\ Head(channel) = m /\ n \in Nat \ {0} /\ DOMAIN channel = 1..n
      /\ Len(Tail(channel)) = n - 1 /\ Tail(channel) \in Seq(Message)
      /\ \A i \in 1..(n - 1) : Tail(channel)[i] = channel[i + 1]
  BY <1>1, TailType
<1>3. /\ channel' = Tail(channel) /\ UNCHANGED <<tool, ctr, tpc, out>>
      /\ threads_running' = IF m.what = "done" THEN threads_running - 1 ELSE threads_running
      /\ main' = IF threads_running' = 0 THEN "ended" ELSE "receiving"
  BY <1>2 DEF Receive, thread
<1> HIDE DEF n
<1>4. m.what = "done" <=> 1 \in Dones
  BY <1>2 DEF Dones, DonesIn
<1> HIDE DEF m
<1>5. Unfinished' = Unfinished
  BY <1>3 DEF Unfinished
<1>6. LastWord'
  BY <1>3 DEF Ending, LastWord
<1>7. Dones' = DonesIn(Tail(channel))
  BY <1>3 DEF Dones, DonesIn
<1>8. Cardinality(Dones') = Cardinality(Dones \ {1})
  BY <1>1, <1>7, FiniteCounts, DonesOfTail DEF Dones
<1>9. Cardinality(Dones \ {1}) = IF 1 \in Dones THEN Cardinality(Dones) - 1 ELSE Cardinality(Dones)
  BY FiniteCounts, FS_RemoveElement
<1>10. ASSUME tool = "analyze" PROVE threads_running' = Cardinality(Unfinished') + Cardinality(Dones')
  <2>1. threads_running = Cardinality(Unfinished) + Cardinality(Dones)
    BY <1>10 DEF Ending, CountDown
  <2>2. CASE 1 \in Dones
    BY <1>3, <1>4, <1>5, <1>8, <1>9, <2>1, <2>2, FiniteCounts
  <2>3. CASE 1 \notin Dones
    BY <1>3, <1>4, <1>5, <1>8, <1>9, <2>1, <2>3, FiniteCounts
  <2> QED  BY <2>2, <2>3
<1>11. ASSUME tool # "analyze" PROVE threads_running' = ThreadCount /\ Dones' = {}
  <2>1. threads_running = ThreadCount /\ Dones = {}
    BY <1>11 DEF Ending, CountDown
  <2>2. \A i \in DOMAIN Tail(channel) : i + 1 \in DOMAIN channel /\ Tail(channel)[i] = channel[i + 1]
    <3>1. DOMAIN Tail(channel) = 1..(n - 1)
      BY <1>2 DEF n
    <3>2. \A i \in 1..(n - 1) : i + 1 \in 1..n
      BY <1>2
    <3> QED  BY <1>2, <3>1, <3>2
  <2>3. Dones' = {}
    BY <1>7, <2>1, <2>2 DEF Dones, DonesIn
  <2> QED  BY <1>3, <1>4, <2>1, <2>3
<1>12. ASSUME tool = "analyze", Unfinished = {}, Tail(channel) # <<>>
       PROVE  Tail(channel)[Len(Tail(channel))].what = "done"
  <2>1. channel[n].what = "done"
    BY <1>1, <1>12 DEF Ending, CountDown, n
  <2>2. n - 1 \in 1..(n - 1) /\ (n - 1) + 1 = n
    <3>1. n # 1
      BY <1>2, <1>12
    <3> QED  BY <1>2, <3>1
  <2> QED  BY <1>2, <2>1, <2>2
<1>13. CountDown'
  <2>1. tool = "analyze" => threads_running' = Cardinality(Unfinished)' + Cardinality(Dones)'
    BY <1>10
  <2> QED  BY <1>3, <1>5, <1>11, <1>12, <2>1 DEF CountDown
<1>14. Quiet'
  <2> SUFFICES ASSUME main' = "ended" PROVE channel' = <<>> /\ Unfinished' = {}
    BY DEF Quiet
  <2>1. threads_running' = 0
    BY <1>3
  <2>2. tool = "analyze"
    BY <1>11, <2>1, MirrorConstants
  <2>3. /\ Cardinality(Unfinished) \in Nat /\ Cardinality(Dones') \in Nat
        /\ IsFiniteSet(Unfinished) /\ IsFiniteSet(Dones')
    <3>1. IsFiniteSet(Dones \ {1})
      BY FiniteCounts, FS_RemoveElement
    <3>2. Cardinality(Dones \ {1}) \in Nat
      BY <3>1, FS_CardinalityType
    <3>3. IsFiniteSet(Dones')
      <4>1. 1 \in Int /\ n - 1 \in Int /\ DOMAIN Tail(channel) = 1..(n - 1)
        BY <1>2 DEF n
      <4>2. IsFiniteSet(DOMAIN Tail(channel))
        BY <4>1, FS_Interval
      <4>3. Dones' \in SUBSET DOMAIN Tail(channel)
        BY <1>7 DEF DonesIn
      <4> QED  BY <4>2, <4>3, FS_Subset
    <3> QED  BY <1>8, <3>2, <3>3, FiniteCounts
  <2>4. Cardinality(Unfinished) = 0 /\ Cardinality(Dones') = 0
    BY <1>5, <1>10, <2>1, <2>2, <2>3
  <2>5. Unfinished = {} /\ Dones' = {}
    BY <2>3, <2>4, FS_EmptySet
  <2>6. Tail(channel) = <<>>
    <3> SUFFICES ASSUME Tail(channel) # <<>> PROVE FALSE
      OBVIOUS
    <3>1. Tail(channel)[Len(Tail(channel))].what = "done"
      BY <1>12, <2>2, <2>5
    <3>2. Len(Tail(channel)) \in DOMAIN Tail(channel)
      BY <1>2
    <3> QED  BY <1>7, <2>5, <3>1, <3>2 DEF DonesIn
  <2> QED  BY <1>3, <1>5, <2>5, <2>6
<1> QED  BY <1>6, <1>13, <1>14 DEF Ending

LEMMA EndingStep == TypeInv /\ Verified /\ Ending /\ [Next]_vars => Ending'
<1> SUFFICES ASSUME TypeInv, Verified, Ending, [Next]_vars PROVE Ending'
  OBVIOUS
<1>1. ASSUME UNCHANGED <<tool, thread, channel, receiver>> PROVE Ending'
  BY <1>1 DEF Ending, LastWord, CountDown, Quiet, Unfinished, Dones, DonesIn, thread, receiver
<1>2. DownloaderStep \/ UNCHANGED vars => UNCHANGED <<tool, thread, channel, receiver>>
  BY DEF DownloaderStep, Run, Open, Remove, Request, Create, Copy, Stop, vars
<1>3. ASSUME NEW t \in Threads, ThreadStep(t) PROVE Ending'
  BY <1>3, EndingScan, EndingSend DEF ThreadStep
<1>4. ASSUME ReceiveFails PROVE Ending'
  <2>1. channel = <<>> /\ UNCHANGED <<tool, thread, channel, threads_running>>
    BY <1>4 DEF ReceiveFails
  <2>2. Unfinished = {}
    BY <1>4 DEF ReceiveFails, Disconnected, Ended, Verified, VerifiedStays, Unfinished
  <2>3. Unfinished' = Unfinished /\ Dones' = Dones
    BY <2>1 DEF Unfinished, Dones, DonesIn, thread
  <2>4. LastWord'
    BY <2>1 DEF Ending, LastWord, thread
  <2>5. CountDown'
    BY <2>1, <2>3 DEF Ending, CountDown
  <2>6. Quiet'
    BY <2>1, <2>2, <2>3 DEF Quiet
  <2> QED  BY <2>4, <2>5, <2>6 DEF Ending
<1> QED  BY <1>1, <1>2, <1>3, <1>4, EndingReceive DEF Next

LEMMA EndingInvariant == Spec => []Ending
BY EndingInit, EndingStep, TypeInvariant, VerifiedInvariant, PTL DEF Spec

(* Whatever the order of the threads and of the downloader beside them,    *)
(* run reports each version by the thread it falls to, and the main thread *)
(* does not leave its loop before it has received all reports.             *)
THEOREM ReportedOnce == Spec => []EachReportedOnce
<1>1. TypeInv /\ Once /\ Ending => EachReportedOnce
  <2> SUFFICES ASSUME TypeInv, Once, Ending, NEW v \in Versions
               PROVE  reports[v] <= 1 /\ (main = "ended" => reports[v] = 1)
    BY DEF EachReportedOnce
  <2>1. reports[v] <= 1
    BY DEF Once, OnePlace
  <2>2. ASSUME main = "ended" PROVE reports[v] = 1
    <3>1. Owner(v) \in Threads /\ v \in 1..N /\ N \in Nat
      BY OwnerType, MirrorConstants DEF Versions
    <3>2. tpc[Owner(v)] = "ended" /\ out[Owner(v)] = <<>> /\ channel = <<>> /\ ctr[Owner(v)] = N
      BY <2>2, <3>1 DEF Ending, Quiet, LastWord, Unfinished
    <3>3. Passed(v)
      BY <3>1, <3>2 DEF Passed
    <3>4. ~InHand(v) /\ ~InChannel(v)
      BY <3>2 DEF InHand, InChannel
    <3> QED  BY <3>3, <3>4 DEF Once, OnePlace
  <2> QED  BY <2>1, <2>2
<1> QED  BY <1>1, TypeInvariant, OnceInvariant, EndingInvariant, PTL
=============================================================================
