---------------------------- MODULE CrateMirror ----------------------------
(***************************************************************************)
(* The directory crate-archives, the downloader that fills it and a tool   *)
(* that goes through it with several threads: analyze-all-crates,          *)
(* diff-all-crates or all-crate-grep.                                      *)
(*                                                                         *)
(* The downloader goes through all versions of all crates, keeps what has  *)
(* the right checksum, deletes what has not and downloads what is not      *)
(* there.  It may be stopped at any point and is then run again.  The      *)
(* threads of a tool divide the versions by counting them; they report to  *)
(* the main thread over a bounded channel.                                 *)
(*                                                                         *)
(* A file is what comparing its checksum finds out: "partial" while it is  *)
(* written and when that was cut short, "bad" when the server sent other   *)
(* content, "good" otherwise.                                              *)
(***************************************************************************)
EXTENDS Naturals, Sequences

CONSTANTS
  N,            \* number of versions of all crates, total_file_count
  ThreadCount,  \* 8 in all tools
  Capacity      \* of the channel: 10 in all tools

ASSUME MirrorConstants ==
  /\ N \in Nat
  /\ ThreadCount \in Nat \ {0}
  /\ Capacity \in Nat \ {0}

Versions == 1..N
Threads == 0..ThreadCount - 1

Tools == {"analyze", "diff", "grep"}

Contents == {"absent", "partial", "bad", "good"}

(* "seen" is what is said of a version that was found and, unless the tool *)
(* does not care, verified: one message, or one for each match; "file"     *)
(* stands for all messages of analyze about the files in it, read from an  *)
(* archive with that content; "done" is the last message of its threads.   *)
Message ==
  [what : {"missing", "mismatch", "seen"}, of : Versions]
    \cup [what : {"file"}, of : Contents] \cup [what : {"done"}, of : {0}]

VARIABLES
  files,     \* what the directory holds
  dpc, dpos, \* the downloader: what it is about to do, for which version
  tool,      \* the tool that is run
  ctr,       \* ctr[t]: how many versions thread t has counted
  tpc,       \* tpc[t]: what it does with the last one
  out,       \* out[t]: messages it is sending
  channel,
  threads_running,
  main,      \* the main thread is receiving or has ended
  reports    \* reports[v]: messages received about version v

downloader == <<dpc, dpos>>
thread == <<ctr, tpc, out>>
receiver == <<threads_running, main, reports>>
vars == <<files, downloader, tool, thread, channel, receiver>>

Init ==
  /\ files = [v \in Versions |-> "absent"]
  /\ dpc = "stopped" /\ dpos = 0
  /\ tool \in Tools
  /\ ctr = [t \in Threads |-> 0]
  /\ tpc = [t \in Threads |-> "scan"]
  /\ out = [t \in Threads |-> <<>>]
  /\ channel = <<>>
  /\ threads_running = ThreadCount
  /\ main = "receiving"
  /\ reports = [v \in Versions |-> 0]

-----------------------------------------------------------------------------
(* The downloader.                                                         *)

(* The next version, or the end of the loop.                               *)
NextVersion ==
  IF dpos < N THEN dpc' = "open" /\ dpos' = dpos + 1
  ELSE dpc' = "ended" /\ dpos' = 0

Run ==
  /\ dpc \in {"stopped", "ended"}
  /\ N > 0
  /\ dpc' = "open" /\ dpos' = 1
  /\ UNCHANGED <<files, tool, thread, channel, receiver>>

(* Slip: a file that is there is kept, whatever is in it.                  *)
OpenUnchecked ==
  /\ dpc = "open"
  /\ IF files[dpos] = "absent" THEN dpc' = "request" /\ UNCHANGED dpos
     ELSE NextVersion
  /\ UNCHANGED <<files, tool, thread, channel, receiver>>

(* Slip: no continue after a checksum that is right.                       *)
OpenRefetches ==
  /\ dpc = "open"
  /\ dpc' = IF files[dpos] \in {"absent", "good"} THEN "request" ELSE "remove"
  /\ UNCHANGED <<dpos, files, tool, thread, channel, receiver>>

(* File::open and the comparison of the checksum.                          *)
Open ==
  /\ dpc = "open"
  /\ CASE files[dpos] = "absent" -> dpc' = "request" /\ UNCHANGED dpos
       [] files[dpos] = "good" -> NextVersion
       [] OTHER -> dpc' = "remove" /\ UNCHANGED dpos
  /\ UNCHANGED <<files, tool, thread, channel, receiver>>

Remove ==
  /\ dpc = "remove"
  /\ files' = [files EXCEPT ![dpos] = "absent"]
  /\ dpc' = "request"
  /\ UNCHANGED <<dpos, tool, thread, channel, receiver>>

(* Anything but success is printed and the version skipped.                *)
Request ==
  /\ dpc = "request"
  /\ \/ dpc' = "create" /\ UNCHANGED dpos
     \/ NextVersion
  /\ UNCHANGED <<files, tool, thread, channel, receiver>>

Create ==
  /\ dpc = "create"
  /\ files' = [files EXCEPT ![dpos] = "partial"]
  /\ dpc' = "copy"
  /\ UNCHANGED <<dpos, tool, thread, channel, receiver>>

(* io::copy gets to the end of the response.  What came is not verified.   *)
Copy ==
  /\ dpc = "copy"
  /\ \E c \in {"good", "bad"} : files' = [files EXCEPT ![dpos] = c]
  /\ NextVersion
  /\ UNCHANGED <<tool, thread, channel, receiver>>

(* The user stops it, or one of the unwraps does.                          *)
Stop ==
  /\ dpc \notin {"stopped", "ended"}
  /\ dpc' = "stopped" /\ dpos' = 0
  /\ UNCHANGED <<files, tool, thread, channel, receiver>>

DownloaderStep == Run \/ Open \/ Remove \/ Request \/ Create \/ Copy \/ Stop

-----------------------------------------------------------------------------
(* A thread of the tool.                                                   *)

Say(t, what, v) == out' = [out EXCEPT ![t] = Append(@, [what |-> what, of |-> v])]

Goto(t, p) == tpc' = [tpc EXCEPT ![t] = p]

Ready(t, p) == tpc[t] = p /\ out[t] = <<>>

(* ctr += 1; if ctr % tc != t { continue; }                                *)
Count(t) ==
  /\ Ready(t, "scan") /\ ctr[t] < N
  /\ ctr' = [ctr EXCEPT ![t] = @ + 1]
  /\ Goto(t, IF ctr'[t] % ThreadCount = t THEN "look" ELSE "scan")
  /\ UNCHANGED <<files, downloader, tool, out, channel, receiver>>

(* The file is opened, read and, by two of the tools, verified.  One step  *)
(* is enough: who reads a file to its end while it is written has either   *)
(* read all of it or not, and a removed file stays as it was for whoever   *)
(* has opened it.                                                          *)
Look(t) ==
  LET c == files[ctr[t]] IN
  /\ Ready(t, "look")
  /\ CASE c = "absent" -> Say(t, "missing", ctr[t]) /\ Goto(t, "scan")
       [] c \in {"partial", "bad"} /\ tool # "grep" ->
            Say(t, "mismatch", ctr[t]) /\ Goto(t, "scan")
       [] OTHER ->
            /\ Say(t, "seen", ctr[t])
            /\ Goto(t, IF tool = "analyze" THEN "reopen" ELSE "scan")
  /\ UNCHANGED <<files, downloader, tool, ctr, channel, receiver>>

(* analyze opens the file it has verified a second time; that it should be *)
(* gone or have changed is not expected: File::open(..).unwrap().          *)
Reopen(t) ==
  /\ Ready(t, "reopen")
  /\ IF files[ctr[t]] = "absent" THEN Goto(t, "panicked") /\ UNCHANGED out
     ELSE Say(t, "file", files[ctr[t]]) /\ Goto(t, "scan")
  /\ UNCHANGED <<files, downloader, tool, ctr, channel, receiver>>

(* Slip: a channel without a bound.                                        *)
SendUnbounded(t) ==
  /\ out[t] # <<>>
  /\ channel' = Append(channel, Head(out[t]))
  /\ out' = [out EXCEPT ![t] = Tail(@)]
  /\ UNCHANGED <<files, downloader, tool, ctr, tpc, receiver>>

(* tx.send: blocks while the channel is full.                              *)
Send(t) ==
  /\ out[t] # <<>> /\ Len(channel) < Capacity
  /\ channel' = Append(channel, Head(out[t]))
  /\ out' = [out EXCEPT ![t] = Tail(@)]
  /\ UNCHANGED <<files, downloader, tool, ctr, tpc, receiver>>

(* The end of run; only analyze says so.                                   *)
Finish(t) ==
  /\ Ready(t, "scan") /\ ctr[t] = N
  /\ Goto(t, "ended")
  /\ IF tool = "analyze" THEN Say(t, "done", 0) ELSE UNCHANGED out
  /\ UNCHANGED <<files, downloader, tool, ctr, channel, receiver>>

ThreadStep(t) == Count(t) \/ Look(t) \/ Reopen(t) \/ Send(t) \/ Finish(t)

-----------------------------------------------------------------------------
(* The tool's main thread.                                                 *)

Ended(t) == tpc[t] = "panicked" \/ (tpc[t] = "ended" /\ out[t] = <<>>)

(* Slip: the main thread keeps a sender for as long as it receives.        *)
DisconnectedLate == main = "ended" /\ \A t \in Threads : Ended(t)

(* All senders have been dropped; the main thread's own is dropped first.  *)
Disconnected == \A t \in Threads : Ended(t)

(* Slip: the first thread that is done ends the loop.                      *)
ReceiveOneDone ==
  LET m == Head(channel) IN
  /\ main = "receiving" /\ channel # <<>>
  /\ channel' = Tail(channel)
  /\ reports' = IF m.what \in {"missing", "mismatch", "seen"}
                THEN [reports EXCEPT ![m.of] = @ + 1] ELSE reports
  /\ threads_running' = IF m.what = "done" THEN threads_running - 1 ELSE threads_running
  /\ main' = IF m.what = "done" THEN "ended" ELSE "receiving"
  /\ UNCHANGED <<files, downloader, tool, thread>>

Receive ==
  LET m == Head(channel) IN
  /\ main = "receiving" /\ channel # <<>>
  /\ channel' = Tail(channel)
  /\ reports' = IF m.what \in {"missing", "mismatch", "seen"}
                THEN [reports EXCEPT ![m.of] = @ + 1] ELSE reports
  /\ threads_running' = IF m.what = "done" THEN threads_running - 1 ELSE threads_running
  /\ main' = IF threads_running' = 0 THEN "ended" ELSE "receiving"
  /\ UNCHANGED <<files, downloader, tool, thread>>

(* rx.recv() is an error once the channel is empty and nobody can send.    *)
ReceiveFails ==
  /\ main = "receiving" /\ channel = <<>> /\ Disconnected
  /\ main' = "ended"
  /\ UNCHANGED <<files, downloader, tool, thread, channel, threads_running, reports>>

Next ==
  \/ DownloaderStep
  \/ \E t \in Threads : ThreadStep(t)
  \/ Receive \/ ReceiveFails

Spec == Init /\ [][Next]_vars

(* Nothing is assumed of the downloader: the user may leave it stopped.    *)
FairSpec ==
  /\ Spec
  /\ \A t \in Threads : WF_vars(ThreadStep(t))
  /\ WF_vars(Receive \/ ReceiveFails)

-----------------------------------------------------------------------------
(* Correctness.                                                            *)

TypeOK ==
  /\ files \in [Versions -> Contents]
  /\ dpc \in {"stopped", "open", "remove", "request", "create", "copy", "ended"}
  /\ dpos \in 0..N
  /\ dpc \in {"stopped", "ended"} <=> dpos = 0
  /\ tool \in Tools
  /\ ctr \in [Threads -> 0..N]
  /\ tpc \in [Threads -> {"scan", "look", "reopen", "panicked", "ended"}]
  /\ out \in [Threads -> Seq(Message)]
  /\ channel \in Seq(Message) /\ Len(channel) <= Capacity
  /\ threads_running \in 0..ThreadCount
  /\ main \in {"receiving", "ended"}
  /\ reports \in [Versions -> Nat]

(* A run of the downloader that gets to the end leaves no partial file,    *)
(* wherever the runs before it were stopped.                               *)
NothingPartial == dpc = "ended" => \A v \in Versions : files[v] # "partial"

(* What analyze has verified it can open again, and the files it counts    *)
(* are those of verified archives: the downloader, running beside it,      *)
(* takes away and rewrites only what has the wrong checksum.               *)
VerifiedStays ==
  /\ \A t \in Threads : tpc[t] # "panicked"
  /\ \A i \in DOMAIN channel : channel[i].what = "file" => channel[i].of = "good"

(* Each version is reported by exactly one thread, and the main thread     *)
(* waits for all reports: in the middle nothing is reported twice, at the  *)
(* end nothing is missing.                                                 *)
EachReportedOnce ==
  \A v \in Versions : reports[v] <= 1 /\ (main = "ended" => reports[v] = 1)

(* The tool ends: the main thread and, left behind by none, all others.    *)
ToolEnds == <>(main = "ended" /\ \A t \in Threads : Ended(t))
=============================================================================
