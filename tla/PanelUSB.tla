------------------------------ MODULE PanelUSB ------------------------------
(***************************************************************************)
(* The request/reply protocol of turzx.USB (internal/turzx/usb.go) with a  *)
(* panel that answers late, refuses, or does not answer at all.            *)
(*                                                                         *)
(* USB.mu makes the calls of the host exclusive, so the host is one        *)
(* process: a call writes a command, reads one reply and flushes what else *)
(* is readable.  Replies carry no serial number; the only check is that    *)
(* the reply echoes the command and carries the success marker.  The panel *)
(* answers in the order of the commands, with any delay: a reply of a      *)
(* command the host gave up on may become readable during any later call.  *)
(* One assumption bounds this: SyncInTime, an abandoned Sync is answered,  *)
(* or lost, before the next Sync has drained its input.  Without it a      *)
(* second Sync may take the answer of the first, and its own answer may    *)
(* then vouch for a panel that still owes the reply of an upload.          *)
(*                                                                         *)
(* The initialisation of a video (111, 112, 13, 14, 41, then the clearing  *)
(* image 102, then 15 and 17) is "init" and "png" here: 102 is the command *)
(* of SendPNG too, the other seven are different from everything else.     *)
(***************************************************************************)
EXTENDS Naturals, Sequences

CONSTANTS
  MaxCommands,   \* bound on the commands the host writes
  StartupReads,  \* startupDrainReads
  FlushReads,    \* flushReads
  NoAck

ASSUME PanelAssumption == {MaxCommands, StartupReads, FlushReads} \subseteq Nat

Commands == {"sync", "restart", "png", "init", "chunk", "status", "stop"}
Uploads == {"png", "init", "chunk", "status"}

VARIABLES
  pc,         \* where the host is in its call
  cmd,        \* the command of the current transaction, or "open"
  failed,     \* the current transaction has failed
  reads,      \* reads of the current drain
  video,      \* a sendH264 call is under way
  videoFailed,\* its err, before the stop command
  synced,     \* USB.synced
  written,    \* history: number of commands written, the serial of the last one
  todo,       \* commands on their way to the panel
  inbox,      \* replies readable by the host
  playing,    \* the panel is in video mode
  stopLost,   \* history: the last stop command did not take effect
  ack         \* history: the last accepted reply and the command it was taken for

host == <<pc, cmd, failed, reads, video, videoFailed, synced>>
wire == <<todo, inbox, playing>>
vars == <<host, written, wire, stopLost, ack>>

Init ==
  /\ pc = "idle" /\ cmd = "open" /\ failed = FALSE /\ reads = 0
  /\ video = FALSE /\ videoFailed = FALSE /\ synced = FALSE
  /\ written = 0 /\ todo = <<>> /\ inbox = <<>>
  /\ playing = FALSE /\ stopLost = FALSE /\ ack = NoAck

-----------------------------------------------------------------------------
(***************************************************************************)
(* The calls.  SendPNG and SendH264 refuse to run unsynchronised.          *)
(***************************************************************************)
Begin(command, at) ==
  /\ pc = "idle"
  /\ cmd' = command /\ pc' = at /\ failed' = FALSE /\ reads' = 0
  /\ UNCHANGED <<written, wire, stopLost, ack>>

\* Close and OpenUSB: a new handle drains what the last one left behind.
Reopen ==
  /\ Begin("open", "predrain")
  /\ synced' = FALSE
  /\ UNCHANGED <<video, videoFailed>>

Sync ==
  /\ Begin("sync", "predrain")
  /\ synced' = FALSE
  /\ UNCHANGED <<video, videoFailed>>

Restart ==
  /\ Begin("restart", "write")
  /\ synced' = FALSE
  /\ UNCHANGED <<video, videoFailed>>

SendPNG ==
  /\ synced
  /\ Begin("png", "write")
  /\ UNCHANGED <<synced, video, videoFailed>>

SendH264 ==
  /\ synced
  /\ Begin("init", "write")
  /\ video' = TRUE /\ videoFailed' = FALSE
  /\ UNCHANGED synced

(***************************************************************************)
(* The end of a transaction, for each command.                             *)
(***************************************************************************)
\* mutant: a failed transfer keeps the device synchronised
ReturnSynced(sync) == pc' = "idle" /\ synced' = (synced \/ sync) /\ video' = FALSE

Return(sync) == pc' = "idle" /\ synced' = sync /\ video' = FALSE

\* mutant: a stream that was sent completely is not stopped
ContinueUnstopped(command, bad) ==
  /\ cmd' = command /\ video' = (command # "stop" \/ bad)
  /\ pc' = IF command = "stop" /\ ~bad THEN "idle" ELSE "write"
  /\ videoFailed' = (videoFailed \/ bad)
  /\ UNCHANGED synced

\* The next command of a video, or the stop command that always ends it.
Continue(command, bad) ==
  /\ cmd' = command /\ pc' = "write"
  /\ videoFailed' = (videoFailed \/ bad)
  /\ UNCHANGED <<synced, video>>

Finish(bad) ==
  /\ failed' = FALSE /\ reads' = 0
  /\ \/ /\ cmd \in {"open", "restart"}
        /\ Return(FALSE) /\ UNCHANGED <<cmd, videoFailed>>
     \/ /\ cmd = "sync"
        /\ Return(~bad) /\ UNCHANGED <<cmd, videoFailed>>
     \/ /\ cmd = "png" /\ ~video
        /\ Return(synced /\ ~bad) /\ UNCHANGED <<cmd, videoFailed>>
     \/ /\ cmd = "stop"
        /\ Return(synced /\ ~bad /\ ~videoFailed) /\ UNCHANGED <<cmd, videoFailed>>
     \/ /\ video /\ cmd # "stop" /\ bad
        /\ Continue("stop", TRUE)
     \/ /\ cmd = "init" /\ ~bad
        /\ Continue("png", FALSE)
     \/ /\ cmd = "png" /\ video /\ ~bad
        /\ \/ Continue("chunk", FALSE)
           \/ Continue("stop", TRUE)      \* source ended or call cancelled
     \/ /\ cmd = "chunk" /\ ~bad
        /\ Continue("status", FALSE)
     \/ /\ cmd = "status" /\ ~bad
        /\ \/ Continue("chunk", FALSE)    \* queue depth at most 3
           \/ Continue("status", FALSE)   \* queue full, ask again
           \/ Continue("stop", FALSE)     \* a finite stream was sent
           \/ Continue("stop", TRUE)      \* queue timeout, source ended, cancelled

(***************************************************************************)
(* transact and drain.                                                     *)
(***************************************************************************)
Write ==
  /\ pc = "write" /\ written < MaxCommands
  /\ written' = written + 1
  /\ todo' = Append(todo, [cmd |-> cmd, id |-> written'])
  /\ pc' = "read"
  /\ UNCHANGED <<cmd, failed, reads, video, videoFailed, synced, inbox, playing,
                 stopLost, ack>>

\* A failed or short write returns at once; the panel may have got the command.
WriteFails ==
  /\ pc = "write" /\ written < MaxCommands
  /\ written' = written + 1
  /\ \/ /\ todo' = Append(todo, [cmd |-> cmd, id |-> written'])
        /\ UNCHANGED stopLost
     \/ /\ stopLost' = (stopLost \/ cmd = "stop")
        /\ UNCHANGED todo
  /\ Finish(TRUE)
  /\ UNCHANGED <<inbox, playing, ack>>

\* mutant: the echoed command is not compared
AcceptsAny(reply) == reply.ok

Accepts(reply) == reply.ok /\ reply.cmd = cmd

Read ==
  /\ pc = "read" /\ inbox # <<>>
  /\ inbox' = Tail(inbox)
  /\ failed' = ~Accepts(Head(inbox))
  /\ ack' = IF Accepts(Head(inbox))
            THEN [cmd |-> cmd, id |-> written, reply |-> Head(inbox)]
            ELSE ack
  /\ pc' = "flush" /\ reads' = 0
  /\ UNCHANGED <<cmd, video, videoFailed, synced, written, todo, playing, stopLost>>

ReadFails ==
  /\ pc = "read"
  /\ failed' = TRUE
  /\ pc' = "flush" /\ reads' = 0
  /\ UNCHANGED <<cmd, video, videoFailed, synced, written, wire, stopLost, ack>>

DrainLimit == IF pc = "predrain" THEN StartupReads ELSE FlushReads

DrainRead ==
  /\ pc \in {"predrain", "flush"} /\ inbox # <<>> /\ reads < DrainLimit
  /\ inbox' = Tail(inbox)
  /\ reads' = reads + 1
  /\ UNCHANGED <<pc, cmd, failed, video, videoFailed, synced, written, todo,
                 playing, stopLost, ack>>

SyncInTime == \A i \in DOMAIN todo : todo[i].cmd # "sync"

\* Only an empty read ends a drain successfully.
DrainDone ==
  /\ inbox = <<>> /\ reads < DrainLimit
  /\ \/ /\ pc = "predrain" /\ cmd = "sync" /\ SyncInTime
        /\ pc' = "write" /\ reads' = 0
        /\ UNCHANGED <<cmd, failed, video, videoFailed, synced>>
     \/ /\ pc = "predrain" /\ cmd = "open"
        /\ Finish(FALSE)
     \/ /\ pc = "flush"
        /\ Finish(failed)
  /\ UNCHANGED <<written, wire, stopLost, ack>>

\* The read limit, an I/O error, the timeout or a cancellation ends a drain.
DrainFails ==
  /\ pc \in {"predrain", "flush"}
  /\ Finish(TRUE)
  /\ UNCHANGED <<written, wire, stopLost, ack>>

(***************************************************************************)
(* The panel: it executes commands in order and answers, refuses, or stays *)
(* silent about each of them.                                              *)
(***************************************************************************)
Executes(command) ==
  /\ playing' = CASE command = "init" -> TRUE
                  [] command \in {"stop", "restart"} -> FALSE
                  [] OTHER -> playing
  /\ stopLost' = (stopLost /\ command # "stop")

Ignores(command) ==
  /\ stopLost' = (stopLost \/ command = "stop")
  /\ UNCHANGED playing

Panel ==
  /\ todo # <<>>
  /\ todo' = Tail(todo)
  /\ LET command == Head(todo)
         answer(ok) == Append(inbox, [cmd |-> command.cmd, id |-> command.id, ok |-> ok])
     IN  \/ Executes(command.cmd) /\ inbox' = answer(TRUE)
         \/ Ignores(command.cmd) /\ inbox' = answer(FALSE)
         \/ Executes(command.cmd) /\ UNCHANGED inbox
         \/ Ignores(command.cmd) /\ UNCHANGED inbox
  /\ UNCHANGED <<host, written, ack>>

Next ==
  \/ Reopen \/ Sync \/ Restart \/ SendPNG \/ SendH264
  \/ Write \/ WriteFails \/ Read \/ ReadFails
  \/ DrainRead \/ DrainDone \/ DrainFails
  \/ Panel

Spec == Init /\ [][Next]_vars

-----------------------------------------------------------------------------
Pending == inbox \o todo

TypeOK ==
  /\ pc \in {"idle", "predrain", "write", "read", "flush"}
  /\ cmd \in Commands \cup {"open"}
  /\ {failed, video, videoFailed, synced, playing, stopLost} \subseteq BOOLEAN
  /\ written \in 0..MaxCommands /\ reads \in 0..StartupReads \cup 0..FlushReads
  /\ \A i \in DOMAIN todo : todo[i].cmd \in Commands /\ todo[i].id \in 1..written
  /\ \A i \in DOMAIN inbox : inbox[i].cmd \in Commands /\ inbox[i].id \in 1..written

\* An accepted reply to an upload command answers that very command: no late
\* reply of an earlier upload, status request or video is ever taken for it,
\* although replies carry no serial number ("any transaction failure requires
\* another Sync").  Like the next property it rests on SyncInTime.
AckAnswersUpload ==
  ack # NoAck /\ ack.cmd \in Uploads => ack.reply.id = ack.id

\* While the device counts as synchronised, and outside the stop command of a
\* failed video, no reply of an earlier upload or stop command is outstanding;
\* only the current command and late answers to Sync and Restart, which no upload
\* accepts, may still arrive.
NothingStaleWhileSynced ==
  synced /\ ~(video /\ videoFailed) =>
    \A i \in DOMAIN Pending :
      Pending[i].cmd \in {"sync", "restart"} \/ (Pending[i].id = written /\ pc # "idle")

\* A synchronised idle device is not left in video mode unless the stop command
\* itself was lost: an image is never uploaded into a running video otherwise.
VideoStoppedWhenIdle == synced /\ pc = "idle" /\ playing => stopLost
=============================================================================
