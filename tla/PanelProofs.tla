----------------------------- MODULE PanelProofs ----------------------------
(***************************************************************************)
(* Proofs about the panel: PanelUSB for any number of commands and any     *)
(* drain limits, and DisplayLoop, the loop that drives it, for every retry *)
(* limit and every longest delay.                                          *)
(*                                                                         *)
(* The argument about PanelUSB: a synchronised device owes at most the     *)
(* reply of the current command, because every failure either ends the     *)
(* synchronisation or leads to the stop command that does.  An accepted    *)
(* Sync was the last command on the wire, so nothing is owed when it       *)
(* counts; and a stop command is on its way, or was lost, whenever a video *)
(* has ended.                                                              *)
(*                                                                         *)
(* The argument about DisplayLoop: a video is only under way while the     *)
(* budget has room for it (LoopInv), so that charging it once keeps it in  *)
(* its range.                                                              *)
(***************************************************************************)
EXTENDS PanelUSB, DisplayLoop, SequenceTheorems, TLAPS

Command == [cmd : Commands, id : Nat]
Reply == [cmd : Commands, id : Nat, ok : BOOLEAN]

HostTyped ==
  /\ pc \in {"idle", "predrain", "write", "read", "flush"}
  /\ cmd \in Commands \cup {"open"}
  /\ failed \in BOOLEAN /\ video \in BOOLEAN /\ videoFailed \in BOOLEAN
  /\ synced \in BOOLEAN
  /\ reads \in 0..StartupReads \cup 0..FlushReads

WireTyped ==
  /\ playing \in BOOLEAN /\ stopLost \in BOOLEAN
  /\ written \in 0..MaxCommands
  /\ todo \in Seq(Command) /\ \A i \in DOMAIN todo : todo[i].id \in 1..written
  /\ inbox \in Seq(Reply) /\ \A i \in DOMAIN inbox : inbox[i].id \in 1..written

\* Which call the host is in: the image and video commands run synchronised,
\* the others do not; a failed video is in its stop command.
Controlled ==
  /\ pc = "idle" => ~video
  /\ pc = "predrain" => cmd \in {"sync", "open"}
  /\ pc \in {"write", "read", "flush"} => cmd # "open"
  /\ pc # "idle" /\ cmd \in {"sync", "restart", "open"} => ~synced /\ ~video
  /\ pc # "idle" /\ cmd \in Uploads \cup {"stop"} => synced
  /\ pc # "idle" /\ cmd \in {"init", "chunk", "status", "stop"} => video
  /\ video /\ videoFailed => cmd = "stop"

\* Nothing is owed, or only the reply of the last command.
Clean == inbox = <<>> /\ todo = <<>>

OnlyLast ==
  /\ inbox = <<>> \/ todo = <<>>
  /\ Len(inbox) <= 1 /\ Len(todo) <= 1
  /\ \A i \in DOMAIN inbox : inbox[i].id = written
  /\ \A i \in DOMAIN todo : todo[i].id = written

Answerable ==
  synced /\ ~(video /\ videoFailed) =>
    /\ pc \in {"idle", "write"} => Clean
    /\ pc = "flush" /\ ~failed => Clean
    /\ pc \in {"read", "flush"} => OnlyLast

\* The reply a Sync accepts is the last thing the panel owes.
Vouched ==
  cmd = "sync" =>
    /\ pc = "write" => /\ \A i \in DOMAIN inbox : inbox[i].cmd # "sync"
                       /\ \A i \in DOMAIN todo : todo[i].cmd # "sync"
    /\ pc = "read" =>
         /\ \A i \in DOMAIN todo : todo[i].cmd = "sync" => i = Len(todo)
         /\ \A i \in DOMAIN inbox :
              inbox[i].cmd = "sync" => i = Len(inbox) /\ todo = <<>>
    /\ pc = "flush" /\ ~failed => Clean

\* The host has ended the video: its stop command was written, or was to be.
VideoEnded == video => cmd = "stop" /\ pc # "write"

\* No video is started behind a stop command, and one that was ended is stopped
\* on the panel, or will be by a command on its way, or its stop was lost.
Stopping ==
  /\ \A i, j \in DOMAIN todo : todo[i].cmd = "stop" /\ todo[j].cmd = "init" => j < i
  /\ VideoEnded /\ ~stopLost
     /\ (playing \/ \E i \in DOMAIN todo : todo[i].cmd = "init") =>
       \E i \in DOMAIN todo : todo[i].cmd = "stop"

Inv ==
  /\ HostTyped /\ WireTyped
  /\ Controlled /\ Answerable /\ Vouched /\ Stopping /\ AckAnswersUpload

-----------------------------------------------------------------------------
\* What the tail of a sequence holds.
LEMMA TailOf ==
  ASSUME NEW S, NEW s \in Seq(S), s # <<>>
  PROVE  /\ Head(s) \in S /\ Tail(s) \in Seq(S)
         /\ 1 \in DOMAIN s /\ Head(s) = s[1]
         /\ Len(s) \in Nat \ {0} /\ Len(Tail(s)) = Len(s) - 1
         /\ DOMAIN s = 1..Len(s) /\ DOMAIN Tail(s) = 1..(Len(s) - 1)
         /\ \A i \in DOMAIN Tail(s) : i + 1 \in DOMAIN s /\ Tail(s)[i] = s[i + 1]
<1>1. /\ Head(s) \in S /\ Tail(s) \in Seq(S) /\ Len(Tail(s)) = Len(s) - 1
      /\ \A i \in 1..Len(Tail(s)) : Tail(s)[i] = s[i + 1]
  BY HeadTailProperties
<1>2. Len(s) \in Nat \ {0} /\ DOMAIN s = 1..Len(s) /\ Head(s) = s[1]
  BY EmptySeq, LenProperties
<1>3. DOMAIN Tail(s) = 1..Len(Tail(s))
  BY <1>1, LenProperties
<1>4. QED
  BY <1>1, <1>2, <1>3

\* What a sequence holds with one more element.
LEMMA AppendOf ==
  ASSUME NEW S, NEW s \in Seq(S), NEW e \in S
  PROVE  /\ Append(s, e) \in Seq(S)
         /\ Len(s) \in Nat /\ Len(Append(s, e)) = Len(s) + 1
         /\ DOMAIN s = 1..Len(s) /\ DOMAIN Append(s, e) = 1..(Len(s) + 1)
         /\ \A i \in DOMAIN s : Append(s, e)[i] = s[i]
         /\ Append(s, e)[Len(s) + 1] = e
         /\ Append(s, e) # <<>>
BY AppendProperties, LenProperties

\* How a transaction ends: the call returns, the video is stopped, or the next
\* command of the video follows.
LEMMA Finishes ==
  ASSUME HostTyped, Controlled, pc # "idle", NEW bad \in BOOLEAN, Finish(bad)
  PROVE  /\ failed' = FALSE /\ reads' = 0
         /\ \/ /\ pc' = "idle" /\ ~video' /\ cmd' = cmd /\ video' \in BOOLEAN
               /\ videoFailed' = videoFailed
               /\ video => cmd = "stop"
               /\ synced' \in BOOLEAN
               /\ synced' => /\ ~bad
                             /\ cmd = "sync" \/ (synced /\ ~(video /\ videoFailed))
            \/ /\ pc' = "write" /\ cmd' = "stop" /\ video /\ video' = video
               /\ synced /\ synced' = synced /\ videoFailed' = TRUE
            \/ /\ pc' = "write" /\ cmd' \in {"png", "chunk", "status", "stop"}
               /\ video /\ ~videoFailed /\ video' = video
               /\ synced /\ synced' = synced /\ videoFailed' = FALSE /\ ~bad
<1> USE DEF HostTyped, Controlled, Uploads
<1>1. failed' = FALSE /\ reads' = 0
  BY DEF Finish
<1>2. CASE cmd \in {"open", "restart", "sync"}
  BY <1>1, <1>2 DEF Finish, Return, Continue
<1>3. CASE cmd = "png" /\ ~video
  BY <1>1, <1>3 DEF Finish, Return, Continue
<1>4. CASE cmd = "stop"
  BY <1>1, <1>4 DEF Finish, Return, Continue
<1>5. CASE cmd \in {"init", "chunk", "status"} \/ (cmd = "png" /\ video)
  <2>1. video /\ synced /\ ~videoFailed
    BY <1>5
  <2>2. PICK next \in {"png", "chunk", "status", "stop"}, why \in BOOLEAN :
          Continue(next, why) /\ (why => next = "stop") /\ (bad => why)
    BY <1>5, <2>1 DEF Finish, Continue
  <2>3. QED
    BY <1>1, <2>1, <2>2 DEF Continue
<1>6. QED
  BY <1>2, <1>3, <1>4, <1>5 DEF Commands

\* The steps that end a transaction, with what they do to the wire.
LEMMA EndingSteps ==
  ASSUME Inv, WriteFails \/ DrainDone \/ DrainFails
  PROVE  \/ /\ pc = "predrain" /\ cmd = "sync" /\ pc' = "write" /\ reads' = 0
            /\ inbox = <<>> /\ SyncInTime
            /\ UNCHANGED <<cmd, failed, video, videoFailed, synced, written, wire,
                           stopLost, ack>>
         \/ \E bad \in BOOLEAN :
              /\ Finish(bad) /\ pc # "idle" /\ UNCHANGED <<inbox, playing, ack>>
              /\ \/ WriteFails /\ bad
                 \/ /\ pc \in {"predrain", "flush"}
                    /\ IF pc = "flush" THEN bad \/ ~failed ELSE bad \/ cmd = "open"
                    /\ UNCHANGED <<written, todo, stopLost>>
<1> USE DEF wire
<1>1. CASE WriteFails
  BY <1>1 DEF WriteFails
<1>2. CASE DrainFails
  <2>1. Finish(TRUE) /\ pc \in {"predrain", "flush"} /\ pc # "idle"
    BY <1>2 DEF DrainFails
  <2>2. UNCHANGED <<inbox, playing, ack, written, todo, stopLost>>
    BY <1>2 DEF DrainFails
  <2>3. QED
    BY <2>1, <2>2
<1>3. CASE DrainDone
  <2>1. /\ inbox = <<>> /\ failed \in BOOLEAN
        /\ UNCHANGED <<inbox, playing, ack, written, todo, stopLost>>
    BY <1>3 DEF DrainDone, Inv, HostTyped
  <2>2. CASE pc = "predrain" /\ cmd = "sync"
    BY <1>3, <2>1, <2>2 DEF DrainDone
  <2>3. CASE pc = "predrain" /\ cmd = "open"
    <3>1. Finish(FALSE) /\ pc # "idle"
      BY <1>3, <2>3 DEF DrainDone
    <3>2. QED
      BY <2>1, <2>3, <3>1
  <2>4. CASE pc = "flush"
    <3>1. Finish(failed) /\ pc # "idle"
      BY <1>3, <2>4 DEF DrainDone
    <3>2. QED
      BY <2>1, <2>4, <3>1
  <2>5. QED
    BY <1>3, <2>2, <2>3, <2>4 DEF DrainDone
<1>4. QED
  BY <1>1, <1>2, <1>3

\* The host keeps its types and stays in a call it may be in.
LEMMA StepHost == Inv /\ [Next]_vars => HostTyped' /\ Controlled'
<1> SUFFICES ASSUME Inv, [Next]_vars PROVE HostTyped' /\ Controlled'
  OBVIOUS
<1>1. HostTyped /\ Controlled
  BY DEF Inv
<1> USE PanelAssumption DEF host, wire
<1>2. 0 \in 0..StartupReads \cup 0..FlushReads
  OBVIOUS
<1>3. CASE Reopen \/ Sync \/ Restart
  <2>1. /\ pc = "idle" /\ failed' = FALSE /\ reads' = 0 /\ synced' = FALSE
        /\ UNCHANGED <<video, videoFailed>>
        /\ \/ pc' = "predrain" /\ cmd' \in {"open", "sync"}
           \/ pc' = "write" /\ cmd' = "restart"
    BY <1>3 DEF Reopen, Sync, Restart, Begin
  <2>2. HostTyped'
    BY <1>1, <1>2, <2>1 DEF HostTyped, Commands
  <2>3. Controlled'
    BY <1>1, <2>1 DEF Controlled, Uploads
  <2>4. QED
    BY <2>2, <2>3
<1>4. CASE SendPNG \/ SendH264
  <2>1. /\ pc = "idle" /\ pc' = "write" /\ failed' = FALSE /\ reads' = 0
        /\ synced /\ UNCHANGED synced
        /\ \/ cmd' = "png" /\ UNCHANGED <<video, videoFailed>>
           \/ cmd' = "init" /\ video' = TRUE /\ videoFailed' = FALSE
    BY <1>4 DEF SendPNG, SendH264, Begin
  <2>2. HostTyped'
    BY <1>1, <1>2, <2>1 DEF HostTyped, Commands
  <2>3. Controlled'
    BY <1>1, <2>1 DEF Controlled, Uploads
  <2>4. QED
    BY <2>2, <2>3
<1>5. CASE Write
  BY <1>1, <1>5 DEF Write, HostTyped, Controlled
<1>6. CASE WriteFails \/ DrainDone \/ DrainFails
  <2>1. CASE \E bad \in BOOLEAN : Finish(bad) /\ pc # "idle"
    <3>1. PICK bad \in BOOLEAN : Finish(bad) /\ pc # "idle"
      BY <2>1
    <3>2. HostTyped'
      BY <1>1, <1>2, <3>1, Finishes DEF HostTyped, Commands
    <3>3. Controlled'
      BY <1>1, <3>1, Finishes DEF Controlled, Uploads
    <3>4. QED
      BY <3>2, <3>3
  <2>2. CASE /\ pc = "predrain" /\ cmd = "sync" /\ pc' = "write" /\ reads' = 0
             /\ UNCHANGED <<cmd, failed, video, videoFailed, synced>>
    BY <1>1, <1>2, <2>2 DEF HostTyped, Controlled
  <2>3. QED
    BY <1>6, <2>1, <2>2, EndingSteps
<1>7. CASE Read \/ ReadFails
  <2>1. pc = "read" /\ pc' = "flush" /\ reads' = 0 /\ failed' \in BOOLEAN
        /\ UNCHANGED <<cmd, video, videoFailed, synced>>
    BY <1>7 DEF Read, ReadFails
  <2>2. QED
    BY <1>1, <1>2, <2>1 DEF HostTyped, Controlled
<1>8. CASE DrainRead
  <2>1. reads' \in 0..StartupReads \cup 0..FlushReads
    BY <1>1, <1>8 DEF DrainRead, DrainLimit, HostTyped
  <2>2. QED
    BY <1>1, <1>8, <2>1 DEF DrainRead, HostTyped, Controlled
<1>9. CASE Panel
  BY <1>1, <1>9 DEF Panel, HostTyped, Controlled
<1>10. CASE UNCHANGED vars
  BY <1>1, <1>10 DEF vars, HostTyped, Controlled
<1>11. QED
  BY <1>3, <1>4, <1>5, <1>6, <1>7, <1>8, <1>9, <1>10 DEF Next

\* The wire keeps its types, and no serial is ahead of the host.
LEMMA StepWire == Inv /\ [Next]_vars => WireTyped'
<1> SUFFICES ASSUME Inv, [Next]_vars PROVE WireTyped'
  OBVIOUS
<1>1. WireTyped /\ HostTyped /\ Controlled
  BY DEF Inv
<1> USE PanelAssumption DEF host, wire
<1>2. CASE UNCHANGED <<written, wire, stopLost>>
  BY <1>1, <1>2 DEF WireTyped
<1>3. CASE Reopen \/ Sync \/ Restart \/ SendPNG \/ SendH264 \/ ReadFails
  BY <1>2, <1>3 DEF Reopen, Sync, Restart, SendPNG, SendH264, Begin, ReadFails
<1>4. CASE Write \/ WriteFails
  <2>1. /\ written' = written + 1 /\ written' \in 1..MaxCommands
        /\ cmd \in Commands /\ UNCHANGED <<inbox, playing>>
        /\ stopLost' \in BOOLEAN
        /\ todo' = todo \/ todo' = Append(todo, [cmd |-> cmd, id |-> written'])
    <3>1. /\ pc = "write" /\ written < MaxCommands /\ written \in 0..MaxCommands
          /\ cmd \in Commands \cup {"open"} /\ cmd # "open" /\ stopLost \in BOOLEAN
      BY <1>1, <1>4 DEF Write, WriteFails, WireTyped, HostTyped, Controlled
    <3>2. written' = written + 1 /\ UNCHANGED <<inbox, playing>>
      BY <1>4 DEF Write, WriteFails
    <3>3. stopLost' \in BOOLEAN
      BY <1>4, <3>1 DEF Write, WriteFails
    <3>4. todo' = todo \/ todo' = Append(todo, [cmd |-> cmd, id |-> written'])
      BY <1>4 DEF Write, WriteFails
    <3>5. QED
      BY <3>1, <3>2, <3>3, <3>4
  <2>2. [cmd |-> cmd, id |-> written'] \in Command
    BY <2>1 DEF Command
  <2>3. todo' \in Seq(Command) /\ \A i \in DOMAIN todo' : todo'[i].id \in 1..written'
    <3>1. CASE todo' = todo
      BY <1>1, <2>1, <3>1 DEF WireTyped
    <3>2. CASE todo' = Append(todo, [cmd |-> cmd, id |-> written'])
      <4>1. todo \in Seq(Command) /\ \A i \in DOMAIN todo : todo[i].id \in 1..written
        BY <1>1 DEF WireTyped
      <4>2. /\ todo' \in Seq(Command)
            /\ DOMAIN todo = 1..Len(todo) /\ DOMAIN todo' = 1..(Len(todo) + 1)
            /\ Len(todo) \in Nat
            /\ \A i \in DOMAIN todo : todo'[i] = todo[i]
            /\ todo'[Len(todo) + 1] = [cmd |-> cmd, id |-> written']
        BY <2>2, <3>2, <4>1, AppendOf
      <4>3. QED
        BY <1>1, <2>1, <4>1, <4>2 DEF WireTyped
    <3>3. QED
      BY <2>1, <3>1, <3>2
  <2>4. QED
    BY <1>1, <2>1, <2>3 DEF WireTyped
<1>5. CASE DrainDone \/ DrainFails
  BY <1>2, <1>5 DEF DrainDone, DrainFails
<1>6. CASE Read \/ DrainRead
  <2>1. /\ inbox # <<>> /\ inbox' = Tail(inbox)
        /\ UNCHANGED <<written, todo, playing, stopLost>>
    BY <1>6 DEF Read, DrainRead
  <2>2. inbox \in Seq(Reply)
    BY <1>1 DEF WireTyped
  <2>3. /\ inbox' \in Seq(Reply)
        /\ \A i \in DOMAIN inbox' : i + 1 \in DOMAIN inbox /\ inbox'[i] = inbox[i + 1]
    BY <2>1, <2>2, TailOf
  <2>4. QED
    BY <1>1, <2>1, <2>3 DEF WireTyped
<1>7. CASE Panel
  <2>1. todo # <<>> /\ todo' = Tail(todo) /\ UNCHANGED written
    BY <1>7 DEF Panel
  <2>2. todo \in Seq(Command) /\ \A i \in DOMAIN todo : todo[i].id \in 1..written
    BY <1>1 DEF WireTyped
  <2>3. /\ Head(todo) \in Command /\ todo' \in Seq(Command)
        /\ 1 \in DOMAIN todo /\ Head(todo) = todo[1]
        /\ \A i \in DOMAIN todo' : i + 1 \in DOMAIN todo /\ todo'[i] = todo[i + 1]
    BY <2>1, <2>2, TailOf
  <2>4. playing' \in BOOLEAN /\ stopLost' \in BOOLEAN
    BY <1>1, <1>7 DEF Panel, Executes, Ignores, WireTyped
  <2>5. inbox' = inbox
        \/ \E ok \in BOOLEAN :
             inbox' = Append(inbox, [cmd |-> Head(todo).cmd, id |-> Head(todo).id, ok |-> ok])
    BY <1>7 DEF Panel
  <2>6. inbox' \in Seq(Reply) /\ \A i \in DOMAIN inbox' : inbox'[i].id \in 1..written
    <3>1. CASE inbox' = inbox
      BY <1>1, <3>1 DEF WireTyped
    <3>2. ASSUME NEW ok \in BOOLEAN,
                 inbox' = Append(inbox, [cmd |-> Head(todo).cmd, id |-> Head(todo).id, ok |-> ok])
          PROVE  inbox' \in Seq(Reply) /\ \A i \in DOMAIN inbox' : inbox'[i].id \in 1..written
      <4>1. /\ [cmd |-> Head(todo).cmd, id |-> Head(todo).id, ok |-> ok] \in Reply
            /\ inbox \in Seq(Reply) /\ \A i \in DOMAIN inbox : inbox[i].id \in 1..written
        BY <1>1, <2>3 DEF Command, Reply, WireTyped
      <4>2. /\ inbox' \in Seq(Reply) /\ Len(inbox) \in Nat
            /\ DOMAIN inbox = 1..Len(inbox) /\ DOMAIN inbox' = 1..(Len(inbox) + 1)
            /\ \A i \in DOMAIN inbox : inbox'[i] = inbox[i]
            /\ inbox'[Len(inbox) + 1].id = Head(todo).id
        BY <3>2, <4>1, AppendOf
      <4>3. Head(todo).id \in 1..written
        BY <2>2, <2>3
      <4>4. QED
        BY <4>1, <4>2, <4>3
    <3>3. QED
      BY <2>5, <3>1, <3>2
  <2>7. QED
    BY <1>1, <2>1, <2>2, <2>3, <2>4, <2>6 DEF WireTyped
<1>8. CASE UNCHANGED vars
  BY <1>2, <1>8 DEF vars
<1>9. QED
  BY <1>3, <1>4, <1>5, <1>6, <1>7, <1>8 DEF Next

-----------------------------------------------------------------------------
\* Where only the last reply is owed, whoever reads it leaves nothing behind.
LEMMA LastReply ==
  ASSUME WireTyped, OnlyLast, inbox # <<>>, inbox' = Tail(inbox), UNCHANGED todo
  PROVE  Clean' /\ Head(inbox).id = written
<1>1. inbox \in Seq(Reply) /\ todo = <<>>
  BY DEF WireTyped, OnlyLast
<1>2. /\ inbox' \in Seq(Reply) /\ Len(inbox') = Len(inbox) - 1
      /\ Len(inbox) \in Nat \ {0} /\ 1 \in DOMAIN inbox /\ Head(inbox) = inbox[1]
  BY <1>1, TailOf
<1>3. Len(inbox') = 0 /\ Head(inbox).id = written
  BY <1>2 DEF OnlyLast
<1>4. inbox' = <<>>
  BY <1>2, <1>3, EmptySeq
<1>5. QED
  BY <1>1, <1>3, <1>4 DEF Clean

\* The panel turns the only command into the only reply, or into nothing.
LEMMA LastCommand ==
  ASSUME Inv, Panel, OnlyLast PROVE OnlyLast'
<1>1. /\ todo # <<>> /\ todo' = Tail(todo) /\ inbox = <<>> /\ UNCHANGED written
      /\ \/ inbox' = inbox
         \/ \E ok \in BOOLEAN :
              inbox' = Append(inbox, [cmd |-> Head(todo).cmd, id |-> Head(todo).id, ok |-> ok])
  BY DEF Panel, OnlyLast
<1>2. todo \in Seq(Command)
  BY DEF Inv, WireTyped
<1>3. /\ todo' \in Seq(Command) /\ Len(todo') = Len(todo) - 1
      /\ Len(todo) \in Nat \ {0} /\ 1 \in DOMAIN todo /\ Head(todo) = todo[1]
  BY <1>1, <1>2, TailOf
<1>4. Head(todo).id = written /\ Len(todo') = 0
  BY <1>3 DEF OnlyLast
<1>5. todo' = <<>>
  BY <1>3, <1>4, EmptySeq
<1>6. CASE inbox' = inbox
  BY <1>1, <1>5, <1>6 DEF OnlyLast
<1>7. ASSUME NEW ok \in BOOLEAN,
             inbox' = Append(inbox, [cmd |-> Head(todo).cmd, id |-> Head(todo).id, ok |-> ok])
      PROVE  OnlyLast'
  <2>1. inbox' = <<[cmd |-> Head(todo).cmd, id |-> Head(todo).id, ok |-> ok]>>
    BY <1>1, <1>7
  <2>2. QED
    BY <1>1, <1>4, <1>5, <2>1 DEF OnlyLast
<1>8. QED
  BY <1>1, <1>6, <1>7

\* A synchronised device owes at most the reply of the current command.
LEMMA StepAnswerable == Inv /\ [Next]_vars => Answerable'
<1> SUFFICES ASSUME Inv, [Next]_vars PROVE Answerable'
  OBVIOUS
<1>1. HostTyped /\ WireTyped /\ Controlled /\ Answerable /\ Vouched
  BY DEF Inv
<1> USE DEF Answerable, host, wire
<1>2. CASE Reopen \/ Sync \/ Restart
  BY <1>2 DEF Reopen, Sync, Restart
<1>3. CASE SendPNG \/ SendH264
  <2>1. /\ pc = "idle" /\ synced /\ ~video /\ pc' = "write" /\ UNCHANGED <<inbox, todo>>
    BY <1>1, <1>3 DEF SendPNG, SendH264, Begin, Controlled
  <2>2. QED
    BY <1>1, <2>1 DEF Clean
<1>4. CASE Write
  <2>1. SUFFICES ASSUME synced, ~(video /\ videoFailed) PROVE OnlyLast'
    BY <1>4 DEF Write
  <2>2. /\ inbox = <<>> /\ todo = <<>> /\ UNCHANGED inbox
        /\ todo' = Append(todo, [cmd |-> cmd, id |-> written'])
    BY <1>1, <1>4, <2>1 DEF Write, Clean
  <2>3. todo' = <<[cmd |-> cmd, id |-> written']>>
    BY <2>2
  <2>4. QED
    BY <2>2, <2>3 DEF OnlyLast
<1>5. CASE WriteFails \/ DrainDone \/ DrainFails
  <2>1. ASSUME NEW bad \in BOOLEAN, Finish(bad), pc # "idle", UNCHANGED inbox,
               \/ bad
               \/ /\ pc \in {"predrain", "flush"} /\ UNCHANGED <<written, todo>>
                  /\ IF pc = "flush" THEN ~failed ELSE cmd = "open"
        PROVE  Answerable'
    <3>1. SUFFICES ASSUME synced', ~(video' /\ videoFailed') PROVE Answerable'
      OBVIOUS
    <3>2. /\ pc' \in {"idle", "write"} /\ ~bad
          /\ (cmd = "sync" \/ (synced /\ ~(video /\ videoFailed)))
      BY <1>1, <2>1, <3>1, Finishes
    <3>3. pc = "flush" /\ ~failed /\ UNCHANGED <<written, todo>>
      BY <1>1, <2>1, <3>2 DEF Controlled
    <3>4. Clean
      BY <1>1, <3>2, <3>3 DEF Vouched
    <3>5. QED
      BY <2>1, <3>2, <3>3, <3>4 DEF Clean
  <2>2. CASE pc = "predrain" /\ cmd = "sync" /\ UNCHANGED synced
    BY <1>1, <2>2 DEF Controlled
  <2>3. QED
    BY <1>5, <2>1, <2>2, EndingSteps
<1>6. CASE Read
  <2>1. SUFFICES ASSUME synced, ~(video /\ videoFailed) PROVE Clean' /\ OnlyLast'
    BY <1>6 DEF Read
  <2>2. OnlyLast /\ inbox # <<>> /\ inbox' = Tail(inbox) /\ UNCHANGED todo
    BY <1>1, <1>6, <2>1 DEF Read
  <2>3. QED
    BY <1>1, <2>2, LastReply DEF Clean, OnlyLast
<1>7. CASE ReadFails
  BY <1>1, <1>7 DEF ReadFails, OnlyLast
<1>8. CASE DrainRead
  <2>1. SUFFICES ASSUME synced, ~(video /\ videoFailed) PROVE Clean' /\ OnlyLast'
    BY <1>8 DEF DrainRead
  <2>2. pc = "flush" /\ inbox # <<>> /\ inbox' = Tail(inbox) /\ UNCHANGED todo
    BY <1>1, <1>8, <2>1 DEF DrainRead, Controlled
  <2>3. QED
    BY <1>1, <2>1, <2>2, LastReply DEF Clean, OnlyLast
<1>9. CASE Panel
  <2>1. SUFFICES ASSUME synced, ~(video /\ videoFailed) PROVE Answerable'
    BY <1>9 DEF Panel
  <2>2. ~Clean /\ UNCHANGED <<pc, failed>>
    BY <1>9 DEF Panel, Clean
  <2>3. pc \in {"read", "flush"} => OnlyLast'
    BY <1>1, <1>9, <2>1, LastCommand
  <2>4. QED
    BY <1>1, <1>9, <2>1, <2>2, <2>3 DEF Panel
<1>10. CASE UNCHANGED vars
  BY <1>1, <1>10 DEF vars, Clean, OnlyLast
<1>11. QED
  BY <1>2, <1>3, <1>4, <1>5, <1>6, <1>7, <1>8, <1>9, <1>10 DEF Next

-----------------------------------------------------------------------------
\* What the panel's step does to the two queues.
LEMMA PanelMoves ==
  ASSUME Inv, Panel
  PROVE  /\ todo # <<>> /\ 1 \in DOMAIN todo /\ Len(todo) \in Nat \ {0}
         /\ DOMAIN todo = 1..Len(todo) /\ DOMAIN todo' = 1..(Len(todo) - 1)
         /\ Len(todo') = Len(todo) - 1 /\ (Len(todo) = 1 => todo' = <<>>)
         /\ \A i \in DOMAIN todo' : i + 1 \in DOMAIN todo /\ todo'[i] = todo[i + 1]
         /\ DOMAIN inbox = 1..Len(inbox) /\ Len(inbox) \in Nat
         /\ \/ inbox' = inbox
            \/ /\ DOMAIN inbox' = 1..(Len(inbox) + 1) /\ Len(inbox') = Len(inbox) + 1
               /\ \A i \in DOMAIN inbox : inbox'[i] = inbox[i]
               /\ inbox'[Len(inbox) + 1].cmd = todo[1].cmd
<1>1. /\ todo # <<>> /\ todo' = Tail(todo) /\ todo \in Seq(Command) /\ inbox \in Seq(Reply)
      /\ \/ inbox' = inbox
         \/ \E ok \in BOOLEAN :
              inbox' = Append(inbox, [cmd |-> Head(todo).cmd, id |-> Head(todo).id, ok |-> ok])
  BY DEF Panel, Inv, WireTyped
<1>2. /\ 1 \in DOMAIN todo /\ Len(todo) \in Nat \ {0} /\ Head(todo) = todo[1]
      /\ Head(todo) \in Command /\ todo' \in Seq(Command)
      /\ DOMAIN todo = 1..Len(todo) /\ DOMAIN todo' = 1..(Len(todo) - 1)
      /\ Len(todo') = Len(todo) - 1
      /\ \A i \in DOMAIN todo' : i + 1 \in DOMAIN todo /\ todo'[i] = todo[i + 1]
  BY <1>1, TailOf
<1>3. Len(todo) = 1 => todo' = <<>>
  BY <1>2, EmptySeq
<1>4. DOMAIN inbox = 1..Len(inbox) /\ Len(inbox) \in Nat
  BY <1>1, LenProperties
<1>5. ASSUME NEW ok \in BOOLEAN,
             inbox' = Append(inbox, [cmd |-> Head(todo).cmd, id |-> Head(todo).id, ok |-> ok])
      PROVE  /\ DOMAIN inbox' = 1..(Len(inbox) + 1) /\ Len(inbox') = Len(inbox) + 1
             /\ \A i \in DOMAIN inbox : inbox'[i] = inbox[i]
             /\ inbox'[Len(inbox) + 1].cmd = todo[1].cmd
  <2>1. [cmd |-> Head(todo).cmd, id |-> Head(todo).id, ok |-> ok] \in Reply
    BY <1>2 DEF Command, Reply
  <2>2. QED
    BY <1>1, <1>2, <1>5, <2>1, AppendOf
<1>6. QED
  BY <1>1, <1>2, <1>3, <1>4, <1>5

\* A written command is the last one on its way.
LEMMA WriteMoves ==
  ASSUME Inv, pc = "write", todo' = Append(todo, [cmd |-> cmd, id |-> written']),
         written' \in Nat
  PROVE  /\ Len(todo) \in Nat /\ Len(todo') = Len(todo) + 1
         /\ DOMAIN todo = 1..Len(todo) /\ DOMAIN todo' = 1..(Len(todo) + 1)
         /\ \A i \in DOMAIN todo : todo'[i] = todo[i]
         /\ todo'[Len(todo) + 1].cmd = cmd
<1>1. todo \in Seq(Command)
  BY DEF Inv, WireTyped
<1>2. [cmd |-> cmd, id |-> written'] \in Command
  BY DEF Inv, HostTyped, Controlled, Command
<1>3. QED
  BY <1>1, <1>2, AppendOf

\* Nothing is owed behind the reply that a Sync accepts.
LEMMA StepVouched == Inv /\ [Next]_vars => Vouched'
<1> SUFFICES ASSUME Inv, [Next]_vars, cmd' = "sync" PROVE Vouched'
  BY DEF Vouched
<1>1. HostTyped /\ WireTyped /\ Controlled /\ Vouched
  BY DEF Inv
<1> USE DEF Vouched, host, wire
<1>2. CASE Reopen \/ Sync \/ Restart \/ SendPNG \/ SendH264
  BY <1>2 DEF Reopen, Sync, Restart, SendPNG, SendH264, Begin
<1>3. CASE Write
  <2>1. /\ pc = "write" /\ pc' = "read" /\ cmd = "sync" /\ UNCHANGED inbox
        /\ todo' = Append(todo, [cmd |-> cmd, id |-> written']) /\ written' \in Nat
    BY <1>1, <1>3 DEF Write, WireTyped
  <2>2. \A i \in DOMAIN inbox' : inbox'[i].cmd # "sync"
    BY <1>1, <2>1
  <2>3. \A i \in DOMAIN todo' : todo'[i].cmd = "sync" => i = Len(todo')
    BY <1>1, <2>1, WriteMoves
  <2>4. QED
    BY <2>1, <2>2, <2>3
<1>4. CASE WriteFails \/ DrainDone \/ DrainFails
  <2>1. ASSUME NEW bad \in BOOLEAN, Finish(bad), pc # "idle" PROVE Vouched'
    <3>1. pc' = "idle"
      BY <1>1, <2>1, Finishes
    <3>2. QED
      BY <3>1
  <2>2. CASE /\ pc' = "write" /\ inbox = <<>> /\ SyncInTime /\ UNCHANGED <<inbox, todo>>
    BY <2>2 DEF SyncInTime
  <2>3. QED
    BY <1>4, <2>1, <2>2, EndingSteps
<1>5. CASE Read
  <2>1. /\ pc = "read" /\ pc' = "flush" /\ cmd = "sync" /\ inbox # <<>>
        /\ inbox' = Tail(inbox) /\ UNCHANGED todo
        /\ ~failed' => Head(inbox).cmd = "sync"
    BY <1>5 DEF Read, Accepts
  <2>2. inbox \in Seq(Reply)
    BY <1>1 DEF WireTyped
  <2>3. /\ inbox' \in Seq(Reply) /\ Len(inbox') = Len(inbox) - 1
        /\ 1 \in DOMAIN inbox /\ Head(inbox) = inbox[1]
    BY <2>1, <2>2, TailOf
  <2>4. ASSUME ~failed' PROVE Clean'
    <3>1. Len(inbox) = 1 /\ todo = <<>>
      BY <1>1, <2>1, <2>3, <2>4
    <3>2. inbox' = <<>>
      BY <2>3, <3>1, EmptySeq
    <3>3. QED
      BY <2>1, <3>1, <3>2 DEF Clean
  <2>5. QED
    BY <2>1, <2>4
<1>6. CASE ReadFails
  BY <1>6 DEF ReadFails
<1>7. CASE DrainRead
  BY <1>1, <1>7 DEF DrainRead, Clean
<1>8. CASE Panel
  <2>1. cmd = "sync" /\ UNCHANGED <<pc, cmd, failed>>
    BY <1>8 DEF Panel
  <2>2. CASE pc = "write"
    <3>1. /\ \A i \in DOMAIN inbox : inbox[i].cmd # "sync"
          /\ \A i \in DOMAIN todo : todo[i].cmd # "sync"
      BY <1>1, <2>1, <2>2
    <3>2. \A i \in DOMAIN todo' : todo'[i].cmd # "sync"
      BY <1>8, <3>1, PanelMoves
    <3>3. \A i \in DOMAIN inbox' : inbox'[i].cmd # "sync"
      BY <1>8, <3>1, PanelMoves
    <3>4. QED
      BY <2>1, <2>2, <3>2, <3>3
  <2>3. CASE pc = "read"
    <3>1. /\ \A i \in DOMAIN todo : todo[i].cmd = "sync" => i = Len(todo)
          /\ \A i \in DOMAIN inbox : inbox[i].cmd # "sync"
      BY <1>1, <1>8, <2>1, <2>3, PanelMoves
    <3>2. \A i \in DOMAIN todo' : todo'[i].cmd = "sync" => i = Len(todo')
      BY <1>8, <3>1, PanelMoves
    <3>3. \A i \in DOMAIN inbox' :
            inbox'[i].cmd = "sync" => i = Len(inbox') /\ todo' = <<>>
      BY <1>8, <3>1, PanelMoves
    <3>4. QED
      BY <2>1, <2>3, <3>2, <3>3
  <2>4. CASE pc = "flush"
    BY <1>1, <1>8, <2>1, <2>4 DEF Panel, Clean
  <2>5. QED
    BY <2>1, <2>2, <2>3, <2>4
<1>9. CASE UNCHANGED vars
  BY <1>1, <1>9 DEF vars, Clean
<1>10. QED
  BY <1>2, <1>3, <1>4, <1>5, <1>6, <1>7, <1>8, <1>9 DEF Next

\* Writing a command keeps the commands of a video in front of its stop.
LEMMA WrittenStopping ==
  ASSUME Inv, pc = "write", written' \in Nat,
         todo' = Append(todo, [cmd |-> cmd, id |-> written']),
         UNCHANGED playing, stopLost' = FALSE => stopLost = FALSE,
         VideoEnded' => ~video \/ cmd = "stop"
  PROVE  Stopping'
<1>1. /\ Len(todo) \in Nat /\ DOMAIN todo = 1..Len(todo)
      /\ DOMAIN todo' = 1..(Len(todo) + 1)
      /\ \A i \in DOMAIN todo : todo'[i] = todo[i]
      /\ todo'[Len(todo) + 1].cmd = cmd
  BY WriteMoves
<1>2. Controlled /\ Answerable /\ Stopping /\ stopLost \in BOOLEAN
  BY DEF Inv, WireTyped
<1>3. \A i, j \in DOMAIN todo' : todo'[i].cmd = "stop" /\ todo'[j].cmd = "init" => j < i
  <2>1. CASE cmd = "init"
    <3>1. todo = <<>>
      BY <1>2, <2>1 DEF Controlled, Answerable, Clean, Uploads
    <3>2. Len(todo) = 0
      BY <3>1
    <3>3. QED
      BY <1>1, <2>1, <3>2
  <2>2. CASE cmd # "init"
    BY <1>1, <1>2, <2>2 DEF Stopping
  <2>3. QED
    BY <2>1, <2>2
<1>4. ASSUME VideoEnded', ~stopLost',
             playing' \/ \E i \in DOMAIN todo' : todo'[i].cmd = "init"
      PROVE  \E i \in DOMAIN todo' : todo'[i].cmd = "stop"
  <2>1. CASE cmd = "stop"
    BY <1>1, <2>1
  <2>2. CASE cmd # "stop"
    <3>1. ~video /\ cmd # "init"
      BY <1>2, <1>4, <2>2 DEF Controlled
    <3>2. VideoEnded /\ ~stopLost
      BY <1>2, <1>4, <3>1 DEF VideoEnded
    <3>3. playing \/ \E i \in DOMAIN todo : todo[i].cmd = "init"
      BY <1>1, <1>4, <3>1
    <3>4. QED
      BY <1>1, <1>2, <3>2, <3>3 DEF Stopping
  <2>3. QED
    BY <2>1, <2>2
<1>5. QED
  BY <1>3, <1>4 DEF Stopping

\* The panel stops a video that was ended, or says with `stopLost` that it did not.
LEMMA PanelStopping == ASSUME Inv, Panel PROVE Stopping'
<1>1. /\ 1 \in DOMAIN todo /\ Len(todo) \in Nat \ {0}
      /\ DOMAIN todo = 1..Len(todo) /\ DOMAIN todo' = 1..(Len(todo) - 1)
      /\ \A i \in DOMAIN todo' : i + 1 \in DOMAIN todo /\ todo'[i] = todo[i + 1]
  BY PanelMoves
<1>2. /\ \A i, j \in DOMAIN todo : todo[i].cmd = "stop" /\ todo[j].cmd = "init" => j < i
      /\ VideoEnded /\ ~stopLost
         /\ (playing \/ \E i \in DOMAIN todo : todo[i].cmd = "init") =>
           \E i \in DOMAIN todo : todo[i].cmd = "stop"
      /\ stopLost \in BOOLEAN /\ playing \in BOOLEAN
  BY DEF Inv, Stopping, WireTyped
<1>3. /\ Executes(todo[1].cmd) \/ Ignores(todo[1].cmd)
      /\ VideoEnded' <=> VideoEnded
  <2>1. Head(todo) = todo[1]
    BY TailOf DEF Panel, Inv, WireTyped
  <2>2. QED
    BY <2>1 DEF Panel, host, VideoEnded
<1>4. \A i, j \in DOMAIN todo' : todo'[i].cmd = "stop" /\ todo'[j].cmd = "init" => j < i
  BY <1>1, <1>2
<1>5. ASSUME VideoEnded', ~stopLost',
             playing' \/ \E i \in DOMAIN todo' : todo'[i].cmd = "init"
      PROVE  \E i \in DOMAIN todo' : todo'[i].cmd = "stop"
  <2>1. CASE todo[1].cmd = "stop"
    <3>1. ~playing'
      BY <1>2, <1>3, <1>5, <2>1 DEF Executes, Ignores
    <3>2. PICK i \in DOMAIN todo' : todo'[i].cmd = "init"
      BY <1>5, <3>1
    <3>3. i + 1 \in DOMAIN todo /\ todo[i + 1].cmd = "init" /\ i \in 1..(Len(todo) - 1)
      BY <1>1, <3>2
    <3>4. i + 1 < 1
      BY <1>1, <1>2, <2>1, <3>3
    <3>5. QED
      BY <1>1, <3>3, <3>4
  <2>2. CASE todo[1].cmd # "stop"
    <3>1. ~stopLost
      BY <1>2, <1>3, <1>5, <2>2 DEF Executes, Ignores
    <3>2. playing \/ \E i \in DOMAIN todo : todo[i].cmd = "init"
      <4>1. CASE playing'
        <5>1. playing \/ todo[1].cmd = "init"
          BY <1>2, <1>3, <4>1 DEF Executes, Ignores
        <5>2. QED
          BY <1>1, <5>1
      <4>2. CASE ~playing'
        BY <1>1, <1>5, <4>2
      <4>3. QED
        BY <4>1, <4>2
    <3>3. PICK k \in DOMAIN todo : todo[k].cmd = "stop"
      BY <1>2, <1>3, <1>5, <3>1, <3>2
    <3>4. k # 1 /\ k \in 1..Len(todo)
      BY <1>1, <2>2, <3>3
    <3>5. k - 1 \in DOMAIN todo' /\ todo'[k - 1] = todo[k]
      BY <1>1, <3>4
    <3>6. QED
      BY <3>3, <3>5
  <2>3. QED
    BY <2>1, <2>2
<1>6. QED
  BY <1>4, <1>5 DEF Stopping

\* A video that was ended is stopped, or will be, or its stop was lost.
LEMMA StepStopping == Inv /\ [Next]_vars => Stopping'
<1> SUFFICES ASSUME Inv, [Next]_vars PROVE Stopping'
  OBVIOUS
<1>1. HostTyped /\ WireTyped /\ Controlled /\ Stopping
  BY DEF Inv
<1> USE DEF host, wire
<1>2. ASSUME UNCHANGED <<todo, playing, stopLost>>, VideoEnded' => VideoEnded
      PROVE  Stopping'
  BY <1>1, <1>2 DEF Stopping
<1>3. CASE Reopen \/ Sync \/ Restart \/ SendPNG \/ SendH264
  <2>1. UNCHANGED <<todo, playing, stopLost>> /\ ~video
    BY <1>1, <1>3 DEF Reopen, Sync, Restart, SendPNG, SendH264, Begin, Controlled
  <2>2. QED
    BY <1>2, <2>1 DEF VideoEnded
<1>4. CASE Write
  <2>1. /\ pc = "write" /\ written' \in Nat /\ UNCHANGED <<cmd, video, playing, stopLost>>
        /\ todo' = Append(todo, [cmd |-> cmd, id |-> written'])
    BY <1>1, <1>4 DEF Write, WireTyped
  <2>2. QED
    BY <2>1, WrittenStopping DEF VideoEnded
<1>5. CASE WriteFails \/ DrainDone \/ DrainFails
  <2>1. CASE /\ pc = "predrain" /\ cmd = "sync"
             /\ UNCHANGED <<cmd, video, todo, playing, stopLost>>
    BY <1>1, <1>2, <2>1 DEF Controlled, VideoEnded
  <2>2. ASSUME NEW bad \in BOOLEAN, Finish(bad), pc # "idle", UNCHANGED playing
        PROVE  VideoEnded' => ~video \/ cmd = "stop"
    BY <1>1, <2>2, Finishes DEF VideoEnded
  <2>3. ASSUME NEW bad \in BOOLEAN, Finish(bad), pc \in {"predrain", "flush"},
               UNCHANGED <<todo, playing, stopLost>>
        PROVE  Stopping'
    BY <1>2, <2>2, <2>3 DEF VideoEnded
  <2>4. ASSUME NEW bad \in BOOLEAN, Finish(bad), WriteFails, UNCHANGED playing
        PROVE  Stopping'
    <3>1. /\ pc = "write" /\ written' \in Nat
          /\ \/ /\ todo' = Append(todo, [cmd |-> cmd, id |-> written'])
                /\ UNCHANGED stopLost
             \/ stopLost' = (stopLost \/ cmd = "stop") /\ UNCHANGED todo
      BY <1>1, <2>4 DEF WriteFails, WireTyped
    <3>2. VideoEnded' => ~video \/ cmd = "stop"
      BY <2>2, <2>4, <3>1
    <3>3. CASE todo' = Append(todo, [cmd |-> cmd, id |-> written']) /\ UNCHANGED stopLost
      BY <2>4, <3>1, <3>2, <3>3, WrittenStopping
    <3>4. CASE stopLost' = (stopLost \/ cmd = "stop") /\ UNCHANGED todo
      <4>1. CASE cmd = "stop"
        <5>1. stopLost'
          BY <3>4, <4>1
        <5>2. QED
          BY <1>1, <3>4, <5>1 DEF Stopping
      <4>2. CASE cmd # "stop"
        <5>1. UNCHANGED stopLost
          BY <1>1, <3>4, <4>2 DEF WireTyped
        <5>2. QED
          BY <1>2, <2>4, <3>2, <3>4, <4>2, <5>1 DEF VideoEnded
      <4>3. QED
        BY <4>1, <4>2
    <3>5. QED
      BY <3>1, <3>3, <3>4
  <2>5. QED
    BY <1>5, <2>1, <2>3, <2>4, EndingSteps
<1>6. CASE Read \/ ReadFails \/ DrainRead
  <2>1. /\ UNCHANGED <<todo, playing, stopLost, video, cmd>> /\ pc # "write"
    BY <1>6 DEF Read, ReadFails, DrainRead
  <2>2. QED
    BY <1>2, <2>1 DEF VideoEnded
<1>7. CASE Panel
  BY <1>7, PanelStopping
<1>8. CASE UNCHANGED vars
  BY <1>2, <1>8 DEF vars, VideoEnded
<1>9. QED
  BY <1>3, <1>4, <1>5, <1>6, <1>7, <1>8 DEF Next

\* An accepted reply to an upload is the one of the last command.
LEMMA StepAck == Inv /\ [Next]_vars => AckAnswersUpload'
<1> SUFFICES ASSUME Inv, [Next]_vars PROVE AckAnswersUpload'
  OBVIOUS
<1>1. CASE UNCHANGED ack
  BY <1>1 DEF Inv, AckAnswersUpload
<1>2. CASE Read
  <2>1. SUFFICES ASSUME Accepts(Head(inbox)), cmd \in Uploads
                 PROVE  Head(inbox).id = written
    BY <1>1, <1>2 DEF Read, AckAnswersUpload
  <2>2. /\ pc = "read" /\ synced /\ ~(video /\ videoFailed)
        /\ inbox # <<>> /\ inbox' = Tail(inbox) /\ UNCHANGED todo
    BY <1>2, <2>1 DEF Read, Inv, Controlled, Uploads
  <2>3. OnlyLast /\ WireTyped
    BY <2>2 DEF Inv, Answerable
  <2>4. QED
    BY <2>2, <2>3, LastReply
<1>3. CASE ~Read
  <2>1. UNCHANGED ack
    BY <1>3, EndingSteps DEF Next, Reopen, Sync, Restart, SendPNG, SendH264, Begin, Write,
        WriteFails, ReadFails, DrainRead, DrainDone, DrainFails, Panel, vars
  <2>2. QED
    BY <1>1, <2>1
<1>4. QED
  BY <1>2, <1>3

-----------------------------------------------------------------------------
\* Nothing was written yet.
LEMMA StartInv == Init => Inv
<1> SUFFICES ASSUME Init PROVE Inv
  OBVIOUS
<1> USE DEF Init
<1>0. 0 \in 0..MaxCommands /\ 0 \in 0..StartupReads
  BY PanelAssumption
<1>1. HostTyped
  BY <1>0 DEF HostTyped, Commands
<1>2. <<>> \in Seq(Command) /\ <<>> \in Seq(Reply)
  OBVIOUS
<1>3. DOMAIN todo = {} /\ DOMAIN inbox = {} /\ Len(todo) = 0 /\ Len(inbox) = 0
  OBVIOUS
<1>4. WireTyped
  BY <1>0, <1>2, <1>3 DEF WireTyped
<1>5. Controlled /\ Answerable /\ Vouched /\ Stopping /\ AckAnswersUpload
  BY <1>3 DEF Controlled, Answerable, Clean, Vouched, Stopping, AckAnswersUpload
<1>6. QED
  BY <1>1, <1>4, <1>5 DEF Inv

\* The invariant holds throughout.
LEMMA Invariance == Spec => []Inv
<1>1. Inv /\ [Next]_vars => Inv'
  BY StepHost, StepWire, StepAnswerable, StepVouched, StepStopping, StepAck DEF Inv
<1>2. QED
  BY <1>1, StartInv, PTL DEF Spec

\* The host, the wire and the panel keep their types, and no reply has a serial
\* that was not written.
THEOREM TypeCorrect == Spec => []TypeOK
<1>1. Inv => TypeOK
  <2> SUFFICES ASSUME Inv PROVE TypeOK
    OBVIOUS
  <2>1. /\ \A i \in DOMAIN todo : todo[i] \in Command
        /\ \A i \in DOMAIN inbox : inbox[i] \in Reply
    BY ElementOfSeq, LenProperties DEF Inv, WireTyped
  <2>2. QED
    BY <2>1 DEF Inv, HostTyped, WireTyped, TypeOK, Command, Reply
<1>2. QED
  BY <1>1, Invariance, PTL

\* However late the panel answers, the reply accepted for an image, a video
\* command, a chunk or a status request is the reply to that very command: given
\* that an abandoned Sync is answered or lost in time (SyncInTime, in the model).
THEOREM RepliesMatch == Spec => []AckAnswersUpload
<1>1. Inv => AckAnswersUpload
  BY DEF Inv
<1>2. QED
  BY <1>1, Invariance, PTL

\* A synchronised device owes nothing that an upload could take for its reply, under
\* the same assumption about Sync.
THEOREM NothingStale == Spec => []NothingStaleWhileSynced
<1>1. Inv => NothingStaleWhileSynced
  <2> SUFFICES ASSUME Inv, synced, ~(video /\ videoFailed), NEW i \in DOMAIN Pending
               PROVE  Pending[i].id = written /\ pc # "idle"
    BY DEF NothingStaleWhileSynced
  <2>1. inbox \in Seq(Reply) /\ todo \in Seq(Command)
    BY DEF Inv, WireTyped
  <2>2. pc \in {"read", "flush"} \/ Clean
    BY DEF Inv, HostTyped, Answerable, Controlled
  <2>3. CASE Clean
    <3>1. Pending = <<>>
      BY <2>3 DEF Pending, Clean
    <3>2. QED
      BY <3>1
  <2>4. CASE pc \in {"read", "flush"}
    <3>1. OnlyLast
      BY <2>4 DEF Inv, Answerable
    <3>2. Pending = inbox \/ Pending = todo
      BY <2>1, <3>1, ConcatEmptySeq DEF Pending, OnlyLast
    <3>3. QED
      BY <2>4, <3>1, <3>2 DEF OnlyLast
  <2>5. QED
    BY <2>2, <2>3, <2>4
<1>2. QED
  BY <1>1, Invariance, PTL

\* A synchronised idle device shows no video, unless the stop command was lost.
THEOREM VideoStopped == Spec => []VideoStoppedWhenIdle
<1>1. Inv => VideoStoppedWhenIdle
  <2> SUFFICES ASSUME Inv, synced, pc = "idle", playing PROVE stopLost
    BY DEF VideoStoppedWhenIdle
  <2>1. ~video /\ Clean
    BY DEF Inv, Controlled, Answerable
  <2>2. VideoEnded /\ DOMAIN todo = {}
    BY <2>1 DEF VideoEnded, Clean
  <2>3. QED
    BY <2>2 DEF Inv, Stopping, WireTyped
<1>2. QED
  BY <1>1, Invariance, PTL

-----------------------------------------------------------------------------
(***************************************************************************)
(* The loop that drives the panel: DisplayLoop.                            *)
(***************************************************************************)
\* What each phase of the loop says about handle, synchronisation and budget.
LoopInv ==
  /\ phase \in Phases
  /\ UploadsOnlySynced
  /\ NothingLeaks
  /\ BudgetInRange
  /\ phase \in {"syncing", "resync", "closing"} => handle
  /\ phase \in {"syncing", "resync"} => ~inSync
  /\ inSync \in BOOLEAN /\ handle \in BOOLEAN /\ renderer \in BOOLEAN

\* The loop starts with nothing open and a fresh budget.
LEMMA LoopStart == LoopInit => LoopInv
<1> SUFFICES ASSUME LoopInit PROVE LoopInv
  OBVIOUS
<1>1. phase = "connect" /\ ~handle /\ ~inSync /\ ~renderer /\ attempts = 0
  BY DEF LoopInit
<1>2. inSync \in BOOLEAN /\ handle \in BOOLEAN /\ renderer \in BOOLEAN
  BY DEF LoopInit
<1>3. 0 \in 0..(Limit + 1)
  BY LoopAssumption
<1>4. QED
  BY <1>1, <1>2, <1>3
     DEF LoopInv, Phases, UploadsOnlySynced, NothingLeaks, BudgetInRange

\* Every step of the loop and of its environment keeps the invariant.
LEMMA LoopStep == LoopInv /\ [LoopNext]_loopVars => LoopInv'
<1> SUFFICES ASSUME LoopInv, [LoopNext]_loopVars PROVE LoopInv'
  OBVIOUS
<1> USE LoopAssumption
    DEF LoopInv, Phases, UploadsOnlySynced, NothingLeaks, BudgetInRange, panel
<1>1. CASE ObserveCancel  BY <1>1 DEF ObserveCancel
<1>2. CASE Open           BY <1>2 DEF Open
<1>3. CASE OpenFails      BY <1>3 DEF OpenFails, LeaveConnection
<1>4. CASE SyncPanel           BY <1>4 DEF SyncPanel
<1>5. CASE SyncFails      BY <1>5 DEF SyncFails, LeaveConnection
<1>6. CASE Close          BY <1>6 DEF Close, LeaveConnection
<1>7. CASE Reconnect      BY <1>7 DEF Reconnect
<1>8. CASE Choose         BY <1>8 DEF Choose
<1>9. CASE StartRenderer  BY <1>9 DEF StartRenderer
<1>10. CASE StartFails    BY <1>10 DEF StartFails
<1>11. CASE StreamEnds    BY <1>11 DEF StreamEnds
<1>12. CASE Resync        BY <1>12 DEF Resync
<1>13. CASE ResyncFails   BY <1>13 DEF ResyncFails
<1>14. CASE FallBack      BY <1>14 DEF FallBack
<1>15. CASE RunPNG       BY <1>15 DEF RunPNG, Upload
<1>16. CASE RunPNGFails  BY <1>16 DEF RunPNGFails
<1>17. CASE PNGWait       BY <1>17 DEF PNGWait
<1>18. ASSUME NEW sustained \in BOOLEAN, Progress(sustained) PROVE LoopInv'
  BY <1>18 DEF Progress, Upload
<1>19. CASE Cancel        BY <1>19 DEF Cancel
<1>20. CASE PanelChanges  BY <1>20 DEF PanelChanges
<1>21. CASE UNCHANGED loopVars
  BY <1>21 DEF loopVars
<1>22. QED
  BY <1>1, <1>2, <1>3, <1>4, <1>5, <1>6, <1>7, <1>8, <1>9, <1>10, <1>11,
     <1>12, <1>13, <1>14, <1>15, <1>16, <1>17, <1>18, <1>19, <1>20, <1>21
     DEF LoopNext, Loop

\* The invariant holds in every reachable state.
LEMMA LoopInvariance == LoopSpec => []LoopInv
BY LoopStart, LoopStep, PTL DEF LoopSpec

\* No upload without an open device and a successful Sync since the last failure.
THEOREM UploadsSynced == LoopSpec => []UploadsOnlySynced
<1>1. LoopInv => UploadsOnlySynced
  BY DEF LoopInv
<1>2. QED
  BY <1>1, LoopInvariance, PTL

\* Handle and renderer are released on every path out of a connection.
THEOREM Released == LoopSpec => []NothingLeaks
<1>1. LoopInv => NothingLeaks
  BY DEF LoopInv
<1>2. QED
  BY <1>1, LoopInvariance, PTL

\* The retry budget never leaves its range.
THEOREM BudgetBounded == LoopSpec => []BudgetInRange
<1>1. LoopInv => BudgetInRange
  BY DEF LoopInv
<1>2. QED
  BY <1>1, LoopInvariance, PTL

\* Which steps change the budget.
LEMMA AttemptsSteps ==
  ASSUME LoopInv, LoopNext
  PROVE  \/ attempts' = attempts
         \/ phase \in {"starting", "resync"} /\ ~canceled /\ ~canceled'
              /\ attempts' = attempts + 1 /\ handle' /\ inSync'
         \/ phase = "streaming" /\ attempts' = 0
<1> USE DEF LoopInv, UploadsOnlySynced, panel
<1>1. CASE StartFails   BY <1>1 DEF StartFails
<1>2. CASE Resync       BY <1>2 DEF Resync, MaySucceed
<1>3. ASSUME NEW sustained \in BOOLEAN, Progress(sustained)
      PROVE  attempts' = attempts \/ (phase = "streaming" /\ attempts' = 0)
  BY <1>3 DEF Progress
<1>4. ASSUME LoopNext, ~StartFails, ~Resync, ~\E s \in BOOLEAN : Progress(s)
      PROVE  attempts' = attempts
  BY <1>4 DEF LoopNext, Loop, ObserveCancel, Open, OpenFails, SyncPanel, SyncFails,
     Close, Reconnect, Choose, StartRenderer, StreamEnds, ResyncFails,
     FallBack, RunPNG, RunPNGFails, PNGWait, Cancel, PanelChanges
<1>5. QED
  BY <1>1, <1>2, <1>3, <1>4

\* A device that vanished never counts as a video failure.
THEOREM ChargedWhilePanelAnswers == LoopSpec => ChargedOnlyWhilePanelAnswers
<1>1. LoopInv /\ [LoopNext]_loopVars =>
        [attempts' > attempts => handle' /\ inSync' /\ ~canceled]_loopVars
  <2> SUFFICES ASSUME LoopInv, LoopNext, attempts' > attempts
               PROVE  handle' /\ inSync' /\ ~canceled
    OBVIOUS
  <2>1. attempts \in Nat
    BY LoopAssumption DEF LoopInv, BudgetInRange
  <2>2. QED
    BY <2>1, AttemptsSteps
<1>2. QED
  BY <1>1, LoopInvariance, PTL DEF LoopSpec, ChargedOnlyWhilePanelAnswers

\* An exhausted budget is final: the PNG is held and no video starts again.
THEOREM ExhaustedIsFinal == LoopSpec => HeldForGood
<1>1. LoopInv /\ [LoopNext]_loopVars =>
        [attempts > Limit => attempts' = attempts /\ ~renderer']_loopVars
  <2> SUFFICES ASSUME LoopInv, LoopNext, attempts > Limit
               PROVE  attempts' = attempts /\ ~renderer'
    OBVIOUS
  <2>1. attempts \in Nat /\ phase \notin {"starting", "streaming", "resync"}
    BY LoopAssumption DEF LoopInv, BudgetInRange
  <2>2. attempts' = attempts
    BY <2>1, AttemptsSteps
  <2>3. attempts' > Limit /\ LoopInv'
    BY <2>2, LoopStep
  <2>4. ~renderer'
    BY <2>3, LoopAssumption DEF LoopInv, BudgetInRange, NothingLeaks
  <2>5. QED
    BY <2>2, <2>4
<1>2. QED
  BY <1>1, LoopInvariance, PTL DEF LoopSpec, HeldForGood
=============================================================================
