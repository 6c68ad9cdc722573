----------------------------- MODULE CodexClient ----------------------------
(***************************************************************************)
(* The client of a Codex app-server child (internal/codex): process.go     *)
(* with its requests, its reader goroutine and Close, and the three        *)
(* clients of a process: the collector (Start and Process.Read), the login *)
(* (StartChatGPTLogin, LoginSession.Wait) and Logout.                      *)
(*                                                                         *)
(* requestMu and the owners make the requests of a process one sequence;   *)
(* `step` is the request the owner is at and names its kind.  The child    *)
(* answers what it was asked at any later time and in any order, or never, *)
(* writes notifications, requests of its own and garbage in between, and   *)
(* may die.  Another program may change the account of the profile while   *)
(* it is collected from.  `left` holds the accounts it has left during the *)
(* current read: Read cannot notice an account that comes back between its *)
(* two checks, so none does here.                                          *)
(*                                                                         *)
(* Left out: the stderr reader, which only copies, the fields of a reply,  *)
(* and a child that stops reading its input for so long that the pipe      *)
(* fills up.                                                               *)
(***************************************************************************)
EXTENDS Integers, Sequences

CONSTANTS
  Accounts, NoAccount,  \* account identities; none usable
  Capacity,             \* of Process.messages: 16
  LoginCapacity,        \* of Process.logins: 2
  MaxID,                \* bound on the requests of each role
  MaxTimeouts,          \* bound on the deadlines that pass while the child lives
  MaxNotes, MaxForeign, \* bounds on what the child writes unasked
  Orphans,              \* for each role, whether a grandchild may keep the pipe open
  Outsiders,            \* the roles whose Close others than the owner may call
  Nothing               \* no message, no snapshot

Roles == {"collect", "login", "logout"}
Error == "error"
Fine == "fine"

ASSUME ClientAssumption ==
  /\ NoAccount \notin Accounts \cup {Error}
  /\ Capacity \in Nat \ {0} /\ LoginCapacity \in Nat \ {0}
  /\ MaxID \in [Roles -> Nat] /\ MaxNotes \in [Roles -> Nat]
  /\ MaxTimeouts \in Nat /\ MaxForeign \in Nat
  /\ Orphans \in [Roles -> SUBSET BOOLEAN] /\ Outsiders \subseteq Roles

VARIABLES
  role,      \* who owns the process
  pc, step,  \* the owner: where it is, and at which request
  nextID,    \* Process.nextID
  firstID,   \* history: the first request of the current read
  expected,  \* Process.expected
  snapshot,  \* the rate limits the current read has received
  result,    \* how the last operation ended
  messages,  \* replies queued for the request in flight
  logins, updates,     \* the channels of notifications
  missed,    \* history: this login was completed while `logins` was full
  reader, held,        \* readStdout and the message it wants to queue
  closing,   \* Process.Close
  child, pending, pipe,  \* the child, what it was asked, what it has written
  notes, foreign,      \* how much it has written unasked
  timeouts,  \* deadlines that have passed while it lived
  garbled,   \* it has written garbage
  orphan,    \* a grandchild keeps its end of the pipe open
  profile, left,       \* the account of the profile
  completed  \* history: what became of this login

owner == <<role, pc, step, nextID, firstID, expected, snapshot, result>>
channels == <<messages, logins, updates, missed, reader, held>>
server == <<child, pending, pipe, notes, foreign, timeouts, garbled, orphan, profile,
            left, completed>>
vars == <<owner, channels, closing, server>>

People == Accounts \cup {NoAccount}
ReadSteps == {"before", "rates", "after"}
AccountSteps == {"start", "before", "after", "verify", "check"}
Steps == {"initialize", "rates", "loginStart", "logout"} \cup AccountSteps

Reply == [type : {"reply"}, id : 0..MaxID[role], value : People \cup {Error, Fine}]
Garbage == [type |-> "garbage", id |-> 0, value |-> Error]
Note(type) == [type |-> type, id |-> 0, value |-> Fine]
Lines == Reply \cup {Garbage} \cup {Note(t) : t \in
           {"update", "completed", "refused", "foreign"}}

Init ==
  /\ role \in Roles
  /\ pc = "call" /\ step = "initialize"
  /\ nextID = 0 /\ firstID = 0
  /\ expected = NoAccount /\ snapshot = Nothing /\ result = "none"
  /\ messages = <<>> /\ logins = <<>> /\ updates = FALSE /\ missed = FALSE
  /\ reader = "reading" /\ held = Nothing /\ closing = "open" /\ timeouts = 0
  /\ child = "alive" /\ pending = {} /\ pipe = <<>>
  /\ notes = 0 /\ foreign = 0 /\ garbled = FALSE /\ orphan \in Orphans[role]
  /\ profile \in People /\ left = {} /\ completed = "no"

-----------------------------------------------------------------------------
(***************************************************************************)
(* The owner: requestWithPolicy and what each client makes of the reply.   *)
(***************************************************************************)
\* startProcess, Start, login and logout give up; a read may be tried again.
FailCall ==
  /\ result' = "failed"
  /\ pc' = IF step \in ReadSteps THEN "idle" ELSE "close"
  /\ UNCHANGED <<role, step, nextID, firstID, expected, snapshot>>

Send ==
  /\ pc = "call" /\ nextID < MaxID[role]
  /\ nextID' = nextID + 1
  /\ firstID' = IF step = "before" THEN nextID' ELSE firstID
  /\ pending' = IF child = "alive" THEN pending \cup {[id |-> nextID', step |-> step]}
                ELSE pending
  /\ pc' = "await"
  /\ UNCHANGED <<role, step, expected, snapshot, result, channels, closing, timeouts, child,
                 pipe, notes, foreign, garbled, orphan, profile, left, completed>>

SendFails ==
  /\ pc = "call" /\ (child = "dead" \/ closing # "open" \/ nextID = MaxID[role])
  /\ FailCall
  /\ UNCHANGED <<channels, closing, server>>

Interrupted ==
  /\ pc = "await"
  /\ \/ /\ closing # "open" \/ child = "dead"  \* closeDone, or messages closed
        /\ UNCHANGED timeouts
     \/ /\ closing = "open" /\ child = "alive"
        /\ timeouts < MaxTimeouts /\ timeouts' = timeouts + 1
  /\ FailCall
  /\ UNCHANGED <<channels, closing, child, pending, pipe, notes, foreign, garbled,
                 orphan, profile, left, completed>>

To(place, next, outcome) ==
  /\ pc' = place /\ step' = next /\ result' = outcome
  /\ UNCHANGED <<role, nextID, firstID>>

\* readAccount in Start and around the rate limits in Read.
Identify(account) ==
  /\ IF account = NoAccount THEN To("close", step, "auth")
     ELSE IF step = "start" THEN To("idle", step, "none")
     ELSE IF account # expected THEN To("close", step, "changed")
     ELSE IF step = "before" THEN To("call", "rates", "none")
     ELSE To("idle", step, "ok")
  /\ expected' = IF step = "start" THEN account ELSE expected
  /\ UNCHANGED snapshot

FirstStep ==
  CASE role = "collect" -> "start"
    [] role = "login" -> "loginStart"
    [] role = "logout" -> "logout"

\* mutant: the answer of account/logout is trusted
LogoutTrusting(value) ==
  To("close", step, IF value = Error THEN "failed" ELSE "ok")

\* account/logout may fail where nobody is signed in; account/read decides.
LogoutAnswered(value) == To("call", "check", "none")

Proceed(reply) ==
  CASE step = "initialize" ->
         To("call", FirstStep, "none") /\ UNCHANGED <<expected, snapshot>>
    [] step \in {"start", "before", "after"} -> Identify(reply.value)
    [] step = "rates" ->
         /\ To("call", "after", "none")
         /\ snapshot' = [id |-> reply.id, account |-> reply.value]
         /\ UNCHANGED expected
    [] step = "loginStart" ->
         To("completion", step, "none") /\ UNCHANGED <<expected, snapshot>>
    [] step = "verify" ->
         /\ To("close", step, IF reply.value = NoAccount THEN "failed" ELSE "ok")
         /\ UNCHANGED <<expected, snapshot>>
    [] step = "logout" ->
         LogoutAnswered(reply.value) /\ UNCHANGED <<expected, snapshot>>
    [] step = "check" ->
         /\ To("close", step, IF reply.value = NoAccount THEN "ok" ELSE "failed")
         /\ UNCHANGED <<expected, snapshot>>

\* mutant: any reply will do
MineAnyID(message) == TRUE

Mine(message) == message.id = nextID

Take ==
  LET message == Head(messages) IN
    /\ pc = "await" /\ messages # <<>>
    /\ messages' = Tail(messages)
    /\ IF message.type = "garbage" THEN FailCall
       ELSE IF ~Mine(message) THEN UNCHANGED owner
       ELSE IF message.value = Error /\ step \notin {"logout", "check"} THEN FailCall
       ELSE Proceed(message)
    /\ UNCHANGED <<logins, updates, missed, reader, held, closing, server>>

OurLogin(note) == note.type = "completed"

\* LoginSession.Wait.
TakeLogin ==
  LET note == Head(logins) IN
    /\ pc = "completion" /\ logins # <<>>
    /\ logins' = Tail(logins)
    /\ IF OurLogin(note) THEN To("call", "verify", "none")
       ELSE IF note.type = "refused" THEN To("close", step, "failed")
       ELSE To(pc, step, result)
    /\ UNCHANGED <<expected, snapshot, messages, updates, missed, reader, held, closing,
                   server>>

LoginInterrupted ==
  /\ pc = "completion"
  /\ To("close", step, "failed")  \* the deadline
  /\ UNCHANGED <<expected, snapshot, channels, closing, server>>

LoginStopped ==
  /\ pc = "completion" /\ (closing # "open" \/ child = "dead")
  /\ To("close", step, "failed")
  /\ UNCHANGED <<expected, snapshot, channels, closing, server>>

\* codexLoop: the next poll, on a timer or a notification.
BeginRead ==
  /\ pc = "idle" /\ nextID < MaxID[role]
  /\ pc' = "call" /\ step' = "before" /\ snapshot' = Nothing /\ result' = "none"
  /\ left' = {}
  /\ updates' \in {updates, FALSE}
  /\ UNCHANGED <<role, nextID, firstID, expected, messages, logins, missed, reader, held,
                 closing, timeouts, child, pending, pipe, notes, foreign, garbled, orphan,
                 profile, completed>>

\* codexLoop: the context has ended, or Updates is closed.
LeaveLoop ==
  /\ pc = "idle"
  /\ pc' = "close"
  /\ UNCHANGED <<role, step, nextID, firstID, expected, snapshot, result, channels,
                 closing, server>>

-----------------------------------------------------------------------------
(***************************************************************************)
(* readStdout: a notification is handled at once, everything else waits    *)
(* for room in the queue.                                                  *)
(***************************************************************************)
Room == Len(logins) < LoginCapacity

\* mutant: an update waits until somebody takes the one before
NoteBlocking(note) ==
  /\ ~(note.type = "update" /\ updates)
  /\ updates' = (updates \/ note.type = "update")
  /\ logins' = IF note.type # "update" /\ Room THEN Append(logins, note) ELSE logins
  /\ missed' = (missed \/ (note.type = "completed" /\ ~Room))
  /\ UNCHANGED <<reader, held>>

\* What finds no room in its channel is dropped.
HandleNotification(note) ==
  /\ updates' = (updates \/ note.type = "update")
  /\ logins' = IF note.type # "update" /\ Room THEN Append(logins, note) ELSE logins
  /\ missed' = (missed \/ (note.type = "completed" /\ ~Room))
  /\ UNCHANGED <<reader, held>>

ReadLine ==
  /\ reader = "reading" /\ pipe # <<>> /\ closing \in {"open", "cancelled"}
  /\ pipe' = Tail(pipe)
  /\ IF Head(pipe).type \in {"reply", "garbage"}
     THEN /\ reader' = "sending" /\ held' = Head(pipe)
          /\ UNCHANGED <<updates, logins, missed>>
     ELSE HandleNotification(Head(pipe))
  /\ UNCHANGED <<owner, messages, closing, timeouts, child, pending, notes, foreign, garbled,
                 orphan, profile, left, completed>>

AfterSend == IF held.type = "garbage" THEN "done" ELSE "reading"

Queue ==
  /\ reader = "sending" /\ Len(messages) < Capacity
  /\ messages' = Append(messages, held)
  /\ reader' = AfterSend /\ held' = Nothing
  /\ UNCHANGED <<owner, logins, updates, missed, closing, server>>

\* mutant: only room in the queue releases the reader
GiveUpNever == FALSE /\ UNCHANGED vars

GiveUp ==
  /\ reader = "sending" /\ closing # "open"
  /\ reader' = AfterSend /\ held' = Nothing
  /\ UNCHANGED <<owner, messages, logins, updates, missed, closing, server>>

EndOfFile ==
  /\ reader = "reading"
  /\ \/ closing \in {"joining", "closed"}
     \/ child = "dead" /\ pipe = <<>> /\ ~orphan
  /\ reader' = "done"
  /\ UNCHANGED <<owner, messages, logins, updates, missed, held, closing, server>>

-----------------------------------------------------------------------------
(***************************************************************************)
(* Close, by the owner when it is finished or by anybody before.           *)
(***************************************************************************)
BeginClose ==
  /\ closing = "open" /\ (pc = "close" \/ role \in Outsiders)
  /\ closing' = "cancelled"
  /\ UNCHANGED <<owner, channels, server>>

ClosePipes ==
  /\ closing = "cancelled" /\ child = "dead"
  /\ closing' = "joining"
  /\ UNCHANGED <<owner, channels, server>>

CloseUpdates ==
  /\ closing = "joining" /\ reader = "done"
  /\ closing' = "closed"
  /\ UNCHANGED <<owner, channels, server>>

Finish ==
  /\ pc = "close" /\ closing = "closed"
  /\ pc' = "done"
  /\ UNCHANGED <<role, step, nextID, firstID, expected, snapshot, result, channels,
                 closing, server>>

-----------------------------------------------------------------------------
(***************************************************************************)
(* The child and the profile.                                              *)
(***************************************************************************)
Write(line) == pipe' = Append(pipe, line)

Values(kind) ==
  IF kind \in AccountSteps THEN {profile, Error}
  ELSE IF kind = "rates" THEN (IF profile = NoAccount THEN {} ELSE {profile}) \cup {Error}
  ELSE {Fine, Error}

\* The sign-out may be refused, or reported and not done.
Answer(request) ==
  /\ child = "alive" /\ request \in pending
  /\ pending' = pending \ {request}
  /\ \E value \in Values(request.step) :
       /\ Write([type |-> "reply", id |-> request.id, value |-> value])
       /\ profile' \in IF request.step = "logout" /\ value = Fine
                       THEN {profile, NoAccount} ELSE {profile}
  /\ UNCHANGED <<owner, channels, closing, timeouts, child, notes, foreign, garbled, orphan,
                 left, completed>>

\* A notification of new usage, or a request of the child's own.
WriteUnasked ==
  /\ child = "alive" /\ notes < MaxNotes[role] /\ notes' = notes + 1
  /\ Write(Note("update")) \/ Write([type |-> "reply", id |-> 0, value |-> Fine])
  /\ UNCHANGED <<owner, channels, closing, timeouts, child, pending, foreign, garbled, orphan,
                 profile, left, completed>>

\* The user finishes this login, or gives up.
UserLogsIn ==
  /\ child = "alive" /\ role = "login" /\ pc = "completion" /\ completed = "no"
  /\ \/ profile' \in People /\ completed' = "yes" /\ Write(Note("completed"))
     \/ UNCHANGED profile /\ completed' = "refused" /\ Write(Note("refused"))
  /\ UNCHANGED <<owner, channels, closing, timeouts, child, pending, notes, foreign, garbled,
                 orphan, left>>

ForeignLogin ==
  /\ child = "alive" /\ role = "login" /\ foreign < MaxForeign
  /\ foreign' = foreign + 1
  /\ Write(Note("foreign"))
  /\ UNCHANGED <<owner, channels, closing, timeouts, child, pending, notes, garbled, orphan,
                 profile, left, completed>>

WriteGarbage ==
  /\ child = "alive" /\ ~garbled /\ garbled' = TRUE /\ notes < MaxNotes[role] /\ notes' = notes + 1
  /\ Write(Garbage)
  /\ UNCHANGED <<owner, channels, closing, timeouts, child, pending, foreign, orphan, profile,
                 left, completed>>

Die ==
  /\ child = "alive"
  /\ child' = "dead" /\ pending' = {}
  /\ UNCHANGED <<owner, channels, closing, timeouts, pipe, notes, foreign, garbled, orphan,
                 profile, left, completed>>

SwitchAccount ==
  /\ role = "collect"
  /\ profile' \in People \ (left \cup {profile})
  /\ left' = left \cup {profile}
  /\ UNCHANGED <<owner, channels, closing, timeouts, child, pending, pipe, notes, foreign,
                 garbled, orphan, completed>>

OwnerStep ==
  \/ Send \/ SendFails \/ Interrupted \/ Take \/ TakeLogin \/ LoginInterrupted
  \/ LoginStopped \/ BeginRead \/ LeaveLoop \/ Finish

ReaderStep == ReadLine \/ Queue \/ GiveUp \/ EndOfFile

ChildStep ==
  \/ \E request \in pending : Answer(request)
  \/ WriteUnasked \/ UserLogsIn \/ ForeignLogin \/ WriteGarbage \/ Die

Next ==
  \/ OwnerStep \/ ReaderStep \/ ChildStep \/ SwitchAccount
  \/ BeginClose \/ ClosePipes \/ CloseUpdates

Spec == Init /\ [][Next]_vars

\* Goroutines run; a cancelled child is killed; deadlines end every wait, but no
\* property below relies on one.
FairSpec ==
  /\ Spec
  /\ WF_vars(ReaderStep) /\ WF_vars(Send \/ SendFails) /\ WF_vars(Take)
  /\ WF_vars(TakeLogin \/ LoginStopped)
  /\ WF_vars(closing # "open" /\ Die)
  /\ WF_vars(pc = "close" /\ BeginClose) /\ WF_vars(ClosePipes)
  /\ WF_vars(CloseUpdates) /\ WF_vars(Finish)
-----------------------------------------------------------------------------
TypeOK ==
  /\ role \in Roles
  /\ pc \in {"call", "await", "completion", "idle", "close", "done"}
  /\ step \in Steps /\ nextID \in 0..MaxID[role] /\ firstID \in 0..nextID
  /\ expected \in People
  /\ snapshot = Nothing \/ snapshot \in [id : 1..MaxID[role], account : People]
  /\ result \in {"none", "ok", "failed", "auth", "changed"}
  /\ messages \in Seq(Reply \cup {Garbage}) /\ Len(messages) <= Capacity
  /\ logins \in Seq(Lines) /\ Len(logins) <= LoginCapacity
  /\ updates \in BOOLEAN
  /\ reader \in {"reading", "sending", "done"}
  /\ held = Nothing \/ held \in Reply \cup {Garbage}
  /\ closing \in {"open", "cancelled", "joining", "closed"}
  /\ child \in {"alive", "dead"} /\ pipe \in Seq(Lines)
  /\ pending \subseteq [id : 1..MaxID[role], step : Steps]
  /\ profile \in People /\ completed \in {"no", "yes", "refused"}

\* A read that succeeds reports rate limits that were asked for during this
\* read, of the account the process was started with: no late reply of an
\* abandoned read is taken for a new one, and a change of the account in the
\* middle is noticed.
SnapshotIsHonest ==
  step = "after" /\ result = "ok" =>
    snapshot.id >= firstID /\ snapshot.account = expected

\* A login only succeeds when this login was completed, not another one, and
\* left a usable account; a logout only when the profile is signed out, whatever
\* the app-server answered to the logout itself ("Codex logout did not take
\* effect").
SuccessIsReal ==
  result = "ok" =>
    /\ role = "login" => completed = "yes" /\ profile # NoAccount
    /\ role = "logout" => profile = NoAccount

\* Close returns, wherever the reader and the owner are at the time.
CloseReturns == closing # "open" ~> closing = "closed"

\* "Notifications never enter the reply queue": a completed login is noticed by
\* the waiting session whatever updates, replies and completions of other logins
\* came before it, with two exceptions, both at a queue's limit: nobody takes
\* replies while the session waits, so that more of them than the queue holds
\* stop the reader; and a completion that finds the channel of logins full is
\* dropped.  In either case the session only ends at its deadline.
Stopped == reader = "sending" /\ Len(messages) = Capacity

LoginNoticed ==
  completed = "yes" /\ ~garbled /\ pc = "completion"
    ~> pc # "completion" \/ garbled \/ Stopped \/ missed
=============================================================================
