---------------------------- MODULE ClaudeControl ---------------------------
(***************************************************************************)
(* Connecting and disconnecting Claude in cmd/turzx-control (server.go,    *)
(* runtime.go): HTTP requests with the goroutines that finish them, the    *)
(* account watcher, and a crash or restart at any moment.                  *)
(*                                                                         *)
(* The actors share app.claudeStatus, app.claudeAccount, the source that   *)
(* collects Claude usage (daemon.Sources) and the profile files.  Only     *)
(* claudeStatus keeps them apart: a request is refused while one is in     *)
(* progress, and the watcher checks it once, after it has read the account *)
(* and before it asks the CLI, which takes up to 15 s.  One step is one    *)
(* call that changes shared state, or a locked read that may be stale when *)
(* it is used; the files are written by one function of internal/claude at *)
(* a time, what happens between their two writes is in StatuslineProfile.  *)
(***************************************************************************)
EXTENDS ProfileFiles

CONSTANTS
  Requests,     \* accepted connect and disconnect requests, each is made once
  Watcher,      \* the goroutine of watchClaudeAccount
  MaxBindings,  \* bound on the bindings issued
  MaxRestarts   \* bound on restarts of the program

ASSUME ControlAssumption ==
  /\ Watcher \notin Requests
  /\ MaxBindings \in Nat /\ MaxRestarts \in Nat

VARIABLES
  status,   \* app.claudeStatus
  known,    \* app.claudeAccount
  source,   \* the binding Sources collects
  label,    \* the account shown beside it
  unnamed,  \* history: a restart restored the source without its account
  line, side, issued,  \* the profile files and the bindings issued for them
  cli,      \* the account Claude Code is signed into
  act,      \* where each actor is, and its local variables
  watching, \* the watcher runs
  restarts,
  left,     \* history: a disconnect has completed since the last connect
  dropped,  \* history: the bindings a disconnect has invalidated
  crossed   \* history: a request and a check of the watcher have overlapped

app == <<status, known>>
collecting == <<source, label, unnamed>>
files == <<line, side, issued>>
history == <<left, dropped, crossed>>
rest == <<cli, watching, restarts>>
vars == <<app, collecting, files, act, rest, history>>

Actors == Requests \cup {Watcher}
People == Accounts \cup {NoAccount}
Busy == {"starting", "waiting", "disconnecting"}
Resting == {"new", "idle", "peek", "done"}

Quiet(actor) == act[actor].pc \in Resting

Fresh == [pc |-> "new", kind |-> "none", account |-> NoAccount, binding |-> 0]
Idle == [Fresh EXCEPT !.pc = "idle", !.kind = "watch"]

Init ==
  /\ status = "disconnected" /\ known = NoAccount
  /\ source = NoBinding /\ label = NoAccount /\ unnamed = FALSE
  /\ line \in {UserLine(own) : own \in Lines} /\ side = NoSidecar /\ issued = 0
  /\ cli \in People
  /\ act = [actor \in Actors |-> IF actor = Watcher THEN Idle ELSE Fresh]
  /\ watching = TRUE /\ restarts = 0
  /\ left = FALSE /\ dropped = {} /\ crossed = FALSE

At(actor, pc) == act[actor].pc = pc
Goto(actor, pc) == act' = [act EXCEPT ![actor].pc = pc]
Finish(actor) == Goto(actor, IF actor = Watcher THEN "idle" ELSE "done")

-----------------------------------------------------------------------------
(***************************************************************************)
(* Accepting a request, and the watcher's tick.                            *)
(***************************************************************************)
Accept(request, kind, busy) ==
  /\ At(request, "new") /\ status \notin Busy
  /\ status' = busy
  /\ act' = [act EXCEPT ![request] = [@ EXCEPT !.pc = "stop", !.kind = kind]]
  /\ crossed' = (crossed \/ ~Quiet(Watcher))
  /\ UNCHANGED <<known, collecting, files, rest, dropped>>

Connect(request) ==
  /\ Accept(request, "connect", "starting")
  /\ left' = FALSE

Disconnect(request) ==
  /\ Accept(request, "disconnect", "disconnecting")
  /\ UNCHANGED left

\* currentClaudeAccount and claudeBusy lock app.mu one after the other.
Tick ==
  /\ watching /\ At(Watcher, "idle") /\ known # NoAccount
  /\ act' = [act EXCEPT ![Watcher] = [@ EXCEPT !.pc = "peek", !.account = known]]
  /\ UNCHANGED <<app, collecting, files, rest, history>>

\* An account that a request has replaced since it was read is compared all the same.
CheckBusy ==
  /\ At(Watcher, "peek")
  /\ \/ status \in Busy /\ Finish(Watcher) /\ UNCHANGED crossed
     \/ /\ status \notin Busy /\ Goto(Watcher, "compare")
        /\ crossed' = (crossed \/ act[Watcher].account # known)
  /\ UNCHANGED <<app, collecting, files, rest, left, dropped>>

\* The CLI fails, answers the account that was known before, or another one.
Compare ==
  /\ At(Watcher, "compare")
  /\ \/ Finish(Watcher)
     \/ /\ cli # act[Watcher].account
        /\ act' = [act EXCEPT ![Watcher] = [@ EXCEPT !.pc = "stop", !.account = cli]]
  /\ UNCHANGED <<app, collecting, files, rest, history>>

-----------------------------------------------------------------------------
(***************************************************************************)
(* stopProvider: the source is dropped before the confirmation is.         *)
(***************************************************************************)
\* mutant: the source goes on collecting
StopSourceNot(actor) ==
  /\ At(actor, "stop")
  /\ Goto(actor, "forget")
  /\ UNCHANGED <<app, collecting, files, rest, history>>

StopSource(actor) ==
  /\ At(actor, "stop")
  /\ source' = NoBinding /\ label' = NoAccount /\ unnamed' = FALSE
  /\ Goto(actor, "forget")
  /\ UNCHANGED <<app, files, rest, history>>

AfterForget(actor) ==
  CASE act[actor].kind = "disconnect" -> "uninstall"
    [] act[actor].kind = "connect" -> "ask"
    [] act[actor].kind = "watch" -> "clear"

\* mutant: the confirmation of the binding is kept
ForgetNothing(actor) ==
  /\ At(actor, "forget")
  /\ dropped' = IF act[actor].kind = "disconnect" /\ side # NoSidecar
                THEN dropped \cup {side.binding} ELSE dropped
  /\ Goto(actor, AfterForget(actor))
  /\ UNCHANGED <<app, collecting, files, rest, left, crossed>>

Forget(actor) ==
  /\ At(actor, "forget")
  /\ side' = Forgotten(side)
  /\ dropped' = IF act[actor].kind = "disconnect" /\ side # NoSidecar
                THEN dropped \cup {side.binding} ELSE dropped
  /\ Goto(actor, AfterForget(actor))
  /\ UNCHANGED <<app, collecting, line, issued, rest, left, crossed>>

\* A request gives up; the watcher logs the error and goes on.
ForgetFails(actor) ==
  /\ At(actor, "forget")
  /\ Goto(actor, IF actor = Watcher THEN "clear" ELSE "error")
  /\ UNCHANGED <<app, collecting, files, rest, history>>

-----------------------------------------------------------------------------
(***************************************************************************)
(* finishLogout.                                                           *)
(***************************************************************************)
Uninstall(actor) ==
  /\ At(actor, "uninstall")
  /\ line' = Restored(line, side)
  /\ Goto(actor, "clear")
  /\ UNCHANGED <<app, collecting, side, issued, rest, history>>

UninstallFails(actor) ==
  /\ At(actor, "uninstall")
  /\ Goto(actor, "error")
  /\ UNCHANGED <<app, collecting, files, rest, history>>

\* The account is forgotten; a watcher that saw a new account binds it.
Clear(actor) ==
  /\ At(actor, "clear")
  /\ known' = NoAccount
  /\ Goto(actor, IF actor # Watcher \/ act[actor].account = NoAccount
                 THEN "goodbye" ELSE "install")
  /\ UNCHANGED <<status, collecting, files, rest, history>>

Goodbye(actor) ==
  /\ At(actor, "goodbye")
  /\ status' = "disconnected"
  /\ left' = (left \/ actor # Watcher)
  /\ Finish(actor)
  /\ UNCHANGED <<known, collecting, files, rest, dropped, crossed>>

-----------------------------------------------------------------------------
(***************************************************************************)
(* startClaudeLogin and waitForClaudeLogin.                                *)
(***************************************************************************)
\* A signed-in profile needs no login; the kind tells the two paths apart.
Ask(actor) ==
  /\ At(actor, "ask")
  /\ act' = [act EXCEPT ![actor] =
       [@ EXCEPT !.pc = "install", !.account = cli,
                 !.kind = IF cli = NoAccount THEN "login" ELSE "connect"]]
  /\ UNCHANGED <<app, collecting, files, rest, history>>

\* The CLI fails or speaks of another profile, here and after the login.
AskFails(actor) ==
  /\ act[actor].pc \in {"ask", "askAgain"}
  /\ Goto(actor, "error")
  /\ UNCHANGED <<app, collecting, files, rest, history>>

StartLogin(actor) ==
  /\ At(actor, "start")
  /\ status' = "waiting"
  /\ Goto(actor, "wait")
  /\ UNCHANGED <<known, collecting, files, rest, history>>

StartLoginFails(actor) ==
  /\ At(actor, "start")
  /\ Goto(actor, "rollback")
  /\ UNCHANGED <<app, collecting, files, rest, history>>

\* session.Wait verifies that somebody is signed in, within ten minutes.
LoginDone(actor) ==
  /\ At(actor, "wait") /\ cli # NoAccount
  /\ Goto(actor, "askAgain")
  /\ UNCHANGED <<app, collecting, files, rest, history>>

LoginFails(actor) ==
  /\ At(actor, "wait")
  /\ Goto(actor, "rollback")
  /\ UNCHANGED <<app, collecting, files, rest, history>>

AskAgain(actor) ==
  /\ At(actor, "askAgain")
  /\ act' = [act EXCEPT ![actor] = [@ EXCEPT !.pc = "confirm", !.account = cli]]
  /\ UNCHANGED <<app, collecting, files, rest, history>>

-----------------------------------------------------------------------------
(***************************************************************************)
(* bindClaude, for a request and for the watcher, and the end of a login.  *)
(***************************************************************************)
Install(actor) ==
  /\ At(actor, "install") /\ issued < MaxBindings
  /\ issued' = issued + 1
  /\ side' = NewSidecar(line, side, issued')
  /\ line' = side'.command
  /\ act' = [act EXCEPT ![actor] =
       [@ EXCEPT !.binding = issued',
                 !.pc = IF act[actor].kind = "login" THEN "start" ELSE "confirm"]]
  /\ UNCHANGED <<app, collecting, rest, history>>

\* Nothing was written, or only the sidecar.
InstallFails(actor) ==
  /\ At(actor, "install")
  /\ \/ UNCHANGED files
     \/ /\ issued < MaxBindings /\ issued' = issued + 1
        /\ side' = NewSidecar(line, side, issued')
        /\ UNCHANGED line
  /\ Goto(actor, "error")
  /\ UNCHANGED <<app, collecting, rest, history>>

Confirm(actor) ==
  /\ At(actor, "confirm") /\ MayConfirm(line, side, act[actor].binding)
  /\ side' = Confirmed(side, act[actor].account)
  /\ Goto(actor, "record")
  /\ UNCHANGED <<app, collecting, line, issued, rest, history>>

\* bindClaude takes its hook back; after a login the hook stays, unconfirmed.
ConfirmFails(actor) ==
  /\ At(actor, "confirm")
  /\ Goto(actor, IF act[actor].kind = "login" THEN "error" ELSE "rollback")
  /\ UNCHANGED <<app, collecting, files, rest, history>>

Rollback(actor) ==
  /\ At(actor, "rollback")
  /\ line' \in {Restored(line, side), line}   \* a failure is only logged
  /\ Goto(actor, "error")
  /\ UNCHANGED <<app, collecting, side, issued, rest, history>>

Record(actor) ==
  /\ At(actor, "record")
  /\ known' = act[actor].account
  /\ Goto(actor, "publish")
  /\ UNCHANGED <<status, collecting, files, rest, history>>

Publish(actor) ==
  /\ At(actor, "publish")
  /\ label' = act[actor].account /\ source' = act[actor].binding
  /\ UNCHANGED unnamed
  /\ Goto(actor, "announce")
  /\ UNCHANGED <<app, files, rest, history>>

Announce(actor) ==
  /\ At(actor, "announce")
  /\ status' = "installed"
  /\ Finish(actor)
  /\ UNCHANGED <<known, collecting, files, rest, history>>

\* mutant: a failed request leaves the status it set at the beginning
FailSilently(actor) ==
  /\ At(actor, "error")
  /\ Finish(actor)
  /\ UNCHANGED <<app, collecting, files, rest, history>>

Fail(actor) ==
  /\ At(actor, "error")
  /\ status' = "error"
  /\ Finish(actor)
  /\ UNCHANGED <<known, collecting, files, rest, history>>

-----------------------------------------------------------------------------
(***************************************************************************)
(* The program stops at any moment and starts again (startRuntime); the    *)
(* user signs Claude Code in and out on their own.                         *)
(***************************************************************************)
Restart ==
  /\ restarts < MaxRestarts /\ restarts' = restarts + 1
  /\ act' = [actor \in Actors |->
       IF actor = Watcher THEN Idle
       ELSE IF Quiet(actor) THEN act[actor] ELSE [act[actor] EXCEPT !.pc = "done"]]
  /\ \/ /\ watching' = TRUE
        /\ source' = InstalledBinding(line, side)
        /\ unnamed' \in {FALSE, source' # NoBinding}  \* reading the account may fail
        /\ known' = IF unnamed' \/ source' = NoBinding THEN NoAccount
                    ELSE InstalledAccount(side)
        /\ status' = IF source' = NoBinding THEN "disconnected" ELSE "installed"
     \/ /\ watching' = FALSE  \* the profile cannot be read: no watcher is started
        /\ source' = NoBinding /\ unnamed' = FALSE
        /\ known' = NoAccount /\ status' = "error"
  /\ label' = known'
  /\ UNCHANGED <<files, cli, history>>

SignIn ==
  /\ cli' \in People \ {cli}
  /\ UNCHANGED <<app, collecting, files, act, watching, restarts, history>>

\* What an actor does after it was accepted.
Step(actor) ==
  \/ StopSource(actor) \/ Forget(actor) \/ ForgetFails(actor)
  \/ Uninstall(actor) \/ UninstallFails(actor) \/ Clear(actor) \/ Goodbye(actor)
  \/ Ask(actor) \/ AskFails(actor) \/ StartLogin(actor) \/ StartLoginFails(actor)
  \/ LoginDone(actor) \/ LoginFails(actor) \/ AskAgain(actor)
  \/ Install(actor) \/ InstallFails(actor) \/ Confirm(actor) \/ ConfirmFails(actor)
  \/ Rollback(actor) \/ Record(actor) \/ Publish(actor) \/ Announce(actor)
  \/ Fail(actor)

Next ==
  \/ \E request \in Requests : Connect(request) \/ Disconnect(request)
  \/ Tick \/ CheckBusy \/ Compare
  \/ \E actor \in Actors : Step(actor)
  \/ Restart \/ SignIn

Spec == Init /\ [][Next]_vars

\* Requests and the watcher are goroutines whose calls all have time limits.
FairSpec ==
  /\ Spec /\ WF_vars(CheckBusy) /\ WF_vars(Compare)
  /\ \A actor \in Actors : WF_vars(Step(actor))
-----------------------------------------------------------------------------
TypeOK ==
  /\ status \in Busy \cup {"disconnected", "installed", "error"}
  /\ known \in People /\ label \in People /\ cli \in People
  /\ source \in (1..MaxBindings) \cup {NoBinding}
  /\ line \in Command /\ side \in Sidecar \cup {NoSidecar}
  /\ issued \in 0..MaxBindings /\ restarts \in 0..MaxRestarts
  /\ \A actor \in Actors :
       /\ act[actor].account \in People /\ act[actor].binding \in 0..MaxBindings
       /\ act[actor].kind \in {"none", "connect", "login", "disconnect", "watch"}
  /\ {watching, unnamed, left, crossed} \subseteq BOOLEAN
  /\ dropped \subseteq 1..MaxBindings

\* Between operations the page, the source and the profile agree: usage is
\* collected exactly when the status says so, and for the account recorded with the
\* confirmed binding of the installed hook; only when startRuntime could not read
\* that account is the restored binding collected without one.  Excluded are the
\* histories in which a request overlapped a check of the watcher (crossed).
AgreeAtRest ==
  ~crossed /\ (\A actor \in Actors : Quiet(actor)) =>
    /\ status = "installed" <=> source # NoBinding
    /\ source # NoBinding =>
         /\ source = InstalledBinding(line, side)
         /\ label = IF unnamed THEN NoAccount ELSE InstalledAccount(side)
         /\ known = label

\* "a failed logout cannot reuse the previous binding" (binding.go): what a
\* disconnect has invalidated is neither collected nor restored by a restart, unless
\* a request overlapped a check of the watcher (crossed).
DroppedStaysDropped ==
  ~crossed =>
    /\ source \notin dropped
    /\ InstalledBinding(line, side) \notin dropped

\* README: "바인딩이 없는 상태에서는 로그인이 확인되어도 hook을 임의로 설치하지 않는다";
\* the watcher never installs a hook after the user has disconnected.
NoUnwantedInstall == [][left /\ left' => issued' = issued]_vars

\* The page never stays busy: every request ends and another one is accepted,
\* whatever fails.
BusyEnds == status \in Busy ~> status \notin Busy
=============================================================================
