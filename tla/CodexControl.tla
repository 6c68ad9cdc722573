---------------------------- MODULE CodexControl ----------------------------
(***************************************************************************)
(* Connecting and disconnecting Codex in cmd/turzx-control (server.go,     *)
(* runtime.go) and the collectors it replaces (daemon.Sources): the HTTP   *)
(* requests with the goroutines that finish them, the codexLoop of every   *)
(* run, which reports to the page on its own, and the end of the program.  *)
(*                                                                         *)
(* They share app.status, the dedicated Codex profile, the account label   *)
(* and the current run.  A request replaces the run in two steps, because  *)
(* it waits for the retired one (Sources.replace); Sources.change is held  *)
(* meanwhile.  app.mu only guards single assignments, each within a step.  *)
(* What happens inside codex.Start, Read and the login is in CodexClient.  *)
(***************************************************************************)
EXTENDS Integers

CONSTANTS
  Requests,  \* requests to the page, each is made once
  Nobody,    \* holds no lock
  Closer,    \* the goroutine that ends the program
  MaxRuns    \* bound on the replacements of the source

ASSUME ControlAssumption ==
  /\ MaxRuns \in Nat \ {0}
  /\ Nobody \notin Requests /\ Closer \notin Requests /\ Nobody # Closer

VARIABLES
  status,   \* app.status
  act,      \* where each request is
  change,   \* who holds Sources.change
  current,  \* the serial of the current sourceRun
  run,      \* the runs: where codexLoop is, its context, what its model holds
  label,    \* the run whose account is Sources.codexAccount, 0 for none
  signedIn, \* the dedicated profile holds an account
  phase,    \* the end of the program
  stopping, \* app.stopping
  crossed   \* history: a request was accepted before the one that published
            \* "connected" had started its collector

vars == <<status, act, change, current, run, label, signedIn, phase, stopping, crossed>>

Serials == 1..MaxRuns
Busy == {"starting", "waiting", "disconnecting"}
Outcomes == {"ok", "auth", "changed", "error"}

Run(pc, model) == [pc |-> pc, cancelled |-> FALSE, model |-> model, last |-> FALSE]
Live(n) == run[n].pc # "done"
Cancelled(n) == run[n].cancelled \/ phase # "up"

Quiet(request) == act[request].pc \in {"new", "done"}
At(request, pc) == act[request].pc = pc
Goto(request, pc) == act' = [act EXCEPT ![request].pc = pc]

\* startRuntime has started the first collector.
Init ==
  /\ status = "disconnected"
  /\ act = [request \in Requests |-> [pc |-> "new", kind |-> "none"]]
  /\ change = Nobody /\ current = 1
  /\ run = [n \in Serials |-> IF n = 1 THEN Run("start", "collecting")
                              ELSE Run("done", "disconnected")]
  /\ label = 0 /\ signedIn \in BOOLEAN
  /\ phase = "up" /\ stopping = FALSE /\ crossed = FALSE

-----------------------------------------------------------------------------
(***************************************************************************)
(* Accepting a request.  ServeHTTP refuses while the program stops.        *)
(***************************************************************************)
Accept(request, kind, busy) ==
  /\ At(request, "new") /\ status \notin Busy /\ ~stopping
  /\ status' = busy
  /\ act' = [act EXCEPT ![request] = [pc |-> "stop", kind |-> kind]]
  /\ crossed' = (crossed \/ \E other \in Requests : act[other].pc \in {"enable", "joinNew"})
  /\ UNCHANGED <<change, current, run, label, signedIn, phase, stopping>>

Login(request) == Accept(request, "login", "starting")
Logout(request) == Accept(request, "logout", "disconnecting")

-----------------------------------------------------------------------------
(***************************************************************************)
(* Sources.replace: the new run takes the place of the old one, which is   *)
(* cancelled and waited for before the new collector starts.  Closed       *)
(* sources are left as they are.                                           *)
(***************************************************************************)
Swap(who, model) ==
  /\ change = Nobody /\ phase \notin {"closing", "closed"} /\ current < MaxRuns
  /\ change' = who /\ current' = current + 1
  /\ run' = [run EXCEPT ![current].cancelled = TRUE,
                        ![current + 1] = Run("done", model)]

ReplaceNothing == phase = "closed" /\ UNCHANGED <<change, current, run>>

\* mutant: the old run is not waited for
JoinAtOnce(who) == change = who /\ change' = Nobody

Join(who) ==
  /\ change = who /\ change' = Nobody
  /\ ~Live(current - 1)

\* mutant: the collector goes on while the profile changes
StopNot(request) ==
  /\ At(request, "stop")
  /\ Goto(request, "clear")
  /\ UNCHANGED <<status, change, current, run, label, signedIn, phase, stopping, crossed>>

\* SetCodex(false) and SetCodexAccount("") of stopProvider.
Stop(request) ==
  /\ At(request, "stop")
  /\ \/ Swap(request, "disconnected") /\ Goto(request, "join")
     \/ ReplaceNothing /\ Goto(request, "clear")
  /\ UNCHANGED <<status, label, signedIn, phase, stopping, crossed>>

Stopped(request) ==
  /\ At(request, "join")
  /\ Join(request)
  /\ Goto(request, "clear")
  /\ UNCHANGED <<status, current, run, label, signedIn, phase, stopping, crossed>>

ClearLabel(request) ==
  /\ At(request, "clear")
  /\ label' = 0
  /\ Goto(request, act[request].kind)
  /\ UNCHANGED <<status, change, current, run, signedIn, phase, stopping, crossed>>

-----------------------------------------------------------------------------
(***************************************************************************)
(* startCodexLogin, waitForLogin and finishLogout.                         *)
(***************************************************************************)
StartSession(request) ==
  /\ At(request, "login")
  /\ \/ status' = "waiting" /\ Goto(request, "wait")
     \/ status' = "error" /\ Goto(request, "done")
  /\ UNCHANGED <<change, current, run, label, signedIn, phase, stopping, crossed>>

\* The user has signed in, or some other account stays in the profile.
LoginDone(request) ==
  /\ At(request, "wait")
  /\ signedIn' = TRUE
  /\ Goto(request, "publish")
  /\ UNCHANGED <<status, change, current, run, label, phase, stopping, crossed>>

LoginFails(request) ==
  /\ At(request, "wait")
  /\ signedIn' \in {signedIn, TRUE}
  /\ status' = "error" /\ Goto(request, "done")
  /\ UNCHANGED <<change, current, run, label, phase, stopping, crossed>>

LoginCancelled(request) ==
  /\ At(request, "wait") /\ phase # "up"
  /\ Goto(request, "done")
  /\ UNCHANGED <<status, change, current, run, label, signedIn, phase, stopping, crossed>>

\* "Publish the state first, then start the collector outside a.mu".
Publish(request) ==
  /\ At(request, "publish")
  /\ IF phase # "up" THEN UNCHANGED status /\ Goto(request, "done")
     ELSE status' = "connected" /\ Goto(request, "enable")
  /\ UNCHANGED <<change, current, run, label, signedIn, phase, stopping, crossed>>

Enable(request) ==
  /\ At(request, "enable")
  /\ \/ Swap(request, "collecting") /\ Goto(request, "joinNew")
     \/ ReplaceNothing /\ Goto(request, "done")
  /\ UNCHANGED <<status, label, signedIn, phase, stopping, crossed>>

Enabled(request) ==
  /\ At(request, "joinNew")
  /\ Join(request)
  /\ run' = [run EXCEPT ![current].pc = "start"]
  /\ Goto(request, "done")
  /\ UNCHANGED <<status, current, label, signedIn, phase, stopping, crossed>>

SignOut(request) ==
  /\ At(request, "logout")
  /\ \/ signedIn' = FALSE /\ status' = "disconnected"
     \/ signedIn' \in {signedIn, FALSE} /\ status' = "error"
  /\ Goto(request, "done")
  /\ UNCHANGED <<change, current, run, label, phase, stopping, crossed>>

-----------------------------------------------------------------------------
(***************************************************************************)
(* codexLoop of run n.  The context is looked at before a result is used;  *)
(* a report that has passed this point comes even if it is cancelled now.  *)
(***************************************************************************)
Running(n, pc) == run[n].pc = pc
Becomes(n, pc) == run' = [run EXCEPT ![n].pc = pc]

\* A login may also have expired.
Possible == {"error", "auth"} \cup (IF signedIn THEN {"changed"} ELSE {})

\* Start reads the account; it may succeed just before it is cancelled.
StartSucceeds(n) ==
  /\ Running(n, "start") /\ signedIn
  /\ Becomes(n, "label")
  /\ UNCHANGED <<status, act, change, current, label, signedIn, phase, stopping, crossed>>

SetLabel(n) ==
  /\ Running(n, "label")
  /\ label' = n
  /\ Becomes(n, "read")
  /\ UNCHANGED <<status, act, change, current, signedIn, phase, stopping, crossed>>

\* mutant: the page does not learn that Start has failed
ResultUnreported(n, outcome) ==
  /\ ~Cancelled(n)
  /\ run' = [run EXCEPT ![n] = [@ EXCEPT !.model = outcome,
               !.pc = IF run[n].pc = "start" THEN "done" ELSE "report",
               !.last = outcome \in {"auth", "changed"}]]
  /\ UNCHANGED <<status, act, change, current, label, signedIn, phase, stopping, crossed>>

\* The model is updated; the run ends with its report after a failed Start and
\* when the account is gone or another one.
Result(n, outcome) ==
  /\ ~Cancelled(n)
  /\ run' = [run EXCEPT ![n] = [@ EXCEPT !.pc = "report", !.model = outcome,
               !.last = (run[n].pc = "start" \/ outcome \in {"auth", "changed"})]]
  /\ UNCHANGED <<status, act, change, current, label, signedIn, phase, stopping, crossed>>

StartFails(n) ==
  /\ Running(n, "start")
  /\ \E outcome \in Possible \ {"changed"} : Result(n, outcome)

Read(n) ==
  /\ Running(n, "read")
  /\ \E outcome \in Possible \cup (IF signedIn THEN {"ok"} ELSE {}) : Result(n, outcome)

Page(outcome) ==
  CASE outcome = "ok" -> "connected"
    [] outcome = "auth" -> "disconnected"
    [] outcome \in {"changed", "error"} -> "error"

\* mutant: a report is taken while a request is in progress
ObservedAlways(outcome) == status' = IF stopping THEN status ELSE Page(outcome)

\* observedCodex: a request in progress owns the page.
Observed(outcome) ==
  status' = IF stopping \/ status \in Busy THEN status ELSE Page(outcome)

Report(n) ==
  /\ Running(n, "report")
  /\ Observed(run[n].model)
  /\ Becomes(n, IF run[n].last THEN "done" ELSE "wait")
  /\ UNCHANGED <<act, change, current, label, signedIn, phase, stopping, crossed>>

Poll(n) ==
  /\ Running(n, "wait") /\ ~Cancelled(n)
  /\ Becomes(n, "read")
  /\ UNCHANGED <<status, act, change, current, label, signedIn, phase, stopping, crossed>>

\* mutant: a read is not given up when the context is cancelled
QuitBetweenReads(n) ==
  /\ run[n].pc \in {"start", "wait"} /\ Cancelled(n)
  /\ Becomes(n, "done")
  /\ UNCHANGED <<status, act, change, current, label, signedIn, phase, stopping, crossed>>

Quit(n) ==
  /\ run[n].pc \in {"start", "read", "wait"} /\ Cancelled(n)
  /\ Becomes(n, "done")
  /\ UNCHANGED <<status, act, change, current, label, signedIn, phase, stopping, crossed>>

-----------------------------------------------------------------------------
(***************************************************************************)
(* The end.  The context is cancelled and the server drained for 5 s;      *)
(* app.close refuses requests and waits for handlers and workers; then     *)
(* Sources.Close waits for the collector.  On Windows the tray waits 5 s   *)
(* for all this, and its caller closes the sources whatever still runs.    *)
(***************************************************************************)
Cancel ==
  /\ phase = "up" /\ phase' = "cancelled"
  /\ UNCHANGED <<status, act, change, current, run, label, signedIn, stopping, crossed>>

\* The listener has failed: nothing is drained before app.close.
ServeFails ==
  /\ phase = "up" /\ phase' = "cancelled" /\ stopping' = TRUE
  /\ UNCHANGED <<status, act, change, current, run, label, signedIn, crossed>>

RefuseRequests ==
  /\ phase # "up" /\ ~stopping /\ stopping' = TRUE
  /\ UNCHANGED <<status, act, change, current, run, label, signedIn, phase, crossed>>

BeginClosing ==
  /\ phase = "cancelled" /\ change = Nobody
  /\ phase' = "closing" /\ change' = Closer
  /\ UNCHANGED <<status, act, current, run, label, signedIn, stopping, crossed>>

CloseSources ==
  /\ stopping /\ \A request \in Requests : Quiet(request)
  /\ BeginClosing

TrayGivesUp == BeginClosing

Closed ==
  /\ phase = "closing" /\ ~Live(current)
  /\ phase' = "closed" /\ change' = Nobody
  /\ UNCHANGED <<status, act, current, run, label, signedIn, stopping, crossed>>

Step(request) ==
  \/ Stop(request) \/ Stopped(request) \/ ClearLabel(request)
  \/ StartSession(request) \/ LoginDone(request) \/ LoginFails(request)
  \/ LoginCancelled(request) \/ Publish(request) \/ Enable(request)
  \/ Enabled(request) \/ SignOut(request)

Collect(n) ==
  \/ StartSucceeds(n) \/ SetLabel(n) \/ StartFails(n) \/ Read(n)
  \/ Report(n) \/ Poll(n) \/ Quit(n)

Ending ==
  Cancel \/ ServeFails \/ RefuseRequests \/ CloseSources \/ TrayGivesUp \/ Closed

Next ==
  \/ \E request \in Requests : Login(request) \/ Logout(request) \/ Step(request)
  \/ \E n \in Serials : Collect(n)
  \/ Ending

Spec == Init /\ [][Next]_vars

\* Goroutines run; every call they make has a time limit.  The program ends
\* without the help of the tray's limit.
FairSpec ==
  /\ Spec
  /\ \A request \in Requests : WF_vars(Step(request))
  /\ \A n \in Serials : WF_vars(Collect(n))
  /\ WF_vars(RefuseRequests) /\ WF_vars(CloseSources) /\ WF_vars(Closed)
-----------------------------------------------------------------------------
ActPhases == {"new", "stop", "join", "clear", "login", "wait", "publish",
              "enable", "joinNew", "logout", "done"}
RunPhases == {"start", "label", "read", "report", "wait", "done"}

\* The type invariant; no label is newer than the current run.
TypeOK ==
  /\ status \in Busy \cup {"disconnected", "connected", "error"}
  /\ act \in [Requests -> [pc : ActPhases, kind : {"none", "login", "logout"}]]
  /\ change \in Requests \cup {Nobody, Closer}
  /\ current \in Serials /\ label \in 0..current
  /\ run \in [Serials -> [pc : RunPhases, cancelled : BOOLEAN, last : BOOLEAN,
                         model : {"disconnected", "collecting"} \cup Outcomes]]
  /\ phase \in {"up", "cancelled", "closing", "closed"} /\ stopping \in BOOLEAN
  /\ signedIn \in BOOLEAN /\ crossed \in BOOLEAN

\* However requests and the end of the program overlap, no two collectors run
\* at once: a new one starts only when the retired one has ended.  When the
\* sources are closed none runs any more.
OneCollector ==
  /\ \A m, n \in Serials : Live(m) /\ Live(n) => m = n
  /\ phase = "closed" => \A n \in Serials : ~Live(n)

\* While a login or a logout works on the dedicated profile, no collector reads
\* it.  Histories in which a request was accepted before the one that published
\* "connected" had started its collector are left out, here and at rest: nothing
\* in the repository says what should become of that collector.
ProfileIsExclusive ==
  ~crossed =>
    \A request \in Requests :
      act[request].pc \in {"login", "wait", "logout"} => \A n \in Serials : ~Live(n)

\* Between requests the page says what the collector last found, and calls the
\* profile connected only while it is collected from; the label beside the usage
\* is not that of a retired connection.  Crossed requests are left out as above.
Resting ==
  /\ ~crossed /\ phase = "up" /\ run[current].pc # "report"
  /\ \A request \in Requests : Quiet(request)
AgreeAtRest ==
  Resting =>
    /\ run[current].model \in Outcomes => (status = Page(run[current].model))
    /\ (status = "connected") => Live(current)
    /\ label \in {0, current}

\* While a request is in progress no collector changes what the page says.
RequestOwnsPage == [][(status \in Busy /\ status' # status) => ~UNCHANGED act]_vars

\* The program ends from every state in which it is told to.
StopEnds == (phase = "cancelled") ~> (phase = "closed")
=============================================================================
