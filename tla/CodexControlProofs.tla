------------------------- MODULE CodexControlProofs -------------------------
(***************************************************************************)
(* Proofs about CodexControl for any set of requests and any number of     *)
(* runs.  The argument: Sources.change belongs to one actor, a run that is *)
(* not the current one is alive only while that actor waits for it, and    *)
(* app.status lets one request at a time work on the profile (Exclusive,   *)
(* Apart).  A request hands the profile over: it joins the retired run,    *)
(* takes its label away and publishes "connected" before the next run      *)
(* starts, so that page and collector agree when it rests (Agreed).        *)
(***************************************************************************)
EXTENDS CodexControl, TLAPS

Working == {"stop", "join", "clear", "login", "wait", "publish", "logout"}
Joining == {"join", "joinNew"}

ActRecord == [pc : ActPhases, kind : {"none", "login", "logout"}]
RunRecord == [pc : RunPhases, cancelled : BOOLEAN, last : BOOLEAN,
              model : {"disconnected", "collecting"} \cup Outcomes]

\* A request has a kind once it was accepted.
ActTyped ==
  /\ act \in [Requests -> ActRecord]
  /\ \A request \in Requests :
       act[request].pc # "new" => act[request].kind \in {"login", "logout"}

\* A report has an outcome, and no run is newer than the current one.
RunTyped ==
  /\ run \in [Serials -> RunRecord]
  /\ \A n \in Serials : run[n].pc = "report" => run[n].model \in Outcomes
  /\ \A n \in Serials : Live(n) => n <= current

PlainTyped ==
  /\ status \in Busy \cup {"disconnected", "connected", "error"}
  /\ change \in Requests \cup {Nobody, Closer}
  /\ current \in Serials /\ label \in 0..current
  /\ phase \in {"up", "cancelled", "closing", "closed"} /\ stopping \in BOOLEAN
  /\ signedIn \in BOOLEAN /\ crossed \in BOOLEAN

Typed == ActTyped /\ RunTyped /\ PlainTyped

\* Who holds Sources.change, and which runs may be alive meanwhile.
Exclusive ==
  /\ \A request \in Requests : act[request].pc \in Joining <=> change = request
  /\ change = Closer <=> phase = "closing"
  /\ phase = "closed" => change = Nobody
  /\ \A n \in Serials :
       Live(n) => n = IF change \in Requests THEN current - 1 ELSE current
  /\ phase = "closed" => \A n \in Serials : ~Live(n)

\* app.status keeps requests apart until one is accepted behind a request that
\* has published "connected" and still has to start its collector.
Apart ==
  /\ \A request \in Requests : act[request].pc \in Working => status \in Busy
  /\ \A r, s \in Requests :
       act[r].pc \in Working /\ act[s].pc \in Working => r = s
  /\ ~crossed => \A r, s \in Requests : ~Quiet(r) /\ ~Quiet(s) => r = s
  /\ ~crossed =>
       \A request \in Requests :
         act[request].pc \in {"clear", "login", "wait", "logout"} =>
           \A n \in Serials : ~Live(n)

Inv == Typed /\ Exclusive /\ Apart

-----------------------------------------------------------------------------
(***************************************************************************)
(* What the page says.  A request hands the profile over: its retired run  *)
(* is waited for, the label taken away, and the next run starts only after *)
(* the page has said "connected".                                          *)
(***************************************************************************)
Handing == {"login", "wait", "publish", "enable", "joinNew", "logout"}
AllQuiet == \A request \in Requests : Quiet(request)

\* The current run is not cancelled before the end, and a last report is no
\* success.
Honest ==
  /\ ~run[current].cancelled
  /\ phase = "up" => ~stopping
  /\ \A n \in Serials : run[n].pc = "report" /\ run[n].last => run[n].model # "ok"

Says ==
  /\ status \notin Busy
  /\ run[current].pc # "report" /\ run[current].model \in Outcomes =>
       status = Page(run[current].model)
  /\ status = "connected" => Live(current)
  /\ label \in {0, current}

Hands(request) ==
  /\ act[request].pc \in Handing \cup {"join", "clear"} =>
       run[current].model \notin Outcomes
  /\ act[request].pc \in Handing \cup {"clear"} => \A n \in Serials : ~Live(n)
  /\ act[request].pc \in Handing => label = 0
  /\ act[request].pc \in {"enable", "joinNew"} => status = "connected"

Settled == ~crossed /\ phase = "up"

Agreed ==
  /\ Honest
  /\ Settled => (AllQuiet => Says) /\ \A request \in Requests : Hands(request)

-----------------------------------------------------------------------------
\* A step of a request moves this request, and only its position.
LEMMA RequestMoves ==
  ASSUME Inv, NEW request \in Requests, Step(request)
  PROVE  /\ act[request].pc # "new"
         /\ \E pc \in ActPhases \ {"new"} :
              pc # act[request].pc /\ act' = [act EXCEPT ![request].pc = pc]
<1> DEFINE Moved(pc) == pc # act[request].pc /\ act' = [act EXCEPT ![request].pc = pc]
<1> SUFFICES act[request].pc # "new" /\ \E pc \in ActPhases \ {"new"} : Moved(pc)
  OBVIOUS
<1> USE DEF ActPhases, At, Goto
<1>1. CASE Stop(request)
  BY <1>1 DEF Stop
<1>2. CASE Stopped(request)
  BY <1>2 DEF Stopped
<1>3. CASE ClearLabel(request)
  <2>1. act[request].kind \in {"login", "logout"}
    BY <1>3 DEF ClearLabel, Inv, Typed, ActTyped
  <2>2. QED
    BY <1>3, <2>1 DEF ClearLabel
<1>4. CASE StartSession(request)
  BY <1>4 DEF StartSession
<1>5. CASE LoginDone(request)
  BY <1>5 DEF LoginDone
<1>6. CASE LoginFails(request)
  BY <1>6 DEF LoginFails
<1>7. CASE LoginCancelled(request)
  BY <1>7 DEF LoginCancelled
<1>8. CASE Publish(request)
  BY <1>8 DEF Publish
<1>9. CASE Enable(request)
  BY <1>9 DEF Enable
<1>10. CASE Enabled(request)
  BY <1>10 DEF Enabled
<1>11. CASE SignOut(request)
  BY <1>11 DEF SignOut
<1>12. QED
  BY <1>1, <1>2, <1>3, <1>4, <1>5, <1>6, <1>7, <1>8, <1>9, <1>10, <1>11 DEF Step

\* The requests keep their types.
LEMMA StepAct == Inv /\ [Next]_vars => ActTyped'
<1> SUFFICES ASSUME Inv, [Next]_vars PROVE ActTyped'
  OBVIOUS
<1>1. ActTyped
  BY DEF Inv, Typed
<1>2. ASSUME NEW request \in Requests, Login(request) \/ Logout(request)
      PROVE  ActTyped'
  <2>1. PICK kind \in {"login", "logout"} :
          act' = [act EXCEPT ![request] = [pc |-> "stop", kind |-> kind]]
    BY <1>2 DEF Login, Logout, Accept
  <2>2. [pc |-> "stop", kind |-> kind] \in ActRecord
    BY DEF ActRecord, ActPhases
  <2>3. QED
    BY <1>1, <2>1, <2>2 DEF ActTyped
<1>3. ASSUME NEW request \in Requests, Step(request) PROVE ActTyped'
  <2>1. PICK pc \in ActPhases \ {"new"} : act' = [act EXCEPT ![request].pc = pc]
    BY <1>3, RequestMoves
  <2>2. act[request].pc # "new"
    BY <1>3, RequestMoves
  <2>3. [act[request] EXCEPT !.pc = pc] \in ActRecord
    BY <1>1 DEF ActTyped, ActRecord
  <2>4. QED
    BY <1>1, <2>1, <2>2, <2>3 DEF ActTyped, ActRecord
<1>4. ASSUME NEW n \in Serials, Collect(n) PROVE UNCHANGED act
  BY <1>4 DEF Collect, StartSucceeds, SetLabel, StartFails, Read, Result, Report, Poll, Quit
<1>5. CASE Ending \/ UNCHANGED vars
  BY <1>1, <1>5 DEF ActTyped, Ending, Cancel, ServeFails, RefuseRequests,
                   CloseSources, TrayGivesUp, BeginClosing, Closed, vars
<1>6. QED
  BY <1>1, <1>2, <1>3, <1>4, <1>5 DEF Next, ActTyped

\* Sources.replace: every run keeps its state and its type, the new one has not
\* started.
LEMMA Swapped ==
  ASSUME Inv, NEW who, NEW model \in {"disconnected", "collecting"},
         Swap(who, model)
  PROVE  RunTyped'
<1>1. current \in Serials /\ current + 1 \in Serials
  BY ControlAssumption DEF Inv, Typed, PlainTyped, Swap, Serials
<1>2. run \in [Serials -> RunRecord]
  BY DEF Inv, Typed, RunTyped
<1>3. Run("done", model) \in RunRecord
  BY DEF Run, RunRecord, RunPhases
<1>4. PICK retired \in RunRecord :
        /\ retired = [run[current] EXCEPT !.cancelled = TRUE]
        /\ retired.pc = run[current].pc /\ retired.model = run[current].model
  <2>1. run[current] \in RunRecord
    BY <1>1, <1>2
  <2>2. [run[current] EXCEPT !.cancelled = TRUE] \in RunRecord
    BY <2>1 DEF RunRecord
  <2>3. QED
    BY <2>1, <2>2 DEF RunRecord
<1>5. run' = [run EXCEPT ![current] = retired, ![current + 1] = Run("done", model)]
  BY <1>4 DEF Swap
<1>6. run' \in [Serials -> RunRecord]
  BY <1>1, <1>2, <1>3, <1>5
<1>7. \A n \in Serials :
        /\ run'[n].pc = IF n = current + 1 THEN "done" ELSE run[n].pc
        /\ n # current + 1 => run'[n].model = run[n].model
  BY <1>1, <1>2, <1>4, <1>5 DEF Run
<1>8. current' = current + 1
  BY DEF Swap
<1>9. \A n \in Serials : /\ run[n].pc = "report" => run[n].model \in Outcomes
                         /\ run[n].pc # "done" => n <= current
  BY DEF Inv, Typed, RunTyped, Live
<1>10. \A n \in Serials : run'[n].pc = "report" => run'[n].model \in Outcomes
  BY <1>7, <1>9
<1>11. \A n \in Serials : run'[n].pc # "done" => n <= current + 1
  <2>1. \A n \in Serials : n \in Nat /\ current \in Nat
    BY <1>1, ControlAssumption DEF Serials
  <2>2. QED
    BY <1>7, <1>9, <2>1
<1>12. QED
  BY <1>6, <1>8, <1>10, <1>11 DEF RunTyped, Live

\* A result: the run reports an outcome next, the other runs are as before.
LEMMA Reported ==
  ASSUME Inv, NEW n \in Serials, NEW outcome \in Outcomes, Result(n, outcome),
         run[n].pc # "done"
  PROVE  RunTyped'
<1>1. run \in [Serials -> RunRecord]
  BY DEF Inv, Typed, RunTyped
<1>2. PICK record \in RunRecord :
        /\ run' = [run EXCEPT ![n] = record]
        /\ record.pc = "report" /\ record.model = outcome
  <2> DEFINE last == (run[n].pc = "start" \/ outcome \in {"auth", "changed"})
             record == [run[n] EXCEPT !.pc = "report", !.model = outcome, !.last = last]
  <2>1. last \in BOOLEAN
    OBVIOUS
  <2>2. run' = [run EXCEPT ![n] = record]
    BY DEF Result
  <2> HIDE DEF last
  <2>3. run[n] \in RunRecord
    BY <1>1
  <2>4. record \in RunRecord /\ record.pc = "report" /\ record.model = outcome
    BY <2>1, <2>3 DEF RunRecord, RunPhases
  <2>5. QED
    BY <2>2, <2>4
<1>3. run' \in [Serials -> RunRecord]
  BY <1>1, <1>2
<1>4. \A m \in Serials : run'[m] = IF m = n THEN run'[n] ELSE run[m]
  BY <1>1, <1>2
<1>5. run'[n].pc = "report" /\ run'[n].model = outcome
  BY <1>1, <1>2
<1>6. UNCHANGED current
  BY DEF Result
<1>7. QED
  BY <1>3, <1>4, <1>5, <1>6 DEF Inv, Typed, RunTyped, Live

\* A run that is alive or current moves to a position that is no report.
LEMMA RunMoves ==
  ASSUME Inv, NEW n \in Serials, n <= current, NEW pc \in RunPhases \ {"report"},
         run' = [run EXCEPT ![n].pc = pc], UNCHANGED current
  PROVE  RunTyped'
<1>1. run \in [Serials -> RunRecord]
  BY DEF Inv, Typed, RunTyped
<1>2. [run[n] EXCEPT !.pc = pc] \in RunRecord
  BY <1>1 DEF RunRecord
<1>3. run' \in [Serials -> RunRecord]
  BY <1>1, <1>2
<1>4. run'[n].pc = pc /\ \A m \in Serials : m # n => run'[m] = run[m]
  BY <1>1 DEF RunRecord
<1>5. QED
  BY <1>3, <1>4 DEF Inv, Typed, RunTyped, Live

\* The runs keep their types.
LEMMA StepRun == Inv /\ [Next]_vars => RunTyped'
<1> SUFFICES ASSUME Inv, [Next]_vars PROVE RunTyped'
  OBVIOUS
<1>1. RunTyped /\ current \in Serials
  BY DEF Inv, Typed, PlainTyped
<1>2. CASE UNCHANGED <<run, current>>
  BY <1>1, <1>2 DEF RunTyped, Live
<1>3. ASSUME NEW request \in Requests, Login(request) \/ Logout(request)
      PROVE  UNCHANGED <<run, current>>
  BY <1>3 DEF Login, Logout, Accept
<1>4. ASSUME NEW request \in Requests, Step(request) PROVE RunTyped'
  <2>1. CASE Stop(request)
    BY <1>2, <2>1, Swapped DEF Stop, ReplaceNothing
  <2>2. CASE Enable(request)
    BY <1>2, <2>2, Swapped DEF Enable, ReplaceNothing
  <2>3. CASE Enabled(request)
    <3>1. current <= current
      BY <1>1 DEF Serials
    <3>2. "start" \in RunPhases \ {"report"}
      BY DEF RunPhases
    <3>3. run' = [run EXCEPT ![current].pc = "start"] /\ UNCHANGED current
      BY <2>3 DEF Enabled
    <3>4. QED
      BY <1>1, <3>1, <3>2, <3>3, RunMoves
  <2>4. CASE ~(Stop(request) \/ Enable(request) \/ Enabled(request))
    BY <1>2, <1>4, <2>4 DEF Step, Stopped, ClearLabel, StartSession, LoginDone,
                            LoginFails, LoginCancelled, Publish, SignOut
  <2>5. QED
    BY <2>1, <2>2, <2>3, <2>4
<1>5. ASSUME NEW n \in Serials, Collect(n) PROVE RunTyped'
  <2>1. run[n].pc # "done" /\ n <= current
    <3>1. run[n].pc # "done"
      BY <1>5 DEF Collect, StartSucceeds, SetLabel, StartFails, Read, Report, Poll,
                  Quit, Running
    <3>2. QED
      BY <1>1, <3>1 DEF RunTyped, Live
  <2>2. CASE StartFails(n) \/ Read(n)
    <3>1. PICK outcome \in Outcomes : Result(n, outcome)
      BY <2>2 DEF StartFails, Read, Possible, Outcomes
    <3>2. QED
      BY <2>1, <3>1, Reported
  <2>3. CASE ~(StartFails(n) \/ Read(n))
    <3>1. /\ \E pc \in RunPhases \ {"report"} : run' = [run EXCEPT ![n].pc = pc]
          /\ UNCHANGED current
      BY <1>5, <2>3 DEF Collect, StartSucceeds, SetLabel, Report, Poll, Quit, Becomes,
                        RunPhases
    <3>2. QED
      BY <2>1, <3>1, RunMoves
  <2>4. QED
    BY <2>2, <2>3
<1>6. CASE Ending \/ UNCHANGED vars
  BY <1>2, <1>6 DEF Ending, Cancel, ServeFails, RefuseRequests, CloseSources,
                   TrayGivesUp, BeginClosing, Closed, vars
<1>7. QED
  BY <1>2, <1>3, <1>4, <1>5, <1>6 DEF Next

\* The page, the lock, the label and the phase keep their types.
LEMMA StepPlain == Inv /\ [Next]_vars => PlainTyped'
<1> SUFFICES ASSUME Inv, [Next]_vars PROVE PlainTyped'
  OBVIOUS
<1>1. PlainTyped
  BY DEF Inv, Typed
<1> USE ControlAssumption DEF PlainTyped
<1>2. ASSUME NEW request \in Requests, Login(request) \/ Logout(request)
      PROVE  PlainTyped'
  BY <1>1, <1>2 DEF Login, Logout, Accept, Busy
<1>3. ASSUME NEW request \in Requests, Step(request) PROVE PlainTyped'
  <2>1. CASE Stop(request) \/ Enable(request)
    BY <1>1, <2>1 DEF Stop, Enable, Swap, ReplaceNothing, Serials
  <2>2. CASE Stopped(request) \/ Enabled(request)
    BY <1>1, <2>2 DEF Stopped, Enabled, Join
  <2>3. CASE ClearLabel(request)
    BY <1>1, <2>3 DEF ClearLabel, Serials
  <2>4. CASE StartSession(request)
    BY <1>1, <2>4 DEF StartSession, Busy
  <2>5. CASE LoginDone(request) \/ LoginFails(request) \/ LoginCancelled(request)
    BY <1>1, <2>5 DEF LoginDone, LoginFails, LoginCancelled
  <2>6. CASE Publish(request)
    BY <1>1, <2>6 DEF Publish
  <2>7. CASE SignOut(request)
    BY <1>1, <2>7 DEF SignOut
  <2>8. QED
    BY <1>3, <2>1, <2>2, <2>3, <2>4, <2>5, <2>6, <2>7 DEF Step
<1>4. ASSUME NEW n \in Serials, Collect(n) PROVE PlainTyped'
  <2>1. CASE SetLabel(n)
    <3>1. n <= current
      BY <2>1 DEF SetLabel, Running, Inv, Typed, RunTyped, Live
    <3>2. QED
      BY <1>1, <2>1, <3>1 DEF SetLabel, Serials
  <2>2. CASE Report(n)
    <3>1. run[n].model \in Outcomes
      BY <2>2 DEF Report, Running, Inv, Typed, RunTyped
    <3>2. Page(run[n].model) \in {"disconnected", "connected", "error"}
      BY <3>1 DEF Page, Outcomes
    <3>3. status' \in Busy \cup {"disconnected", "connected", "error"}
      BY <1>1, <2>2, <3>2 DEF Report, Observed
    <3>4. QED
      BY <1>1, <2>2, <3>3 DEF Report
  <2>3. CASE ~(SetLabel(n) \/ Report(n))
    BY <1>1, <1>4, <2>3 DEF Collect, StartSucceeds, StartFails, Read, Result, Poll, Quit
  <2>4. QED
    BY <2>1, <2>2, <2>3
<1>5. CASE Ending \/ UNCHANGED vars
  BY <1>1, <1>5 DEF Ending, Cancel, ServeFails, RefuseRequests, CloseSources,
                   TrayGivesUp, BeginClosing, Closed, vars
<1>6. QED
  BY <1>2, <1>3, <1>4, <1>5 DEF Next

-----------------------------------------------------------------------------
\* A request that replaces the source holds Sources.change and waits for the run
\* that was the current one; the run it adds is not alive yet.
LEMMA SwapExclusive ==
  ASSUME Inv, NEW request \in Requests, NEW model, NEW pc \in Joining,
         Swap(request, model), Goto(request, pc), UNCHANGED phase
  PROVE  Exclusive'
<1>1. /\ act \in [Requests -> ActRecord] /\ run \in [Serials -> RunRecord]
      /\ current \in Serials /\ current \in Nat /\ current + 1 \in Serials
      /\ change = Nobody /\ change' = request /\ current' = current + 1
      /\ phase \notin {"closing", "closed"} /\ request # Closer /\ request # Nobody
      /\ Closer # Nobody /\ Nobody \notin Requests
  BY ControlAssumption DEF Inv, Typed, ActTyped, RunTyped, PlainTyped, Swap, Serials
<1>2. \A other \in Requests : act[other].pc \notin Joining
  BY <1>1 DEF Inv, Exclusive
<1>3. /\ act'[request].pc = pc
      /\ \A other \in Requests : other # request => act'[other] = act[other]
  BY <1>1 DEF Goto, ActRecord
<1>4. ASSUME NEW n \in Serials, Live(n)' PROVE n = current
  <2>1. CASE n = current
    BY <2>1
  <2>2. CASE n = current + 1
    <3>1. run'[n].pc = "done"
      BY <1>1, <2>2 DEF Swap, Run
    <3>2. QED
      BY <1>4, <3>1 DEF Live
  <2>3. CASE n # current /\ n # current + 1
    <3>1. run'[n] = run[n]
      BY <1>1, <2>3 DEF Swap
    <3>2. QED
      BY <1>1, <1>4, <2>3, <3>1 DEF Live, Inv, Exclusive
  <2>4. QED
    BY <2>1, <2>2, <2>3
<1>5. \A n \in Serials : Live(n)' => n = current' - 1
  BY <1>1, <1>4
<1>6. \A other \in Requests : act'[other].pc \in Joining <=> change' = other
  BY <1>1, <1>2, <1>3
<1>7. QED
  BY <1>1, <1>5, <1>6 DEF Exclusive

\* Every step keeps Sources.change with one actor, and one collector alive.
LEMMA StepExclusive == Inv /\ [Next]_vars => Exclusive'
<1> SUFFICES ASSUME Inv, [Next]_vars PROVE Exclusive'
  OBVIOUS
<1> USE ControlAssumption
    DEF Inv, Typed, ActTyped, RunTyped, PlainTyped, ActRecord, RunRecord, Exclusive,
        Joining, Live, Quiet, Serials, Busy
<1>1. ASSUME NEW request \in Requests, Login(request) PROVE Exclusive'
  BY <1>1 DEF Login, Accept, At
<1>2. ASSUME NEW request \in Requests, Logout(request) PROVE Exclusive'
  BY <1>2 DEF Logout, Accept, At
<1>3. ASSUME NEW request \in Requests, Stop(request) PROVE Exclusive'
  <2>1. CASE Swap(request, "disconnected")
    <3>1. Goto(request, "join") /\ UNCHANGED phase
      BY <1>3, <2>1 DEF Stop, Swap, ReplaceNothing
    <3>2. QED
      BY <2>1, <3>1, SwapExclusive
  <2>2. CASE ReplaceNothing
    BY <1>3, <2>2 DEF Stop, Swap, ReplaceNothing, Goto, At
  <2>3. QED
    BY <1>3, <2>1, <2>2 DEF Stop
<1>4. ASSUME NEW request \in Requests, Stopped(request) PROVE Exclusive'
  BY <1>4 DEF Stopped, Join, Goto, At
<1>5. ASSUME NEW request \in Requests, ClearLabel(request) PROVE Exclusive'
  BY <1>5 DEF ClearLabel, Goto, At
<1>6. ASSUME NEW request \in Requests, StartSession(request) PROVE Exclusive'
  <2>1. PICK pc \in {"wait", "done"} : act' = [act EXCEPT ![request].pc = pc]
    BY <1>6 DEF StartSession, Goto
  <2>2. act[request].pc = "login" /\ UNCHANGED <<change, current, run, phase>>
    BY <1>6 DEF StartSession, At
  <2>3. QED
    BY <2>1, <2>2
<1>7. ASSUME NEW request \in Requests, LoginDone(request) PROVE Exclusive'
  BY <1>7 DEF LoginDone, Goto, At
<1>8. ASSUME NEW request \in Requests, LoginFails(request) PROVE Exclusive'
  BY <1>8 DEF LoginFails, Goto, At
<1>9. ASSUME NEW request \in Requests, LoginCancelled(request) PROVE Exclusive'
  BY <1>9 DEF LoginCancelled, Goto, At
<1>10. ASSUME NEW request \in Requests, Publish(request) PROVE Exclusive'
  <2>1. CASE phase = "up"
    BY <1>10, <2>1 DEF Publish, Goto, At
  <2>2. CASE ~(phase = "up")
    BY <1>10, <2>2 DEF Publish, Goto, At
  <2>3. QED
    BY <2>1, <2>2
<1>11. ASSUME NEW request \in Requests, Enable(request) PROVE Exclusive'
  <2>1. CASE Swap(request, "collecting")
    <3>1. Goto(request, "joinNew") /\ UNCHANGED phase
      BY <1>11, <2>1 DEF Enable, Swap, ReplaceNothing
    <3>2. QED
      BY <2>1, <3>1, SwapExclusive
  <2>2. CASE ReplaceNothing
    BY <1>11, <2>2 DEF Enable, Swap, ReplaceNothing, Goto, At
  <2>3. QED
    BY <1>11, <2>1, <2>2 DEF Enable
<1>12. ASSUME NEW request \in Requests, Enabled(request) PROVE Exclusive'
  BY <1>12 DEF Enabled, Join, Goto, At
<1>13. ASSUME NEW request \in Requests, SignOut(request) PROVE Exclusive'
  BY <1>13 DEF SignOut, Goto, At
<1>14. ASSUME NEW n \in Serials, StartSucceeds(n) PROVE Exclusive'
  BY <1>14 DEF StartSucceeds, Running, Becomes
<1>15. ASSUME NEW n \in Serials, SetLabel(n) PROVE Exclusive'
  BY <1>15 DEF SetLabel, Running, Becomes
<1>16. ASSUME NEW n \in Serials, StartFails(n) PROVE Exclusive'
  BY <1>16 DEF StartFails, Running, Result, Possible
<1>17. ASSUME NEW n \in Serials, Read(n) PROVE Exclusive'
  BY <1>17 DEF Read, Running, Result, Possible
<1>18. ASSUME NEW n \in Serials, Report(n) PROVE Exclusive'
  BY <1>18 DEF Report, Running, Becomes, Observed, Page
<1>19. ASSUME NEW n \in Serials, Poll(n) PROVE Exclusive'
  BY <1>19 DEF Poll, Running, Becomes
<1>20. ASSUME NEW n \in Serials, Quit(n) PROVE Exclusive'
  BY <1>20 DEF Quit, Becomes
<1>21. CASE Cancel
  BY <1>21 DEF Cancel
<1>22. CASE ServeFails \/ RefuseRequests
  BY <1>22 DEF ServeFails, RefuseRequests
<1>23. CASE CloseSources \/ TrayGivesUp
  BY <1>23 DEF CloseSources, TrayGivesUp, BeginClosing
<1>24. CASE Closed
  BY <1>24 DEF Closed
<1>25. CASE UNCHANGED vars
  BY <1>25 DEF vars
<1>26. QED
  BY <1>1, <1>2, <1>3, <1>4, <1>5, <1>6, <1>7, <1>8, <1>9, <1>10, <1>11, <1>12, <1>13,
     <1>14, <1>15, <1>16, <1>17, <1>18, <1>19, <1>20, <1>21, <1>22, <1>23, <1>24, <1>25 DEF Next, Step,
     Collect, Ending

\* A request is accepted only when no other one works on the profile; if another
\* one still has to start its collector, `crossed` says so.
LEMMA AcceptApart ==
  ASSUME Inv, NEW request \in Requests, NEW kind, NEW busy \in Busy,
         Accept(request, kind, busy)
  PROVE  Apart'
<1> USE DEF Inv, Typed, ActTyped, RunTyped, PlainTyped, ActRecord, Apart, Working
<1>1. /\ status \notin Busy /\ status' = busy /\ act[request].pc = "new"
      /\ act' = [act EXCEPT ![request] = [pc |-> "stop", kind |-> kind]]
      /\ UNCHANGED run
  BY DEF Accept, At
<1>2. \A other \in Requests : act[other].pc \notin Working
  BY <1>1
<1>3. /\ act'[request].pc = "stop"
      /\ \A other \in Requests : other # request => act'[other] = act[other]
  BY <1>1
<1>4. ~crossed' => ~crossed /\ \A other \in Requests : Quiet(other)
  BY <1>2 DEF Accept, Quiet, ActPhases
<1>5. ~crossed' => \A r, s \in Requests : ~Quiet(r)' /\ ~Quiet(s)' => r = s
  BY <1>3, <1>4 DEF Quiet
<1>6. \A r, s \in Requests :
        act'[r].pc \in Working /\ act'[s].pc \in Working => r = s
  BY <1>2, <1>3
<1>7. \A r \in Requests :
        act'[r].pc \notin {"clear", "login", "wait", "logout"}
  BY <1>2, <1>3
<1>8. QED
  BY <1>1, <1>5, <1>6, <1>7

\* A request that stops working on the profile leaves the others apart, and the
\* status is free.
LEMMA LeavesApart ==
  ASSUME Inv, NEW request \in Requests, act[request].pc \in Working,
         NEW pc \in {"done", "enable"},
         act' = [act EXCEPT ![request].pc = pc], UNCHANGED crossed
  PROVE  Apart'
<1>1. act \in [Requests -> ActRecord]
  BY DEF Inv, Typed, ActTyped
<1>2. \A other \in Requests :
        other # request => act[other].pc \notin Working /\ act'[other] = act[other]
  BY <1>1 DEF Inv, Apart
<1>3. act'[request].pc = pc
  BY <1>1 DEF ActRecord
<1>4. \A r \in Requests : act'[r].pc \notin Working
  BY <1>2, <1>3 DEF Working
<1>5. ~crossed => \A other \in Requests : other # request => Quiet(other)
  BY DEF Inv, Apart, Quiet, Working
<1>6. ~crossed' => \A r, s \in Requests : ~Quiet(r)' /\ ~Quiet(s)' => r = s
  BY <1>2, <1>5 DEF Quiet
<1>7. \A r \in Requests : act'[r].pc \notin {"clear", "login", "wait", "logout"}
  BY <1>4 DEF Working
<1>8. QED
  BY <1>4, <1>6, <1>7 DEF Apart

\* Every step keeps the requests apart.
LEMMA StepApart == Inv /\ [Next]_vars => Apart'
<1> SUFFICES ASSUME Inv, [Next]_vars PROVE Apart'
  OBVIOUS
<1> USE ControlAssumption
    DEF Inv, Typed, ActTyped, RunTyped, PlainTyped, ActRecord, RunRecord, Exclusive,
        Apart, Working, Joining, Live, Quiet, Busy, Outcomes
<1>1. ASSUME NEW request \in Requests, Login(request) PROVE Apart'
  <2>1. Accept(request, "login", "starting")
    BY <1>1 DEF Login
  <2>2. "starting" \in Busy
    BY DEF Busy
  <2>3. QED
    BY <2>1, <2>2, AcceptApart
<1>2. ASSUME NEW request \in Requests, Logout(request) PROVE Apart'
  <2>1. Accept(request, "logout", "disconnecting")
    BY <1>2 DEF Logout
  <2>2. "disconnecting" \in Busy
    BY DEF Busy
  <2>3. QED
    BY <2>1, <2>2, AcceptApart
<1>3. ASSUME NEW request \in Requests, Stop(request) PROVE Apart'
  <2>1. CASE Swap(request, "disconnected") /\ Goto(request, "join")
    BY <1>3, <2>1 DEF Stop, Swap, Run, Goto, At
  <2>2. CASE ReplaceNothing /\ Goto(request, "clear")
    BY <1>3, <2>2 DEF Stop, ReplaceNothing, Goto, At
  <2>3. QED
    BY <1>3, <2>1, <2>2 DEF Stop
<1>4. ASSUME NEW request \in Requests, Stopped(request) PROVE Apart'
  BY <1>4 DEF Stopped, Join, Goto, At
<1>5. ASSUME NEW request \in Requests, ClearLabel(request) PROVE Apart'
  BY <1>5 DEF ClearLabel, Goto, At
<1>6. ASSUME NEW request \in Requests, StartSession(request) PROVE Apart'
  <2>1. CASE status' = "waiting" /\ Goto(request, "wait")
    BY <1>6, <2>1 DEF StartSession, Goto, At
  <2>2. CASE Goto(request, "done")
    <3>1. act[request].pc \in Working
      BY <1>6 DEF StartSession, At
    <3>2. act' = [act EXCEPT ![request].pc = "done"] /\ UNCHANGED crossed
      BY <1>6, <2>2 DEF StartSession, Goto
    <3> HIDE DEF Inv, Working, Apart
    <3>3. QED
      BY <3>1, <3>2, LeavesApart
  <2>3. QED
    BY <1>6, <2>1, <2>2 DEF StartSession
<1>7. ASSUME NEW request \in Requests, LoginDone(request) PROVE Apart'
  BY <1>7 DEF LoginDone, Goto, At
<1>8. ASSUME NEW request \in Requests, LoginFails(request) PROVE Apart'
  <2>1. act[request].pc \in Working
    BY <1>8 DEF LoginFails, At
  <2>2. /\ \E pc \in {"done", "enable"} : act' = [act EXCEPT ![request].pc = pc]
        /\ UNCHANGED crossed
    BY <1>8 DEF LoginFails, Goto
  <2> HIDE DEF Inv, Working, Apart
  <2>3. QED
    BY <2>1, <2>2, LeavesApart
<1>9. ASSUME NEW request \in Requests, LoginCancelled(request) PROVE Apart'
  <2>1. act[request].pc \in Working
    BY <1>9 DEF LoginCancelled, At
  <2>2. /\ \E pc \in {"done", "enable"} : act' = [act EXCEPT ![request].pc = pc]
        /\ UNCHANGED crossed
    BY <1>9 DEF LoginCancelled, Goto
  <2> HIDE DEF Inv, Working, Apart
  <2>3. QED
    BY <2>1, <2>2, LeavesApart
<1>10. ASSUME NEW request \in Requests, Publish(request) PROVE Apart'
  <2>1. act[request].pc \in Working
    BY <1>10 DEF Publish, At
  <2>2. /\ \E pc \in {"done", "enable"} : act' = [act EXCEPT ![request].pc = pc]
        /\ UNCHANGED crossed
    BY <1>10 DEF Publish, Goto
  <2> HIDE DEF Inv, Working, Apart
  <2>3. QED
    BY <2>1, <2>2, LeavesApart
<1>11. ASSUME NEW request \in Requests, Enable(request) PROVE Apart'
  <2>1. CASE Swap(request, "collecting") /\ Goto(request, "joinNew")
    BY <1>11, <2>1 DEF Enable, Swap, Run, Goto, At
  <2>2. CASE ReplaceNothing /\ Goto(request, "done")
    <3>1. act[request].pc = "enable" /\ UNCHANGED <<status, crossed, run>>
      BY <1>11, <2>2 DEF Enable, ReplaceNothing, At
    <3>2. act' = [act EXCEPT ![request].pc = "done"]
      BY <2>2 DEF Goto
    <3>3. /\ act'[request].pc = "done"
          /\ \A other \in Requests : other # request => act'[other] = act[other]
      BY <3>2
    <3>4. QED
      BY <3>1, <3>3
  <2>3. QED
    BY <1>11, <2>1, <2>2 DEF Enable
<1>12. ASSUME NEW request \in Requests, Enabled(request) PROVE Apart'
  BY <1>12 DEF Enabled, Join, Goto, At
<1>13. ASSUME NEW request \in Requests, SignOut(request) PROVE Apart'
  <2>1. act[request].pc \in Working
    BY <1>13 DEF SignOut, At
  <2>2. /\ \E pc \in {"done", "enable"} : act' = [act EXCEPT ![request].pc = pc]
        /\ UNCHANGED crossed
    BY <1>13 DEF SignOut, Goto
  <2> HIDE DEF Inv, Working, Apart
  <2>3. QED
    BY <2>1, <2>2, LeavesApart
<1>14. ASSUME NEW n \in Serials, StartSucceeds(n) PROVE Apart'
  BY <1>14 DEF StartSucceeds, Running, Becomes
<1>15. ASSUME NEW n \in Serials, SetLabel(n) PROVE Apart'
  BY <1>15 DEF SetLabel, Running, Becomes
<1>16. ASSUME NEW n \in Serials, StartFails(n) PROVE Apart'
  BY <1>16 DEF StartFails, Running, Result, Possible
<1>17. ASSUME NEW n \in Serials, Read(n) PROVE Apart'
  BY <1>17 DEF Read, Running, Result, Possible
<1>18. ASSUME NEW n \in Serials, Report(n) PROVE Apart'
  BY <1>18 DEF Report, Running, Becomes, Observed, Page
<1>19. ASSUME NEW n \in Serials, Poll(n) PROVE Apart'
  BY <1>19 DEF Poll, Running, Becomes
<1>20. ASSUME NEW n \in Serials, Quit(n) PROVE Apart'
  BY <1>20 DEF Quit, Becomes
<1>21. CASE Cancel
  BY <1>21 DEF Cancel
<1>22. CASE ServeFails \/ RefuseRequests
  BY <1>22 DEF ServeFails, RefuseRequests
<1>23. CASE CloseSources \/ TrayGivesUp
  BY <1>23 DEF CloseSources, TrayGivesUp, BeginClosing
<1>24. CASE Closed
  BY <1>24 DEF Closed
<1>25. CASE UNCHANGED vars
  BY <1>25 DEF vars
<1>26. QED
  BY <1>1, <1>2, <1>3, <1>4, <1>5, <1>6, <1>7, <1>8, <1>9, <1>10, <1>11, <1>12, <1>13,
     <1>14, <1>15, <1>16, <1>17, <1>18, <1>19, <1>20, <1>21, <1>22, <1>23, <1>24, <1>25 DEF Next, Step,
     Collect, Ending

-----------------------------------------------------------------------------
\* Every step keeps the current run uncancelled and its last report honest.
LEMMA StepHonest == Inv /\ Honest /\ [Next]_vars => Honest'
<1> SUFFICES ASSUME Inv, Honest, [Next]_vars PROVE Honest'
  OBVIOUS
<1> USE ControlAssumption
    DEF Inv, Typed, RunTyped, PlainTyped, RunRecord, Serials, Honest
<1>1. CASE UNCHANGED <<run, current, phase, stopping>>
  BY <1>1
<1>2. ASSUME NEW request \in Requests, Login(request) \/ Logout(request)
      PROVE  Honest'
  BY <1>1, <1>2 DEF Login, Logout, Accept
<1>3. ASSUME NEW request \in Requests, Step(request) PROVE Honest'
  <2>1. ASSUME NEW model, Swap(request, model), UNCHANGED <<phase, stopping>>
        PROVE  Honest'
    <3>1. /\ current \in Serials /\ current + 1 \in Serials /\ current' = current + 1
          /\ run' = [run EXCEPT ![current].cancelled = TRUE,
                                ![current + 1] = Run("done", model)]
      BY <2>1 DEF Swap
    <3>2. run'[current + 1].cancelled = FALSE /\ run'[current + 1].pc = "done"
      BY <3>1 DEF Run
    <3>3. \A n \in Serials :
            n # current + 1 =>
              /\ run'[n].pc = run[n].pc
              /\ run'[n].last = run[n].last
              /\ run'[n].model = run[n].model
      BY <3>1
    <3>4. QED
      BY <2>1, <3>1, <3>2, <3>3
  <2>2. CASE Stop(request) \/ Enable(request)
    BY <1>1, <2>1, <2>2 DEF Stop, Enable, ReplaceNothing
  <2>3. CASE Enabled(request)
    BY <2>3 DEF Enabled
  <2>4. CASE ~(Stop(request) \/ Enable(request) \/ Enabled(request))
    BY <1>1, <1>3, <2>4 DEF Step, Stopped, ClearLabel, StartSession, LoginDone,
                            LoginFails, LoginCancelled, Publish, SignOut
  <2>5. QED
    BY <2>2, <2>3, <2>4
<1>4. ASSUME NEW n \in Serials, Collect(n) PROVE Honest'
  <2>1. CASE StartFails(n) \/ Read(n)
    <3>1. PICK outcome \in Outcomes :
            Result(n, outcome) /\ (run[n].pc = "start" => outcome # "ok")
      BY <2>1 DEF StartFails, Read, Running, Possible, Outcomes
    <3>2. /\ run'[n].cancelled = run[n].cancelled
          /\ run'[n].model = outcome
          /\ run'[n].last = (run[n].pc = "start" \/ outcome \in {"auth", "changed"})
          /\ \A m \in Serials : m # n => run'[m] = run[m]
          /\ UNCHANGED <<current, phase, stopping>>
      BY <3>1 DEF Result
    <3>3. run'[n].last => run'[n].model # "ok"
      BY <3>1, <3>2
    <3>4. QED
      BY <3>2, <3>3
  <2>2. CASE ~(StartFails(n) \/ Read(n))
    BY <1>4, <2>2 DEF Collect, StartSucceeds, SetLabel, Report, Poll, Quit, Becomes
  <2>3. QED
    BY <2>1, <2>2
<1>5. CASE Ending \/ UNCHANGED vars
  BY <1>1, <1>5 DEF Ending, Cancel, ServeFails, RefuseRequests, CloseSources,
                   TrayGivesUp, BeginClosing, Closed, vars
<1>6. QED
  BY <1>2, <1>3, <1>4, <1>5 DEF Next

\* Accepting a request ends the rest; no request that hands the profile over
\* is left behind.
LEMMA AcceptAgreed ==
  ASSUME Inv, Agreed, NEW request \in Requests, NEW kind, NEW busy,
         Accept(request, kind, busy), Settled'
  PROVE  ~AllQuiet' /\ \A r \in Requests : Hands(r)'
<1>1. /\ status \notin Busy /\ act[request].pc = "new"
      /\ act' = [act EXCEPT ![request] = [pc |-> "stop", kind |-> kind]]
      /\ \A other \in Requests : act[other].pc \notin {"enable", "joinNew"}
  BY DEF Accept, At, Settled
<1>2. act \in [Requests -> ActRecord]
  BY DEF Inv, Typed, ActTyped
<1>3. \A other \in Requests :
        act[other].pc \notin Handing \cup {"join", "clear"}
  BY <1>1 DEF Inv, Apart, Working, Handing
<1>4. /\ act'[request].pc = "stop"
      /\ \A other \in Requests : other # request => act'[other] = act[other]
  BY <1>1, <1>2
<1>5. \A other \in Requests :
        act'[other].pc \notin Handing \cup {"join", "clear"}
  BY <1>3, <1>4 DEF Handing
<1>6. QED
  BY <1>4, <1>5 DEF AllQuiet, Quiet, Hands, Handing

\* A step of a request in progress: it alone is in progress, before and, unless
\* it is done, after.
LEMMA OneInProgress ==
  ASSUME Inv, NEW request \in Requests, ~Quiet(request), ~crossed,
         NEW pc, act' = [act EXCEPT ![request].pc = pc]
  PROVE  /\ act'[request].pc = pc
         /\ \A other \in Requests : other # request => Quiet(other) /\ Quiet(other)'
         /\ AllQuiet' <=> pc \in {"new", "done"}
<1>1. act \in [Requests -> ActRecord]
  BY DEF Inv, Typed, ActTyped
<1>2. \A other \in Requests : other # request => Quiet(other)
  BY DEF Inv, Apart
<1>3. act'[request].pc = pc
  BY <1>1 DEF ActRecord
<1>4. \A other \in Requests : other # request => act'[other] = act[other]
  BY <1>1
<1>5. QED
  BY <1>2, <1>3, <1>4 DEF AllQuiet, Quiet

\* What is left to show of such a step: what the request itself has to hand
\* over, and what the page says when it is done.
LEMMA ProgressAgreed ==
  ASSUME Inv, NEW request \in Requests, ~Quiet(request), ~crossed,
         NEW pc \in ActPhases \ {"new"}, act' = [act EXCEPT ![request].pc = pc],
         Hands(request)', pc = "done" => Says'
  PROVE  (AllQuiet' => Says') /\ \A r \in Requests : Hands(r)'
<1>1. \A other \in Requests : other # request => Quiet(other)'
  BY OneInProgress
<1>2. \A other \in Requests : other # request => Hands(other)'
  BY <1>1 DEF Hands, Handing, Quiet
<1>3. AllQuiet' => pc = "done"
  BY OneInProgress
<1>4. QED
  BY <1>2, <1>3

\* While a request is in progress, a step of it keeps the page right.
LEMMA RequestAgreed ==
  ASSUME Inv, Agreed, NEW request \in Requests, Step(request), Settled'
  PROVE  (AllQuiet' => Says') /\ \A r \in Requests : Hands(r)'
<1>1. PICK pc \in ActPhases \ {"new"} : act' = [act EXCEPT ![request].pc = pc]
  BY RequestMoves
<1>2. ~Quiet(request) /\ UNCHANGED <<phase, stopping, crossed>>
  BY DEF Step, Stop, Stopped, ClearLabel, StartSession, LoginDone, LoginFails,
         LoginCancelled, Publish, Enable, Enabled, SignOut, At, Quiet
<1>3. Settled /\ ~crossed /\ phase = "up"
  BY <1>2 DEF Settled
<1>4. act'[request].pc = pc
  BY <1>1, <1>2, <1>3, OneInProgress
<1>0. \A p \in ActPhases : Goto(request, p) => p = pc
  <2>1. act \in [Requests -> ActRecord]
    BY DEF Inv, Typed, ActTyped
  <2>2. ASSUME NEW p, Goto(request, p) PROVE act'[request].pc = p
    BY <2>1, <2>2 DEF Goto, ActRecord
  <2>3. QED
    BY <1>4, <2>2
<1>5. SUFFICES Hands(request)' /\ (pc = "done" => Says')
  BY <1>1, <1>2, <1>3, ProgressAgreed
<1>6. /\ Hands(request)
      /\ current \in Serials /\ \A n \in Serials : run[n].pc # "done" => n <= current
      /\ run \in [Serials -> RunRecord] /\ status \in Busy \cup {"disconnected", "connected", "error"}
  BY <1>3 DEF Agreed, Inv, Typed, RunTyped, PlainTyped, Live
<1> USE DEF At, ActPhases, Handing, Hands, Live
<1>7. CASE Stop(request)
  <2>1. Swap(request, "disconnected") /\ Goto(request, "join")
    BY <1>3, <1>7 DEF Stop, ReplaceNothing
  <2>2. pc = "join"
    BY <1>0, <2>1
  <2>3. run'[current'].model = "disconnected"
    BY <1>6, <2>1, ControlAssumption DEF Swap, Run, Serials
  <2>4. QED
    BY <1>4, <2>2, <2>3 DEF Outcomes
<1>8. CASE Stopped(request)
  <2>1. pc = "clear" /\ UNCHANGED <<current, run>> /\ ~Live(current - 1)
        /\ act[request].pc = "join" /\ change = request
    BY <1>0, <1>8 DEF Stopped, Join
  <2>2. \A n \in Serials : ~Live(n)
    BY <2>1 DEF Inv, Exclusive
  <2>3. QED
    BY <1>4, <1>6, <2>1, <2>2
<1>9. CASE ClearLabel(request)
  <2>1. act[request].kind \in {"login", "logout"} /\ act[request].pc = "clear"
    BY <1>9 DEF ClearLabel, Inv, Typed, ActTyped
  <2>2. pc \in {"login", "logout"} /\ label' = 0 /\ UNCHANGED <<current, run>>
    BY <1>0, <1>9, <2>1 DEF ClearLabel
  <2>3. QED
    BY <1>4, <1>6, <2>1, <2>2
<1>10. CASE StartSession(request)
  <2>1. /\ act[request].pc = "login" /\ UNCHANGED <<current, run, label>>
        /\ \/ pc = "wait"
           \/ pc = "done" /\ status' = "error"
    BY <1>0, <1>10 DEF StartSession
  <2>2. QED
    BY <1>4, <1>6, <2>1 DEF Says, Busy
<1>11. CASE LoginDone(request)
  BY <1>0, <1>4, <1>6, <1>11 DEF LoginDone
<1>12. CASE LoginFails(request)
  <2>1. /\ act[request].pc = "wait" /\ UNCHANGED <<current, run, label>>
        /\ pc = "done" /\ status' = "error"
    BY <1>0, <1>12 DEF LoginFails
  <2>2. QED
    BY <1>4, <1>6, <2>1 DEF Says, Busy
<1>13. CASE Publish(request)
  <2>1. /\ act[request].pc = "publish" /\ UNCHANGED <<current, run, label>>
        /\ pc = "enable" /\ status' = "connected"
    BY <1>0, <1>3, <1>13 DEF Publish
  <2>2. QED
    BY <1>4, <1>6, <2>1
<1>14. CASE Enable(request)
  <2>1. /\ Swap(request, "collecting") /\ pc = "joinNew"
        /\ act[request].pc = "enable" /\ UNCHANGED <<status, label>>
    BY <1>0, <1>3, <1>14 DEF Enable, ReplaceNothing
  <2>2. run'[current'].model = "collecting"
    BY <1>6, <2>1, ControlAssumption DEF Swap, Run, Serials
  <2>3. \A n \in Serials : run'[n].pc = "done"
    BY <1>6, <2>1, ControlAssumption DEF Swap, Run, Serials, RunRecord
  <2>4. QED
    BY <1>4, <1>6, <2>1, <2>2, <2>3 DEF Outcomes
<1>15. CASE Enabled(request)
  <2>1. /\ pc = "done" /\ act[request].pc = "joinNew"
        /\ run' = [run EXCEPT ![current].pc = "start"]
        /\ UNCHANGED <<status, current, label>>
    BY <1>0, <1>15 DEF Enabled
  <2>2. run'[current].pc = "start" /\ run'[current].model = run[current].model
    BY <1>6, <2>1 DEF RunRecord
  <2>3. QED
    BY <1>4, <1>6, <2>1, <2>2 DEF Says, Busy
<1>16. CASE SignOut(request)
  <2>1. /\ act[request].pc = "logout" /\ UNCHANGED <<current, run, label>>
        /\ pc = "done" /\ status' \in {"disconnected", "error"}
    BY <1>0, <1>16 DEF SignOut
  <2>2. QED
    BY <1>4, <1>6, <2>1 DEF Says, Busy
<1>17. CASE LoginCancelled(request)
  BY <1>3, <1>17 DEF LoginCancelled
<1>18. QED
  BY <1>7, <1>8, <1>9, <1>10, <1>11, <1>12, <1>13, <1>14, <1>15, <1>16, <1>17 DEF Step

\* A collector that is alive is the retired one of a request that waits for it,
\* or the current one; no request hands the profile over meanwhile.
LEMMA AliveAgreed ==
  ASSUME Inv, Agreed, Settled, NEW n \in Serials, Live(n)
  PROVE  /\ \A r \in Requests : act[r].pc \notin Handing \cup {"clear"}
         /\ (\E r \in Requests : act[r].pc = "join") => n # current
         /\ AllQuiet => n = current
<1>1. \A r \in Requests : act[r].pc \notin Handing \cup {"clear"}
  BY DEF Agreed, Hands
<1>2. ASSUME NEW r \in Requests, act[r].pc = "join" PROVE n # current
  <2>1. change = r
    BY <1>2 DEF Inv, Exclusive, Joining
  <2>2. n = current - 1 /\ current \in Nat
    BY <2>1, ControlAssumption DEF Inv, Exclusive, Typed, PlainTyped, Serials
  <2>3. QED
    BY <2>2
<1>3. ASSUME AllQuiet PROVE n = current
  <2>1. change \notin Requests
    BY <1>3 DEF AllQuiet, Quiet, Inv, Exclusive, Joining
  <2>2. QED
    BY <2>1 DEF Inv, Exclusive
<1>4. QED
  BY <1>1, <1>2, <1>3

\* Whatever the collector does, the page follows what it reports.
LEMMA CollectAgreed ==
  ASSUME Inv, Agreed, NEW n \in Serials, Collect(n), Settled'
  PROVE  (AllQuiet' => Says') /\ \A r \in Requests : Hands(r)'
<1>1. Live(n) /\ UNCHANGED <<act, current, crossed, phase, stopping>>
  BY DEF Collect, StartSucceeds, SetLabel, StartFails, Read, Result, Report, Poll,
         Quit, Running, Live
<1>2. Settled
  BY <1>1 DEF Settled
<1>3. run \in [Serials -> RunRecord] /\ current \in Serials
  BY DEF Inv, Typed, RunTyped, PlainTyped
<1>4. \A m \in Serials : m # n => run'[m] = run[m]
  BY <1>3 DEF Collect, StartSucceeds, SetLabel, StartFails, Read, Result, Report, Poll,
              Quit, Becomes
<1>5. ASSUME NEW r \in Requests PROVE Hands(r)'
  <2>1. act'[r].pc \notin Handing \cup {"clear"}
    BY <1>1, <1>2, AliveAgreed
  <2>2. CASE act[r].pc = "join"
    BY <1>1, <1>2, <1>3, <1>4, <2>1, <2>2, AliveAgreed DEF Hands, Handing, Agreed
  <2>3. CASE act[r].pc # "join"
    BY <1>1, <2>1, <2>3 DEF Hands, Handing
  <2>4. QED
    BY <2>2, <2>3
<1>6. ASSUME AllQuiet' PROVE Says'
  <2>1. AllQuiet
    BY <1>1, <1>6 DEF AllQuiet, Quiet
  <2>2. n = current /\ Says
    BY <1>1, <1>2, <2>1, AliveAgreed DEF Agreed
  <2>3. run[n] \in RunRecord /\ ~run[n].cancelled /\ phase = "up" /\ ~stopping
    BY <1>2, <1>3, <2>2 DEF Agreed, Honest, Settled
  <2> USE DEF Says, Live, RunRecord
  <2>4. CASE StartSucceeds(n)
    BY <2>2, <2>3, <2>4, <1>3 DEF StartSucceeds, Running, Becomes, Outcomes
  <2>5. CASE SetLabel(n)
    BY <2>2, <2>3, <2>5, <1>3 DEF SetLabel, Running, Becomes
  <2>6. CASE StartFails(n) \/ Read(n)
    <3>1. PICK outcome : Result(n, outcome)
      BY <2>6 DEF StartFails, Read
    <3>2. run'[n].pc = "report" /\ UNCHANGED <<status, current, label>>
      <4>1. run' = [run EXCEPT ![n] = [@ EXCEPT !.pc = "report", !.model = outcome,
                      !.last = (run[n].pc = "start" \/ outcome \in {"auth", "changed"})]]
        BY <3>1 DEF Result
      <4>2. run'[n] = [run[n] EXCEPT !.pc = "report", !.model = outcome,
                      !.last = (run[n].pc = "start" \/ outcome \in {"auth", "changed"})]
        BY <1>3, <4>1
      <4>3. run'[n].pc = "report"
        BY <2>3, <4>2, Zenon
      <4>4. QED
        BY <3>1, <4>3 DEF Result
    <3>3. QED
      BY <2>2, <3>2
  <2>7. CASE Report(n)
    <3>1. run[n].pc = "report" /\ run[n].model \in Outcomes
      BY <2>7 DEF Report, Running, Inv, Typed, RunTyped
    <3>2. /\ status' = Page(run[n].model) /\ UNCHANGED <<current, label>>
          /\ run'[n].model = run[n].model
          /\ run'[n].pc = IF run[n].last THEN "done" ELSE "wait"
      BY <1>3, <2>2, <2>3, <2>7 DEF Report, Observed, Becomes
    <3>3. status' \notin Busy /\ (status' = "connected" => run[n].model = "ok")
      BY <3>1, <3>2 DEF Page, Busy, Outcomes
    <3>4. run[n].model = "ok" => ~run[n].last
      BY <3>1 DEF Agreed, Honest
    <3>5. QED
      BY <2>2, <3>2, <3>3, <3>4
  <2>8. CASE Poll(n)
    BY <2>2, <2>3, <2>8, <1>3 DEF Poll, Running, Becomes
  <2>9. CASE Quit(n)
    BY <2>3, <2>9 DEF Quit, Cancelled
  <2>10. QED
    BY <2>4, <2>5, <2>6, <2>7, <2>8, <2>9 DEF Collect
<1>7. QED
  BY <1>5, <1>6

\* Every step keeps the page right.
LEMMA StepAgreed == Inv /\ Agreed /\ [Next]_vars => Agreed'
<1> SUFFICES ASSUME Inv, Agreed, [Next]_vars, Settled'
             PROVE  (AllQuiet' => Says') /\ \A r \in Requests : Hands(r)'
  BY StepHonest DEF Agreed
<1>1. ASSUME NEW request \in Requests, Login(request) \/ Logout(request)
      PROVE  ~AllQuiet' /\ \A r \in Requests : Hands(r)'
  BY <1>1, AcceptAgreed DEF Login, Logout
<1>2. ASSUME NEW request \in Requests, Step(request)
      PROVE  (AllQuiet' => Says') /\ \A r \in Requests : Hands(r)'
  BY <1>2, RequestAgreed
<1>3. ASSUME NEW n \in Serials, Collect(n)
      PROVE  (AllQuiet' => Says') /\ \A r \in Requests : Hands(r)'
  BY <1>3, CollectAgreed
<1>4. ~Ending
  BY DEF Ending, Settled, Cancel, ServeFails, RefuseRequests, CloseSources,
         TrayGivesUp, BeginClosing, Closed
<1>5. CASE UNCHANGED vars
  BY <1>5 DEF vars, Agreed, Settled, AllQuiet, Quiet, Says, Hands, Live
<1>6. QED
  BY <1>1, <1>2, <1>3, <1>4, <1>5 DEF Next


-----------------------------------------------------------------------------
\* At the start the first collector runs alone and no request was made.
LEMMA StartInv == Init => Inv
<1> SUFFICES ASSUME Init PROVE Inv
  OBVIOUS
<1> USE ControlAssumption DEF Init, Run
<1>1. Typed
  <2>1. 1 \in Serials /\ \A n \in Serials : n \in Nat
    BY DEF Serials
  <2>2. \A n \in Serials :
          /\ run[n] \in RunRecord /\ run[n].pc # "report"
          /\ run[n].pc # "done" => n = 1
    BY <2>1 DEF RunRecord, RunPhases
  <2>3. run \in [Serials -> RunRecord]
    BY <2>2
  <2>4. act \in [Requests -> ActRecord] /\ \A r \in Requests : act[r].pc = "new"
    BY DEF ActRecord, ActPhases
  <2>5. label \in 0..current
    OBVIOUS
  <2>6. PlainTyped
    BY <2>1, <2>5 DEF PlainTyped
  <2>7. QED
    BY <2>1, <2>2, <2>3, <2>4, <2>6 DEF Typed, ActTyped, RunTyped, Live
<1>2. Exclusive
  BY DEF Exclusive, Joining, Quiet, Live, Serials
<1>3. Apart
  BY DEF Apart, Working, Quiet
<1>4. QED
  BY <1>1, <1>2, <1>3 DEF Inv

\* The invariant holds throughout.
LEMMA Invariance == Spec => []Inv
<1>1. Inv /\ [Next]_vars => Inv'
  BY StepAct, StepRun, StepPlain, StepExclusive, StepApart DEF Inv, Typed
<1>2. QED
  BY <1>1, StartInv, PTL DEF Spec

\* The state of the requests, the runs and the page keeps its type, for any set
\* of requests and any number of runs.
THEOREM TypeCorrect == Spec => []TypeOK
<1>1. Inv => TypeOK
  BY DEF Inv, Typed, ActTyped, RunTyped, PlainTyped, ActRecord, RunRecord, TypeOK
<1>2. QED
  BY <1>1, Invariance, PTL

\* However many requests replace the source and whenever the program ends, two
\* collectors never run at once, and none after the sources are closed.
THEOREM NeverTwoCollectors == Spec => []OneCollector
<1>1. Inv => OneCollector
  BY DEF Inv, Exclusive, OneCollector
<1>2. QED
  BY <1>1, Invariance, PTL

\* No collector reads the profile while a login or a logout works on it, unless
\* a request was accepted behind one that had not started its collector yet.
THEOREM ProfileAlone == Spec => []ProfileIsExclusive
<1>1. Inv => ProfileIsExclusive
  BY DEF Inv, Apart, ProfileIsExclusive
<1>2. QED
  BY <1>1, Invariance, PTL

\* At the start nobody has said anything yet.
LEMMA StartAgreed == Init => Agreed
<1> SUFFICES ASSUME Init PROVE Agreed
  OBVIOUS
<1>1. \A n \in Serials : run[n].pc # "report" /\ (n = 1 => run[n] = Run("start", "collecting"))
  BY DEF Init, Run
<1>2. current = 1 /\ 1 \in Serials /\ ~run[current].cancelled
      /\ run[current].model \notin Outcomes /\ run[current].pc = "start"
  BY <1>1, ControlAssumption DEF Init, Run, Serials, Outcomes
<1>3. status = "disconnected" /\ label = 0 /\ phase = "up" /\ ~stopping
      /\ \A r \in Requests : act[r].pc = "new"
  BY DEF Init
<1>4. QED
  BY <1>1, <1>2, <1>3 DEF Agreed, Honest, Says, Hands, Handing, Busy

\* Between requests the page says what the collector last found, calls only a
\* collected profile connected, and shows no label of a retired connection, unless
\* a request was accepted behind one that had not started its collector yet.
THEOREM PageAgrees == Spec => []AgreeAtRest
<1>1. Inv /\ Agreed /\ [Next]_vars => Agreed'
  BY StepAgreed
<1>2. Agreed => AgreeAtRest
  BY DEF Agreed, Settled, AllQuiet, Says, AgreeAtRest, Resting
<1>3. QED
  BY <1>1, <1>2, StartAgreed, Invariance, PTL DEF Spec

\* Only the request in progress changes what the page says.
THEOREM PageOwned == Spec => RequestOwnsPage
<1>1. Inv /\ [Next]_vars => [(status \in Busy /\ status' # status) => ~UNCHANGED act]_vars
  <2> SUFFICES ASSUME Inv, Next, status \in Busy, status' # status PROVE act' # act
    BY DEF vars
  <2>1. act \in [Requests -> ActRecord]
    BY DEF Inv, Typed, ActTyped
  <2>2. ASSUME NEW request \in Requests, Login(request) \/ Logout(request)
        PROVE  act' # act
    BY <2>1, <2>2 DEF Login, Logout, Accept, At
  <2>3. ASSUME NEW request \in Requests, Step(request) PROVE act' # act
    BY <2>1, <2>3, RequestMoves DEF ActRecord
  <2>4. ASSUME NEW n \in Serials, Collect(n) PROVE act' # act
    BY <2>4 DEF Collect, StartSucceeds, SetLabel, StartFails, Read, Result, Report,
                Observed, Poll, Quit
  <2>5. ~Ending
    BY DEF Ending, Cancel, ServeFails, RefuseRequests, CloseSources, TrayGivesUp,
           BeginClosing, Closed
  <2>6. QED
    BY <2>2, <2>3, <2>4, <2>5 DEF Next
<1>2. QED
  BY <1>1, Invariance, PTL DEF Spec, RequestOwnsPage
=============================================================================
