----------------------------- MODULE UsageModel -----------------------------
(***************************************************************************)
(* One scope of usage.Model (internal/usage/usage.go): the rate-limit      *)
(* windows of one provider connection, how provider results and errors     *)
(* change them, and what ViewAt shows of them as time passes.              *)
(*                                                                         *)
(* Every connection gets a model of its own (Sources.replace), so one      *)
(* scope is the whole state a connection ever has.  Model.mu makes each    *)
(* Update one step.  Time is a counter; 0 stands for the zero time.Time.   *)
(* An observation is received at the time of the Update that carries it,   *)
(* as both collectors do.  scopeState.status is never read once the        *)
(* windows exist and is left out.                                          *)
(***************************************************************************)
EXTENDS Integers

CONSTANTS
  Windows,     \* the two displayed windows: five_hour, weekly
  Used,        \* abstract values of UsedPercent
  Resets,      \* the reset times a provider may report
  MaxTime,     \* bound on the clock
  StaleAfter,  \* CodexStaleAfter or ClaudeStaleAfter
  NoObs        \* a nil *Observation

Observation == [used : Used, resetsAt : Resets, historical : BOOLEAN]

ASSUME ModelAssumption ==
  /\ Resets \subseteq Nat \ {0}
  /\ MaxTime \in Nat \ {0}
  /\ StaleAfter \in Nat \ {0}
  /\ NoObs \notin Observation

VARIABLES
  window,      \* scopeState.windows
  clock        \* the time.Now() of the callers

vars == <<window, clock>>

Failures == {"collecting", "disconnected", "account_check_required",
             "auth_required", "error"}
Statuses == Failures \cup {"ok", "stale", "refresh_pending", "unavailable"}

WindowState == [current : Observation \cup {NoObs},
                previous : Observation \cup {NoObs},
                receivedAt : 0..MaxTime,
                lastChangedAt : 0..MaxTime,
                status : Statuses]

EmptyWindow(status) ==
  [current |-> NoObs, previous |-> NoObs, receivedAt |-> 0,
   lastChangedAt |-> 0, status |-> status]

(***************************************************************************)
(* The known reset history of a window, and one observation against it.    *)
(***************************************************************************)
Baseline(w) == IF w.current # NoObs THEN w.current ELSE w.previous

Same(a, b) == a.used = b.used /\ a.resetsAt = b.resetsAt

Regresses(b, o, now) ==
  \/ o.resetsAt < b.resetsAt
  \/ o.resetsAt = b.resetsAt /\ now >= b.resetsAt

\* mutant: a late answer with an earlier reset is taken
IgnoredOnlyExpired(w, o, now) ==
  /\ Baseline(w) # NoObs
  /\ o.historical \/ now >= o.resetsAt

Ignored(w, o, now) ==
  /\ Baseline(w) # NoObs
  /\ \/ Regresses(Baseline(w), o, now)
     \/ o.historical
     \/ now >= o.resetsAt

RememberExpired(w, o, now) ==
  [w EXCEPT !.current = NoObs, !.previous = o, !.status = "refresh_pending",
            !.receivedAt = IF o.historical THEN @ ELSE now]

ImportBaseline(w, o) == [EmptyWindow("stale") EXCEPT !.previous = o]

Receive(w, o, now) ==
  [current |-> o,
   previous |-> NoObs,
   receivedAt |-> now,
   lastChangedAt |-> IF Baseline(w) # NoObs /\ Same(Baseline(w), o)
                     THEN w.lastChangedAt ELSE now,
   status |-> "ok"]

Accept(w, o, now) ==
  CASE Ignored(w, o, now)                        -> w
    [] ~Ignored(w, o, now) /\ now >= o.resetsAt  -> RememberExpired(w, o, now)
    [] ~Ignored(w, o, now) /\ now < o.resetsAt   ->
         IF o.historical THEN ImportBaseline(w, o) ELSE Receive(w, o, now)

\* A successful response that omits the window keeps its value as previous.
Missing(w, now) ==
  IF Baseline(w) = NoObs
  THEN [w EXCEPT !.status = "unavailable"]
  ELSE [w EXCEPT !.previous = Baseline(w),
                 !.current = NoObs,
                 !.status = IF now >= Baseline(w).resetsAt
                            THEN "refresh_pending" ELSE "stale"]

\* An error shows its cause and keeps the reset history; only a disconnect
\* ends the connection's history.
Fail(w, status) ==
  IF status = "disconnected"
  THEN EmptyWindow(status)
  ELSE [w EXCEPT !.previous = Baseline(w),
                 !.current = NoObs,
                 !.status = status]

(***************************************************************************)
(* What ViewAt shows of a window, and the status of the whole scope.       *)
(***************************************************************************)
\* mutant: the instant of the reset still shows the old value
ExpiredLate(w, now) == w.current # NoObs /\ now > w.current.resetsAt

Expired(w, now) == w.current # NoObs /\ now >= w.current.resetsAt

Shown(w, now) == IF Expired(w, now) THEN NoObs ELSE w.current

ShownPrevious(w, now) == IF Expired(w, now) THEN w.current ELSE w.previous

\* mutant: nothing grows stale
ShownStatusUnaged(w, now) == IF Expired(w, now) THEN "refresh_pending" ELSE w.status

ShownStatus(w, now) ==
  IF Expired(w, now) THEN "refresh_pending"
  ELSE IF w.current # NoObs /\ now - w.receivedAt > StaleAfter THEN "stale"
  ELSE w.status

Priority == <<"disconnected", "auth_required", "account_check_required",
              "error", "refresh_pending", "stale", "unavailable",
              "collecting", "ok">>

ScopeStatus ==
  LET shows(i) == \E k \in Windows : ShownStatus(window[k], clock) = Priority[i]
      first == CHOOSE i \in 1..9 : shows(i) /\ \A j \in 1..(i - 1) : ~shows(j)
  IN  Priority[first]

-----------------------------------------------------------------------------
\* Sources.replace creates the scope as disconnected or collecting.
Init ==
  /\ clock = 1
  /\ \E status \in {"disconnected", "collecting"} :
        window = [k \in Windows |-> EmptyWindow(status)]

\* One successful provider result; windows it omits are recorded as missing.
\* A result imported from disk after a restart is historical as a whole.
Succeed(seen, historical) ==
  /\ window' \in
       {[k \in Windows |-> IF k \in seen THEN Accept(window[k], obs[k], clock)
                           ELSE Missing(window[k], clock)] :
          obs \in [seen -> [used : Used, resetsAt : Resets,
                            historical : {historical}]]}
  /\ UNCHANGED clock

FailWith(status) ==
  /\ window' = [k \in Windows |-> Fail(window[k], status)]
  /\ UNCHANGED clock

Tick ==
  /\ clock < MaxTime
  /\ clock' = clock + 1
  /\ UNCHANGED window

Next ==
  \/ \E seen \in SUBSET Windows, historical \in BOOLEAN : Succeed(seen, historical)
  \/ \E status \in Failures : FailWith(status)
  \/ Tick

Spec == Init /\ [][Next]_vars

-----------------------------------------------------------------------------
TypeOK == window \in [Windows -> WindowState] /\ clock \in 1..MaxTime

\* The status OK and a current value come together and leave together, and a
\* window never holds a current and a previous value at once.
CurrentIffOK ==
  \A k \in Windows :
    /\ window[k].status = "ok" <=> window[k].current # NoObs
    /\ window[k].current # NoObs => window[k].previous = NoObs

\* What the display calls a current value was received by this process, from
\* the provider, and its reset time has not passed.  A baseline read from disk
\* (ClaudeHistoricalUpdate) or an expired value is never shown as current.
CurrentIsReceivedAndLive ==
  \A k \in Windows :
    LET shown == Shown(window[k], clock) IN
      shown # NoObs =>
        /\ ~shown.historical
        /\ window[k].receivedAt \in 1..clock
        /\ clock < shown.resetsAt
        /\ ShownPrevious(window[k], clock) = NoObs

\* A scope reads OK only while every window of it shows a value that is not
\* older than the provider's freshness limit, whatever errors, omissions and
\* imports came before (aggregateStatus and ViewAt together).
OKIsFresh ==
  ScopeStatus = "ok" =>
    \A k \in Windows :
      /\ Shown(window[k], clock) # NoObs
      /\ clock - window[k].receivedAt <= StaleAfter

\* Timestamps never claim more than was observed: a window whose history is a
\* file baseline has no receipt time, a value never changed after it was last
\* received, and nothing was received in the future.
TimestampsAreHonest ==
  \A k \in Windows :
    LET w == window[k] IN
      /\ w.lastChangedAt <= w.receivedAt
      /\ w.receivedAt <= clock
      /\ Baseline(w) # NoObs /\ Baseline(w).historical => w.receivedAt = 0

\* The reset history of a connection is only ended by a disconnect: no error,
\* omission, import or late answer makes a window forget its baseline or move
\* to an earlier reset ("keep the reset history of this connection").
HistoryNeverRegresses ==
  [][\A k \in Windows :
       Baseline(window[k]) # NoObs =>
         \/ window'[k] = EmptyWindow("disconnected")
         \/ /\ Baseline(window'[k]) # NoObs
            /\ Baseline(window'[k]).resetsAt >= Baseline(window[k]).resetsAt]_vars

(***************************************************************************)
(* The abstraction: of every window only its baseline's reset time and the *)
(* reset time of the value it shows.                                       *)
(***************************************************************************)
ResetOf(o) == IF o = NoObs THEN 0 ELSE o.resetsAt

Marks == [k \in Windows |-> ResetOf(Baseline(window[k]))]

ShownResets == [k \in Windows |-> ResetOf(Shown(window[k], clock))]

Abstract == INSTANCE UsagePromise
              WITH now <- clock, mark <- Marks, shown <- ShownResets

\* The usage model keeps the promise: each window's reset history only moves
\* forward until a disconnect, and only an unexpired value of the latest known
\* reset is ever shown as current.
KeepsPromise == Abstract!Promise
=============================================================================
