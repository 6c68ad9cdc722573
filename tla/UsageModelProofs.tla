-------------------------- MODULE UsageModelProofs --------------------------
(***************************************************************************)
(* Proofs about UsageModel for every set of windows, percentages and reset *)
(* times and every freshness limit.                                        *)
(*                                                                         *)
(* The windows of a scope never read each other, so the inductive          *)
(* invariant is a predicate on one window, Sound(w, now), and the lemmas   *)
(* show that each operation of usage.go on a window keeps it.              *)
(***************************************************************************)
EXTENDS UsageModel, TLAPS

Sound(w, now) ==
  /\ w \in WindowState
  /\ w.status = "ok" <=> w.current # NoObs
  /\ w.current # NoObs =>
       /\ w.previous = NoObs
       /\ ~w.current.historical
       /\ w.receivedAt >= 1
  /\ w.lastChangedAt <= w.receivedAt
  /\ w.receivedAt <= now
  /\ Baseline(w) = NoObs \/ Baseline(w).historical => w.receivedAt = 0

AllSound ==
  /\ clock \in 1..MaxTime
  /\ window \in [Windows -> WindowState]
  /\ \A k \in Windows : Sound(window[k], clock)

-----------------------------------------------------------------------------
\* Reset times are positive numbers.
LEMMA ResetNat ==
  ASSUME NEW o \in Observation PROVE o.resetsAt \in Nat \ {0}
BY ModelAssumption DEF Observation

\* A window without any observation is sound in every status but OK.
LEMMA EmptySound ==
  ASSUME NEW status \in Statuses \ {"ok"}, NEW now \in 1..MaxTime
  PROVE  Sound(EmptyWindow(status), now)
<1>1. EmptyWindow(status) \in WindowState
  BY ModelAssumption DEF EmptyWindow, WindowState
<1>2. QED
  BY <1>1, ModelAssumption DEF EmptyWindow, Sound, Baseline

\* accept (usage.go) keeps a window sound.
LEMMA AcceptSound ==
  ASSUME NEW w, NEW o \in Observation, NEW now \in 1..MaxTime, Sound(w, now)
  PROVE  Sound(Accept(w, o, now), now)
<1>0. /\ w \in WindowState /\ o # NoObs /\ o.historical \in BOOLEAN
      /\ o.resetsAt \in Nat /\ now \in Nat /\ MaxTime \in Nat
  <2>1. w \in WindowState
    BY DEF Sound
  <2>2. o # NoObs
    BY ModelAssumption
  <2>3. o.historical \in BOOLEAN /\ o.resetsAt \in Nat
    BY ModelAssumption DEF Observation
  <2>4. now \in Nat /\ MaxTime \in Nat
    BY ModelAssumption
  <2>5. QED
    BY <2>1, <2>2, <2>3, <2>4
<1>1. CASE Ignored(w, o, now)
  BY <1>1 DEF Accept
<1>2. CASE ~Ignored(w, o, now) /\ now >= o.resetsAt
  <2>1. Accept(w, o, now) = RememberExpired(w, o, now)
    BY <1>2, <1>0 DEF Accept
  <2>2. w.current = NoObs /\ w.receivedAt = 0 /\ w.lastChangedAt = 0
    BY <1>0, <1>2 DEF Ignored, Baseline, Sound, WindowState
  <2>3. /\ RememberExpired(w, o, now).current = NoObs
        /\ RememberExpired(w, o, now).previous = o
        /\ RememberExpired(w, o, now).status = "refresh_pending"
        /\ RememberExpired(w, o, now).lastChangedAt = 0
        /\ RememberExpired(w, o, now).receivedAt \in {0, now}
        /\ o.historical => RememberExpired(w, o, now).receivedAt = 0
    BY <1>0, <2>2 DEF RememberExpired, WindowState
  <2>4. RememberExpired(w, o, now) \in WindowState
    <3>1. (IF o.historical THEN w.receivedAt ELSE now) \in 0..MaxTime
      BY <1>0 DEF WindowState
    <3>2. "refresh_pending" \in Statuses
      BY DEF Statuses
    <3>3. QED
      BY <1>0, <3>1, <3>2 DEF RememberExpired, WindowState
  <2>5. QED
    BY <1>0, <2>1, <2>3, <2>4 DEF Sound, Baseline
<1>3. CASE ~Ignored(w, o, now) /\ now < o.resetsAt
  <2>1. Accept(w, o, now) = IF o.historical THEN ImportBaseline(w, o)
                                            ELSE Receive(w, o, now)
    BY <1>3, <1>0 DEF Accept
  <2>2. CASE o.historical
    <3>1. ImportBaseline(w, o) =
            [current |-> NoObs, previous |-> o, receivedAt |-> 0,
             lastChangedAt |-> 0, status |-> "stale"]
      BY DEF ImportBaseline, EmptyWindow
    <3>2. ImportBaseline(w, o) \in WindowState
      BY <1>0, <3>1 DEF WindowState, Statuses
    <3>3. QED
      BY <1>0, <2>1, <2>2, <3>1, <3>2 DEF Sound, Baseline
  <2>3. CASE ~o.historical
    <3>1. w.lastChangedAt \in 0..now
      BY <1>0 DEF Sound, WindowState
    <3>2. Receive(w, o, now) \in WindowState
      BY <1>0, <3>1 DEF Receive, WindowState, Statuses
    <3>3. QED
      BY <1>0, <2>1, <2>3, <3>1, <3>2 DEF Sound, Baseline, Receive
  <2>4. QED
    BY <1>0, <2>2, <2>3
<1>4. QED
  BY <1>0, <1>1, <1>2, <1>3

\* missing (usage.go) keeps a window sound.
LEMMA MissingSound ==
  ASSUME NEW w, NEW now \in 1..MaxTime, Sound(w, now)
  PROVE  Sound(Missing(w, now), now)
<1>1. w \in WindowState
  BY DEF Sound
<1>2. Missing(w, now) \in WindowState
  BY <1>1 DEF Missing, WindowState, Statuses, Baseline
<1>3. CASE Baseline(w) = NoObs
  BY <1>1, <1>2, <1>3 DEF Missing, Sound, Baseline, WindowState
<1>4. CASE Baseline(w) # NoObs
  <2>1. /\ Missing(w, now).current = NoObs
        /\ Missing(w, now).previous = Baseline(w)
        /\ Missing(w, now).status # "ok"
        /\ Missing(w, now).receivedAt = w.receivedAt
        /\ Missing(w, now).lastChangedAt = w.lastChangedAt
    BY <1>1, <1>4 DEF Missing, WindowState
  <2>2. QED
    BY <1>2, <2>1 DEF Sound, Baseline
<1>5. QED
  BY <1>3, <1>4

\* Every error status of Update keeps a window sound.
LEMMA FailSound ==
  ASSUME NEW w, NEW status \in Failures, NEW now \in 1..MaxTime, Sound(w, now)
  PROVE  Sound(Fail(w, status), now)
<1>0. status \in Statuses \ {"ok"}
  BY DEF Failures, Statuses
<1>1. w \in WindowState
  BY DEF Sound
<1>2. CASE status = "disconnected"
  BY <1>0, <1>2, EmptySound DEF Fail
<1>3. CASE status # "disconnected"
  <2>1. Fail(w, status) =
          [current |-> NoObs, previous |-> Baseline(w),
           receivedAt |-> w.receivedAt, lastChangedAt |-> w.lastChangedAt,
           status |-> status]
    BY <1>1, <1>3 DEF Fail, WindowState
  <2>2. Fail(w, status) \in WindowState
    BY <1>0, <1>1, <2>1 DEF WindowState, Baseline
  <2>3. QED
    BY <1>0, <2>1, <2>2 DEF Sound, Baseline
<1>4. QED
  BY <1>2, <1>3

-----------------------------------------------------------------------------
\* Every step of the model keeps every window sound.
LEMMA StepSound == AllSound /\ [Next]_vars => AllSound'
<1> SUFFICES ASSUME AllSound, [Next]_vars PROVE AllSound'
  OBVIOUS
<1>0. MaxTime \in Nat
  BY ModelAssumption
<1>1. ASSUME NEW seen \in SUBSET Windows, NEW historical \in BOOLEAN,
             Succeed(seen, historical)
      PROVE  AllSound'
  <2>1. PICK obs \in [seen -> [used : Used, resetsAt : Resets,
                               historical : {historical}]] :
          window' = [k \in Windows |->
                       IF k \in seen THEN Accept(window[k], obs[k], clock)
                                     ELSE Missing(window[k], clock)]
    BY <1>1 DEF Succeed
  <2>2. ASSUME NEW k \in Windows PROVE Sound(window'[k], clock)
    <3>1. CASE k \in seen
      <4>1. obs[k] \in Observation
        BY <3>1 DEF Observation
      <4>2. QED
        BY <2>1, <3>1, <4>1, AcceptSound DEF AllSound
    <3>2. CASE k \notin seen
      BY <2>1, <3>2, MissingSound DEF AllSound
    <3>3. QED
      BY <3>1, <3>2
  <2>3. clock' = clock
    BY <1>1 DEF Succeed
  <2>4. QED
    BY <2>1, <2>2, <2>3 DEF AllSound, Sound
<1>2. ASSUME NEW status \in Failures, FailWith(status)
      PROVE  AllSound'
  BY <1>2, FailSound DEF FailWith, AllSound, Sound
<1>3. CASE Tick
  BY <1>0, <1>3 DEF Tick, AllSound, Sound, WindowState
<1>4. CASE UNCHANGED vars
  BY <1>4 DEF vars, AllSound, Sound
<1>5. QED
  BY <1>1, <1>2, <1>3, <1>4 DEF Next

\* All windows are sound in every reachable state.
LEMMA AlwaysSound == Spec => []AllSound
<1>1. Init => AllSound
  <2> SUFFICES ASSUME Init PROVE AllSound
    OBVIOUS
  <2>1. PICK status \in {"disconnected", "collecting"} :
          window = [k \in Windows |-> EmptyWindow(status)]
    BY DEF Init
  <2>2. clock \in 1..MaxTime
    BY ModelAssumption DEF Init
  <2>3. Sound(EmptyWindow(status), clock)
    BY <2>2, EmptySound DEF Statuses, Failures
  <2>4. QED
    BY <2>1, <2>2, <2>3 DEF AllSound, Sound
<1>2. QED
  BY <1>1, StepSound, PTL DEF Spec

\* Type correctness of the usage model.
THEOREM TypeCorrect == Spec => []TypeOK
<1>1. AllSound => TypeOK
  BY DEF AllSound, TypeOK
<1>2. QED
  BY <1>1, AlwaysSound, PTL

\* A window is OK exactly while it holds a current value, and never holds a
\* current and a previous value at once.
THEOREM CurrentExactlyOK == Spec => []CurrentIffOK
<1>1. AllSound => CurrentIffOK
  BY DEF AllSound, Sound, CurrentIffOK
<1>2. QED
  BY <1>1, AlwaysSound, PTL

\* An imported or expired value is never shown as current.
THEOREM OnlyLiveShown == Spec => []CurrentIsReceivedAndLive
<1>1. AllSound => CurrentIsReceivedAndLive
  <2> SUFFICES ASSUME AllSound, NEW k \in Windows,
                      Shown(window[k], clock) # NoObs
               PROVE  /\ ~Shown(window[k], clock).historical
                      /\ window[k].receivedAt \in 1..clock
                      /\ clock < Shown(window[k], clock).resetsAt
                      /\ ShownPrevious(window[k], clock) = NoObs
    BY DEF CurrentIsReceivedAndLive
  <2>1. /\ Shown(window[k], clock) = window[k].current
        /\ ~Expired(window[k], clock)
    BY DEF Shown
  <2>2. window[k].current \in Observation /\ window[k].receivedAt \in Nat
    BY <2>1 DEF AllSound, WindowState
  <2>3. window[k].current.resetsAt \in Nat /\ clock \in Nat
    BY <2>2, ResetNat, ModelAssumption DEF AllSound
  <2>4. QED
    BY <2>1, <2>2, <2>3 DEF AllSound, Sound, Expired, ShownPrevious
<1>2. QED
  BY <1>1, AlwaysSound, PTL

\* Receipt and change times never claim more than was observed.
THEOREM HonestTimestamps == Spec => []TimestampsAreHonest
<1>1. AllSound => TimestampsAreHonest
  BY DEF AllSound, Sound, TimestampsAreHonest
<1>2. QED
  BY <1>1, AlwaysSound, PTL

-----------------------------------------------------------------------------
(***************************************************************************)
(* aggregateStatus: the scope shows the status of highest priority among   *)
(* its windows, OK being the lowest.                                       *)
(***************************************************************************)
\* What a sound window shows is one of the nine statuses of the priority list.
LEMMA StatusRanked ==
  ASSUME NEW w, NEW now, Sound(w, now)
  PROVE  \E i \in 1..9 : ShownStatus(w, now) = Priority[i]
<1>1. ShownStatus(w, now) \in Statuses
  BY DEF Sound, ShownStatus, WindowState, Statuses, Failures
<1>2. /\ Priority[1] = "disconnected" /\ Priority[2] = "auth_required"
      /\ Priority[3] = "account_check_required" /\ Priority[4] = "error"
      /\ Priority[5] = "refresh_pending" /\ Priority[6] = "stale"
      /\ Priority[7] = "unavailable" /\ Priority[8] = "collecting"
      /\ Priority[9] = "ok"
  BY DEF Priority
<1>3. 1..9 = {1, 2, 3, 4, 5, 6, 7, 8, 9}
  OBVIOUS
<1>4. QED
  BY <1>1, <1>2, <1>3 DEF Statuses, Failures

\* A scope is OK only if each of its windows shows OK.
LEMMA OKIsUnanimous ==
  ASSUME AllSound, ScopeStatus = "ok", NEW k \in Windows
  PROVE  ShownStatus(window[k], clock) = "ok"
<1> DEFINE shows(i) == \E n \in Windows :
                         ShownStatus(window[n], clock) = Priority[i]
           first == CHOOSE i \in 1..9 :
                      shows(i) /\ \A j \in 1..(i - 1) : ~shows(j)
<1>1. Priority[first] = "ok"
  BY DEF ScopeStatus
<1>2. PICK own \in 1..9 : ShownStatus(window[k], clock) = Priority[own]
  BY StatusRanked DEF AllSound
<1>3. shows(own)
  BY <1>2
<1>4. \E i \in 1..9 : shows(i) /\ \A j \in 1..(i - 1) : ~shows(j)
  <2> HIDE DEF shows
  <2>1. CASE \A j \in 1..4 : ~shows(j)
    BY <1>3, <2>1
  <2>2. CASE \E j \in 1..4 : shows(j)
    BY <2>2
  <2>3. QED
    BY <2>1, <2>2
<1>5. first \in 1..9 /\ \A j \in 1..(first - 1) : ~shows(j)
  <2> HIDE DEF shows
  <2>1. QED
    BY <1>4
<1>6. \A i \in 1..8 : Priority[i] # "ok"
  BY DEF Priority
<1>7. first = 9
  <2> HIDE DEF first
  <2>1. QED
    BY <1>1, <1>5, <1>6
<1>8. own = 9
  <2> HIDE DEF shows, first
  <2>1. QED
    BY <1>2, <1>3, <1>5, <1>7
<1>9. QED
  BY <1>2, <1>8 DEF Priority

\* A scope reads OK only while every window of it shows a current value that
\* is not older than the freshness limit.
THEOREM FreshWhileOK == Spec => []OKIsFresh
<1>1. AllSound => OKIsFresh
  <2> SUFFICES ASSUME AllSound, ScopeStatus = "ok", NEW k \in Windows
               PROVE  /\ Shown(window[k], clock) # NoObs
                      /\ clock - window[k].receivedAt <= StaleAfter
    BY DEF OKIsFresh
  <2>1. ShownStatus(window[k], clock) = "ok"
    BY OKIsUnanimous
  <2>2. /\ ~Expired(window[k], clock)
        /\ ~(window[k].current # NoObs
               /\ clock - window[k].receivedAt > StaleAfter)
        /\ window[k].status = "ok"
    BY <2>1 DEF ShownStatus
  <2>3. window[k].current # NoObs
    BY <2>2 DEF AllSound, Sound
  <2>4. /\ clock \in Int /\ window[k].receivedAt \in Int /\ StaleAfter \in Int
    BY ModelAssumption DEF AllSound, WindowState
  <2>5. QED
    BY <2>2, <2>3, <2>4 DEF Shown
<1>2. QED
  BY <1>1, AlwaysSound, PTL

-----------------------------------------------------------------------------
(***************************************************************************)
(* The history of a window: what one operation may do to its baseline.     *)
(***************************************************************************)
Forward(w, w2, now) ==
  Baseline(w) # NoObs =>
    /\ Baseline(w2) # NoObs
    /\ Baseline(w2).resetsAt >= Baseline(w).resetsAt
    /\ now >= Baseline(w).resetsAt /\ Shown(w2, now) # NoObs =>
         Shown(w2, now).resetsAt > Baseline(w).resetsAt

\* The baseline of a sound window is an observation.
LEMMA BaselineType ==
  ASSUME NEW w \in WindowState, Baseline(w) # NoObs
  PROVE  Baseline(w) \in Observation /\ Baseline(w).resetsAt \in Nat \ {0}
<1>1. Baseline(w) \in Observation
  BY DEF Baseline, WindowState
<1>2. QED
  BY <1>1, ResetNat

\* Moving the current value to previous moves a history nowhere.
LEMMA RetiredForward ==
  ASSUME NEW w \in WindowState, NEW w2, NEW now,
         w2.current = NoObs, w2.previous = Baseline(w)
  PROVE  Forward(w, w2, now)
<1>1. Baseline(w2) = Baseline(w) /\ Shown(w2, now) = NoObs
  BY DEF Baseline, Shown, Expired
<1>2. CASE Baseline(w) # NoObs
  BY <1>1, <1>2, BaselineType DEF Forward
<1>3. QED
  BY <1>2 DEF Forward

\* accept moves a window's history forward only.
LEMMA AcceptForward ==
  ASSUME NEW w, NEW o \in Observation, NEW now \in 1..MaxTime, Sound(w, now)
  PROVE  Forward(w, Accept(w, o, now), now)
<1> SUFFICES ASSUME Baseline(w) # NoObs
             PROVE  Forward(w, Accept(w, o, now), now)
  BY DEF Forward
<1>0. /\ w \in WindowState /\ o # NoObs /\ now \in Nat /\ o.resetsAt \in Nat
      /\ o.historical \in BOOLEAN
  BY ModelAssumption, ResetNat DEF Sound, Observation
<1>1. Baseline(w) \in Observation /\ Baseline(w).resetsAt \in Nat
  BY <1>0, BaselineType
<1>2. CASE Ignored(w, o, now)
  <2>1. Accept(w, o, now) = w
    BY <1>2 DEF Accept
  <2>2. CASE w.current = NoObs
    BY <1>1, <2>1, <2>2 DEF Forward, Shown, Expired
  <2>3. CASE w.current # NoObs
    BY <1>0, <1>1, <2>1, <2>3 DEF Forward, Shown, Expired, Baseline
  <2>4. QED
    BY <2>2, <2>3
<1>3. CASE ~Ignored(w, o, now)
  <2>1. /\ now < o.resetsAt /\ ~o.historical
        /\ o.resetsAt >= Baseline(w).resetsAt
        /\ now >= Baseline(w).resetsAt => o.resetsAt > Baseline(w).resetsAt
    BY <1>0, <1>1, <1>3 DEF Ignored, Regresses
  <2>2. Accept(w, o, now) = Receive(w, o, now)
    BY <1>0, <1>3, <2>1 DEF Accept
  <2>3. Receive(w, o, now).current = o
    BY DEF Receive
  <2>4. /\ Baseline(Receive(w, o, now)) = o
        /\ Shown(Receive(w, o, now), now) = o
    BY <1>0, <2>1, <2>3 DEF Baseline, Shown, Expired
  <2>5. QED
    BY <1>0, <2>1, <2>2, <2>4 DEF Forward
<1>4. QED
  BY <1>2, <1>3

\* missing moves a window's history nowhere.
LEMMA MissingForward ==
  ASSUME NEW w, NEW now \in 1..MaxTime, Sound(w, now)
  PROVE  Forward(w, Missing(w, now), now)
<1>1. w \in WindowState
  BY DEF Sound
<1>2. CASE Baseline(w) # NoObs
  <2>1. /\ Missing(w, now).current = NoObs
        /\ Missing(w, now).previous = Baseline(w)
    BY <1>1, <1>2 DEF Missing, WindowState
  <2>2. QED
    BY <1>1, <2>1, RetiredForward
<1>3. QED
  BY <1>2 DEF Forward

\* An error other than a disconnect moves a window's history nowhere.
LEMMA FailForward ==
  ASSUME NEW w, NEW status \in Failures \ {"disconnected"},
         NEW now \in 1..MaxTime, Sound(w, now)
  PROVE  Forward(w, Fail(w, status), now)
<1>1. w \in WindowState
  BY DEF Sound
<1>2. /\ Fail(w, status).current = NoObs
      /\ Fail(w, status).previous = Baseline(w)
  BY <1>1 DEF Fail, WindowState
<1>3. QED
  BY <1>1, <1>2, RetiredForward

\* Every step that does not disconnect moves every history forward or leaves it.
LEMMA StepForward ==
  ASSUME AllSound, Next, ~FailWith("disconnected"), ~Tick
  PROVE  clock' = clock /\ \A k \in Windows : Forward(window[k], window'[k], clock)
<1>1. ASSUME NEW seen \in SUBSET Windows, NEW historical \in BOOLEAN,
             Succeed(seen, historical)
      PROVE  clock' = clock
             /\ \A k \in Windows : Forward(window[k], window'[k], clock)
  <2>1. PICK obs \in [seen -> [used : Used, resetsAt : Resets,
                               historical : {historical}]] :
          window' = [k \in Windows |->
                       IF k \in seen THEN Accept(window[k], obs[k], clock)
                                     ELSE Missing(window[k], clock)]
    BY <1>1 DEF Succeed
  <2>2. ASSUME NEW k \in Windows PROVE Forward(window[k], window'[k], clock)
    <3>1. CASE k \in seen
      <4>1. obs[k] \in Observation
        BY <3>1 DEF Observation
      <4>2. QED
        BY <2>1, <3>1, <4>1, AcceptForward DEF AllSound
    <3>2. CASE k \notin seen
      BY <2>1, <3>2, MissingForward DEF AllSound
    <3>3. QED
      BY <3>1, <3>2
  <2>3. QED
    BY <1>1, <2>2 DEF Succeed
<1>2. ASSUME NEW status \in Failures, FailWith(status)
      PROVE  clock' = clock
             /\ \A k \in Windows : Forward(window[k], window'[k], clock)
  <2>1. status \in Failures \ {"disconnected"}
    BY <1>2
  <2>2. QED
    BY <1>2, <2>1, FailForward DEF FailWith, AllSound
<1>3. QED
  BY <1>1, <1>2 DEF Next

\* A disconnect empties every window.
LEMMA DisconnectEmpties ==
  ASSUME AllSound, FailWith("disconnected"), NEW k \in Windows
  PROVE  /\ clock' = clock
         /\ window'[k] = EmptyWindow("disconnected")
         /\ Baseline(window'[k]) = NoObs
         /\ Shown(window'[k], clock') = NoObs
BY DEF FailWith, Fail, EmptyWindow, Baseline, Shown, Expired

\* The reset history of a connection only moves forward until a disconnect.
THEOREM HistoryKept == Spec => HistoryNeverRegresses
<1>1. AllSound /\ [Next]_vars =>
        [\A k \in Windows :
           Baseline(window[k]) # NoObs =>
             \/ window'[k] = EmptyWindow("disconnected")
             \/ /\ Baseline(window'[k]) # NoObs
                /\ Baseline(window'[k]).resetsAt
                     >= Baseline(window[k]).resetsAt]_vars
  <2> SUFFICES ASSUME AllSound, Next, NEW k \in Windows,
                      Baseline(window[k]) # NoObs
               PROVE  \/ window'[k] = EmptyWindow("disconnected")
                      \/ /\ Baseline(window'[k]) # NoObs
                         /\ Baseline(window'[k]).resetsAt
                              >= Baseline(window[k]).resetsAt
    OBVIOUS
  <2>1. CASE FailWith("disconnected")
    BY <2>1, DisconnectEmpties
  <2>2. CASE Tick
    <3>1. Baseline(window[k]).resetsAt \in Nat
      BY BaselineType DEF AllSound
    <3>2. QED
      BY <2>2, <3>1 DEF Tick
  <2>3. CASE ~FailWith("disconnected") /\ ~Tick
    BY <2>3, StepForward DEF Forward
  <2>4. QED
    BY <2>1, <2>2, <2>3
<1>2. QED
  BY <1>1, AlwaysSound, PTL DEF Spec, HistoryNeverRegresses

-----------------------------------------------------------------------------
\* In a sound window a shown value is the one of the baseline, and unexpired.
LEMMA ShownIsMark ==
  ASSUME NEW w \in WindowState, NEW now \in Nat
  PROVE  /\ ResetOf(Baseline(w)) \in Nat
         /\ ResetOf(Shown(w, now)) \in Nat
         /\ Shown(w, now) # NoObs =>
              /\ Baseline(w) # NoObs /\ Shown(w, now) = Baseline(w)
              /\ ResetOf(Shown(w, now)) = ResetOf(Baseline(w))
              /\ ResetOf(Shown(w, now)) > now
<1>1. ResetOf(Baseline(w)) \in Nat
  BY BaselineType DEF ResetOf
<1>2. ASSUME Shown(w, now) # NoObs
      PROVE  Shown(w, now) = Baseline(w) /\ ~Expired(w, now)
             /\ w.current # NoObs /\ Baseline(w) = w.current
  BY <1>2 DEF Shown, Baseline
<1>3. ASSUME Shown(w, now) # NoObs
      PROVE  ResetOf(Shown(w, now)) > now
  BY <1>2, <1>3, BaselineType DEF Expired, ResetOf
<1>4. QED
  BY <1>1, <1>2, <1>3 DEF ResetOf

\* The usage model implements UsagePromise.
THEOREM PromiseKept == Spec => KeepsPromise
<1>1. Init => Abstract!Start
  BY DEF Init, Abstract!Start, Marks, ShownResets, ResetOf, Baseline, Shown,
         Expired, EmptyWindow
<1>2. AllSound /\ AllSound' /\ [Next]_vars =>
        [Abstract!Pass \/ Abstract!Learn \/ Abstract!Forget]_(Abstract!vars)
  <2> SUFFICES ASSUME AllSound, AllSound', [Next]_vars
               PROVE  \/ Abstract!Pass \/ Abstract!Learn \/ Abstract!Forget
                      \/ UNCHANGED Abstract!vars
    OBVIOUS
  <2>0. /\ clock \in Nat /\ clock' \in Nat
        /\ \A k \in Windows : /\ window[k] \in WindowState
                              /\ window'[k] \in WindowState
    BY DEF AllSound
  <2>1. CASE UNCHANGED vars
    BY <2>1 DEF vars, Abstract!vars, Marks, ShownResets
  <2>2. CASE FailWith("disconnected")
    <3>1. /\ UNCHANGED clock
          /\ Marks' = [k \in Windows |-> 0]
          /\ ShownResets' = [k \in Windows |-> 0]
      BY <2>2, DisconnectEmpties DEF FailWith, Marks, ShownResets, ResetOf
    <3>2. QED
      BY <3>1 DEF Abstract!Forget
  <2>3. CASE Tick
    <3>1. clock' = clock + 1 /\ UNCHANGED window
      BY <2>3 DEF Tick
    <3>2. ASSUME NEW k \in Windows
          PROVE  ResetOf(Shown(window[k], clock + 1)) =
                   IF ResetOf(Shown(window[k], clock)) <= clock + 1
                   THEN 0 ELSE ResetOf(Shown(window[k], clock))
      <4>1. CASE window[k].current = NoObs
        BY <2>0, <4>1 DEF Shown, Expired, ResetOf
      <4>2. CASE window[k].current # NoObs
        <5>1. window[k].current.resetsAt \in Nat \ {0}
          BY <2>0, <4>2, ResetNat DEF WindowState
        <5>2. QED
          BY <2>0, <4>2, <5>1 DEF Shown, Expired, ResetOf
      <4>3. QED
        BY <4>1, <4>2
    <3>3. ShownResets' = [k \in Windows |->
                           IF ShownResets[k] <= clock + 1
                           THEN 0 ELSE ShownResets[k]]
      BY <3>1, <3>2 DEF ShownResets
    <3>4. QED
      BY <3>1, <3>3 DEF Abstract!Pass, Marks
  <2>4. CASE ~FailWith("disconnected") /\ ~Tick /\ Next
    <3>1. /\ clock' = clock
          /\ \A k \in Windows : Forward(window[k], window'[k], clock)
      BY <2>4, StepForward
    <3>2. ASSUME NEW k \in Windows
          PROVE  /\ Marks'[k] >= Marks[k]
                 /\ \/ ShownResets'[k] = 0
                    \/ ShownResets'[k] = Marks'[k] /\ ShownResets'[k] > clock
      <4>1. /\ Marks[k] = ResetOf(Baseline(window[k]))
            /\ Marks'[k] = ResetOf(Baseline(window'[k]))
            /\ ShownResets'[k] = ResetOf(Shown(window'[k], clock))
        BY <3>1 DEF Marks, ShownResets
      <4>2. Marks'[k] >= Marks[k]
        <5>1. ResetOf(Baseline(window'[k])) \in Nat
          BY <2>0, ShownIsMark
        <5>2. QED
          BY <3>1, <4>1, <5>1 DEF Forward, ResetOf
      <4>3. \/ ShownResets'[k] = 0
            \/ ShownResets'[k] = Marks'[k] /\ ShownResets'[k] > clock
        BY <2>0, <4>1, ShownIsMark DEF ResetOf
      <4>4. QED
        BY <4>2, <4>3
    <3>3. Marks' \in [Windows -> Nat] /\ ShownResets' \in [Windows -> Nat]
      BY <2>0, ShownIsMark DEF Marks, ShownResets
    <3>4. QED
      BY <3>1, <3>2, <3>3 DEF Abstract!Learn
  <2>5. QED
    BY <2>1, <2>2, <2>3, <2>4
<1>3. QED
  BY <1>1, <1>2, AlwaysSound, PTL DEF Spec, KeepsPromise, Abstract!Promise

=============================================================================
