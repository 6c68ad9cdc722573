------------------------- MODULE SensorClientProofs -------------------------
(***************************************************************************)
(* Proofs about SensorClient for every restart delay, sample limit, pipe   *)
(* room and number of request tags.                                        *)
(*                                                                         *)
(* The argument: the loop joins the helper it gives up before it takes     *)
(* another one, and the only answer a helper in use may still owe is the   *)
(* one to the last request, for a sample that fails ends its helper.  So a *)
(* response that is accepted answers the request it is taken for.          *)
(***************************************************************************)
EXTENDS SensorClient, SequenceTheorems, TLAPS

LoopTyped ==
  /\ loop \in {"tick", "start", "sample", "write", "await", "grace", "join", "publish",
               "wait", "leave", "done"}
  /\ helper \in Slots \cup {None}
  /\ ending \in BOOLEAN /\ failed \in BOOLEAN
  /\ canceled \in BOOLEAN /\ healthy \in BOOLEAN
  /\ sampled \in {"no", "mine", "late"} /\ request \in 0..(Tags - 1)
  /\ backoff \in 1..MaxBackoff /\ wait \in 0..MaxBackoff
  /\ published \in {"none", "blank", "failed", "mine", "late"}
  /\ timer \in {"off", "armed", "fired"}

ProcessTyped ==
  /\ child \in [Slots -> {"none", "alive", "dead", "reaped"}]
  /\ reader \in [Slots -> {"none", "reading", "done"}]
  /\ aborted \in [Slots -> BOOLEAN] /\ firing \in [Slots -> BOOLEAN]
  /\ closed \in [Slots -> BOOLEAN]

LinesTyped ==
  /\ line \in [Slots -> Lines \cup {Empty}]
  /\ response \in [Slots -> Lines \cup {Empty, ReadError}]
  /\ asked \in [Slots -> Seq(0..(Tags - 1))] /\ pipe \in [Slots -> Seq(Lines)]

\* The loop has a helper where it works with one, and a process that is not the
\* helper has ended with its reader.
Placed ==
  /\ loop \in {"sample", "write", "await", "grace", "join"} => helper # None
  /\ loop \in {"start", "done"} => helper = None
  /\ \A p \in Slots : p # helper => Ended(p)

\* Process p owes no answer, or owes one, to the last request: on its way to the
\* process, in the pipe, in the reader or in the channel.
NoAnswer(p) == response[p] \in {Empty, ReadError}
Unasked(p) == asked[p] = <<>> /\ pipe[p] = <<>> /\ line[p] = Empty /\ NoAnswer(p)
Reply(good) == [answers |-> request, good |-> good]

OneAsked(p) ==
  \/ Unasked(p)
  \/ asked[p] = <<request>> /\ pipe[p] = <<>> /\ line[p] = Empty /\ NoAnswer(p)
  \/ \E good \in BOOLEAN :
       /\ asked[p] = <<>>
       /\ \/ pipe[p] = <<Reply(good)>> /\ line[p] = Empty /\ NoAnswer(p)
          \/ pipe[p] = <<>> /\ line[p] = Reply(good) /\ NoAnswer(p)
          \/ pipe[p] = <<>> /\ line[p] = Empty /\ response[p] = Reply(good)

Answered ==
  /\ helper # None /\ loop \in {"tick", "publish", "wait", "sample", "write"} =>
       Unasked(helper)
  /\ loop = "await" => OneAsked(helper)

\* A tick without a sample has an error to tell.
Told ==
  /\ sampled \in {"no", "mine"}
  /\ loop = "publish" /\ sampled = "no" => failed
  /\ helper = None /\ wait > 0 /\ ~ending => failed
  /\ ending => loop \in {"grace", "join", "done"}
  /\ published \in {"none", "failed", "mine"}

Inv == LoopTyped /\ ProcessTyped /\ LinesTyped /\ Placed /\ Answered /\ Told

-----------------------------------------------------------------------------
\* Nothing has been started yet.
LEMMA StartInv == Init => Inv
<1> SUFFICES ASSUME Init PROVE Inv
  OBVIOUS
<1> USE SensorAssumption DEF Init, Slots, None
<1>1. LoopTyped
  <2>1. 1 \in 1..MaxBackoff /\ 0 \in 0..MaxBackoff /\ 0 \in 0..(Tags - 1)
    BY SensorAssumption
  <2>2. QED
    BY <2>1 DEF LoopTyped
<1>2. ProcessTyped
  BY DEF ProcessTyped
<1>3. LinesTyped
  BY DEF LinesTyped
<1>4. Placed /\ Answered /\ Told
  BY DEF Placed, Ended, Answered, Told
<1>5. QED
  BY <1>1, <1>2, <1>3, <1>4 DEF Inv

\* The restart delay is bounded, and a failure never waits longer than it.
LEMMA Delays ==
  ASSUME backoff \in 1..MaxBackoff
  PROVE  /\ Smaller(2 * backoff, MaxBackoff) \in 1..MaxBackoff
         /\ backoff \in 0..MaxBackoff
         /\ {backoff - s : s \in 0..Smaller(SampleLimit, backoff)} \subseteq 0..MaxBackoff
<1>1. Smaller(2 * backoff, MaxBackoff) \in 1..MaxBackoff
  BY SensorAssumption DEF Smaller
<1>2. ASSUME NEW s \in 0..Smaller(SampleLimit, backoff) PROVE backoff - s \in 0..MaxBackoff
  BY <1>2, SensorAssumption DEF Smaller
<1>3. QED
  BY <1>1, <1>2, SensorAssumption

\* The loop keeps its types.
LEMMA StepLoop == Inv /\ [Next]_vars => LoopTyped'
<1> SUFFICES ASSUME Inv, [Next]_vars PROVE LoopTyped'
  OBVIOUS
<1>1. LoopTyped
  BY DEF Inv
<1> USE SensorAssumption DEF LoopTyped, looping, outside, Slots, None
<1>2. CASE Tick
  BY <1>1, <1>2 DEF Tick
<1>3. ASSUME NEW p \in Slots, StartSensors(p) PROVE LoopTyped'
  BY <1>1, <1>3 DEF StartSensors
<1>4. CASE StartFails
  BY <1>1, <1>4, Delays DEF StartFails, FailHelper
<1>5. CASE Publish
  BY <1>1, <1>5 DEF Publish
<1>6. CASE NextTick
  BY <1>1, <1>6 DEF NextTick
<1>7. CASE Enter
  BY <1>1, <1>7 DEF Enter
<1>8. CASE WriteRequest
  <2>1. (request + 1) % Tags \in 0..(Tags - 1)
    BY <1>1
  <2>2. QED
    BY <1>1, <1>8, <2>1 DEF WriteRequest
<1>9. CASE Accept
  <2>1. sampled' \in {"mine", "late"}
    BY <1>9 DEF Accept
  <2>2. 1 \in 1..MaxBackoff
    OBVIOUS
  <2>3. QED
    BY <1>1, <1>9, <2>1, <2>2 DEF Accept
<1>10. CASE FailSample
  BY <1>1, <1>10 DEF FailSample
<1>11. CASE Leave
  BY <1>1, <1>11 DEF Leave
<1>12. CASE Grace
  BY <1>1, <1>12 DEF Grace
<1>13. CASE Join
  <2>1. CASE ending
    BY <1>1, <1>13, <2>1 DEF Join
  <2>2. CASE ~ending
    BY <1>1, <1>13, <2>2, Delays DEF Join, FailHelper
  <2>3. QED
    BY <2>1, <2>2
<1>14. CASE Expire \/ Cancel
  <2>1. timer' \in {timer, "fired"}
    BY <1>14 DEF Expire, Cancel, FireTimer
  <2>2. canceled' \in BOOLEAN /\ UNCHANGED <<loop, looping, healthy>>
    BY <1>1, <1>14 DEF Expire, Cancel
  <2>3. QED
    BY <1>1, <2>1, <2>2
<1>15. CASE HealthChanges
  BY <1>1, <1>15 DEF HealthChanges
<1>16. ASSUME NEW p \in Slots, Reader(p) \/ FireAbort(p) \/ Answer(p) \/ ChildEnds(p)
       PROVE  LoopTyped'
  <2>1. UNCHANGED <<loop, looping, timer, outside>>
    BY <1>16 DEF Reader, Scan, HandOver, QuitReading, ScanFails, FireAbort, Answer,
                     ChildEnds
  <2>2. QED
    BY <1>1, <2>1
<1>17. CASE UNCHANGED vars
  BY <1>1, <1>17 DEF vars
<1>18. QED
  BY <1>2, <1>3, <1>4, <1>5, <1>6, <1>7, <1>8, <1>9, <1>10, <1>11, <1>12, <1>13, <1>14,
     <1>15, <1>16, <1>17 DEF Next, Loop

\* The processes keep their types.
LEMMA StepProcess == Inv /\ [Next]_vars => ProcessTyped'
<1> SUFFICES ASSUME Inv, [Next]_vars PROVE ProcessTyped'
  OBVIOUS
<1>1. ProcessTyped
  BY DEF Inv
<1> USE DEF ProcessTyped, ours, reading, theirs
<1>2. CASE UNCHANGED <<aborted, closed, firing, reader, child>>
  BY <1>1, <1>2
<1>3. CASE Tick \/ StartFails \/ Publish \/ NextTick \/ Enter \/ WriteRequest \/ Accept
           \/ Join \/ HealthChanges
  BY <1>2, <1>3 DEF Tick, StartFails, Publish, NextTick, Enter, WriteRequest, Accept,
                    Join, HealthChanges
<1>4. ASSUME NEW p \in Slots, StartSensors(p) PROVE ProcessTyped'
  BY <1>1, <1>4 DEF StartSensors
<1>5. CASE FailSample \/ Leave \/ Grace
  BY <1>1, <1>5 DEF FailSample, Leave, Grace
<1>6. CASE Expire \/ Cancel
  BY <1>1, <1>6 DEF Expire, Cancel, FireTimer
<1>7. ASSUME NEW p \in Slots, Reader(p) PROVE ProcessTyped'
  BY <1>1, <1>7 DEF Reader, Scan, HandOver, QuitReading, ScanFails
<1>8. ASSUME NEW p \in Slots, FireAbort(p) \/ Answer(p) \/ ChildEnds(p) PROVE ProcessTyped'
  BY <1>1, <1>8 DEF FireAbort, Answer, ChildEnds
<1>9. CASE UNCHANGED vars
  BY <1>2, <1>9 DEF vars
<1>10. QED
  BY <1>3, <1>4, <1>5, <1>6, <1>7, <1>8, <1>9 DEF Next, Loop

\* What is on its way between the loop and a process keeps its type.
LEMMA StepLines == Inv /\ [Next]_vars => LinesTyped'
<1> SUFFICES ASSUME Inv, [Next]_vars PROVE LinesTyped'
  OBVIOUS
<1>1. LinesTyped /\ request \in 0..(Tags - 1) /\ helper \in Slots \cup {None}
  BY DEF Inv, LoopTyped
<1> USE DEF LinesTyped, ours, reading, theirs
<1>2. CASE UNCHANGED <<line, response, asked, pipe>>
  BY <1>1, <1>2
<1>3. CASE Tick \/ StartFails \/ Publish \/ NextTick \/ Enter \/ FailSample \/ Leave
           \/ Grace \/ Join \/ HealthChanges \/ Expire \/ Cancel
  BY <1>2, <1>3 DEF Tick, StartFails, Publish, NextTick, Enter, FailSample, Leave, Grace,
                    Join, HealthChanges, Expire, Cancel
<1>4. ASSUME NEW p \in Slots, StartSensors(p) PROVE LinesTyped'
  BY <1>1, <1>4 DEF StartSensors
<1>5. CASE WriteRequest
  <2>1. request' \in 0..(Tags - 1)
    BY <1>1, <1>5, SensorAssumption DEF WriteRequest
  <2>2. asked' = [asked EXCEPT ![helper] = Append(@, request')]
        /\ UNCHANGED <<line, response, pipe>>
    BY <1>5 DEF WriteRequest
  <2>3. asked' \in [Slots -> Seq(0..(Tags - 1))]
    <3>1. helper \in Slots /\ asked[helper] \in Seq(0..(Tags - 1))
      BY <1>1, <1>5 DEF Inv, Placed, WriteRequest
    <3>2. Append(asked[helper], request') \in Seq(0..(Tags - 1))
      BY <2>1, <3>1
    <3>3. QED
      BY <1>1, <2>2, <3>1, <3>2
  <2>4. QED
    BY <1>1, <2>2, <2>3
<1>6. CASE Accept
  BY <1>1, <1>6 DEF Accept
<1>7. ASSUME NEW p \in Slots, Reader(p) PROVE LinesTyped'
  <2>1. CASE Scan(p)
    <3>1. pipe[p] \in Seq(Lines) /\ pipe[p] # <<>>
      BY <1>1, <2>1 DEF Scan
    <3>2. Head(pipe[p]) \in Lines /\ Tail(pipe[p]) \in Seq(Lines)
      BY <3>1
    <3>3. QED
      BY <1>1, <2>1, <3>2 DEF Scan
  <2>2. CASE HandOver(p)
    BY <1>1, <2>2 DEF HandOver
  <2>3. CASE QuitReading(p) \/ ScanFails(p)
    BY <1>1, <2>3 DEF QuitReading, ScanFails
  <2>4. QED
    BY <1>7, <2>1, <2>2, <2>3 DEF Reader
<1>8. ASSUME NEW p \in Slots, Answer(p) PROVE LinesTyped'
  <2>1. asked[p] \in Seq(0..(Tags - 1)) /\ asked[p] # <<>>
    BY <1>1, <1>8 DEF Answer
  <2>2. Head(asked[p]) \in 0..(Tags - 1) /\ Tail(asked[p]) \in Seq(0..(Tags - 1))
    BY <2>1, HeadTailProperties
  <2>3. PICK good \in BOOLEAN :
          pipe' = [pipe EXCEPT ![p] = Append(@, [answers |-> Head(asked[p]), good |-> good])]
    BY <1>8 DEF Answer
  <2>4. [answers |-> Head(asked[p]), good |-> good] \in Lines
    BY <2>2 DEF Lines
  <2>5. pipe' \in [Slots -> Seq(Lines)]
    BY <1>1, <2>3, <2>4
  <2>6. QED
    BY <1>1, <1>8, <2>2, <2>5 DEF Answer
<1>9. ASSUME NEW p \in Slots, FireAbort(p) \/ ChildEnds(p) PROVE LinesTyped'
  BY <1>2, <1>9 DEF FireAbort, ChildEnds
<1>10. CASE UNCHANGED vars
  BY <1>2, <1>10 DEF vars
<1>11. QED
  BY <1>3, <1>4, <1>5, <1>6, <1>7, <1>8, <1>9, <1>10 DEF Next, Loop

\* The loop moves from one helper to the next only over its end.
LEMMA StepPlaced == Inv /\ [Next]_vars => Placed'
<1> SUFFICES ASSUME Inv, [Next]_vars PROVE Placed'
  OBVIOUS
<1>1. LoopTyped /\ ProcessTyped /\ Placed
  BY DEF Inv
<1> USE DEF Placed, LoopTyped, Ended, looping, ours, reading, theirs, outside, Slots, None
<1>2. CASE Tick \/ StartFails \/ Publish \/ NextTick
  BY <1>1, <1>2 DEF Tick, StartFails, Publish, NextTick
<1>3. ASSUME NEW p \in Slots, StartSensors(p) PROVE Placed'
  BY <1>1, <1>3 DEF StartSensors, ProcessTyped
<1>4. CASE Enter \/ WriteRequest \/ Accept \/ FailSample
  BY <1>1, <1>4 DEF Enter, WriteRequest, Accept, FailSample, SampleFails
<1>5. CASE Leave \/ Grace
  BY <1>1, <1>5 DEF Leave, Grace
<1>6. CASE Join
  BY <1>1, <1>6 DEF Join, Joinable
<1>7. CASE Expire \/ Cancel \/ HealthChanges
  BY <1>1, <1>7 DEF Expire, Cancel, HealthChanges
<1>8. ASSUME NEW p \in Slots, Reader(p) PROVE Placed'
  <2>1. UNCHANGED <<loop, helper, child>>
    BY <1>8 DEF Reader, Scan, HandOver, QuitReading, ScanFails
  <2>2. reader' = reader \/ reader' = [reader EXCEPT ![p] = "done"]
    BY <1>8 DEF Reader, Scan, HandOver, QuitReading, ScanFails
  <2>3. QED
    BY <1>1, <2>1, <2>2 DEF ProcessTyped
<1>9. ASSUME NEW p \in Slots, FireAbort(p) \/ Answer(p) PROVE Placed'
  BY <1>1, <1>9 DEF FireAbort, Answer
<1>10. ASSUME NEW p \in Slots, ChildEnds(p) PROVE Placed'
  BY <1>1, <1>10 DEF ChildEnds, ProcessTyped
<1>11. CASE UNCHANGED vars
  BY <1>1, <1>11 DEF vars
<1>12. QED
  BY <1>2, <1>3, <1>4, <1>5, <1>6, <1>7, <1>8, <1>9, <1>10, <1>11 DEF Next, Loop

-----------------------------------------------------------------------------
\* The reader and the process move what is owed on, and never add to it.
LEMMA MovesOn ==
  ASSUME Inv, NEW p \in Slots, Reader(p) \/ Answer(p)
  PROVE  /\ Unasked(p) => Unasked(p)'
         /\ OneAsked(p) => OneAsked(p)'
<1>1. LinesTyped /\ request \in Nat /\ request' = request
  <2>1. request' = request
    BY DEF Reader, Answer, Scan, HandOver, QuitReading, ScanFails, looping
  <2>2. QED
    BY <2>1, SensorAssumption DEF Inv, LoopTyped
<1>2. \A good : Reply(good) # Empty /\ Reply(good) # ReadError /\ Reply(good)' = Reply(good)
  BY <1>1 DEF Reply, Empty, ReadError
<1> USE DEF Unasked, OneAsked, NoAnswer, reading, theirs, ours
<1>3. CASE Scan(p)
  <2>1. /\ line[p] = Empty /\ pipe[p] # <<>>
        /\ line'[p] = Head(pipe[p]) /\ pipe'[p] = Tail(pipe[p])
        /\ UNCHANGED <<asked, response>>
    BY <1>1, <1>3 DEF Scan, LinesTyped
  <2>2. ASSUME OneAsked(p) PROVE OneAsked(p)'
    <3>1. PICK good \in BOOLEAN :
            asked[p] = <<>> /\ pipe[p] = <<Reply(good)>> /\ NoAnswer(p)
      BY <2>1, <2>2
    <3>2. line'[p] = Reply(good) /\ pipe'[p] = <<>>
      BY <2>1, <3>1
    <3>3. QED
      BY <1>2, <2>1, <3>1, <3>2
  <2>3. QED
    BY <2>1, <2>2
<1>4. CASE HandOver(p)
  <2>1. /\ line[p] # Empty /\ response'[p] = line[p] /\ line'[p] = Empty
        /\ UNCHANGED <<asked, pipe>>
    BY <1>1, <1>4 DEF HandOver, LinesTyped
  <2>2. ASSUME OneAsked(p) PROVE OneAsked(p)'
    <3>1. PICK good \in BOOLEAN :
            asked[p] = <<>> /\ pipe[p] = <<>> /\ line[p] = Reply(good)
      BY <2>1, <2>2
    <3>2. QED
      BY <1>2, <2>1, <3>1
  <2>3. QED
    BY <2>1, <2>2
<1>5. CASE QuitReading(p)
  <2>1. line'[p] = Empty /\ UNCHANGED <<asked, pipe, response>>
    BY <1>1, <1>5 DEF QuitReading, LinesTyped
  <2>2. QED
    BY <1>1, <1>2, <2>1
<1>6. CASE ScanFails(p)
  <2>1. /\ line[p] = Empty /\ UNCHANGED <<asked, pipe, line>>
        /\ response'[p] = response[p] \/ (response[p] = Empty /\ response'[p] = ReadError)
    BY <1>1, <1>6 DEF ScanFails, LinesTyped
  <2>2. QED
    BY <1>1, <1>2, <2>1
<1>7. CASE Answer(p)
  <2>1. PICK answer \in BOOLEAN :
          /\ asked[p] # <<>> /\ asked'[p] = Tail(asked[p])
          /\ pipe'[p] = Append(pipe[p], [answers |-> Head(asked[p]), good |-> answer])
          /\ UNCHANGED <<line, response>>
    BY <1>1, <1>7 DEF Answer, LinesTyped
  <2>2. ASSUME OneAsked(p) PROVE OneAsked(p)'
    <3>1. /\ asked[p] = <<request>> /\ pipe[p] = <<>> /\ line[p] = Empty
          /\ NoAnswer(p)
      BY <2>1, <2>2
    <3>2. asked'[p] = <<>> /\ pipe'[p] = <<Reply(answer)>>
      BY <2>1, <3>1 DEF Reply
    <3>3. QED
      BY <1>2, <2>1, <3>1, <3>2
  <2>3. QED
    BY <2>1, <2>2
<1>8. QED
  BY <1>3, <1>4, <1>5, <1>6, <1>7 DEF Reader

\* A helper in use never owes more than the answer to the last request.
LEMMA StepAnswered == Inv /\ [Next]_vars => Answered'
<1> SUFFICES ASSUME Inv, [Next]_vars PROVE Answered'
  OBVIOUS
<1>1. LoopTyped /\ LinesTyped /\ Placed /\ Answered
  BY DEF Inv
<1> USE DEF Answered, looping, ours, reading, theirs, None
<1>2. ASSUME UNCHANGED <<helper, request, line, response, asked, pipe>>,
             loop' \in {"tick", "publish", "wait", "sample", "write"} =>
               loop \in {"tick", "publish", "wait", "sample", "write"} \/ helper = None,
             loop' = "await" => loop = "await"
      PROVE  Answered'
  BY <1>1, <1>2 DEF Unasked, OneAsked, NoAnswer, Reply
<1>3. CASE Tick \/ StartFails \/ Publish \/ NextTick
  BY <1>1, <1>2, <1>3 DEF Tick, StartFails, Publish, NextTick, Placed
<1>4. ASSUME NEW p \in Slots, StartSensors(p) PROVE Answered'
  <2>1. helper' = p /\ loop' = "sample"
    BY <1>4 DEF StartSensors
  <2>2. Unasked(p)'
    BY <1>1, <1>4 DEF StartSensors, Unasked, NoAnswer, LinesTyped
  <2>3. QED
    BY <2>1, <2>2
<1>5. CASE Enter \/ FailSample \/ Leave \/ Grace
  BY <1>2, <1>5 DEF Enter, FailSample, Leave, Grace
<1>6. CASE WriteRequest
  <2>1. helper \in Slots /\ Unasked(helper)
    BY <1>1, <1>6 DEF WriteRequest, Placed, LoopTyped
  <2>2. asked'[helper] = Append(asked[helper], request')
    BY <1>1, <1>6, <2>1 DEF WriteRequest, LinesTyped
  <2>3. asked'[helper] = <<request'>> /\ UNCHANGED <<helper, line, response, pipe>>
    BY <1>6, <2>1, <2>2 DEF WriteRequest, Unasked
  <2>4. OneAsked(helper)'
    BY <2>1, <2>3 DEF OneAsked, Unasked, NoAnswer
  <2>5. QED
    BY <1>6, <2>4 DEF WriteRequest
<1>7. CASE Accept
  <2>1. helper \in Slots /\ OneAsked(helper) /\ response[helper].good
    BY <1>1, <1>7 DEF Accept, Placed, LoopTyped
  <2>2. asked[helper] = <<>> /\ pipe[helper] = <<>> /\ line[helper] = Empty
    BY <2>1 DEF OneAsked, Unasked, NoAnswer, Empty, ReadError
  <2>3. response'[helper] = Empty /\ UNCHANGED <<helper, asked, pipe, line>>
    BY <1>1, <1>7, <2>1 DEF Accept, LinesTyped
  <2>4. Unasked(helper)'
    BY <2>2, <2>3 DEF Unasked, NoAnswer
  <2>5. QED
    BY <1>7, <2>4 DEF Accept
<1>8. CASE Join
  BY <1>8 DEF Join
<1>9. CASE Expire \/ Cancel \/ HealthChanges
  BY <1>2, <1>9 DEF Expire, Cancel, HealthChanges
<1>10. ASSUME NEW p \in Slots, Reader(p) \/ Answer(p) PROVE Answered'
  <2>1. UNCHANGED <<loop, helper, request>>
    BY <1>10 DEF Reader, Scan, HandOver, QuitReading, ScanFails, Answer
  <2>2. CASE p = helper
    BY <1>1, <1>10, <2>1, <2>2, MovesOn
  <2>3. CASE p # helper
    <3>1. ASSUME NEW q \in Slots, q # p
          PROVE  /\ line'[q] = line[q] /\ response'[q] = response[q]
                 /\ asked'[q] = asked[q] /\ pipe'[q] = pipe[q]
      BY <1>1, <1>10, <3>1 DEF Reader, Scan, HandOver, QuitReading, ScanFails, Answer,
                               LinesTyped
    <3>2. helper \in Slots \cup {None} /\ (loop = "await" => helper # None)
      BY <1>1 DEF LoopTyped, Placed
    <3>3. QED
      BY <1>1, <2>1, <2>3, <3>1, <3>2 DEF Unasked, OneAsked, NoAnswer, Reply
  <2>4. QED
    BY <2>2, <2>3
<1>11. ASSUME NEW p \in Slots, FireAbort(p) \/ ChildEnds(p) PROVE Answered'
  BY <1>2, <1>11 DEF FireAbort, ChildEnds
<1>12. CASE UNCHANGED vars
  BY <1>2, <1>12 DEF vars
<1>13. QED
  BY <1>3, <1>4, <1>5, <1>6, <1>7, <1>8, <1>9, <1>10, <1>11, <1>12 DEF Next, Loop

\* Every tick tells its own sample or an error.
LEMMA StepTold == Inv /\ [Next]_vars => Told'
<1> SUFFICES ASSUME Inv, [Next]_vars PROVE Told'
  OBVIOUS
<1>1. LoopTyped /\ Placed /\ Answered /\ Told
  BY DEF Inv
<1> USE DEF Told, LoopTyped, looping
<1>2. CASE Tick
  BY <1>1, <1>2 DEF Tick
<1>3. ASSUME NEW p \in Slots, StartSensors(p) PROVE Told'
  BY <1>1, <1>3 DEF StartSensors, Slots, None
<1>4. CASE StartFails
  BY <1>1, <1>4 DEF StartFails, FailHelper
<1>5. CASE Publish
  BY <1>1, <1>5 DEF Publish
<1>6. CASE NextTick
  BY <1>1, <1>6 DEF NextTick
<1>7. CASE Enter \/ WriteRequest \/ FailSample
  BY <1>1, <1>7 DEF Enter, WriteRequest, FailSample, SampleFails
<1>8. CASE Accept
  <2>1. OneAsked(helper) /\ response[helper].good
    BY <1>1, <1>8 DEF Accept, Answered
  <2>2. response[helper].answers = request
    <3>1. ~Empty.good /\ ~ReadError.good
      BY DEF Empty, ReadError
    <3>2. ~NoAnswer(helper)
      BY <2>1, <3>1 DEF NoAnswer
    <3>3. PICK good \in BOOLEAN : response[helper] = Reply(good)
      BY <2>1, <3>2 DEF OneAsked, Unasked
    <3>4. QED
      BY <3>3 DEF Reply
  <2>3. sampled' = "mine"
    BY <1>8, <2>2 DEF Accept
  <2>4. helper # None
    BY <1>1, <1>8 DEF Accept, Placed
  <2>5. QED
    BY <1>1, <1>8, <2>3, <2>4 DEF Accept
<1>9. CASE Leave \/ Grace
  BY <1>1, <1>9 DEF Leave, Grace
<1>10. CASE Join
  <2>1. CASE ending
    BY <1>1, <1>10, <2>1 DEF Join
  <2>2. CASE ~ending
    <3>1. failed' = TRUE /\ loop' = "publish" /\ UNCHANGED <<ending, sampled, published>>
      BY <1>10, <2>2 DEF Join, FailHelper
    <3>2. QED
      BY <1>1, <2>2, <3>1
  <2>3. QED
    BY <2>1, <2>2
<1>11. CASE Expire \/ Cancel \/ HealthChanges
  BY <1>1, <1>11 DEF Expire, Cancel, HealthChanges
<1>12. ASSUME NEW p \in Slots, Reader(p) \/ FireAbort(p) \/ Answer(p) \/ ChildEnds(p)
       PROVE  Told'
  <2>1. UNCHANGED <<loop, looping>>
    BY <1>12 DEF Reader, Scan, HandOver, QuitReading, ScanFails, FireAbort, Answer,
                     ChildEnds
  <2>2. QED
    BY <1>1, <2>1
<1>13. CASE UNCHANGED vars
  BY <1>1, <1>13 DEF vars
<1>14. QED
  BY <1>2, <1>3, <1>4, <1>5, <1>6, <1>7, <1>8, <1>9, <1>10, <1>11, <1>12, <1>13
     DEF Next, Loop

-----------------------------------------------------------------------------
\* The invariant holds throughout.
LEMMA Invariance == Spec => []Inv
<1>1. Inv /\ [Next]_vars => Inv'
  BY StepLoop, StepProcess, StepLines, StepPlaced, StepAnswered, StepTold DEF Inv
<1>2. QED
  BY <1>1, StartInv, PTL DEF Spec

\* The loop, the processes and what is on its way between them keep their types,
\* for every delay, limit and pipe.
THEOREM TypeCorrect == Spec => []TypeOK
<1>1. Inv => TypeOK
  BY DEF Inv, LoopTyped, ProcessTyped, LinesTyped, TypeOK
<1>2. QED
  BY <1>1, Invariance, PTL

\* The page is told the answer to the request of this tick, or the error of the
\* helper, however late, bad or lost the answers are.
THEOREM AlwaysTheTruth == Spec => []ToldTheTruth
<1>1. Inv => ToldTheTruth
  BY DEF Inv, Told, ToldTheTruth
<1>2. QED
  BY <1>1, Invariance, PTL

\* There are never two helpers on the hardware, and none after the loop.
THEOREM NeverTwoHelpers == Spec => []OneHelper
<1>1. Inv => OneHelper
  BY DEF Inv, Placed, OneHelper, Slots, None
<1>2. QED
  BY <1>1, Invariance, PTL

=============================================================================
