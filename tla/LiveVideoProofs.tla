-------------------------- MODULE LiveVideoProofs --------------------------
(***************************************************************************)
(* Proofs about H264Stream for a source of any length, and about LiveVideo *)
(* for an encoder that delivers any number of chunks.                      *)
(*                                                                         *)
(* The inductive invariant of the upload says which goroutines exist at    *)
(* each point of the call (Staffed), how far the transfers are behind the  *)
(* reader (Paced), that a chunk is reported late or uploaded but not both  *)
(* (Verdict), why the context is done (Causes), and who stopped the timer  *)
(* of a chunk that is reported late (Lateness).                            *)
(*                                                                         *)
(* Every step of the composition is a step of the upload or leaves it      *)
(* alone, and the same of the encoder.  What is shown of the upload        *)
(* therefore holds there, and the encoder keeps an invariant of its own:   *)
(* which of its goroutines are left at each point of Wait (Joining), and   *)
(* where each cause of its end comes from (Blame).                         *)
(***************************************************************************)
EXTENDS LiveVideo, TLAPS

-----------------------------------------------------------------------------
(***************************************************************************)
(* The upload: H264Stream.                                                 *)
(***************************************************************************)
Running == {"receive", "check", "commit", "send", "queue", "leave", "join"}
Ending == {"leave", "join", "stop", "closing", "closed", "returned"}

Staffed ==
  /\ reader = "idle" <=> closer = "idle"
  /\ sender \in {"start", "initialise"} => reader = "idle" /\ input = "open"
  /\ sender \in Running => reader # "idle"
  /\ reader = "idle" => /\ timer = "unset" /\ chunk = 0 /\ sent = <<>> /\ ~sending
                        /\ cause = "none" /\ expired = 0
  /\ reader \in {"offerError", "exit"} => ~Stoppable
  /\ sender \in {"stop", "closing", "closed", "returned"} =>
       reader \in {"idle", "exit"} /\ closer \in {"idle", "exit"}
  /\ sender \in {"closed", "returned"} => input = "closed"
  /\ closer \in {"closing", "exit"} => input = "closed"
  /\ sender \notin {"closing", "closed", "returned"} => stops = 0

Paced ==
  /\ \A i \in 1..Len(sent) : sent[i] = i
  /\ reader # "idle" => Len(sent) = IF sending THEN chunk ELSE chunk - 1
  /\ reader # "idle" => chunk >= 1
  /\ sending => timer = "stopped" /\ reader \in {"await", "exit"}
  /\ sender \in {"check", "commit"} =>
       held.n = chunk /\ ~sending /\ reader \in {"await", "exit"}
  /\ sender = "commit" => ~held.err
  /\ sender = "check" /\ held.err => reader = "exit"

Verdict ==
  expired # 0 =>
    /\ expired = chunk /\ ~sending
    /\ timer = "called" \/ sender \in Ending

Causes ==
  /\ cause = "canceled" => canceled
  /\ cause = "timeout" => expired # 0
  /\ cause = "finished" => sender \in Ending
  /\ sender \in {"join", "stop", "closing", "closed", "returned"} /\ reader # "idle" => Done
  /\ sender = "leave" => cause # "finished"
  /\ closer \in {"closing", "exit"} => Done
  /\ input = "closed" /\ reader # "idle" => Done
  /\ reader = "offerError" => ended \/ Done
  /\ sender = "check" /\ held.err => ended \/ Done

\* A timer that is neither armed nor stopped has seen its limit pass; while the
\* sender holds a chunk only a cancellation makes somebody else stop its timer.
Lateness ==
  /\ timer = "unset" => reader = "idle"
  /\ timer \in {"overdue", "fired", "called"} => passed = chunk
  /\ reader \in {"read", "offer"} => timer # "stopped"
  /\ sender \in {"check", "commit"} /\ ~held.err /\ timer = "stopped" => canceled
  /\ expired # 0 => passed = expired \/ canceled

Inv == TypeOK /\ Staffed /\ Paced /\ Verdict /\ Causes /\ Lateness /\ BlameIsHonest

\* Nothing is started before the call.
LEMMA StartInv == Init => Inv
<1> USE DEF Inv, TypeOK, Staffed, Paced, Verdict, Causes, Lateness, BlameIsHonest,
              Running, Ending, Done, Stoppable
<1> SUFFICES ASSUME Init PROVE Inv
  OBVIOUS
<1>1. sent = <<>> /\ sent \in Seq(Nat) /\ Len(sent) = 0
  BY DEF Init
<1>2. 1..Len(sent) = {} /\ 0 \in Nat /\ stops \in 0..1
  BY <1>1 DEF Init
<1>3. held \in [n : Nat, err : BOOLEAN]
  BY DEF Init, NoChunk
<1>4. QED
  BY <1>1, <1>2, <1>3 DEF Init

\* Every step of the four activities and of their environment keeps the invariant.
LEMMA StepInv == Inv /\ [Next]_vars => Inv'
<1> SUFFICES ASSUME Inv, [Next]_vars PROVE Inv'
  OBVIOUS
<1> USE DEF Inv, TypeOK, Staffed, Paced, Verdict, Causes, Lateness, BlameIsHonest,
              Running, Ending, Done, Stoppable,
              calling, reading, source, history, Return, Cancelled, StopTimer
<1>1. CASE Refuse
  BY <1>1 DEF Refuse
<1>2. CASE Initialise
  BY <1>2 DEF Initialise
<1>3. CASE InitialiseFails
  BY <1>3 DEF InitialiseFails
<1>4. CASE StartStream
  <2>1. sent = <<>> /\ Len(sent) = 0 /\ ~sending /\ expired = 0
    BY <1>4 DEF StartStream
  <2>2. chunk' = 1 /\ chunk' - 1 = Len(sent') /\ chunk' \in Nat
    BY <1>4, <2>1 DEF StartStream
  <2>3. /\ sender' = "receive" /\ reader' = "read" /\ timer' = "armed" /\ closer' = "wait"
        /\ cause' = (IF canceled THEN "canceled" ELSE "none") /\ stops = 0
        /\ UNCHANGED <<held, result, stops, sent, sending, source, history>>
    BY <1>4 DEF StartStream
  <2>4. TypeOK'
    BY <2>2, <2>3
  <2>5. Staffed'
    BY <2>3
  <2>6. Paced'
    BY <2>1, <2>2, <2>3
  <2>7. Verdict' /\ Causes' /\ Lateness' /\ BlameIsHonest'
    <3>1. input' # "closed"
      BY <1>4, <2>3 DEF StartStream
    <3>2. QED
      BY <2>1, <2>3, <3>1
  <2>8. QED
    BY <2>4, <2>5, <2>6, <2>7
<1>5. CASE Receive
  BY <1>5 DEF Receive
<1>6. CASE ReceiveDone
  BY <1>6 DEF ReceiveDone
<1>7. CASE Check
  BY <1>7 DEF Check
<1>8. CASE Commit
  BY <1>8 DEF Commit, InTime
<1>9. CASE CommitLate
  <2>1. expired' = held.n /\ held.n = chunk /\ ~held.err /\ reader # "idle"
    BY <1>9 DEF CommitLate
  <2>2. passed = chunk \/ canceled
    <3>1. timer \in {"overdue", "fired", "called", "stopped", "unset"}
      BY <1>9 DEF CommitLate, TooLate
    <3>2. timer # "unset"
      BY <2>1
    <3>3. QED
      BY <1>9, <2>1, <3>1, <3>2 DEF CommitLate
  <2>3. chunk \in Nat /\ chunk >= 1
    BY <2>1
  <2>4. /\ sender' = "leave" /\ result' = "timeout" /\ cause' = IF Done THEN cause ELSE "timeout"
        /\ UNCHANGED <<held, stops, sent, reading, timer, closer, source, passed>>
    BY <1>9 DEF CommitLate
  <2>5. ~sending /\ sender = "commit" /\ reader \in {"await", "exit"}
    BY <1>9 DEF CommitLate
  <2>6. TypeOK'
    BY <2>1, <2>3, <2>4
  <2>7. Staffed'
    BY <2>1, <2>4, <2>5
  <2>8. Paced'
    BY <2>4, <2>5
  <2>9. Verdict' /\ Lateness' /\ BlameIsHonest'
    BY <2>1, <2>2, <2>3, <2>4, <2>5
  <2>10. Causes'
    BY <2>1, <2>3, <2>4, <2>5
  <2>11. QED
    BY <2>6, <2>7, <2>8, <2>9, <2>10
<1>10. CASE Transfer
  BY <1>10 DEF Transfer
<1>11. CASE TransferFails
  BY <1>11 DEF TransferFails
<1>12. CASE Leave
  BY <1>12 DEF Leave
<1>13. CASE Join
  BY <1>13 DEF Join
<1>14. CASE StopVideo
  BY <1>14 DEF StopVideo
<1>15. CASE CloseInput
  BY <1>15 DEF CloseInput
<1>16. CASE CallReturns
  BY <1>16 DEF CallReturns
<1>17. CASE ReadChunk
  BY <1>17 DEF ReadChunk
<1>18. CASE ReadFails
  BY <1>18 DEF ReadFails
<1>19. CASE ReaderQuits
  BY <1>19 DEF ReaderQuits
<1>20. CASE NextChunk
  <2>1. Len(sent) = chunk /\ expired = 0 /\ reader = "await"
    BY <1>20 DEF NextChunk
  <2>2. sender \notin {"check", "commit"}
    BY <1>20 DEF NextChunk
  <2>3. chunk' = chunk + 1 /\ chunk' - 1 = Len(sent') /\ chunk' \in Nat /\ chunk' >= 1
    BY <1>20, <2>1 DEF NextChunk
  <2>4. /\ reader' = "read" /\ timer' = "armed" /\ ~sending' /\ sending' \in BOOLEAN
        /\ UNCHANGED <<calling, closer, cause, source, history>>
    BY <1>20 DEF NextChunk
  <2>5. TypeOK'
    BY <2>3, <2>4
  <2>6. Staffed'
    BY <2>1, <2>3, <2>4
  <2>7. Paced'
    <3>1. \A i \in 1..Len(sent') : sent'[i] = i
      BY <2>4
    <3>2. QED
      BY <2>2, <2>3, <2>4, <3>1
  <2>8. Verdict' /\ Causes' /\ Lateness' /\ BlameIsHonest'
    BY <2>1, <2>2, <2>4
  <2>9. QED
    BY <2>5, <2>6, <2>7, <2>8
<1>21. CASE Overdue
  BY <1>21 DEF Overdue
<1>22. CASE Fire
  BY <1>22 DEF Fire
<1>23. CASE Callback
  BY <1>23 DEF Callback
<1>24. CASE Closer
  BY <1>24 DEF Closer
<1>25. CASE CloserReturns
  BY <1>25 DEF CloserReturns
<1>26. CASE Cancel
  BY <1>26 DEF Cancel
<1>27. CASE SourceEnds
  BY <1>27 DEF SourceEnds
<1>28. CASE UNCHANGED vars
  BY <1>28 DEF vars
<1>29. QED
  BY <1>1, <1>2, <1>3, <1>4, <1>5, <1>6, <1>7, <1>8, <1>9, <1>10, <1>11, <1>12, <1>13, <1>14, <1>15, <1>16, <1>17, <1>18, <1>19, <1>20, <1>21, <1>22, <1>23, <1>24, <1>25, <1>26, <1>27, <1>28
     DEF Next, Sender, ReaderStops, Timer, Closing

\* The invariant holds in every reachable state.
LEMMA Invariance == Spec => []Inv
BY StartInv, StepInv, PTL DEF Spec

\* The variables of the call keep their types; the stop command is written at
\* most once.
THEOREM TypeCorrect == Spec => []TypeOK
<1>1. Inv => TypeOK
  BY DEF Inv
<1>2. QED
  BY <1>1, Invariance, PTL

\* Uploads follow the reading order without loss or repetition, and the reader
\* stays at most one chunk ahead.
THEOREM UploadedInOrder == Spec => []SentInOrder
<1>1. Inv => SentInOrder
  <2> SUFFICES ASSUME Inv PROVE SentInOrder
    OBVIOUS
  <2> USE DEF Inv, TypeOK, Staffed, Paced
  <2>1. chunk <= Len(sent) + 1
    <3>1. CASE reader = "idle"
      BY <3>1
    <3>2. CASE reader # "idle"
      BY <3>2
    <3>3. QED
      BY <3>1, <3>2
  <2>2. QED
    BY <2>1 DEF SentInOrder
<1>2. QED
  BY <1>1, Invariance, PTL

\* A chunk reported late is never uploaded, whichever of timer and sender is first.
THEOREM LateIsDropped == Spec => []LateNeverSent
<1>1. Inv => LateNeverSent
  <2> SUFFICES ASSUME Inv, NEW i \in 1..Len(sent) PROVE sent[i] # expired
    BY DEF LateNeverSent
  <2> USE DEF Inv, TypeOK, Staffed, Paced, Verdict
  <2>1. sent[i] = i /\ i >= 1 /\ i <= Len(sent)
    OBVIOUS
  <2>2. CASE expired = 0
    BY <2>1, <2>2
  <2>3. CASE expired # 0
    <3>1. expired = chunk /\ ~sending /\ reader # "idle"
      BY <2>3
    <3>2. Len(sent) = chunk - 1 /\ chunk \in Nat
      BY <3>1
    <3>3. QED
      BY <2>1, <3>1, <3>2
  <2>4. QED
    BY <2>2, <2>3
<1>2. QED
  BY <1>1, Invariance, PTL

\* The call ends with its goroutines joined, its timer stopped, its input closed.
THEOREM Joined == Spec => []NothingLeftBehind
<1>1. Inv => NothingLeftBehind
  <2> SUFFICES ASSUME Inv PROVE NothingLeftBehind
    OBVIOUS
  <2> USE DEF Inv, TypeOK, Staffed, Stoppable
  <2>1. reader = "idle" => ~Stoppable
    OBVIOUS
  <2>2. QED
    BY <2>1 DEF NothingLeftBehind
<1>2. QED
  BY <1>1, Invariance, PTL

\* What the call reports has happened, except that a chunk whose timer the reader
\* stopped because of a cancellation is reported as late.
THEOREM HonestResult == Spec => []BlameIsHonest
<1>1. Inv => BlameIsHonest
  BY DEF Inv
<1>2. QED
  BY <1>1, Invariance, PTL

-----------------------------------------------------------------------------
(***************************************************************************)
(* The upload with its encoder: LiveVideo.                                 *)
(***************************************************************************)
Joining ==
  /\ closing = "no" <=> wait = "no"
  /\ wait \in {"join", "done"} => ffmpeg # "running"
  /\ wait = "done" => feed = "done" /\ overlay # "drawing"

Blame ==
  /\ why \in {"write", "overlay"} => feedErr = why /\ feed = "done"
  /\ why = "closed" => closing \in {"overtime", "cancelled"}
  /\ closing = "cancelled" => ~eof
  /\ watcher = "signalled" => why # "none"
  /\ feed # "done" => feedErr = "none"
  /\ waitErr # "none" => wait = "done"
  /\ waitErr = "closed" => why = "closed"
  /\ waitErr = "nil" => feedErr = "none" /\ ffmpeg # "bad"

EncoderInv == Encoder!TypeOK /\ Joining /\ Blame

\* A stream that was just started has nothing to hide.
LEMMA EncoderStarts == Encoder!Init => EncoderInv
BY DEF Encoder!Init, EncoderInv, Encoder!TypeOK, Joining, Blame

\* Every step of the encoder, its reader and its closer keeps the invariant.
LEMMA EncoderSteps == EncoderInv /\ [Encoder!Next]_encoder => EncoderInv'
<1> SUFFICES ASSUME EncoderInv, [Encoder!Next]_encoder PROVE EncoderInv'
  OBVIOUS
<1> USE DEF EncoderInv, Encoder!TypeOK, Joining, Blame, Encoder!Feed, Encoder!Done,
            Encoder!CancelWith, Encoder!Reaped, Encoder!StdinOpen,
            Encoder!process, Encoder!feeding, Encoder!waiting
<1>1. CASE Encoder!WriteFrame
  BY <1>1 DEF Encoder!WriteFrame
<1>2. CASE Encoder!WriteClosed
  BY <1>2 DEF Encoder!WriteClosed
<1>3. CASE Encoder!WriteBreaks
  BY <1>3 DEF Encoder!WriteBreaks
<1>4. CASE Encoder!FeedCancelled
  BY <1>4 DEF Encoder!FeedCancelled
<1>5. CASE Encoder!Tick
  BY <1>5 DEF Encoder!Tick
<1>6. CASE Encoder!OverlayFails
  BY <1>6 DEF Encoder!OverlayFails
<1>7. CASE Encoder!Draw
  BY <1>7 DEF Encoder!Draw
<1>8. CASE Encoder!FFmpegEnds
  BY <1>8 DEF Encoder!FFmpegEnds
<1>9. CASE Encoder!ShutOutput
  BY <1>9 DEF Encoder!ShutOutput
<1>10. CASE Encoder!Kill
  BY <1>10 DEF Encoder!Kill
<1>11. CASE Encoder!ReadEOF
  BY <1>11 DEF Encoder!ReadEOF
<1>12. CASE Encoder!BeginClose
  BY <1>12 DEF Encoder!BeginClose
<1>13. CASE Encoder!GraceEnds
  BY <1>13 DEF Encoder!GraceEnds
<1>14. CASE Encoder!Reap
  BY <1>14 DEF Encoder!Reap
<1>15. CASE Encoder!FinishWait
  BY <1>15 DEF Encoder!FinishWait, Encoder!WorkersEnded, Encoder!Outcome
<1>16. CASE Encoder!ParentCancelled
  BY <1>16 DEF Encoder!ParentCancelled
<1>17. CASE UNCHANGED encoder
  BY <1>17 DEF encoder
<1>18. QED
  BY <1>1, <1>2, <1>3, <1>4, <1>5, <1>6, <1>7, <1>8, <1>9, <1>10, <1>11, <1>12, <1>13,
     <1>14, <1>15, <1>16, <1>17
     DEF Encoder!Next, Encoder!Step, Encoder!Feeder, Encoder!Waiter

\* Each step is one of both parts, or of one while the other rests.
LEMMA StepsOfBoth == [LiveNext]_liveVars => [Next]_vars /\ [Encoder!Next]_encoder
<1> SUFFICES ASSUME [LiveNext]_liveVars PROVE [Next]_vars /\ [Encoder!Next]_encoder
  OBVIOUS
<1> USE DEF EncoderStays, UploadStays, Next, Encoder!Next
<1>1. CASE LiveSender
  BY <1>1 DEF LiveSender, LiveCloseInput, LiveCallReturns, Sender
<1>2. CASE LiveReaderStops
  BY <1>2 DEF LiveReaderStops, LiveReadFails, ReaderStops
<1>3. CASE LiveClosing
  BY <1>3 DEF LiveClosing, LiveCloser, LiveCloserReturns, Closing
<1>4. CASE (ReadChunk \/ NextChunk \/ Timer) /\ EncoderStays
  BY <1>4
<1>5. CASE LiveSourceEnds \/ LiveCancel
  BY <1>5 DEF LiveSourceEnds, LiveCancel
<1>6. CASE Encoder!Step /\ UploadStays
  BY <1>6
<1>7. CASE UNCHANGED liveVars
  BY <1>7 DEF liveVars
<1>8. QED
  BY <1>1, <1>2, <1>3, <1>4, <1>5, <1>6, <1>7 DEF LiveNext

\* With the FFmpeg stream as its input the upload takes only the steps of
\* H264Stream: what is proved there holds of every live video.
THEOREM UploadRefined == LiveSpec => Spec
<1>1. LiveInit => Init
  BY DEF LiveInit
<1>2. QED
  BY <1>1, StepsOfBoth, PTL DEF LiveSpec, Spec

\* A late chunk is never uploaded, the call returns with its goroutines joined,
\* and it blames the encoder only for what the encoder did, whatever FFmpeg does;
\* late it calls a chunk after its limit or after a cancellation.
THEOREM UploadHonest == LiveSpec => [](LateNeverSent /\ NothingLeftBehind /\ BlameIsHonest)
BY UploadRefined, LateIsDropped, Joined, HonestResult, PTL

\* The encoder's invariant holds in every reachable state.
LEMMA EncoderInvariance == LiveSpec => []EncoderInv
<1>1. LiveInit => EncoderInv
  BY EncoderStarts DEF LiveInit
<1>2. QED
  BY <1>1, EncoderSteps, StepsOfBoth, PTL DEF LiveSpec

\* The variables of both parts keep their types.
THEOREM LiveTypeCorrect == LiveSpec => []LiveTypeOK
<1>1. EncoderInv /\ TypeOK => LiveTypeOK
  BY DEF EncoderInv, LiveTypeOK
<1>2. QED
  BY <1>1, EncoderInvariance, UploadRefined, TypeCorrect, PTL

\* When SendH264Stream returns FFmpeg is reaped and its goroutines have ended.
THEOREM EncoderJoined == LiveSpec => []NothingRuns
<1> DEFINE ReturnedLast == sender = "returned" => wait = "done"
<1>1. LiveInit => ReturnedLast
  BY DEF LiveInit, Init
<1>2. ReturnedLast /\ EncoderInv /\ [LiveNext]_liveVars => ReturnedLast'
  <2> SUFFICES ASSUME ReturnedLast, EncoderInv, [LiveNext]_liveVars PROVE ReturnedLast'
    OBVIOUS
  <2>1. wait = "done" => wait' = "done"
    <3>1. [Encoder!Next]_encoder
      BY StepsOfBoth
    <3>2. closing = "no" => wait = "no"
      BY DEF EncoderInv, Joining
    <3>3. QED
      BY <3>1, <3>2
         DEF encoder, Encoder!Next, Encoder!Step, Encoder!Feeder, Encoder!Waiter, Encoder!Feed,
             Encoder!WriteFrame, Encoder!WriteClosed, Encoder!WriteBreaks,
             Encoder!FeedCancelled, Encoder!Tick, Encoder!OverlayFails, Encoder!Draw,
             Encoder!FFmpegEnds, Encoder!ShutOutput, Encoder!Kill, Encoder!ReadEOF,
             Encoder!BeginClose, Encoder!GraceEnds, Encoder!Reap, Encoder!FinishWait,
             Encoder!ParentCancelled, Encoder!waiting
  <2>2. sender' = "returned" => sender = "returned" \/ Encoder!Returned
    <3> USE DEF EncoderStays, UploadStays, calling, reading, source, vars, liveVars, Return
    <3>1. CASE LiveSender
      BY <3>1 DEF LiveSender, LiveCloseInput, LiveCallReturns, Refuse, Initialise,
                  InitialiseFails, StartStream, Receive, ReceiveDone, Check, Commit,
                  CommitLate, Transfer, TransferFails, Leave, Join, StopVideo, CloseInput
    <3>2. CASE LiveReaderStops \/ LiveClosing
      BY <3>2 DEF LiveReaderStops, LiveReadFails, ReadFails, ReaderQuits,
                  LiveClosing, LiveCloser, LiveCloserReturns, Closer, CloserReturns
    <3>3. CASE (ReadChunk \/ NextChunk \/ Timer) /\ EncoderStays
      BY <3>3 DEF ReadChunk, NextChunk, Timer, Overdue, Fire, Callback
    <3>4. CASE LiveSourceEnds \/ LiveCancel
      BY <3>4 DEF LiveSourceEnds, LiveCancel, SourceEnds, Cancel
    <3>5. CASE Encoder!Step /\ UploadStays
      BY <3>5
    <3>6. CASE UNCHANGED liveVars
      BY <3>6
    <3>7. QED
      BY <3>1, <3>2, <3>3, <3>4, <3>5, <3>6 DEF LiveNext
  <2>3. QED
    BY <2>1, <2>2 DEF Encoder!Returned
<1>3. ReturnedLast /\ EncoderInv => NothingRuns
  BY DEF EncoderInv, Joining, NothingRuns, Encoder!NothingRuns
<1>4. QED
  BY <1>1, <1>2, <1>3, EncoderInvariance, PTL DEF LiveSpec

\* Close's own kill hides no failure that came before it.
THEOREM FailuresShown == LiveSpec => []FailureShown
<1>1. EncoderInv => FailureShown
  BY DEF EncoderInv, Encoder!TypeOK, Joining, Blame, FailureShown, Encoder!FailureShown
<1>2. QED
  BY <1>1, EncoderInvariance, PTL
=============================================================================
