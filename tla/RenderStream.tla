---------------------------- MODULE RenderStream ----------------------------
(***************************************************************************)
(* One live H264 stream of internal/render/render.go: an FFmpeg process    *)
(* and the goroutines around it, from Start to the end of Close.           *)
(*                                                                         *)
(*   feed     writes a frame to FFmpeg at every tick of the frame clock    *)
(*   overlay  draws the next frame, at most one at a time                  *)
(*   watcher  os/exec kills FFmpeg when the run context is done            *)
(*   Close    cancels and waits, or first gives an FFmpeg whose end of     *)
(*            file was read a grace period                                 *)
(*                                                                         *)
(* Close is the only caller of Wait, so the two begin together.  stdout is *)
(* closed once Close has begun, stdin then too or once FFmpeg was reaped.  *)
(* A kill that finds FFmpeg ended but not yet reaped succeeds on some      *)
(* systems and fails on others; both are here.                             *)
(*                                                                         *)
(* Left out: frames, the callback for a new overlay, an FFmpeg that closes *)
(* its input and runs on, and the goroutine that copies stderr, which ends *)
(* when FFmpeg does.                                                       *)
(***************************************************************************)
VARIABLES
  ffmpeg,    \* running, ended by itself well or badly, or killed
  output,    \* FFmpeg's end of the output pipe
  why,       \* context.Cause of the run context
  watcher,   \* os/exec: watching, killed FFmpeg, or signalled one that had ended
  eof,       \* Stream.eof
  feed, feedErr,  \* the feed goroutine and the error it leaves
  overlay,   \* the overlay goroutine and its result
  closing,   \* the first Close
  wait, waitErr   \* waitOnce and the result every caller gets

process == <<ffmpeg, output, watcher>>
feeding == <<feed, feedErr, overlay>>
waiting == <<closing, wait, waitErr>>
vars == <<process, why, eof, feeding, waiting>>

Init ==
  /\ ffmpeg = "running" /\ output = "open" /\ why = "none" /\ watcher = "watching"
  /\ eof = FALSE /\ feed = "initial" /\ feedErr = "none"
  /\ overlay = "none"
  /\ closing = "no" /\ wait = "no" /\ waitErr = "none"

Done == why # "none"
CancelWith(cause) == why' = IF Done THEN why ELSE cause
Reaped == wait \in {"join", "done"}
StdinOpen == closing = "no" /\ ~Reaped

-----------------------------------------------------------------------------
(***************************************************************************)
(* feed and its overlay goroutine.                                         *)
(***************************************************************************)
Feed(place) == feed' = place /\ UNCHANGED <<process, eof, waiting>>

\* FFmpeg may leave a write blocked for as long as it runs.
WriteFrame ==
  /\ feed \in {"initial", "write"} /\ StdinOpen /\ ffmpeg = "running"
  /\ Feed("tick") /\ UNCHANGED <<why, feedErr, overlay>>

\* os.ErrClosed: Close or Wait owns the shutdown.
WriteClosed ==
  /\ feed \in {"initial", "write"} /\ ~StdinOpen
  /\ Feed("done") /\ UNCHANGED <<why, feedErr, overlay>>

WriteBreaks ==
  /\ feed \in {"initial", "write"} /\ StdinOpen /\ ffmpeg # "running"
  /\ Feed("done") /\ feedErr' = "write"
  /\ IF feed = "write" THEN CancelWith("write") ELSE UNCHANGED why
  /\ UNCHANGED overlay

FeedCancelled ==
  /\ feed = "tick" /\ Done
  /\ Feed("done") /\ UNCHANGED <<why, feedErr, overlay>>

Tick ==
  /\ feed = "tick" /\ overlay # "bad"
  /\ overlay' \in {overlay, "drawing"}  \* the interval is over
  /\ Feed("write") /\ UNCHANGED <<why, feedErr>>

OverlayFails ==
  /\ feed = "tick" /\ overlay = "bad"
  /\ Feed("done") /\ feedErr' = "overlay" /\ CancelWith("overlay")
  /\ UNCHANGED overlay

\* The next tick takes the frame, or the error.
Draw ==
  /\ overlay = "drawing" /\ overlay' \in {"none", "bad"}
  /\ UNCHANGED <<process, why, eof, feed, feedErr, waiting>>

-----------------------------------------------------------------------------
(***************************************************************************)
(* FFmpeg, its stderr and its watcher.                                     *)
(***************************************************************************)
FFmpegEnds ==
  /\ ffmpeg = "running" /\ ffmpeg' \in {"ok", "bad"} /\ output' = "shut"
  /\ UNCHANGED <<why, watcher, eof, feeding, waiting>>

\* "A child that only closes stdout" (Close).
ShutOutput ==
  /\ ffmpeg = "running" /\ output = "open" /\ output' = "shut"
  /\ UNCHANGED <<ffmpeg, why, watcher, eof, feeding, waiting>>

Kill ==
  /\ Done /\ watcher = "watching" /\ ~Reaped
  /\ IF ffmpeg = "running"
     THEN ffmpeg' = "killed" /\ watcher' = "killed" /\ output' = "shut"
     ELSE watcher' \in {"signalled", "late"} /\ UNCHANGED <<ffmpeg, output>>
  /\ UNCHANGED <<why, eof, feeding, waiting>>

-----------------------------------------------------------------------------
(***************************************************************************)
(* Read, Close and Wait, and the caller's context.                         *)
(***************************************************************************)
ReadEOF ==
  /\ output = "shut" /\ closing = "no"
  /\ eof' = TRUE
  /\ UNCHANGED <<process, why, feeding, waiting>>

\* mutant: Close kills FFmpeg whether it has ended or not
CloseAtOnce ==
  /\ closing = "no"
  /\ closing' = "cancelled" /\ CancelWith("closed")
  /\ wait' = "reap"
  /\ UNCHANGED <<process, eof, feeding, waitErr>>

BeginClose ==
  /\ closing = "no"
  /\ IF eof THEN closing' = "grace" /\ UNCHANGED why
     ELSE closing' = "cancelled" /\ CancelWith("closed")
  /\ wait' = "reap"
  /\ UNCHANGED <<process, eof, feeding, waitErr>>

\* mutant: a child that only closes its output is waited for
GraceForever == FALSE /\ UNCHANGED vars

GraceEnds ==
  /\ closing = "grace" /\ wait # "done"
  /\ closing' = "overtime" /\ CancelWith("closed")
  /\ UNCHANGED <<process, eof, feeding, wait, waitErr>>

Reap ==
  /\ wait = "reap" /\ ffmpeg # "running" /\ wait' = "join"
  /\ UNCHANGED <<process, why, eof, feeding, closing, waitErr>>

\* mutant: the overlay goroutine is not counted in Stream.workers
WorkersButOverlay == feed = "done"

WorkersEnded == feed = "done" /\ overlay # "drawing"

\* What Wait makes of the exit status, the cause and the feed's error.
Outcome ==
  LET Failed == ffmpeg \in {"bad", "killed"} \/ watcher = "signalled"
      Killed == watcher \in {"killed", "signalled"}
  IN  CASE Failed /\ Killed -> why
        [] Failed /\ ~Killed -> "exit"
        [] ~Failed -> IF feedErr # "none" THEN feedErr ELSE "nil"

FinishWait ==
  /\ wait = "join" /\ WorkersEnded
  /\ wait' = "done" /\ waitErr' = Outcome
  /\ UNCHANGED <<process, why, eof, feeding, closing>>

Returned == wait = "done"

ParentCancelled ==
  /\ CancelWith("canceled")
  /\ UNCHANGED <<process, eof, feeding, waiting>>

Feeder == WriteClosed \/ WriteBreaks \/ FeedCancelled \/ Tick \/ OverlayFails
Waiter == GraceEnds \/ Reap \/ FinishWait

\* What happens without a call from outside.
Step ==
  \/ WriteFrame \/ Feeder \/ Draw \/ FFmpegEnds \/ ShutOutput \/ Kill
  \/ Waiter

Next == Step \/ ReadEOF \/ BeginClose \/ ParentCancelled

Spec == Init /\ [][Next]_vars

-----------------------------------------------------------------------------
TypeOK ==
  /\ ffmpeg \in {"running", "ok", "bad", "killed"} /\ output \in {"open", "shut"}
  /\ why \in {"none", "write", "overlay", "closed", "canceled"}
  /\ watcher \in {"watching", "killed", "signalled", "late"}
  /\ eof \in BOOLEAN
  /\ feed \in {"initial", "tick", "write", "done"}
  /\ feedErr \in {"none", "write", "overlay"}
  /\ overlay \in {"none", "drawing", "bad"}
  /\ closing \in {"no", "grace", "overtime", "cancelled"}
  /\ wait \in {"no", "reap", "join", "done"}
  /\ waitErr \in {"none", "nil", "exit", "write", "overlay", "closed", "canceled"}

\* When Close returns nothing of the stream is left: FFmpeg is reaped, the feed
\* and an overlay still being drawn have ended ("joins its workers").
NothingRuns ==
  wait = "done" => ffmpeg # "running" /\ feed = "done" /\ overlay # "drawing"

\* Close reports success only when nothing failed before it: an overlay or a
\* write that stopped the stream is never hidden behind Close's own kill, and
\* neither is an FFmpeg that failed by itself within the grace period it gets once
\* the reader has seen its end.
FailureShown ==
  waitErr \in {"nil", "closed"} =>
    /\ why \notin {"overlay", "write"}
    /\ ~(eof /\ ffmpeg = "bad" /\ closing # "overtime")
=============================================================================
