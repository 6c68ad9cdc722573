----------------------------- MODULE H264Stream -----------------------------
(***************************************************************************)
(* One call of USB.SendH264Stream (internal/turzx/usb_stream.go): four     *)
(* activities share a stream context.                                      *)
(*                                                                         *)
(*   sender  the calling goroutine: takes chunks, uploads them, stops the  *)
(*           video and returns                                             *)
(*   reader  fills one chunk at a time from the encoder and offers it on   *)
(*           an unbuffered channel                                         *)
(*   timer   time.AfterFunc of the chunk being read, offered or taken      *)
(*   closer  closes the input once the context is done                     *)
(*                                                                         *)
(* A transfer is one step here; PanelUSB models what happens inside.  The  *)
(* reader starts the next chunk only when the previous timer was stopped,  *)
(* so one variable holds the timer.  What the input and its Close do is    *)
(* left open; LiveVideo puts the FFmpeg stream there.                      *)
(***************************************************************************)
EXTENDS Naturals, Sequences

CONSTANT MaxChunks  \* the source delivers at most this many full chunks

ASSUME ChunksAssumption == MaxChunks \in Nat \ {0}

VARIABLES
  sender,    \* where the call is
  held,      \* the chunk the sender has taken: its number and whether it is an error
  result,    \* what the call will report
  reader,    \* where the read goroutine is
  chunk,     \* the number of the chunk it works on
  sending,   \* chunk.sending is closed
  timer,     \* the timer of that chunk
  closer,    \* where the closing goroutine is
  cause,     \* the cause of the stream context
  input,     \* the encoder pipe
  ended,     \* the source has ended or failed by itself
  canceled,  \* the caller's context is done
  stops,     \* number of stop commands written
  sent,      \* history: the chunks whose transfer was started
  expired,   \* history: the chunk reported as late, or 0
  passed     \* history: the last chunk whose wait limit has passed, or 0

calling == <<sender, held, result, stops, sent>>
reading == <<reader, chunk, sending>>
source == <<input, ended, canceled>>
history == <<expired, passed>>
vars == <<calling, reading, timer, closer, cause, source, history>>

NoChunk == [n |-> 0, err |-> FALSE]
Done == cause # "none"

Init ==
  /\ sender = "start" /\ held = NoChunk /\ result = "none"
  /\ reader = "idle" /\ chunk = 0 /\ sending = FALSE
  /\ timer = "unset" /\ closer = "idle" /\ cause = "none"
  /\ input = "open" /\ ended = FALSE /\ canceled = FALSE
  /\ stops = 0 /\ sent = <<>> /\ expired = 0 /\ passed = 0

\* context.CancelCauseFunc: the first cause stays.
Cancelled(why) == IF Done THEN cause ELSE why

\* time.Timer.Stop: true, and no callback, only before the timer fires.
Stoppable == timer \in {"armed", "overdue"}
StopTimer == timer' = IF Stoppable THEN "stopped" ELSE timer

-----------------------------------------------------------------------------
(***************************************************************************)
(* The sender.                                                             *)
(***************************************************************************)
Return(why) == result' = why /\ sender' = "leave"

\* Bad options, an expired context or an unsynchronised device: no command is
\* written, only the input is closed.
Refuse ==
  /\ sender = "start"
  /\ result' = "refused" /\ sender' = "closing"
  /\ UNCHANGED <<held, stops, sent, reading, timer, closer, cause, source, history>>

Initialise ==
  /\ sender = "start" /\ sender' = "initialise"
  /\ UNCHANGED <<held, result, stops, sent, reading, timer, closer, cause, source, history>>

InitialiseFails ==
  /\ sender = "initialise"
  /\ result' = "usb" /\ sender' = "stop"
  /\ UNCHANGED <<held, stops, sent, reading, timer, closer, cause, source, history>>

StartStream ==
  /\ sender = "initialise" /\ sender' = "receive"
  /\ cause' = IF canceled THEN "canceled" ELSE "none"
  /\ closer' = "wait"
  /\ reader' = "read" /\ chunk' = 1 /\ timer' = "armed"
  /\ UNCHANGED <<held, result, stops, sent, sending, source, history>>

\* The unbuffered channel: sender and reader move together.
Receive ==
  /\ sender = "receive" /\ reader \in {"offer", "offerError"}
  /\ held' = [n |-> chunk, err |-> reader = "offerError"]
  /\ sender' = "check"
  /\ reader' = IF reader = "offerError" THEN "exit" ELSE "await"
  /\ UNCHANGED <<result, stops, sent, chunk, sending, timer, closer, cause, source, history>>

ReceiveDone ==
  /\ sender = "receive" /\ Done
  /\ Return(cause)
  /\ UNCHANGED <<held, stops, sent, reading, timer, closer, cause, source, history>>

\* mutant: the context is not checked again after a chunk was received
CheckErrorOnly ==
  /\ sender = "check"
  /\ \/ held.err /\ Return("source")
     \/ ~held.err /\ sender' = "commit" /\ UNCHANGED result
  /\ UNCHANGED <<held, stops, sent, reading, timer, closer, cause, source, history>>

Check ==
  /\ sender = "check"
  /\ \/ Done /\ Return(cause) /\ StopTimer
     \/ ~Done /\ held.err /\ Return("source") /\ UNCHANGED timer
     \/ ~Done /\ ~held.err /\ sender' = "commit" /\ UNCHANGED <<result, timer>>
  /\ UNCHANGED <<held, stops, sent, reading, closer, cause, source, history>>

\* wait >= chunkWait || !timer.Stop(): the deadline may pass between the two.
\* A timer that the reader has stopped is too late as well.
AnyTime == TRUE  \* mutant: the timer is not asked

InTime == Stoppable
TooLate == timer # "armed"

Commit ==
  /\ sender = "commit" /\ InTime
  /\ timer' = "stopped" /\ sending' = TRUE
  /\ sender' = "send" /\ sent' = Append(sent, held.n)
  /\ UNCHANGED <<held, result, stops, reader, chunk, closer, cause, source, history>>

CommitLate ==
  /\ sender = "commit" /\ TooLate
  /\ Return("timeout")
  /\ cause' = Cancelled("timeout") /\ expired' = held.n
  /\ UNCHANGED <<held, stops, sent, reading, timer, closer, source, passed>>

\* The transfer and then the queue poll succeed or fail within their time limits.
Transfer ==
  /\ \/ sender = "send" /\ sender' = "queue"
     \/ sender = "queue" /\ sender' = "receive"
  /\ UNCHANGED <<held, result, stops, sent, reading, timer, closer, cause, source, history>>

TransferFails ==
  /\ sender \in {"send", "queue"}
  /\ Return(IF Done THEN cause ELSE "usb")
  /\ UNCHANGED <<held, stops, sent, reading, timer, closer, cause, source, history>>

Leave ==
  /\ sender = "leave" /\ sender' = "join"
  /\ cause' = Cancelled("finished")
  /\ UNCHANGED <<held, result, stops, sent, reading, timer, closer, source, history>>

Join ==
  /\ sender = "join" /\ closer = "exit" /\ reader = "exit"
  /\ sender' = "stop"
  /\ UNCHANGED <<held, result, stops, sent, reading, timer, closer, cause, source, history>>

StopVideo ==
  /\ sender = "stop" /\ sender' = "closing"
  /\ stops' = stops + 1
  /\ UNCHANGED <<held, result, sent, reading, timer, closer, cause, source, history>>

CloseInput ==
  /\ sender = "closing" /\ sender' = "closed"
  /\ input' = "closed"
  /\ UNCHANGED <<held, result, stops, sent, reading, timer, closer, cause, ended,
                 canceled, history>>

CallReturns ==
  /\ sender = "closed" /\ sender' = "returned"
  /\ UNCHANGED <<held, result, stops, sent, reading, timer, closer, cause, source, history>>

-----------------------------------------------------------------------------
(***************************************************************************)
(* The reader, the timer and the closer.                                   *)
(***************************************************************************)
\* mutant: the limit covers the read only, the timer is stopped when it succeeds
ReadChunkStops ==
  /\ reader = "read" /\ input = "open" /\ ~ended /\ chunk <= MaxChunks
  /\ StopTimer
  /\ reader' = "offer"
  /\ UNCHANGED <<calling, chunk, sending, closer, cause, source, history>>

ReadChunk ==
  /\ reader = "read" /\ input = "open" /\ ~ended /\ chunk <= MaxChunks
  /\ reader' = "offer"
  /\ UNCHANGED <<calling, chunk, sending, timer, closer, cause, source, history>>

ReadFails ==
  /\ reader = "read" /\ (ended \/ input = "closed")
  /\ StopTimer
  /\ reader' = "offerError"
  /\ UNCHANGED <<calling, chunk, sending, closer, cause, source, history>>

\* mutant: the timer of an abandoned chunk is left running
ReaderQuitsArmed ==
  /\ reader \in {"offer", "offerError", "await"} /\ Done
  /\ reader' = "exit"
  /\ UNCHANGED <<calling, chunk, sending, timer, closer, cause, source, history>>

\* <-streamCtx.Done() while offering a chunk or waiting for its transfer.
ReaderQuits ==
  /\ reader \in {"offer", "offerError", "await"} /\ Done
  /\ StopTimer
  /\ reader' = "exit"
  /\ UNCHANGED <<calling, chunk, sending, closer, cause, source, history>>

NextChunk ==
  /\ reader = "await" /\ sending
  /\ reader' = "read" /\ chunk' = chunk + 1 /\ sending' = FALSE
  /\ timer' = "armed"
  /\ UNCHANGED <<calling, closer, cause, source, history>>

Overdue ==
  /\ timer = "armed" /\ timer' = "overdue" /\ passed' = chunk
  /\ UNCHANGED <<calling, reading, closer, cause, source, expired>>

Fire ==
  /\ timer = "overdue" /\ timer' = "fired"
  /\ UNCHANGED <<calling, reading, closer, cause, source, history>>

\* The callback runs in a goroutine of its own that nobody joins.
Callback ==
  /\ timer = "fired" /\ timer' = "called"
  /\ cause' = Cancelled("timeout") /\ expired' = chunk
  /\ UNCHANGED <<calling, reading, closer, source, passed>>

\* Close unblocks the reader when it begins, and may take a while to return.
Closer ==
  /\ closer = "wait" /\ Done
  /\ closer' = "closing" /\ input' = "closed"
  /\ UNCHANGED <<calling, reading, timer, cause, ended, canceled, history>>

CloserReturns ==
  /\ closer = "closing" /\ closer' = "exit"
  /\ UNCHANGED <<calling, reading, timer, cause, source, history>>

(***************************************************************************)
(* The caller and the encoder.                                             *)
(***************************************************************************)
Cancel ==
  /\ ~canceled /\ canceled' = TRUE
  /\ cause' = IF closer = "idle" THEN cause ELSE Cancelled("canceled")
  /\ UNCHANGED <<calling, reading, timer, closer, input, ended, history>>

SourceEnds ==
  /\ ~ended /\ ended' = TRUE
  /\ UNCHANGED <<calling, reading, timer, closer, cause, input, canceled, history>>

Sender ==
  \/ Refuse \/ Initialise \/ InitialiseFails \/ StartStream
  \/ Receive \/ ReceiveDone \/ Check \/ Commit \/ CommitLate
  \/ Transfer \/ TransferFails
  \/ Leave \/ Join \/ StopVideo \/ CloseInput \/ CallReturns
ReaderStops == ReadFails \/ ReaderQuits
Timer == Overdue \/ Fire \/ Callback
Closing == Closer \/ CloserReturns

Next ==
  \/ Sender \/ ReadChunk \/ ReaderStops \/ NextChunk
  \/ Timer \/ Closing \/ Cancel \/ SourceEnds

Spec == Init /\ [][Next]_vars

-----------------------------------------------------------------------------
TypeOK ==
  /\ sender \in {"start", "initialise", "receive", "check", "commit", "send", "queue",
                 "leave", "join", "stop", "closing", "closed", "returned"}
  /\ held \in [n : Nat, err : BOOLEAN]
  /\ result \in {"none", "refused", "usb", "source", "timeout", "canceled"}
  /\ reader \in {"idle", "read", "offer", "offerError", "await", "exit"}
  /\ chunk \in Nat
  /\ timer \in {"unset", "armed", "overdue", "fired", "called", "stopped"}
  /\ closer \in {"idle", "wait", "closing", "exit"}
  /\ cause \in {"none", "timeout", "canceled", "finished"}
  /\ input \in {"open", "closed"}
  /\ {sending, ended, canceled} \subseteq BOOLEAN
  /\ stops \in 0..1 /\ sent \in Seq(Nat) /\ {expired, passed} \subseteq Nat

\* Chunks are uploaded in the order they were read, each at most once, and the
\* reader is never more than one chunk ahead of the transfers.
SentInOrder ==
  /\ \A i \in 1..Len(sent) : sent[i] = i
  /\ chunk <= Len(sent) + 1

\* The timer and the sender agree on every chunk: one that is reported late is
\* never uploaded, whenever the timer fires.
LateNeverSent == \A i \in 1..Len(sent) : sent[i] # expired

\* The video is stopped and the call returns only after both goroutines have
\* exited and no timer is left that could fire later.
NothingLeftBehind ==
  /\ sender \in {"stop", "closing", "closed", "returned"} =>
       /\ reader \in {"idle", "exit"} /\ closer \in {"idle", "exit"}
       /\ ~Stoppable
  /\ sender \in {"closed", "returned"} => input = "closed"

\* The cause that the call reports is one that occurred.  The encoder is blamed
\* only when it ended by itself, not for the read error that closing its pipe
\* provokes; a cancellation only when the caller cancelled; a late chunk only when
\* the limit of that chunk has passed or the caller cancelled.  The last exception
\* is the code's: a reader that leaves on a cancellation stops the timer of the
\* chunk the sender is about to commit, and the sender takes every timer it cannot
\* stop itself for one that has run out.
BlameIsHonest ==
  /\ result = "source" => ended
  /\ result = "canceled" => canceled
  /\ result = "timeout" => expired # 0 /\ (passed = expired \/ canceled)

\* Whatever the encoder does, the call returns once it stalls or is cancelled
\* (and then stays returned, so that "again and again" says the same as "once").
AlwaysReturns == []<>(sender = "returned")
=============================================================================
