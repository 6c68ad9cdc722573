----------------------------- MODULE LiveVideo ------------------------------
(***************************************************************************)
(* One live video of the display loop (runVideo, internal/daemon): the     *)
(* upload of H264Stream reads from and closes the FFmpeg stream of         *)
(* RenderStream, and both watch the caller's context.                      *)
(*                                                                         *)
(* Where SendH264Stream demands that Close unblocks a Read and returns,    *)
(* the steps of the upload are tied here to what the encoder does: a Read  *)
(* that ends is the encoder's end of file or its closed pipe, a Close      *)
(* begins and waits in render.go, and the upload's goroutines go on while  *)
(* it waits.                                                               *)
(***************************************************************************)
EXTENDS H264Stream

VARIABLES
  ffmpeg, output, why, watcher, eof, feed, feedErr, overlay, closing,
  wait, waitErr  \* RenderStream

Encoder == INSTANCE RenderStream

encoder == <<ffmpeg, output, why, watcher, eof, feed, feedErr, overlay, closing,
             wait, waitErr>>
liveVars == <<vars, encoder>>

LiveInit == Init /\ Encoder!Init

-----------------------------------------------------------------------------
EncoderStays == UNCHANGED encoder
UploadStays == UNCHANGED vars

\* io.ReadFull: at the end of FFmpeg's output, or on a pipe that was closed.
LiveReadFails ==
  /\ ReadFails
  /\ \/ input = "open" /\ Encoder!ReadEOF
     \/ input = "closed" /\ EncoderStays

\* The pipe may still hold whole chunks when FFmpeg closes its end.
LiveSourceEnds == output = "shut" /\ SourceEnds /\ EncoderStays

\* closeInput calls Stream.Close once, from the closing goroutine or the call,
\* and whoever does waits for it.
LiveCloser == Closer /\ Encoder!BeginClose
LiveCloserReturns == CloserReturns /\ Encoder!Returned /\ EncoderStays
LiveCloseInput ==
  /\ CloseInput
  /\ \/ input = "open" /\ Encoder!BeginClose
     \/ input = "closed" /\ EncoderStays
LiveCallReturns == CallReturns /\ Encoder!Returned /\ EncoderStays

\* Both contexts derive from the caller's and are cancelled with it.
LiveCancel == Cancel /\ Encoder!ParentCancelled

LiveSender ==
  \/ /\ \/ Refuse \/ Initialise \/ InitialiseFails \/ StartStream
        \/ Receive \/ ReceiveDone \/ Check \/ Commit \/ CommitLate
        \/ Transfer \/ TransferFails \/ Leave \/ Join \/ StopVideo
     /\ EncoderStays
  \/ LiveCloseInput \/ LiveCallReturns
LiveReaderStops == LiveReadFails \/ (ReaderQuits /\ EncoderStays)
LiveClosing == LiveCloser \/ LiveCloserReturns

LiveNext ==
  \/ LiveSender \/ LiveReaderStops \/ LiveClosing
  \/ (ReadChunk \/ NextChunk \/ Timer) /\ EncoderStays
  \/ LiveSourceEnds \/ LiveCancel
  \/ Encoder!Step /\ UploadStays

\* Goroutines are scheduled, also os/exec's; transfers are bounded by their
\* timeouts, time passes, a killed process ends and an overlay is drawn in the
\* end.  FFmpeg itself need neither read its input, nor write, nor end, and the
\* pipe need not run dry.
LiveFairness ==
  /\ WF_liveVars(LiveSender) /\ WF_liveVars(LiveReaderStops)
  /\ WF_liveVars(NextChunk /\ EncoderStays) /\ WF_liveVars(Timer /\ EncoderStays)
  /\ WF_liveVars(LiveClosing)
  /\ WF_liveVars(Encoder!Feeder /\ UploadStays) /\ WF_liveVars(Encoder!Draw /\ UploadStays)
  /\ WF_liveVars(Encoder!Kill /\ UploadStays) /\ WF_liveVars(Encoder!Waiter /\ UploadStays)

LiveSpec == LiveInit /\ [][LiveNext]_liveVars
LiveFairSpec == LiveSpec /\ LiveFairness

-----------------------------------------------------------------------------
LiveTypeOK == TypeOK /\ Encoder!TypeOK

\* The call returns only when nothing of the encoder is left: FFmpeg is reaped
\* and its feed and the overlay being drawn have ended.
NothingRuns == (sender = "returned" => wait = "done") /\ Encoder!NothingRuns

\* A failure of the encoder that came first is not hidden by Close's own kill.
FailureShown == Encoder!FailureShown
=============================================================================
