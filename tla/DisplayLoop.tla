----------------------------- MODULE DisplayLoop -----------------------------
(***************************************************************************)
(* The display daemon (internal/daemon/display.go): one serial loop that   *)
(* opens the panel, synchronises it, plays H264 video, falls back to a     *)
(* static PNG and retries, reconnects with a growing delay, and hands the  *)
(* panel back to its firmware screen at shutdown.                          *)
(*                                                                         *)
(* Every operation on turzx.USB is one step with the outcomes that         *)
(* internal/turzx/usb.go can report; PanelUSB and H264Stream look inside   *)
(* them.  The context may be cancelled between any two steps, and the      *)
(* panel may become unhealthy (unplugged, silent) and recover at any time. *)
(***************************************************************************)
EXTENDS Integers

CONSTANTS
  Limit,        \* videoRetryLimit
  MaxBackoff    \* longest reconnect delay, in seconds

ASSUME LoopAssumption == Limit \in Nat /\ MaxBackoff \in Nat \ {0}

VARIABLES
  phase,        \* where the loop is
  canceled,     \* ctx.Err() # nil
  attempts,     \* displayBudget.attempts
  progressing,  \* displayBudget.progressSince is set
  backoff,      \* reconnect delay, in seconds
  handle,       \* the USB handle is open
  inSync,       \* USB.synced
  renderer,     \* an H264 stream from render.Start is open
  held,         \* the PNG fallback is held (runPNG), not timed (runPNGUntil)
  left,         \* seconds runPNGUntil still shows the PNG
  fault,        \* class of the error runConnected returned
  ui,           \* last DisplayState.Status
  screen,       \* what the panel shows: its firmware screen or a host image
  healthy,      \* the panel is present and answers
  uploaded      \* history: an upload was accepted since the last open

panel == <<screen, healthy>>
loopVars == <<phase, canceled, attempts, progressing, backoff, handle, inSync,
          renderer, held, left, fault, ui, screen, healthy, uploaded>>

Phases == {"connect", "syncing", "choose", "starting", "streaming", "resync",
           "charged", "png", "pngwait", "closing", "backoff", "stopped"}
Faults == {"none", "cancel", "transport"}

Smaller(a, b) == IF a <= b THEN a ELSE b

\* A USB operation succeeds only on a live context, and cannot fail on a live
\* context while the panel is healthy.
MayFail == canceled \/ ~healthy
MaySucceed == ~canceled

\* stripCancellation: an error seen while ctx is cancelled may be the
\* cancellation alone or a transport failure as well.
Failure == IF canceled THEN {"cancel", "transport"} ELSE {"transport"}

\* The end of runConnection in runDisplay: stop if ctx is cancelled, otherwise
\* report the loss and wait to reconnect.
LeaveConnection(error) ==
  /\ phase' = IF canceled THEN "stopped" ELSE "backoff"
  /\ ui' = IF ~canceled THEN "disconnected"
           ELSE IF error = "transport" THEN "error" ELSE "stopped"

\* markSuccess and what an accepted upload leaves on the panel.
Upload ==
  /\ uploaded' = TRUE
  /\ backoff' = 1
  /\ screen' = "host"

-----------------------------------------------------------------------------
LoopInit ==
  /\ phase = "connect" /\ canceled = FALSE
  /\ attempts = 0 /\ progressing = FALSE /\ backoff = 1
  /\ handle = FALSE /\ inSync = FALSE /\ renderer = FALSE
  /\ held = FALSE /\ left = 0 /\ fault = "none"
  /\ ui = "starting" /\ screen = "firmware"
  /\ healthy \in BOOLEAN
  /\ uploaded = FALSE

(***************************************************************************)
(* runDisplay and runConnection.                                           *)
(***************************************************************************)
ObserveCancel ==
  /\ phase = "connect" /\ canceled
  /\ phase' = "stopped" /\ ui' = "stopped"
  /\ UNCHANGED <<canceled, attempts, progressing, backoff, handle, inSync,
                 renderer, held, left, fault, panel, uploaded>>

Open ==
  /\ phase = "connect" /\ MaySucceed /\ healthy
  /\ phase' = "syncing" /\ handle' = TRUE
  /\ uploaded' = FALSE
  /\ UNCHANGED <<canceled, attempts, progressing, backoff, inSync, renderer,
                 held, left, fault, ui, panel>>

OpenFails ==
  /\ phase = "connect" /\ MayFail
  /\ \E error \in Failure : LeaveConnection(error)
  /\ uploaded' = FALSE
  /\ UNCHANGED <<canceled, attempts, progressing, backoff, handle, inSync,
                 renderer, held, left, fault, panel>>

SyncPanel ==
  /\ phase = "syncing" /\ MaySucceed
  /\ phase' = "choose" /\ inSync' = TRUE
  /\ UNCHANGED <<canceled, attempts, progressing, backoff, handle, renderer,
                 held, left, fault, ui, panel, uploaded>>

SyncFails ==
  /\ phase = "syncing" /\ MayFail
  /\ \E error \in Failure : LeaveConnection(error)
  /\ handle' = FALSE /\ inSync' = FALSE
  /\ UNCHANGED <<canceled, attempts, progressing, backoff, renderer, held,
                 left, fault, panel, uploaded>>

\* Shutdown hands the panel back with Restart under a context of its own; the
\* device is closed either way.
Close ==
  /\ phase = "closing"
  /\ LeaveConnection(fault)
  /\ handle' = FALSE /\ inSync' = FALSE /\ fault' = "none"
  /\ IF canceled
     THEN screen' \in {screen, "firmware"}  \* Restart may fail
     ELSE UNCHANGED screen
  /\ UNCHANGED <<canceled, attempts, progressing, backoff, renderer, held,
                 left, healthy, uploaded>>

\* mutant: the loop gives the panel up at the longest delay
ReconnectGivesUp ==
  /\ phase = "backoff"
  /\ IF canceled \/ backoff = MaxBackoff
     THEN phase' = "stopped" /\ ui' = "stopped" /\ UNCHANGED backoff
     ELSE /\ phase' = "connect"
          /\ backoff' = Smaller(2 * backoff, MaxBackoff)
          /\ UNCHANGED ui
  /\ UNCHANGED <<canceled, attempts, progressing, handle, inSync, renderer,
                 held, left, fault, panel, uploaded>>

Reconnect ==
  /\ phase = "backoff"
  /\ IF canceled
     THEN phase' = "stopped" /\ ui' = "stopped" /\ UNCHANGED backoff
     ELSE /\ phase' = "connect"
          /\ backoff' = Smaller(2 * backoff, MaxBackoff)
          /\ UNCHANGED ui
  /\ UNCHANGED <<canceled, attempts, progressing, handle, inSync, renderer,
                 held, left, fault, panel, uploaded>>

(***************************************************************************)
(* runConnected and runVideo.                                              *)
(***************************************************************************)
\* mutant: one video too many is tried
ChooseOnceMore ==
  /\ phase = "choose"
  /\ phase' = IF canceled THEN "closing"
              ELSE IF attempts > Limit + 1 THEN "png" ELSE "starting"
  /\ held' = (attempts > Limit + 1)
  /\ UNCHANGED <<canceled, attempts, progressing, backoff, handle, inSync,
                 renderer, left, fault, ui, panel, uploaded>>

\* The loop head: an exhausted budget holds the PNG, otherwise video is tried.
Choose ==
  /\ phase = "choose"
  /\ phase' = IF canceled THEN "closing"
              ELSE IF attempts > Limit THEN "png" ELSE "starting"
  /\ held' = (attempts > Limit)
  /\ UNCHANGED <<canceled, attempts, progressing, backoff, handle, inSync,
                 renderer, left, fault, ui, panel, uploaded>>

StartRenderer ==
  /\ phase = "starting"
  /\ IF canceled
     THEN phase' = "closing" /\ fault' \in Failure /\ UNCHANGED <<renderer, ui>>
     ELSE phase' = "streaming" /\ renderer' = TRUE /\ ui' = "starting" /\ UNCHANGED fault
  /\ UNCHANGED <<canceled, attempts, progressing, backoff, handle, inSync,
                 held, left, panel, uploaded>>

\* A renderer that cannot start charges the budget without touching the panel.
StartFails ==
  /\ phase = "starting"
  /\ IF canceled
     THEN phase' = "closing" /\ fault' \in Failure /\ UNCHANGED attempts
     ELSE phase' = "charged" /\ attempts' = attempts + 1 /\ UNCHANGED fault
  /\ UNCHANGED <<canceled, progressing, backoff, handle, inSync, renderer,
                 held, left, ui, panel, uploaded>>

\* OnProgress: a chunk was accepted.  Half an hour of progress clears the budget.
Progress(sustained) ==
  /\ phase = "streaming"
  /\ sustained => progressing
  /\ attempts' = IF sustained THEN 0 ELSE attempts
  /\ progressing' = TRUE
  /\ ui' = "video"
  /\ Upload
  /\ UNCHANGED <<phase, canceled, handle, inSync, renderer, held, left, fault,
                 healthy>>

\* mutant: the end of a video is charged before the panel has answered again
StreamEndsCharged ==
  /\ phase = "streaming"
  /\ renderer' = FALSE /\ progressing' = FALSE /\ inSync' = FALSE
  /\ screen' \in {screen, "host"}
  /\ attempts' = attempts + 1
  /\ IF canceled
     THEN phase' = "closing" /\ fault' \in Failure
     ELSE phase' = "resync" /\ UNCHANGED fault
  /\ UNCHANGED <<canceled, backoff, handle, held, left, ui, healthy, uploaded>>

\* mutant: a stream does not watch its context
StreamEndsOnFault ==
  /\ phase = "streaming" /\ ~healthy
  /\ renderer' = FALSE /\ progressing' = FALSE /\ inSync' = FALSE
  /\ screen' \in {screen, "host"}
  /\ IF canceled
     THEN phase' = "closing" /\ fault' \in Failure
     ELSE phase' = "resync" /\ UNCHANGED fault
  /\ UNCHANGED <<canceled, attempts, backoff, handle, held, left, ui, healthy,
                 uploaded>>

\* A live stream only ends with an error, after its stop command, and leaves
\* the device unsynchronised.  Initialisation may already have cleared the panel.
StreamEnds ==
  /\ phase = "streaming"
  /\ renderer' = FALSE /\ progressing' = FALSE /\ inSync' = FALSE
  /\ screen' \in {screen, "host"}
  /\ IF canceled
     THEN phase' = "closing" /\ fault' \in Failure
     ELSE phase' = "resync" /\ UNCHANGED fault
  /\ UNCHANGED <<canceled, attempts, backoff, handle, held, left, ui, healthy,
                 uploaded>>

Resync ==
  /\ phase = "resync" /\ MaySucceed
  /\ phase' = "charged" /\ inSync' = TRUE /\ attempts' = attempts + 1
  /\ UNCHANGED <<canceled, progressing, backoff, handle, renderer, held, left,
                 fault, ui, panel, uploaded>>

\* mutant: a panel that does not answer is charged and goes on with the PNG
ResyncFailsCharged ==
  /\ phase = "resync" /\ MayFail
  /\ phase' = "charged" /\ attempts' = attempts + 1
  /\ UNCHANGED <<canceled, progressing, backoff, handle, inSync, renderer, held,
                 left, fault, ui, panel, uploaded>>

ResyncFails ==
  /\ phase = "resync" /\ MayFail
  /\ phase' = "closing" /\ fault' \in Failure
  /\ UNCHANGED <<canceled, attempts, progressing, backoff, handle, inSync,
                 renderer, held, left, ui, panel, uploaded>>

\* After a charged attempt: hold the PNG, or show it for 1, 2, 4... seconds.
FallBack ==
  /\ phase = "charged"
  /\ IF canceled
     THEN phase' = "closing" /\ UNCHANGED <<held, left, ui>>
     ELSE /\ phase' = "png" /\ ui' = "starting"
          /\ held' = (attempts > Limit)
          /\ left' = IF attempts > Limit THEN 0 ELSE 2 ^ (attempts - 1)
  /\ UNCHANGED <<canceled, attempts, progressing, backoff, handle, inSync,
                 renderer, fault, panel, uploaded>>

(***************************************************************************)
(* runPNG and runPNGUntil.                                                 *)
(***************************************************************************)
\* Time passes while the PNG is drawn and sent.
RunPNG ==
  /\ phase = "png" /\ MaySucceed
  /\ phase' = "pngwait" /\ ui' = "fallback"
  /\ left' \in 0..left
  /\ Upload
  /\ UNCHANGED <<canceled, attempts, progressing, handle, inSync, renderer,
                 held, fault, healthy>>

\* A failed transfer loses the synchronisation; a context cancelled before the
\* transfer does not.
RunPNGFails ==
  /\ phase = "png" /\ MayFail
  /\ phase' = "closing" /\ fault' \in Failure
  /\ inSync' \in {inSync, FALSE}
  /\ UNCHANGED <<canceled, attempts, progressing, backoff, handle, renderer,
                 held, left, ui, panel, uploaded>>

PNGWait ==
  /\ phase = "pngwait"
  /\ IF held
     THEN /\ phase' \in IF canceled THEN {"closing", "png"} ELSE {"png"}
          /\ UNCHANGED left
     ELSE IF left = 0 \/ canceled
     THEN phase' = "choose" /\ UNCHANGED left
     ELSE phase' = "png" /\ left' = left - 1
  /\ UNCHANGED <<canceled, attempts, progressing, backoff, handle, inSync,
                 renderer, held, fault, ui, panel, uploaded>>

(***************************************************************************)
(* The environment.                                                        *)
(***************************************************************************)
Cancel ==
  /\ ~canceled /\ phase # "stopped"
  /\ canceled' = TRUE
  /\ UNCHANGED <<phase, attempts, progressing, backoff, handle, inSync,
                 renderer, held, left, fault, ui, panel, uploaded>>

\* The panel falls silent or comes back; one that lost power shows its firmware
\* screen again.
PanelChanges ==
  /\ healthy' = ~healthy
  /\ screen' \in IF healthy THEN {screen} ELSE {screen, "firmware"}
  /\ UNCHANGED <<phase, canceled, attempts, progressing, backoff, handle,
                 inSync, renderer, held, left, fault, ui, uploaded>>

Loop ==
  \/ ObserveCancel \/ Open \/ OpenFails \/ SyncPanel \/ SyncFails \/ Close \/ Reconnect
  \/ Choose \/ StartRenderer \/ StartFails \/ StreamEnds
  \/ Resync \/ ResyncFails \/ FallBack
  \/ RunPNG \/ RunPNGFails \/ PNGWait

LoopNext ==
  \/ Loop
  \/ \E sustained \in BOOLEAN : Progress(sustained)
  \/ Cancel
  \/ PanelChanges

LoopSpec == LoopInit /\ [][LoopNext]_loopVars

\* The goroutine of RunDisplay runs, its waits are bounded by timers, and every
\* USB transfer is bounded by DisplayOptions.Timeout.  A video may go on for
\* ever, so its end is fair only once the context is cancelled.
RunLoop == Loop /\ ~(phase = "streaming" /\ ~canceled)
KeepStreaming == phase = "streaming" /\ (StreamEnds \/ \E s \in BOOLEAN : Progress(s))

FairSpec == LoopSpec /\ WF_loopVars(RunLoop) /\ WF_loopVars(KeepStreaming)

-----------------------------------------------------------------------------
LoopTypeOK ==
  /\ phase \in Phases /\ fault \in Faults
  /\ {canceled, progressing, handle, inSync, renderer, held, healthy, uploaded}
       \subseteq BOOLEAN
  /\ attempts \in Nat /\ left \in Nat /\ backoff \in 1..MaxBackoff
  /\ ui \in {"starting", "video", "fallback", "disconnected", "error", "stopped"}
  /\ screen \in {"firmware", "host"}

\* Whenever the loop is about to upload, or waits between uploads, it holds an
\* open and synchronised device: no path through retries, failed videos and
\* reconnects reaches SendPNG or SendH264Stream without a successful Sync since
\* the last failure ("Call Sync before SendPNG. Any transaction failure requires
\* another Sync", usb.go).
UploadsOnlySynced ==
  phase \in {"choose", "starting", "streaming", "charged", "png", "pngwait"} =>
    handle /\ inSync

\* The USB handle and the renderer are released on every path out of a
\* connection: none is open while the loop waits to reconnect or has stopped,
\* and only one renderer feeds the panel at a time.
NothingLeaks ==
  /\ phase \in {"connect", "backoff", "stopped"} => ~handle /\ ~inSync
  /\ renderer <=> phase = "streaming"

\* The retry budget stays in range, so the PNG delay 1 << (attempts - 1) never
\* shifts by a negative count.
BudgetInRange ==
  /\ attempts \in 0..(Limit + 1)
  /\ phase = "charged" => attempts >= 1
  /\ phase \in {"starting", "streaming", "resync"} => attempts <= Limit

\* The budget is charged only while the panel answers: a device that vanished
\* counts as a reconnect, never as a video failure (comment of runVideo).
ChargedOnlyWhilePanelAnswers ==
  [][attempts' > attempts => handle' /\ inSync' /\ ~canceled]_loopVars

\* Once the budget is exhausted the PNG is held for good, through disconnects
\* and reconnects: nothing clears the budget and no video is started again.
HeldForGood ==
  [][attempts > Limit => attempts' = attempts /\ ~renderer']_loopVars

\* After a cancellation the loop always stops, whatever the panel does.
Shutdown == canceled ~> phase = "stopped"

\* A panel that stays healthy is driven again, and stays driven, however often
\* it failed before.
ComesBack == <>[](healthy /\ ~canceled) => <>[](handle /\ uploaded)

=============================================================================
