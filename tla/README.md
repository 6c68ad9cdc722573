# TLA+ models of turzx-control

turzx-control drives a TURZX USB panel with an animated background and an
overlay of hardware readings and of Codex and Claude usage limits. These modules
specify the parts of the program whose control is hard to test: concurrent
goroutines, a device that answers late or not at all, files that two programs
write, restarts, deadlines. TLC checks them on small instances; TLAPS proves
every safety property of the passing runs for all values of the constants.

## 1. The system

```
 browser page --HTTP--> app (server.go, runtime.go)          Claude Code
                         |  requests, watcher                  | runs the statusline
                         |                                     v
                         +--> profile files (internal/claude) <-- hook --> turzx-claude-status
                         |        settings.json, sidecar               | writes
                         v                                             v
                        Sources (daemon/collector.go) <----------- inbox files
                         |   codexLoop --> codex app-server (internal/codex)
                         |   claudeLoop --> inbox scan (internal/claude)
                         |   hardwareLoop --> turzx-sensors (internal/metric)
                         |   usage.Model per connection (internal/usage)
                         v  Dashboard()
                        RunDisplay (daemon/display.go) --> render.Start (FFmpeg pipe)
                         |                                      |
                         v                                      v
                        USB (turzx/usb.go) <---- SendH264Stream (turzx/usb_stream.go)
```

| Component | State | Operations | Hard behaviour | What makes it correct |
|---|---|---|---|---|
| Usage model, `internal/usage` | per window: current and previous observation, receipt and change times, status | `Update` with a result or an error, `ViewAt` | late and repeated answers, reset boundary, restart baseline, staleness | a value shown as current is live and received; reset history never moves back; OK means fresh |
| Display loop, `daemon/display.go` | retry budget, backoff, handle, fallback | open, sync, video, PNG, resync, reconnect, shutdown | panel vanishing at any step, cancellation at any step | upload only when synced, release everywhere, charge only an answering panel, always stop |
| Panel USB, `turzx/usb.go` | `synced`, the transaction in progress | `Sync`, `SendPNG`, `SendH264`, `Restart`, `Close` | late replies without serial numbers, lost stop command | an upload's reply is its own; no image into a running video |
| Live stream, `turzx/usb_stream.go` | stream context and its cause, chunk and its timer | `SendH264Stream`: sender, reader, timer, closer | four goroutines, timer racing the sender, blocked pipe read | order, no late chunk, joined goroutines, honest cause, termination |
| Claude profile, `internal/claude` (profile.go, binding.go) | `settings.json` statusLine, sidecar | install, confirm, forget, uninstall, restore | crash between two files, user edits | the user's line is never lost; only the newest confirmed binding is restored |
| Claude connection, `cmd/turzx-control` | `claudeStatus`, `claudeAccount`, the source | connect, login, disconnect, watcher, restart | requests, watcher and restart interleaved, every call may fail | agreement at rest, a disconnect holds |
| Codex connection, `cmd/turzx-control` | `status`, the source | login, logout, `observedCodex`, the end of the program | collector reporting while a request runs, sources closed under a request | the page agrees with the collector, one collector, the program ends |
| Sources, `daemon/collector.go` | one `sourceRun` per provider, labels | replace, collect, close | waiting for the old collector, close during replace | a retired collector never reports |
| Claude inbox, `internal/claude/claude.go` | session files and their locks | `Store.Write`, `Receiver.Observe` | concurrent adapters, killed writers, replayed files | sequence numbers per session, a file is a baseline or fresh, never both |
| Codex client, `internal/codex` | pending request, notifications, account | request, notify, login, logout, close | late reply, reply of another id, dead process | a reply answers its own request; a changed account stops collection |
| Sensor client, `metric/sensor_helper.go` with `hardwareLoop` | helper process, its reader and pending line, restart delay | start, sample, close, restart | late sample, hanging or dead helper, a time limit that fires in its own goroutine | a sample belongs to its request, one helper at a time, it is restarted |
| Renderer, `render/render.go` | FFmpeg, overlay feed, pipe | start, read, wait, close | three goroutines and a process ending in any order | nothing left running, first error kept |
| Hardware readings, themes, config, autostart, tools, scripts | - | - | operating system calls, drawing | not modelled, section 7 |

## 2. The modules

### UsageModel (and UsagePromise)
`usage.go`, `provider.go`. `window[k]` is the `windowState` of a window; `clock`
the callers' `time.Now()`. `Succeed` is `Update` with a result: `Accept` for
each window it carries (`accept`), `Missing` for the others (`missing`).
`FailWith` is `Update` with an error status. `Shown`, `ShownStatus` and
`ScopeStatus` are `ViewAt` and `aggregateStatus`. An observation keeps an
abstract percentage, its reset time and whether it came from a file
(`ClaudeHistoricalUpdate`); its duration and the validation of its fields are
left out. `UsagePromise` is the abstract specification: a high-water mark of
reset times per window and at most the value of that mark shown before it
passes. `KeepsPromise` is the refinement (`Marks`, `ShownResets`).

### DisplayLoop
`display.go`. `phase` is the position in runDisplay / runConnection /
runConnected / runVideo / runPNG; `attempts` and `progressing` are the
`displayBudget`; `handle`, `inSync` and `renderer` the resources the loop holds.
Each USB call is one step with the outcomes `usb.go` can return. `Cancel` may
happen between any two steps. `PanelChanges` lets the panel fall silent and come
back. A step cannot fail on a healthy panel with a live context: this is used
only by `ComesBack`; every safety property is checked with a panel that may turn
unhealthy before any step. `uploaded` is history.
Left out: options refused by `Validate` (nothing is opened) and an overlay that
cannot be drawn.

### PanelUSB
`usb.go`. The host is one process because `USB.mu` is held for a whole call. A
transaction is `Write`, `Read`, then a drain that reads until an empty read or
its limit; `Sync` and `OpenUSB` drain first. The panel takes commands in order
and executes or refuses each, with or without a reply, at any later time. A
reply carries the echoed command only; its serial number is history, for the
properties. The seven initialisation commands of a video are two, "init" and
the clearing image "png", because only the image shares its code with another
operation.
`SyncInTime` is an assumption about the panel: an abandoned Sync is answered or
lost before the next Sync has finished draining. Without it the second Sync may
take the first one's answer and its own answer may then vouch for a panel that
still owes the reply of an upload; the protocol has nothing to tell them apart.

### H264Stream
`usb_stream.go`: the sender (the calling goroutine), the reader, the timer of
the current chunk and the closer, with the stream context's first cause in
`cause`. The unbuffered channel is the joint step `Receive`. `timer` tells
"overdue" (its time has come) from "fired" (Stop returns false), "called", and
"stopped" by the reader, which makes Stop return false as well. Two histories
keep apart what happened and what was reported: `passed` is the chunk whose limit
has passed, `expired` the chunk the call blames.
Closing the input is two steps, because Close waits (`Closer`, `CloserReturns`,
`CloseInput`, `CallReturns`). The module leaves the input free to end, stall or
fail; LiveVideo gives it one.

### RenderStream and LiveVideo
`RenderStream` is `render.go`: FFmpeg, the feed with its frame clock, the overlay
goroutine, the watcher of os/exec that kills FFmpeg when the run context is done,
and `Close` with `Wait` inside. `why` is the first cause of the run context,
`waitErr` the result every caller of `Wait` gets. The goroutine that copies stderr
and the buffered result of an overlay are folded into the steps that wait for
them. A kill that finds FFmpeg ended but not reaped succeeds on POSIX
("signalled") and fails on Windows ("late"); both are in the model.

`LiveVideo` is `runVideo`: it EXTENDS `H264Stream` and INSTANCEs `RenderStream`
as its input. A `Read` that fails is the encoder's end of file or its closed
pipe; a `Close` begins in the upload and waits in render.go; one step cancels
both contexts, since they derive from the same one. What `SendH264Stream`
demands of its input in a comment is here a consequence of render.go: the call
returns (`AlwaysReturns`) although nothing makes FFmpeg read, write or end.

### SensorClient
`sensor_helper.go` and `hardwareLoop` of `collector.go`. `loop` is the position
of the loop, inside `Sample` and `Close` too. A process has a slot: the child, its
reader with the line it wants to hand over, and the channel of one response; a
second slot is taken when the first process is still there. The limit of a sample
is `timer`, whose callback is `firing` until it has aborted the process. Requests
carry a number, which the protocol does not have, so that `published` can tell
this tick's answer from a late one. A line is good or bad. `healthy` says how the
helper behaves; it may change at any time. Of the helper itself
(tools/turzx-sensors/Program.cs) `Answer` and `ChildEnds` are the loop that
answers a line with a line, and its exits; they allow more than its code does.

### ProfileFiles, StatuslineProfile
`profile.go`, `binding.go`. `ProfileFiles` holds what each function makes of the
two files, shared by the next two modules. A command is the user's line with
adapters in front, outermost first. `StatuslineProfile` splits the installation
at its two writes; each write is atomic (`atomicReplace`). Edits by the user are
excluded while an installation is between its reads and its last write: the file
is not locked, so such an edit would be lost.

### ClaudeControl
`server.go`, `runtime.go`. `act[a]` is the position and the local variables of a
request (its handler and then its worker goroutine) or of the watcher. One step
is one call that changes shared state. The watcher's two reads, each under a lock
of its own, are `Tick` (the account, runtime.go:129) and `CheckBusy` (:135);
`Publish` merges `SetClaudeAccount` and `SetClaude`. A failing profile function
changes nothing, except `InstallFails`, which may leave the sidecar written.
`Restart` stops the program anywhere and is `startRuntime`, including the branch
that starts no watcher and the one where the account cannot be read
(runtime.go:28-31), which the history `unnamed` records. `SignIn` is the user.
`crossed` is history: a request was accepted while the watcher was past its check, or
the watcher passed its busy check with an account that a request had replaced
since `Tick`. It marks the finding below; the invariants speak of the time before
it.

### ClaudeInbox
`claude.go`, `turzx-claude-status`, and the scan in `collector.go`. A hook is a
process that opens the lock file of its session, locks it, reads the envelope
and replaces it; it may be killed in between, which frees the lock and may leave
a temporary file. A process that has ended leaves its slot to the next; `starts`
counts them. A statusline carries one window or both. A session that is running
(`Running`) keeps the hook, and so the binding, it started with; others have at
most a file of an earlier installation (`Leftovers`). The collector lists the directory (`List`, `TooMany`,
`ListFails`) and visits the files in the order of their names, one step each, so
that hooks write in between. `shown` is what the usage model holds of each
window, reduced to where the value came from and whether it is current; resets
are in UsageModel. `start` is history: what the files held when the run began.

### CodexClient
`process.go`, `account.go`, `login.go`, `ratelimits.go`. `role` is who owns the
process: the collector, a login or a logout; the bounds `MaxID`, `MaxNotes` and
`Orphans` are per role, `MaxTimeouts` bounds the requests given up. `step` is the request the owner is
at; `Send`, `Take` and `Interrupted` are `requestWithPolicy`, `Proceed` is what
the owner makes of a reply. The reader is `readStdout`, with the line it holds
while the queue is full. The child answers in any order, late or never, writes
notifications, requests of its own and garbage, and may die. `Close` is split
where it waits. `Outsiders` lets others than the owner close it, `Orphans` lets a
grandchild keep the pipe open after the child. `missed` is history: the
completion of this login met a full channel and was dropped.

### CodexControl
`server.go`, `runtime.go`, and `Sources` in `collector.go`. `act[r]` is the
position of a request and then of its worker. `Swap` and `Join` are
`Sources.replace` before and after it waits for the retired run; `change` is
held in between. `run[n]` is the sourceRun with serial n: where `codexLoop` is,
whether its context is cancelled, and what its usage model holds. A result is
checked against the context (`Result`) and reported to the page later
(`Report`). `Cancel` or `ServeFails`, `RefuseRequests`, `CloseSources` and `Closed`
are the end of the program; with `TrayGivesUp` the tray's limit of 5 s passes and
the sources are closed while requests are still at work. A poll and a notification are one action (`Poll`). `crossed` is
history: a request was accepted between a login publishing "connected" and its
collector.

### MC modules
The module `MC`*name* instantiates the module *name*; a definition under a
`\* mutant:` comment is a plausible bug, used to confirm that the property it
belongs to notices it.

## 3. The runs

| Run | Bounds | States | Shows |
|---|---|---|---|
| usage | 2 windows, 2 percentages, resets at 2 and 4, clock to 4, stale after 1 | 60,032 | what is shown is live, received and fresh; the refinement of `UsagePromise` |
| display | 3 retries, delays to 30 s, the program's own values | 11,094 | uploads, retry budget, `Shutdown`, `ComesBack` |
| panel_usb | 7 commands, 3 startup and 2 flush reads | 1,451,360 | replies, synchronisation, video mode |
| h264_stream | 1 chunk | 656,670 | upload and encoder together: deadlines, joins, honest causes, `AlwaysReturns` |
| stat_profile | 2 user lines, 2 accounts, 4 bindings | 700 | safety of the files |
| stat_profile_nest | the same | | finding `DoesNotNest` |
| claude | 2 requests, watcher, 2 accounts, 2 bindings, 1 restart | 335,553 | safety of connect and disconnect, `BusyEnds` |
| claude_watch | the same with 3 bindings | | finding `NoUnwantedInstall` |
| inbox | 2 running sessions and 1 with an old file, 3 hook processes, 2 at a time, 2 windows, 2 bindings, 2 runs, scans of 2 sessions | 739,148 | numbers, connections, `LiveUntilNews`, `CatchesUp` |
| codex | 2 accounts, 6 / 3 / 3 requests and 0 / 2 / 1 notifications per role, 1 request given up, queues of 1, login and logout closed by anybody, orphans of a logout | 822,335 | replies, logins and logouts are what they seem, `CloseReturns`, `LoginNoticed` |
| codex_control | 2 requests, 5 runs | 87,817 | one collector, exclusive profile, honest page, `StopEnds` |
| sensor | delays to 30 s and samples of 10 s, the program's own values, 2 process slots, a pipe for 2 requests | 65,340 | samples, one helper, `LoopEnds`, `Recovers` |

A property that a theorem of section 6 states without a run (`HeldForGood`,
`SentInOrder`, ...) holds in these instances as well.

Why the bounds are enough. Usage: the windows are independent except for
`ScopeStatus`, which needs two; two resets and a clock that passes both give an
earlier, equal and later reset on both sides of the boundary. Display: the
constants are the program's. Panel: the shortest confusion (an upload whose
reply is late, a failed Sync, a Sync, an upload) takes four commands, a video
with initialisation, image, chunk, status and stop five; seven leave room for a
failed call before either. The drain limits are small so that they are reached.
Stream: one chunk meets its timer, the closer and every end of the encoder, and
its successor is refused by the end of the input; what depends on several chunks
(order, the timer of a chunk against the transfer of another) is proved for any
number of them in section 6. Sensor: a helper has one request outstanding unless
it is given up, so a pipe of two requests and numbers modulo 3 tell the present
answer from any late one; `OneHelper` needs two slots.
Profile: nesting needs two installations, restoring a superseded binding three.
Claude: with two requests a disconnect follows a connect or the reverse, or the
second is refused; the watcher, an account change and a restart come on top, and
each of them can bring a second binding.
Inbox: one session more than a scan accepts makes the directory too full; among
the others one is current and one is old, of this connection or an earlier one;
two hooks overlap on a session or write two. Three writes are the shortest way to
endanger a current value: a file that becomes the baseline of its session, news
in that session, and then the first file of another one, with a window more or a
window less. Two runs give a binding and its successor or a restart. The
program's 512 sessions are `Limit`.
Codex client: a read of three requests is abandoned and repeated; the queues hold
one message, so that one late reply or one foreign completion fills them and the
next stops the reader or is dropped; a collector is not closed by others
and has no notifications to wait for, a login and a logout repeat nothing. One
request given up leaves one late reply, which is all the matching of ids has to
tell apart. Codex control: a login
takes two runs and a logout one, so 5 runs serve the first and two logins.

Where a run checks liveness no symmetry is used. Deadlock checking is off where
the system really stops: a loop that has ended, a call that has returned,
requests used up, the clock or the command bound reached.

## 4. Fairness

- DisplayLoop: weak fairness of the loop's steps, because every wait has a timer
  and every transfer `DisplayOptions.Timeout`; a running video need not end
  unless the context is cancelled (`RunLoop`, `KeepStreaming`).
- LiveVideo: weak fairness of the goroutines, os/exec's among them, of timers, the
  grace period, transfers (bounded by their timeouts), a kill, and an overlay
  being drawn. FFmpeg may stop reading, writing or ending for ever, and the pipe
  need not run dry.
- SensorClient: weak fairness of the loop, the reader and the callback of the
  time limit, of the limit itself, and of the end of a process that was cancelled
  or has died. The helper must answer only while it is healthy.
- ClaudeControl: weak fairness of each request's next step and of the watcher's
  comparison; the calls have limits of 15 s and 10 min.
- ClaudeInbox: weak fairness of listing the directory, of visiting the next file
  and of ending a scan, because the collector scans every second; strong fairness
  of reading each session's file, which may fail, but not for ever.
- CodexClient: weak fairness of the goroutines, and of the end of a child whose
  context is cancelled, which the Go runtime kills. No deadline is relied on.
- CodexControl: weak fairness of each request and each collector; every call
  they make has a time limit. The tray's limit is not relied on.

UsageModel, PanelUSB and StatuslineProfile state no liveness.

## 5. What the checks found

1. **`DoesNotNest`** (run stat_profile_nest): `InstallStatusline` writes the
   sidecar first (profile.go:385) and `settings.json` second. If the second write
   of a re-installation does not happen, the profile still runs the old adapter,
   which the sidecar no longer recognises; the next installation forwards to it
   and a removal restores it. `OwnLineKept` shows that the user's line survives
   inside, `CleanUnlessTorn` that this is the only way to nest.
2. **`NoUnwantedInstall`** (run claude_watch): the watcher reads the account
   (runtime.go:129), checks `claudeBusy` (:135) and asks the CLI. A disconnect
   that completes between the two reads, or while the CLI is asked, is undone when
   `bindClaude` installs the hook again. `OnlyTheRaceInstalls` proves that there
   is no third way.

Seen while modelling:

- `ErrChunkWait` means that a limit was exceeded (usb.go:26-28), but a canceled
  upload may report it without: the reader that meets the cancellation stops the
  timer (usb_stream.go:103-105), and the sender takes a stopped timer for one that
  fired (:139). `BlameIsHonest` names this as the one exception. The display
  loop is not misled, since it looks at its own context first (display.go:308).
- When a restart finds the binding but cannot read the account
  (runtime.go:28-31), usage is collected without an account and the page says
  "installed"; the watcher, which waits for an account (:129-134), then never
  notices that it changes. `AgreeAtRest` and `PageAgrees` state this case.
- A cancellation during the wait at display.go:204 ends the loop without another
  attempt, so a panel that has come back keeps its last frame, although
  display.go:225 says that shutdown hands it back to the firmware screen.
- The inbox scan lists at most 1025 entries (collector.go:340) before it drops
  lock files and temporary files; with more entries it can see 512 sessions or
  fewer, ignore the others and report nothing, although collector.go:352 has an
  error for a full directory. `CatchesUp` is stated for a directory that fits.
- A dead app-server is not started again: `Updates` is closed only by `Close`,
  so the branch at collector.go:280 is not taken.
- After garbage on stdout a login waits until its own limit of ten minutes.
- A request accepted between publishing "connected" (server.go:393) and starting
  the collector is followed by that collector (`crossed` in CodexControl).
- The sensor helper's restart delay counts from before the sample that failed
  (collector.go:196), so it may have passed when the sample gives up.
- While a login waits nobody reads replies: if unasked ones fill their queue the
  reader stops and the completion behind them is not seen, and a completion that
  finds its channel full is dropped (process.go:283). `LoginNoticed` names these
  two exceptions, and no other; in the run, with queues of one, both happen. The
  program's queues hold 16 and 2, so it takes as many messages.
- On POSIX a feed whose write meets a broken pipe cancels the run context and may
  signal an FFmpeg that has ended but is not reaped; `Wait` then reports the write
  error and not FFmpeg's own status (render.go:242).
- The tray waits as long for the end (tray_windows.go:108) as the server is
  drained for (main.go:160). When it gives up, the sources are closed under
  requests still at work; `Sources.change` and `closed` (collector.go:86) keep
  them from starting a collector, which `OneCollector` shows.

## 6. Proofs

All proofs are of safety, for every value of the constants under the named
assumptions: `ModelAssumption`, `LoopAssumption`, `PanelAssumption`,
`ChunksAssumption`, `FilesAssumption`, `SidecarAssumption`,
`BindingsAssumption`, `ControlAssumption` (of ClaudeControl and of
CodexControl), `InboxAssumption`, `AbsentAssumption`, `ClientAssumption` and
`SensorAssumption`. They say that bounds are numbers, that a set is finite, or
that the name for "nothing" is not a value.

Each proof rests on an inductive invariant that is stronger than what it
shows. It is the conjunction of named parts; the step from one state to the next
has a lemma per class of actions.

- **UsageModelProofs.** The inductive invariant `AllSound` says of each window
  that its current and previous observation exclude each other, that a current
  one is not historical and was received, and that times are ordered. Lemmas
  about `Accept`, `Missing` and `Fail` preserve it; `StepForward` says that no
  step but a disconnect moves a baseline back. From these: `TypeCorrect`,
  `CurrentExactlyOK`, `OnlyLiveShown`, `HonestTimestamps`, `HistoryKept`, and
  `PromiseKept`, the refinement of `UsagePromise`. `FreshWhileOK` adds how a
  scope combines its windows: OK is the weakest status, so every window has it.
- **PanelProofs.** Of PanelUSB: a synchronised device owes at most the reply of
  the current command, because every failure either ends the synchronisation or
  leads to the stop command that does; the Sync that counts was the last command
  on the wire; and a stop command is on its way, or was lost, whenever a video
  has ended. From these `TypeCorrect`, `RepliesMatch`, `NothingStale` and
  `VideoStopped`. They rest on `SyncInTime`, which the specification contains
  (section 2). Of DisplayLoop: `UploadsSynced`, `Released`, `BudgetBounded`,
  `ChargedWhilePanelAnswers`, `ExhaustedIsFinal`. `BudgetInRange` is inductive
  only together with what each phase says about handle, synchronisation and
  renderer, because `Choose` tests the budget that `Resync` and `StartFails`
  charge.
- **LiveVideoProofs.** Of the upload alone (H264Stream) the invariant ties the
  timer to the reader's chunk: the reader re-arms it only after `chunk.sending`
  is closed, and a chunk that was sent has a stopped timer; `Lateness` is what is
  known of its limit: a timer that fired belongs to a chunk whose limit has passed,
  and one that was stopped before the sender's look at it was stopped after a
  cancellation. From it
  `TypeCorrect`, `UploadedInOrder`, `LateIsDropped`, `Joined` and
  `HonestResult`. Every step of the composed video is a step of the upload or
  leaves it alone, so it implements H264Stream (`UploadRefined`) and inherits
  these theorems (`UploadHonest`). Of the encoder the invariant says its type,
  that a result was published only after the joins, and who is to blame for what
  (`EncoderInv`); with the upload's knowledge of who called Close this gives
  `LiveTypeCorrect`, `EncoderJoined` and `FailuresShown`.
- **ClaudeControlProofs.** `app.claudeStatus` admits one actor at a time
  (`Alone`). From stopping the source until the new binding is published nothing
  is collected, and what is published is what the actor has confirmed, since
  nobody else writes the files (`Kept`); so page, source and profile agree when
  every actor rests, whichever call failed and wherever a restart fell
  (`Agreed`); only a restart that could not read the account leaves the source
  without it (`unnamed`). A disconnect drops only bindings that were issued and with which no
  actor works (`Numbered`), so none of them is confirmed again. From these
  `TypeCorrect`, `PageAgrees` and `NothingReturns`. The last two speak of the time before
  `crossed`; `OnlyTheRaceInstalls` says that its two windows are the only way to
  finding 2 of section 5: without them no hook is installed between a completed
  disconnect and the next connect. With or without it the sidecar holds the adapter of the
  newest binding in front of a command that ends in the user's line (`Rooted`),
  so no history of requests, failures and restarts replaces that line
  (`UsersLineSurvives`) or restores another binding (`RestoresTheNewest`).
- **ClaudeFilesProofs.** Of ClaudeInbox: a hook between its read and its write
  holds the lock of its session, so that what it read is still there (`Locked`);
  hence the numbers of a session only grow (`NumbersGrow`), nothing of the
  binding is older than the run that collects it, and what a receiver has seen
  is not older than its run (`Forward`). With `Belongs`, that a baseline is of
  the binding and a current value was observed, this gives `ShowsItsOwn`. Once a
  current value is shown something was observed, so that no scan imports a
  baseline any more, seen for the first time or not: `CurrentUntilNews`. Of StatuslineProfile the invariant relates the current
  line, the sidecar's command and its original to the user's line and to the
  newest binding: `ProfileTypeCorrect`, `NothingOfTheUsersIsLost`,
  `CleanProfile`, `RestoredIsInstalled`.
- **CodexControlProofs.** The invariant has four parts: `Typed`; `Exclusive`,
  that `Sources.change` belongs to the request that waits for a retired run and
  that a run other than the current one is alive only then; `Apart`, that
  `app.status` lets one request work on the profile, and before `crossed` one
  request altogether; and `Agreed`, how a request hands over the profile: it
  joins the retired run, removes its label, and publishes "connected" before the
  next run starts. `ProfileAlone` and `PageAgrees` exclude the requests that
  crossed (section 5). Closed sources hold no lock and no run, so nothing a request
  does after the tray gave up starts a collector. From it `TypeCorrect`,
  `NeverTwoCollectors`, `ProfileAlone`, `PageOwned` and `PageAgrees`, for any
  set of requests and any number of runs.
- **CodexClientProofs.** Requests carry increasing numbers, so an answer with the
  number of the request in flight was given to it, after it was sent (`Asked`).
  What such an answer says is therefore known (`Believed`): an account it names
  was the profile's during this read, and one that was left does not come back;
  once a login is completed, or a logout has signed out, nobody else changes the
  profile. From these `TypeCorrect`, for any capacity of the channels,
  `HonestSnapshots` and `RealSuccess`.
- **SensorClientProofs.** The loop joins a helper before it takes another one, and
  the only answer a helper in use may still owe is the one to the last request,
  because a sample that fails ends its helper: `TypeCorrect`, `AlwaysTheTruth`,
  `NeverTwoHelpers`, for any restart delay, sample limit and room
  in the pipe. The module has two process slots: a second helper beside the one
  in use would already contradict `OneHelper`.

Only model-checked is liveness (`Shutdown`, `ComesBack`, `AlwaysReturns`,
`BusyEnds`, `CatchesUp`, `CloseReturns`, `LoginNoticed`, `StopEnds`, `LoopEnds`,
`Recovers`): fairness and ENABLED are out of the prover's reach, and with them
induction over recursive data. The two findings are counterexamples TLC finds.
The type invariants are proved and are no property of a run.

## 7. What is not modelled

Encryption and packet layout, PNG validation, endpoint discovery, drawing and
themes, configuration files and flags, the tray's menu, autostart, operating
system counters and the snapshot file that may replace the helper, the sensors of
the C# helper and its snapshot mode, the command line tools and the scripts: input and output or layout,
without control that interleaves. PROJECT.json lists each component and each hazard with the
properties that cover it.

## 8. Plan

1. Done: UsageModel, DisplayLoop, PanelUSB, H264Stream, StatuslineProfile,
   ClaudeControl, ClaudeInbox, CodexClient, CodexControl, SensorClient,
   RenderStream and their composition LiveVideo, with the proofs above.
2. Done: every safety property of the passing runs is a theorem.
3. An abstract collector (starts, reports, ends when cancelled) that CodexClient
   with `codexLoop` implements and CodexControl uses, stated as a refinement and
   proved step by step; the same of one connection for ClaudeControl and
   StatuslineProfile, whose shared part is ProfileFiles.
