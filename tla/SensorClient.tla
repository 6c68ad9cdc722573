---------------------------- MODULE SensorClient ----------------------------
(***************************************************************************)
(* The client of the sensor helper (internal/metric/sensor_helper.go) and  *)
(* the loop that drives it (hardwareLoop, internal/daemon/collector.go).   *)
(*                                                                         *)
(* The loop owns at most one helper process.  Once a second it asks for a  *)
(* sample and waits for one line, under a time limit whose callback runs   *)
(* in a goroutine of its own (context.AfterFunc).  A helper that fails in  *)
(* any way is closed and replaced after a growing delay.  The helper       *)
(* answers a request with one line, good or not, late or never, and may    *)
(* die.                                                                    *)
(*                                                                         *)
(* Two process slots are enough to see two helpers at once; the second is  *)
(* taken when the process in the first is still there.                     *)
(*                                                                         *)
(* Left out: the counters of the operating system, the snapshot file that  *)
(* may replace the helper, the contents of a line and the stderr log.      *)
(***************************************************************************)
EXTENDS Integers, Sequences

CONSTANTS
  MaxBackoff,   \* longest restart delay, in seconds: 30
  SampleLimit,  \* longest time a sample takes before it fails, in seconds: 10
  Room,         \* requests that fit into the pipe of a helper that reads none
  Tags          \* requests are numbered modulo this

ASSUME SensorAssumption ==
  /\ MaxBackoff \in Nat \ {0} /\ SampleLimit \in Nat
  /\ Room \in Nat \ {0} /\ Tags \in Nat \ {0}

VARIABLES
  loop,      \* where hardwareLoop is, inside Sample and Close too
  ending,    \* it closes its helper for good
  helper,    \* the process in use, or None
  failed,    \* helperErr # nil
  sampled,   \* this tick's sample: "no", or what it answers
  backoff,   \* helperBackoff, in seconds
  wait,      \* seconds until helperRetryAt
  published, \* what Sources.hardware says of the selected sensors
  request,   \* history: the number of the last request
  timer,     \* sampleCtx and its AfterFunc
  canceled,  \* Sources.ctx is done
  healthy,   \* helpers start, answer in time and do not die
  \* of each process:
  child,     \* the operating system's process
  aborted,   \* abort was called: its context and both our pipe ends are closed
  firing,    \* the AfterFunc goroutine that will call abort
  closed,    \* Close was called: SensorProcess.closed and stdin
  reader,    \* readStdout
  line,      \* the line it wants to hand over
  response,  \* SensorProcess.responses, a channel of one
  asked,     \* requests it has not answered
  pipe       \* lines it has written

looping == <<ending, helper, failed, sampled, backoff, wait, published, request>>
ours == <<aborted, closed, firing>>
reading == <<reader, line, response>>
theirs == <<child, asked, pipe>>
outside == <<canceled, healthy>>
vars == <<loop, looping, timer, ours, reading, theirs, outside>>

Slots == {1, 2}
None == 0
Lines == [answers : 0..(Tags - 1), good : BOOLEAN]
Empty == [answers |-> -1, good |-> FALSE]
ReadError == [answers |-> -2, good |-> FALSE]

Init ==
  /\ loop = "tick" /\ ending = FALSE /\ helper = None
  /\ failed = FALSE /\ sampled = "no" /\ backoff = 1 /\ wait = 0
  /\ published = "none" /\ request = 0 /\ timer = "off"
  /\ canceled = FALSE /\ healthy \in BOOLEAN
  /\ child = [p \in Slots |-> "none"] /\ reader = [p \in Slots |-> "none"]
  /\ aborted = [p \in Slots |-> FALSE] /\ closed = [p \in Slots |-> FALSE]
  /\ firing = [p \in Slots |-> FALSE]
  /\ line = [p \in Slots |-> Empty] /\ response = [p \in Slots |-> Empty]
  /\ asked = [p \in Slots |-> <<>>] /\ pipe = [p \in Slots |-> <<>>]

Smaller(a, b) == IF a <= b THEN a ELSE b
ContextDone(p) == canceled \/ aborted[p]  \* of SensorProcess.ctx
StdinOpen(p) == ~aborted[p] /\ ~closed[p]
Ended(p) == child[p] \in {"none", "reaped"} /\ reader[p] \in {"none", "done"}

-----------------------------------------------------------------------------
(***************************************************************************)
(* hardwareLoop.                                                           *)
(***************************************************************************)
Tick ==
  /\ loop = "tick"
  /\ loop' = IF canceled THEN "leave" ELSE IF helper # None THEN "sample"
             ELSE IF wait > 0 THEN "publish" ELSE "start"
  /\ sampled' = "no"
  /\ UNCHANGED <<ending, helper, failed, backoff, wait, published, request, timer,
                 ours, reading, theirs, outside>>

FailHelper(delays) ==
  /\ failed' = TRUE
  /\ wait' \in delays
  /\ backoff' = Smaller(2 * backoff, MaxBackoff)

\* A process and its reader take the first slot whose process has ended.
StartSensors(p) ==
  /\ loop = "start" /\ ~canceled
  /\ p = 1 \/ ~Ended(1)
  /\ helper' = p /\ loop' = "sample"
  /\ child' = [child EXCEPT ![p] = "alive"] /\ reader' = [reader EXCEPT ![p] = "reading"]
  /\ aborted' = [aborted EXCEPT ![p] = FALSE] /\ firing' = [firing EXCEPT ![p] = FALSE]
  /\ closed' = [closed EXCEPT ![p] = FALSE]
  /\ line' = [line EXCEPT ![p] = Empty] /\ response' = [response EXCEPT ![p] = Empty]
  /\ asked' = [asked EXCEPT ![p] = <<>>] /\ pipe' = [pipe EXCEPT ![p] = <<>>]
  /\ UNCHANGED <<ending, failed, sampled, backoff, wait, published, request, timer,
                 outside>>

StartFails ==
  /\ loop = "start" /\ (canceled \/ ~healthy)
  /\ FailHelper({backoff})
  /\ loop' = "publish"
  /\ UNCHANGED <<ending, helper, sampled, published, request, timer, ours, reading,
                 theirs, outside>>

Publish ==
  /\ loop = "publish"
  /\ published' = IF sampled # "no" THEN sampled ELSE IF failed THEN "failed" ELSE "blank"
  /\ loop' = "wait"
  /\ UNCHANGED <<ending, helper, failed, sampled, backoff, wait, request, timer, ours,
                 reading, theirs, outside>>

NextTick ==
  /\ loop = "wait"
  /\ loop' = IF canceled THEN "leave" ELSE "tick"
  /\ wait' = IF wait > 0 THEN wait - 1 ELSE 0
  /\ UNCHANGED <<ending, helper, failed, sampled, backoff, published, request, timer,
                 ours, reading, theirs, outside>>

-----------------------------------------------------------------------------
(***************************************************************************)
(* Sample.  Its request slot is free, for the loop is the only caller.     *)
(***************************************************************************)
Enter ==
  /\ loop = "sample" /\ ~ContextDone(helper) /\ ~closed[helper]
  /\ loop' = "write" /\ timer' = "armed"
  /\ UNCHANGED <<looping, ours, reading, theirs, outside>>

WriteRequest ==
  /\ loop = "write" /\ StdinOpen(helper) /\ child[helper] = "alive"
  /\ Len(asked[helper]) < Room
  /\ request' = (request + 1) % Tags
  /\ asked' = [asked EXCEPT ![helper] = Append(@, request')]
  /\ loop' = "await"
  /\ UNCHANGED <<ending, helper, failed, sampled, backoff, wait, published, timer, ours,
                 reading, child, pipe, outside>>

\* stopAbort answers true only before the time limit has passed.
Accept ==
  /\ loop = "await" /\ timer = "armed" /\ response[helper].good
  /\ sampled' = IF response[helper].answers = request THEN "mine" ELSE "late"
  /\ response' = [response EXCEPT ![helper] = Empty]
  /\ timer' = "off" /\ failed' = FALSE /\ backoff' = 1
  /\ loop' = "publish"
  /\ UNCHANGED <<ending, helper, wait, published, request, ours, reader, line, theirs,
                 outside>>

\* The error returns: limit, contexts, closed, write, read, bad line, end of file.
SampleFails ==
  \/ loop = "sample" /\ (ContextDone(helper) \/ closed[helper])
  \/ loop = "write" /\ (timer = "fired" \/ ~StdinOpen(helper) \/ child[helper] # "alive")
  \/ loop = "await" /\ \/ timer = "fired" \/ ContextDone(helper) \/ closed[helper]
                       \/ response[helper] # Empty /\ ~response[helper].good
                       \/ response[helper] = Empty /\ reader[helper] = "done"

\* mutant: a sample that fails is given up, but its process stays in use
FailKeepingHelper ==
  /\ SampleFails
  /\ loop' = "publish" /\ timer' = "off" /\ failed' = TRUE
  /\ UNCHANGED <<ending, helper, sampled, backoff, wait, published, request, ours,
                 reading, theirs, outside>>

\* The deferred abort and Close of a sample that returns an error.
FailSample ==
  /\ SampleFails
  /\ aborted' = [aborted EXCEPT ![helper] = TRUE]
  /\ closed' = [closed EXCEPT ![helper] = TRUE]
  /\ loop' = "join"
  /\ UNCHANGED <<looping, timer, firing, reading, theirs, outside>>

-----------------------------------------------------------------------------
(***************************************************************************)
(* Close, and what the loop does afterwards.                               *)
(***************************************************************************)
Leave ==
  /\ loop = "leave" /\ ending' = TRUE
  /\ IF helper = None THEN loop' = "done" /\ UNCHANGED closed
     ELSE loop' = "grace" /\ closed' = [closed EXCEPT ![helper] = TRUE]
  /\ UNCHANGED <<helper, failed, sampled, backoff, wait, published, request, timer,
                 aborted, firing, reading, theirs, outside>>

\* The process has ended, or its 250 ms are over.
Grace ==
  /\ loop = "grace" /\ loop' = "join"
  /\ aborted' = [aborted EXCEPT ![helper] = TRUE]
  /\ UNCHANGED <<looping, timer, closed, firing, reading, theirs, outside>>

\* mutant: Close does not wait for the reader
JoinableProcess(p) == child[p] = "reaped"

Joinable(p) == child[p] = "reaped" /\ reader[p] = "done"

\* mutant: a closed process stays in use
JoinKeepingHelper ==
  /\ loop = "join" /\ Joinable(helper) /\ timer' = "off"
  /\ IF ending THEN loop' = "done" /\ UNCHANGED <<failed, backoff, wait>>
     ELSE loop' = "publish" /\ FailHelper({backoff})
  /\ UNCHANGED <<ending, helper, sampled, published, request, ours, reading, theirs,
                 outside>>

\* The retry time is counted from before the sample, which may take SampleLimit.
Join ==
  /\ loop = "join" /\ Joinable(helper)
  /\ helper' = None /\ timer' = "off"
  /\ IF ending THEN loop' = "done" /\ UNCHANGED <<failed, backoff, wait>>
     ELSE /\ loop' = "publish"
          /\ FailHelper({backoff - s : s \in 0..Smaller(SampleLimit, backoff)})
  /\ UNCHANGED <<ending, sampled, published, request, ours, reading, theirs, outside>>

-----------------------------------------------------------------------------
(***************************************************************************)
(* readStdout.                                                             *)
(***************************************************************************)
Scan(p) ==
  /\ reader[p] = "reading" /\ line[p] = Empty /\ ~aborted[p] /\ pipe[p] # <<>>
  /\ line' = [line EXCEPT ![p] = Head(pipe[p])]
  /\ pipe' = [pipe EXCEPT ![p] = Tail(@)]
  /\ UNCHANGED <<loop, looping, timer, ours, reader, response, child, asked, outside>>

HandOver(p) ==
  /\ reader[p] = "reading" /\ line[p] # Empty /\ response[p] = Empty
  /\ response' = [response EXCEPT ![p] = line[p]]
  /\ line' = [line EXCEPT ![p] = Empty]
  /\ UNCHANGED <<loop, looping, timer, ours, reader, theirs, outside>>

\* The context or Close releases it; the end of the output ends it.
QuitReading(p) ==
  /\ reader[p] = "reading"
  /\ IF line[p] # Empty THEN ContextDone(p) \/ closed[p]
     ELSE ~aborted[p] /\ child[p] \in {"dead", "reaped"} /\ pipe[p] = <<>>
  /\ reader' = [reader EXCEPT ![p] = "done"] /\ line' = [line EXCEPT ![p] = Empty]
  /\ UNCHANGED <<loop, looping, timer, ours, response, theirs, outside>>

\* mutant: the reader hands its error over without watching its context
ScanFailsBlocking(p) ==
  /\ reader[p] = "reading" /\ line[p] = Empty /\ aborted[p] /\ response[p] = Empty
  /\ reader' = [reader EXCEPT ![p] = "done"]
  /\ response' = [response EXCEPT ![p] = ReadError]
  /\ UNCHANGED <<loop, looping, timer, ours, line, theirs, outside>>

\* stdout was closed under the reader; its context is done as well.
ScanFails(p) ==
  /\ reader[p] = "reading" /\ line[p] = Empty /\ aborted[p]
  /\ reader' = [reader EXCEPT ![p] = "done"]
  /\ response' \in {response} \cup
       IF response[p] = Empty THEN {[response EXCEPT ![p] = ReadError]} ELSE {}
  /\ UNCHANGED <<loop, looping, timer, ours, line, theirs, outside>>

-----------------------------------------------------------------------------
(***************************************************************************)
(* The time limit, the helper and the end of the program.                  *)
(***************************************************************************)
FireTimer ==
  IF timer = "armed"
  THEN timer' = "fired" /\ firing' = [firing EXCEPT ![helper] = TRUE]
  ELSE UNCHANGED <<timer, firing>>

Expire ==
  /\ timer = "armed" /\ ~healthy /\ FireTimer
  /\ UNCHANGED <<loop, looping, aborted, closed, reading, theirs, outside>>

FireAbort(p) ==
  /\ firing[p] /\ firing' = [firing EXCEPT ![p] = FALSE]
  /\ aborted' = [aborted EXCEPT ![p] = TRUE]
  /\ UNCHANGED <<loop, looping, timer, closed, reading, theirs, outside>>

\* Program.cs answers every line of its input with one line, in order; a sample
\* may take any time, and its line may be one the client refuses.
Answer(p) ==
  /\ child[p] = "alive" /\ asked[p] # <<>>
  /\ \E good \in IF healthy THEN {TRUE} ELSE BOOLEAN :
       pipe' = [pipe EXCEPT ![p] = Append(@, [answers |-> Head(asked[p]), good |-> good])]
  /\ asked' = [asked EXCEPT ![p] = Tail(@)]
  /\ UNCHANGED <<loop, looping, timer, ours, reading, child, outside>>

\* Program.cs returns at the end of its input, or when a line or a sample fails it;
\* or the process is killed with its context.  Then it is reaped.
ChildEnds(p) ==
  /\ \/ /\ child[p] = "alive" /\ (~healthy \/ ~StdinOpen(p) \/ ContextDone(p))
        /\ child' = [child EXCEPT ![p] = "dead"]
     \/ child[p] = "dead" /\ child' = [child EXCEPT ![p] = "reaped"]
  /\ UNCHANGED <<loop, looping, timer, ours, reading, asked, pipe, outside>>

Cancel ==
  /\ ~canceled /\ canceled' = TRUE /\ FireTimer
  /\ UNCHANGED <<loop, looping, aborted, closed, reading, theirs, healthy>>

HealthChanges ==
  /\ healthy' = ~healthy
  /\ UNCHANGED <<loop, looping, timer, ours, reading, theirs, canceled>>

Loop ==
  \/ Tick \/ StartFails \/ Publish \/ NextTick \/ \E p \in Slots : StartSensors(p)
  \/ Enter \/ WriteRequest \/ Accept \/ FailSample
  \/ Leave \/ Grace \/ Join
Reader(p) == Scan(p) \/ HandOver(p) \/ QuitReading(p) \/ ScanFails(p)

Next ==
  \/ Loop \/ Expire \/ Cancel \/ HealthChanges
  \/ \E p \in Slots : Reader(p) \/ FireAbort(p) \/ Answer(p) \/ ChildEnds(p)

Spec == Init /\ [][Next]_vars

\* Goroutines run, time limits pass, a cancelled process is killed, a dead one
\* reaped, and a healthy helper answers.  Nothing else is assumed of the helper.
FairSpec ==
  /\ Spec /\ WF_vars(Loop) /\ WF_vars(Expire)
  /\ \A p \in Slots :
       /\ WF_vars(Reader(p)) /\ WF_vars(FireAbort(p))
       /\ WF_vars(healthy /\ Answer(p))
       /\ WF_vars((ContextDone(p) \/ child[p] = "dead") /\ ChildEnds(p))

-----------------------------------------------------------------------------
TypeOK ==
  /\ loop \in {"tick", "start", "sample", "write", "await", "grace", "join", "publish",
               "wait", "leave", "done"}
  /\ helper \in Slots \cup {None}
  /\ {ending, failed, canceled, healthy} \subseteq BOOLEAN
  /\ sampled \in {"no", "mine", "late"} /\ request \in 0..(Tags - 1)
  /\ backoff \in 1..MaxBackoff /\ wait \in 0..MaxBackoff
  /\ published \in {"none", "blank", "failed", "mine", "late"}
  /\ timer \in {"off", "armed", "fired"}
  /\ child \in [Slots -> {"none", "alive", "dead", "reaped"}]
  /\ reader \in [Slots -> {"none", "reading", "done"}]
  /\ {aborted, firing, closed} \subseteq [Slots -> BOOLEAN]
  /\ line \in [Slots -> Lines \cup {Empty}]
  /\ response \in [Slots -> Lines \cup {Empty, ReadError}]
  /\ asked \in [Slots -> Seq(0..(Tags - 1))] /\ pipe \in [Slots -> Seq(Lines)]

\* What the page is told of a selected sensor is the answer to the request of
\* this tick or the error of the helper: an answer that missed its time limit is
\* never taken for the next one, and "a failed sensor never turns into an
\* unsupported or unselected sensor on the next hardware tick" (hardwareLoop).
ToldTheTruth == published \in {"none", "failed", "mine"}

\* A helper is replaced only after its process was reaped and its reader has
\* ended, and the loop leaves neither behind: there are never two helpers on the
\* hardware.
OneHelper == \A p \in Slots : p # helper \/ loop = "done" => Ended(p)

\* Sources.Close waits for this: wherever the loop, the helper and the time
\* limit are when the program ends, the loop ends too.
LoopEnds == canceled ~> loop = "done"

\* A helper that works again is used again, however often it failed before:
\* restarts do not stop, and a process that hangs is not waited for.
Recovers == <>[](healthy /\ ~canceled) => <>[](published = "mine")
=============================================================================
