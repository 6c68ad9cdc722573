----------------------------- MODULE ClaudeInbox ----------------------------
(***************************************************************************)
(* The inbox between Claude Code and the daemon.  Claude Code runs the     *)
(* statusline hook (cmd/turzx-claude-status) as a process of its own for   *)
(* every update, may kill it at any moment and may overlap several; each   *)
(* writes the envelope of its session (claude.Store.Write).  The collector *)
(* of the current connection lists the directory every second and reads    *)
(* the files one by one (daemon.inboxScan.observe, claude.Receiver).       *)
(*                                                                         *)
(* A session is numbered by the place of its file name in sort order.  An  *)
(* envelope keeps its binding, its sequence and the windows it carries;    *)
(* session and sequence stand for the values.  A file is replaced in one   *)
(* step (atomicReplace).  What reset times do to a value is in UsageModel. *)
(* A statusline without windows writes nothing and is left out, so every   *)
(* envelope read has one.                                                  *)
(***************************************************************************)
EXTENDS Integers, FiniteSets

CONSTANTS
  Sessions,    \* Claude Code sessions, in the order of their file names
  Leftovers,   \* those that may have left a file before the daemon starts
  Running,     \* those that call the hook
  Hooks,       \* the hook processes that can run at the same time
  Windows,     \* five_hour, weekly
  Carried,     \* the sets of windows a statusline may carry
  Limit,       \* the sessions a scan accepts: 512
  MaxStarts,   \* bound on the hook processes started in all
  MaxRuns,     \* bound on the runs of the collector
  MaxDebris,   \* bound on temporary files left by killed hooks
  NoFile, Nobody, Nothing

ASSUME InboxAssumption ==
  /\ Leftovers \subseteq Sessions /\ Running \subseteq Sessions
  /\ Carried \subseteq SUBSET Windows \ {{}}
  /\ Sessions \subseteq Nat /\ IsFiniteSet(Sessions) /\ IsFiniteSet(Hooks)
  /\ Limit \in Nat /\ MaxRuns \in Nat /\ MaxDebris \in Nat /\ MaxStarts \in Nat
  /\ Nobody \notin Hooks

\* 0 stands for the bindings of earlier installations.
Bindings == 0..MaxRuns
Envelope == [binding : Bindings, sequence : Nat \ {0}, windows : SUBSET Windows]
Value == [binding : Bindings, session : Sessions, sequence : Nat \ {0},
          live : BOOLEAN]

ASSUME AbsentAssumption == NoFile \notin Envelope /\ Nothing \notin Value

VARIABLES
  file,       \* <session>.json
  lock,       \* who holds <session>.json.lock
  lockFiles,  \* the sessions whose lock file exists; it is never removed
  debris,     \* temporary files of killed hooks
  hook,       \* the hook processes
  starts,     \* how many were started
  issued,     \* the newest binding of the installed hook
  source,     \* the binding of the running collector, 0 without one
  run,        \* how many collectors were started
  scan,       \* the scan of the directory in progress
  seen,       \* Receiver.seen; 0 where there is no receiver or no baseline
  observed,   \* inboxScan.hasObservation
  shown,      \* what usage.Model holds of each window, current or previous
  start       \* history: the sequences in the files when the run began

inbox == <<file, lock, lockFiles, debris>>
connection == <<issued, source, run, start>>
collector == <<scan, seen, observed, shown>>
hooks == <<hook, starts>>
vars == <<inbox, hooks, connection, collector>>

NoScan == [pc |-> "idle", todo |-> {}, listed |-> {}, baseline |-> Nothing]
NewHook == [pc |-> "new", session |-> 0, binding |-> 0, sequence |-> 0]

SequenceOf(s) == IF file[s] = NoFile THEN 0 ELSE file[s].sequence
Ours(s) == file[s] # NoFile /\ file[s].binding = source

\* Session files of earlier installations are never removed.
Leftover == [binding |-> 0, sequence |-> 1, windows |-> Windows]

Init ==
  /\ \E old \in SUBSET Leftovers :
       /\ file = [s \in Sessions |-> IF s \in old THEN Leftover ELSE NoFile]
       /\ lockFiles = old
  /\ lock = [s \in Sessions |-> Nobody] /\ debris = 0
  /\ hook = [h \in Hooks |-> NewHook] /\ starts = 0
  /\ issued = 0 /\ source = 0 /\ run = 0 /\ start = [s \in Sessions |-> 0]
  /\ scan = NoScan /\ seen = [s \in Sessions |-> 0] /\ observed = FALSE
  /\ shown = [w \in Windows |-> Nothing]

-----------------------------------------------------------------------------
(***************************************************************************)
(* A hook: Store.Write.                                                    *)
(***************************************************************************)
Free(s) == lock' = [lock EXCEPT ![s] = Nobody]
Goto(h, pc) == hook' = [hook EXCEPT ![h].pc = pc]
Exit(h) == hook' = [hook EXCEPT ![h] = NewHook]

\* A session that is already running may still use an older hook.
Start(h) ==
  /\ hook[h].pc = "new" /\ starts < MaxStarts /\ starts' = starts + 1
  /\ \E s \in Running, b \in 1..issued :
       /\ hook' = [hook EXCEPT ![h] = [@ EXCEPT !.pc = "lock", !.session = s,
                                       !.binding = b]]
       /\ lockFiles' = lockFiles \cup {s}
  /\ UNCHANGED <<file, lock, debris, connection, collector>>

\* mutant: the lock file is opened but not locked
LockNot(h) ==
  LET s == hook[h].session IN
    /\ hook[h].pc = "lock"
    /\ lock' = [lock EXCEPT ![s] = h]
    /\ Goto(h, "read")
    /\ UNCHANGED <<starts, file, lockFiles, debris, connection, collector>>

Lock(h) ==
  LET s == hook[h].session IN
    /\ hook[h].pc = "lock" /\ lock[s] = Nobody
    /\ lock' = [lock EXCEPT ![s] = h]
    /\ Goto(h, "read")
    /\ UNCHANGED <<starts, file, lockFiles, debris, connection, collector>>

LockTimeout(h) ==
  /\ hook[h].pc = "lock" /\ lock[hook[h].session] # Nobody
  /\ Exit(h)
  /\ UNCHANGED <<starts, inbox, connection, collector>>

Read(h) ==
  LET s == hook[h].session IN
    /\ hook[h].pc = "read"
    /\ \/ file[s] = NoFile
       \/ file[s] # NoFile /\ file[s].binding = hook[h].binding
    /\ hook' = [hook EXCEPT ![h] = [@ EXCEPT !.pc = "replace",
                                            !.sequence = SequenceOf(s)]]
    /\ UNCHANGED <<starts, inbox, connection, collector>>

\* The file belongs to an earlier or later binding, or cannot be read.
Refuse(h) ==
  /\ hook[h].pc = "read"
  /\ Free(hook[h].session) /\ Exit(h)
  /\ UNCHANGED <<starts, file, lockFiles, debris, connection, collector>>

Replace(h) ==
  LET s == hook[h].session IN
    /\ hook[h].pc = "replace"
    /\ \E carried \in Carried :
         file' = [file EXCEPT ![s] = [binding |-> hook[h].binding,
                                      sequence |-> hook[h].sequence + 1,
                                      windows |-> carried]]
    /\ Free(s) /\ Exit(h)
    /\ UNCHANGED <<starts, lockFiles, debris, connection, collector>>

ReplaceFails(h) ==
  /\ hook[h].pc = "replace"
  /\ Free(hook[h].session) /\ Exit(h)
  /\ UNCHANGED <<starts, file, lockFiles, debris, connection, collector>>

\* The operating system releases the lock; a temporary file may stay behind.
Kill(h) ==
  LET s == hook[h].session IN
    /\ hook[h].pc \in {"lock", "read", "replace"}
    /\ IF lock[s] = h THEN Free(s) ELSE UNCHANGED lock
    /\ \/ UNCHANGED debris
       \/ hook[h].pc = "replace" /\ debris < MaxDebris /\ debris' = debris + 1
    /\ Exit(h)
    /\ UNCHANGED <<starts, file, lockFiles, connection, collector>>

-----------------------------------------------------------------------------
(***************************************************************************)
(* Connections: a hook is installed before its binding is collected.       *)
(* Every run of the collector has receivers and a usage model of its own;  *)
(* a retired run only writes to the model that was retired with it.        *)
(***************************************************************************)
InstallHook ==
  /\ issued < MaxRuns /\ issued' = issued + 1
  /\ UNCHANGED <<source, run, start, inbox, hooks, collector>>

Collect(binding) ==
  /\ run < MaxRuns /\ run' = run + 1
  /\ source' = binding
  /\ start' = [s \in Sessions |->
       IF file[s] # NoFile /\ file[s].binding = binding THEN SequenceOf(s) ELSE 0]
  /\ scan' = NoScan /\ seen' = [s \in Sessions |-> 0] /\ observed' = FALSE
  /\ shown' = [w \in Windows |-> Nothing]
  /\ UNCHANGED <<issued, inbox, hooks>>

\* A connection, a restart that restores it, or a disconnection.
Connect == issued > source /\ Collect(issued)
Restart == source > 0 /\ Collect(source)
Disconnect == source > 0 /\ Collect(0)

-----------------------------------------------------------------------------
(***************************************************************************)
(* The collector.                                                          *)
(***************************************************************************)
Aged(value) == IF value = Nothing THEN Nothing ELSE [value EXCEPT !.live = FALSE]

\* An error shows what was known as previous.
Fail == shown' = [w \in Windows |-> Aged(shown[w])]

\* A new observation; the windows it omits are kept as previous.
Received(s, e) ==
  [w \in Windows |->
     IF w \in e.windows
     THEN [binding |-> e.binding, session |-> s, sequence |-> e.sequence, live |-> TRUE]
     ELSE Aged(shown[w])]

\* A baseline from disk fills what is empty and is never current.
Imported(s, e) ==
  [w \in Windows |->
     IF w \notin e.windows THEN Aged(shown[w])
     ELSE IF shown[w] # Nothing THEN shown[w]
     ELSE [binding |-> e.binding, session |-> s, sequence |-> e.sequence, live |-> FALSE]]

Present == {s \in Sessions : file[s] # NoFile}
Others == Cardinality(lockFiles) + debris
Entries == Cardinality(Present) + Others

\* ReadDir returns at most 2*512+1 entries, in the order of the file system.
Listed ==
  {some \in SUBSET Present :
     IF Entries <= 2 * Limit + 1 THEN some = Present
     ELSE /\ Cardinality(some) <= 2 * Limit + 1
          /\ Cardinality(some) + Others >= 2 * Limit + 1}

List ==
  /\ source > 0 /\ scan.pc = "idle"
  /\ \E listed \in Listed :
       /\ Cardinality(listed) <= Limit
       /\ scan' = [pc |-> "scan", todo |-> listed, listed |-> listed,
                   baseline |-> Nothing]
  /\ UNCHANGED <<seen, observed, shown, inbox, hooks, connection>>

TooMany ==
  /\ source > 0 /\ scan.pc = "idle"
  /\ \E listed \in Listed : Cardinality(listed) > Limit
  /\ Fail
  /\ UNCHANGED <<scan, seen, observed, inbox, hooks, connection>>

ListFails ==
  /\ source > 0 /\ scan.pc = "idle"
  /\ Fail
  /\ UNCHANGED <<scan, seen, observed, inbox, hooks, connection>>

\* The files are visited in the order of their names.
NextFile(s) == scan.pc = "scan" /\ s \in scan.todo /\ \A t \in scan.todo : s <= t
Visited(s) == scan' = [scan EXCEPT !.todo = @ \ {s}]

\* mutant: a file of another binding ends the scan
SkipRest(s) ==
  /\ NextFile(s) /\ ~Ours(s)
  /\ scan' = [scan EXCEPT !.todo = {}]
  /\ UNCHANGED <<seen, observed, shown, inbox, hooks, connection>>

\* The file belongs to another binding.
Skip(s) ==
  /\ NextFile(s) /\ ~Ours(s)
  /\ Visited(s)
  /\ UNCHANGED <<seen, observed, shown, inbox, hooks, connection>>

\* A file that cannot be read counts as no envelope.
Unreadable(s) ==
  /\ NextFile(s) /\ Ours(s)
  /\ Visited(s)
  /\ UNCHANGED <<seen, observed, shown, inbox, hooks, connection>>

\* mutant: the first envelope of a file is taken for news
FreshAlways(s) == SequenceOf(s) > seen[s]

Fresh(s) == seen[s] > 0 /\ SequenceOf(s) > seen[s]

ObserveFresh(s) ==
  /\ NextFile(s) /\ Ours(s) /\ Fresh(s)
  /\ seen' = [seen EXCEPT ![s] = SequenceOf(s)]
  /\ shown' = Received(s, file[s])
  /\ observed' = TRUE
  /\ Visited(s)
  /\ UNCHANGED <<inbox, hooks, connection>>

\* mutant: a baseline is imported whatever was observed before
MayImportAlways == TRUE

MayImport == ~observed

\* The first file that is not news is kept for the end of the scan.
ObserveOld(s) ==
  /\ NextFile(s) /\ Ours(s) /\ ~Fresh(s)
  /\ seen' = [seen EXCEPT ![s] = SequenceOf(s)]
  /\ scan' = [scan EXCEPT
       !.todo = @ \ {s},
       !.baseline = IF MayImport /\ @ = Nothing THEN <<s, file[s]>> ELSE @]
  /\ UNCHANGED <<observed, shown, inbox, hooks, connection>>

StillListed == [s \in Sessions |-> IF s \in scan.listed THEN seen[s] ELSE 0]

\* A run without any observation yet imports one baseline.
EndScan ==
  /\ scan.pc = "scan" /\ scan.todo = {}
  /\ IF MayImport /\ scan.baseline # Nothing
     THEN shown' = Imported(scan.baseline[1], scan.baseline[2]) /\ observed' = TRUE
     ELSE UNCHANGED <<shown, observed>>
  /\ seen' = StillListed /\ scan' = NoScan
  /\ UNCHANGED <<inbox, hooks, connection>>

HookStep(h) ==
  \/ Start(h) \/ Lock(h) \/ LockTimeout(h) \/ Read(h) \/ Refuse(h)
  \/ Replace(h) \/ ReplaceFails(h) \/ Kill(h)

Visit(s) == Skip(s) \/ Unreadable(s) \/ ObserveFresh(s) \/ ObserveOld(s)

Next ==
  \/ \E h \in Hooks : HookStep(h)
  \/ InstallHook \/ Connect \/ Restart \/ Disconnect
  \/ List \/ TooMany \/ ListFails \/ EndScan
  \/ \E s \in Sessions : Visit(s)

Spec == Init /\ [][Next]_vars

\* The collector scans every second and visits every file of a scan; each file
\* can be read again and again, so that not every attempt fails.
FairSpec ==
  /\ Spec
  /\ WF_vars(List) /\ WF_vars(EndScan) /\ WF_vars(\E s \in Sessions : Visit(s))
  /\ \A s \in Sessions : SF_vars(ObserveFresh(s) \/ ObserveOld(s))
-----------------------------------------------------------------------------
TypeOK ==
  /\ \A s \in Sessions : file[s] = NoFile \/ file[s] \in Envelope
  /\ lock \in [Sessions -> Hooks \cup {Nobody}]
  /\ lockFiles \subseteq Sessions /\ Present \subseteq lockFiles
  /\ debris \in 0..MaxDebris /\ issued \in 0..MaxRuns
  /\ source \in 0..issued /\ run \in 0..MaxRuns
  /\ scan.todo \subseteq scan.listed /\ scan.listed \subseteq Present
  /\ \A w \in Windows : shown[w] = Nothing \/ shown[w] \in Value
  /\ observed \in BOOLEAN

\* Whatever overlaps and whoever is killed, an envelope never replaces one of
\* another connection, and every envelope of a session has a higher number than
\* the one before; otherwise the receiver would miss it.
SequenceGrows ==
  [][\A s \in Sessions :
       file[s] # NoFile /\ file'[s] # file[s] =>
         /\ file'[s].binding = file[s].binding
         /\ file'[s].sequence > file[s].sequence]_vars

\* A connection shows no value of an earlier one, although the files of earlier
\* ones stay in the inbox, and what it shows as current was written after its
\* collector started: nothing found on disk after a restart passes for news.
ShownBelongs ==
  \A w \in Windows :
    shown[w] # Nothing =>
      /\ shown[w].binding = source
      /\ shown[w].live => shown[w].sequence > start[shown[w].session]

\* A current value is only replaced or made stale by news, a session whose
\* envelope has a higher number than the one read before, or by an error of the
\* scan.  An old file is not news, in whatever order it is read with the new
\* ones and whatever windows it carries, not even when it is seen for the first
\* time after news came.
LiveUntilNews ==
  [][\A w \in Windows :
       /\ shown[w] # Nothing /\ shown[w].live
       /\ shown'[w] # Nothing /\ shown'[w] # shown[w]
       => \/ \E s \in Sessions : 0 < seen[s] /\ seen[s] < seen'[s]
          \/ scan.pc = "idle"]_vars

\* While the directory fits, the collector catches up with every session of its
\* connection again and again, whatever other files lie beside it.
Fits == Cardinality(Present) <= Limit /\ Entries <= 2 * Limit + 1
CaughtUp == source = 0 \/ \A s \in Sessions : Ours(s) => seen[s] = SequenceOf(s)
CatchesUp == []<>(Fits => CaughtUp)
=============================================================================
