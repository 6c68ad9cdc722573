-------------------------- MODULE ClaudeFilesProofs -------------------------
(***************************************************************************)
(* Proofs about what Claude Code and the program leave each other in files *)
(* (internal/claude): ClaudeInbox for any sessions, hooks, windows and     *)
(* runs, and StatuslineProfile for any statuslines, accounts and number of *)
(* bindings.                                                               *)
(*                                                                         *)
(* The argument about the inbox: a hook between its read and its write     *)
(* holds the lock of its session, so what it read is still there (Locked); *)
(* therefore the numbers of a session only grow, and what a receiver has   *)
(* seen is never older than its run (Forward).                             *)
(*                                                                         *)
(* The argument about the profile: the sidecar always holds the adapter    *)
(* built from its own original (Matching), and while no installation was   *)
(* interrupted that original is never ours (Untorn).                       *)
(***************************************************************************)
EXTENDS ClaudeInbox, StatuslineProfile, TLAPS

-----------------------------------------------------------------------------
(***************************************************************************)
(* The inbox: ClaudeInbox.                                                 *)
(***************************************************************************)
Working == {"lock", "read", "replace"}
HookState == [pc : Working \cup {"new"}, session : Sessions \cup {0},
              binding : Bindings, sequence : Nat]
ScanState == [pc : {"idle", "scan"}, todo : SUBSET Sessions, listed : SUBSET Sessions,
              baseline : (Sessions \X Envelope) \cup {Nothing}]

InboxTyped ==
  /\ file \in [Sessions -> Envelope \cup {NoFile}]
  /\ lock \in [Sessions -> Hooks \cup {Nobody}]
  /\ lockFiles \subseteq Sessions /\ Present \subseteq lockFiles
  /\ debris \in 0..MaxDebris
  /\ hook \in [Hooks -> HookState]

CollectorTyped ==
  /\ issued \in 0..MaxRuns /\ source \in 0..issued /\ run \in 0..MaxRuns
  /\ scan \in ScanState /\ scan.todo \subseteq scan.listed
  /\ scan.listed \subseteq Present
  /\ seen \in [Sessions -> Nat] /\ start \in [Sessions -> Nat]
  /\ observed \in BOOLEAN /\ shown \in [Windows -> Value \cup {Nothing}]

\* A hook that has read its file owns it until it has written it.
Locked ==
  \A h \in Hooks :
    /\ hook[h].pc \in Working =>
         hook[h].session \in lockFiles /\ hook[h].binding \in 1..issued
    /\ hook[h].pc \in {"read", "replace"} => lock[hook[h].session] = h
    /\ hook[h].pc = "replace" =>
         /\ hook[h].sequence = SequenceOf(hook[h].session)
         /\ file[hook[h].session] # NoFile =>
              file[hook[h].session].binding = hook[h].binding

\* Nothing of this binding is older than the run that collects it.
Forward ==
  \A s \in Sessions :
    /\ Ours(s) => SequenceOf(s) >= start[s]
    /\ start[s] > 0 => Ours(s)
    /\ seen[s] > 0 => seen[s] >= start[s]

\* A value that is current was observed; a baseline belongs to the binding.
Belongs ==
  /\ scan.baseline # Nothing => scan.baseline[2].binding = source
  /\ ShownBelongs
  /\ \A w \in Windows : shown[w] # Nothing /\ shown[w].live => observed

Inv == InboxTyped /\ CollectorTyped /\ Locked /\ Forward /\ Belongs

\* A file holds an envelope, or nothing and counts as number 0.
LEMMA Files ==
  ASSUME InboxTyped, NEW s \in Sessions
  PROVE  /\ file[s] = NoFile \/ file[s] \in Envelope
         /\ SequenceOf(s) \in Nat
         /\ file[s] # NoFile =>
              /\ file[s].binding \in Bindings
              /\ SequenceOf(s) = file[s].sequence /\ SequenceOf(s) \in Nat \ {0}
              /\ file[s].windows \subseteq Windows
BY DEF InboxTyped, SequenceOf, Envelope

\* A value that is shown belongs to a session and a binding; ageing keeps both.
LEMMA Values ==
  ASSUME CollectorTyped, NEW w \in Windows
  PROVE  /\ Aged(shown[w]) \in Value \cup {Nothing}
         /\ Aged(shown[w]) # Nothing => shown[w] # Nothing
         /\ shown[w] # Nothing =>
              /\ shown[w] \in Value
              /\ Aged(shown[w]).binding = shown[w].binding
              /\ ~Aged(shown[w]).live
<1>1. shown[w] \in Value \cup {Nothing}
  BY DEF CollectorTyped
<1>2. CASE shown[w] = Nothing
  BY <1>2 DEF Aged
<1>3. CASE shown[w] # Nothing
  <2>1. shown[w] \in Value
    BY <1>1, <1>3
  <2>2. Aged(shown[w]) = [shown[w] EXCEPT !.live = FALSE]
    BY <1>3 DEF Aged
  <2>3. QED
    BY <1>3, <2>1, <2>2 DEF Value
<1>4. QED
  BY <1>2, <1>3

-----------------------------------------------------------------------------
(***************************************************************************)
(* The hooks.                                                              *)
(***************************************************************************)
\* A step of a hook leaves the collector alone; what it does to a file keeps the
\* binding and raises the number.
LEMMA HookSteps ==
  ASSUME Inv, NEW h \in Hooks, HookStep(h)
  PROVE  /\ InboxTyped' /\ Locked'
         /\ Present \subseteq Present'
         /\ \A s \in Sessions :
              \/ file'[s] = file[s]
              \/ /\ file'[s] # NoFile /\ file'[s] \in Envelope
                 /\ file[s] # NoFile =>
                      /\ file'[s].binding = file[s].binding
                      /\ file'[s].sequence > file[s].sequence
         /\ UNCHANGED <<connection, collector>>
<1>1. /\ InboxTyped /\ Locked /\ hook \in [Hooks -> HookState] /\ hook[h] \in HookState
      /\ lock \in [Sessions -> Hooks \cup {Nobody}]
      /\ file \in [Sessions -> Envelope \cup {NoFile}]
      /\ lockFiles \subseteq Sessions /\ Present \subseteq lockFiles
      /\ Nobody \notin Hooks
      /\ issued \in 0..MaxRuns /\ MaxRuns \in Nat /\ debris \in 0..MaxDebris
      /\ MaxDebris \in Nat
  BY InboxAssumption DEF Inv, InboxTyped, CollectorTyped
<1>2. UNCHANGED <<connection, collector, issued>>
  BY DEF HookStep, Start, Lock, LockTimeout, Read, Refuse, Replace, ReplaceFails, Kill,
         connection
<1>3. ASSUME Exit(h)
      PROVE  /\ hook' \in [Hooks -> HookState] /\ hook'[h].pc = "new"
             /\ \A other \in Hooks : other # h => hook'[other] = hook[other]
  <2>1. NewHook \in HookState /\ NewHook.pc = "new"
    BY <1>1 DEF NewHook, HookState, Bindings
  <2>2. QED
    BY <1>1, <1>3, <2>1 DEF Exit
<1>4. ASSUME hook' \in [Hooks -> HookState], UNCHANGED file,
             lock' \in [Sessions -> Hooks \cup {Nobody}],
             lockFiles \subseteq lockFiles', lockFiles' \subseteq Sessions,
             debris' \in 0..MaxDebris
      PROVE  InboxTyped'
  BY <1>1, <1>4 DEF InboxTyped, Present
<1>5. ASSUME \A other \in Hooks : other # h =>
               /\ hook'[other] = hook[other]
               /\ \A s \in Sessions : lock[s] = other => lock'[s] = other,
             lockFiles \subseteq lockFiles', UNCHANGED file,
             hook'[h].pc \in Working =>
               hook'[h].session \in lockFiles' /\ hook'[h].binding \in 1..issued,
             hook'[h].pc \in {"read", "replace"} => lock'[hook'[h].session] = h,
             hook'[h].pc = "replace" =>
               /\ hook'[h].sequence = SequenceOf(hook'[h].session)
               /\ file[hook'[h].session] # NoFile =>
                    file[hook'[h].session].binding = hook'[h].binding
      PROVE  Locked'
  <2>1. ASSUME NEW other \in Hooks, other # h
        PROVE  /\ hook'[other].pc \in Working =>
                    hook'[other].session \in lockFiles' /\ hook'[other].binding \in 1..issued
               /\ hook'[other].pc \in {"read", "replace"} =>
                    lock'[hook'[other].session] = other
               /\ hook'[other].pc = "replace" =>
                    /\ hook'[other].sequence = SequenceOf(hook'[other].session)
                    /\ file[hook'[other].session] # NoFile =>
                         file[hook'[other].session].binding = hook'[other].binding
    <3>1. hook[other].pc \in {"read", "replace"} => hook[other].session \in Sessions
      BY <1>1, <2>1 DEF Locked, Working
    <3>2. QED
      BY <1>1, <1>5, <2>1, <3>1 DEF Locked
  <2>2. QED
    BY <1>2, <1>5, <2>1 DEF Locked, SequenceOf
<1>6. hook[h].pc \in Working =>
        /\ hook[h].session \in Sessions /\ hook[h].session \in lockFiles
        /\ hook[h].binding \in 1..issued
  BY <1>1 DEF Locked
<1>7. hook[h].pc \in {"read", "replace"} => lock[hook[h].session] = h
  BY <1>1 DEF Locked
<1>8. CASE Start(h)
  <2>1. PICK s \in Sessions, b \in 1..issued :
          /\ hook' = [hook EXCEPT ![h] = [@ EXCEPT !.pc = "lock", !.session = s,
                                          !.binding = b]]
          /\ lockFiles' = lockFiles \cup {s} /\ UNCHANGED <<file, lock, debris>>
    BY <1>8, InboxAssumption DEF Start
  <2>2. b \in Bindings
    BY <1>1 DEF Bindings
  <2>3. [hook[h] EXCEPT !.pc = "lock", !.session = s, !.binding = b] \in HookState
    BY <1>1, <2>2 DEF HookState, Working
  <2>4. /\ hook' \in [Hooks -> HookState]
        /\ hook'[h].pc = "lock" /\ hook'[h].session = s /\ hook'[h].binding = b
        /\ \A other \in Hooks : other # h => hook'[other] = hook[other]
    BY <1>1, <2>1, <2>3 DEF HookState
  <2>5. QED
    BY <1>1, <1>2, <1>4, <1>5, <2>1, <2>4 DEF Present
<1>9. CASE Lock(h)
  <2>1. /\ hook[h].pc = "lock" /\ lock[hook[h].session] = Nobody
        /\ lock' = [lock EXCEPT ![hook[h].session] = h]
        /\ Goto(h, "read") /\ UNCHANGED <<file, lockFiles, debris>>
    BY <1>9 DEF Lock
  <2>2. hook[h].pc \in Working
    BY <2>1 DEF Working
  <2>3. /\ lock' \in [Sessions -> Hooks \cup {Nobody}] /\ lock'[hook[h].session] = h
        /\ \A other \in Hooks, s \in Sessions : lock[s] = other => lock'[s] = other
    BY <1>1, <1>6, <2>1, <2>2
  <2>4. /\ hook' \in [Hooks -> HookState] /\ hook'[h].pc = "read"
        /\ hook'[h].session = hook[h].session /\ hook'[h].binding = hook[h].binding
        /\ \A other \in Hooks : other # h => hook'[other] = hook[other]
    <3>1. hook' = [hook EXCEPT ![h] = [@ EXCEPT !.pc = "read"]]
      BY <2>1 DEF Goto
    <3>2. [hook[h] EXCEPT !.pc = "read"] \in HookState
      BY <1>1 DEF HookState, Working
    <3>3. QED
      BY <1>1, <3>1, <3>2 DEF HookState
  <2>5. InboxTyped'
    BY <1>1, <1>4, <2>1, <2>3, <2>4
  <2>6. Locked'
    BY <1>5, <1>6, <2>1, <2>2, <2>3, <2>4
  <2>7. QED
    BY <1>2, <2>1, <2>5, <2>6 DEF Present
<1>10. ASSUME Exit(h), UNCHANGED <<file, lockFiles>>, debris' \in 0..MaxDebris,
              \/ UNCHANGED lock
              \/ /\ hook[h].session \in Sessions /\ lock[hook[h].session] = h
                 /\ Free(hook[h].session)
       PROVE  /\ InboxTyped' /\ Locked' /\ Present \subseteq Present'
  <2>1. /\ hook' \in [Hooks -> HookState] /\ hook'[h].pc = "new"
        /\ \A other \in Hooks : other # h => hook'[other] = hook[other]
    BY <1>3, <1>10
  <2>2. /\ lock' \in [Sessions -> Hooks \cup {Nobody}]
        /\ \A other \in Hooks : other # h =>
             \A s \in Sessions : lock[s] = other => lock'[s] = other
    BY <1>1, <1>10 DEF Free
  <2>3. InboxTyped'
    BY <1>1, <1>4, <1>10, <2>1, <2>2
  <2>4. Locked'
    BY <1>5, <1>10, <2>1, <2>2 DEF Working
  <2>5. QED
    BY <1>10, <2>3, <2>4 DEF Present
<1>11. CASE LockTimeout(h) \/ Refuse(h) \/ ReplaceFails(h) \/ Kill(h)
  <2>1. debris' \in 0..MaxDebris
    <3>1. debris' = debris \/ (debris < MaxDebris /\ debris' = debris + 1)
      BY <1>11 DEF LockTimeout, Refuse, ReplaceFails, Kill, inbox
    <3>2. QED
      BY <1>1, <3>1
  <2>2. hook[h].pc \in Working
    BY <1>11 DEF LockTimeout, Refuse, ReplaceFails, Kill, Working
  <2>3. /\ Exit(h) /\ UNCHANGED <<file, lockFiles>>
        /\ \/ UNCHANGED lock
           \/ lock[hook[h].session] = h /\ Free(hook[h].session)
    BY <1>7, <1>11 DEF LockTimeout, Refuse, ReplaceFails, Kill, inbox
  <2>4. QED
    BY <1>2, <1>6, <1>10, <2>1, <2>2, <2>3
<1>12. CASE Read(h)
  <2>1. /\ hook[h].pc = "read"
        /\ file[hook[h].session] # NoFile =>
             file[hook[h].session].binding = hook[h].binding
        /\ hook' = [hook EXCEPT ![h] = [@ EXCEPT !.pc = "replace",
                                        !.sequence = SequenceOf(hook[h].session)]]
        /\ UNCHANGED <<file, lock, lockFiles, debris>>
    BY <1>12 DEF Read, inbox
  <2>2. hook[h].session \in Sessions /\ hook[h].session \in lockFiles
        /\ hook[h].binding \in 1..issued /\ lock[hook[h].session] = h
    BY <1>6, <1>7, <2>1 DEF Working
  <2>3. SequenceOf(hook[h].session) \in Nat
    BY <1>1, <2>2, Files
  <2>4. [hook[h] EXCEPT !.pc = "replace", !.sequence = SequenceOf(hook[h].session)]
          \in HookState
    BY <1>1, <2>3 DEF HookState, Working
  <2>5. /\ hook' \in [Hooks -> HookState] /\ hook'[h].pc = "replace"
        /\ hook'[h].session = hook[h].session /\ hook'[h].binding = hook[h].binding
        /\ hook'[h].sequence = SequenceOf(hook[h].session)
        /\ \A other \in Hooks : other # h => hook'[other] = hook[other]
    BY <1>1, <2>1, <2>4 DEF HookState
  <2>6. InboxTyped'
    BY <1>1, <1>4, <2>1, <2>5
  <2>7. Locked'
    BY <1>5, <2>1, <2>2, <2>5
  <2>8. QED
    BY <1>2, <2>1, <2>6, <2>7 DEF Present
<1>13. CASE Replace(h)
  <2>0. PICK carried \in Carried :
          file' = [file EXCEPT ![hook[h].session] =
                     [binding |-> hook[h].binding, sequence |-> hook[h].sequence + 1,
                      windows |-> carried]]
    BY <1>13 DEF Replace
  <2> DEFINE s == hook[h].session
             new == [binding |-> hook[h].binding, sequence |-> hook[h].sequence + 1,
                     windows |-> carried]
  <2>1. /\ hook[h].pc = "replace" /\ file' = [file EXCEPT ![s] = new]
        /\ lock' = [lock EXCEPT ![s] = Nobody] /\ Exit(h)
        /\ UNCHANGED <<lockFiles, debris>>
    BY <1>13, <2>0 DEF Replace, Free
  <2>2. s \in Sessions /\ s \in lockFiles /\ hook[h].binding \in 1..issued /\ lock[s] = h
    BY <1>6, <1>7, <2>1 DEF Working
  <2>3. /\ hook[h].sequence = SequenceOf(s) /\ SequenceOf(s) \in Nat
        /\ file[s] # NoFile =>
             file[s].binding = hook[h].binding /\ SequenceOf(s) = file[s].sequence
    BY <1>1, <2>1, <2>2, Files DEF Locked
  <2>4. new \in Envelope /\ new # NoFile
    <3>1. hook[h].binding \in Bindings /\ carried \in SUBSET Windows
      BY <1>1, InboxAssumption DEF HookState
    <3>2. hook[h].sequence + 1 \in Nat \ {0}
      BY <2>3
    <3>3. new \in Envelope
      BY <3>1, <3>2 DEF Envelope
    <3>4. QED
      BY <3>3, AbsentAssumption
  <2>5. /\ new.binding = hook[h].binding /\ new.sequence = hook[h].sequence + 1
    OBVIOUS
  <2> HIDE DEF new
  <2>6. /\ file' \in [Sessions -> Envelope \cup {NoFile}] /\ file'[s] = new
        /\ \A t \in Sessions : t # s => file'[t] = file[t]
        /\ lock' \in [Sessions -> Hooks \cup {Nobody}]
        /\ \A t \in Sessions : t # s => lock'[t] = lock[t]
    BY <1>1, <2>1, <2>2, <2>4
  <2>7. /\ hook' \in [Hooks -> HookState] /\ hook'[h].pc = "new"
        /\ \A other \in Hooks : other # h => hook'[other] = hook[other]
    BY <1>3, <2>1
  <2>8. Present' = Present \cup {s}
    BY <2>2, <2>4, <2>6 DEF Present
  <2>9. InboxTyped'
    BY <1>1, <2>1, <2>2, <2>6, <2>7, <2>8 DEF InboxTyped
  <2>10. Locked'
    <3>1. ASSUME NEW other \in Hooks
          PROVE  /\ hook'[other].pc \in Working =>
                      hook'[other].session \in lockFiles /\ hook'[other].binding \in 1..issued
                 /\ hook'[other].pc \in {"read", "replace"} =>
                      lock'[hook'[other].session] = other
                 /\ hook'[other].pc = "replace" =>
                      /\ hook'[other].sequence = SequenceOf(hook[other].session)'
                      /\ file'[hook'[other].session] # NoFile =>
                           file'[hook'[other].session].binding = hook'[other].binding
      <4>1. CASE other = h
        BY <2>7, <4>1 DEF Working
      <4>2. CASE other # h
        <5>1. hook'[other] = hook[other]
          BY <2>7, <4>2
        <5>2. hook[other].pc \in {"read", "replace"} =>
                /\ hook[other].session \in Sessions /\ hook[other].session # s
                /\ lock[hook[other].session] = other
          BY <1>1, <2>2, <4>2 DEF Locked, Working
        <5>3. hook[other].pc \in {"read", "replace"} =>
                /\ lock'[hook[other].session] = other
                /\ file'[hook[other].session] = file[hook[other].session]
          BY <2>6, <5>2
        <5>4. /\ hook[other].pc \in Working =>
                   hook[other].session \in lockFiles /\ hook[other].binding \in 1..issued
              /\ hook[other].pc = "replace" =>
                   /\ hook[other].sequence = SequenceOf(hook[other].session)
                   /\ file[hook[other].session] # NoFile =>
                        file[hook[other].session].binding = hook[other].binding
          BY <1>1 DEF Locked
        <5>5. hook[other].pc = "replace" =>
                SequenceOf(hook[other].session)' = SequenceOf(hook[other].session)
          BY <5>1, <5>3 DEF SequenceOf
        <5>6. QED
          BY <5>1, <5>3, <5>4, <5>5
      <4>3. QED
        BY <4>1, <4>2
    <3>2. QED
      BY <1>2, <2>1, <3>1 DEF Locked
  <2>11. file[s] # NoFile =>
           file'[s].binding = file[s].binding /\ file'[s].sequence > file[s].sequence
    BY <2>3, <2>5, <2>6
  <2>12. QED
    BY <1>2, <2>4, <2>6, <2>8, <2>9, <2>10, <2>11
<1>14. QED
  BY <1>8, <1>9, <1>11, <1>12, <1>13 DEF HookStep

\* The collector goes on as if nothing had happened.
LEMMA HookKeeps == ASSUME Inv, NEW h \in Hooks, HookStep(h) PROVE Inv'
<1>1. /\ InboxTyped /\ CollectorTyped /\ Forward /\ Belongs
      /\ InboxTyped' /\ Locked' /\ Present \subseteq Present'
      /\ UNCHANGED <<issued, source, run, start, scan, seen, observed, shown>>
  BY HookSteps DEF Inv, connection, collector
<1>2. CollectorTyped'
  BY <1>1 DEF CollectorTyped
<1>3. Belongs'
  BY <1>1 DEF Belongs, ShownBelongs
<1>4. Forward'
  <2>1. SUFFICES ASSUME NEW s \in Sessions
                 PROVE  /\ Ours(s)' => SequenceOf(s)' >= start[s]
                        /\ start[s] > 0 => Ours(s)'
                        /\ seen[s] > 0 => seen[s] >= start[s]
    BY <1>1 DEF Forward
  <2>2. /\ Ours(s) => SequenceOf(s) >= start[s]
        /\ start[s] > 0 => Ours(s)
        /\ seen[s] > 0 => seen[s] >= start[s]
        /\ start[s] \in Nat /\ SequenceOf(s) \in Nat
    BY <1>1, Files DEF Forward, CollectorTyped
  <2>3. CASE file'[s] = file[s]
    BY <1>1, <2>2, <2>3 DEF Ours, SequenceOf
  <2>4. CASE /\ file'[s] # NoFile /\ file'[s] \in Envelope
             /\ file[s] # NoFile =>
                  /\ file'[s].binding = file[s].binding
                  /\ file'[s].sequence > file[s].sequence
    <3>1. file'[s].sequence \in Nat /\ SequenceOf(s)' = file'[s].sequence
      BY <2>4 DEF Envelope, SequenceOf
    <3>2. CASE file[s] = NoFile
      <4>1. start[s] = 0
        BY <2>2, <3>2 DEF Ours
      <4>2. QED
        BY <2>2, <3>1, <4>1
    <3>3. CASE file[s] # NoFile
      <4>1. Ours(s)' <=> Ours(s)
        BY <1>1, <2>4, <3>3 DEF Ours
      <4>2. SequenceOf(s)' > SequenceOf(s)
        BY <2>4, <3>1, <3>3 DEF SequenceOf
      <4>3. QED
        BY <2>2, <3>1, <4>1, <4>2
    <3>4. QED
      BY <3>2, <3>3
  <2>5. QED
    BY <2>3, <2>4, HookSteps
<1>5. QED
  BY <1>1, <1>2, <1>3, <1>4 DEF Inv

-----------------------------------------------------------------------------
(***************************************************************************)
(* The collector.                                                          *)
(***************************************************************************)
\* Nothing but a hook touches the files and locks.
LEMMA InboxRests ==
  ASSUME Inv, UNCHANGED <<inbox, hooks>>, issued' \in Nat, issued' >= issued
  PROVE  InboxTyped' /\ Locked' /\ Present' = Present
<1>1. /\ UNCHANGED <<file, lock, lockFiles, debris, hook>>
      /\ InboxTyped /\ Locked /\ issued \in Nat
  BY InboxAssumption DEF inbox, hooks, Inv, CollectorTyped
<1>2. InboxTyped' /\ Present' = Present
  BY <1>1 DEF InboxTyped, Present
<1>3. \A b \in 1..issued : b \in 1..issued'
  BY <1>1
<1>4. Locked'
  BY <1>1, <1>3 DEF Locked, SequenceOf
<1>5. QED
  BY <1>2, <1>4

\* A hook is installed, and a run of the collector is replaced by a new one, which
\* begins with nothing.
LEMMA ConnectionKeeps ==
  ASSUME Inv, InstallHook \/ Connect \/ Restart \/ Disconnect
  PROVE  Inv'
<1>1. /\ InboxTyped /\ CollectorTyped /\ Forward /\ Belongs
      /\ issued \in Nat /\ MaxRuns \in Nat /\ issued <= MaxRuns /\ source \in 0..issued
      /\ run \in 0..MaxRuns
  BY InboxAssumption DEF Inv, CollectorTyped
<1>2. CASE InstallHook
  <2>1. /\ issued' = issued + 1 /\ issued' \in 0..MaxRuns
        /\ issued' \in Nat /\ issued' >= issued
        /\ UNCHANGED <<source, run, start, scan, seen, observed, shown, inbox, hooks>>
    BY <1>1, <1>2 DEF InstallHook, collector
  <2>2. source \in 0..issued'
    BY <1>1, <2>1
  <2>3. InboxTyped' /\ Locked' /\ Present' = Present /\ UNCHANGED file
    BY <2>1, InboxRests DEF inbox
  <2>4. CollectorTyped'
    BY <1>1, <2>1, <2>2, <2>3 DEF CollectorTyped
  <2>5. Forward' /\ Belongs'
    BY <1>1, <2>1, <2>3 DEF Forward, Belongs, ShownBelongs, Ours, SequenceOf
  <2>6. QED
    BY <2>3, <2>4, <2>5 DEF Inv
<1>3. CASE Connect \/ Restart \/ Disconnect
  <2>1. PICK binding \in 0..issued : Collect(binding)
    BY <1>1, <1>3 DEF Connect, Restart, Disconnect
  <2>2. /\ run' \in 0..MaxRuns /\ source' \in 0..issued /\ source' = binding
        /\ scan' = NoScan /\ seen' = [s \in Sessions |-> 0] /\ observed' = FALSE
        /\ shown' = [w \in Windows |-> Nothing]
        /\ UNCHANGED <<issued, inbox, hooks>>
    BY <1>1, <2>1 DEF Collect
  <2>3. InboxTyped' /\ Locked' /\ Present' = Present /\ UNCHANGED file
    BY <1>1, <2>2, InboxRests DEF inbox
  <2>4. start' = [s \in Sessions |->
          IF file[s] # NoFile /\ file[s].binding = binding THEN SequenceOf(s) ELSE 0]
    BY <2>1 DEF Collect
  <2>5. \A s \in Sessions : SequenceOf(s) \in Nat
    BY <1>1, Files
  <2>6. /\ start' \in [Sessions -> Nat] /\ seen' \in [Sessions -> Nat]
        /\ shown' \in [Windows -> Value \cup {Nothing}]
    BY <2>2, <2>4, <2>5
  <2>7. /\ scan' \in ScanState /\ scan'.todo = {} /\ scan'.listed = {}
        /\ scan'.baseline = Nothing
    BY <2>2 DEF NoScan, ScanState
  <2>8. CollectorTyped'
    BY <1>1, <2>2, <2>6, <2>7 DEF CollectorTyped
  <2>9. Belongs'
    BY <2>2, <2>7 DEF Belongs, ShownBelongs
  <2>10. Forward'
    <3>1. SUFFICES ASSUME NEW s \in Sessions
                   PROVE  /\ Ours(s)' => SequenceOf(s)' >= start'[s]
                          /\ start'[s] > 0 => Ours(s)'
                          /\ ~(seen'[s] > 0)
      BY DEF Forward
    <3>2. Ours(s)' <=> file[s] # NoFile /\ file[s].binding = binding
      BY <2>2, <2>3 DEF Ours
    <3>3. SequenceOf(s)' = SequenceOf(s) /\ SequenceOf(s) \in Nat
      BY <2>3, <2>5 DEF SequenceOf
    <3>4. QED
      BY <2>2, <2>4, <3>2, <3>3
  <2>11. QED
    BY <2>3, <2>8, <2>9, <2>10 DEF Inv
<1>4. QED
  BY <1>2, <1>3

\* An error of the scan shows what was known as previous.
LEMMA FailKeeps ==
  ASSUME Inv, Fail, UNCHANGED <<scan, seen, observed, inbox, hooks, connection>>
  PROVE  Inv'
<1>1. /\ InboxTyped /\ CollectorTyped /\ Forward /\ Belongs /\ issued \in Nat
      /\ UNCHANGED <<issued, source, run, start, file>>
  BY InboxAssumption DEF Inv, CollectorTyped, connection, inbox
<1>2. InboxTyped' /\ Locked' /\ Present' = Present
  BY <1>1, InboxRests
<1>3. \A w \in Windows :
        /\ shown'[w] = Aged(shown[w]) /\ shown'[w] \in Value \cup {Nothing}
        /\ shown'[w] # Nothing =>
             shown[w] # Nothing /\ shown'[w].binding = shown[w].binding /\ ~shown'[w].live
  BY <1>1, Values DEF Fail
<1>4. shown' \in [Windows -> Value \cup {Nothing}]
  BY <1>3 DEF Fail
<1>5. CollectorTyped'
  BY <1>1, <1>2, <1>4 DEF CollectorTyped
<1>6. Belongs'
  BY <1>1, <1>3 DEF Belongs, ShownBelongs
<1>7. Forward'
  BY <1>1 DEF Forward, Ours, SequenceOf
<1>8. QED
  BY <1>2, <1>5, <1>6, <1>7 DEF Inv

\* The scan begins with what it lists and goes through it.
LEMMA ScanKeeps ==
  ASSUME Inv, List \/ TooMany \/ ListFails \/ \E s \in Sessions : Skip(s) \/ Unreadable(s)
  PROVE  Inv'
<1>1. /\ InboxTyped /\ CollectorTyped /\ Forward /\ Belongs /\ issued \in Nat
      /\ scan \in ScanState /\ Present \subseteq Sessions
  BY InboxAssumption DEF Inv, CollectorTyped, Present
<1>2. CASE TooMany \/ ListFails
  BY <1>2, FailKeeps DEF TooMany, ListFails
<1>3. ASSUME scan' \in ScanState, scan'.todo \subseteq scan'.listed,
             scan'.listed \subseteq Present,
             scan'.baseline # Nothing => scan.baseline = scan'.baseline,
             UNCHANGED <<seen, observed, shown, inbox, hooks, connection>>
      PROVE  Inv'
  <2>1. UNCHANGED <<issued, source, run, start, file>>
    BY <1>3 DEF connection, inbox
  <2>2. InboxTyped' /\ Locked' /\ Present' = Present
    BY <1>1, <1>3, <2>1, InboxRests
  <2>3. CollectorTyped'
    BY <1>1, <1>3, <2>1, <2>2 DEF CollectorTyped
  <2>4. Belongs' /\ Forward'
    BY <1>1, <1>3, <2>1 DEF Belongs, ShownBelongs, Forward, Ours, SequenceOf
  <2>5. QED
    BY <2>2, <2>3, <2>4 DEF Inv
<1>4. CASE List
  <2>1. PICK listed \in SUBSET Present :
          scan' = [pc |-> "scan", todo |-> listed, listed |-> listed, baseline |-> Nothing]
    BY <1>4 DEF List, Listed
  <2>2. UNCHANGED <<seen, observed, shown, inbox, hooks, connection>>
    BY <1>4 DEF List
  <2>3. scan' \in ScanState /\ scan'.todo = listed /\ scan'.listed = listed
        /\ scan'.baseline = Nothing
    BY <1>1, <2>1 DEF ScanState
  <2>4. QED
    BY <1>3, <2>1, <2>2, <2>3
<1>5. ASSUME NEW s \in Sessions, Skip(s) \/ Unreadable(s)
      PROVE  Inv'
  <2>1. /\ scan' = [scan EXCEPT !.todo = @ \ {s}]
        /\ UNCHANGED <<seen, observed, shown, inbox, hooks, connection>>
    BY <1>5 DEF Skip, Unreadable, Visited
  <2>2. /\ scan' \in ScanState /\ scan'.todo = scan.todo \ {s}
        /\ scan'.listed = scan.listed /\ scan'.baseline = scan.baseline
    BY <1>1, <2>1 DEF ScanState
  <2>3. scan.todo \subseteq scan.listed /\ scan.listed \subseteq Present
    BY <1>1 DEF CollectorTyped
  <2>4. QED
    BY <1>3, <2>1, <2>2, <2>3
<1>6. QED
  BY <1>2, <1>4, <1>5

\* News is shown as current, what is not news is at most kept as the baseline; both
\* come from a file of the binding that is collected.
LEMMA ObserveKeeps ==
  ASSUME Inv, NEW s \in Sessions, ObserveFresh(s) \/ ObserveOld(s)
  PROVE  Inv'
<1>1. /\ InboxTyped /\ CollectorTyped /\ Forward /\ Belongs /\ issued \in Nat
      /\ scan \in ScanState /\ seen \in [Sessions -> Nat] /\ start \in [Sessions -> Nat]
      /\ scan.todo \subseteq scan.listed /\ scan.listed \subseteq Present
      /\ observed \in BOOLEAN
  BY InboxAssumption DEF Inv, CollectorTyped
<1>2. /\ Ours(s) /\ file[s] \in Envelope /\ file[s].binding = source
      /\ SequenceOf(s) = file[s].sequence /\ SequenceOf(s) \in Nat \ {0}
      /\ file[s].windows \subseteq Windows
  BY <1>1, Files DEF ObserveFresh, ObserveOld, Ours
<1>3. /\ seen' = [seen EXCEPT ![s] = SequenceOf(s)]
      /\ UNCHANGED <<inbox, hooks, connection, file, issued, source, run, start>>
  BY DEF ObserveFresh, ObserveOld, inbox, connection
<1>4. InboxTyped' /\ Locked' /\ Present' = Present
  BY <1>1, <1>3, InboxRests
<1>5. seen' \in [Sessions -> Nat]
  BY <1>1, <1>2, <1>3
<1>6. Forward'
  <2>1. ASSUME NEW t \in Sessions, seen'[t] > 0 PROVE seen'[t] >= start[t]
    <3>1. CASE t = s
      BY <1>1, <1>2, <1>3, <3>1 DEF Forward
    <3>2. CASE t # s
      BY <1>1, <1>3, <2>1, <3>2 DEF Forward
    <3>3. QED
      BY <3>1, <3>2
  <2>2. QED
    BY <1>1, <1>3, <2>1 DEF Forward, Ours, SequenceOf
<1>7. CASE ObserveFresh(s)
  <2>1. /\ seen[s] > 0 /\ SequenceOf(s) > seen[s] /\ shown' = Received(s, file[s])
        /\ observed' = TRUE /\ scan' = [scan EXCEPT !.todo = @ \ {s}]
    BY <1>7 DEF ObserveFresh, Fresh, Visited
  <2>2. SequenceOf(s) > start[s]
    <3>1. seen[s] >= start[s] /\ seen[s] \in Nat /\ start[s] \in Nat
      BY <1>1, <2>1 DEF Forward
    <3>2. QED
      BY <1>2, <2>1, <3>1
  <2>3. ASSUME NEW w \in Windows
        PROVE  /\ shown'[w] \in Value \cup {Nothing}
               /\ shown'[w] # Nothing =>
                    /\ shown'[w].binding = source
                    /\ shown'[w].live => shown'[w].sequence > start[shown'[w].session]
    <3>1. CASE w \in file[s].windows
      <4>1. shown'[w] = [binding |-> file[s].binding, session |-> s,
                         sequence |-> file[s].sequence, live |-> TRUE]
        BY <2>1, <3>1 DEF Received
      <4>2. /\ shown'[w] \in Value /\ shown'[w].binding = file[s].binding
            /\ shown'[w].session = s /\ shown'[w].sequence = file[s].sequence
        <5>1. shown'[w] \in Value
          BY <1>2, <4>1 DEF Value, Envelope
        <5>2. QED
          BY <4>1, <5>1
      <4>3. QED
        BY <1>2, <2>2, <4>2
    <3>2. CASE w \notin file[s].windows
      <4>1. shown'[w] = Aged(shown[w])
        BY <2>1, <3>2 DEF Received
      <4>2. QED
        BY <1>1, <4>1, Values DEF Belongs, ShownBelongs
    <3>3. QED
      BY <3>1, <3>2
  <2>4. shown' \in [Windows -> Value \cup {Nothing}]
    BY <2>1, <2>3 DEF Received
  <2>5. /\ scan' \in ScanState /\ scan'.todo = scan.todo \ {s}
        /\ scan'.listed = scan.listed /\ scan'.baseline = scan.baseline
    BY <1>1, <2>1 DEF ScanState
  <2>6. CollectorTyped'
    BY <1>1, <1>3, <1>4, <1>5, <2>1, <2>4, <2>5 DEF CollectorTyped
  <2>7. Belongs'
    BY <1>1, <1>3, <2>1, <2>3, <2>5 DEF Belongs, ShownBelongs
  <2>8. QED
    BY <1>4, <1>6, <2>6, <2>7 DEF Inv
<1>8. CASE ObserveOld(s)
  <2>1. /\ UNCHANGED <<observed, shown>>
        /\ scan' = [scan EXCEPT !.todo = @ \ {s},
             !.baseline = IF MayImport /\ @ = Nothing THEN <<s, file[s]>> ELSE @]
    BY <1>8 DEF ObserveOld
  <2>2. <<s, file[s]>> \in Sessions \X Envelope /\ <<s, file[s]>>[2] = file[s]
    BY <1>2
  <2>3. /\ scan' \in ScanState /\ scan'.todo = scan.todo \ {s}
        /\ scan'.listed = scan.listed
        /\ scan'.baseline \in {scan.baseline, <<s, file[s]>>}
    BY <1>1, <2>1, <2>2 DEF ScanState
  <2>4. CollectorTyped'
    BY <1>1, <1>3, <1>4, <1>5, <2>1, <2>3 DEF CollectorTyped
  <2>5. Belongs'
    BY <1>1, <1>2, <1>3, <2>1, <2>2, <2>3 DEF Belongs, ShownBelongs
  <2>6. QED
    BY <1>4, <1>6, <2>4, <2>5 DEF Inv
<1>9. QED
  BY <1>7, <1>8

\* The end of a scan imports one baseline and forgets what was not listed.
LEMMA EndKeeps == ASSUME Inv, EndScan PROVE Inv'
<1>1. /\ InboxTyped /\ CollectorTyped /\ Forward /\ Belongs /\ issued \in Nat
      /\ scan \in ScanState /\ seen \in [Sessions -> Nat] /\ start \in [Sessions -> Nat]
      /\ observed \in BOOLEAN /\ shown \in [Windows -> Value \cup {Nothing}]
  BY InboxAssumption DEF Inv, CollectorTyped
<1>2. /\ seen' = [s \in Sessions |-> IF s \in scan.listed THEN seen[s] ELSE 0]
      /\ scan' = NoScan
      /\ UNCHANGED <<inbox, hooks, connection, file, issued, source, run, start>>
  BY DEF EndScan, StillListed, inbox, connection
<1>3. InboxTyped' /\ Locked' /\ Present' = Present
  BY <1>1, <1>2, InboxRests
<1>4. seen' \in [Sessions -> Nat]
  BY <1>1, <1>2
<1>5. Forward'
  BY <1>1, <1>2 DEF Forward, Ours, SequenceOf
<1>6. /\ scan' \in ScanState /\ scan'.todo = {} /\ scan'.listed = {}
      /\ scan'.baseline = Nothing
  BY <1>2 DEF NoScan, ScanState
<1>7. /\ observed' \in BOOLEAN /\ shown' \in [Windows -> Value \cup {Nothing}]
      /\ ShownBelongs'
      /\ \A w \in Windows : shown'[w] # Nothing /\ shown'[w].live => observed'
  <2>1. CASE UNCHANGED <<shown, observed>>
    BY <1>1, <1>2, <2>1 DEF Belongs, ShownBelongs
  <2>2. CASE /\ ~observed /\ scan.baseline # Nothing /\ observed' = TRUE
             /\ shown' = Imported(scan.baseline[1], scan.baseline[2])
    <3>1. /\ scan.baseline[1] \in Sessions /\ scan.baseline[2] \in Envelope
          /\ scan.baseline[2].binding = source
      BY <1>1, <2>2 DEF ScanState, Belongs
    <3>2. ASSUME NEW w \in Windows
          PROVE  /\ shown'[w] \in Value \cup {Nothing}
                 /\ shown'[w] # Nothing =>
                      /\ shown'[w].binding = source
                      /\ shown'[w].live => shown'[w].sequence > start[shown'[w].session]
      <4>1. CASE w \notin scan.baseline[2].windows
        <5>1. shown'[w] = Aged(shown[w])
          BY <2>2, <4>1 DEF Imported
        <5>2. QED
          BY <1>1, <5>1, Values DEF Belongs, ShownBelongs
      <4>2. CASE w \in scan.baseline[2].windows /\ shown[w] # Nothing
        <5>1. shown'[w] = shown[w]
          BY <2>2, <4>2 DEF Imported
        <5>2. QED
          BY <1>1, <5>1 DEF Belongs, ShownBelongs
      <4>3. CASE w \in scan.baseline[2].windows /\ shown[w] = Nothing
        <5>1. shown'[w] = [binding |-> scan.baseline[2].binding,
                           session |-> scan.baseline[1],
                           sequence |-> scan.baseline[2].sequence, live |-> FALSE]
          BY <2>2, <4>3 DEF Imported
        <5>2. /\ shown'[w] \in Value /\ ~shown'[w].live
              /\ shown'[w].binding = scan.baseline[2].binding
          <6>1. shown'[w] \in Value
            BY <3>1, <5>1 DEF Value, Envelope
          <6>2. QED
            BY <5>1, <6>1
        <5>3. QED
          BY <3>1, <5>2
      <4>4. QED
        BY <4>1, <4>2, <4>3
    <3>3. shown' \in [Windows -> Value \cup {Nothing}]
      BY <2>2, <3>2 DEF Imported
    <3>4. QED
      BY <1>2, <2>2, <3>2, <3>3 DEF ShownBelongs
  <2>3. QED
    BY <2>1, <2>2 DEF EndScan, MayImport
<1>8. CollectorTyped'
  BY <1>1, <1>2, <1>3, <1>4, <1>6, <1>7 DEF CollectorTyped
<1>9. Belongs'
  BY <1>6, <1>7 DEF Belongs
<1>10. QED
  BY <1>3, <1>5, <1>8, <1>9 DEF Inv

-----------------------------------------------------------------------------
(***************************************************************************)
(* The invariant of the inbox and what follows from it.                    *)
(***************************************************************************)
\* The inbox begins with the files of earlier installations, no hook and no run.
LEMMA StartInv == Init => Inv
<1> SUFFICES ASSUME Init PROVE Inv
  OBVIOUS
<1>1. PICK old \in SUBSET Leftovers :
        /\ file = [s \in Sessions |-> IF s \in old THEN Leftover ELSE NoFile]
        /\ lockFiles = old /\ old \subseteq Sessions
  BY InboxAssumption DEF Init
<1>2. /\ MaxRuns \in Nat /\ MaxDebris \in Nat /\ 0 \in 0..MaxRuns /\ 0 \in 0..MaxDebris
      /\ 0 \in 0..0 /\ 0 \in Bindings
  BY InboxAssumption DEF Bindings
<1>3. Leftover \in Envelope /\ Leftover # NoFile
  <2>1. Leftover \in Envelope
    BY <1>2 DEF Leftover, Envelope
  <2>2. QED
    BY <2>1, AbsentAssumption
<1>4. /\ file \in [Sessions -> Envelope \cup {NoFile}] /\ Present = old
      /\ \A s \in Sessions : file[s] # NoFile => file[s].binding = 0
  <2>1. Leftover.binding = 0
    BY DEF Leftover
  <2>2. QED
    BY <1>1, <1>3, <2>1 DEF Present
<1>5. NewHook \in HookState /\ NewHook.pc = "new"
  BY <1>2 DEF NewHook, HookState, Working
<1>6. InboxTyped
  BY <1>1, <1>2, <1>4, <1>5 DEF Init, InboxTyped
<1>7. /\ NoScan \in ScanState /\ NoScan.todo = {} /\ NoScan.listed = {}
      /\ NoScan.baseline = Nothing
  BY DEF NoScan, ScanState
<1>8. CollectorTyped
  BY <1>2, <1>7 DEF Init, CollectorTyped
<1>9. Locked
  BY <1>5 DEF Init, Locked, Working
<1>10. Forward
  <2>1. \A s \in Sessions : SequenceOf(s) \in Nat
    BY <1>6, Files
  <2>2. QED
    BY <2>1 DEF Init, Forward
<1>11. Belongs
  BY <1>7 DEF Init, Belongs, ShownBelongs
<1>12. QED
  BY <1>6, <1>8, <1>9, <1>10, <1>11 DEF Inv

\* Every step keeps the invariant.
LEMMA StepInv == Inv /\ [Next]_vars => Inv'
<1> SUFFICES ASSUME Inv, [Next]_vars PROVE Inv'
  OBVIOUS
<1>1. CASE UNCHANGED vars
  <2>1. UNCHANGED <<file, lock, lockFiles, debris, hook, issued, source, run, start, scan,
                    seen, observed, shown>>
    BY <1>1 DEF vars, inbox, hooks, connection, collector
  <2>2. Present' = Present
    BY <2>1 DEF Present
  <2>3. QED
    BY <2>1, <2>2
       DEF Inv, InboxTyped, CollectorTyped, Locked, Forward, Belongs, ShownBelongs, Ours,
           SequenceOf
<1>2. QED
  BY <1>1, HookKeeps, ConnectionKeeps, ScanKeeps, ObserveKeeps, EndKeeps
     DEF Next, Visit

\* The invariant holds in every reachable state.
LEMMA Invariance == Spec => []Inv
BY StartInv, StepInv, PTL DEF Spec

\* Inbox, hooks, connection and collector keep their shape.
THEOREM TypeCorrect == Spec => []TypeOK
<1>1. Inv => TypeOK
  <2> SUFFICES ASSUME Inv PROVE TypeOK
    OBVIOUS
  <2>1. \A s \in Sessions : file[s] = NoFile \/ file[s] \in Envelope
    BY Files DEF Inv
  <2>2. \A w \in Windows : shown[w] = Nothing \/ shown[w] \in Value
    BY DEF Inv, CollectorTyped
  <2>3. QED
    BY <2>1, <2>2 DEF Inv, InboxTyped, CollectorTyped, TypeOK
<1>2. QED
  BY <1>1, Invariance, PTL

\* However many hooks overlap and whoever is killed, the numbers of a session grow
\* and its file is never taken over by another connection.
THEOREM NumbersGrow == Spec => SequenceGrows
<1>1. Inv /\ [Next]_vars =>
        [\A s \in Sessions :
           file[s] # NoFile /\ file'[s] # file[s] =>
             /\ file'[s].binding = file[s].binding
             /\ file'[s].sequence > file[s].sequence]_vars
  <2> SUFFICES ASSUME Inv, Next, NEW s \in Sessions, file[s] # NoFile, file'[s] # file[s]
               PROVE  /\ file'[s].binding = file[s].binding
                      /\ file'[s].sequence > file[s].sequence
    OBVIOUS
  <2>1. CASE \E h \in Hooks : HookStep(h)
    BY <2>1, HookSteps
  <2>2. CASE ~\E h \in Hooks : HookStep(h)
    BY <2>2
       DEF Next, Visit, InstallHook, Connect, Restart, Disconnect, Collect, List, TooMany,
           ListFails, EndScan, Skip, Unreadable, ObserveFresh, ObserveOld, inbox
  <2>3. QED
    BY <2>1, <2>2
<1>2. QED
  BY <1>1, Invariance, PTL DEF Spec, SequenceGrows

\* A connection shows nothing of an earlier one, and as current only what was
\* written after its collector had started.
THEOREM ShowsItsOwn == Spec => []ShownBelongs
<1>1. Inv => ShownBelongs
  BY DEF Inv, Belongs
<1>2. QED
  BY <1>1, Invariance, PTL

\* A current value is replaced or becomes previous only with news, a session's
\* envelope with a higher number than the one read before, or with an error of the
\* scan: an import comes before the first observation, when nothing is current.
THEOREM CurrentUntilNews == Spec => LiveUntilNews
<1>1. Inv /\ [Next]_vars =>
        [\A w \in Windows :
           /\ shown[w] # Nothing /\ shown[w].live
           /\ shown'[w] # Nothing /\ shown'[w] # shown[w]
           => \/ \E s \in Sessions : 0 < seen[s] /\ seen[s] < seen'[s]
              \/ scan.pc = "idle"]_vars
  <2> SUFFICES ASSUME Inv, Next, NEW w \in Windows,
                      shown[w] # Nothing, shown[w].live,
                      shown'[w] # Nothing, shown'[w] # shown[w],
                      scan.pc # "idle"
               PROVE  \E s \in Sessions : 0 < seen[s] /\ seen[s] < seen'[s]
    OBVIOUS
  <2>1. CASE Connect \/ Restart \/ Disconnect
    BY <2>1 DEF Connect, Restart, Disconnect, Collect
  <2>2. ASSUME NEW s \in Sessions, ObserveFresh(s)
        PROVE  0 < seen[s] /\ seen[s] < seen'[s]
    <3>1. /\ seen' = [seen EXCEPT ![s] = SequenceOf(s)]
          /\ seen[s] > 0 /\ SequenceOf(s) > seen[s]
      BY <2>2 DEF ObserveFresh, Fresh
    <3>2. seen \in [Sessions -> Nat] /\ SequenceOf(s) \in Nat
      BY Files DEF Inv, CollectorTyped
    <3>3. seen'[s] = SequenceOf(s) /\ seen[s] \in Nat
      BY <3>1, <3>2
    <3>4. QED
      BY <3>1, <3>2, <3>3
  <2>3. CASE EndScan
    <3>1. observed /\ ~MayImport
      BY DEF Inv, Belongs, MayImport
    <3>2. QED
      BY <2>3, <3>1 DEF EndScan
  <2>4. CASE UNCHANGED shown
    BY <2>4
  <2>5. QED
    BY <2>1, <2>2, <2>3, <2>4
       DEF Next, HookStep, Visit, Start, Lock, LockTimeout, Read, Refuse, Replace,
           ReplaceFails, Kill, InstallHook, List, TooMany, ListFails, Skip, Unreadable,
           ObserveOld, collector
<1>2. QED
  BY <1>1, Invariance, PTL DEF Spec, LiveUntilNews

-----------------------------------------------------------------------------
(***************************************************************************)
(* The profile: StatuslineProfile.                                         *)
(***************************************************************************)
\* The sidecar holds the adapter command built from its own original.
Matching ==
  side # NoSidecar =>
    /\ side.command = AdapterCommand(side.binding, side.original)
    /\ side.binding = newest

Untorn ==
  ~torn =>
    /\ side # NoSidecar => side.original.adapters = <<>>
    /\ Len(line.adapters) <= 1
    /\ ~writing => line.adapters = <<>> \/ IsOurs(line, side)
    /\ removed => line.adapters = <<>>

ProfileInv ==
  /\ ProfileTypeOK /\ OwnLineKept /\ Matching /\ Untorn
  /\ writing => side # NoSidecar /\ side.command.own = own /\ ~removed

\* An adapter in front of a command is a command for the same line of the user's.
LEMMA AdapterLemma ==
  ASSUME NEW binding \in Nat, NEW forward \in Command
  PROVE  /\ AdapterCommand(binding, forward) \in Command
         /\ AdapterCommand(binding, forward).own = forward.own
         /\ AdapterCommand(binding, forward).adapters # <<>>
         /\ Head(AdapterCommand(binding, forward).adapters) = binding
         /\ forward.adapters = <<>> =>
              Len(AdapterCommand(binding, forward).adapters) = 1
<1> DEFINE s == <<binding>> \o forward.adapters
<1>1. forward.adapters \in Seq(Nat) /\ forward.own \in Lines
  BY DEF Command
<1>2. s \in Seq(Nat) /\ Len(s) = 1 + Len(forward.adapters) /\ s[1] = binding
  BY <1>1
<1>3. s # <<>> /\ Head(s) = binding
  BY <1>2
<1>4. forward.adapters = <<>> => Len(s) = 1
  BY <1>2
<1>5. AdapterCommand(binding, forward) = [adapters |-> s, own |-> forward.own]
  BY DEF AdapterCommand
<1>6. QED
  BY <1>1, <1>2, <1>3, <1>4, <1>5 DEF Command

\* A line of the user's is a command without adapters.
LEMMA UserLineLemma ==
  ASSUME NEW chosen \in Lines
  PROVE  /\ UserLine(chosen) \in Command
         /\ UserLine(chosen).own = chosen
         /\ UserLine(chosen).adapters = <<>> /\ Len(UserLine(chosen).adapters) = 0
BY DEF UserLine, Command

\* A command without adapters is a line of the user's.
LEMMA BareLemma ==
  ASSUME NEW command \in Command, command.adapters = <<>>
  PROVE  command = UserLine(command.own)
BY DEF UserLine, Command

\* A profile starts with the user's own statusline.
LEMMA ProfileStart == ProfileInit => ProfileInv
<1> SUFFICES ASSUME ProfileInit PROVE ProfileInv
  OBVIOUS
<1>1. own \in Lines /\ line = UserLine(own) /\ side = NoSidecar
  BY DEF ProfileInit
<1>2. 0 \in 0..MaxBindings
  BY BindingsAssumption
<1>3. /\ line \in Command /\ line.own = own
      /\ line.adapters = <<>> /\ Len(line.adapters) <= 1
  BY <1>1, UserLineLemma
<1>4. ProfileTypeOK
  BY <1>1, <1>2, <1>3 DEF ProfileInit, ProfileTypeOK
<1>5. OwnLineKept /\ Matching /\ Untorn
  BY <1>1, <1>3 DEF OwnLineKept, Matching, Untorn
<1>6. QED
  BY <1>4, <1>5
     DEF ProfileInit, ProfileInv

\* Every operation, edit and interruption keeps the invariant.
LEMMA ProfileStep == ProfileInv /\ [ProfileNext]_profileVars => ProfileInv'
<1> SUFFICES ASSUME ProfileInv, [ProfileNext]_profileVars PROVE ProfileInv'
  OBVIOUS
<1> USE DEF ProfileInv, ProfileTypeOK, OwnLineKept, Matching, Untorn
<1>0. side # NoSidecar => /\ side \in Sidecar
                          /\ side.command \in Command /\ side.original \in Command
                          /\ side.binding \in Nat /\ side.confirmed \in BOOLEAN
                          /\ side.command.own = side.original.own
  <2>1. side # NoSidecar => side \in Sidecar
    OBVIOUS
  <2>2. QED
    BY <2>1, AdapterLemma DEF Sidecar
<1>1. CASE Install
  <2> DEFINE original == Original(line, side)
             new == NewSidecar(line, side, newest')
  <2>1. original \in Command /\ original.own = own
    BY <1>0 DEF Original
  <2>2. newest' \in 1..MaxBindings /\ newest' \in Nat
    BY <1>1, BindingsAssumption DEF Install
  <2>3. /\ new.command = AdapterCommand(newest', original)
        /\ new.original = original /\ new.binding = newest' /\ ~new.confirmed
        /\ new \in Sidecar
    BY <2>1, <2>2, AdapterLemma DEF NewSidecar, Sidecar
  <2>4. new # NoSidecar
    BY <2>3, SidecarAssumption
  <2>5. ~torn => original.adapters = <<>>
    <3>1. SUFFICES ASSUME ~torn PROVE original.adapters = <<>>
      OBVIOUS
    <3>2. CASE IsOurs(line, side)
      BY <3>1, <3>2 DEF IsOurs, Original
    <3>3. CASE ~IsOurs(line, side)
      BY <1>1, <3>1, <3>3 DEF IsOurs, Original, Install
    <3>4. QED
      BY <3>2, <3>3
  <2>6. /\ side' = new /\ writing' = TRUE /\ removed' = FALSE
        /\ UNCHANGED <<line, own, torn>>
    BY <1>1 DEF Install
  <2>7. new.command.own = own
    BY <2>1, <2>2, <2>3, AdapterLemma
  <2> HIDE DEF new, original
  <2>8. /\ side' \in Sidecar /\ side' # NoSidecar /\ ~side'.confirmed
        /\ side'.command = AdapterCommand(side'.binding, side'.original)
        /\ side'.command.own = own' /\ newest' \in 0..MaxBindings
        /\ side'.binding = newest'
    BY <2>2, <2>3, <2>4, <2>6, <2>7
  <2>9. ~torn' => side'.original.adapters = <<>>
    BY <2>3, <2>5, <2>6
  <2>10. ProfileTypeOK' /\ OwnLineKept' /\ Matching'
    BY <2>6, <2>8
  <2>11. Untorn'
    BY <2>6, <2>9
  <2>12. QED
    BY <2>6, <2>8, <2>10, <2>11
<1>2. CASE InstallSettings
  <2>1. /\ side # NoSidecar /\ side.command.own = own /\ ~removed
        /\ side.command = AdapterCommand(side.binding, side.original)
        /\ line' = side.command /\ writing' = FALSE
        /\ UNCHANGED <<side, newest, own, torn, removed>>
    BY <1>2 DEF InstallSettings
  <2>2. ~torn => Len(line'.adapters) <= 1
    <3>1. SUFFICES ASSUME ~torn PROVE Len(line'.adapters) <= 1
      OBVIOUS
    <3>2. side.original.adapters = <<>> /\ side.original \in Command /\ side.binding \in Nat
      BY <1>0, <2>1, <3>1
    <3>3. Len(side.command.adapters) = 1
      BY <2>1, <3>2, AdapterLemma
    <3>4. QED
      BY <2>1, <3>3
  <2>3. line' \in Command /\ line'.own = own
    BY <1>0, <2>1
  <2>4. QED
    BY <2>1, <2>2, <2>3 DEF IsOurs
<1>3. CASE InstallInterrupted
  BY <1>3 DEF InstallInterrupted
<1>4. CASE Uninstall
  <2>1. line' \in Command /\ line'.own = own
    BY <1>0, <1>4 DEF Uninstall, Restored, IsOurs
  <2>2. ~torn => line'.adapters = <<>>
    BY <1>4 DEF Uninstall, Restored, IsOurs
  <2>3. QED
    BY <1>4, <2>1, <2>2 DEF Uninstall
<1>5. ASSUME NEW account \in Accounts \cup {NoAccount}, Confirm(account) PROVE ProfileInv'
  <2>1. side # NoSidecar /\ IsOurs(line, side)
    BY <1>5 DEF Confirm, MayConfirm, IsOurs
  <2>2. /\ side' \in Sidecar /\ side'.confirmed = TRUE /\ side'.account = account
        /\ side'.command = side.command /\ side'.original = side.original
        /\ side'.binding = side.binding
    BY <1>0, <1>5, <2>1 DEF Confirm, Confirmed, Sidecar
  <2>3. side' # NoSidecar
    BY <2>2, SidecarAssumption
  <2>4. QED
    BY <1>5, <2>1, <2>2, <2>3 DEF Confirm, IsOurs
<1>6. CASE Forget
  <2>1. CASE side = NoSidecar
    BY <1>6, <2>1 DEF Forget, Forgotten, IsOurs
  <2>2. CASE side # NoSidecar
    <3>1. /\ side' \in Sidecar /\ side'.confirmed = FALSE
          /\ side'.command = side.command /\ side'.original = side.original
          /\ side'.binding = side.binding
      BY <1>0, <1>6, <2>2 DEF Forget, Forgotten, Sidecar
    <3>2. side' # NoSidecar
      BY <3>1, SidecarAssumption
    <3>3. QED
      BY <1>6, <2>2, <3>1, <3>2 DEF Forget, IsOurs
  <2>3. QED
    BY <2>1, <2>2
<1>7. ASSUME NEW chosen \in Lines, Edit(chosen) PROVE ProfileInv'
  BY <1>7, UserLineLemma DEF Edit
<1>8. CASE UNCHANGED profileVars
  BY <1>8 DEF profileVars, IsOurs
<1>9. QED
  BY <1>1, <1>2, <1>3, <1>4, <1>5, <1>6, <1>7, <1>8 DEF ProfileNext

\* The invariant holds in every reachable state.
LEMMA ProfileInvariance == ProfileSpec => []ProfileInv
BY ProfileStart, ProfileStep, PTL DEF ProfileSpec

\* The two files keep their shape.
THEOREM ProfileTypeCorrect == ProfileSpec => []ProfileTypeOK
<1>1. ProfileInv => ProfileTypeOK
  BY DEF ProfileInv
<1>2. QED
  BY <1>1, ProfileInvariance, PTL

\* The user's statusline survives every interleaving of installations,
\* interruptions, removals and edits.
THEOREM NothingOfTheUsersIsLost == ProfileSpec => []OwnLineKept
<1>1. ProfileInv => OwnLineKept
  BY DEF ProfileInv
<1>2. QED
  BY <1>1, ProfileInvariance, PTL

\* Without an interrupted installation adapters never nest and are removed.
THEOREM CleanProfile == ProfileSpec => []CleanUnlessTorn
<1>1. ProfileInv => CleanUnlessTorn
  BY BareLemma DEF ProfileInv, ProfileTypeOK, OwnLineKept, Untorn, CleanUnlessTorn
<1>2. QED
  BY <1>1, ProfileInvariance, PTL

\* What a restart restores is the newest binding, and the installed command
\* reports to it.
THEOREM RestoredIsInstalled == ProfileSpec => []RestoredIsNewest
<1>1. ProfileInv => RestoredIsNewest
  <2> SUFFICES ASSUME ProfileInv, InstalledBinding(line, side) # NoBinding
               PROVE  RestoredIsNewest
    BY DEF RestoredIsNewest
  <2>1. /\ side # NoSidecar /\ line = side.command
        /\ InstalledBinding(line, side) = side.binding
    BY DEF InstalledBinding, IsOurs
  <2>2. /\ side.binding \in Nat /\ side.original \in Command
        /\ line = AdapterCommand(side.binding, side.original) /\ side.binding = newest
    BY <2>1 DEF ProfileInv, ProfileTypeOK, Matching, Sidecar
  <2>3. line.adapters # <<>> /\ Head(line.adapters) = side.binding
    BY <2>2, AdapterLemma
  <2>4. QED
    BY <2>1, <2>2, <2>3 DEF RestoredIsNewest
<1>2. QED
  BY <1>1, ProfileInvariance, PTL
=============================================================================
