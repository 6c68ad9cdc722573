------------------------ MODULE ClaudeControlProofs -------------------------
(***************************************************************************)
(* Proofs about ClaudeControl for any requests, accounts and statuslines,  *)
(* and any number of bindings and restarts.                                *)
(*                                                                         *)
(* The argument: app.claudeStatus admits one actor at a time (Alone); from *)
(* stopProvider until the new binding is published nothing is collected,   *)
(* and what is published then is what the actor has confirmed, for nobody  *)
(* else writes the files (Kept); so page, source and profile agree again   *)
(* when it rests, whatever failed (Agreed).  A disconnect only drops       *)
(* bindings that were issued and with which no actor works (Numbered), so  *)
(* that none of them is confirmed again.  All of it holds until a request  *)
(* overlaps a check of the watcher.  What the files hold for the user does *)
(* not depend on that (Rooted).                                            *)
(***************************************************************************)
EXTENDS ClaudeControl, TLAPS

Pcs == {"new", "idle", "done", "peek", "compare", "stop", "forget", "uninstall", "clear",
        "goodbye", "ask", "install", "start", "wait", "askAgain", "confirm", "rollback",
        "record", "publish", "announce", "error"}
Kinds == {"none", "connect", "login", "disconnect", "watch"}
Local == [pc : Pcs, kind : Kinds, account : People, binding : 0..MaxBindings]

Typed == TypeOK /\ act \in [Actors -> Local]

\* Which calls a request makes and which the watcher.
Placed ==
  /\ act[Watcher].kind = "watch"
  /\ act[Watcher].pc \notin {"new", "done", "uninstall", "ask", "start", "wait", "askAgain"}
  /\ act[Watcher].pc = "peek" => act[Watcher].account # NoAccount
  /\ \A request \in Requests :
       /\ act[request].kind # "watch" /\ act[request].pc \notin {"idle", "peek", "compare"}
       /\ act[request].pc \in {"stop", "forget"} =>
            act[request].kind \in {"connect", "disconnect"}

\* app.claudeStatus keeps the actors apart, as long as no request overlaps a check of
\* the watcher.
Alone ==
  ~crossed =>
    /\ status \in Busy => Quiet(Watcher)
    /\ \A request \in Requests : ~Quiet(request) => status \in Busy
    /\ \A one, other \in Requests : ~Quiet(one) /\ ~Quiet(other) => one = other

\* From stopProvider until the new binding is published nothing is collected; what
\* is published then is the confirmed binding of the installed hook.
Stopped ==
  {"forget", "uninstall", "clear", "goodbye", "ask", "install", "start", "wait",
   "askAgain", "confirm", "rollback", "record", "publish", "error"}

Kept ==
  ~crossed =>
    \A actor \in Actors :
      /\ act[actor].pc \in Stopped => source = NoBinding /\ ~unnamed
      /\ act[actor].pc \in {"record", "publish", "announce"} =>
           /\ MayConfirm(line, side, act[actor].binding)
           /\ side.confirmed /\ side.account = act[actor].account
      /\ act[actor].pc \in {"publish", "announce"} => known = act[actor].account
      /\ act[actor].pc = "announce" =>
           source = act[actor].binding /\ label = act[actor].account /\ ~unnamed

Agreeing ==
  /\ status = "installed" <=> source # NoBinding
  /\ source # NoBinding =>
       /\ source = InstalledBinding(line, side)
       /\ label = IF unnamed THEN NoAccount ELSE InstalledAccount(side)
       /\ known = label

\* Asking the CLI changes nothing yet.
Agreed ==
  ~crossed /\ (\A actor \in Actors : Quiet(actor) \/ At(actor, "compare")) => Agreeing

\* A disconnect drops only bindings that were issued, never that of a request in
\* progress.
Binding == {"start", "wait", "askAgain", "confirm", "record", "publish", "announce"}

Numbered ==
  /\ side # NoSidecar => side.binding \in 1..issued
  /\ dropped \subseteq 1..issued
  /\ \A actor \in Actors : act[actor].pc \in Binding =>
       /\ act[actor].binding \in 1..issued
       /\ ~crossed => act[actor].binding \notin dropped

Inv ==
  /\ Typed /\ Placed /\ Alone /\ Kept /\ Agreed /\ Numbered /\ DroppedStaysDropped

-----------------------------------------------------------------------------
(***************************************************************************)
(* The profile files.                                                      *)
(***************************************************************************)
\* An adapter in front of a command is a command.
LEMMA AdapterCommands ==
  ASSUME NEW binding \in Nat, NEW forward \in Command
  PROVE  AdapterCommand(binding, forward) \in Command
<1> DEFINE s == <<binding>> \o forward.adapters
<1>1. forward.adapters \in Seq(Nat) /\ forward.own \in Lines
  BY DEF Command
<1>2. s \in Seq(Nat)
  BY <1>1
<1>3. AdapterCommand(binding, forward) = [adapters |-> s, own |-> forward.own]
  BY DEF AdapterCommand
<1>4. QED
  BY <1>1, <1>2, <1>3 DEF Command

\* An installation writes a sidecar that is not confirmed yet.
LEMMA NewSidecars ==
  ASSUME Typed, NEW binding \in 1..MaxBindings
  PROVE  /\ NewSidecar(line, side, binding) \in Sidecar
         /\ NewSidecar(line, side, binding).binding = binding
         /\ ~NewSidecar(line, side, binding).confirmed
         /\ NewSidecar(line, side, binding).command \in Command
<1> DEFINE original == Original(line, side)
<1>1. original \in Command
  BY DEF Typed, TypeOK, Original, Sidecar
<1>2. binding \in Nat
  BY ControlAssumption
<1> HIDE DEF original
<1>3. AdapterCommand(binding, original) \in Command
  BY <1>1, <1>2, AdapterCommands
<1>4. NewSidecar(line, side, binding) =
        [command |-> AdapterCommand(binding, original), original |-> original,
         binding |-> binding, confirmed |-> FALSE, account |-> NoAccount]
  BY DEF NewSidecar, original
<1>5. QED
  BY <1>1, <1>2, <1>3, <1>4 DEF Sidecar

\* What the other operations make of the files.
LEMMA OtherFiles ==
  ASSUME Typed
  PROVE  /\ Restored(line, side) \in Command
         /\ InstalledBinding(Restored(line, side), side) \in
              {NoBinding, InstalledBinding(line, side)}
         /\ Forgotten(side) \in Sidecar \cup {NoSidecar}
         /\ Forgotten(side) # NoSidecar =>
              side # NoSidecar /\ Forgotten(side).binding = side.binding
         /\ InstalledBinding(line, Forgotten(side)) = NoBinding
         /\ \A account \in People : side # NoSidecar =>
              /\ Confirmed(side, account) \in Sidecar
              /\ Confirmed(side, account).binding = side.binding
              /\ Confirmed(side, account).command = side.command
              /\ Confirmed(side, account).account = account
              /\ Confirmed(side, account).confirmed
<1>1. line \in Command /\ side \in Sidecar \cup {NoSidecar}
  BY DEF Typed, TypeOK
<1>2. /\ Restored(line, side) \in Command
      /\ InstalledBinding(Restored(line, side), side) \in
           {NoBinding, InstalledBinding(line, side)}
  BY <1>1 DEF Restored, InstalledBinding, IsOurs, Sidecar
<1>3. CASE side = NoSidecar
  BY <1>1, <1>2, <1>3 DEF Forgotten, InstalledBinding, IsOurs
<1>4. CASE side # NoSidecar
  <2>1. side \in Sidecar
    BY <1>1, <1>4
  <2>2. /\ Forgotten(side) \in Sidecar /\ Forgotten(side).binding = side.binding
        /\ ~Forgotten(side).confirmed
    BY <1>4, <2>1 DEF Forgotten, Sidecar
  <2>3. ASSUME NEW account \in People
        PROVE  /\ Confirmed(side, account) \in Sidecar
               /\ Confirmed(side, account).binding = side.binding
               /\ Confirmed(side, account).command = side.command
               /\ Confirmed(side, account).account = account
               /\ Confirmed(side, account).confirmed
    BY <2>1 DEF Confirmed, Sidecar, People
  <2>4. QED
    BY <1>2, <1>4, <2>2, <2>3 DEF InstalledBinding
<1>5. QED
  BY <1>3, <1>4

-----------------------------------------------------------------------------
(***************************************************************************)
(* The steps of one actor.                                                 *)
(***************************************************************************)
\* An actor that goes on keeps what it knows.
LEMMA Going ==
  ASSUME Typed, NEW actor \in Actors, NEW pc \in Pcs, Goto(actor, pc)
  PROVE  /\ act' \in [Actors -> Local]
         /\ act'[actor].pc = pc /\ act'[actor].kind = act[actor].kind
         /\ act'[actor].account = act[actor].account
         /\ act'[actor].binding = act[actor].binding
         /\ \A other \in Actors : other # actor => act'[other] = act[other]
<1>1. act \in [Actors -> Local] /\ act[actor] \in Local
  BY DEF Typed
<1>2. /\ act'[actor] = [act[actor] EXCEPT !.pc = pc] /\ act' \in [Actors -> Local]
      /\ \A other \in Actors : other # actor => act'[other] = act[other]
  BY <1>1 DEF Goto, Local
<1>3. QED
  BY <1>1, <1>2 DEF Local

\* Every step of an actor keeps the types, and the others where they are.
LEMMA ActorTyped ==
  ASSUME Typed, Placed, Numbered, NEW actor \in Actors, Step(actor)
  PROVE  Typed' /\ \A other \in Actors : other # actor => act'[other] = act[other]
<1> USE DEF At
<1>1. /\ act \in [Actors -> Local] /\ act[actor] \in Local
      /\ line \in Command /\ side \in Sidecar \cup {NoSidecar}
      /\ issued \in 0..MaxBindings /\ MaxBindings \in Nat
      /\ dropped \subseteq 1..MaxBindings /\ act[actor].account \in People
      /\ act[actor].binding \in 0..MaxBindings
      /\ cli \in People /\ NoAccount \in People
      /\ left \in BOOLEAN /\ crossed \in BOOLEAN /\ unnamed \in BOOLEAN
  BY ControlAssumption DEF Typed, TypeOK, Local, People
<1>2. ASSUME NEW pc \in Pcs, Goto(actor, pc)
      PROVE  /\ act' \in [Actors -> Local]
             /\ \A other \in Actors : other # actor => act'[other] = act[other]
  BY <1>2, Going
<1>3. ASSUME NEW record \in Local, act' = [act EXCEPT ![actor] = record]
      PROVE  /\ act' \in [Actors -> Local]
             /\ \A other \in Actors : other # actor => act'[other] = act[other]
  BY <1>1, <1>3
<1>4. ASSUME act' \in [Actors -> Local], UNCHANGED rest, issued' \in 0..MaxBindings,
             status' \in {status, "waiting", "disconnected", "installed", "error"},
             known' \in {known, NoAccount, act[actor].account},
             label' \in {label, NoAccount, act[actor].account},
             source' \in (1..MaxBindings) \cup {source, NoBinding},
             line' \in Command, side' \in Sidecar \cup {NoSidecar},
             left' \in BOOLEAN, UNCHANGED crossed, unnamed' \in BOOLEAN, dropped' \subseteq 1..MaxBindings
      PROVE  Typed'
  <2>1. \A other \in Actors :
          /\ act'[other].account \in People /\ act'[other].binding \in 0..MaxBindings
          /\ act'[other].kind \in Kinds
    BY <1>4 DEF Local
  <2>2. QED
    BY <1>1, <1>4, <2>1 DEF Typed, TypeOK, rest, Kinds, Busy
<1>5. act[actor].pc \in Binding => act[actor].binding \in 1..MaxBindings
  BY <1>1 DEF Numbered
<1>6. side # NoSidecar => side.binding \in 1..MaxBindings
  BY <1>1 DEF Numbered
<1>7. CASE StopSource(actor) \/ ForgetFails(actor) \/ Uninstall(actor) \/ UninstallFails(actor)
  <2>1. \E pc \in {"forget", "clear", "error"} : Goto(actor, pc)
    BY <1>7 DEF StopSource, ForgetFails, Uninstall, UninstallFails
  <2>2. {"forget", "clear", "error"} \subseteq Pcs
    BY DEF Pcs
  <2>3. QED
    BY <1>1, <1>2, <1>4, <1>5, <1>6, <1>7, <2>1, <2>2, OtherFiles
       DEF StopSource, ForgetFails, Uninstall, UninstallFails, app, collecting, files,
           rest, history, Binding
<1>8. CASE Forget(actor)
  <2>1. \E pc \in {"uninstall", "ask", "clear"} : Goto(actor, pc)
    BY <1>8 DEF Forget, AfterForget, Placed, Actors
  <2>2. {"uninstall", "ask", "clear"} \subseteq Pcs
    BY DEF Pcs
  <2>3. QED
    BY <1>1, <1>2, <1>4, <1>5, <1>6, <1>8, <2>1, <2>2, OtherFiles
       DEF Forget, app, collecting, files, rest, history, Binding
<1>9. CASE Clear(actor) \/ Goodbye(actor)
  <2>1. \E pc \in {"goodbye", "install", "idle", "done"} : Goto(actor, pc)
    BY <1>9 DEF Clear, Goodbye, Finish
  <2>2. {"goodbye", "install", "idle", "done"} \subseteq Pcs
    BY DEF Pcs
  <2>3. QED
    BY <1>1, <1>2, <1>4, <1>5, <1>6, <1>9, <2>1, <2>2, OtherFiles
       DEF Clear, Goodbye, app, collecting, files, rest, history, Binding
<1>10. CASE AskFails(actor) \/ StartLogin(actor) \/ StartLoginFails(actor)
            \/ LoginDone(actor) \/ LoginFails(actor)
  <2>1. \E pc \in {"error", "wait", "rollback", "askAgain"} : Goto(actor, pc)
    BY <1>10 DEF AskFails, StartLogin, StartLoginFails, LoginDone, LoginFails
  <2>2. {"error", "wait", "rollback", "askAgain"} \subseteq Pcs
    BY DEF Pcs
  <2>3. QED
    BY <1>1, <1>2, <1>4, <1>5, <1>6, <1>10, <2>1, <2>2, OtherFiles
       DEF AskFails, StartLogin, StartLoginFails, LoginDone, LoginFails, app, collecting,
           files, rest, history, Binding
<1>11. CASE Confirm(actor)
  <2>1. \E pc \in {"record"} : Goto(actor, pc)
    BY <1>11 DEF Confirm
  <2>2. {"record"} \subseteq Pcs
    BY DEF Pcs
  <2>3. QED
    BY <1>1, <1>2, <1>4, <1>5, <1>6, <1>11, <2>1, <2>2, OtherFiles
       DEF Confirm, app, collecting, files, rest, history, Binding, MayConfirm, IsOurs
<1>12. CASE ConfirmFails(actor) \/ Rollback(actor)
  <2>1. \E pc \in {"error", "rollback"} : Goto(actor, pc)
    BY <1>12 DEF ConfirmFails, Rollback
  <2>2. {"error", "rollback"} \subseteq Pcs
    BY DEF Pcs
  <2>3. QED
    BY <1>1, <1>2, <1>4, <1>5, <1>6, <1>12, <2>1, <2>2, OtherFiles
       DEF ConfirmFails, Rollback, app, collecting, files, rest, history, Binding
<1>13. CASE Record(actor) \/ Publish(actor)
  <2>1. \E pc \in {"publish", "announce"} : Goto(actor, pc)
    BY <1>13 DEF Record, Publish
  <2>2. {"publish", "announce"} \subseteq Pcs
    BY DEF Pcs
  <2>3. QED
    BY <1>1, <1>2, <1>4, <1>5, <1>6, <1>13, <2>1, <2>2, OtherFiles
       DEF Record, Publish, app, collecting, files, rest, history, Binding
<1>14. CASE Announce(actor) \/ Fail(actor)
  <2>1. \E pc \in {"idle", "done"} : Goto(actor, pc)
    BY <1>14 DEF Announce, Fail, Finish
  <2>2. {"idle", "done"} \subseteq Pcs
    BY DEF Pcs
  <2>3. QED
    BY <1>1, <1>2, <1>4, <1>5, <1>6, <1>14, <2>1, <2>2, OtherFiles
       DEF Announce, Fail, app, collecting, files, rest, history, Binding
<1>15. CASE Ask(actor) \/ AskAgain(actor)
  <2>1. PICK kind \in Kinds, pc \in {"install", "confirm"} :
          act' = [act EXCEPT ![actor] = [@ EXCEPT !.pc = pc, !.account = cli, !.kind = kind]]
    <3>1. CASE Ask(actor)
      BY <3>1 DEF Ask, Kinds
    <3>2. CASE AskAgain(actor)
      <4>1. act[actor].kind \in Kinds
        BY <1>1 DEF Local
      <4>2. act' = [act EXCEPT ![actor] =
                      [@ EXCEPT !.pc = "confirm", !.account = cli, !.kind = act[actor].kind]]
        BY <1>1, <3>2 DEF AskAgain, Local
      <4>3. QED
        BY <4>1, <4>2
    <3>3. QED
      BY <1>15, <3>1, <3>2
  <2>2. [act[actor] EXCEPT !.pc = pc, !.account = cli, !.kind = kind] \in Local
    BY <1>1, <2>1 DEF Local, Pcs
  <2>3. QED
    BY <1>1, <1>3, <1>4, <1>15, <2>1, <2>2
       DEF Ask, AskAgain, app, collecting, files, rest, history
<1>16. CASE Install(actor)
  <2>1. /\ issued' = issued + 1 /\ issued' \in 1..MaxBindings
        /\ side' = NewSidecar(line, side, issued') /\ line' = side'.command
        /\ UNCHANGED <<app, collecting, rest, history>>
    BY <1>1, <1>16 DEF Install
  <2>2. side' \in Sidecar /\ line' \in Command
    <3>1. /\ NewSidecar(line, side, issued') \in Sidecar
          /\ NewSidecar(line, side, issued').command \in Command
      BY <2>1, NewSidecars
    <3>2. QED
      BY <2>1, <3>1
  <2>3. PICK pc \in {"start", "confirm"} :
          act' = [act EXCEPT ![actor] = [@ EXCEPT !.binding = issued', !.pc = pc]]
    BY <1>16 DEF Install
  <2>4. [act[actor] EXCEPT !.binding = issued', !.pc = pc] \in Local
    <3>1. issued' \in 0..MaxBindings /\ pc \in Pcs
      BY <2>1 DEF Pcs
    <3>2. QED
      BY <1>1, <3>1 DEF Local
  <2>5. QED
    BY <1>1, <1>3, <1>4, <2>1, <2>2, <2>3, <2>4 DEF app, collecting, history
<1>17. CASE InstallFails(actor)
  <2>1. Goto(actor, "error") /\ "error" \in Pcs
    BY <1>17 DEF InstallFails, Pcs
  <2>2. /\ issued' \in 0..MaxBindings /\ line' \in Command
        /\ side' \in Sidecar \cup {NoSidecar}
    <3>1. CASE UNCHANGED files
      BY <1>1, <3>1 DEF files
    <3>2. CASE /\ issued < MaxBindings /\ issued' = issued + 1
               /\ side' = NewSidecar(line, side, issued') /\ UNCHANGED line
      <4>1. issued' \in 1..MaxBindings
        BY <1>1, <3>2
      <4>2. QED
        BY <1>1, <3>2, <4>1, NewSidecars
    <3>3. QED
      BY <1>17, <3>1, <3>2 DEF InstallFails
  <2>3. QED
    BY <1>1, <1>2, <1>4, <1>17, <2>1, <2>2
       DEF InstallFails, app, collecting, history
<1>18. QED
  BY <1>7, <1>8, <1>9, <1>10, <1>11, <1>12, <1>13, <1>14, <1>15, <1>16, <1>17 DEF Step

\* An actor at rest takes no step of a request.
LEMMA AtWork ==
  ASSUME Typed, NEW actor \in Actors, Step(actor)
  PROVE  ~Quiet(actor) /\ ~At(actor, "compare")
BY DEF Step, Quiet, At, Resting, StopSource, Forget, ForgetFails, Uninstall,
       UninstallFails, Clear, Goodbye, Ask, AskFails, StartLogin, StartLoginFails,
       LoginDone, LoginFails, AskAgain, Install, InstallFails, Confirm, ConfirmFails,
       Rollback, Record, Publish, Announce, Fail

\* While one actor works the others rest.
LEMMA OthersRest ==
  ASSUME Typed, Placed, Alone, ~crossed, NEW actor \in Actors, ~Quiet(actor)
  PROVE  \A other \in Actors : other # actor => Quiet(other)
BY ControlAssumption DEF Alone, Actors

\* The status changes at the beginning of a login and when an actor is finished.
LEMMA StatusMoves ==
  ASSUME Typed, NEW actor \in Actors, Step(actor)
  PROVE  \/ UNCHANGED status
         \/ status' = "waiting" /\ act[actor].pc = "start"
         \/ /\ status' \in {"disconnected", "installed", "error"}
            /\ act'[actor].pc \in Resting
<1> USE DEF app
<1>1. CASE Goodbye(actor) \/ Announce(actor) \/ Fail(actor)
  <2>1. PICK pc \in {"idle", "done"} : Goto(actor, pc)
    BY <1>1 DEF Goodbye, Announce, Fail, Finish
  <2>2. act'[actor].pc = pc
    BY <2>1, Going DEF Pcs
  <2>3. act'[actor].pc \in Resting
    BY <2>1, <2>2 DEF Resting
  <2>4. QED
    BY <1>1, <2>3 DEF Goodbye, Announce, Fail
<1>2. CASE StartLogin(actor)
  BY <1>2 DEF StartLogin, At
<1>3. CASE ~(Goodbye(actor) \/ Announce(actor) \/ Fail(actor) \/ StartLogin(actor))
  BY <1>3
     DEF Step, StopSource, Forget, ForgetFails, Uninstall, UninstallFails, Clear, Ask,
         AskFails, StartLoginFails, LoginDone, LoginFails, AskAgain, Install,
         InstallFails, Confirm, ConfirmFails, Rollback, Record, Publish
<1>4. QED
  BY <1>1, <1>2, <1>3

\* The actors stay apart.
LEMMA ActorAlone ==
  ASSUME Typed, Placed, Numbered, Alone, NEW actor \in Actors, Step(actor)
  PROVE  Alone'
<1>1. UNCHANGED crossed
  BY DEF Step, history, StopSource, Forget, ForgetFails, Uninstall,
         UninstallFails, Clear, Goodbye, Ask, AskFails, StartLogin, StartLoginFails,
         LoginDone, LoginFails, AskAgain, Install, InstallFails, Confirm, ConfirmFails,
         Rollback, Record, Publish, Announce, Fail
<1> SUFFICES ASSUME ~crossed PROVE Alone'
  BY <1>1 DEF Alone
<1>2. \A other \in Actors : other # actor => Quiet(other) /\ Quiet(other)'
  BY ActorTyped, AtWork, OthersRest DEF Quiet
<1>3. CASE actor = Watcher
  <2>1. status \notin Busy /\ act[actor].pc # "start"
    BY <1>3, AtWork DEF Alone, Placed
  <2>2. status' \notin Busy
    BY <2>1, StatusMoves DEF Busy
  <2>3. \A request \in Requests : Quiet(request)'
    BY <1>2, <1>3, ControlAssumption DEF Actors
  <2>4. QED
    BY <2>2, <2>3 DEF Alone
<1>4. CASE actor \in Requests
  <2>1. status \in Busy /\ Watcher # actor /\ Watcher \in Actors /\ Requests \subseteq Actors
    BY <1>4, AtWork, ControlAssumption DEF Alone, Actors
  <2>2. status' \in Busy \/ Quiet(actor)'
    BY <2>1, StatusMoves DEF Busy, Quiet
  <2>3. QED
    BY <1>2, <1>4, <2>1, <2>2 DEF Alone
<1>5. QED
  BY <1>3, <1>4 DEF Actors

\* An actor goes on to the calls of its kind.
LEMMA ActorPlaced ==
  ASSUME Typed, Placed, Numbered, NEW actor \in Actors, Step(actor)
  PROVE  Placed'
<1>1. /\ act \in [Actors -> Local] /\ act[actor] \in Local
      /\ \A other \in Actors : other # actor => act'[other] = act[other]
      /\ Watcher \in Actors /\ Requests \subseteq Actors /\ Watcher \notin Requests
  BY ActorTyped, ControlAssumption DEF Typed, Actors
<1> DEFINE Right(pc, kind) ==
      IF actor = Watcher
      THEN /\ kind = "watch"
           /\ pc \notin {"new", "done", "peek", "uninstall", "ask", "start", "wait", "askAgain"}
      ELSE /\ kind # "watch" /\ pc \notin {"idle", "peek", "compare", "stop", "forget"}
<1>2. /\ (actor = Watcher => Right(act[actor].pc, act[actor].kind))
      /\ (actor # Watcher => act[actor].kind # "watch")
      /\ (actor = Watcher <=> act[actor].kind = "watch")
      /\ (act[actor].pc = "forget" => act[actor].kind \in {"connect", "disconnect", "watch"})
  BY <1>1, AtWork DEF Placed, Actors, Quiet, Resting
<1>3. ASSUME Right(act'[actor].pc, act'[actor].kind) \/
             (act'[actor].pc = "forget" /\ act[actor].pc = "stop"
                /\ act'[actor].kind = act[actor].kind)
      PROVE  Placed'
  BY <1>1, <1>2, <1>3 DEF Placed, Actors
<1> HIDE DEF Right
<1>4. CASE StopSource(actor)
  <2>1. PICK pc \in {"forget"} : Goto(actor, pc)
    BY <1>4 DEF StopSource
  <2>2. act'[actor].pc = pc /\ act'[actor].kind = act[actor].kind
    BY <2>1, Going DEF Pcs
  <2>3. QED
    BY <1>2, <1>3, <1>4, <2>1, <2>2 DEF Right, At, StopSource
<1>5. CASE Uninstall(actor) \/ UninstallFails(actor)
  <2>1. PICK pc \in {"clear", "error"} : Goto(actor, pc)
    BY <1>5 DEF Uninstall, UninstallFails
  <2>2. act'[actor].pc = pc /\ act'[actor].kind = act[actor].kind
    BY <2>1, Going DEF Pcs
  <2>3. QED
    BY <1>2, <1>3, <1>5, <2>1, <2>2 DEF Right, At, Uninstall, UninstallFails
<1>6. CASE Clear(actor)
  <2>1. PICK pc \in {"goodbye", "install"} : Goto(actor, pc)
    BY <1>6 DEF Clear
  <2>2. act'[actor].pc = pc /\ act'[actor].kind = act[actor].kind
    BY <2>1, Going DEF Pcs
  <2>3. QED
    BY <1>2, <1>3, <1>6, <2>1, <2>2 DEF Right, At, Clear
<1>7. CASE AskFails(actor)
  <2>1. PICK pc \in {"error"} : Goto(actor, pc)
    BY <1>7 DEF AskFails
  <2>2. act'[actor].pc = pc /\ act'[actor].kind = act[actor].kind
    BY <2>1, Going DEF Pcs
  <2>3. QED
    BY <1>2, <1>3, <1>7, <2>1, <2>2 DEF Right, At, AskFails
<1>8. CASE StartLogin(actor) \/ StartLoginFails(actor) \/ LoginDone(actor) \/
         LoginFails(actor)
  <2>1. PICK pc \in {"wait", "rollback", "askAgain"} : Goto(actor, pc)
    BY <1>8 DEF StartLogin, StartLoginFails, LoginDone, LoginFails
  <2>2. act'[actor].pc = pc /\ act'[actor].kind = act[actor].kind
    BY <2>1, Going DEF Pcs
  <2>3. QED
    BY <1>2, <1>3, <1>8, <2>1, <2>2
       DEF Right, At, StartLogin, StartLoginFails, LoginDone, LoginFails
<1>9. CASE InstallFails(actor) \/ Confirm(actor) \/ ConfirmFails(actor) \/
         Rollback(actor) \/ Record(actor) \/ Publish(actor)
  <2>1. PICK pc \in {"error", "record", "rollback", "publish", "announce"} : Goto(actor, pc)
    BY <1>9 DEF InstallFails, Confirm, ConfirmFails, Rollback, Record, Publish
  <2>2. act'[actor].pc = pc /\ act'[actor].kind = act[actor].kind
    BY <2>1, Going DEF Pcs
  <2>3. QED
    BY <1>2, <1>3, <1>9, <2>1, <2>2
       DEF Right, At, InstallFails, Confirm, ConfirmFails, Rollback, Record, Publish
<1>10. CASE Forget(actor) \/ ForgetFails(actor)
  <2>1. PICK pc \in IF actor = Watcher THEN {"clear"}
                    ELSE {"uninstall", "ask", "error"} : Goto(actor, pc)
    BY <1>2, <1>10 DEF Forget, ForgetFails, AfterForget, At, Right
  <2>2. pc \in {"clear", "uninstall", "ask", "error"} /\ (pc = "clear" <=> actor = Watcher)
    BY <2>1
  <2>3. act'[actor].pc = pc /\ act'[actor].kind = act[actor].kind
    BY <2>1, <2>2, Going DEF Pcs
  <2>4. QED
    BY <1>2, <1>3, <2>2, <2>3 DEF Right
<1>11. CASE Goodbye(actor) \/ Announce(actor) \/ Fail(actor)
  <2>1. PICK pc \in {"idle", "done"} :
          Goto(actor, pc) /\ pc = IF actor = Watcher THEN "idle" ELSE "done"
    BY <1>11 DEF Goodbye, Announce, Fail, Finish
  <2>2. act'[actor].pc = pc /\ act'[actor].kind = act[actor].kind
    BY <2>1, Going DEF Pcs
  <2>3. QED
    BY <1>2, <1>3, <2>1, <2>2 DEF Right
<1>12. CASE Ask(actor)
  <2>1. /\ act'[actor].pc = "install" /\ act'[actor].kind \in {"login", "connect"}
        /\ act[actor].pc = "ask"
    BY <1>1, <1>12 DEF Ask, At, Local
  <2>2. QED
    BY <1>2, <1>3, <2>1 DEF Right
<1>13. CASE AskAgain(actor)
  <2>1. act'[actor].pc = "confirm" /\ act'[actor].kind = act[actor].kind
    BY <1>1, <1>13 DEF AskAgain, Local
  <2>2. QED
    BY <1>2, <1>3, <2>1 DEF Right
<1>14. CASE Install(actor)
  <2>1. /\ act'[actor].pc = IF act[actor].kind = "login" THEN "start" ELSE "confirm"
        /\ act'[actor].kind = act[actor].kind
    BY <1>1, <1>14 DEF Install, Local
  <2>2. QED
    BY <1>2, <1>3, <2>1 DEF Right
<1>15. QED
  BY <1>4, <1>5, <1>6, <1>7, <1>8, <1>9, <1>10, <1>11, <1>12, <1>13, <1>14 DEF Step

\* No actor hides that a request has overlapped a check of the watcher.
LEMMA ActorCrosses == ASSUME NEW actor \in Actors, Step(actor) PROVE UNCHANGED crossed
BY DEF Step, history, StopSource, Forget, ForgetFails, Uninstall,
         UninstallFails, Clear, Goodbye, Ask, AskFails, StartLogin, StartLoginFails,
         LoginDone, LoginFails, AskAgain, Install, InstallFails, Confirm, ConfirmFails,
         Rollback, Record, Publish, Announce, Fail

\* What an actor finds at the calls that follow its confirmation is what it wrote,
\* for nobody else writes; it leaves source, page and profile in agreement.
LEMMA ActorKept ==
  ASSUME Inv, NEW actor \in Actors, Step(actor)
  PROVE  Kept' /\ Agreed'
<1> SUFFICES ASSUME ~crossed, ~crossed' PROVE Kept' /\ Agreed'
  BY ActorCrosses DEF Kept, Agreed
<1>1. /\ Typed /\ Placed /\ Alone /\ Numbered
      /\ act \in [Actors -> Local] /\ act[actor] \in Local
      /\ line \in Command /\ side \in Sidecar \cup {NoSidecar} /\ ~Quiet(actor)
  BY AtWork DEF Inv, Typed, TypeOK
<1>2. \A other \in Actors : other # actor => Quiet(other) /\ act'[other] = act[other]
  BY <1>1, ActorTyped, OthersRest
<1>3. /\ act[actor].pc \in Stopped => source = NoBinding /\ ~unnamed
      /\ act[actor].pc \in {"record", "publish", "announce"} =>
           /\ MayConfirm(line, side, act[actor].binding)
           /\ side.confirmed /\ side.account = act[actor].account
      /\ act[actor].pc \in {"publish", "announce"} => known = act[actor].account
      /\ act[actor].pc = "announce" =>
           source = act[actor].binding /\ label = act[actor].account /\ ~unnamed
  BY DEF Inv, Kept
<1>4. ASSUME act'[actor].pc \in Stopped => source' = NoBinding /\ ~unnamed',
             act'[actor].pc \in {"record", "publish", "announce"} =>
               /\ MayConfirm(line, side, act[actor].binding)'
               /\ side'.confirmed /\ side'.account = act'[actor].account,
             act'[actor].pc \in {"publish", "announce"} => known' = act'[actor].account,
             act'[actor].pc = "announce" =>
               source' = act'[actor].binding /\ label' = act'[actor].account /\ ~unnamed',
             act'[actor].pc \in Resting \cup {"compare"} => Agreeing'
      PROVE  Kept' /\ Agreed'
  <2>1. \A other \in Actors : other # actor =>
          act'[other].pc \notin Stopped \cup {"announce"}
    BY <1>2 DEF Quiet, Resting, Stopped
  <2>2. Kept'
    BY <1>4, <2>1 DEF Kept, Stopped
  <2>3. Agreed'
    BY <1>4 DEF Agreed, Quiet, At
  <2>4. QED
    BY <2>2, <2>3
<1>5. ASSUME UNCHANGED <<source, unnamed>>, act[actor].pc \in Stopped,
             act'[actor].pc \in Stopped \ {"record", "publish"}
      PROVE  Kept' /\ Agreed'
  BY <1>3, <1>4, <1>5 DEF Stopped, Resting
<1>6. CASE Uninstall(actor) \/ UninstallFails(actor) \/ Clear(actor) \/
           AskFails(actor)
  <2>1. PICK pc \in {"clear", "error", "goodbye", "install"} : Goto(actor, pc)
    BY <1>6 DEF Uninstall, UninstallFails, Clear, AskFails
  <2>2. act'[actor].pc = pc
    BY <1>1, <2>1, Going DEF Pcs
  <2>3. UNCHANGED <<source, unnamed>> /\ act[actor].pc \in Stopped
    BY <1>6 DEF Uninstall, UninstallFails, Clear, AskFails, At, collecting, Stopped
  <2>4. QED
    BY <1>5, <2>1, <2>2, <2>3 DEF Stopped
<1>7. CASE StartLogin(actor) \/ StartLoginFails(actor) \/ LoginDone(actor) \/
           LoginFails(actor)
  <2>1. PICK pc \in {"wait", "rollback", "askAgain"} : Goto(actor, pc)
    BY <1>7 DEF StartLogin, StartLoginFails, LoginDone, LoginFails
  <2>2. act'[actor].pc = pc
    BY <1>1, <2>1, Going DEF Pcs
  <2>3. UNCHANGED <<source, unnamed>> /\ act[actor].pc \in Stopped
    BY <1>7 DEF StartLogin, StartLoginFails, LoginDone, LoginFails, At, collecting, Stopped
  <2>4. QED
    BY <1>5, <2>1, <2>2, <2>3 DEF Stopped
<1>8. CASE InstallFails(actor) \/ ConfirmFails(actor) \/ Rollback(actor)
  <2>1. PICK pc \in {"error", "rollback"} : Goto(actor, pc)
    BY <1>8 DEF InstallFails, ConfirmFails, Rollback
  <2>2. act'[actor].pc = pc
    BY <1>1, <2>1, Going DEF Pcs
  <2>3. UNCHANGED <<source, unnamed>> /\ act[actor].pc \in Stopped
    BY <1>8 DEF InstallFails, ConfirmFails, Rollback, At, collecting, Stopped
  <2>4. QED
    BY <1>5, <2>1, <2>2, <2>3 DEF Stopped
<1>9. CASE Forget(actor) \/ ForgetFails(actor)
  <2>1. PICK pc \in {"uninstall", "ask", "clear", "error"} : Goto(actor, pc)
    BY <1>1, <1>9 DEF Forget, ForgetFails, AfterForget, At, Placed, Actors
  <2>2. act'[actor].pc = pc
    BY <1>1, <2>1, Going DEF Pcs
  <2>3. UNCHANGED <<source, unnamed>> /\ act[actor].pc \in Stopped
    BY <1>9 DEF Forget, ForgetFails, At, collecting, Stopped
  <2>4. QED
    BY <1>5, <2>1, <2>2, <2>3 DEF Stopped
<1>10. CASE Ask(actor) \/ AskAgain(actor) \/ Install(actor)
  <2>1. act'[actor].pc \in {"install", "confirm", "start"}
    BY <1>1, <1>10 DEF Ask, AskAgain, Install, Local
  <2>2. UNCHANGED <<source, unnamed>> /\ act[actor].pc \in Stopped
    BY <1>10 DEF Ask, AskAgain, Install, At, collecting, Stopped
  <2>3. QED
    BY <1>5, <2>1, <2>2 DEF Stopped
<1>11. CASE StopSource(actor)
  <2>1. act'[actor].pc = "forget" /\ source' = NoBinding /\ ~unnamed'
    BY <1>1, <1>11, Going DEF StopSource, Pcs
  <2>2. QED
    BY <1>4, <2>1 DEF Resting
<1>12. CASE Confirm(actor)
  <2>1. /\ act'[actor].pc = "record" /\ act'[actor].binding = act[actor].binding
        /\ act'[actor].account = act[actor].account
    BY <1>1, <1>12, Going DEF Confirm, Pcs
  <2>2. /\ act[actor].pc = "confirm" /\ MayConfirm(line, side, act[actor].binding)
        /\ side' = Confirmed(side, act[actor].account) /\ UNCHANGED <<line, source, unnamed>>
    BY <1>12 DEF Confirm, At, collecting
  <2>3. side # NoSidecar /\ act[actor].account \in People
    BY <1>1, <2>2 DEF MayConfirm, IsOurs, Local
  <2>4. /\ side' \in Sidecar /\ side'.binding = side.binding
        /\ side'.command = side.command /\ side'.account = act[actor].account
        /\ side'.confirmed
    BY <1>1, <2>2, <2>3, OtherFiles
  <2>5. MayConfirm(line, side, act[actor].binding)'
    BY <2>1, <2>2, <2>4, SidecarAssumption DEF MayConfirm, IsOurs
  <2>6. source' = NoBinding /\ ~unnamed'
    BY <1>3, <2>2 DEF Stopped
  <2>7. QED
    BY <1>4, <2>1, <2>4, <2>5, <2>6 DEF Resting
<1>13. CASE Record(actor)
  <2>1. /\ act'[actor].pc = "publish" /\ act'[actor].binding = act[actor].binding
        /\ act'[actor].account = act[actor].account
    BY <1>1, <1>13, Going DEF Record, Pcs
  <2>2. /\ act[actor].pc = "record" /\ known' = act[actor].account
        /\ UNCHANGED <<source, unnamed, line, side>>
    BY <1>13 DEF Record, At, collecting, files
  <2>3. MayConfirm(line, side, act[actor].binding)'
    BY <1>3, <2>1, <2>2 DEF MayConfirm, IsOurs
  <2>4. QED
    BY <1>3, <1>4, <2>1, <2>2, <2>3 DEF Resting, Stopped
<1>14. CASE Publish(actor)
  <2>1. /\ act'[actor].pc = "announce" /\ act'[actor].binding = act[actor].binding
        /\ act'[actor].account = act[actor].account
    BY <1>1, <1>14, Going DEF Publish, Pcs
  <2>2. /\ act[actor].pc = "publish" /\ label' = act[actor].account
        /\ source' = act[actor].binding /\ UNCHANGED <<known, unnamed, line, side>>
    BY <1>14 DEF Publish, At, app, files
  <2>3. MayConfirm(line, side, act[actor].binding)'
    BY <1>3, <2>1, <2>2 DEF MayConfirm, IsOurs
  <2>4. QED
    BY <1>3, <1>4, <2>1, <2>2, <2>3 DEF Resting, Stopped
<1>15. CASE Announce(actor)
  <2>1. PICK pc \in {"idle", "done"} : Goto(actor, pc)
    BY <1>15 DEF Announce, Finish
  <2>2. act'[actor].pc = pc
    BY <1>1, <2>1, Going DEF Pcs
  <2>3. /\ act[actor].pc = "announce" /\ status' = "installed"
        /\ UNCHANGED <<known, source, label, unnamed, line, side>>
    BY <1>15 DEF Announce, At, collecting, files
  <2>4. source # NoBinding
    <3>1. act[actor].binding \in 1..issued /\ issued \in 0..MaxBindings
      BY <1>1, <2>3 DEF Numbered, Binding, Typed, TypeOK
    <3>2. act[actor].binding \in Nat
      BY <3>1, ControlAssumption
    <3>3. QED
      BY <1>3, <2>3, <3>2, FilesAssumption
  <2>5. source = InstalledBinding(line, side) /\ label = InstalledAccount(side)
    BY <1>3, <2>3 DEF MayConfirm, IsOurs, InstalledBinding, InstalledAccount
  <2>6. Agreeing'
    BY <1>3, <2>3, <2>4, <2>5 DEF Agreeing, InstalledBinding, InstalledAccount, IsOurs
  <2>7. QED
    BY <1>4, <2>1, <2>2, <2>6 DEF Stopped
<1>16. CASE Goodbye(actor) \/ Fail(actor)
  <2>1. PICK pc \in {"idle", "done"} : Goto(actor, pc)
    BY <1>16 DEF Goodbye, Fail, Finish
  <2>2. act'[actor].pc = pc
    BY <1>1, <2>1, Going DEF Pcs
  <2>3. /\ act[actor].pc \in Stopped /\ status' \in {"disconnected", "error"}
        /\ UNCHANGED source
    BY <1>16 DEF Goodbye, Fail, At, collecting, Stopped
  <2>4. Agreeing'
    BY <1>3, <2>3 DEF Agreeing
  <2>5. QED
    BY <1>4, <2>1, <2>2, <2>4 DEF Stopped
<1>17. QED
  BY <1>6, <1>7, <1>8, <1>9, <1>10, <1>11, <1>12, <1>13, <1>14, <1>15, <1>16 DEF Step

\* A new binding was never dropped, and a disconnect drops no binding that another
\* actor works with.
LEMMA ActorNumbered ==
  ASSUME Inv, NEW actor \in Actors, Step(actor)
  PROVE  Numbered'
<1>1. /\ Typed /\ Placed /\ Alone /\ Numbered
      /\ act \in [Actors -> Local] /\ act[actor] \in Local
      /\ issued \in 0..MaxBindings /\ MaxBindings \in Nat /\ ~Quiet(actor)
      /\ side \in Sidecar \cup {NoSidecar}
  BY AtWork, ControlAssumption DEF Inv, Typed, TypeOK
<1>2. UNCHANGED crossed
  BY ActorCrosses
<1>3. \A other \in Actors : other # actor =>
        act'[other] = act[other] /\ (~crossed => Quiet(other))
  BY <1>1, ActorTyped, OthersRest
<1>4. ASSUME issued' \in Nat, issued' >= issued,
             side' # NoSidecar => side'.binding \in 1..issued',
             dropped' \subseteq 1..issued',
             act'[actor].pc \in Binding =>
               /\ act'[actor].binding \in 1..issued'
               /\ ~crossed => act'[actor].binding \notin dropped',
             UNCHANGED dropped \/ act[actor].pc = "forget"
      PROVE  Numbered'
  <2>1. ASSUME NEW other \in Actors, other # actor, act'[other].pc \in Binding
        PROVE  /\ act'[other].binding \in 1..issued'
               /\ ~crossed' => act'[other].binding \notin dropped'
    <3>1. act[other].binding \in 1..issued /\ act'[other] = act[other]
      BY <1>1, <1>3, <2>1 DEF Numbered
    <3>2. act[other].binding \in 1..issued'
      BY <1>1, <1>4, <3>1
    <3>3. ~(~crossed)
      BY <1>3, <2>1 DEF Quiet, Resting, Binding
    <3>4. QED
      BY <1>2, <3>1, <3>2, <3>3
  <2>2. QED
    BY <1>2, <1>4, <2>1 DEF Numbered
<1>5. ASSUME UNCHANGED <<issued, dropped>>,
             side' # NoSidecar => side # NoSidecar /\ side'.binding = side.binding,
             act'[actor].pc \in Binding =>
               act[actor].pc \in Binding /\ act'[actor].binding = act[actor].binding
      PROVE  Numbered'
  BY <1>1, <1>4, <1>5 DEF Numbered
<1>6. CASE StopSource(actor) \/ ForgetFails(actor) \/ Uninstall(actor)
           \/ UninstallFails(actor) \/ Clear(actor) \/ Goodbye(actor)
           \/ AskFails(actor) \/ StartLoginFails(actor) \/ LoginFails(actor)
           \/ ConfirmFails(actor) \/ Rollback(actor) \/ Announce(actor) \/ Fail(actor)
  <2>1. PICK pc \in Pcs \ Binding : Goto(actor, pc)
    BY <1>6
       DEF StopSource, ForgetFails, Uninstall, UninstallFails, Clear, Goodbye, AskFails,
           StartLoginFails, LoginFails, ConfirmFails, Rollback, Announce, Fail, Finish,
           Pcs, Binding
  <2>2. act'[actor].pc = pc
    BY <1>1, <2>1, Going
  <2>3. UNCHANGED <<issued, dropped, side>>
    BY <1>6
       DEF StopSource, ForgetFails, Uninstall, UninstallFails, Clear, Goodbye, AskFails,
           StartLoginFails, LoginFails, ConfirmFails, Rollback, Announce, Fail,
           files, history
  <2>4. QED
    BY <1>5, <2>1, <2>2, <2>3
<1>7. CASE StartLogin(actor) \/ LoginDone(actor) \/ Record(actor) \/ Publish(actor)
  <2>1. PICK pc \in {"wait", "askAgain", "publish", "announce"} : Goto(actor, pc)
    BY <1>7 DEF StartLogin, LoginDone, Record, Publish
  <2>2. act'[actor].binding = act[actor].binding
    BY <1>1, <2>1, Going DEF Pcs
  <2>3. UNCHANGED <<issued, dropped, side>> /\ act[actor].pc \in Binding
    BY <1>7 DEF StartLogin, LoginDone, Record, Publish, files, history, At, Binding
  <2>4. QED
    BY <1>5, <2>2, <2>3
<1>8. CASE Forget(actor)
  <2>1. PICK pc \in {"uninstall", "ask", "clear"} : Goto(actor, pc)
    BY <1>1, <1>8 DEF Forget, AfterForget, At, Placed, Actors
  <2>2. act'[actor].pc = pc
    BY <1>1, <2>1, Going DEF Pcs
  <2>3. /\ act[actor].pc = "forget" /\ UNCHANGED issued /\ side' = Forgotten(side)
        /\ dropped' \in {dropped, dropped \cup {side.binding}}
        /\ dropped' # dropped => side # NoSidecar
    BY <1>8 DEF Forget, At
  <2>4. side' # NoSidecar => side # NoSidecar /\ side'.binding = side.binding
    BY <1>1, <2>3, OtherFiles
  <2>5. dropped' \subseteq 1..issued
    BY <1>1, <2>3 DEF Numbered
  <2>6. QED
    BY <1>1, <1>4, <2>1, <2>2, <2>3, <2>4, <2>5 DEF Numbered, Binding
<1>9. CASE Ask(actor) \/ AskAgain(actor)
  <2>1. /\ \/ act'[actor].pc = "install"
           \/ act'[actor].pc = "confirm" /\ act[actor].pc = "askAgain"
        /\ act'[actor].binding = act[actor].binding
    <3>1. CASE Ask(actor)
      BY <1>1, <3>1 DEF Ask, Local
    <3>2. CASE AskAgain(actor)
      BY <1>1, <3>2 DEF AskAgain, At, Local
    <3>3. QED
      BY <1>9, <3>1, <3>2
  <2>2. UNCHANGED <<issued, dropped, side>>
    BY <1>9 DEF Ask, AskAgain, files, history
  <2>3. QED
    BY <1>5, <2>1, <2>2 DEF Binding
<1>10. CASE Install(actor)
  <2>1. /\ issued' = issued + 1 /\ issued' \in 1..MaxBindings /\ UNCHANGED dropped
        /\ side' = NewSidecar(line, side, issued')
    BY <1>1, <1>10 DEF Install, history
  <2>2. side'.binding = issued'
    BY <1>1, <2>1, NewSidecars
  <2>3. act'[actor].binding = issued'
    BY <1>1, <1>10 DEF Install, Local
  <2>4. issued' \notin dropped /\ dropped \subseteq 1..issued'
    BY <1>1, <2>1 DEF Numbered
  <2>5. issued' \in 1..issued' /\ issued' \in Nat /\ issued' >= issued
    BY <1>1, <2>1
  <2>6. QED
    BY <1>4, <2>1, <2>2, <2>3, <2>4, <2>5
<1>11. CASE InstallFails(actor)
  <2>1. act'[actor].pc = "error" /\ UNCHANGED dropped
    BY <1>1, <1>11, Going DEF InstallFails, Pcs, history
  <2>2. CASE UNCHANGED files
    BY <1>5, <2>1, <2>2 DEF files, Binding
  <2>3. CASE /\ issued < MaxBindings /\ issued' = issued + 1
             /\ side' = NewSidecar(line, side, issued')
    <3>1. issued' \in 1..MaxBindings /\ issued' \in 1..issued' /\ issued' \in Nat
          /\ issued' >= issued
      BY <1>1, <2>3
    <3>2. side'.binding = issued'
      BY <1>1, <2>3, <3>1, NewSidecars
    <3>3. dropped \subseteq 1..issued'
      BY <1>1, <2>3 DEF Numbered
    <3>4. QED
      BY <1>4, <2>1, <3>1, <3>2, <3>3 DEF Binding
  <2>4. QED
    BY <1>11, <2>2, <2>3 DEF InstallFails
<1>12. CASE Confirm(actor)
  <2>1. act'[actor].binding = act[actor].binding
    BY <1>1, <1>12, Going DEF Confirm, Pcs
  <2>2. /\ act[actor].pc = "confirm" /\ side # NoSidecar /\ UNCHANGED <<issued, dropped>>
        /\ side' = Confirmed(side, act[actor].account)
    BY <1>12 DEF Confirm, At, MayConfirm, IsOurs, history
  <2>3. act[actor].account \in People
    BY <1>1 DEF Local
  <2>4. side'.binding = side.binding
    BY <1>1, <2>2, <2>3, OtherFiles
  <2>5. QED
    BY <1>5, <2>1, <2>2, <2>4 DEF Binding
<1>13. QED
  BY <1>6, <1>7, <1>8, <1>9, <1>10, <1>11, <1>12 DEF Step

\* A binding that was dropped is not confirmed again and not published.
LEMMA ActorDropped ==
  ASSUME Inv, NEW actor \in Actors, Step(actor)
  PROVE  DroppedStaysDropped'
<1> SUFFICES ASSUME ~crossed, ~crossed' PROVE DroppedStaysDropped'
  BY ActorCrosses DEF DroppedStaysDropped
<1>1. /\ Typed /\ Placed /\ Numbered /\ Kept
      /\ act \in [Actors -> Local] /\ act[actor] \in Local
      /\ issued \in 0..MaxBindings /\ MaxBindings \in Nat
      /\ line \in Command /\ side \in Sidecar \cup {NoSidecar}
      /\ source \notin dropped /\ InstalledBinding(line, side) \notin dropped
  BY ControlAssumption DEF Inv, Typed, TypeOK, DroppedStaysDropped
<1>2. dropped \subseteq Nat /\ NoBinding \notin dropped
  <2>1. 1..issued \subseteq Nat
    BY <1>1
  <2>2. dropped \subseteq 1..issued
    BY <1>1 DEF Numbered
  <2>3. QED
    BY <2>1, <2>2, FilesAssumption
<1>3. ASSUME source' \in {source, NoBinding} \/
               (act[actor].pc \in Binding /\ source' = act[actor].binding),
             InstalledBinding(line, side)' \in {InstalledBinding(line, side), NoBinding} \/
               (act[actor].pc \in Binding
                  /\ InstalledBinding(line, side)' = act[actor].binding),
             UNCHANGED dropped
      PROVE  DroppedStaysDropped'
  BY <1>1, <1>2, <1>3 DEF DroppedStaysDropped, Numbered
<1>4. CASE Forget(actor)
  <2>1. /\ source' = NoBinding /\ side' = Forgotten(side) /\ UNCHANGED line
        /\ dropped' \in {dropped, dropped \cup {side.binding}}
        /\ dropped' # dropped => side # NoSidecar
    BY <1>1, <1>4 DEF Forget, At, Kept, Stopped, collecting
  <2>2. InstalledBinding(line, side)' = NoBinding
    <3>1. InstalledBinding(line, Forgotten(side)) = NoBinding
      BY <1>1, OtherFiles
    <3>2. QED
      BY <2>1, <3>1 DEF InstalledBinding, IsOurs
  <2>3. NoBinding \notin dropped'
    <3>1. side # NoSidecar => side.binding \in Nat
      BY <1>1 DEF Numbered
    <3>2. QED
      BY <1>2, <2>1, <3>1, FilesAssumption
  <2>4. QED
    BY <2>1, <2>2, <2>3 DEF DroppedStaysDropped
<1>5. CASE Uninstall(actor) \/ Rollback(actor)
  <2>1. UNCHANGED <<source, side, dropped>> /\ line' \in {line, Restored(line, side)}
    BY <1>5 DEF Uninstall, Rollback, collecting, history
  <2>2. InstalledBinding(line, side)' \in {InstalledBinding(line, side), NoBinding}
    <3>1. InstalledBinding(Restored(line, side), side) \in
            {NoBinding, InstalledBinding(line, side)}
      BY <1>1, OtherFiles
    <3>2. QED
      BY <2>1, <3>1 DEF InstalledBinding, IsOurs
  <2>3. QED
    BY <1>3, <2>1, <2>2
<1>6. CASE Install(actor) \/ InstallFails(actor)
  <2>1. UNCHANGED <<source, dropped>>
    BY <1>6 DEF Install, InstallFails, collecting, history
  <2>2. CASE UNCHANGED files
    BY <1>3, <2>1, <2>2 DEF files, InstalledBinding, IsOurs
  <2>3. CASE issued < MaxBindings /\ issued' = issued + 1
             /\ side' = NewSidecar(line, side, issued')
    <3>1. issued' \in 1..MaxBindings
      BY <1>1, <2>3
    <3>2. ~side'.confirmed
      BY <1>1, <2>3, <3>1, NewSidecars
    <3>3. InstalledBinding(line, side)' = NoBinding
      BY <3>2 DEF InstalledBinding
    <3>4. QED
      BY <1>3, <2>1, <3>3
  <2>4. QED
    BY <1>6, <2>2, <2>3 DEF Install, InstallFails
<1>7. CASE Confirm(actor)
  <2>1. /\ act[actor].pc = "confirm" /\ MayConfirm(line, side, act[actor].binding)
        /\ side' = Confirmed(side, act[actor].account)
        /\ UNCHANGED <<line, source, dropped>>
    BY <1>7 DEF Confirm, At, collecting, history
  <2>2. side # NoSidecar /\ act[actor].account \in People
    BY <1>1, <2>1 DEF MayConfirm, IsOurs, Local
  <2>3. side'.binding = side.binding
    BY <1>1, <2>1, <2>2, OtherFiles
  <2>4. InstalledBinding(line, side)' \in {act[actor].binding, NoBinding}
    BY <2>1, <2>3 DEF InstalledBinding, MayConfirm
  <2>5. QED
    BY <1>3, <2>1, <2>4 DEF Binding
<1>8. CASE StopSource(actor) \/ Publish(actor)
  BY <1>3, <1>8
     DEF StopSource, Publish, At, files, history, Binding, InstalledBinding, IsOurs
<1>9. CASE ForgetFails(actor) \/ UninstallFails(actor) \/ Clear(actor) \/ Goodbye(actor)
           \/ Ask(actor) \/ AskFails(actor) \/ StartLogin(actor) \/ StartLoginFails(actor)
           \/ LoginDone(actor) \/ LoginFails(actor) \/ AskAgain(actor)
           \/ ConfirmFails(actor) \/ Record(actor) \/ Announce(actor) \/ Fail(actor)
  <2>1. UNCHANGED <<source, line, side, dropped>>
    BY <1>9
       DEF ForgetFails, UninstallFails, Clear, Goodbye, Ask, AskFails, StartLogin,
           StartLoginFails, LoginDone, LoginFails, AskAgain, ConfirmFails, Record,
           Announce, Fail, collecting, files, history
  <2>2. QED
    BY <1>3, <2>1 DEF InstalledBinding, IsOurs
<1>10. QED
  BY <1>4, <1>5, <1>6, <1>7, <1>8, <1>9 DEF Step

-----------------------------------------------------------------------------
(***************************************************************************)
(* Requests, the watcher's tick and its question, and restarts.            *)
(***************************************************************************)
\* A request is accepted only while no other is in progress; the watcher may ask.
LEMMA AcceptStep ==
  ASSUME Inv, NEW request \in Requests, Connect(request) \/ Disconnect(request)
  PROVE  Inv'
<1>1. /\ Typed /\ Placed /\ Alone /\ Numbered
      /\ act \in [Actors -> Local] /\ act[request] \in Local
      /\ Requests \subseteq Actors /\ Watcher \in Actors /\ request # Watcher
  BY ControlAssumption DEF Inv, Typed, Actors
<1>2. PICK kind \in {"connect", "disconnect"}, busy \in {"starting", "disconnecting"} :
        Accept(request, kind, busy)
  BY DEF Connect, Disconnect
<1>3. left' \in BOOLEAN
  BY <1>1 DEF Connect, Disconnect, Typed, TypeOK
<1>4. /\ status \notin Busy /\ status' \in Busy
      /\ crossed' = (crossed \/ ~Quiet(Watcher))
      /\ UNCHANGED <<known, source, label, unnamed, line, side, issued, cli, watching, restarts,
                     dropped>>
  BY <1>2 DEF Accept, Busy, collecting, files, rest
<1>5. /\ act' \in [Actors -> Local]
      /\ act'[request].pc = "stop" /\ act'[request].kind = kind
      /\ \A other \in Actors : other # request => act'[other] = act[other]
  <2>1. [act[request] EXCEPT !.pc = "stop", !.kind = kind] \in Local
    BY <1>1 DEF Local, Pcs, Kinds
  <2>2. QED
    BY <1>1, <1>2, <2>1 DEF Accept, Local
<1>6. ~crossed' => ~crossed /\ Quiet(Watcher) /\ \A actor \in Actors : Quiet(actor)
  BY <1>1, <1>4 DEF Alone, Actors
<1>7. Typed'
  <2>1. crossed' \in BOOLEAN
    BY <1>1, <1>4 DEF Typed, TypeOK, Quiet
  <2>2. \A other \in Actors :
          /\ act'[other].account \in People /\ act'[other].binding \in 0..MaxBindings
          /\ act'[other].kind \in Kinds
    BY <1>5 DEF Local
  <2>3. QED
    BY <1>1, <1>3, <1>4, <1>5, <2>1, <2>2 DEF Typed, TypeOK, Kinds
<1>8. Placed'
  BY <1>1, <1>5 DEF Placed, Actors
<1>9. Alone'
  <2>1. ~crossed' => \A other \in Actors : other # request => Quiet(other)'
    BY <1>5, <1>6 DEF Quiet
  <2>2. QED
    BY <1>1, <1>4, <2>1 DEF Alone, Actors
<1>10. Kept'
  <2>1. ASSUME ~crossed', NEW actor \in Actors
        PROVE  act'[actor].pc \notin Stopped \cup {"announce"}
    <3>1. CASE actor = request
      BY <1>5, <3>1 DEF Stopped
    <3>2. CASE actor # request
      BY <1>5, <1>6, <2>1, <3>2 DEF Quiet, Resting, Stopped
    <3>3. QED
      BY <3>1, <3>2
  <2>2. QED
    BY <2>1 DEF Kept, Stopped
<1>11. Agreed'
  BY <1>1, <1>5 DEF Agreed, Quiet, Resting, At
<1>12. Numbered'
  <2>1. ASSUME NEW actor \in Actors, act'[actor].pc \in Binding
        PROVE  act'[actor] = act[actor]
    BY <1>5, <2>1 DEF Binding
  <2>2. QED
    BY <1>1, <1>4, <1>6, <2>1 DEF Numbered
<1>13. DroppedStaysDropped'
  BY <1>4, <1>6 DEF Inv, DroppedStaysDropped, InstalledBinding, IsOurs
<1>14. QED
  BY <1>7, <1>8, <1>9, <1>10, <1>11, <1>12, <1>13 DEF Inv

\* The watcher asks the CLI only while no request is in progress, and binds another
\* account only after that; until then nothing is changed.
LEMMA WatcherStep == ASSUME Inv, Tick \/ CheckBusy \/ Compare PROVE Inv'
<1>1. /\ Typed /\ Placed /\ Alone /\ Kept /\ Agreed /\ Numbered /\ DroppedStaysDropped
      /\ act \in [Actors -> Local] /\ act[Watcher] \in Local
      /\ Requests \subseteq Actors /\ Watcher \in Actors /\ Watcher \notin Requests
      /\ cli \in People /\ known \in People /\ crossed \in BOOLEAN
  BY ControlAssumption DEF Inv, Typed, TypeOK, Actors
<1>2. /\ UNCHANGED <<status, known, source, label, unnamed, line, side, issued, cli,
                     watching, restarts, left, dropped>>
      /\ crossed' \in BOOLEAN /\ (crossed => crossed')
  BY <1>1 DEF Tick, CheckBusy, Compare, app, collecting, files, rest, history
<1>3. PICK pc \in {"peek", "compare", "idle", "stop"}, account \in People :
        /\ act' = [act EXCEPT ![Watcher] = [@ EXCEPT !.pc = pc, !.account = account]]
        /\ pc = "peek" => account # NoAccount
  <2>1. act[Watcher].account \in People
    BY <1>1 DEF Local
  <2>2. CASE Tick
    BY <1>1, <2>2 DEF Tick
  <2>3. ASSUME NEW place \in {"compare", "idle"}, Goto(Watcher, place)
        PROVE  act' = [act EXCEPT ![Watcher] =
                         [@ EXCEPT !.pc = place, !.account = act[Watcher].account]]
    BY <1>1, <2>3 DEF Goto, Local
  <2>4. CASE CheckBusy \/ (Compare /\ Finish(Watcher))
    BY <2>1, <2>3, <2>4 DEF CheckBusy, Finish
  <2>5. CASE Compare /\ ~Finish(Watcher)
    BY <1>1, <2>5 DEF Compare
  <2>6. QED
    BY <2>2, <2>4, <2>5
<1>4. /\ act' \in [Actors -> Local]
      /\ act'[Watcher].pc = pc /\ act'[Watcher].kind = act[Watcher].kind
      /\ act'[Watcher].account = account
      /\ \A other \in Actors : other # Watcher => act'[other] = act[other]
  <2>1. [act[Watcher] EXCEPT !.pc = pc, !.account = account] \in Local
    BY <1>1, <1>3 DEF Local, Pcs
  <2>2. QED
    BY <1>1, <1>3, <2>1 DEF Local
<1>5. /\ act[Watcher].pc \in {"idle", "peek", "compare"}
      /\ pc \in {"compare", "stop"} => act[Watcher].pc = "compare" \/ status \notin Busy
  <2>1. CASE Tick
    BY <1>1, <1>4, <2>1 DEF Tick, At, Local
  <2>2. CASE CheckBusy /\ status \in Busy
    <3>1. Goto(Watcher, "idle")
      BY <2>2 DEF CheckBusy, Finish
    <3>2. pc = "idle"
      BY <1>1, <1>4, <3>1, Going DEF Pcs
    <3>3. QED
      BY <2>2, <3>2 DEF CheckBusy, At
  <2>3. CASE CheckBusy /\ status \notin Busy
    BY <2>3 DEF CheckBusy, At
  <2>4. CASE Compare
    BY <2>4 DEF Compare, At
  <2>5. QED
    BY <2>1, <2>2, <2>3, <2>4
<1>6. ~crossed' /\ pc \in {"compare", "stop"} => status \notin Busy
  BY <1>1, <1>2, <1>5 DEF Alone, Quiet, Resting
<1>7. Typed'
  <2>1. \A other \in Actors :
          /\ act'[other].account \in People /\ act'[other].binding \in 0..MaxBindings
          /\ act'[other].kind \in Kinds
    BY <1>4 DEF Local
  <2>2. QED
    BY <1>1, <1>2, <1>4, <2>1 DEF Typed, TypeOK, Kinds
<1>8. Placed'
  BY <1>1, <1>3, <1>4 DEF Placed, Actors
<1>9. \A request \in Requests : act'[request] = act[request]
  BY <1>1, <1>4
<1>10. Alone'
  <2>1. pc \in {"peek", "idle"} => Quiet(Watcher)'
    BY <1>4 DEF Quiet, Resting
  <2>2. ~crossed' /\ status \in Busy => Quiet(Watcher)'
    BY <1>3, <1>6, <2>1
  <2>3. QED
    BY <1>1, <1>2, <1>9, <2>2 DEF Alone, Quiet
<1>11. Kept'
  <2>1. act'[Watcher].pc \notin Stopped \cup {"announce"}
    BY <1>4 DEF Stopped
  <2>2. \A actor \in Actors :
          act'[actor].pc \in Stopped \cup {"announce"} => act'[actor] = act[actor]
    BY <1>4, <2>1
  <2>3. QED
    BY <1>1, <1>2, <2>2 DEF Kept, Stopped, MayConfirm, IsOurs
<1>12. Agreed'
  <2>1. SUFFICES ASSUME ~crossed',
                        \A actor \in Actors : Quiet(actor)' \/ At(actor, "compare")'
                 PROVE  Agreeing'
    BY DEF Agreed
  <2>2. \A actor \in Actors : Quiet(actor) \/ At(actor, "compare")
    BY <1>4, <1>5, <2>1 DEF Quiet, Resting, At
  <2>3. Agreeing
    BY <1>1, <1>2, <2>1, <2>2 DEF Agreed
  <2>4. QED
    BY <1>2, <2>3 DEF Agreeing, InstalledBinding, InstalledAccount, IsOurs
<1>13. Numbered'
  <2>1. ASSUME NEW actor \in Actors, act'[actor].pc \in Binding
        PROVE  act'[actor] = act[actor]
    BY <1>4, <2>1 DEF Binding
  <2>2. QED
    BY <1>1, <1>2, <2>1 DEF Numbered
<1>14. DroppedStaysDropped'
  BY <1>1, <1>2 DEF DroppedStaysDropped, InstalledBinding, IsOurs
<1>15. QED
  BY <1>7, <1>8, <1>10, <1>11, <1>12, <1>13, <1>14 DEF Inv

\* A restart ends every request and restores what the profile says, and only that.
LEMMA RestartStep == ASSUME Inv, Restart PROVE Inv'
<1>1. /\ Typed /\ Placed /\ Numbered /\ DroppedStaysDropped
      /\ act \in [Actors -> Local] /\ Watcher \in Actors /\ Requests \subseteq Actors
      /\ Watcher \notin Requests /\ NoAccount \in People
      /\ issued \in 0..MaxBindings /\ MaxBindings \in Nat
      /\ restarts \in 0..MaxRestarts /\ MaxRestarts \in Nat
      /\ side \in Sidecar \cup {NoSidecar}
  BY ControlAssumption DEF Inv, Typed, TypeOK, Actors, People
<1>2. /\ restarts < MaxRestarts /\ restarts' = restarts + 1
      /\ UNCHANGED <<line, side, issued, cli, left, dropped, crossed>>
      /\ label' = known'
      /\ unnamed' \in BOOLEAN
      /\ \/ /\ watching' = TRUE
            /\ source' = InstalledBinding(line, side)
            /\ known' = IF unnamed' \/ source' = NoBinding THEN NoAccount
                        ELSE InstalledAccount(side)
            /\ status' = IF source' = NoBinding THEN "disconnected" ELSE "installed"
         \/ /\ watching' = FALSE
            /\ source' = NoBinding /\ known' = NoAccount /\ status' = "error"
  BY DEF Restart, files, history
<1>3. /\ act' \in [Actors -> Local]
      /\ \A actor \in Actors :
           /\ Quiet(actor)'
           /\ actor = Watcher => act'[actor].pc = "idle" /\ act'[actor].kind = "watch"
           /\ actor # Watcher =>
                /\ act'[actor].kind = act[actor].kind
                /\ act'[actor].pc = act[actor].pc \/ act'[actor].pc = "done"
  <2>1. ASSUME NEW actor \in Actors
        PROVE  /\ act'[actor] \in Local
               /\ Quiet(actor)'
               /\ actor = Watcher => act'[actor].pc = "idle" /\ act'[actor].kind = "watch"
               /\ actor # Watcher =>
                    /\ act'[actor].kind = act[actor].kind
                    /\ act'[actor].pc = act[actor].pc \/ act'[actor].pc = "done"
    <3>1. act[actor] \in Local
      BY <1>1
    <3>2. CASE actor = Watcher
      <4>1. act'[actor] = Idle
        BY <3>2 DEF Restart
      <4>2. 0 \in 0..MaxBindings
        BY <1>1
      <4>3. Idle \in Local /\ Idle.pc = "idle" /\ Idle.kind = "watch"
        BY <1>1, <4>2 DEF Idle, Fresh, Local, Pcs, Kinds
      <4>4. QED
        BY <3>2, <4>1, <4>3 DEF Quiet, Resting
    <3>3. CASE actor # Watcher /\ Quiet(actor)
      <4>1. act'[actor] = act[actor]
        BY <3>3 DEF Restart
      <4>2. QED
        BY <3>1, <3>3, <4>1 DEF Quiet
    <3>4. CASE actor # Watcher /\ ~Quiet(actor)
      <4>1. act'[actor] = [act[actor] EXCEPT !.pc = "done"]
        BY <3>4 DEF Restart
      <4>2. QED
        BY <3>1, <3>4, <4>1 DEF Quiet, Resting, Local, Pcs
    <3>5. QED
      BY <3>2, <3>3, <3>4
  <2>2. act' = [actor \in Actors |-> act'[actor]]
    BY DEF Restart
  <2>3. QED
    BY <2>1, <2>2
<1>4. side # NoSidecar => /\ side.binding \in 1..MaxBindings /\ side.binding # NoBinding
                          /\ side.account \in People
  <2>1. SUFFICES ASSUME side # NoSidecar
                 PROVE  /\ side.binding \in 1..MaxBindings /\ side.binding # NoBinding
                        /\ side.account \in People
    OBVIOUS
  <2>2. side \in Sidecar /\ side.binding \in 1..issued
    BY <1>1, <2>1 DEF Numbered
  <2>3. side.account \in People /\ side.binding \in Nat
    BY <2>2 DEF Sidecar, People
  <2>4. QED
    BY <1>1, <2>2, <2>3, FilesAssumption
<1>5. /\ InstalledBinding(line, side) \in (1..MaxBindings) \cup {NoBinding}
      /\ InstalledAccount(side) \in People
      /\ InstalledBinding(line, side) # NoBinding => side # NoSidecar /\ side.confirmed
  BY <1>1, <1>4 DEF InstalledBinding, InstalledAccount, IsOurs
<1>6. Typed'
  <2>1. restarts' \in 0..MaxRestarts
    BY <1>1, <1>2
  <2>2. /\ status' \in {"disconnected", "installed", "error"} /\ watching' \in BOOLEAN
        /\ known' \in People /\ source' \in (1..MaxBindings) \cup {NoBinding}
    BY <1>1, <1>2, <1>5
  <2>3. \A actor \in Actors :
          /\ act'[actor].account \in People /\ act'[actor].binding \in 0..MaxBindings
          /\ act'[actor].kind \in Kinds
    BY <1>3 DEF Local
  <2>4. QED
    BY <1>1, <1>2, <1>3, <2>1, <2>2, <2>3 DEF Typed, TypeOK, Kinds
<1>7. Placed'
  BY <1>1, <1>3 DEF Placed, Quiet, Resting
<1>8. Alone' /\ Kept'
  <2>1. \A actor \in Actors : act'[actor].pc \notin Stopped \cup {"announce"}
    BY <1>3 DEF Quiet, Resting, Stopped
  <2>2. Kept'
    BY <2>1 DEF Kept, Stopped
  <2>3. QED
    BY <1>1, <1>3, <2>2 DEF Alone
<1>9. Agreed'
  <2>1. Agreeing'
    BY <1>2, <1>5 DEF Agreeing, InstalledBinding, InstalledAccount, IsOurs
  <2>2. QED
    BY <2>1 DEF Agreed
<1>10. Numbered'
  BY <1>1, <1>2, <1>3 DEF Numbered, Quiet, Resting, Binding
<1>11. DroppedStaysDropped'
  <2>1. 1..issued \subseteq Nat /\ dropped \subseteq 1..issued
    BY <1>1 DEF Numbered
  <2>2. NoBinding \notin dropped
    BY <2>1, FilesAssumption
  <2>3. source' \in {InstalledBinding(line, side), NoBinding}
    BY <1>2
  <2>4. QED
    BY <1>1, <1>2, <2>2, <2>3 DEF DroppedStaysDropped, InstalledBinding, IsOurs
<1>12. QED
  BY <1>6, <1>7, <1>8, <1>9, <1>10, <1>11 DEF Inv

\* The user's own sign-ins, and nothing at all.
LEMMA OtherSteps == ASSUME Inv, SignIn \/ UNCHANGED vars PROVE Inv'
<1>1. UNCHANGED <<status, known, source, label, unnamed, line, side, issued, act, watching,
                  restarts, left, dropped, crossed>>
  BY DEF SignIn, vars, app, collecting, files, rest, history
<1>2. cli' \in People
  BY DEF SignIn, vars, rest, Inv, Typed, TypeOK
<1>3. Typed'
  BY <1>1, <1>2 DEF Inv, Typed, TypeOK
<1>4. Placed' /\ Alone' /\ Numbered'
  BY <1>1 DEF Inv, Placed, Alone, Numbered, Quiet
<1>5. Kept'
  BY <1>1 DEF Inv, Kept, MayConfirm, IsOurs
<1>6. Agreed'
  BY <1>1
     DEF Inv, Agreed, Agreeing, Quiet, At, InstalledBinding, InstalledAccount, IsOurs
<1>7. DroppedStaysDropped'
  BY <1>1 DEF Inv, DroppedStaysDropped, InstalledBinding, IsOurs
<1>8. QED
  BY <1>3, <1>4, <1>5, <1>6, <1>7 DEF Inv

-----------------------------------------------------------------------------
(***************************************************************************)
(* The invariant and what follows from it.                                 *)
(***************************************************************************)
\* The program starts with nothing bound and everybody at rest.
LEMMA StartInv == Init => Inv
<1> SUFFICES ASSUME Init PROVE Inv
  OBVIOUS
<1>1. /\ status = "disconnected" /\ known = NoAccount
      /\ source = NoBinding /\ label = NoAccount /\ unnamed = FALSE /\ side = NoSidecar
      /\ issued = 0
      /\ cli \in People /\ watching = TRUE /\ restarts = 0
      /\ left = FALSE /\ dropped = {} /\ crossed = FALSE
      /\ act = [actor \in Actors |-> IF actor = Watcher THEN Idle ELSE Fresh]
  BY DEF Init
<1>2. /\ Watcher \notin Requests /\ Watcher \in Actors /\ Requests \subseteq Actors
      /\ 0 \in 0..MaxBindings /\ 0 \in 0..MaxRestarts /\ NoAccount \in People
  BY ControlAssumption DEF Actors, People
<1>3. line \in Command
  <2>1. PICK chosen \in Lines : line = UserLine(chosen)
    BY DEF Init
  <2>2. UserLine(chosen) \in Command
    BY DEF UserLine, Command
  <2>3. QED
    BY <2>1, <2>2
<1>4. /\ Idle \in Local /\ Idle.pc = "idle" /\ Idle.kind = "watch"
      /\ Fresh \in Local /\ Fresh.pc = "new" /\ Fresh.kind = "none"
  BY <1>2 DEF Idle, Fresh, Local, Pcs, Kinds
<1>5. /\ act \in [Actors -> Local]
      /\ \A actor \in Actors : act[actor].pc \in Resting
      /\ act[Watcher] = Idle /\ \A request \in Requests : act[request] = Fresh
  BY <1>1, <1>2, <1>4 DEF Resting
<1>6. Typed
  <2>1. \A actor \in Actors :
          /\ act[actor].account \in People /\ act[actor].binding \in 0..MaxBindings
          /\ act[actor].kind \in Kinds
    BY <1>5 DEF Local
  <2>2. QED
    BY <1>1, <1>2, <1>3, <1>5, <2>1 DEF Typed, TypeOK, Kinds
<1>7. Placed
  BY <1>4, <1>5 DEF Placed
<1>8. Alone
  BY <1>2, <1>5 DEF Alone, Quiet
<1>9. Kept
  BY <1>5 DEF Kept, Stopped, Resting
<1>10. Agreed
  BY <1>1 DEF Agreed, Agreeing
<1>11. Numbered
  BY <1>1, <1>5 DEF Numbered, Binding, Resting
<1>12. DroppedStaysDropped
  BY <1>1 DEF DroppedStaysDropped
<1>13. QED
  BY <1>6, <1>7, <1>8, <1>9, <1>10, <1>11, <1>12 DEF Inv

\* Every step keeps the invariant.
LEMMA StepInv == Inv /\ [Next]_vars => Inv'
<1> SUFFICES ASSUME Inv, [Next]_vars PROVE Inv'
  OBVIOUS
<1>1. ASSUME NEW actor \in Actors, Step(actor) PROVE Inv'
  <2>1. Typed' /\ Placed' /\ Alone'
    BY <1>1, ActorTyped, ActorPlaced, ActorAlone DEF Inv
  <2>2. QED
    BY <1>1, <2>1, ActorKept, ActorNumbered, ActorDropped DEF Inv
<1>2. QED
  BY <1>1, AcceptStep, WatcherStep, RestartStep, OtherSteps DEF Next

\* The invariant holds in every reachable state.
LEMMA Invariance == Spec => []Inv
BY StartInv, StepInv, PTL DEF Spec

\* The page, the source, the files and the actors keep their shape.
THEOREM TypeCorrect == Spec => []TypeOK
<1>1. Inv => TypeOK
  BY DEF Inv, Typed
<1>2. QED
  BY <1>1, Invariance, PTL

\* Whatever failed and wherever the program was interrupted, unless a request has
\* overlapped a check of the watcher: when everything rests, usage is collected exactly
\* when the status says so, for the binding and the account recorded in the profile, or
\* for no account where a restart could not read it.
THEOREM PageAgrees == Spec => []AgreeAtRest
<1>1. Inv => AgreeAtRest
  BY DEF Inv, Agreed, Agreeing, AgreeAtRest
<1>2. QED
  BY <1>1, Invariance, PTL

\* What a disconnect has invalidated is never collected again and no restart
\* restores it, unless a request has overlapped a check of the watcher.
THEOREM NothingReturns == Spec => []DroppedStaysDropped
<1>1. Inv => DroppedStaysDropped
  BY DEF Inv
<1>2. QED
  BY <1>1, Invariance, PTL
-----------------------------------------------------------------------------
(***************************************************************************)
(* After a disconnect: only the race of NoUnwantedInstall installs a hook. *)
(***************************************************************************)
\* A disconnect that has completed left an unconfirmed sidecar and no account, so
\* that the watcher has nothing to compare, until somebody connects.
Leaving == {"uninstall", "clear", "goodbye"}
Unconfirmed == side # NoSidecar => ~side.confirmed

Gone ==
  /\ \A request \in Requests :
       /\ act[request].kind = "disconnect" =>
            act[request].pc \in Leaving \cup {"stop", "forget", "error", "done"}
       /\ act[request].pc \in Leaving => act[request].kind = "disconnect"
  /\ ~crossed =>
       /\ \A request \in Requests :
            /\ act[request].pc \in Leaving => Unconfirmed
            /\ act[request].pc = "goodbye" => known = NoAccount
       /\ left =>
            /\ known = NoAccount /\ Unconfirmed /\ Quiet(Watcher)
            /\ \A request \in Requests :
                 Quiet(request) \/ act[request].kind = "disconnect"

\* The steps of a disconnect, of a connect and of the watcher.
LEMMA ActorGone ==
  ASSUME Inv, Gone, NEW actor \in Actors, Step(actor)
  PROVE  Gone'
<1>1. /\ Typed /\ Placed /\ Alone /\ Numbered
      /\ act \in [Actors -> Local] /\ act[actor] \in Local
      /\ Requests \subseteq Actors /\ Watcher \in Actors /\ Watcher \notin Requests
      /\ ~Quiet(actor) /\ side \in Sidecar \cup {NoSidecar}
  BY AtWork, ControlAssumption DEF Inv, Typed, TypeOK, Actors
<1>2. UNCHANGED crossed
  BY ActorCrosses
<1>3. \A other \in Actors : other # actor =>
        act'[other] = act[other] /\ (~crossed => Quiet(other) /\ Quiet(other)')
  BY <1>1, ActorTyped, OthersRest DEF Quiet
<1>4. ASSUME actor \in Requests, act'[actor].kind = "disconnect",
             act'[actor].pc \in Leaving \cup {"stop", "forget", "error", "done"},
             ~crossed => /\ act'[actor].pc \in Leaving \/ left' => Unconfirmed'
                         /\ act'[actor].pc = "goodbye" \/ left' => known' = NoAccount
      PROVE  Gone'
  <2>1. ~crossed => /\ Quiet(Watcher)'
                    /\ \A other \in Requests : other # actor =>
                         Quiet(other)' /\ act'[other].pc \notin Leaving
    BY <1>1, <1>3, <1>4 DEF Quiet, Resting, Leaving
  <2>2. \A other \in Requests :
          /\ act'[other].kind = "disconnect" =>
               act'[other].pc \in Leaving \cup {"stop", "forget", "error", "done"}
          /\ act'[other].pc \in Leaving => act'[other].kind = "disconnect"
    BY <1>1, <1>3, <1>4 DEF Gone
  <2>3. "goodbye" \in Leaving
    BY DEF Leaving
  <2>4. QED
    BY <1>2, <1>4, <2>1, <2>2, <2>3 DEF Gone
<1>5. CASE actor \in Requests /\ act[actor].kind = "disconnect"
  <2>1. /\ act[actor].pc \in Leaving \cup {"stop", "forget", "error"}
        /\ ~crossed /\ act[actor].pc \in Leaving => Unconfirmed
        /\ ~crossed /\ act[actor].pc = "goodbye" => known = NoAccount
        /\ ~crossed /\ left => Unconfirmed /\ known = NoAccount
    BY <1>1, <1>5 DEF Gone, Quiet, Resting
  <2>2. CASE StopSource(actor) \/ ForgetFails(actor) \/ UninstallFails(actor) \/ Fail(actor)
    <3>1. PICK pc \in {"forget", "error", "done"} : Goto(actor, pc)
      BY <1>1, <1>5, <2>2 DEF StopSource, ForgetFails, UninstallFails, Fail, Finish
    <3>2. act'[actor].pc = pc /\ act'[actor].kind = "disconnect"
      BY <1>1, <1>5, <3>1, Going DEF Pcs
    <3>3. UNCHANGED <<left, known, side>>
      BY <2>2 DEF StopSource, ForgetFails, UninstallFails, Fail, app, files, history
    <3>4. QED
      BY <1>4, <1>5, <2>1, <3>1, <3>2, <3>3 DEF Unconfirmed, Leaving
  <2>3. CASE Forget(actor)
    <3>1. Goto(actor, "uninstall") /\ side' = Forgotten(side) /\ UNCHANGED <<left, known>>
      BY <1>5, <2>3 DEF Forget, AfterForget, app
    <3>2. act'[actor].pc = "uninstall" /\ act'[actor].kind = "disconnect"
      BY <1>1, <1>5, <3>1, Going DEF Pcs
    <3>3. Unconfirmed'
      <4>1. CASE side = NoSidecar
        BY <3>1, <4>1 DEF Forgotten, Unconfirmed
      <4>2. CASE side # NoSidecar
        BY <1>1, <3>1, <4>2 DEF Forgotten, Unconfirmed, Sidecar
      <4>3. QED
        BY <4>1, <4>2
    <3>4. QED
      BY <1>4, <1>5, <2>1, <3>1, <3>2, <3>3 DEF Leaving
  <2>4. CASE Uninstall(actor) \/ Clear(actor)
    <3>1. PICK pc \in {"clear", "goodbye"} :
            Goto(actor, pc) /\ (pc = "goodbye" => known' = NoAccount)
      BY <1>1, <1>5, <2>4 DEF Uninstall, Clear
    <3>2. act'[actor].pc = pc /\ act'[actor].kind = "disconnect"
      BY <1>1, <1>5, <3>1, Going DEF Pcs
    <3>3. UNCHANGED <<left, side>> /\ known' \in {known, NoAccount}
          /\ act[actor].pc \in Leaving
      BY <2>4 DEF Uninstall, Clear, app, files, history, At, Leaving
    <3>4. QED
      BY <1>4, <1>5, <2>1, <3>1, <3>2, <3>3 DEF Unconfirmed, Leaving
  <2>5. CASE Goodbye(actor)
    <3>1. Goto(actor, "done") /\ UNCHANGED <<known, side>> /\ act[actor].pc = "goodbye"
      BY <1>1, <1>5, <2>5 DEF Goodbye, Finish, files, At
    <3>2. act'[actor].pc = "done" /\ act'[actor].kind = "disconnect"
      BY <1>1, <1>5, <3>1, Going DEF Pcs
    <3>3. QED
      BY <1>4, <1>5, <2>1, <3>1, <3>2 DEF Unconfirmed, Leaving
  <2>6. QED
    BY <2>1, <2>2, <2>3, <2>4, <2>5
       DEF Step, At, Leaving, StopSource, Forget, ForgetFails, Uninstall, UninstallFails,
           Clear, Goodbye, Ask, AskFails, StartLogin, StartLoginFails, LoginDone,
           LoginFails, AskAgain, Install, InstallFails, Confirm, ConfirmFails, Rollback,
           Record, Publish, Announce, Fail
<1>6. ASSUME actor = Watcher \/ act[actor].kind # "disconnect",
             actor \in Requests =>
               act'[actor].kind # "disconnect" /\ act'[actor].pc \notin Leaving,
             ~crossed => UNCHANGED left
      PROVE  Gone'
  <2>1. \A other \in Requests :
          /\ act'[other].kind = "disconnect" =>
               act'[other].pc \in Leaving \cup {"stop", "forget", "error", "done"}
          /\ act'[other].pc \in Leaving => act'[other].kind = "disconnect"
    BY <1>1, <1>3, <1>6 DEF Gone
  <2>2. ~crossed => \A other \in Requests : act'[other].pc \notin Leaving
    BY <1>1, <1>3, <1>6 DEF Quiet, Resting, Leaving
  <2>3. ~crossed => ~left
    BY <1>1, <1>6 DEF Gone, Actors
  <2>4. "goodbye" \in Leaving
    BY DEF Leaving
  <2>5. QED
    BY <1>2, <1>6, <2>1, <2>2, <2>3, <2>4 DEF Gone
<1>7. CASE actor = Watcher
  <2>1. UNCHANGED left \/ Goodbye(actor)
    BY DEF Step, history, StopSource, Forget, ForgetFails, Uninstall, UninstallFails,
           Clear, Ask, AskFails, StartLogin, StartLoginFails, LoginDone, LoginFails,
           AskAgain, Install, InstallFails, Confirm, ConfirmFails, Rollback, Record,
           Publish, Announce, Fail
  <2>2. left \in BOOLEAN
    BY <1>1 DEF Typed, TypeOK
  <2>3. UNCHANGED left
    BY <1>7, <2>1, <2>2 DEF Goodbye
  <2>4. QED
    BY <1>1, <1>6, <1>7, <2>3
<1>8. CASE actor \in Requests /\ act[actor].kind # "disconnect"
  <2>1. act[actor].pc \notin Leaving /\ act[actor].kind # "watch"
    BY <1>1, <1>8 DEF Gone, Placed
  <2>2. /\ ~Uninstall(actor) /\ ~UninstallFails(actor) /\ ~Clear(actor) /\ ~Goodbye(actor)
    BY <2>1 DEF Uninstall, UninstallFails, Clear, Goodbye, At, Leaving
  <2>3. UNCHANGED left
    BY <2>2
       DEF Step, history, StopSource, Forget, ForgetFails, Ask, AskFails, StartLogin,
           StartLoginFails, LoginDone, LoginFails, AskAgain, Install, InstallFails,
           Confirm, ConfirmFails, Rollback, Record, Publish, Announce, Fail
  <2>4. CASE Ask(actor) \/ AskAgain(actor) \/ Install(actor)
    <3>1. /\ act'[actor].kind \in {act[actor].kind, "login", "connect"}
          /\ act'[actor].pc \in {"install", "confirm", "start"}
      <4>1. CASE Ask(actor)
        BY <1>1, <4>1 DEF Ask, Local
      <4>2. CASE AskAgain(actor)
        BY <1>1, <4>2 DEF AskAgain, Local
      <4>3. CASE Install(actor)
        BY <1>1, <4>3 DEF Install, Local
      <4>4. QED
        BY <2>4, <4>1, <4>2, <4>3
    <3>2. QED
      BY <1>6, <1>8, <2>3, <3>1 DEF Leaving
  <2>5. CASE ~(Ask(actor) \/ AskAgain(actor) \/ Install(actor))
    <3>1. PICK pc \in Pcs \ Leaving : Goto(actor, pc)
      <4>1. CASE Forget(actor)
        BY <1>1, <1>8, <2>1, <4>1 DEF Forget, AfterForget, At, Placed, Pcs, Leaving
      <4>2. CASE ~Forget(actor)
        BY <1>1, <1>8, <2>2, <2>5, <4>2
           DEF Step, Pcs, Leaving, StopSource, ForgetFails, AskFails, StartLogin,
               StartLoginFails, LoginDone, LoginFails, InstallFails, Confirm,
               ConfirmFails, Rollback, Record, Publish, Announce, Fail, Finish
      <4>3. QED
        BY <4>1, <4>2
    <3>2. act'[actor].pc = pc /\ act'[actor].kind = act[actor].kind
      BY <1>1, <3>1, Going
    <3>3. QED
      BY <1>6, <1>8, <2>3, <3>1, <3>2
  <2>6. QED
    BY <2>4, <2>5
<1>9. QED
  BY <1>5, <1>7, <1>8 DEF Actors

\* Requests are accepted and the watcher's questions asked without changing the
\* files; a restart finds nothing confirmed.
LEMMA OthersGone ==
  ASSUME Inv, Gone,
         \/ \E request \in Requests : Connect(request) \/ Disconnect(request)
         \/ Tick \/ CheckBusy \/ Compare \/ Restart \/ SignIn \/ UNCHANGED vars
  PROVE  Gone'
<1>1. /\ Typed /\ Placed /\ Alone
      /\ act \in [Actors -> Local]
      /\ Requests \subseteq Actors /\ Watcher \in Actors /\ Watcher \notin Requests
      /\ crossed \in BOOLEAN
  BY ControlAssumption DEF Inv, Typed, TypeOK, Actors
<1>2. ASSUME NEW request \in Requests, Connect(request) \/ Disconnect(request)
      PROVE  Gone'
  <2>1. PICK kind \in {"connect", "disconnect"}, busy \in {"starting", "disconnecting"} :
          Accept(request, kind, busy) /\ (kind = "connect" => ~left')
                                      /\ (kind = "disconnect" => UNCHANGED left)
    BY <1>2 DEF Connect, Disconnect
  <2>2. /\ status \notin Busy /\ crossed' = (crossed \/ ~Quiet(Watcher))
        /\ UNCHANGED <<known, side>>
    BY <2>1 DEF Accept, files
  <2>3. /\ act'[request].pc = "stop" /\ act'[request].kind = kind
        /\ \A other \in Actors : other # request => act'[other] = act[other]
    <3>1. act[request] \in Local /\ request \in Actors
      BY <1>1
    <3>2. QED
      BY <1>1, <2>1, <3>1 DEF Accept, Local
  <2>4. ~crossed' =>
          ~crossed /\ \A actor \in Actors : actor # request => Quiet(actor) /\ Quiet(actor)'
    BY <1>1, <2>2, <2>3 DEF Alone, Actors, Quiet
  <2>5. \A other \in Requests :
          /\ act'[other].kind = "disconnect" =>
               act'[other].pc \in Leaving \cup {"stop", "forget", "error", "done"}
          /\ act'[other].pc \in Leaving => act'[other].kind = "disconnect"
    BY <1>1, <2>3 DEF Gone, Leaving
  <2>6. ~crossed' => \A other \in Requests : act'[other].pc \notin Leaving
    BY <1>1, <2>3, <2>4 DEF Quiet, Resting, Leaving
  <2>7. ~crossed' /\ left' =>
          /\ known' = NoAccount /\ Unconfirmed' /\ Quiet(Watcher)'
          /\ \A other \in Requests : Quiet(other)' \/ act'[other].kind = "disconnect"
    BY <1>1, <2>1, <2>2, <2>3, <2>4 DEF Gone, Unconfirmed
  <2>8. "goodbye" \in Leaving
    BY DEF Leaving
  <2>9. QED
    BY <2>5, <2>6, <2>7, <2>8 DEF Gone
<1>3. CASE Tick \/ CheckBusy \/ Compare
  <2>1. UNCHANGED <<known, side, left>> /\ (crossed => crossed')
    BY <1>1, <1>3 DEF Tick, CheckBusy, Compare, app, files, history
  <2>2. \A request \in Requests : act'[request] = act[request]
    BY <1>1, <1>3 DEF Tick, CheckBusy, Compare, Finish, Goto
  <2>3. ~crossed' /\ left => Quiet(Watcher)'
    <3>1. SUFFICES ASSUME ~crossed', left PROVE Quiet(Watcher)'
      OBVIOUS
    <3>2. known = NoAccount /\ Quiet(Watcher)
      BY <2>1, <3>1 DEF Gone
    <3>3. ~Tick /\ ~Compare
      BY <3>2 DEF Tick, Compare, At, Quiet, Resting
    <3>4. CheckBusy /\ act[Watcher].account # NoAccount
      BY <1>1, <1>3, <3>3 DEF CheckBusy, At, Placed
    <3>5. Goto(Watcher, "idle")
      BY <3>1, <3>2, <3>4 DEF CheckBusy, Finish
    <3>6. QED
      BY <1>1, <3>5, Going DEF Pcs, Quiet, Resting
  <2>4. QED
    BY <2>1, <2>2, <2>3 DEF Gone, Unconfirmed, Quiet
<1>4. CASE Restart
  <2>1. UNCHANGED <<side, left, crossed>>
    BY <1>4 DEF Restart, files, history
  <2>2. ASSUME NEW actor \in Actors
        PROVE  /\ Quiet(actor)'
               /\ actor # Watcher =>
                    /\ act'[actor].kind = act[actor].kind
                    /\ act'[actor].pc = act[actor].pc \/ act'[actor].pc = "done"
    <3>1. act[actor] \in Local
      BY <1>1
    <3>2. CASE actor = Watcher
      BY <1>4, <3>2 DEF Restart, Idle, Fresh, Quiet, Resting
    <3>3. CASE actor # Watcher /\ Quiet(actor)
      BY <1>4, <3>3 DEF Restart, Quiet
    <3>4. CASE actor # Watcher /\ ~Quiet(actor)
      <4>1. act'[actor] = [act[actor] EXCEPT !.pc = "done"]
        BY <1>4, <3>4 DEF Restart
      <4>2. QED
        BY <3>1, <4>1 DEF Local, Quiet, Resting
    <3>5. QED
      BY <3>2, <3>3, <3>4
  <2>3. \A request \in Requests :
          /\ act'[request].pc \notin Leaving
          /\ act'[request].kind = "disconnect" =>
               act'[request].pc \in Leaving \cup {"stop", "forget", "error", "done"}
    BY <1>1, <2>2 DEF Gone, Quiet, Resting, Leaving
  <2>4. Unconfirmed => known' = NoAccount
    BY <1>4 DEF Restart, Unconfirmed, InstalledBinding, IsOurs
  <2>5. "goodbye" \in Leaving
    BY DEF Leaving
  <2>6. QED
    BY <1>1, <2>1, <2>2, <2>3, <2>4, <2>5 DEF Gone, Unconfirmed
<1>5. CASE SignIn \/ UNCHANGED vars
  <2>1. UNCHANGED <<act, known, side, left, crossed>>
    BY <1>5 DEF SignIn, vars, app, files, history
  <2>2. QED
    BY <2>1 DEF Gone, Unconfirmed, Quiet
<1>6. QED
  BY <1>2, <1>3, <1>4, <1>5

\* NoUnwantedInstall fails only by the race that its run shows: unless a request was
\* accepted while the watcher asked the CLI, or replaced the account between the two
\* reads of the watcher's check, nothing installs a hook between a disconnect that has
\* completed and the next connect.
THEOREM OnlyTheRaceInstalls ==
  Spec => [][~crossed /\ left /\ left' => issued' = issued]_vars
<1>1. Init => Gone
  <2> SUFFICES ASSUME Init PROVE Gone
    OBVIOUS
  <2>1. \A request \in Requests : act[request] = Fresh
    BY ControlAssumption DEF Init, Actors
  <2>2. QED
    BY <2>1 DEF Init, Gone, Fresh, Leaving
<1>2. Inv /\ Gone /\ [Next]_vars => Gone'
  BY ActorGone, OthersGone DEF Next
<1>3. Inv /\ Gone /\ [Next]_vars =>
        [~crossed /\ left /\ left' => issued' = issued]_vars
  <2> SUFFICES ASSUME Inv, Gone, [Next]_vars, ~crossed, left
               PROVE  UNCHANGED issued
    OBVIOUS
  <2>1. ASSUME NEW actor \in Actors, Step(actor) PROVE UNCHANGED issued
    <3>1. act[actor].pc # "install"
      BY <2>1, AtWork DEF Inv, Gone, Actors, Leaving
    <3>2. ~Install(actor) /\ ~InstallFails(actor)
      BY <3>1 DEF Install, InstallFails, At
    <3>3. QED
      BY <2>1, <3>2
         DEF Step, files, StopSource, Forget, ForgetFails, Uninstall, UninstallFails,
             Clear, Goodbye, Ask, AskFails, StartLogin, StartLoginFails, LoginDone,
             LoginFails, AskAgain, Confirm, ConfirmFails, Rollback, Record, Publish,
             Announce, Fail
  <2>2. QED
    BY <2>1
       DEF Next, Connect, Disconnect, Accept, Tick, CheckBusy, Compare, Restart, SignIn, files, vars
<1>4. QED
  BY <1>1, <1>2, <1>3, Invariance, PTL DEF Spec

-----------------------------------------------------------------------------
(***************************************************************************)
(* What all actors together make of the profile files.  The sidecar always *)
(* holds the adapter of the newest binding in front of a command that ends *)
(* in the user's line, also when an installation stopped half-way.         *)
(***************************************************************************)
Rooted ==
  side # NoSidecar =>
    /\ side.command = AdapterCommand(side.binding, side.original)
    /\ side.original.own = line.own
    /\ side.binding = issued

\* Everything that writes the files is one of these operations of ProfileFiles.
Written ==
  \/ UNCHANGED files
  \/ side' = Forgotten(side) /\ UNCHANGED <<line, issued>>
  \/ line' = Restored(line, side) /\ UNCHANGED <<side, issued>>
  \/ /\ issued < MaxBindings /\ issued' = issued + 1
     /\ side' = NewSidecar(line, side, issued') /\ line' \in {line, side'.command}
  \/ \E account \in People :
       side # NoSidecar /\ side' = Confirmed(side, account) /\ UNCHANGED <<line, issued>>

\* No step writes the files in another way.
LEMMA Writes == Inv /\ [Next]_vars => Written
<1> SUFFICES ASSUME Inv, [Next]_vars PROVE Written
  OBVIOUS
<1>1. ASSUME NEW actor \in Actors, Step(actor) PROVE Written
  <2>1. act[actor].account \in People
    BY DEF Inv, Typed, TypeOK
  <2>2. CASE Confirm(actor)
    BY <2>1, <2>2 DEF Confirm, MayConfirm, IsOurs, Written
  <2>3. CASE Install(actor) \/ InstallFails(actor)
    BY <2>3 DEF Install, InstallFails, Written, files
  <2>4. CASE Rollback(actor) \/ Uninstall(actor) \/ Forget(actor)
    BY <2>4 DEF Rollback, Uninstall, Forget, Written, files
  <2>5. QED
    BY <1>1, <2>2, <2>3, <2>4
       DEF Step, Written, files, StopSource, ForgetFails, UninstallFails, Clear,
           Goodbye, Ask, AskFails, StartLogin, StartLoginFails, LoginDone, LoginFails,
           AskAgain, ConfirmFails, Record, Publish, Announce, Fail
<1>2. QED
  BY <1>1
     DEF Next, Connect, Disconnect, Accept, Tick, CheckBusy, Compare, Restart, SignIn, vars, files,
         Written

\* Whatever is written, the user's line stays at the bottom.
LEMMA WritesRooted == Inv /\ Rooted /\ Written => Rooted' /\ line'.own = line.own
<1> SUFFICES ASSUME Inv, Rooted, Written PROVE Rooted' /\ line'.own = line.own
  OBVIOUS
<1>1. /\ Typed /\ line \in Command /\ side \in Sidecar \cup {NoSidecar}
      /\ issued \in Nat
  BY ControlAssumption DEF Inv, Typed, TypeOK
<1>2. side # NoSidecar => /\ side.command \in Command /\ side.original \in Command
                          /\ side.binding \in Nat
                          /\ side.command.own = side.original.own
  BY <1>1 DEF Rooted, Sidecar, AdapterCommand
<1>3. CASE UNCHANGED files
  BY <1>3 DEF files, Rooted
<1>4. CASE side' = Forgotten(side) /\ UNCHANGED <<line, issued>>
  <2>1. side # NoSidecar =>
          /\ Forgotten(side).command = side.command
          /\ Forgotten(side).original = side.original
          /\ Forgotten(side).binding = side.binding
    BY <1>1 DEF Forgotten, Sidecar
  <2>2. side = NoSidecar => side' = NoSidecar
    BY <1>4 DEF Forgotten
  <2>3. QED
    BY <1>4, <2>1, <2>2 DEF Rooted
<1>5. CASE line' = Restored(line, side) /\ UNCHANGED <<side, issued>>
  <2>1. line'.own = line.own
    BY <1>5 DEF Restored, IsOurs, Rooted
  <2>2. QED
    BY <1>5, <2>1 DEF Rooted
<1>6. CASE /\ issued < MaxBindings /\ issued' = issued + 1
           /\ side' = NewSidecar(line, side, issued') /\ line' \in {line, side'.command}
  <2>1. Original(line, side).own = line.own
    BY DEF Original, Rooted
  <2>2. /\ side'.command = AdapterCommand(issued', Original(line, side))
        /\ side'.original = Original(line, side) /\ side'.binding = issued'
    BY <1>6 DEF NewSidecar
  <2>3. side'.command.own = line.own
    BY <2>1, <2>2 DEF AdapterCommand
  <2>4. line'.own = line.own
    BY <1>6, <2>3
  <2>5. QED
    BY <2>1, <2>2, <2>4 DEF Rooted
<1>7. ASSUME NEW account \in People, side # NoSidecar, side' = Confirmed(side, account),
             UNCHANGED <<line, issued>>
      PROVE  Rooted' /\ line'.own = line.own
  <2>1. /\ side'.command = side.command /\ side'.original = side.original
        /\ side'.binding = side.binding
    BY <1>1, <1>7 DEF Confirmed, Sidecar
  <2>2. QED
    BY <1>7, <2>1 DEF Rooted
<1>8. QED
  BY <1>3, <1>4, <1>5, <1>6, <1>7 DEF Written

\* The statements hold of the sidecar in every reachable state.
LEMMA AlwaysRooted == Spec => []Rooted
<1>1. Init => Rooted
  BY DEF Init, Rooted
<1>2. Inv /\ Rooted /\ [Next]_vars => Rooted'
  BY Writes, WritesRooted
<1>3. QED
  BY <1>1, <1>2, Invariance, PTL DEF Spec

\* Requests, the watcher, their failures and restarts in any order never replace
\* the user's own statusline: what the profile runs always ends in it.
THEOREM UsersLineSurvives == Spec => [][line'.own = line.own]_vars
<1>1. Inv /\ Rooted /\ [Next]_vars => [line'.own = line.own]_vars
  BY Writes, WritesRooted
<1>2. QED
  BY <1>1, Invariance, AlwaysRooted, PTL DEF Spec

\* A restart takes up no binding but the newest one the program ever issued, and
\* only while it is the adapter that Claude Code runs first.
THEOREM RestoresTheNewest ==
  Spec => [](InstalledBinding(line, side) # NoBinding =>
               /\ InstalledBinding(line, side) = issued
               /\ line.adapters # <<>> /\ Head(line.adapters) = issued)
<1>1. Inv /\ Rooted => (InstalledBinding(line, side) # NoBinding =>
                          /\ InstalledBinding(line, side) = issued
                          /\ line.adapters # <<>> /\ Head(line.adapters) = issued)
  <2> SUFFICES ASSUME Inv, Rooted, InstalledBinding(line, side) # NoBinding
               PROVE  /\ InstalledBinding(line, side) = issued
                      /\ line.adapters # <<>> /\ Head(line.adapters) = issued
    OBVIOUS
  <2>1. /\ side # NoSidecar /\ line = side.command
        /\ InstalledBinding(line, side) = side.binding
    BY DEF InstalledBinding, IsOurs
  <2>2. /\ side.original.adapters \in Seq(Nat) /\ issued \in Nat
        /\ line.adapters = <<issued>> \o side.original.adapters
        /\ side.binding = issued
    BY <2>1, ControlAssumption
       DEF Inv, Typed, TypeOK, Sidecar, Command, Rooted, AdapterCommand
  <2>3. line.adapters # <<>> /\ Head(line.adapters) = issued
    BY <2>2
  <2>4. QED
    BY <2>1, <2>2, <2>3
<1>2. QED
  BY <1>1, Invariance, AlwaysRooted, PTL
=============================================================================
