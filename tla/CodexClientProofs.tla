------------------------- MODULE CodexClientProofs --------------------------
(***************************************************************************)
(* Proofs about CodexClient for any accounts, queue capacities, numbers of *)
(* requests and notifications, and for every role.                         *)
(*                                                                         *)
(* The argument: requests carry increasing numbers, so that an answer with *)
(* the number of the request in flight was given to it, after it was sent  *)
(* (Asked).  What such an answer says is therefore known (Believed): an    *)
(* account it names has been the profile's during this read, and one that  *)
(* was left does not come back; once a login is completed, or a logout has *)
(* signed out, nobody else changes the profile.                            *)
(***************************************************************************)
EXTENDS CodexClient, SequenceTheorems, TLAPS

\* The lines on their way from the child to the owner.
Elements(s) == {s[i] : i \in 1..Len(s)}
Coming ==
  Elements(messages) \cup Elements(pipe) \cup (IF reader = "sending" THEN {held} ELSE {})

StepsOf(r) ==
  CASE r = "collect" -> {"initialize", "start", "before", "rates", "after"}
    [] r = "login" -> {"initialize", "loginStart", "verify"}
    [] r = "logout" -> {"initialize", "logout", "check"}

\* Where the owner is, and at which request, in each role.
Placed ==
  /\ step \in StepsOf(role) /\ \A request \in pending : request.step \in StepsOf(role)
  /\ pc = "completion" => role = "login" /\ step = "loginStart"
  /\ pc = "idle" => role = "collect"
  /\ pc \in {"call", "await", "completion"} => result = "none"
  /\ pc = "await" => nextID >= 1
  /\ reader = "sending" => held \in Reply \cup {Garbage}
  /\ role # "collect" => left = {}

\* Nothing pending or written has a number that is still to be used, and the
\* number of the request in flight is that of its step.
Asked ==
  /\ \A request \in pending : request.id \in 1..nextID
  /\ \A line \in Coming : line.id <= nextID
  /\ pc = "await" => \A request \in pending : request.id = nextID => request.step = step

\* The account a read has found was the profile's during this read, and one that
\* was left is not the profile's again; a difference was made by leaving one.
Followed ==
  /\ profile \notin left
  /\ pc \in {"call", "await"} /\ step \in {"rates", "after"} =>
       expected \in left \cup {profile}
  /\ pc \in {"call", "await"} /\ step = "after" =>
       /\ snapshot \in [id : 1..MaxID[role], account : People]
       /\ snapshot.id >= firstID
       /\ snapshot.account = expected \/ expected \in left

\* What the answer to the request in flight says, at whatever time it arrives.
Says(value) ==
  /\ step \in AccountSteps \cup {"rates"} => value \in People
  /\ step = "before" => value \in left \cup {profile}
  /\ step = "rates" => value = expected \/ expected \in left
  /\ step = "after" /\ value = expected => snapshot.account = expected
  /\ step = "verify" => value = profile
  /\ step = "check" /\ value = NoAccount => profile = NoAccount

Mined(line) == line.type = "reply" /\ line.id = nextID /\ line.value # Error

Believed == pc = "await" => \A line \in Coming : Mined(line) => Says(line.value)

\* A completion is only told of a login that was completed.
Completions ==
  /\ \A line \in Coming \cup Elements(logins) :
       line.type = "completed" => completed = "yes"
  /\ step = "verify" => completed = "yes"

Meant ==
  /\ Placed /\ Asked /\ Followed /\ Believed /\ Completions
  /\ SnapshotIsHonest /\ SuccessIsReal

Inv == TypeOK /\ Meant

-----------------------------------------------------------------------------
(***************************************************************************)
(* The lines on their way.                                                 *)
(***************************************************************************)
\* Appending to a channel adds its last element to what it holds.
LEMMA AppendOf ==
  ASSUME NEW S, NEW s \in Seq(S), NEW e \in S
  PROVE  /\ Append(s, e) \in Seq(S) /\ Len(Append(s, e)) = Len(s) + 1
         /\ Elements(Append(s, e)) = Elements(s) \cup {e}
<1>1. /\ Append(s, e) \in Seq(S) /\ Len(Append(s, e)) = Len(s) + 1 /\ Len(s) \in Nat
      /\ \A i \in 1..Len(s) : Append(s, e)[i] = s[i]
      /\ Append(s, e)[Len(s) + 1] = e
  BY AppendProperties, LenProperties
<1>2. 1..(Len(s) + 1) = 1..Len(s) \cup {Len(s) + 1}
  BY <1>1
<1>3. QED
  BY <1>1, <1>2 DEF Elements

\* Receiving from a channel takes its first element and adds none.
LEMMA TailOf ==
  ASSUME NEW S, NEW s \in Seq(S), s # <<>>
  PROVE  /\ Tail(s) \in Seq(S) /\ Len(Tail(s)) = Len(s) - 1
         /\ Head(s) \in S /\ Head(s) \in Elements(s)
         /\ Elements(Tail(s)) \subseteq Elements(s)
<1>1. /\ Tail(s) \in Seq(S) /\ Head(s) \in S /\ Head(s) = s[1]
      /\ Len(s) \in Nat \ {0} /\ Len(Tail(s)) = Len(s) - 1
      /\ \A i \in 1..Len(Tail(s)) : Tail(s)[i] = s[i + 1]
  BY HeadTailProperties, EmptySeq, LenProperties
<1>2. Head(s) \in Elements(s)
  BY <1>1 DEF Elements
<1>3. ASSUME NEW i \in 1..Len(Tail(s)) PROVE Tail(s)[i] \in Elements(s)
  BY <1>1, <1>3 DEF Elements
<1>4. QED
  BY <1>1, <1>2, <1>3 DEF Elements

\* What the child writes comes on its way and nothing else does.
LEMMA ChildWrites ==
  ASSUME TypeOK, NEW line \in Lines, Write(line), UNCHANGED <<messages, reader, held>>
  PROVE  Coming' = Coming \cup {line} /\ pipe' \in Seq(Lines)
<1>1. pipe \in Seq(Lines)
  BY DEF TypeOK
<1>2. pipe' \in Seq(Lines) /\ Elements(pipe') = Elements(pipe) \cup {line}
  BY <1>1, AppendOf DEF Write
<1>3. QED
  BY <1>2 DEF Coming

\* Only lines of the child are on their way.
LEMMA ComingTyped == ASSUME TypeOK, Placed PROVE Coming \subseteq Lines
<1>1. \A s \in Seq(Lines) : Elements(s) \subseteq Lines
  BY DEF Elements
<1>2. messages \in Seq(Lines) /\ pipe \in Seq(Lines)
  <2>1. Reply \cup {Garbage} \subseteq Lines
    BY DEF Lines
  <2>2. QED
    BY <2>1 DEF TypeOK
<1>3. reader = "sending" => held \in Lines
  BY DEF Placed, Lines
<1>4. QED
  BY <1>1, <1>2, <1>3 DEF Coming

\* The reader hands on what the child wrote and adds nothing.
LEMMA ReaderMoves ==
  ASSUME TypeOK, Placed, ReaderStep
  PROVE  /\ Coming' \subseteq Coming
         /\ Elements(logins') \subseteq Elements(logins) \cup Coming
         /\ messages' \in Seq(Reply \cup {Garbage}) /\ Len(messages') <= Capacity
         /\ logins' \in Seq(Lines) /\ Len(logins') <= LoginCapacity
         /\ updates' \in BOOLEAN /\ reader' \in {"reading", "sending", "done"}
         /\ pipe' \in Seq(Lines)
         /\ held' = Nothing \/ held' \in Reply \cup {Garbage}
         /\ reader' = "sending" => held' \in Reply \cup {Garbage}
<1> USE DEF TypeOK
<1>1. CASE ReadLine
  <2> DEFINE first == Head(pipe)
  <2>1. /\ pipe' \in Seq(Lines) /\ first \in Lines /\ first \in Elements(pipe)
        /\ Elements(pipe') \subseteq Elements(pipe)
        /\ reader = "reading" /\ UNCHANGED messages
    BY <1>1, TailOf DEF ReadLine
  <2>2. CASE first.type \in {"reply", "garbage"}
    <3>1. first \in Reply \cup {Garbage}
      BY <2>1, <2>2 DEF Lines, Note
    <3>2. reader' = "sending" /\ held' = first /\ UNCHANGED <<updates, logins>>
      BY <1>1, <2>2 DEF ReadLine
    <3>3. Coming' \subseteq Coming
      BY <2>1, <3>2 DEF Coming
    <3>4. QED
      BY <2>1, <3>1, <3>2, <3>3
  <2>3. CASE first.type \notin {"reply", "garbage"}
    <3>1. HandleNotification(first)
      BY <1>1, <2>3 DEF ReadLine
    <3>2. UNCHANGED <<reader, held>> /\ updates' \in BOOLEAN
      BY <3>1 DEF HandleNotification
    <3>3. Coming' \subseteq Coming
      BY <2>1, <3>2 DEF Coming
    <3>4. /\ logins' \in Seq(Lines) /\ Len(logins') <= LoginCapacity
          /\ Elements(logins') \subseteq Elements(logins) \cup {first}
      <4>1. CASE logins' = logins
        BY <4>1
      <4>2. CASE logins' # logins
        <5>1. logins' = Append(logins, first) /\ Len(logins) < LoginCapacity
          BY <3>1, <4>2 DEF HandleNotification, Room
        <5>2. /\ logins' \in Seq(Lines) /\ Len(logins') = Len(logins) + 1
              /\ Elements(logins') = Elements(logins) \cup {first}
          BY <2>1, <5>1, AppendOf
        <5>3. Len(logins) \in Nat /\ LoginCapacity \in Nat
          BY LenProperties, ClientAssumption
        <5>4. QED
          BY <5>1, <5>2, <5>3
      <4>3. QED
        BY <4>1, <4>2
    <3>5. first \in Coming
      BY <2>1 DEF Coming
    <3>6. QED
      BY <2>1, <3>2, <3>3, <3>4, <3>5
  <2>4. QED
    BY <2>2, <2>3
<1>2. CASE Queue
  <2>1. /\ reader = "sending" /\ held \in Reply \cup {Garbage}
        /\ messages' = Append(messages, held) /\ Len(messages) < Capacity
        /\ reader' \in {"reading", "done"} /\ held' = Nothing
        /\ UNCHANGED <<pipe, logins, updates>>
    BY <1>2 DEF Queue, Placed, AfterSend, server
  <2>2. /\ messages' \in Seq(Reply \cup {Garbage}) /\ Len(messages') = Len(messages) + 1
        /\ Elements(messages') = Elements(messages) \cup {held}
    BY <2>1, AppendOf
  <2>3. Len(messages') <= Capacity
    BY <2>1, <2>2, LenProperties, ClientAssumption
  <2>4. Coming' \subseteq Coming
    BY <2>1, <2>2 DEF Coming
  <2>5. QED
    BY <2>1, <2>2, <2>3, <2>4
<1>3. CASE GiveUp
  <2>1. /\ reader' \in {"reading", "done"} /\ held' = Nothing
        /\ UNCHANGED <<messages, pipe, logins, updates>>
    BY <1>3 DEF GiveUp, AfterSend, server
  <2>2. Coming' \subseteq Coming
    BY <2>1 DEF Coming
  <2>3. QED
    BY <2>1, <2>2
<1>4. CASE EndOfFile
  <2>1. reader' = "done" /\ UNCHANGED <<messages, pipe, logins, updates, held>>
    BY <1>4 DEF EndOfFile, server
  <2>2. Coming' \subseteq Coming
    BY <2>1 DEF Coming
  <2>3. QED
    BY <2>1, <2>2
<1>5. QED
  BY <1>1, <1>2, <1>3, <1>4 DEF ReaderStep

-----------------------------------------------------------------------------
(***************************************************************************)
(* The steps.                                                              *)
(***************************************************************************)
\* A new process has been asked nothing.
LEMMA StartInv == Init => Inv
<1> SUFFICES ASSUME Init PROVE Inv
  OBVIOUS
<1> USE DEF Init
<1>1. Elements(<<>>) = {}
  BY DEF Elements
<1>2. Coming = {} /\ Elements(logins) = {}
  BY <1>1 DEF Coming
<1>3. 0 \in 0..MaxID[role] /\ 0 \in 0..nextID
  BY ClientAssumption
<1>4. TypeOK
  <2>1. messages \in Seq(Reply \cup {Garbage}) /\ Len(messages) <= Capacity
    BY ClientAssumption
  <2>2. logins \in Seq(Lines) /\ Len(logins) <= LoginCapacity /\ pipe \in Seq(Lines)
    BY ClientAssumption
  <2>3. QED
    BY <1>3, <2>1, <2>2 DEF TypeOK, Steps, People
<1>5. Placed /\ Asked
  BY <1>2 DEF Placed, Asked, StepsOf, Roles
<1>6. Followed /\ Believed /\ Completions /\ SnapshotIsHonest /\ SuccessIsReal
  BY <1>2 DEF Followed, Believed, Completions, SnapshotIsHonest, SuccessIsReal
<1>7. QED
  BY <1>4, <1>5, <1>6 DEF Inv, Meant

\* Whatever moves on without the owner, the profile and new lines changes
\* nothing of what is known.
LEMMA QuietSteps ==
  ASSUME Inv, UNCHANGED <<owner, profile, left, completed>>,
         pending' \subseteq pending, Coming' \subseteq Coming,
         Elements(logins') \subseteq Elements(logins) \cup Coming,
         reader' = "sending" => held' \in Reply \cup {Garbage}
  PROVE  Meant'
<1>1. Reply' = Reply
  BY DEF Reply, owner
<1>2. Placed' /\ Asked'
  BY <1>1 DEF Inv, Meant, Placed, Asked, owner
<1>3. Followed' /\ Completions' /\ SnapshotIsHonest' /\ SuccessIsReal'
  BY DEF Inv, Meant, Followed, Completions, SnapshotIsHonest, SuccessIsReal, owner
<1>4. Believed'
  BY DEF Inv, Meant, Believed, Says, Mined, owner
<1>5. QED
  BY <1>2, <1>3, <1>4 DEF Meant

\* An owner that gives a request up waits for no answer any more.
LEMMA GivingUp ==
  ASSUME Inv, pc' \in {"idle", "close", "done"}, pc' = "idle" => role = "collect",
         result' \in {result, "failed"},
         UNCHANGED <<role, step, nextID, firstID, expected, snapshot, logins, updates,
                     reader, held, closing, child, pending, pipe, profile, left, completed>>,
         messages' \in Seq(Reply \cup {Garbage}), Len(messages') <= Capacity,
         Coming' \subseteq Coming
  PROVE  Inv'
<1>1. Reply' = Reply /\ Lines' = Lines
  BY DEF Reply, Lines
<1>2. TypeOK'
  BY <1>1 DEF Inv, TypeOK
<1>3. Placed' /\ Asked'
  BY <1>1 DEF Inv, Meant, Placed, Asked
<1>4. Followed' /\ Believed' /\ Completions'
  BY DEF Inv, Meant, Followed, Believed, Completions
<1>5. SnapshotIsHonest' /\ SuccessIsReal'
  BY DEF Inv, Meant, SnapshotIsHonest, SuccessIsReal
<1>6. QED
  BY <1>2, <1>3, <1>4, <1>5 DEF Inv, Meant

\* The number of a new request is above every number on its way.
LEMMA Sending == ASSUME Inv, Send PROVE Inv'
<1>1. /\ pc = "call" /\ nextID < MaxID[role] /\ nextID' = nextID + 1 /\ pc' = "await"
      /\ firstID' \in {nextID', firstID}
      /\ pending' \subseteq pending \cup {[id |-> nextID', step |-> step]}
      /\ UNCHANGED <<role, step, expected, snapshot, result, channels, closing, child,
                     pipe, profile, left, completed>>
  BY DEF Send
<1>2. /\ nextID \in 0..MaxID[role] /\ MaxID[role] \in Nat /\ firstID \in 0..nextID
      /\ role \in Roles
  BY ClientAssumption DEF Inv, TypeOK
<1>3. nextID' \in 1..MaxID[role] /\ firstID' \in 0..nextID' /\ nextID' > nextID
  BY <1>1, <1>2
<1>4. Reply' = Reply /\ Lines' = Lines
  BY <1>1 DEF Reply, Lines
<1>5. Coming' = Coming /\ Elements(logins') = Elements(logins)
  BY <1>1 DEF Coming, channels
<1>6. TypeOK'
  <2>1. pending' \subseteq [id : 1..MaxID[role], step : Steps]
    BY <1>1, <1>3 DEF Inv, TypeOK
  <2>2. QED
    BY <1>1, <1>3, <1>4, <2>1 DEF Inv, TypeOK, channels
<1>7. \A line \in Coming : line.id <= nextID
  BY DEF Inv, Meant, Asked
<1>8. \A line \in Coming : line.id \in Int
  <2>1. \A line \in Lines : line.id \in Int
    BY <1>2 DEF Lines, Reply, Garbage, Note
  <2>2. QED
    BY <2>1, ComingTyped DEF Inv, Meant
<1>9. \A line \in Coming : line.id <= nextID' /\ line.id # nextID'
  BY <1>2, <1>1, <1>7, <1>8
<1>10. \A request \in pending : request.id \in 1..nextID' /\ request.id # nextID'
  <2>1. \A request \in pending : request.id \in 1..nextID
    BY DEF Inv, Meant, Asked
  <2>2. QED
    BY <1>1, <1>2, <2>1
<1>11. Placed'
  BY <1>1, <1>3, <1>4 DEF Inv, Meant, Placed, channels
<1>12. Asked'
  BY <1>1, <1>3, <1>5, <1>9, <1>10 DEF Asked
<1>13. Believed'
  BY <1>5, <1>9 DEF Believed, Mined
<1>14. Followed'
  <2>1. CASE step = "after"
    <3>1. step # "before" /\ firstID' = firstID
      BY <2>1 DEF Send
    <3>2. QED
      BY <1>1, <2>1, <3>1 DEF Inv, Meant, Followed
  <2>2. CASE step # "after"
    BY <1>1, <2>2 DEF Inv, Meant, Followed
  <2>3. QED
    BY <2>1, <2>2
<1>15. result = "none"
  BY <1>1 DEF Inv, Meant, Placed
<1>16. Completions' /\ SnapshotIsHonest' /\ SuccessIsReal'
  BY <1>1, <1>5, <1>15 DEF Inv, Meant, Completions, SnapshotIsHonest, SuccessIsReal
<1>17. QED
  BY <1>6, <1>11, <1>12, <1>13, <1>14, <1>16 DEF Inv, Meant

\* What the owner makes of the answer to its request.
LEMMA Proceeding ==
  ASSUME Inv, pc = "await", NEW message \in Reply, message.id = nextID,
         message.value # Error => Says(message.value),
         message.value # Error \/ step \in {"logout", "check"},
         Proceed(message), UNCHANGED server
  PROVE  /\ UNCHANGED <<role, nextID, firstID>>
         /\ pc' \in {"call", "close", "idle", "completion"}
         /\ step' \in StepsOf(role) /\ expected' \in People
         /\ snapshot' = snapshot \/ snapshot' \in [id : 1..MaxID[role], account : People]
         /\ result' \in {"none", "ok", "failed", "auth", "changed"}
         /\ pc' = "completion" => role = "login" /\ step' = "loginStart"
         /\ pc' = "idle" => role = "collect"
         /\ pc' \in {"call", "completion"} => result' = "none"
         /\ Followed' /\ SnapshotIsHonest' /\ SuccessIsReal'
         /\ step' = "verify" => completed = "yes"
<1> DEFINE value == message.value
<1>1. /\ step \in StepsOf(role) /\ role \in Roles /\ result = "none" /\ Followed
      /\ nextID \in 1..MaxID[role] /\ firstID \in 0..nextID /\ expected \in People
      /\ step = "verify" => completed = "yes"
  BY DEF Inv, Meant, Placed, Completions, TypeOK
<1>2. value # Error => Says(value)
  OBVIOUS
<1>3. UNCHANGED <<profile, left, completed>>
  BY DEF server
<1> HIDE DEF value
<1>4. CASE step = "initialize"
  <2>1. /\ To("call", FirstStep, "none") /\ UNCHANGED <<expected, snapshot>>
    BY <1>4 DEF Proceed
  <2>2. FirstStep \in StepsOf(role) \cap {"start", "loginStart", "logout"}
    BY <1>1 DEF FirstStep, StepsOf, Roles
  <2>3. QED
    BY <1>1, <1>3, <2>1, <2>2 DEF To, Followed, SnapshotIsHonest, SuccessIsReal
<1>5. CASE step \in {"start", "before", "after"}
  <2>1. Identify(value) /\ role = "collect"
    BY <1>1, <1>5 DEF Proceed, value, StepsOf, Roles
  <2>2. Says(value) /\ value \in People
    BY <1>2, <1>5 DEF value, Says, AccountSteps
  <2>3. {"start", "before", "rates", "after"} \subseteq StepsOf(role)
    BY <2>1 DEF StepsOf
  <2>4. CASE step = "start"
    <3>1. /\ pc' \in {"close", "idle"} /\ step' = step /\ result' \in {"auth", "none"}
          /\ expected' = value /\ UNCHANGED <<role, nextID, firstID, snapshot>>
      BY <2>1, <2>4 DEF Identify, To
    <3>2. QED
      BY <1>1, <1>3, <2>1, <2>2, <2>3, <2>4, <3>1
         DEF Followed, SnapshotIsHonest, SuccessIsReal
  <2>5. CASE step = "before"
    <3>1. CASE value = NoAccount \/ value # expected
      <4>1. /\ pc' = "close" /\ step' = step /\ result' \in {"auth", "changed"}
            /\ UNCHANGED <<role, nextID, firstID, expected, snapshot>>
        BY <2>1, <2>5, <3>1 DEF Identify, To
      <4>2. QED
        BY <1>1, <1>3, <2>1, <2>5, <4>1 DEF Followed, SnapshotIsHonest, SuccessIsReal
    <3>2. CASE value # NoAccount /\ value = expected
      <4>1. /\ pc' = "call" /\ step' = "rates" /\ result' = "none"
            /\ UNCHANGED <<role, nextID, firstID, expected, snapshot>>
        BY <2>1, <2>5, <3>2 DEF Identify, To
      <4>2. expected \in left \cup {profile}
        BY <2>2, <2>5, <3>2 DEF Says
      <4>3. QED
        BY <1>1, <1>3, <2>1, <2>3, <4>1, <4>2
           DEF Followed, SnapshotIsHonest, SuccessIsReal
    <3>3. QED
      BY <3>1, <3>2
  <2>6. CASE step = "after"
    <3>1. CASE value = NoAccount \/ value # expected
      <4>1. /\ pc' = "close" /\ step' = step /\ result' \in {"auth", "changed"}
            /\ UNCHANGED <<role, nextID, firstID, expected, snapshot>>
        BY <2>1, <2>6, <3>1 DEF Identify, To
      <4>2. QED
        BY <1>1, <1>3, <2>1, <2>6, <4>1 DEF Followed, SnapshotIsHonest, SuccessIsReal
    <3>2. CASE value # NoAccount /\ value = expected
      <4>1. /\ pc' = "idle" /\ step' = step /\ result' = "ok"
            /\ UNCHANGED <<role, nextID, firstID, expected, snapshot>>
        BY <2>1, <2>6, <3>2 DEF Identify, To
      <4>2. snapshot.account = expected /\ snapshot.id >= firstID
        BY <1>1, <2>2, <2>6, <3>2 DEF Says, Followed
      <4>3. QED
        BY <1>1, <1>3, <2>1, <2>6, <4>1, <4>2
           DEF Followed, SnapshotIsHonest, SuccessIsReal
    <3>3. QED
      BY <3>1, <3>2
  <2>7. QED
    BY <1>5, <2>4, <2>5, <2>6
<1>6. CASE step = "rates"
  <2>1. /\ pc' = "call" /\ step' = "after" /\ result' = "none"
        /\ snapshot' = [id |-> nextID, account |-> value]
        /\ UNCHANGED <<role, nextID, firstID, expected>>
    BY <1>6 DEF Proceed, To, value
  <2>2. value \in People /\ (value = expected \/ expected \in left)
    BY <1>2, <1>6 DEF value, Says
  <2>3. snapshot' \in [id : 1..MaxID[role], account : People] /\ nextID >= firstID
    BY <1>1, <2>1, <2>2
  <2>4. role = "collect" /\ expected \in left \cup {profile}
    BY <1>1, <1>6 DEF StepsOf, Roles, Followed
  <2>5. QED
    BY <1>1, <1>3, <2>1, <2>2, <2>3, <2>4
       DEF Followed, SnapshotIsHonest, SuccessIsReal, StepsOf
<1>7. CASE step = "loginStart"
  <2>1. /\ pc' = "completion" /\ step' = step /\ result' = "none"
        /\ UNCHANGED <<role, nextID, firstID, expected, snapshot>>
    BY <1>7 DEF Proceed, To
  <2>2. role = "login"
    BY <1>1, <1>7 DEF StepsOf, Roles
  <2>3. QED
    BY <1>1, <1>3, <1>7, <2>1, <2>2 DEF Followed, SnapshotIsHonest, SuccessIsReal
<1>8. CASE step = "verify"
  <2>1. /\ pc' = "close" /\ step' = step
        /\ result' = IF value = NoAccount THEN "failed" ELSE "ok"
        /\ UNCHANGED <<role, nextID, firstID, expected, snapshot>>
    BY <1>8 DEF Proceed, To, value
  <2>2. value = profile /\ role = "login"
    BY <1>1, <1>2, <1>8 DEF value, Says, StepsOf, Roles
  <2>3. QED
    BY <1>1, <1>3, <1>8, <2>1, <2>2 DEF Followed, SnapshotIsHonest, SuccessIsReal
<1>9. CASE step = "logout"
  <2>1. /\ pc' = "call" /\ step' = "check" /\ result' = "none"
        /\ UNCHANGED <<role, nextID, firstID, expected, snapshot>>
    BY <1>9 DEF Proceed, LogoutAnswered, To
  <2>2. "check" \in StepsOf(role)
    BY <1>1, <1>9 DEF StepsOf, Roles
  <2>3. QED
    BY <1>1, <1>3, <2>1, <2>2 DEF Followed, SnapshotIsHonest, SuccessIsReal
<1>10. CASE step = "check"
  <2>1. /\ pc' = "close" /\ step' = step
        /\ result' = IF value = NoAccount THEN "ok" ELSE "failed"
        /\ UNCHANGED <<role, nextID, firstID, expected, snapshot>>
    BY <1>10 DEF Proceed, To, value
  <2>2. value = NoAccount => profile = NoAccount
    BY <1>2, <1>10, ClientAssumption DEF value, Says
  <2>3. role = "logout"
    BY <1>1, <1>10 DEF StepsOf, Roles
  <2>4. QED
    BY <1>1, <1>3, <1>10, <2>1, <2>2, <2>3 DEF Followed, SnapshotIsHonest, SuccessIsReal
<1>11. QED
  BY <1>1, <1>4, <1>5, <1>6, <1>7, <1>8, <1>9, <1>10 DEF StepsOf, Roles

\* An answer that is taken is the one to the request in flight, and means what
\* Believed says of it.
LEMMA Taking == ASSUME Inv, Take PROVE Inv'
<1> DEFINE message == Head(messages)
<1>1. /\ pc = "await" /\ messages # <<>> /\ messages' = Tail(messages)
      /\ UNCHANGED <<logins, updates, reader, held, closing, server>>
  BY DEF Take
<1>2. /\ messages' \in Seq(Reply \cup {Garbage}) /\ Len(messages') <= Capacity
      /\ message \in Reply \cup {Garbage} /\ message \in Coming
      /\ Coming' \subseteq Coming
  <2>1. messages \in Seq(Reply \cup {Garbage}) /\ Len(messages) <= Capacity
    BY DEF Inv, TypeOK
  <2>2. /\ Tail(messages) \in Seq(Reply \cup {Garbage})
        /\ Len(Tail(messages)) = Len(messages) - 1
        /\ message \in Reply \cup {Garbage} /\ message \in Elements(messages)
        /\ Elements(Tail(messages)) \subseteq Elements(messages)
    BY <1>1, <2>1, TailOf
  <2>3. Len(messages') <= Capacity
    BY <1>1, <2>1, <2>2, LenProperties, ClientAssumption
  <2>4. QED
    BY <1>1, <2>2, <2>3 DEF Coming, server
<1>3. result = "none"
  BY <1>1 DEF Inv, Meant, Placed
<1>4. CASE FailCall
  <2>1. /\ result' = "failed" /\ pc' \in {"idle", "close"}
        /\ pc' = "idle" => step \in ReadSteps
        /\ UNCHANGED <<role, step, nextID, firstID, expected, snapshot>>
    BY <1>4 DEF FailCall
  <2>2. pc' = "idle" => role = "collect"
    BY <2>1 DEF Inv, Meant, Placed, StepsOf, ReadSteps, TypeOK, Roles
  <2>3. QED
    BY <1>1, <1>2, <2>1, <2>2, GivingUp DEF server
<1>5. CASE UNCHANGED owner
  <2>1. Meant'
    BY <1>1, <1>2, <1>5, QuietSteps DEF server, Inv, Meant, Placed
  <2>2. Reply' = Reply /\ Lines' = Lines
    BY <1>5 DEF Reply, Lines, owner
  <2>3. TypeOK'
    BY <1>1, <1>2, <1>5, <2>2 DEF Inv, TypeOK, owner, server
  <2>4. QED
    BY <2>1, <2>3 DEF Inv
<1>6. CASE /\ message.type # "garbage" /\ Mine(message)
           /\ ~(message.value = Error /\ step \notin {"logout", "check"})
           /\ Proceed(message)
  <2>1. message \in Reply /\ message.type = "reply" /\ message.id = nextID
    BY <1>2, <1>6 DEF Mine, Garbage, Reply
  <2>2. message.value # Error => Says(message.value)
    BY <1>1, <1>2, <2>1 DEF Inv, Meant, Believed, Mined
  <2>3. message.value # Error \/ step \in {"logout", "check"}
    BY <1>6
  <2>4. UNCHANGED server /\ Proceed(message)
    BY <1>1, <1>6
  <2> HIDE DEF message
  <2>5. /\ UNCHANGED <<role, nextID, firstID>>
        /\ pc' \in {"call", "close", "idle", "completion"}
        /\ step' \in StepsOf(role) /\ expected' \in People
        /\ snapshot' = snapshot \/ snapshot' \in [id : 1..MaxID[role], account : People]
        /\ result' \in {"none", "ok", "failed", "auth", "changed"}
        /\ pc' = "completion" => role = "login" /\ step' = "loginStart"
        /\ pc' = "idle" => role = "collect"
        /\ pc' \in {"call", "completion"} => result' = "none"
        /\ Followed' /\ SnapshotIsHonest' /\ SuccessIsReal'
        /\ step' = "verify" => completed = "yes"
    BY <1>1, <2>1, <2>2, <2>3, <2>4, Proceeding
  <2>6. Reply' = Reply /\ Lines' = Lines
    BY <2>5 DEF Reply, Lines
  <2>7. StepsOf(role) \subseteq Steps
    BY DEF Inv, TypeOK, StepsOf, Steps, Roles, AccountSteps
  <2>8. TypeOK'
    BY <1>1, <1>2, <2>5, <2>6, <2>7 DEF Inv, TypeOK, server
  <2>9. Placed' /\ Asked'
    BY <1>1, <1>2, <2>5, <2>6 DEF Inv, Meant, Placed, Asked, server
  <2>10. Believed' /\ Completions'
    BY <1>1, <1>2, <2>5 DEF Inv, Meant, Believed, Completions, server
  <2>11. QED
    BY <2>5, <2>8, <2>9, <2>10 DEF Inv, Meant
<1>7. QED
  BY <1>4, <1>5, <1>6 DEF Take

\* A session goes on to verify the account only for the completion of its login.
LEMMA TakingLogin == ASSUME Inv, TakeLogin PROVE Inv'
<1> DEFINE note == Head(logins)
<1>1. /\ pc = "completion" /\ logins # <<>> /\ logins' = Tail(logins)
      /\ UNCHANGED <<role, nextID, firstID, expected, snapshot, messages, updates, reader,
                     held, closing, server>>
  BY DEF TakeLogin, To
<1>2. /\ role = "login" /\ step = "loginStart" /\ result = "none"
      /\ logins \in Seq(Lines) /\ Len(logins) <= LoginCapacity
  BY <1>1 DEF Inv, Meant, Placed, TypeOK
<1>3. /\ logins' \in Seq(Lines) /\ Len(logins') = Len(logins) - 1
      /\ note \in Elements(logins) /\ Elements(logins') \subseteq Elements(logins)
  BY <1>1, <1>2, TailOf
<1>4. Len(logins') <= LoginCapacity
  BY <1>2, <1>3, LenProperties, ClientAssumption
<1>5. \/ pc' = "call" /\ step' = "verify" /\ result' = "none" /\ note.type = "completed"
      \/ pc' = "close" /\ step' = step /\ result' = "failed"
      \/ pc' = pc /\ step' = step /\ result' = result
  BY DEF TakeLogin, To, OurLogin
<1>6. step' = "verify" => completed = "yes"
  BY <1>2, <1>3, <1>5 DEF Inv, Meant, Completions
<1>7. /\ Coming' = Coming /\ Reply' = Reply /\ Lines' = Lines
      /\ UNCHANGED <<pending, profile, left, completed>>
  BY <1>1 DEF Coming, Reply, Lines, server
<1>8. TypeOK'
  BY <1>1, <1>2, <1>3, <1>4, <1>5, <1>7 DEF Inv, TypeOK, server, Steps, AccountSteps
<1>9. Placed' /\ Asked'
  BY <1>1, <1>2, <1>5, <1>7 DEF Inv, Meant, Placed, Asked, StepsOf
<1>10. Followed' /\ Believed' /\ Completions'
  BY <1>1, <1>2, <1>3, <1>5, <1>6, <1>7
     DEF Inv, Meant, Followed, Believed, Completions
<1>11. SnapshotIsHonest' /\ SuccessIsReal'
  BY <1>1, <1>2, <1>5, <1>7 DEF SnapshotIsHonest, SuccessIsReal
<1>12. QED
  BY <1>8, <1>9, <1>10, <1>11 DEF Inv, Meant

\* A new read begins with the account the profile has now.
LEMMA BeginningRead == ASSUME Inv, BeginRead PROVE Inv'
<1>1. /\ pc = "idle" /\ pc' = "call" /\ step' = "before" /\ snapshot' = Nothing
      /\ result' = "none" /\ left' = {} /\ updates' \in {updates, FALSE}
      /\ UNCHANGED <<role, nextID, firstID, expected, messages, logins, reader, held,
                     closing, child, pending, pipe, profile, completed>>
  BY DEF BeginRead
<1>2. role = "collect"
  BY <1>1 DEF Inv, Meant, Placed
<1>3. Coming' = Coming /\ Reply' = Reply /\ Lines' = Lines
  BY <1>1 DEF Coming, Reply, Lines
<1>4. TypeOK'
  BY <1>1, <1>3 DEF Inv, TypeOK, Steps, AccountSteps
<1>5. Placed' /\ Asked'
  BY <1>1, <1>2, <1>3 DEF Inv, Meant, Placed, Asked, StepsOf
<1>6. Followed' /\ Believed' /\ Completions' /\ SnapshotIsHonest' /\ SuccessIsReal'
  BY <1>1, <1>3
     DEF Inv, Meant, Followed, Believed, Completions, SnapshotIsHonest, SuccessIsReal
<1>7. QED
  BY <1>4, <1>5, <1>6 DEF Inv, Meant

\* Whoever changes the account leaves one that the read cannot find again.
LEMMA Switching == ASSUME Inv, SwitchAccount PROVE Inv'
<1>1. /\ role = "collect" /\ profile' \in People /\ profile' \notin left \cup {profile}
      /\ left' = left \cup {profile}
      /\ UNCHANGED <<owner, channels, closing, child, pending, pipe, completed>>
  BY DEF SwitchAccount
<1>2. Coming' = Coming /\ Reply' = Reply /\ Lines' = Lines
  BY <1>1 DEF Coming, Reply, Lines, owner, channels
<1>3. TypeOK'
  BY <1>1, <1>2 DEF Inv, TypeOK, owner, channels
<1>4. Placed' /\ Asked'
  BY <1>1, <1>2 DEF Inv, Meant, Placed, Asked, owner, channels
<1>5. Followed'
  BY <1>1 DEF Inv, Meant, Followed, owner
<1>6. step \in {"initialize", "start", "before", "rates", "after"}
  BY <1>1 DEF Inv, Meant, Placed, StepsOf
<1>7. Believed'
  <2> SUFFICES ASSUME pc = "await", NEW line \in Coming, Mined(line)
               PROVE  Says(line.value)'
    BY <1>1, <1>2 DEF Believed, Mined, owner
  <2>1. Says(line.value)
    BY DEF Inv, Meant, Believed
  <2>2. QED
    BY <1>1, <1>6, <2>1 DEF Says, owner
<1>8. Completions' /\ SnapshotIsHonest' /\ SuccessIsReal'
  BY <1>1, <1>2
     DEF Inv, Meant, Completions, SnapshotIsHonest, SuccessIsReal, owner, channels
<1>9. QED
  BY <1>3, <1>4, <1>5, <1>7, <1>8 DEF Inv, Meant

\* A line of the child is harmless when it has no number still to be used, tells
\* of no completion that was not, and means what an answer to the request in
\* flight must mean.
LEMMA Writing ==
  ASSUME Inv, NEW line \in Lines, Write(line), line.id <= nextID,
         UNCHANGED <<owner, channels, closing, child, left>>, pending' \subseteq pending,
         profile' \in People, completed' \in {"no", "yes", "refused"},
         completed = "yes" => completed' = "yes" /\ (UNCHANGED profile \/ role = "logout"),
         line.type = "completed" => completed' = "yes",
         UNCHANGED profile \/ pc = "completion" \/ (role = "logout" /\ profile' = NoAccount),
         pc = "await" /\ Mined(line) => Says(line.value)'
  PROVE  Inv'
<1>1. /\ Coming' = Coming \cup {line} /\ pipe' \in Seq(Lines)
      /\ Reply' = Reply /\ Lines' = Lines
  BY ChildWrites DEF Inv, channels, Reply, Lines, owner
<1>2. /\ pc = "completion" => role = "login" /\ step = "loginStart" /\ result = "none"
      /\ role = "login" /\ step = "verify" => completed = "yes"
      /\ role # "collect" => left = {}
      /\ role = "logout" => step \in {"initialize", "logout", "check"}
      /\ profile # profile' => role # "collect"
  BY DEF Inv, Meant, Placed, Completions, StepsOf
<1>3. TypeOK'
  BY <1>1 DEF Inv, TypeOK, owner, channels
<1>4. Placed'
  BY <1>1 DEF Inv, Meant, Placed, owner, channels
<1>5. Asked'
  BY <1>1 DEF Inv, Meant, Asked, owner
<1>6. Followed'
  <2>1. profile' \notin left
    BY <1>2 DEF Inv, Meant, Followed
  <2>2. profile' = profile \/ step \notin {"rates", "after"}
    BY <1>2
  <2>3. QED
    BY <2>1, <2>2 DEF Inv, Meant, Followed, owner
<1>7. Believed'
  <2> SUFFICES ASSUME pc = "await", NEW other \in Coming, Mined(other)
               PROVE  Says(other.value)'
    BY <1>1 DEF Believed, Mined, owner
  <2>1. Says(other.value)
    BY DEF Inv, Meant, Believed
  <2>2. CASE profile' = profile
    BY <2>1, <2>2 DEF Says, owner
  <2>3. CASE profile' # profile
    <3>1. step \in {"initialize", "logout", "check"} /\ profile' = NoAccount
      BY <1>2, <2>3
    <3>2. QED
      BY <2>1, <3>1 DEF Says, owner
  <2>4. QED
    BY <2>2, <2>3
<1>8. Completions'
  BY <1>1 DEF Inv, Meant, Completions, owner, channels
<1>9. SnapshotIsHonest' /\ SuccessIsReal'
  BY <1>2 DEF Inv, Meant, SnapshotIsHonest, SuccessIsReal, owner
<1>10. QED
  BY <1>3, <1>4, <1>5, <1>6, <1>7, <1>8, <1>9 DEF Inv, Meant

\* The child answers what the profile is at the time, after the request was sent.
LEMMA Answering == ASSUME Inv, NEW request \in pending, Answer(request) PROVE Inv'
<1>1. PICK value \in Values(request.step) :
        /\ Write([type |-> "reply", id |-> request.id, value |-> value])
        /\ profile' \in IF request.step = "logout" /\ value = Fine
                        THEN {profile, NoAccount} ELSE {profile}
  BY DEF Answer
<1> DEFINE line == [type |-> "reply", id |-> request.id, value |-> value]
<1>2. /\ pending' \subseteq pending
      /\ UNCHANGED <<owner, channels, closing, left, completed>>
  BY DEF Answer
<1>3. /\ request.id \in 1..nextID /\ nextID \in 0..MaxID[role] /\ MaxID[role] \in Nat
      /\ profile \in People /\ request.step \in StepsOf(role) /\ role \in Roles
      /\ completed \in {"no", "yes", "refused"}
  BY ClientAssumption DEF Inv, Meant, TypeOK, Placed, Asked
<1>4. value \in People \cup {Error, Fine}
  BY <1>3 DEF Values
<1>5. line \in Lines /\ line.id <= nextID /\ line.type # "completed"
  BY <1>3, <1>4 DEF Lines, Reply
<1>6. profile' = profile \/ (request.step = "logout" /\ role = "logout" /\ profile' = NoAccount)
  BY <1>1, <1>3 DEF StepsOf, Roles
<1>7. profile' \in People
  BY <1>3, <1>6 DEF People
<1>8. pc = "await" /\ Mined(line) => Says(value)'
  <2> SUFFICES ASSUME pc = "await", Mined(line) PROVE Says(value)'
    OBVIOUS
  <2>1. request.step = step /\ value # Error
    BY DEF Inv, Meant, Asked, Mined
  <2>2. step \in AccountSteps => value = profile /\ profile' = profile
    BY <1>1, <2>1 DEF Values, AccountSteps
  <2>3. step = "rates" => value = profile /\ profile' = profile
    BY <1>1, <2>1 DEF Values, AccountSteps
  <2>4. profile \notin left
    BY DEF Inv, Meant, Followed
  <2>5. step = "rates" => expected \in left \cup {profile}
    BY DEF Inv, Meant, Followed
  <2>6. step = "after" => snapshot.account = expected \/ expected \in left
    BY DEF Inv, Meant, Followed
  <2>7. QED
    BY <1>2, <1>3, <2>2, <2>3, <2>4, <2>5, <2>6 DEF Says, AccountSteps, owner
<1>9. QED
  <2> HIDE DEF line
  <2>1. Write(line) /\ line.value = value
    BY <1>1 DEF line
  <2>2. QED
    BY <1>2, <1>3, <1>5, <1>6, <1>7, <1>8, <2>1, Writing DEF Answer

\* A notification, a login that ends and garbage are no answers.
LEMMA Telling ==
  ASSUME Inv, WriteUnasked \/ UserLogsIn \/ ForeignLogin \/ WriteGarbage
  PROVE  Inv'
<1>1. /\ nextID \in 0..MaxID[role] /\ MaxID[role] \in Nat /\ profile \in People
      /\ completed \in {"no", "yes", "refused"}
      /\ pc = "await" => nextID >= 1
  BY ClientAssumption DEF Inv, Meant, TypeOK, Placed
<1> DEFINE Unasked == {Garbage, [type |-> "reply", id |-> 0, value |-> Fine]}
                      \cup {Note(t) : t \in {"update", "completed", "refused", "foreign"}}
<1>2. ASSUME NEW line \in Unasked
      PROVE  line \in Lines /\ line.id <= nextID /\ (pc = "await" => ~Mined(line))
  <2>1. line.id = 0
    BY DEF Garbage, Note
  <2>2. [type |-> "reply", id |-> 0, value |-> Fine] \in Reply
    BY <1>1 DEF Reply
  <2>3. line \in Lines
    BY <2>2 DEF Lines
  <2>4. QED
    BY <1>1, <2>1, <2>3 DEF Mined
<1>3. CASE WriteUnasked \/ ForeignLogin \/ WriteGarbage
  <2>1. PICK line \in Unasked : Write(line) /\ line.type # "completed"
    BY <1>3 DEF WriteUnasked, ForeignLogin, WriteGarbage, Note, Garbage
  <2>2. UNCHANGED <<owner, channels, closing, child, left, pending, profile, completed>>
    BY <1>3 DEF WriteUnasked, ForeignLogin, WriteGarbage
  <2> HIDE DEF Unasked
  <2>3. QED
    BY <1>1, <1>2, <2>1, <2>2, Writing
<1>4. CASE UserLogsIn
  <2>1. /\ pc = "completion" /\ completed = "no"
        /\ UNCHANGED <<owner, channels, closing, child, left, pending>>
    BY <1>4 DEF UserLogsIn
  <2>2. PICK line \in Unasked :
          /\ Write(line) /\ profile' \in People /\ completed' \in {"yes", "refused"}
          /\ line.type = "completed" => completed' = "yes"
    BY <1>1, <1>4 DEF UserLogsIn, Note
  <2> HIDE DEF Unasked
  <2>3. QED
    BY <1>1, <1>2, <2>1, <2>2, Writing
<1>5. QED
  BY <1>3, <1>4

\* A failed write or wait, a session that is stopped, and the end of the loop.
LEMMA Ending ==
  ASSUME Inv, SendFails \/ Interrupted \/ LoginInterrupted \/ LoginStopped
                \/ LeaveLoop \/ Finish
  PROVE  Inv'
<1>1. UNCHANGED <<role, step, nextID, firstID, expected, snapshot, channels, closing,
                  child, pending, pipe, profile, left, completed>>
  BY DEF SendFails, Interrupted, LoginInterrupted, LoginStopped, LeaveLoop, Finish,
         FailCall, To, server
<1>2. result' \in {result, "failed"} /\ pc' \in {"idle", "close", "done"}
  BY DEF SendFails, Interrupted, LoginInterrupted, LoginStopped, LeaveLoop, Finish,
         FailCall, To
<1>3. pc' = "idle" => step \in ReadSteps
  BY DEF SendFails, Interrupted, LoginInterrupted, LoginStopped, LeaveLoop, Finish,
         FailCall, To
<1>4. pc' = "idle" => role = "collect"
  BY <1>3 DEF Inv, Meant, Placed, TypeOK, StepsOf, ReadSteps, Roles
<1>5. Coming' = Coming
  BY <1>1 DEF Coming, channels
<1>6. messages \in Seq(Reply \cup {Garbage}) /\ Len(messages) <= Capacity
  BY DEF Inv, TypeOK
<1>7. QED
  BY <1>1, <1>2, <1>4, <1>5, <1>6, GivingUp DEF channels

\* The reader, Close and the death of the child.
LEMMA Resting ==
  ASSUME Inv, ReaderStep \/ BeginClose \/ ClosePipes \/ CloseUpdates \/ Die
                \/ UNCHANGED vars
  PROVE  Inv'
<1>1. /\ UNCHANGED <<owner, profile, left, completed>> /\ pending' \subseteq pending
      /\ child' \in {child, "dead"}
      /\ closing' \in {closing, "cancelled", "joining", "closed"}
  BY DEF ReaderStep, ReadLine, Queue, GiveUp, EndOfFile, BeginClose, ClosePipes,
         CloseUpdates, Die, server, vars
<1>2. /\ Coming' \subseteq Coming
      /\ Elements(logins') \subseteq Elements(logins) \cup Coming
      /\ messages' \in Seq(Reply \cup {Garbage}) /\ Len(messages') <= Capacity
      /\ logins' \in Seq(Lines) /\ Len(logins') <= LoginCapacity
      /\ updates' \in BOOLEAN /\ reader' \in {"reading", "sending", "done"}
      /\ pipe' \in Seq(Lines)
      /\ held' = Nothing \/ held' \in Reply \cup {Garbage}
      /\ reader' = "sending" => held' \in Reply \cup {Garbage}
  <2>1. CASE ReaderStep
    BY <2>1, ReaderMoves DEF Inv, Meant
  <2>2. CASE UNCHANGED <<channels, pipe>>
    <3>1. Coming' = Coming
      BY <2>2 DEF Coming, channels
    <3>2. QED
      BY <2>2, <3>1 DEF Inv, Meant, TypeOK, Placed, channels
  <2>3. ReaderStep \/ UNCHANGED <<channels, pipe>>
    BY DEF BeginClose, ClosePipes, CloseUpdates, Die, server, vars
  <2>4. QED
    BY <2>1, <2>2, <2>3
<1>3. Meant'
  BY <1>1, <1>2, QuietSteps
<1>4. Reply' = Reply /\ Lines' = Lines
  BY <1>1 DEF Reply, Lines, owner
<1>5. TypeOK'
  BY <1>1, <1>2, <1>4 DEF Inv, TypeOK, owner
<1>6. QED
  BY <1>3, <1>5 DEF Inv

\* Every step of the owner, the reader, the closer, the child and the user keeps
\* the invariant.
LEMMA StepInv == Inv /\ [Next]_vars => Inv'
<1> SUFFICES ASSUME Inv, [Next]_vars PROVE Inv'
  OBVIOUS
<1>1. CASE OwnerStep
  BY <1>1, Sending, Taking, TakingLogin, BeginningRead, Ending DEF OwnerStep
<1>2. CASE ChildStep
  BY <1>2, Answering, Telling, Resting DEF ChildStep
<1>3. CASE SwitchAccount
  BY <1>3, Switching
<1>4. CASE ReaderStep \/ BeginClose \/ ClosePipes \/ CloseUpdates \/ UNCHANGED vars
  BY <1>4, Resting
<1>5. QED
  BY <1>1, <1>2, <1>3, <1>4 DEF Next

\* The invariant holds in every reachable state.
LEMMA Invariance == Spec => []Inv
BY StartInv, StepInv, PTL DEF Spec

-----------------------------------------------------------------------------
\* The state keeps its type and the channels their capacity, for any capacities.
THEOREM TypeCorrect == Spec => []TypeOK
<1>1. Inv => TypeOK
  BY DEF Inv
<1>2. QED
  BY <1>1, Invariance, PTL

\* A read that succeeds shows limits it asked for itself, of the account the
\* process was started with, however late replies arrive and whoever signs in.
THEOREM HonestSnapshots == Spec => []SnapshotIsHonest
<1>1. Inv => SnapshotIsHonest
  BY DEF Inv, Meant
<1>2. QED
  BY <1>1, Invariance, PTL

\* A login succeeds only by its own completion, a logout only when signed out.
THEOREM RealSuccess == Spec => []SuccessIsReal
<1>1. Inv => SuccessIsReal
  BY DEF Inv, Meant
<1>2. QED
  BY <1>1, Invariance, PTL
=============================================================================
