---------------------------- MODULE UsagePromise ----------------------------
(***************************************************************************)
(* What a usage model promises about the windows of one connection,        *)
(* without its statuses, percentages, timestamps and errors: every window  *)
(* has a high-water mark, the latest reset time it knows, and shows at     *)
(* most the value that belongs to that mark, and only before it.           *)
(* UsageModel implements this specification.                               *)
(***************************************************************************)
EXTENDS Naturals

CONSTANT Windows

VARIABLES
  now,
  mark,    \* latest known reset time of each window, 0 while none is known
  shown    \* reset time of the value shown as current, 0 when none is

vars == <<now, mark, shown>>

Start ==
  /\ now = 1
  /\ mark = [k \in Windows |-> 0]
  /\ shown = [k \in Windows |-> 0]

\* A shown value disappears when its reset time comes; nothing else changes.
Pass ==
  /\ now' = now + 1
  /\ shown' = [k \in Windows |-> IF shown[k] <= now + 1 THEN 0 ELSE shown[k]]
  /\ UNCHANGED mark

\* Results and errors move marks forward only.  A window that shows a value
\* shows the one of its mark; a mark that has passed shows nothing until it is
\* moved past.
Learn ==
  /\ UNCHANGED now
  /\ mark' \in [Windows -> Nat]
  /\ shown' \in [Windows -> Nat]
  /\ \A k \in Windows :
       /\ mark'[k] >= mark[k]
       /\ shown'[k] = 0 \/ (shown'[k] = mark'[k] /\ shown'[k] > now)

\* A disconnect ends the history of every window of the connection.
Forget ==
  /\ UNCHANGED now
  /\ mark' = [k \in Windows |-> 0]
  /\ shown' = [k \in Windows |-> 0]

Promise == Start /\ [][Pass \/ Learn \/ Forget]_vars
=============================================================================
