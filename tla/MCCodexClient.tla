---------------------------- MODULE MCCodexClient ---------------------------
(* CodexClient with two accounts and small queues: reads are repeated, so the *)
(* collector has more requests; login and logout have more unasked traffic.  *)
EXTENDS CodexClient
PerRole(collect, login, logout) ==
  [r \in Roles |-> CASE r = "collect" -> collect [] r = "login" -> login
                     [] r = "logout" -> logout]
RequestsPerRole == PerRole(6, 3, 3)
NotesPerRole == PerRole(0, 2, 1)
OrphansPerRole == PerRole({FALSE}, {FALSE}, BOOLEAN)
=============================================================================
