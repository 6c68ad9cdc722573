---------------------------- MODULE MCClaudeInbox ---------------------------
(* ClaudeInbox with two sessions that run and one that left a file before,   *)
(* three hook processes, two at a time, statuslines with one or both         *)
(* windows, and a scan with room for two sessions.                           *)
EXTENDS ClaudeInbox
=============================================================================
