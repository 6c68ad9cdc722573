--------------------------- MODULE MCClaudeControl --------------------------
(* ClaudeControl with two requests beside the watcher, two accounts and one  *)
(* restart.  Requests keep their names: BusyEnds is a liveness property, for *)
(* which TLC's symmetry reduction is not sound.                              *)
EXTENDS ClaudeControl
=============================================================================
