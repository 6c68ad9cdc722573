---------------------------- MODULE MCCodexControl --------------------------
(* CodexControl with two requests; a login takes two runs of the source.     *)
EXTENDS CodexControl
=============================================================================
