----------------------------- MODULE MCPanelUSB -----------------------------
(* PanelUSB with enough commands for a failed upload, two synchronisations   *)
(* and another upload whose reply could be confused with the first.          *)
EXTENDS PanelUSB
=============================================================================
