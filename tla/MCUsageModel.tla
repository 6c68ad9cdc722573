---------------------------- MODULE MCUsageModel ----------------------------
(* UsageModel with two windows, two percentages and a clock that passes     *)
(* every reset time and the freshness limit.                                *)
EXTENDS UsageModel

MCWindows == {"five_hour", "weekly"}
MCUsed == {40, 60}
MCResets == {2, 4}
=============================================================================
