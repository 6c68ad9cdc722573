--------------------------- MODULE MCSensorClient ---------------------------
(* SensorClient with short delays.                                           *)
EXTENDS SensorClient
=============================================================================
