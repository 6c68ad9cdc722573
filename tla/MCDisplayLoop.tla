---------------------------- MODULE MCDisplayLoop ----------------------------
(* DisplayLoop with the program's own limits: three retries after the first  *)
(* video, and reconnect delays of 1, 2, 4, 8, 16 and 30 seconds.             *)
EXTENDS DisplayLoop

MCLimit == 3
MCMaxBackoff == 30
=============================================================================
