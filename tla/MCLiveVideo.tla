---------------------------- MODULE MCLiveVideo -----------------------------
(* LiveVideo with an encoder that delivers a few chunks.                     *)
EXTENDS LiveVideo
=============================================================================
