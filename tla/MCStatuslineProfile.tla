------------------------- MODULE MCStatuslineProfile ------------------------
(* A profile with two statuslines of the user's, one of them none at all,    *)
(* two accounts and enough bindings to nest, remove and install again.       *)
EXTENDS StatuslineProfile
=============================================================================
