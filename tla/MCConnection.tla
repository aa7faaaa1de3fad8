---------------------------- MODULE MCConnection ----------------------------
(* Connection for TLC; the configurations have the values of its constants. *)
(* Application goroutines are interchangeable, but liveness is checked, so  *)
(* there is no symmetry set.                                                *)
EXTENDS Connection
=============================================================================
