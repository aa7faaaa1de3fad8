--------------------------- MODULE MCConstruction ---------------------------
(* Construction for TLC.                                                   *)
EXTENDS Construction, TLC

MCCollectors == <<"messages_received_total", "publish_failed_total", "reconnects_total">>

\* The calls of NewSDK are interchangeable.
Symmetry == Permutations(SDKs)
=============================================================================
