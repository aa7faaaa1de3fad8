----------------------------- MODULE MCMessage ------------------------------
(* Message for TLC.                                                        *)
EXTENDS Message

\* Around zero and around whole milliseconds.
MCExpirations == {-5, -1, 0, 1, 3, 4, 5, 7, 8}
=============================================================================
