----------------------------- MODULE MCDelivery -----------------------------
(* Delivery for TLC.                                                       *)
EXTENDS Delivery

\* The modes of MaxRedelivery: none, infinite and bounded.
MCLimits == {-1, 0, 1}
=============================================================================
