---------------------------- MODULE AtLeastOnce -----------------------------
(***************************************************************************)
(* What the consumers of a queue promise about one message, whatever       *)
(* copies of it the retries make: it stays owed until a handler call has   *)
(* succeeded or it was rejected for good, it is rejected only where        *)
(* MaxRedelivery bounds the retries, and once it is settled nothing of it  *)
(* comes back.  Delivery implements this specification.                    *)
(***************************************************************************)

VARIABLES
    owed,       \* some copy of the message is not settled yet
    processed,  \* a handler call has succeeded
    rejected,   \* a copy was rejected without requeue
    bounded     \* MaxRedelivery is not 0: the message may be rejected

vars == <<owed, processed, rejected, bounded>>

Init == owed = TRUE /\ processed = FALSE /\ rejected = FALSE /\ bounded \in BOOLEAN

Process ==
    /\ owed
    /\ processed' = TRUE
    /\ UNCHANGED <<owed, rejected, bounded>>

Reject ==
    /\ owed /\ bounded
    /\ rejected' = TRUE
    /\ owed' \in BOOLEAN
    /\ UNCHANGED <<processed, bounded>>

Finish ==
    /\ owed /\ (processed \/ rejected)
    /\ owed' = FALSE
    /\ UNCHANGED <<processed, rejected, bounded>>

Next == Process \/ Reject \/ Finish

Spec == Init /\ [][Next]_vars

=============================================================================
