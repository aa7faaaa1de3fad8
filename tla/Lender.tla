------------------------------- MODULE Lender -------------------------------
(***************************************************************************)
(* What publisherChannelPool promises the publishers that share it: a      *)
(* channel is lent to one publisher at a time, no more than MaxPoolSize    *)
(* publishers have one, and a closed pool lends what is still in its       *)
(* buffer and then nothing.  How the pool counts, locks and opens channels *)
(* is left to PublisherPool, which implements this specification; Publish  *)
(* uses each of its pools as this specification allows.                    *)
(***************************************************************************)
EXTENDS Naturals, FiniteSets

CONSTANTS Publishers, Channels, MaxPoolSize, NoChannel

VARIABLES
    lent,       \* the channel each publisher has, between get and put
    state       \* "open", "closing" while the closed buffer is drained, "closed"

vars == <<lent, state>>

Borrowers == {p \in Publishers : lent[p] # NoChannel}
Lent == {lent[p] : p \in Borrowers}

Init ==
    /\ lent = [p \in Publishers |-> NoChannel]
    /\ state = "open"

\* close has drained the buffer, or a publisher took the last channel from it.
Drained == state = "closing" /\ state' = "closed"

Lend(p, c) ==
    /\ lent[p] = NoChannel /\ c \notin Lent
    /\ Cardinality(Borrowers) < MaxPoolSize
    /\ state # "closed"
    /\ lent' = [lent EXCEPT ![p] = c]
    /\ UNCHANGED state \/ Drained

TakeBack(p) ==
    /\ lent[p] # NoChannel
    /\ lent' = [lent EXCEPT ![p] = NoChannel]
    /\ UNCHANGED state

\* close, on a buffer that holds channels or on an empty one.
Shut ==
    /\ state = "open"
    /\ state' \in {"closing", "closed"}
    /\ UNCHANGED lent

Next ==
    \/ \E p \in Publishers, c \in Channels : Lend(p, c)
    \/ \E p \in Publishers : TakeBack(p)
    \/ Shut
    \/ Drained /\ UNCHANGED lent

Spec == Init /\ [][Next]_vars

=============================================================================
