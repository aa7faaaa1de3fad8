----------------------------- MODULE MCTopology -----------------------------
(* Topology for TLC, with three ticks to the millisecond and an int32 of   *)
(* four bits.                                                              *)
EXTENDS Topology

Config(n, d, t, l) ==
    [name |-> n, dlq |-> d, delay |-> t, life |-> l, type |-> "classic", route |-> "x", timeout |-> 0]

\* A delay queue in three forms, and one whose delay is too long.
Durable == [Config("a", TRUE, 7, "durable") EXCEPT !.type = "quorum"]
Rerouted == [Durable EXCEPT !.route = "y"]
AutoDelete == Config("a", TRUE, 5, "autodelete")
TooLong == Config("a", FALSE, 24, "durable")

\* Queues that the broker loses in other ways.
Transient == [Config("b", TRUE, 0, "transient") EXCEPT !.timeout = 4]
Exclusive == Config("b", FALSE, 0, "exclusive")

MCBatches == {<<Durable>>, <<AutoDelete>>, <<Rerouted, AutoDelete>>, <<Durable, Transient>>,
              <<Exclusive, AutoDelete>>, <<Transient, TooLong>>}

\* A delay below a millisecond.
ShortBatches == {<<Config("a", FALSE, 2, "durable")>>}
=============================================================================
