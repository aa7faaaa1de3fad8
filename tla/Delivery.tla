------------------------------ MODULE Delivery ------------------------------
(***************************************************************************)
(* What happens to one message of a queue: the workers of consume,         *)
(* processDelivery and handleDeliveryFailure, and a broker that redelivers *)
(* what a lost connection leaves unacknowledged.                           *)
(*                                                                         *)
(* A retry publishes a copy of the message whose header counts the         *)
(* retries, so a message may have several copies at once; copies with the  *)
(* same count are alike, and the state only says how many there are.  The  *)
(* copies go back to the queue they came from (the broker routes them by   *)
(* d.Exchange and d.RoutingKey).                                           *)
(*                                                                         *)
(* Ack and Nack are frames without an answer: the worker goes on as soon   *)
(* as the frame is written, and the frame may be lost with the connection. *)
(* What follows the frame (metrics, with the application's label hook, and *)
(* the logger) runs under the same deferred recover as the handler.        *)
(***************************************************************************)
EXTENDS Integers, FiniteSets, Sequences

CONSTANTS
    Workers,    \* consume goroutines of the queue, over all connections
    Limits,     \* values of q.MaxRedelivery
    MaxFaults   \* bound on failures: of the network, of the process, of hooks, and
                \* publishes whose outcome the SDK does not learn

ASSUME DeliveryAssumption ==
    /\ IsFiniteSet(Workers)
    /\ \A n \in Limits : n \in Int /\ n >= -1
    /\ MaxFaults \in Nat

VARIABLES
    limit,      \* q.MaxRedelivery
    ready,      \* copies in the queue, by retry count
    dead,       \* the retry counts of copies rejected without requeue
    frames,     \* acknowledgements under way, in order
    up,         \* the connection works
    pc, held,   \* workers: where, and with a copy of which count
    tie,        \* the broker's view of that copy: "owned" by the worker, "settled",
                \* or "none" since the channel it came from is gone
    attempts,   \* history: handler calls, up to one more than the promise
    succeeded,  \* history: a handler call has returned nil
    stopped,    \* s.ctx is done
    faults

vars == <<limit, ready, dead, frames, up, pc, held, tie, attempts, succeeded, stopped, faults>>

Kinds == {"ack", "requeue", "reject"}

\* A second settlement of one delivery is "again", whatever it asks for.
Frames == [kind : Kinds \cup {"again"}, count : Nat]

\* The largest retry count a header can get, and one more.
Bound == IF limit > 0 THEN limit ELSE 0
Counts == 0..(Bound + 1)

None == [n \in Counts |-> 0]
Add(f, n) == [f EXCEPT ![n] = @ + 1]

\* The message may come with a count in its header, within the limit: it was
\* moved here from a DLQ.
Init ==
    /\ limit \in Limits
    /\ \E n \in 0..Bound : ready = [None EXCEPT ![n] = 1]
    /\ dead = {}
    /\ frames = <<>>
    /\ up = TRUE
    /\ pc = [w \in Workers |-> "idle"]
    /\ held = [w \in Workers |-> 0]
    /\ tie = [w \in Workers |-> "none"]
    /\ attempts = 0 /\ succeeded = FALSE
    /\ stopped = FALSE
    /\ faults = 0

Fault == faults < MaxFaults /\ faults' = faults + 1
Goto(w, l) == pc' = [pc EXCEPT ![w] = l]

-----------------------------------------------------------------------------
(* consume and processDelivery.                                            *)

\* A delivery reaches a worker, which calls the handler; the select may prefer
\* it to a context that is done.
Deliver(w, n) ==
    /\ pc[w] = "idle" /\ up /\ ready[n] > 0
    /\ ready' = [ready EXCEPT ![n] = @ - 1]
    /\ held' = [held EXCEPT ![w] = n] /\ tie' = [tie EXCEPT ![w] = "owned"]
    /\ attempts' = IF attempts <= Bound + 1 THEN attempts + 1 ELSE attempts
    /\ Goto(w, "handling")
    /\ UNCHANGED <<limit, dead, frames, up, succeeded, stopped, faults>>

HandlerSucceeds(w) ==
    /\ pc[w] = "handling"
    /\ succeeded' = TRUE
    /\ Goto(w, "ack")
    /\ UNCHANGED <<limit, ready, dead, frames, up, held, tie, attempts, stopped, faults>>

\* Mutated form of Verdict: the last retry is not made.
VerdictEarly(n) ==
    IF limit = 0 THEN "requeue" ELSE IF limit > 0 /\ n + 1 < limit THEN "republish" ELSE "reject"

\* What handleDeliveryFailure does with a delivery that has been retried n times.
Verdict(n) ==
    CASE limit = 0 -> "requeue"
      [] limit > 0 /\ n < limit -> "republish"
      [] OTHER -> "reject"

\* The handler returns an error or panics.
HandlerFails(w) ==
    /\ pc[w] = "handling"
    /\ Goto(w, Verdict(held[w]))
    /\ UNCHANGED <<limit, ready, dead, frames, up, held, tie, attempts, succeeded, stopped, faults>>

\* Mutated form of Republish: an error of publishAMQP is taken for success.
RepublishBlind(w) ==
    /\ pc[w] = "republish"
    /\ \/ up /\ ready' = Add(ready, held[w] + 1) /\ UNCHANGED faults
       \/ UNCHANGED ready /\ (~up \/ stopped) /\ UNCHANGED faults
       \/ UNCHANGED ready /\ up /\ Fault
    /\ Goto(w, "ack")
    /\ UNCHANGED <<limit, dead, frames, up, held, tie, attempts, succeeded, stopped>>

\* Mutated form of Republish: the copy keeps the header of the original.
RepublishUncounted(w) ==
    /\ pc[w] = "republish"
    /\ \/ up /\ ~stopped /\ ready' = Add(ready, held[w]) /\ Goto(w, "ack") /\ UNCHANGED faults
       \/ (~up \/ stopped) /\ UNCHANGED <<ready, faults>> /\ Goto(w, "requeue")
    /\ UNCHANGED <<limit, dead, frames, up, held, tie, attempts, succeeded, stopped>>

\* publishAMQP of the copy with its count increased: confirmed, or it fails
\* before anything is sent (no connection, a context that is done), or on the
\* way (the network, the broker, a context done while it waits), when the copy
\* may have reached the broker.
Republish(w) ==
    /\ pc[w] = "republish"
    /\ \/ /\ up
          /\ ready' = Add(ready, held[w] + 1)
          /\ Goto(w, "ack") /\ UNCHANGED faults
       \/ /\ ~up \/ stopped
          /\ Goto(w, "requeue") /\ UNCHANGED <<ready, faults>>
       \/ /\ up /\ Fault
          /\ ready' = Add(ready, held[w] + 1) \/ UNCHANGED ready
          /\ Goto(w, "requeue")
    /\ UNCHANGED <<limit, dead, frames, up, held, tie, attempts, succeeded, stopped>>

\* The worker is done with its delivery.
Leave(w) ==
    /\ held' = [held EXCEPT ![w] = 0] /\ tie' = [tie EXCEPT ![w] = "none"]
    /\ Goto(w, "idle")
    /\ UNCHANGED faults

\* The label hook of IncMessagesAcked or IncMessagesNacked, or the logger, panics
\* after the settlement: the deferred function recovers and hands the delivery to
\* handleDeliveryFailure once more.
HookPanics(w) ==
    /\ Fault
    /\ tie' = [tie EXCEPT ![w] = "settled"]
    /\ Goto(w, Verdict(held[w]))
    /\ UNCHANGED held

\* d.Ack or d.Nack: an error when the channel is gone, or a frame and then the
\* metrics.
Settle(w) ==
    /\ pc[w] \in Kinds
    /\ \/ tie[w] = "none" /\ Leave(w) /\ UNCHANGED frames
       \/ /\ tie[w] # "none"
          /\ frames' = Append(frames, [kind |-> IF tie[w] = "owned" THEN pc[w] ELSE "again",
                                       count |-> held[w]])
          /\ Leave(w) \/ HookPanics(w)
    /\ UNCHANGED <<limit, ready, dead, up, attempts, succeeded, stopped>>

-----------------------------------------------------------------------------
(* The broker, the network, Shutdown and the end of the process.           *)

Owned == {w \in Workers : tie[w] = "owned"}

\* The channel is gone: everything on it that the broker has no settlement for
\* is ready again.
Requeue(rest) ==
    /\ ready' = [n \in Counts |-> ready[n]
                    + Cardinality({w \in Owned : held[w] = n})
                    + Cardinality({i \in 1..Len(rest) : rest[i].count = n /\ rest[i].kind # "again"})]
    /\ frames' = <<>>
    /\ up' = FALSE
    /\ tie' = [w \in Workers |-> "none"]

\* The broker reads a settlement.  It ends the channel with an exception when
\* the delivery was settled before.
BrokerSettles ==
    /\ frames # <<>>
    /\ LET f == Head(frames) IN
       \/ /\ f.kind = "again" /\ Requeue(Tail(frames)) /\ UNCHANGED dead
       \/ /\ f.kind # "again"
          /\ frames' = Tail(frames)
          /\ ready' = IF f.kind = "requeue" THEN Add(ready, f.count) ELSE ready
          /\ dead' = IF f.kind = "reject" THEN dead \cup {f.count} ELSE dead
          /\ UNCHANGED <<up, tie>>
    /\ UNCHANGED <<limit, pc, held, attempts, succeeded, stopped, faults>>

ConnectionLost ==
    /\ up /\ (Fault \/ (stopped /\ UNCHANGED faults))
    /\ Requeue(frames)
    /\ UNCHANGED <<limit, dead, pc, held, attempts, succeeded, stopped>>

\* The process ends, by itself or because a hook panics where nothing recovers
\* it; a restarted one consumes from the same queue.
ProcessDies ==
    /\ Fault
    /\ Requeue(frames)
    /\ pc' = [w \in Workers |-> "idle"] /\ held' = [w \in Workers |-> 0]
    /\ UNCHANGED <<limit, dead, attempts, succeeded, stopped>>

\* reconnect has restarted the consumers.
Reconnected ==
    /\ ~up /\ ~stopped
    /\ up' = TRUE
    /\ UNCHANGED <<limit, ready, dead, frames, pc, held, tie, attempts, succeeded, stopped, faults>>

\* Shutdown cancels s.ctx; the connection is interrupted next.
Stop ==
    /\ ~stopped
    /\ stopped' = TRUE
    /\ UNCHANGED <<limit, ready, dead, frames, up, pc, held, tie, attempts, succeeded, faults>>

-----------------------------------------------------------------------------

Work(w) ==
    \/ \E n \in Counts : Deliver(w, n)
    \/ HandlerSucceeds(w) \/ HandlerFails(w) \/ Republish(w) \/ Settle(w)

Next ==
    \/ \E w \in Workers : Work(w)
    \/ BrokerSettles \/ ConnectionLost \/ ProcessDies \/ Reconnected \/ Stop

Spec == Init /\ [][Next]_vars

\* Handlers return, the broker reads what it is sent, the SDK reconnects.
FairSpec ==
    /\ Spec
    /\ \A w \in Workers : WF_vars(Work(w))
    /\ WF_vars(BrokerSettles) /\ WF_vars(Reconnected)

-----------------------------------------------------------------------------
(* Properties                                                              *)

\* The type invariant; the count in the header of a delivery that is being
\* handled never exceeds MaxRedelivery (handleDeliveryFailure).
TypeOK ==
    /\ limit \in Limits
    /\ ready \in [Counts -> Nat] /\ dead \subseteq Counts
    /\ frames \in Seq(Frames)
    /\ up \in BOOLEAN /\ succeeded \in BOOLEAN /\ stopped \in BOOLEAN
    /\ pc \in [Workers -> {"idle", "handling", "republish"} \cup Kinds]
    /\ held \in [Workers -> 0..Bound]
    /\ tie \in [Workers -> {"none", "owned", "settled"}]
    /\ attempts \in 0..(Bound + 2) /\ faults \in 0..MaxFaults

\* The message is not lost: until a handler call has succeeded, or a copy has
\* been rejected for good, a copy is in the queue or will go back to it or be
\* rejected; the acknowledgement of a retried delivery never counts as one.
NoLoss ==
    \/ succeeded
    \/ dead # {} \/ \E n \in Counts : ready[n] > 0
    \/ \E i \in 1..Len(frames) : frames[i].kind \in {"requeue", "reject"}
    \/ \E w \in Owned : pc[w] # "ack"

\* A message is rejected only when its retries are used up, and never when
\* MaxRedelivery asks for infinite redelivery.
DeadOnlyExhausted == \A n \in dead : limit # 0 /\ n = Bound

\* Without failures there is one copy, it is processed N + 1 times at most for
\* MaxRedelivery = N, and once for -1.
FaultFreeBound ==
    faults = 0 /\ ~stopped =>
        /\ limit # 0 => attempts <= Bound + 1
        /\ Cardinality({w \in Owned : pc[w] # "ack"}) <= 1

\* No copy is left anywhere.
Settled ==
    /\ ready = None /\ frames = <<>>
    /\ \A w \in Workers : pc[w] = "idle"

\* With bounded retries, or none, every copy is in the end acknowledged or
\* rejected, even if every handler call fails, unless the SDK is stopped.
Settles == limit # 0 => <>(stopped \/ Settled)

\* The message as the application sees it, with all its copies.
Message == INSTANCE AtLeastOnce WITH
    owed <- ~Settled,
    processed <- succeeded,
    rejected <- dead # {},
    bounded <- limit # 0

\* Consumers implement at-least-once delivery: through retries, redeliveries, a
\* lost connection and a process that dies, the message is settled only after a
\* handler call succeeded or a bounded retry policy rejected it, and then for good.
ImplementsAtLeastOnce == Message!Spec

=============================================================================
