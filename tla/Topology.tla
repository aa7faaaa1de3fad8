------------------------------ MODULE Topology ------------------------------
(***************************************************************************)
(* What declareQueuesLocked makes of the broker, declaration by            *)
(* declaration: the calls of DeclareQueues, the replay of a reconnect and  *)
(* the consumers restarted after it, while the connection breaks, the      *)
(* broker restarts without its transient queues, and somebody else deletes *)
(* a queue.  Connection has the goroutines and locks around it; here a     *)
(* link that is down is always followed by a reconnect.                    *)
(*                                                                         *)
(* A configuration has a name, dlq (EnableDLQ), a delay (DLXTTL in ticks,  *)
(* of which a millisecond has TicksPerMilli, or 0 if it is no delay        *)
(* queue), a route (Exchange and RoutingKey), a timeout (ConsumerTimeout,  *)
(* or 0 for none), a type and a life:                                      *)
(*   durable      until it is deleted                                      *)
(*   transient    until the broker restarts                                *)
(*   exclusive    as long as the connection                                *)
(*   autodelete   until its last consumer is gone                          *)
(***************************************************************************)
EXTENDS Integers, Sequences, SequencesExt, FiniteSets

CONSTANTS
    Batches,        \* the queue configurations of each call of DeclareQueues
    TicksPerMilli,  \* a million in the code, where time.Duration is in nanoseconds
    Half,           \* int32 holds -Half..Half-1
    MaxCalls,       \* bound on the calls of DeclareQueues
    MaxFaults,      \* bound on lost connections, restarts and refusals
    MaxDeletions    \* bound on the queues that somebody else deletes

Configs == UNION {ToSet(b) : b \in Batches}
Names == {q.name : q \in Configs}

ASSUME TopologyAssumption ==
    /\ \A b \in Batches : b \in Seq(ToSet(b)) /\ b # <<>>
    /\ \A q \in Configs :
          /\ q.dlq \in BOOLEAN /\ q.delay \in Nat /\ q.timeout \in Nat
          /\ q.type \in {"classic", "quorum"}
          /\ q.life \in {"durable", "transient", "exclusive", "autodelete"}
    /\ TicksPerMilli \in Nat \ {0} /\ Half \in Nat \ {0}
    /\ MaxCalls \in Nat /\ MaxFaults \in Nat /\ MaxDeletions \in Nat

VARIABLES
    broker,         \* the exchanges, queues and bindings that exist
    link,           \* s.channel: "up" or "down"
    holder,         \* who has s.mu: "none", "declare", "replay" or "consume"
    batch,          \* the argument of the call of DeclareQueues
    todo, step,     \* the configurations left, and the declaration to make next
    left,           \* the queues reconnect has still to consume from
    declaredQueues,
    queues,         \* the names in s.queues
    consuming,      \* the names with a consumer on s.channel
    cancelled,      \* names deleted since the last reconnect
    refused,        \* history: the broker refused a replayed declaration as different
    deletions, calls, faults

sdk == <<holder, batch, todo, step, left, declaredQueues, queues>>
bounds == <<deletions, calls, faults>>
vars == <<broker, link, sdk, consuming, cancelled, refused, bounds>>

Declaration(q, kind, args) == [kind |-> kind, name |-> q.name, args |-> args]
Lasting == <<"durable">>

\* Conversions of Go: int32 wraps around.
int32(n) == ((n + Half) % (2 * Half)) - Half
Milliseconds(d) == d \div TicksPerMilli

\* Mutated form of validate: the delay may be of any length.
validateUnbounded(q) == q.type = "quorum" => q.life = "durable"

\* QueueConfig.validate.  Its checks of single fields (the name, MaxRedelivery,
\* the exchange of a delay queue) are errors that DeclareQueues may return anyway.
validate(q) ==
    /\ q.type = "quorum" => q.life = "durable"
    /\ Milliseconds(q.delay) < Half

\* What the broker stores with a queue: of the queue itself, and of its delay
\* queue, whose expired messages take the route.
Timeout(q) == IF q.timeout = 0 THEN <<>> ELSE <<Milliseconds(q.timeout)>>
QueueArgs(q) == <<q.life, q.type, q.dlq, Timeout(q)>>
DelayArgs(q) == <<"durable", int32(Milliseconds(q.delay)), q.type, q.route>>

DeadLetters(q) ==
    IF ~q.dlq THEN <<>>
    ELSE << Declaration(q, "DLX", Lasting), Declaration(q, "DLQ", Lasting),
            Declaration(q, "DLQ binding", <<>>) >>
Delay(q) ==
    IF q.delay = 0 THEN <<>>
    ELSE << Declaration(q, "exchange", <<q.route>>), Declaration(q, "delay", DelayArgs(q)) >>
Itself(q) == << Declaration(q, "queue", QueueArgs(q)) >>
Binding(q) == IF q.delay = 0 THEN <<>> ELSE << Declaration(q, "binding", <<q.route>>) >>

\* Mutated form of Declarations: the queue comes before what it refers to.
DeclarationsQueueFirst(q) == Itself(q) \o Binding(q) \o DeadLetters(q) \o Delay(q)

\* What one queue needs, in the order of the code.
Declarations(q) == DeadLetters(q) \o Delay(q) \o Itself(q) \o Binding(q)

Topology(q) == ToSet(Declarations(q))

Queue(n) == {d \in broker : d.kind = "queue" /\ d.name = n}

\* The broker compares the arguments when a queue is declared again.  Another
\* exchange, or a binding to it, contradicts nothing.
Compatible(S) ==
    \A d, e \in S : d.kind \in {"queue", "delay"} /\ d.kind = e.kind /\ d.name = e.name => d = e

\* The durable queues an earlier process declared may be there.
Init ==
    /\ \E C \in SUBSET {q \in Configs : q.life = "durable" /\ validate(q)} :
          /\ broker = UNION {Topology(q) : q \in C}
          /\ Compatible(broker)
    /\ link = "up" /\ holder = "none" /\ batch = <<>> /\ todo = <<>> /\ step = 1
    /\ left = {} /\ declaredQueues = <<>> /\ queues = {} /\ consuming = {} /\ cancelled = {}
    /\ refused = FALSE
    /\ deletions = 0 /\ calls = 0 /\ faults = 0

Fault == faults < MaxFaults /\ faults' = faults + 1

-----------------------------------------------------------------------------
(* The broker.                                                             *)

\* Queues go, with their bindings.
Without(N) == {d \in broker : ~(d.kind \in {"queue", "binding"} /\ d.name \in N)}

Living(life) == {n \in Names : \E d \in Queue(n) : d.args[1] = life}

\* The channel, and with it or soon after it the connection, is gone.
GoDown(N) ==
    /\ link' = "down"
    /\ consuming' = {}
    /\ broker' = Without(N \cup Living("exclusive") \cup (Living("autodelete") \cap consuming))

ConnectionLost ==
    /\ link = "up" /\ Fault
    /\ GoDown({})
    /\ UNCHANGED <<sdk, cancelled, refused, deletions, calls>>

BrokerRestarts ==
    /\ Fault
    /\ GoDown(Living("transient"))
    /\ UNCHANGED <<sdk, cancelled, refused, deletions, calls>>

\* An operator, a policy or an expiry deletes a queue or its delay queue; the
\* broker cancels the consumers of a deleted queue.
QueueDeleted(n) ==
    /\ deletions < MaxDeletions
    /\ \/ /\ Queue(n) # {}
          /\ broker' = Without({n}) /\ consuming' = consuming \ {n}
       \/ /\ \E d \in broker : d.kind = "delay" /\ d.name = n
          /\ broker' = {d \in broker : ~(d.kind = "delay" /\ d.name = n)}
          /\ UNCHANGED consuming
    /\ cancelled' = cancelled \cup {n}
    /\ deletions' = deletions + 1
    /\ UNCHANGED <<link, sdk, refused, calls, faults>>

-----------------------------------------------------------------------------
(* declareQueuesLocked, called by DeclareQueues and by reconnect.          *)

Called(b) ==
    /\ holder = "none" /\ calls < MaxCalls
    /\ holder' = "declare" /\ batch' = b /\ todo' = b /\ step' = 1
    /\ calls' = calls + 1
    /\ UNCHANGED <<broker, link, left, queues, consuming, cancelled, refused, deletions, faults>>

\* Mutated form of DeclareQueues: the queues are stored at once.
DeclareQueuesStores(b) == Called(b) /\ declaredQueues' = declaredQueues \o b

DeclareQueues(b) == Called(b) /\ UNCHANGED declaredQueues

Declaring ==
    /\ holder \in {"declare", "replay"} /\ todo # <<>> /\ link = "up"
    /\ validate(Head(todo))
Pending == Declarations(Head(todo))[step]
Accepted == Compatible(broker \cup {Pending})

Declare ==
    /\ Declaring /\ Accepted
    /\ broker' = broker \cup {Pending}
    /\ IF step < Len(Declarations(Head(todo)))
          THEN step' = step + 1 /\ UNCHANGED todo
          ELSE step' = 1 /\ todo' = Tail(todo)
    /\ UNCHANGED <<link, holder, batch, left, declaredQueues, queues, consuming, cancelled, refused, bounds>>

\* The broker refuses, because what exists is different or for reasons of its
\* own, and closes the channel.
DeclarationRefused ==
    /\ Declaring
    /\ \/ ~Accepted /\ refused' = (refused \/ holder = "replay") /\ UNCHANGED faults
       \/ Accepted /\ Fault /\ UNCHANGED refused
    /\ GoDown({})
    /\ UNCHANGED <<sdk, cancelled, deletions, calls>>

\* The call returns an error: of the channel or, before a queue, of the context
\* or of validate.
Abandoned ==
    /\ holder = "declare" /\ todo # <<>>
    /\ link = "down" \/ step = 1
    /\ holder' = "none" /\ batch' = <<>> /\ todo' = <<>> /\ step' = 1
    /\ UNCHANGED <<broker, link, left, queues, consuming, cancelled, refused, bounds>>

\* Mutated form of DeclareFails: the queues are stored all the same.
DeclareFailsStored == Abandoned /\ declaredQueues' = declaredQueues \o batch

\* Nothing is stored; the broker keeps what was declared.
DeclareFails == Abandoned /\ UNCHANGED declaredQueues

\* The call returns nil and stores its queues for replay.
DeclareSucceeds ==
    /\ holder = "declare" /\ todo = <<>>
    /\ declaredQueues' = declaredQueues \o batch
    /\ holder' = "none" /\ batch' = <<>>
    /\ UNCHANGED <<broker, link, todo, step, left, queues, consuming, cancelled, refused, bounds>>

-----------------------------------------------------------------------------
(* Start, and the part of reconnect that replays and consumes.             *)

\* Start of one queue: it is stored, then consumed.
Start(n) ==
    /\ holder = "none" /\ n \notin queues
    /\ queues' = queues \cup {n}
    /\ \/ /\ link = "up" /\ Queue(n) # {}
          /\ consuming' = consuming \cup {n}
          /\ UNCHANGED <<broker, link>>
       \/ link = "up" /\ Queue(n) = {} /\ GoDown({})
       \/ link = "down" /\ UNCHANGED <<broker, link, consuming>>
    /\ UNCHANGED <<holder, batch, todo, step, left, declaredQueues, cancelled, refused, bounds>>

\* reconnect has a new connection.
RedialBy(H) ==
    /\ link = "down" /\ holder \in H
    /\ link' = "up" /\ holder' = "replay" /\ cancelled' = {}
    /\ todo' = declaredQueues /\ step' = 1
    /\ UNCHANGED <<broker, batch, left, declaredQueues, queues, consuming, refused, bounds>>

\* Mutated form of Redial: no second attempt.
RedialOnce == RedialBy({"none"})

\* The first attempt, or another one after a failure.
Redial == RedialBy({"none", "replay", "consume"})

ReplayDone ==
    /\ holder = "replay" /\ todo = <<>> /\ link = "up"
    /\ holder' = "consume" /\ left' = queues
    /\ UNCHANGED <<broker, link, batch, todo, step, declaredQueues, queues, consuming, cancelled, refused, bounds>>

\* Consume of a queue that does not exist closes the channel.
Consume(n) ==
    /\ holder = "consume" /\ link = "up" /\ n \in left
    /\ IF Queue(n) # {}
          THEN /\ left' = left \ {n} /\ consuming' = consuming \cup {n}
               /\ UNCHANGED <<broker, link>>
          ELSE GoDown({}) /\ UNCHANGED left
    /\ UNCHANGED <<holder, batch, todo, step, declaredQueues, queues, cancelled, refused, bounds>>

InService ==
    /\ holder = "consume" /\ link = "up"
    /\ holder' = "none"
    /\ UNCHANGED <<broker, link, batch, todo, step, left, declaredQueues, queues, consuming, cancelled, refused, bounds>>

\* Mutated form of ReconnectDone: the consumers are left out.
ReconnectDoneEarly == InService

ReconnectDone == left = {} /\ InService

-----------------------------------------------------------------------------

DeclareStep == Declare \/ DeclarationRefused \/ DeclareFails \/ DeclareSucceeds
ReconnectStep == Redial \/ ReplayDone \/ ReconnectDone \/ \E n \in Names : Consume(n)

Next ==
    \/ \E b \in Batches : DeclareQueues(b)
    \/ \E n \in Names : Start(n) \/ QueueDeleted(n)
    \/ DeclareStep \/ ReconnectStep
    \/ ConnectionLost \/ BrokerRestarts

Spec == Init /\ [][Next]_vars

\* The broker answers, and a connection that is down is dialled again.
FairSpec == Spec /\ WF_vars(DeclareStep) /\ WF_vars(ReconnectStep)

-----------------------------------------------------------------------------
(* Properties                                                              *)

Declared == ToSet(declaredQueues)

\* The type invariant; the next declaration exists.
TypeOK ==
    /\ broker \subseteq UNION {Topology(q) : q \in Configs} /\ Compatible(broker)
    /\ link \in {"up", "down"}
    /\ holder \in {"none", "declare", "replay", "consume"}
    /\ {batch, todo, declaredQueues} \subseteq Seq(Configs)
    /\ step \in 1..(IF todo = <<>> THEN 1 ELSE Len(Declarations(Head(todo))))
    /\ queues \subseteq Names /\ left \subseteq queues /\ cancelled \subseteq Names
    /\ consuming \subseteq {n \in queues : link = "up" /\ Queue(n) # {}}
    /\ refused \in BOOLEAN
    /\ deletions \in 0..MaxDeletions /\ calls \in 0..MaxCalls /\ faults \in 0..MaxFaults

\* README: "With EnableDLQ, RabbitMQ routes that final rejection to <queue>.DLQ".
\* A queue with a dead-letter exchange never exists without it, its DLQ and the
\* binding: neither while it is declared, nor after a call or a replay that
\* failed half way, nor after a restart.
DeadLetterReady ==
    \A q \in Configs : ToSet(Itself(q)) \subseteq broker => ToSet(DeadLetters(q)) \subseteq broker

\* What DeclareQueues has accepted stays: the durable topology of every call
\* that returned nil is complete at every moment, while replays of a failed
\* connection redeclare it, unless somebody else deletes queues.
Kept == deletions = 0 => \A q \in Declared : q.life = "durable" => Topology(q) \subseteq broker

\* A connection in service has the whole topology, transient and exclusive
\* queues included, and a consumer for every started queue; what is missing was
\* deleted by somebody else since it was made.
Complete ==
    link = "up" /\ holder = "none" =>
        /\ \A q \in Declared : q.name \in cancelled \/ Topology(q) \subseteq broker
        /\ queues \subseteq consuming \cup cancelled

\* A replay never meets a topology that contradicts it: because a call that fails
\* stores nothing, the stored configurations agree with each other and with the
\* broker, unless somebody else deletes queues.
ReplayAccepted == refused => deletions > 0

\* The delays that accepted queues have on the broker.
TTL(q) == {d.args[2] : d \in {e \in broker : e.kind = "delay" /\ e.name = q.name}}

\* A delay of at least a millisecond is on the broker as it was configured, less
\* than a millisecond short of it and never 0 or negative, whoever declared it
\* first: a different one is refused, and the conversion wraps for no delay that
\* validate lets pass.
DelayKept ==
    deletions = 0 =>
        \A q \in Declared : q.delay >= TicksPerMilli =>
            \A t \in TTL(q) :
                /\ t \in 1..(Half - 1)
                /\ t * TicksPerMilli \in (q.delay - TicksPerMilli + 1)..q.delay

\* The message of validate: "DLX+TTL must be between 1 millisecond and 2147483647
\* milliseconds".  The delay queue of an accepted call waits that long.
ShortestDelay == \A q \in Declared : q.delay > 0 => TTL(q) \subseteq 1..(Half - 1)

\* CHANGELOG: "Automatic reconnect with topology replay (queues, QoS) and
\* consumer restart".  Once failures cease the SDK is in service, unless somebody
\* deleted a queue (a different one declared in its place contradicts the replay)
\* or Start was given one that DeclareQueues has not made.
Restores ==
    []<>(\/ link = "up" /\ holder = "none"
         \/ deletions > 0
         \/ \E n \in queues : \A q \in Declared : q.name # n)

=============================================================================
