------------------------------ MODULE Publish -------------------------------
(***************************************************************************)
(* The publish path (BatchPublish, Publish, PublishWithDelayDLXTTL,        *)
(* publishAMQP) of concurrent publishers, over several connections: a      *)
(* publisher keeps the pool it read while reconnect or Shutdown retires it *)
(* and a new connection comes up.                                          *)
(*                                                                         *)
(* A pool is what Lender says (PublisherPool shows how); here it keeps its *)
(* mutex, because get opens a channel and put closes one with p.mu held,   *)
(* and neither call takes notice of a context.  publishAMQP writes in a    *)
(* goroutine of its own; a context that is done while the write is under   *)
(* way closes the socket the pool was built with, which every other user   *)
(* of the connection shares.                                               *)
(*                                                                         *)
(*   none    not dialled                  up      in service               *)
(*   silent  the peer does not answer     cut     the socket is closed     *)
(*   down    the client library has noticed: channels are closed and       *)
(*           pending confirmations are resolved as not acknowledged        *)
(*                                                                         *)
(* Every publisher sends one batch; Publish is a batch of one.  The number *)
(* of a connection that never had a pool is used again.                    *)
(***************************************************************************)
EXTENDS Naturals, FiniteSets

CONSTANTS
    Publishers,
    Cancellable,    \* those whose context can be done: context.Background() cannot
    Channels,       \* the channels of a pool, as many as publisherMaxPoolSize
    MaxConns,       \* bound on the connections of the SDK
    BatchSize,      \* how many messages each publisher's batch has
    NoChannel,
    Nobody          \* a mutex is unlocked

Conns == 1..MaxConns
Batch(p) == 1..BatchSize[p]

ASSUME PublishAssumption ==
    /\ IsFiniteSet(Publishers) /\ IsFiniteSet(Channels) /\ NoChannel \notin Channels
    /\ Cancellable \subseteq Publishers /\ Nobody \notin Publishers
    /\ MaxConns \in Nat \ {0} /\ BatchSize \in [Publishers -> Nat \ {0}]

VARIABLES
    link,       \* the state of each connection
    pools,      \* the state of each connection's pool: "none" or as in Lender
    current,    \* the connection of s.publisherPool, 0 for nil
    stopped,    \* Shutdown has begun
    socket,     \* the connection that connectionState.conn is the socket of
    rawConn,    \* the connection that each pool's rawConn is the socket of
    mu,         \* the publisher that holds each pool's mutex, or Nobody
    pc,         \* where each publisher is
    done,       \* the context of its call is done
    index,      \* which message of the batch it is at
    using,      \* the connection of the pool it read
    chan,       \* the channel it got from that pool
    verdict,    \* the error publishAMQP is about to return: "nil" or "error"
    result,     \* what the batch returned, "none" before
    writing,    \* the publish goroutines whose write is not over
    published,  \* the buffered Go channel: "empty", "sent" or "failed"
    frame,      \* what has become of each message
    via         \* the connection its answer is due on

dialled == <<current, stopped, socket, rawConn>>
network == <<link, pools, mu, dialled>>
caller == <<pc, done, index, using, chan, verdict, result>>
wire == <<writing, published, frame, via>>
vars == <<network, caller, wire>>

Latest == Cardinality({g \in Conns : link[g] # "none"})
Free(g) == {c \in Channels : \A p \in Publishers : using[p] = g => chan[p] # c}
Alive == {"up", "silent"}

Init ==
    /\ link = [g \in Conns |-> IF g = 1 THEN "up" ELSE "none"]
    /\ pools = [g \in Conns |-> IF g = 1 THEN "open" ELSE "none"]
    /\ current = 1 /\ stopped = FALSE /\ socket = 1
    /\ rawConn = [g \in Conns |-> IF g = 1 THEN 1 ELSE 0]
    /\ mu = [g \in Conns |-> Nobody]
    /\ pc = [p \in Publishers |-> "idle"]
    /\ done = [p \in Publishers |-> FALSE]
    /\ index = [p \in Publishers |-> 1]
    /\ using = [p \in Publishers |-> 0]
    /\ chan = [p \in Publishers |-> NoChannel]
    /\ verdict = [p \in Publishers |-> "nil"]
    /\ result = [p \in Publishers |-> "none"]
    /\ writing = {}
    /\ published = [p \in Publishers |-> "empty"]
    /\ frame = [p \in Publishers |-> [i \in Batch(p) |-> "unsent"]]
    /\ via = [p \in Publishers |-> [i \in Batch(p) |-> 0]]

Goto(p, l) == pc' = [pc EXCEPT ![p] = l]
Decide(p, v) == verdict' = [verdict EXCEPT ![p] = v]

-----------------------------------------------------------------------------
(* The caller.                                                             *)

Call(p) ==
    /\ pc[p] = "idle" /\ result[p] = "none"
    /\ Goto(p, "begin")
    /\ UNCHANGED <<network, done, index, using, chan, verdict, result, wire>>

\* The caller cancels, or its deadline passes.
Cancel(p) ==
    /\ p \in Cancellable /\ pc[p] # "idle" /\ ~done[p]
    /\ done' = [done EXCEPT ![p] = TRUE]
    /\ UNCHANGED <<network, pc, index, using, chan, verdict, result, wire>>

\* Publish validates the context and the message and may refuse either;
\* publishAMQP returns an error when there is no pool, and otherwise reads
\* s.publisherPool under publisherMu, which Shutdown holds while it closes the
\* pool, and lets go of the lock.
Begin(p) ==
    /\ pc[p] = "begin"
    /\ current # 0 => pools[current] = "open"
    /\ \/ /\ ~done[p] /\ current # 0
          /\ using' = [using EXCEPT ![p] = current]
          /\ Goto(p, "get") /\ UNCHANGED verdict
       \/ Decide(p, "error") /\ Goto(p, "return") /\ UNCHANGED using
    /\ UNCHANGED <<network, done, index, chan, result, wire>>

\* Free channels are alike, so it does not matter which one.
TakeFree(p) ==
    /\ Free(using[p]) # {}
    /\ chan' = [chan EXCEPT ![p] = CHOOSE c \in Free(using[p]) : TRUE]

\* get returns a channel from the buffer, before or in its select.
GetIdle(p) ==
    /\ pc[p] \in {"get", "wait"}
    /\ TakeFree(p)
    /\ Goto(p, "check")
    /\ UNCHANGED <<network, done, index, using, verdict, result, wire>>

\* Mutated form of Get: the pool's closed flag is not consulted.
GetAnyway(p) == GetIdle(p)

\* The channel is not closed; the pool may not be the current one any more.
Get(p) ==
    /\ GetIdle(p)
    /\ pools[using[p]] \in {"open", "closing"} /\ link[using[p]] # "down"

\* get at the top of its loop or in its select: the pool is closed, or poolCtx
\* is done.
GetFails(p) ==
    /\ pc[p] \in {"get", "wait"}
    /\ Decide(p, "error") /\ Goto(p, "return")
    /\ UNCHANGED <<network, done, index, using, chan, result, wire>>

\* get finds the buffer empty and the count below the limit.
Grow(p) ==
    /\ pc[p] = "get"
    /\ Goto(p, "lock")
    /\ UNCHANGED <<network, done, index, using, chan, verdict, result, wire>>

Lock(g, p) == mu[g] = Nobody /\ mu' = [mu EXCEPT ![g] = p]
Unlock(g) == mu' = [mu EXCEPT ![g] = Nobody]

\* p.mu.Lock(), which waits for whoever opens or closes a channel: the pool is
\* closed, there is room and conn.Channel() is called, or it is at its limit.
LockPool(p) ==
    /\ pc[p] = "lock" /\ mu[using[p]] = Nobody
    /\ \/ /\ pools[using[p]] # "open"
          /\ Decide(p, "error") /\ Goto(p, "return")
          /\ UNCHANGED <<mu, chan>>
       \/ /\ pools[using[p]] = "open"
          /\ Lock(using[p], p)
          /\ TakeFree(p)
          /\ Goto(p, "opening")
          /\ UNCHANGED verdict
       \/ /\ pools[using[p]] = "open"
          /\ Goto(p, "wait")
          /\ UNCHANGED <<mu, chan, verdict>>
    /\ UNCHANGED <<link, pools, dialled, done, index, using, result, wire>>

\* conn.Channel() and Confirm answer, or fail; a silent peer leaves them waiting.
Opened(p) ==
    /\ pc[p] = "opening" /\ link[using[p]] # "silent"
    /\ \/ /\ link[using[p]] = "up"
          /\ Goto(p, "check")
          /\ UNCHANGED <<chan, verdict>>
       \/ /\ chan' = [chan EXCEPT ![p] = NoChannel]
          /\ Decide(p, "error") /\ Goto(p, "return")
    /\ Unlock(using[p])
    /\ UNCHANGED <<link, pools, dialled, done, index, using, result, wire>>

\* The context is checked again, then the goroutine starts.
Spawn(p) ==
    /\ pc[p] = "check"
    /\ \/ /\ done[p]
          /\ Decide(p, "error") /\ Goto(p, "return") /\ UNCHANGED <<writing, published>>
       \/ /\ ~done[p]
          /\ writing' = writing \cup {[by |-> p, index |-> index[p], conn |-> using[p], chan |-> chan[p]]}
          /\ published' = [published EXCEPT ![p] = "empty"]
          /\ Goto(p, "select") /\ UNCHANGED verdict
    /\ UNCHANGED <<network, done, index, using, chan, result, frame, via>>

\* case result = <-published.
Result(p) ==
    /\ pc[p] = "select" /\ published[p] # "empty"
    /\ published' = [published EXCEPT ![p] = "empty"]
    /\ IF published[p] = "sent" THEN Goto(p, "confirm") /\ UNCHANGED verdict
                                ELSE Goto(p, "return") /\ Decide(p, "error")
    /\ UNCHANGED <<network, done, index, using, chan, result, writing, frame, via>>

Cut(g) == IF g # 0 /\ link[g] \in Alive THEN link' = [link EXCEPT ![g] = "cut"] ELSE UNCHANGED link

\* The context ends the select: the socket of connection g is closed; l comes next.
Interrupted(p, g, l) ==
    /\ pc[p] = "select" /\ done[p]
    /\ Cut(g)
    /\ Decide(p, "error") /\ Goto(p, l)
    /\ UNCHANGED <<pools, mu, dialled, done, index, using, chan, result, wire>>

\* Mutated form of Interrupt: the write is not waited for.
InterruptOnly(p) == Interrupted(p, rawConn[using[p]], "return")

\* Mutated form of Interrupt: the socket is left alone.
WaitOnly(p) == Interrupted(p, 0, "settle")

\* case <-ctx.Done(): pool.interrupt closes rawConn.
Interrupt(p) == Interrupted(p, rawConn[using[p]], "settle")

\* result = <-published after the interrupt.
Settle(p) ==
    /\ pc[p] = "settle" /\ published[p] # "empty"
    /\ published' = [published EXCEPT ![p] = "empty"]
    /\ Goto(p, "return")
    /\ UNCHANGED <<network, done, index, using, chan, verdict, result, writing, frame, via>>

\* The DeferredConfirmation is resolved: by the broker, or by the loss of the
\* connection, which counts as a negative acknowledgement.
Acked(p) == pc[p] = "confirm" /\ frame[p][index[p]] = "acked"
Nacked(p) ==
    /\ pc[p] = "confirm"
    /\ \/ frame[p][index[p]] = "nacked"
       \/ frame[p][index[p]] = "wire" /\ link[via[p][index[p]]] = "down"

\* WaitContext ends with verdict v.
Confirmed(p, v) ==
    /\ pc[p] = "confirm"
    /\ Decide(p, v) /\ Goto(p, "return")
    /\ UNCHANGED <<network, done, index, using, chan, result, wire>>

\* Mutated form of Confirm: WaitContext's first result is ignored.
ConfirmIgnored(p) == (Acked(p) \/ Nacked(p)) /\ Confirmed(p, "nil")

\* Mutated form of Confirm: it waits for the broker's answer only.
ConfirmUnresolved(p) ==
    \/ Acked(p) /\ Confirmed(p, "nil")
    \/ frame[p][index[p]] = "nacked" /\ Confirmed(p, "error")
    \/ done[p] /\ Confirmed(p, "error")

\* Mutated form of Confirm: Wait instead of WaitContext.
ConfirmWaits(p) ==
    \/ Acked(p) /\ Confirmed(p, "nil")
    \/ Nacked(p) /\ Confirmed(p, "error")

\* confirmation.WaitContext.
Confirm(p) ==
    \/ Acked(p) /\ Confirmed(p, "nil")
    \/ Nacked(p) /\ Confirmed(p, "error")
    \/ done[p] /\ Confirmed(p, "error")

\* publishAMQP and Publish return; BatchPublish goes on to its next message, or
\* returns at its end or at the first error.
Leave(p) ==
    /\ chan' = [chan EXCEPT ![p] = NoChannel]
    /\ using' = [using EXCEPT ![p] = 0]
    /\ IF verdict[p] = "nil" /\ index[p] < BatchSize[p]
       THEN index' = [index EXCEPT ![p] = @ + 1] /\ Goto(p, "begin") /\ UNCHANGED result
       ELSE result' = [result EXCEPT ![p] = verdict[p]] /\ Goto(p, "idle") /\ UNCHANGED index
    /\ done' = [done EXCEPT ![p] = @ /\ pc'[p] # "idle"]
    /\ Decide(p, "nil")
    /\ UNCHANGED <<link, pools, dialled, wire>>

\* There is no channel to put; or the deferred pool.put finds it closed, or sends
\* it to the buffer of an open pool.
Return(p) ==
    /\ pc[p] = "return"
    /\ chan[p] # NoChannel =>
          mu[using[p]] = Nobody /\ (pools[using[p]] = "open" \/ link[using[p]] = "down")
    /\ Leave(p)
    /\ UNCHANGED mu

\* pool.put: the pool is closed or its buffer full, and the channel, which is
\* open, is closed with the lock held.
Discard(p) ==
    /\ pc[p] = "return" /\ chan[p] # NoChannel /\ link[using[p]] # "down"
    /\ Lock(using[p], p)
    /\ Goto(p, "discard")
    /\ UNCHANGED <<link, pools, dialled, done, index, using, chan, verdict, result, wire>>

\* ch.Close() returns; a silent peer leaves it waiting.
Discarded(p) ==
    /\ pc[p] = "discard" /\ link[using[p]] # "silent"
    /\ Unlock(using[p])
    /\ Leave(p)

-----------------------------------------------------------------------------
(* The publish goroutine: it takes no notice of the context.               *)

\* The frame is in the socket's buffer.
WriteSucceeds(w) ==
    /\ w \in writing /\ link[w.conn] \in Alive
    /\ writing' = writing \ {w}
    /\ published' = [published EXCEPT ![w.by] = "sent"]
    /\ frame' = [frame EXCEPT ![w.by][w.index] = "wire"]
    /\ via' = [via EXCEPT ![w.by][w.index] = w.conn]
    /\ UNCHANGED <<network, caller>>

WriteFails(w) ==
    /\ w \in writing /\ link[w.conn] \in {"cut", "down"}
    /\ writing' = writing \ {w}
    /\ published' = [published EXCEPT ![w.by] = "failed"]
    /\ UNCHANGED <<network, caller, frame, via>>

-----------------------------------------------------------------------------
\* The broker stores or refuses what it has received and says so.  Its answers
\* need the connection: what it stores without one remains unknown to the SDK.
BrokerAnswers(p, i) ==
    /\ frame[p][i] = "wire" /\ link[via[p][i]] = "up"
    /\ \E f \in {"acked", "nacked"} : frame' = [frame EXCEPT ![p][i] = f]
    /\ via' = [via EXCEPT ![p][i] = 0]
    /\ UNCHANGED <<network, caller, writing, published>>

-----------------------------------------------------------------------------
(* Connections come and go.                                                *)

PeerFallsSilent(g) ==
    /\ link[g] = "up"
    /\ link' = [link EXCEPT ![g] = "silent"]
    /\ UNCHANGED <<pools, mu, dialled, caller, wire>>

\* The network breaks, or the heartbeat of a silent peer is missed.
NetworkBreaks(g) ==
    /\ link[g] \in Alive
    /\ link' = [link EXCEPT ![g] = "cut"]
    /\ UNCHANGED <<pools, mu, dialled, caller, wire>>

Noticed(g) ==
    /\ link[g] = "cut"
    /\ link' = [link EXCEPT ![g] = "down"]
    /\ UNCHANGED <<pools, mu, dialled, caller, wire>>

\* s.cancel and connectionState.interrupt.
Stop ==
    /\ ~stopped /\ stopped' = TRUE
    /\ Cut(socket)
    /\ UNCHANGED <<pools, mu, current, socket, rawConn, caller, wire>>

\* s.publisherPool = nil: by reconnect, after a failure of the connection or only
\* of the consume channel, before it closes the pool; by Shutdown after that.
RetirePool ==
    /\ current # 0
    /\ \/ pools[current] = "open" /\ Latest < MaxConns
       \/ pools[current] = "closed"
    /\ current' = 0
    /\ UNCHANGED <<link, pools, mu, stopped, socket, rawConn, caller, wire>>

\* pool.close takes the lock and closes the Go channel.
ClosePool(g) ==
    /\ pools[g] = "open" /\ mu[g] = Nobody
    /\ g # current \/ stopped
    /\ pools' = [pools EXCEPT ![g] = "closing"]
    /\ UNCHANGED <<link, mu, dialled, caller, wire>>

PoolDrained(g) ==
    /\ pools[g] = "closing"
    /\ pools' = [pools EXCEPT ![g] = "closed"]
    /\ UNCHANGED <<link, mu, dialled, caller, wire>>

\* s.conn.Close, which blocks on a silent peer.
CloseConnection(g) ==
    /\ pools[g] = "closed" /\ link[g] \in {"up", "cut"}
    /\ link' = [link EXCEPT ![g] = "down"]
    /\ UNCHANGED <<pools, mu, dialled, caller, wire>>

\* reconnect dials: a connection comes up.
Dialling ==
    /\ ~stopped /\ current = 0 /\ link[Latest] = "down" /\ pools[Latest] = "closed"
    /\ Latest < MaxConns
    /\ link' = [link EXCEPT ![Latest + 1] = "up"]
    /\ UNCHANGED <<pools, mu, current, stopped, rawConn, caller, wire>>

\* Mutated form of Dial: only the first socket is recorded.
DialUnrecorded == Dialling /\ UNCHANGED socket

\* The Dial hook of NewSDK records the new socket: connectionState.set.
Dial == Dialling /\ socket' = Latest + 1

\* reconnect has replayed the topology: newPublisherChannelPool is given the
\* socket connectionState has by then.
NewPool ==
    /\ current = 0 /\ pools[Latest] = "none" /\ link[Latest] = "up"
    /\ pools' = [pools EXCEPT ![Latest] = "open"]
    /\ rawConn' = [rawConn EXCEPT ![Latest] = socket]
    /\ current' = Latest
    /\ UNCHANGED <<link, mu, stopped, socket, caller, wire>>

\* The handshake, the replay or the pool fails, or Shutdown has begun: the new
\* connection is closed.
DialFails ==
    /\ pools[Latest] = "none" /\ link[Latest] # "silent"
    /\ link' = [link EXCEPT ![Latest] = "none"]
    /\ UNCHANGED <<pools, mu, dialled, caller, wire>>

-----------------------------------------------------------------------------

\* The steps of publishAMQP that need not wait for another call to end; a get
\* that waits for a channel ends with poolCtx.
Proceed(p) ==
    \/ Begin(p) \/ GetFails(p) \/ LockPool(p) \/ Opened(p) \/ Spawn(p) \/ Result(p)
    \/ Interrupt(p) \/ Settle(p) \/ Confirm(p) \/ Return(p) \/ Discard(p) \/ Discarded(p)

Write == \E w \in writing : WriteSucceeds(w) \/ WriteFails(w)

Broker == \E p \in Publishers : \E i \in Batch(p) : BrokerAnswers(p, i)

Environment(g) ==
    \/ PeerFallsSilent(g) \/ NetworkBreaks(g) \/ Noticed(g)
    \/ ClosePool(g) \/ PoolDrained(g) \/ CloseConnection(g)

Lifecycle == Stop \/ RetirePool \/ Dial \/ NewPool \/ DialFails

Next ==
    \/ \E p \in Publishers : Call(p) \/ Cancel(p) \/ Get(p) \/ Grow(p) \/ Proceed(p)
    \/ Write \/ Broker
    \/ \E g \in Conns : Environment(g)
    \/ Lifecycle

Spec == Init /\ [][Next]_vars

(***************************************************************************)
(* Fairness.  Goroutines that can run do, poolCtx expires, and the client  *)
(* library notices a closed socket.  A write ends on a socket that is      *)
(* closed; on a silent peer it may block for ever, as may conn.Channel()   *)
(* and ch.Close().  Shutdown, which closes the pool with publisherMu held, *)
(* gets to the end of it: it has closed the socket.                        *)
(***************************************************************************)
FairSpec ==
    /\ Spec
    /\ \A p \in Publishers : WF_vars(Proceed(p))
    /\ WF_vars(\E w \in writing : WriteFails(w))
    /\ WF_vars(\E g \in Conns : Noticed(g))
    /\ WF_vars(\E g \in Conns : g = current /\ PoolDrained(g))
    /\ WF_vars(current # 0 /\ pools[current] = "closed" /\ RetirePool)

\* The heartbeat of the connection detects a silent peer.
Heartbeats == WF_vars(\E g \in Conns : link[g] = "silent" /\ NetworkBreaks(g))

\* The broker answers, and the heartbeat detects a peer that does not.
Served == WF_vars(Write) /\ WF_vars(Broker) /\ Heartbeats

-----------------------------------------------------------------------------
(* Properties                                                              *)

Labels == {"idle", "begin", "get", "lock", "opening", "wait", "check", "select", "settle", "confirm",
           "return", "discard"}

\* The type invariant; a result is set only when the call has returned.
TypeOK ==
    /\ link \in [Conns -> {"none", "up", "silent", "cut", "down"}]
    /\ pools \in [Conns -> {"none", "open", "closing", "closed"}]
    /\ current \in 0..MaxConns /\ stopped \in BOOLEAN
    /\ socket \in Conns /\ rawConn \in [Conns -> 0..MaxConns]
    /\ mu \in [Conns -> Publishers \cup {Nobody}]
    /\ pc \in [Publishers -> Labels]
    /\ done \in [Publishers -> BOOLEAN]
    /\ index \in [Publishers -> Nat] /\ using \in [Publishers -> 0..MaxConns]
    /\ chan \in [Publishers -> Channels \cup {NoChannel}]
    /\ verdict \in [Publishers -> {"nil", "error"}]
    /\ result \in [Publishers -> {"none", "nil", "error"}]
    /\ writing \subseteq [by : Publishers, index : Nat, conn : Conns, chan : Channels]
    /\ published \in [Publishers -> {"empty", "sent", "failed"}]
    /\ \A p \in Publishers :
          /\ index[p] \in Batch(p)
          /\ frame[p] \in [Batch(p) -> {"unsent", "wire", "acked", "nacked"}]
          /\ via[p] \in [Batch(p) -> 0..MaxConns]

\* What the broker has acknowledged of a batch is known: all of it if BatchPublish
\* returned nil, otherwise a beginning and at most the one message whose outcome
\* is unknown, whatever connections it was spread over.
AckedInOrder ==
    \A p \in Publishers :
        /\ result[p] = "nil" => \A i \in Batch(p) : frame[p][i] = "acked"
        /\ \A i, j \in Batch(p) : i < j /\ frame[p][j] # "unsent" => frame[p][i] = "acked"

\* A publish goroutine never outlives the loan of its channel: no channel goes
\* back to the pool, and on to another publisher, while it is written to.
WritesOnLoan ==
    /\ \A w \in writing : using[w.by] = w.conn /\ chan[w.by] = w.chan
    /\ \A v, w \in writing : v.conn = w.conn /\ v.chan = w.chan => v = w

\* A cancelled publish breaks the connection its channel is on, so that its write
\* ends, and no other: the socket that the Dial hook recorded and reconnect handed
\* to the pool is that connection's, and a publisher left with the pool of a lost
\* connection cannot break the new one.
CancelBreaksOwn ==
    [][\A p \in Publishers :
          pc[p] = "select" /\ pc'[p] = "settle" =>
              /\ link'[using[p]] \notin Alive
              /\ \A g \in Conns \ {using[p]} : link'[g] = link[g]]_vars

\* The pool of connection g as its publishers use it.
Pool(g) == INSTANCE Lender WITH
    MaxPoolSize <- Cardinality(Channels),
    lent <- [p \in Publishers |-> IF using[p] = g /\ pc[p] # "opening" THEN chan[p] ELSE NoChannel],
    state <- IF pools[g] = "none" THEN "open" ELSE pools[g]

\* Across reconnects and Shutdown every pool is used as its specification
\* demands: nothing is borrowed from a closed one, not by a get that was opening a
\* channel either, and what was borrowed from a retired one goes back to that one.
PoolsUsedAsSpecified ==
    /\ \A g \in Conns : Pool(g)!Init
    /\ [][\A g \in Conns : [Pool(g)!Next]_(Pool(g)!vars)]_vars

\* A publish that is cancelled during its write returns, even if the peer is
\* silent and no heartbeat ever expires: closing the socket frees the write, and
\* with it whoever holds the lock that the deferred put needs.
InterruptReturns == \A p \in Cancellable : pc[p] = "settle" ~> pc[p] = "idle"

\* A publish whose context is done returns wherever it is, in get, in its write,
\* waiting for a confirmation that never comes or in put, if heartbeats are on:
\* the calls that ignore the context end with the connection.
CancelReturns == Heartbeats => \A p \in Cancellable : done[p] ~> pc[p] = "idle"

\* Every call returns if the broker answers and a silent peer is detected: a
\* connection that is retired or lost never leaves its publishers waiting.
PublishReturns == Served => \A p \in Publishers : pc[p] # "idle" ~> pc[p] = "idle"

=============================================================================
