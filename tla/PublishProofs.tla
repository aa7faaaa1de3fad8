--------------------------- MODULE PublishProofs ---------------------------
(***************************************************************************)
(* Proofs about Publish, for any publishers, channels, batches and number  *)
(* of connections.                                                         *)
(***************************************************************************)
EXTENDS Publish, FiniteSetTheorems, TLAPS

\* Every publisher has a record of each of its messages.
Shaped ==
    /\ frame = [p \in Publishers |-> frame[p]]
    /\ via = [p \in Publishers |-> via[p]]

\* What a publisher holds at each label: the pool from Begin on, a channel of it
\* from Get or conn.Channel() on, both until the deferred put.
Holdings(p) ==
    /\ pc[p] \in {"idle", "begin"} => using[p] = 0
    /\ pc[p] \in {"idle", "begin", "get", "lock", "wait"} => chan[p] = NoChannel
    /\ pc[p] \in {"get", "lock", "wait"} => using[p] # 0
    /\ pc[p] \in {"opening", "check", "select", "settle", "confirm", "discard"} => chan[p] # NoChannel
    /\ chan[p] # NoChannel => using[p] # 0

\* A publish goroutine belongs to the publisher that waits for it, for the
\* message, the connection and the channel that publisher is at.
Writer(w) ==
    /\ pc[w.by] \in {"select", "settle"} /\ published[w.by] = "empty"
    /\ w.index = index[w.by] /\ w.conn = using[w.by] /\ w.chan = chan[w.by]
    /\ frame[w.by][index[w.by]] = "unsent"

\* Nobody has sent the message the publisher is at.
Untouched(p) ==
    \/ pc[p] \in {"begin", "get", "lock", "opening", "wait", "check"}
    \/ pc[p] = "idle" /\ result[p] = "none"

\* How far a batch has come: what is before its index is acknowledged, what is
\* after it untouched, and no error is forgotten on the way to the caller.
Advance(p) ==
    /\ \A i \in Batch(p) : i < index[p] => frame[p][i] = "acked"
    /\ \A i \in Batch(p) : index[p] < i => frame[p][i] = "unsent"
    /\ Untouched(p) => frame[p][index[p]] = "unsent"
    /\ result[p] # "none" => pc[p] = "idle"
    /\ pc[p] = "settle" => verdict[p] # "nil"
    /\ pc[p] \in {"return", "discard"} /\ verdict[p] = "nil" => frame[p][index[p]] = "acked"
    /\ result[p] = "nil" => index[p] = BatchSize[p] /\ frame[p][index[p]] = "acked"

\* No two publishers have the same channel of the same pool.
Exclusive ==
    \A p, q \in Publishers :
        using[p] = using[q] /\ chan[p] = chan[q] /\ chan[p] # NoChannel => p = q

\* Connections are dialled in order.
Dialled(n) == n \in Conns /\ \A g \in Conns : link[g] # "none" <=> g <= n

\* A pool belongs to a connection that was dialled, the last one may still be
\* without, and a publisher knows only pools that exist.
PoolsExist ==
    /\ \E n \in Conns : Dialled(n)
    /\ pools[1] # "none"
    /\ \A g \in Conns : pools[g] # "none" => link[g] # "none"
    /\ current # 0 => pools[current] # "none"
    /\ \A p \in Publishers : using[p] # 0 => pools[using[p]] # "none"

\* The socket on record is that of the connection that has no pool yet, and every
\* pool has got the socket of its own connection.
Sockets ==
    /\ \A g \in Conns : link[g] # "none" /\ pools[g] = "none" => socket = g /\ Dialled(g)
    /\ \A g \in Conns : pools[g] # "none" => rawConn[g] = g

\* conn.Channel() in get and ch.Close() in put run with the pool's lock held, and
\* nobody closes a pool while a channel is opened in it.
Locked(p) ==
    /\ pc[p] \in {"opening", "discard"} => mu[using[p]] = p
    /\ pc[p] = "opening" => pools[using[p]] = "open"

\* The inductive invariant.
IInv ==
    /\ TypeOK /\ Shaped
    /\ \A p \in Publishers : Holdings(p) /\ Advance(p)
    /\ \A w \in writing : Writer(w)
    /\ Exclusive
    /\ PoolsExist /\ Sockets
    /\ \A p \in Publishers : Locked(p)

-----------------------------------------------------------------------------

\* The SDK has its first connection and no call has been made yet (NewSDK).
LEMMA InitInvariant == Init => IInv
<1> SUFFICES ASSUME Init PROVE IInv
  OBVIOUS
<1> USE PublishAssumption DEF Init, Conns, Batch
<1>1. stopped \in BOOLEAN /\ done \in [Publishers -> BOOLEAN]
  BY Zenon
<1>2. TypeOK /\ Shaped
  BY <1>1 DEF TypeOK, Shaped, Labels
<1>3. \A p \in Publishers : Holdings(p) /\ Advance(p)
  BY DEF Holdings, Advance, Untouched
<1>4. PoolsExist
  <2>1. Dialled(1) /\ 1 \in Conns
    BY DEF Dialled
  <2> QED
    BY <2>1 DEF PoolsExist
<1>5. Sockets /\ \A p \in Publishers : Locked(p)
  <2>1. \A g \in Conns : link[g] # "none" \/ pools[g] # "none" => g = 1
    OBVIOUS
  <2>2. pools[1] = "open" /\ rawConn[1] = 1
    OBVIOUS
  <2> QED
    BY <2>1, <2>2 DEF Sockets, Locked
<1> QED
  BY <1>2, <1>3, <1>4, <1>5 DEF IInv, Exclusive

\* The steps of one publisher.
PublisherStep(p) ==
    \/ Call(p) \/ Cancel(p) \/ Begin(p) \/ Get(p) \/ GetFails(p) \/ Grow(p) \/ LockPool(p) \/ Opened(p)
    \/ Spawn(p) \/ Result(p) \/ Interrupt(p) \/ Settle(p) \/ Confirm(p)
    \/ Return(p) \/ Discard(p) \/ Discarded(p)

\* Every step is one of these.
LEMMA StepCases ==
  ASSUME [Next]_vars
  PROVE  \/ \E p \in Publishers : PublisherStep(p)
         \/ \E w \in writing : WriteSucceeds(w) \/ WriteFails(w)
         \/ \E p \in Publishers : \E i \in Batch(p) : BrokerAnswers(p, i)
         \/ \E g \in Conns : Environment(g)
         \/ Stop \/ RetirePool \/ Dial \/ NewPool \/ DialFails
         \/ UNCHANGED vars
  BY DEF Next, PublisherStep, Proceed, Write, Broker, Lifecycle

\* The connections dialled so far are the first Latest ones.
LEMMA LatestIsLast ==
  ASSUME TypeOK, NEW n \in Conns, Dialled(n)
  PROVE  Latest = n
<1>1. {g \in Conns : link[g] # "none"} = 1..n
  BY PublishAssumption DEF Dialled, Conns
<1>2. Cardinality(1..n) = n
  BY FS_Interval, PublishAssumption DEF Conns
<1> QED
  BY <1>1, <1>2 DEF Latest

\* Closing a socket cuts a connection that was in service, and changes no other.
LEMMA CutLinks ==
  ASSUME TypeOK, NEW g, Cut(g), g \in Conns \cup {0}
  PROVE  /\ link' \in [Conns -> {"none", "up", "silent", "cut", "down"}]
         /\ \A h \in Conns : h # g => link'[h] = link[h]
         /\ \A h \in Conns : link'[h] = "none" <=> link[h] = "none"
<1>1. link \in [Conns -> {"none", "up", "silent", "cut", "down"}]
  BY DEF TypeOK
<1>2. CASE g # 0 /\ link[g] \in Alive
  <2>1. g \in Conns /\ link' = [link EXCEPT ![g] = "cut"] /\ link[g] # "none"
    BY <1>2 DEF Cut, Alive
  <2> QED
    BY <1>1, <2>1
<1>3. CASE ~(g # 0 /\ link[g] \in Alive)
  BY <1>1, <1>3 DEF Cut
<1> QED
  BY <1>2, <1>3

\* Only a publisher's own steps touch its holdings and its call.
CallerStep(p) ==
    /\ \A q \in Publishers \ {p} :
          /\ pc'[q] = pc[q] /\ done'[q] = done[q] /\ index'[q] = index[q] /\ using'[q] = using[q]
          /\ chan'[q] = chan[q] /\ verdict'[q] = verdict[q] /\ result'[q] = result[q]
          /\ published'[q] = published[q]
    /\ frame' = frame /\ via' = via 
    /\ pools' = pools /\ current' = current /\ stopped' = stopped /\ socket' = socket /\ rawConn' = rawConn

\* The types of the caller's state.
CallerType ==
    /\ pc' \in [Publishers -> Labels]
    /\ done' \in [Publishers -> BOOLEAN]
    /\ index' \in [Publishers -> Nat] /\ using' \in [Publishers -> 0..MaxConns]
    /\ chan' \in [Publishers -> Channels \cup {NoChannel}]
    /\ verdict' \in [Publishers -> {"nil", "error"}]
    /\ result' \in [Publishers -> {"none", "nil", "error"}]
    /\ published' \in [Publishers -> {"empty", "sent", "failed"}]
    /\ \A p \in Publishers : index'[p] \in Batch(p)
    /\ mu' \in [Conns -> Publishers \cup {Nobody}]

\* A publisher moves on to label l.
LEMMA GotoType ==
  ASSUME TypeOK, NEW p \in Publishers,
         NEW l \in Labels, Goto(p, l)
  PROVE  /\ pc' \in [Publishers -> Labels]
         /\ pc'[p] = l /\ \A q \in Publishers \ {p} : pc'[q] = pc[q]
  BY DEF TypeOK, Goto

\* publishAMQP of one publisher is about to return v.
LEMMA DecideType ==
  ASSUME TypeOK, NEW p \in Publishers, NEW v \in {"nil", "error"}, Decide(p, v)
  PROVE  /\ verdict' \in [Publishers -> {"nil", "error"}]
         /\ verdict'[p] = v /\ \A q \in Publishers \ {p} : verdict'[q] = verdict[q]
  BY DEF TypeOK, Decide

\* The socket a cancelled publish closes is that of the connection its channel is on.
LEMMA InterruptsOwn ==
  ASSUME IInv, NEW p \in Publishers, Interrupt(p)
  PROVE  Cut(rawConn[using[p]]) /\ rawConn[using[p]] = using[p] /\ using[p] \in Conns
<1>1. Cut(rawConn[using[p]]) /\ pc[p] = "select"
  BY DEF Interrupt, Interrupted
<1>2. using[p] \in Conns /\ pools[using[p]] # "none"
  BY <1>1, PublishAssumption DEF IInv, TypeOK, Holdings, PoolsExist, Conns
<1> QED
  BY <1>1, <1>2 DEF IInv, Sockets

\* A step of a publisher keeps the types, and is its own.
LEMMA CallerTypeStep ==
  ASSUME TypeOK, NEW p \in Publishers, PublisherStep(p)
  PROVE  CallerType /\ CallerStep(p)
<1> USE DEF TypeOK, CallerType, CallerStep, Labels, network, dialled, caller, wire
<1>1. CASE Call(p)
  BY <1>1, GotoType DEF Call
<1>2. CASE Cancel(p)
  <2>1. done' \in [Publishers -> BOOLEAN] /\ \A q \in Publishers \ {p} : done'[q] = done[q]
    BY <1>2, Zenon DEF Cancel
  <2> QED
    BY <1>2, <2>1 DEF Cancel
<1>3. CASE Begin(p)
  <2>1. /\ using' \in [Publishers -> 0..MaxConns]
        /\ \A q \in Publishers \ {p} : using'[q] = using[q]
    BY <1>3 DEF Begin
  <2> QED
    BY <1>3, <2>1, GotoType, DecideType DEF Begin
<1>4. CASE Get(p)
  <2>1. /\ chan' \in [Publishers -> Channels \cup {NoChannel}]
        /\ \A q \in Publishers \ {p} : chan'[q] = chan[q]
    BY <1>4 DEF Get, GetIdle, TakeFree, Free
  <2> QED
    BY <1>4, <2>1, GotoType DEF Get, GetIdle, TakeFree
<1>5. CASE GetFails(p)
  BY <1>5, GotoType, DecideType DEF GetFails
<1>6. CASE Spawn(p)
  <2>1. /\ published' \in [Publishers -> {"empty", "sent", "failed"}]
        /\ \A q \in Publishers \ {p} : published'[q] = published[q]
    BY <1>6 DEF Spawn
  <2> QED
    BY <1>6, <2>1, GotoType, DecideType DEF Spawn
<1>7. CASE Result(p)
  <2>1. /\ published' \in [Publishers -> {"empty", "sent", "failed"}]
        /\ \A q \in Publishers \ {p} : published'[q] = published[q]
    BY <1>7 DEF Result
  <2> QED
    BY <1>7, <2>1, GotoType, DecideType DEF Result
<1>8. CASE Interrupt(p)
  BY <1>8, GotoType, DecideType DEF Interrupt, Interrupted
<1>9. CASE Settle(p)
  <2>1. /\ published' \in [Publishers -> {"empty", "sent", "failed"}]
        /\ \A q \in Publishers \ {p} : published'[q] = published[q]
    BY <1>9 DEF Settle
  <2> QED
    BY <1>9, <2>1, GotoType DEF Settle
<1>10. CASE Confirm(p)
  <2>1. PICK v \in {"nil", "error"} : Confirmed(p, v)
    BY <1>10 DEF Confirm
  <2> QED
    BY <2>1, GotoType, DecideType DEF Confirmed
<1>11. CASE Return(p) \/ Discarded(p)
  <2>0. Leave(p) /\ mu' \in [Conns -> Publishers \cup {Nobody}]
    BY <1>11 DEF Return, Discarded, Unlock
  <2>1. done' \in [Publishers -> BOOLEAN] /\ \A q \in Publishers \ {p} : done'[q] = done[q]
    BY <2>0, Zenon DEF Leave
  <2>2. /\ using' \in [Publishers -> 0..MaxConns] /\ chan' \in [Publishers -> Channels \cup {NoChannel}]
        /\ \A q \in Publishers \ {p} : using'[q] = using[q] /\ chan'[q] = chan[q]
    BY <2>0, PublishAssumption DEF Leave
  <2>3. /\ result' \in [Publishers -> {"none", "nil", "error"}]
        /\ index' \in [Publishers -> Nat] /\ \A q \in Publishers : index'[q] \in Batch(q)
        /\ \A q \in Publishers \ {p} : result'[q] = result[q] /\ index'[q] = index[q]
    <3>1. CASE verdict[p] = "nil" /\ index[p] < BatchSize[p]
      <4>1. index[p] + 1 \in Batch(p) /\ index[p] + 1 \in Nat
        BY <3>1, PublishAssumption DEF Batch
      <4>2. index' = [index EXCEPT ![p] = index[p] + 1] /\ result' = result
        BY <2>0, <3>1 DEF Leave
      <4> QED
        BY <4>1, <4>2
    <3>2. CASE ~(verdict[p] = "nil" /\ index[p] < BatchSize[p])
      BY <2>0, <3>2 DEF Leave
    <3> QED
      BY <3>1, <3>2
  <2> QED
    BY <2>0, <2>1, <2>2, <2>3, GotoType, DecideType DEF Leave
<1>12. CASE Grow(p)
  BY <1>12, GotoType DEF Grow
<1>13. CASE LockPool(p)
  <2>1. /\ chan' \in [Publishers -> Channels \cup {NoChannel}]
        /\ \A q \in Publishers \ {p} : chan'[q] = chan[q]
    BY <1>13 DEF LockPool, TakeFree, Free
  <2>2. mu' \in [Conns -> Publishers \cup {Nobody}]
    BY <1>13 DEF LockPool, Lock
  <2> QED
    BY <1>13, <2>1, <2>2, GotoType, DecideType DEF LockPool
<1>14. CASE Opened(p)
  <2>1. /\ chan' \in [Publishers -> Channels \cup {NoChannel}]
        /\ \A q \in Publishers \ {p} : chan'[q] = chan[q]
    BY <1>14 DEF Opened
  <2>2. mu' \in [Conns -> Publishers \cup {Nobody}]
    BY <1>14 DEF Opened, Unlock
  <2> QED
    BY <1>14, <2>1, <2>2, GotoType, DecideType DEF Opened
<1>15. CASE Discard(p)
  BY <1>15, GotoType DEF Discard, Lock
<1> QED
  BY <1>1, <1>2, <1>3, <1>4, <1>5, <1>6, <1>7, <1>8, <1>9, <1>10, <1>11, <1>12, <1>13, <1>14, <1>15
     DEF PublisherStep

\* Every step keeps the types and the shape of the records of messages.
LEMMA TypeStep ==
  ASSUME IInv, [Next]_vars
  PROVE  TypeOK' /\ Shaped'
<1> TypeOK /\ Shaped
  BY DEF IInv
<1> USE DEF Shaped, network, dialled, caller, wire, vars
<1>1. ASSUME NEW p \in Publishers, PublisherStep(p) PROVE TypeOK' /\ Shaped'
  <2>1. CallerType /\ CallerStep(p)
    BY <1>1, CallerTypeStep
  <2>2. link' \in [Conns -> {"none", "up", "silent", "cut", "down"}]
    <3>1. CASE Interrupt(p)
      <4>1. Cut(rawConn[using[p]]) /\ rawConn[using[p]] = using[p] /\ using[p] \in Conns
        BY <3>1, InterruptsOwn
      <4> QED
        BY <4>1, CutLinks
    <3>2. CASE ~Interrupt(p)
      BY <1>1, <3>2 DEF PublisherStep, TypeOK, Call, Cancel, Begin, Get, GetIdle, TakeFree, GetFails, Grow, LockPool, Opened, Lock, Unlock, Spawn, Result, Settle,
                        Confirm, Confirmed, Return, Discard, Discarded, Leave
    <3> QED
      BY <3>1, <3>2
  <2>3. writing' \subseteq [by : Publishers, index : Nat, conn : Conns, chan : Channels]
    <3>1. CASE Spawn(p)
      <4>1. using[p] \in Conns /\ chan[p] \in Channels /\ index[p] \in Nat
        BY <3>1, PublishAssumption DEF IInv, Holdings, Spawn, TypeOK, Conns
      <4> QED
        BY <3>1, <4>1 DEF Spawn, TypeOK
    <3>2. CASE ~Spawn(p)
      BY <1>1, <3>2 DEF PublisherStep, TypeOK, Call, Cancel, Begin, Get, GetIdle, TakeFree, GetFails, Grow, LockPool, Opened, Lock, Unlock, Result, Settle, Interrupt,
                        Interrupted, Confirm, Confirmed, Return, Discard, Discarded, Leave
    <3> QED
      BY <3>1, <3>2
  <2> QED
    BY <2>1, <2>2, <2>3 DEF TypeOK, CallerType, CallerStep
<1>2. ASSUME NEW w \in writing, WriteSucceeds(w) PROVE TypeOK' /\ Shaped'
  <2>1. w.by \in Publishers /\ w.conn \in Conns /\ w.index \in Batch(w.by)
    BY DEF IInv, TypeOK, Writer
  <2>2. /\ frame' = [p \in Publishers |-> frame'[p]] /\ via' = [p \in Publishers |-> via'[p]]
        /\ \A p \in Publishers : /\ frame'[p] \in [Batch(p) -> {"unsent", "wire", "acked", "nacked"}]
                                 /\ via'[p] \in [Batch(p) -> 0..MaxConns]
    <3>1. w.conn \in 0..MaxConns
      BY <2>1, PublishAssumption DEF Conns
    <3>2. /\ frame' = [frame EXCEPT ![w.by][w.index] = "wire"]
          /\ via' = [via EXCEPT ![w.by][w.index] = w.conn]
      BY <1>2 DEF WriteSucceeds
    <3>3. frame' = [p \in Publishers |-> frame'[p]] /\ via' = [p \in Publishers |-> via'[p]]
      BY <3>2
    <3>4. ASSUME NEW p \in Publishers
          PROVE  /\ frame'[p] \in [Batch(p) -> {"unsent", "wire", "acked", "nacked"}]
                 /\ via'[p] \in [Batch(p) -> 0..MaxConns]
      BY <2>1, <3>1, <3>2 DEF TypeOK
    <3> QED
      BY <3>3, <3>4
  <2>3. published' \in [Publishers -> {"empty", "sent", "failed"}]
    BY <1>2, <2>1 DEF TypeOK, WriteSucceeds
  <2> QED
    BY <1>2, <2>2, <2>3 DEF TypeOK, WriteSucceeds
<1>3. ASSUME NEW w \in writing, WriteFails(w) PROVE TypeOK' /\ Shaped'
  BY <1>3 DEF TypeOK, WriteFails
<1>4. ASSUME NEW p \in Publishers, NEW i \in Batch(p), BrokerAnswers(p, i) PROVE TypeOK' /\ Shaped'
  <2>1. /\ frame' = [q \in Publishers |-> frame'[q]] /\ via' = [q \in Publishers |-> via'[q]]
        /\ \A q \in Publishers : /\ frame'[q] \in [Batch(q) -> {"unsent", "wire", "acked", "nacked"}]
                                 /\ via'[q] \in [Batch(q) -> 0..MaxConns]
    <3>1. PICK f \in {"acked", "nacked"} : frame' = [frame EXCEPT ![p][i] = f]
      BY <1>4 DEF BrokerAnswers
    <3>2. via' = [via EXCEPT ![p][i] = 0] /\ 0 \in 0..MaxConns
      BY <1>4, PublishAssumption DEF BrokerAnswers
    <3>3. frame' = [q \in Publishers |-> frame'[q]] /\ via' = [q \in Publishers |-> via'[q]]
      BY <3>1, <3>2
    <3>4. ASSUME NEW q \in Publishers
          PROVE  /\ frame'[q] \in [Batch(q) -> {"unsent", "wire", "acked", "nacked"}]
                 /\ via'[q] \in [Batch(q) -> 0..MaxConns]
      BY <3>1, <3>2 DEF TypeOK
    <3> QED
      BY <3>3, <3>4
  <2> QED
    BY <1>4, <2>1 DEF TypeOK, BrokerAnswers
<1>5. ASSUME NEW g \in Conns, Environment(g) PROVE TypeOK' /\ Shaped'
  <2>1. /\ link' \in [Conns -> {"none", "up", "silent", "cut", "down"}]
        /\ pools' \in [Conns -> {"none", "open", "closing", "closed"}]
    <3>1. \/ pools' = pools /\ \E s \in {"silent", "cut", "down"} : link' = [link EXCEPT ![g] = s]
          \/ link' = link /\ \E s \in {"closing", "closed"} : pools' = [pools EXCEPT ![g] = s]
      BY <1>5 DEF Environment, PeerFallsSilent, NetworkBreaks, Noticed, ClosePool, PoolDrained, CloseConnection
    <3>2. CASE \E s \in {"silent", "cut", "down"} : pools' = pools /\ link' = [link EXCEPT ![g] = s]
      BY <3>2 DEF TypeOK
    <3>3. CASE link' = link /\ \E s \in {"closing", "closed"} : pools' = [pools EXCEPT ![g] = s]
      BY <3>3 DEF TypeOK
    <3> QED
      BY <3>1, <3>2, <3>3
  <2> QED
    BY <1>5, <2>1 DEF TypeOK, Environment, PeerFallsSilent, NetworkBreaks, Noticed, ClosePool, PoolDrained, CloseConnection
<1>6. PICK n \in Conns : Dialled(n)
  BY DEF IInv, PoolsExist
<1>7. Latest = n
  BY <1>6, LatestIsLast
<1>8. CASE Stop
  <2>1. link' \in [Conns -> {"none", "up", "silent", "cut", "down"}]
    BY <1>8, CutLinks DEF Stop, TypeOK
  <2>2. stopped' \in BOOLEAN
    BY <1>8 DEF Stop
  <2> QED
    BY <1>8, <2>1, <2>2 DEF TypeOK, Stop
<1>9. CASE RetirePool
  BY <1>9, PublishAssumption DEF TypeOK, RetirePool, Conns
<1>10. CASE Dial \/ NewPool \/ DialFails
  <2>1. n \in 0..MaxConns /\ (n < MaxConns => n + 1 \in Conns)
    BY PublishAssumption DEF Conns
  <2>2. CASE Dial
    BY <1>7, <2>1, <2>2 DEF TypeOK, Dial, Dialling
  <2>3. CASE NewPool
    <3>1. /\ pools' = [pools EXCEPT ![n] = "open"] /\ rawConn' = [rawConn EXCEPT ![n] = socket]
          /\ current' = n /\ socket \in 0..MaxConns
      BY <1>7, <2>3, PublishAssumption DEF NewPool, TypeOK, Conns
    <3> QED
      BY <2>1, <2>3, <3>1 DEF TypeOK, NewPool
  <2>4. CASE DialFails
    BY <1>7, <2>4 DEF TypeOK, DialFails
  <2> QED
    BY <1>10, <2>2, <2>3, <2>4
<1>11. CASE UNCHANGED vars
  BY <1>11 DEF TypeOK
<1> QED
  BY <1>1, <1>2, <1>3, <1>4, <1>5, <1>8, <1>9, <1>10, <1>11, StepCases

\* What a publisher holds at each label stays right when it takes a step.
LEMMA HoldingsStep ==
  ASSUME IInv, NEW p \in Publishers, PublisherStep(p)
  PROVE  Holdings(p)'
<1> TypeOK /\ Holdings(p)
  BY DEF IInv
<1> USE PublishAssumption DEF Holdings, TypeOK, Labels, network, dialled, caller, wire
<1>1. CASE Call(p)
  BY <1>1, GotoType DEF Call
<1>2. CASE Cancel(p)
  BY <1>2 DEF Cancel
<1>3. CASE Begin(p)
  BY <1>3, GotoType DEF Begin
<1>4. CASE Get(p)
  <2>1. chan'[p] \in Free(using[p]) /\ using' = using /\ pc[p] \in {"get", "wait"} /\ pc'[p] = "check"
    BY <1>4, GotoType DEF Get, GetIdle, TakeFree
  <2>2. chan'[p] # NoChannel
    BY <2>1 DEF Free
  <2> QED
    BY <2>1, <2>2
<1>5. CASE GetFails(p)
  BY <1>5, GotoType DEF GetFails
<1>6. CASE Spawn(p)
  BY <1>6, GotoType DEF Spawn
<1>7. CASE Result(p)
  BY <1>7, GotoType DEF Result
<1>8. CASE Interrupt(p)
  BY <1>8, GotoType DEF Interrupt, Interrupted
<1>9. CASE Settle(p)
  BY <1>9, GotoType DEF Settle
<1>10. CASE Confirm(p)
  BY <1>10, GotoType DEF Confirm, Confirmed, Discard
<1>11. CASE Return(p) \/ Discarded(p)
  BY <1>11, GotoType DEF Return, Discarded, Leave
<1>12. CASE Grow(p)
  BY <1>12, GotoType DEF Grow
<1>13. CASE LockPool(p)
  <2>1. CASE TakeFree(p) /\ Goto(p, "opening")
    <3>1. chan'[p] \in Free(using[p]) /\ using' = using /\ pc[p] = "lock" /\ pc'[p] = "opening"
      BY <1>13, <2>1, GotoType DEF LockPool, TakeFree
    <3>2. chan'[p] # NoChannel
      BY <3>1 DEF Free
    <3> QED
      BY <3>1, <3>2
  <2>2. CASE ~(TakeFree(p) /\ Goto(p, "opening"))
    BY <1>13, <2>2, GotoType DEF LockPool
  <2> QED
    BY <2>1, <2>2
<1>14. CASE Opened(p)
  BY <1>14, GotoType DEF Opened
<1>15. CASE Discard(p)
  BY <1>15, GotoType DEF Discard
<1> QED
  BY <1>1, <1>2, <1>3, <1>4, <1>5, <1>6, <1>7, <1>8, <1>9, <1>10, <1>11, <1>12, <1>13, <1>14, <1>15
     DEF PublisherStep

\* A publisher moves on to its next message only from an acknowledged one, and
\* reports nil only at the end (BatchPublish).
LEMMA AdvanceStep ==
  ASSUME IInv, NEW p \in Publishers, PublisherStep(p)
  PROVE  Advance(p)'
<1> TypeOK /\ Advance(p)
  BY DEF IInv
<1>a. frame' = frame
  BY CallerTypeStep DEF CallerStep
<1> USE <1>a DEF Labels, network, dialled, caller, wire
<1>1. CASE Call(p)
  BY <1>1, GotoType DEF Call, Advance, Untouched
<1>2. CASE Cancel(p)
  BY <1>2 DEF Cancel, Advance, Untouched
<1>3. CASE Begin(p)
  BY <1>3, GotoType, DecideType DEF Begin, Advance, Untouched
<1>4. CASE Get(p)
  BY <1>4, GotoType DEF Get, GetIdle, TakeFree, Advance, Untouched
<1>5. CASE GetFails(p)
  BY <1>5, GotoType, DecideType DEF GetFails, Advance, Untouched
<1>6. CASE Spawn(p)
  BY <1>6, GotoType, DecideType DEF Spawn, Advance, Untouched
<1>7. CASE Result(p)
  BY <1>7, GotoType, DecideType DEF Result, Advance, Untouched
<1>8. CASE Interrupt(p)
  BY <1>8, GotoType, DecideType DEF Interrupt, Interrupted, Advance, Untouched
<1>9. CASE Settle(p)
  BY <1>9, GotoType DEF Settle, Advance, Untouched
<1>10. CASE Confirm(p)
  <2>1. PICK v \in {"nil", "error"} :
            Confirmed(p, v) /\ (v = "nil" => frame[p][index[p]] = "acked")
    BY <1>10 DEF Confirm, Acked
  <2> QED
    BY <2>1, GotoType, DecideType DEF Confirmed, Advance, Untouched
<1>11. CASE Return(p) \/ Discarded(p)
  <2>0. Leave(p) /\ pc[p] \in {"return", "discard"}
    BY <1>11 DEF Return, Discarded
  <2>1. CASE verdict[p] = "nil" /\ index[p] < BatchSize[p]
    <3>1. /\ index'[p] = index[p] + 1 /\ index[p] \in Nat
          /\ index'[p] \in Batch(p) /\ result' = result /\ Goto(p, "begin")
      <4>1. index' = [index EXCEPT ![p] = index[p] + 1] /\ result' = result /\ Goto(p, "begin")
        BY <2>0, <2>1 DEF Leave
      <4>2. index[p] \in 1..BatchSize[p] /\ BatchSize[p] \in Nat /\ index[p] \in Nat
        BY PublishAssumption DEF TypeOK, Batch
      <4>3. index[p] + 1 \in 1..BatchSize[p]
        BY <2>1, <4>2
      <4> QED
        BY <4>1, <4>2, <4>3 DEF TypeOK, Batch
    <3>2. frame[p][index[p]] = "acked" /\ frame[p][index'[p]] = "unsent" /\ result[p] = "none"
      BY <2>0, <2>1, <3>1 DEF Leave, Advance
    <3>3. pc'[p] = "begin"
      BY <3>1, GotoType
    <3>4. ASSUME NEW i \in Batch(p)
          PROVE  /\ i < index'[p] => frame[p][i] = "acked"
                 /\ index'[p] < i => frame[p][i] = "unsent"
      BY <3>1, <3>2, PublishAssumption DEF Batch, Advance
    <3> QED
      BY <3>1, <3>2, <3>3, <3>4 DEF Advance, Untouched
  <2>2. CASE ~(verdict[p] = "nil" /\ index[p] < BatchSize[p])
    <3>1. result'[p] = verdict[p] /\ result'[p] # "none" /\ index' = index /\ Goto(p, "idle")
      BY <2>0, <2>2 DEF Leave, TypeOK
    <3>2. pc'[p] = "idle"
      BY <3>1, GotoType
    <3>3. verdict[p] = "nil" => index[p] = BatchSize[p] /\ frame[p][index[p]] = "acked"
      <4>1. index[p] \in 1..BatchSize[p] /\ BatchSize[p] \in Nat
        BY PublishAssumption DEF TypeOK, Batch
      <4> QED
        BY <2>0, <2>2, <4>1 DEF Leave, Advance
    <3> QED
      BY <3>1, <3>2, <3>3 DEF Advance, Untouched
  <2> QED
    BY <2>1, <2>2
<1>12. CASE Grow(p) \/ LockPool(p) \/ Opened(p)
  BY <1>12, GotoType, DecideType DEF Grow, LockPool, Opened, Advance, Untouched
<1>13. CASE Discard(p)
  BY <1>13, GotoType DEF Discard, Advance, Untouched
<1> QED
  BY <1>1, <1>2, <1>3, <1>4, <1>5, <1>6, <1>7, <1>8, <1>9, <1>10, <1>11, <1>12, <1>13 DEF PublisherStep

\* The goroutines of a publisher's own calls: a new one starts when there is
\* none, and the publisher does not leave its select or the wait after the
\* interrupt before the goroutine has reported.
LEMMA WriterStep ==
  ASSUME IInv, NEW p \in Publishers, PublisherStep(p), NEW w \in writing'
  PROVE  Writer(w)'
<1> TypeOK /\ \A v \in writing : Writer(v)
  BY DEF IInv
<1>a. CallerStep(p)
  BY CallerTypeStep
<1> USE DEF Labels, network, dialled, caller, wire
<1>1. CASE w \notin writing
  <2>1. Spawn(p) /\ ~done[p]
    BY <1>1 DEF PublisherStep, Call, Cancel, Begin, Get, GetIdle, TakeFree, GetFails, Grow, LockPool, Opened, Lock, Unlock, Spawn, Result, Interrupt, Interrupted,
                Settle, Confirm, Confirmed, Return, Discard, Discarded, Leave
  <2>2. w = [by |-> p, index |-> index[p], conn |-> using[p], chan |-> chan[p]]
    BY <1>1, <2>1 DEF Spawn
  <2>3. pc'[p] = "select" /\ published'[p] = "empty"
    BY <2>1, GotoType DEF Spawn, TypeOK
  <2>4. frame[p][index[p]] = "unsent"
    BY <2>1 DEF IInv, Advance, Untouched, Spawn
  <2> QED
    BY <2>1, <2>2, <2>3, <2>4 DEF Writer, Spawn
<1>2. CASE w \in writing /\ w.by # p
  BY <1>2, <1>a DEF CallerStep, Writer, TypeOK
<1>3. CASE w \in writing /\ w.by = p
  <2>1. Writer(w)
    BY <1>3
  <2>2. Cancel(p) \/ Interrupt(p)
    BY <1>3, <2>1 DEF Writer, PublisherStep, Call, Begin, Get, GetIdle, TakeFree, GetFails, Grow, LockPool, Opened, Lock, Unlock, Spawn, Result, 
                      Settle, Confirm, Confirmed, Return, Discard, Discarded, Leave
  <2>3. pc'[p] \in {"select", "settle"}
    BY <1>3, <2>1, <2>2, GotoType DEF Writer, Cancel, Interrupt, Interrupted
  <2> QED
    BY <1>3, <2>1, <2>2, <2>3 DEF Writer, Cancel, Interrupt, Interrupted
<1> QED
  BY <1>1, <1>2, <1>3

\* The caller's state is left alone by everybody else.
LEMMA CallerKept ==
  ASSUME UNCHANGED caller, NEW p \in Publishers, frame'[p] = frame[p]
  PROVE  (Holdings(p) => Holdings(p)') /\ (Advance(p) => Advance(p)')
  BY DEF caller, Holdings, Advance, Untouched

\* The end of a write: it is over for its publisher, and nothing changes for others.
LEMMA WriteStep ==
  ASSUME IInv, NEW w \in writing, WriteSucceeds(w) \/ WriteFails(w)
  PROVE  /\ \A p \in Publishers : Holdings(p)' /\ Advance(p)'
         /\ \A v \in writing' : Writer(v)'
<1> TypeOK /\ Shaped /\ \A v \in writing : Writer(v)
  BY DEF IInv
<1> USE DEF Labels, network, dialled, caller, wire
<1>1. w.by \in Publishers /\ w.index = index[w.by] /\ w.index \in Batch(w.by)
  BY DEF TypeOK, Writer
<1>2. ASSUME NEW p \in Publishers, p # w.by PROVE frame'[p] = frame[p] /\ published'[p] = published[p]
  BY <1>1, <1>2 DEF WriteSucceeds, WriteFails, TypeOK, Shaped
<1>3. ASSUME NEW i \in Batch(w.by), i # index[w.by] PROVE frame'[w.by][i] = frame[w.by][i]
  BY <1>1, <1>3 DEF WriteSucceeds, WriteFails, TypeOK, Shaped
<1>4. UNCHANGED caller
  BY DEF WriteSucceeds, WriteFails
<1>5. Advance(w.by)'
  <2>1. pc[w.by] \in {"select", "settle"} /\ Advance(w.by)
    BY <1>1 DEF Writer, IInv
  <2>2. ASSUME NEW i \in Batch(w.by)
        PROVE  /\ i < index'[w.by] => frame'[w.by][i] = "acked"
               /\ index'[w.by] < i => frame'[w.by][i] = "unsent"
    <3>1. i \in Nat /\ index[w.by] \in Nat
      BY <1>1, PublishAssumption DEF TypeOK, Batch
    <3> QED
      BY <1>3, <1>4, <2>1, <3>1 DEF Advance
  <2>3. /\ pc'[w.by] \in {"select", "settle"} /\ result'[w.by] = "none"
        /\ pc' = pc /\ verdict' = verdict
    BY <1>4, <2>1, <1>1 DEF Advance, TypeOK
  <2> QED
    BY <2>1, <2>2, <2>3 DEF Advance, Untouched
<1>6. \A p \in Publishers : Holdings(p)' /\ Advance(p)'
  BY <1>2, <1>4, <1>5, CallerKept DEF IInv, Holdings
<1>7. ASSUME NEW v \in writing' PROVE Writer(v)'
  <2>1. v \in writing /\ v # w /\ Writer(v)
    BY <1>7 DEF WriteSucceeds, WriteFails
  <2>2. v.by # w.by
    BY <2>1 DEF Writer, TypeOK
  <2> QED
    BY <1>2, <1>4, <2>1, <2>2 DEF Writer, TypeOK
<1> QED
  BY <1>6, <1>7

\* An answer of the broker is to the message its publisher is at, and to no
\* message that is still to be written.
LEMMA AnswerStep ==
  ASSUME IInv, NEW p \in Publishers, NEW i \in Batch(p), BrokerAnswers(p, i)
  PROVE  /\ \A q \in Publishers : Holdings(q)' /\ Advance(q)'
         /\ \A w \in writing' : Writer(w)'
<1> TypeOK /\ Shaped
  BY DEF IInv
<1> USE DEF Labels, network, dialled, caller, wire
<1>1. frame[p][i] = "wire" /\ UNCHANGED caller /\ writing' = writing /\ published' = published
  BY DEF BrokerAnswers
<1>2. PICK f \in {"acked", "nacked"} : frame' = [frame EXCEPT ![p][i] = f]
  BY DEF BrokerAnswers
<1>3. Advance(p) /\ i = index[p]
  <2>1. i \in Nat /\ index[p] \in Nat /\ Advance(p)
    BY PublishAssumption DEF IInv, TypeOK, Batch
  <2> QED
    BY <1>1, <2>1 DEF Advance
<1>4. ASSUME NEW q \in Publishers, q # p PROVE frame'[q] = frame[q]
  BY <1>2, <1>4
<1>5. ASSUME NEW j \in Batch(p), j # i PROVE frame'[p][j] = frame[p][j]
  BY <1>2, <1>5 DEF TypeOK, Shaped
<1>6. Advance(p)'
  <2>1. ASSUME NEW j \in Batch(p)
        PROVE  /\ j < index'[p] => frame'[p][j] = "acked"
               /\ index'[p] < j => frame'[p][j] = "unsent"
    <3>1. j \in Nat /\ i \in Nat
      BY PublishAssumption DEF Batch
    <3> QED
      BY <1>1, <1>3, <1>5, <3>1 DEF Advance
  <2>2. /\ ~Untouched(p) /\ result[p] # "nil"
        /\ pc[p] \in {"return", "discard"} => verdict[p] # "nil"
    BY <1>1, <1>3 DEF Advance
  <2> QED
    BY <1>1, <1>3, <2>1, <2>2 DEF Advance, Untouched
<1>7. \A q \in Publishers : Holdings(q)' /\ Advance(q)'
  BY <1>1, <1>4, <1>6, CallerKept DEF IInv, Holdings
<1>8. ASSUME NEW w \in writing PROVE Writer(w)'
  <2>1. Writer(w) /\ w.by \in Publishers /\ w.by # p
    BY <1>1, <1>3 DEF IInv, TypeOK, Writer
  <2> QED
    BY <1>1, <1>4, <2>1 DEF Writer
<1> QED
  BY <1>1, <1>7, <1>8

\* No channel of a pool is lent twice.
LEMMA ExclusiveStep ==
  ASSUME IInv, [Next]_vars
  PROVE  Exclusive'
<1> TypeOK /\ Exclusive
  BY DEF IInv
<1> USE DEF Labels, network, dialled, caller, wire, vars
<1>1. ASSUME NEW p \in Publishers, PublisherStep(p) PROVE Exclusive'
  <2>1. CallerStep(p)
    BY <1>1, CallerTypeStep
  <2>2. CASE TakeFree(p) /\ using' = using
    <3>1. chan'[p] \in Free(using[p])
      BY <2>2 DEF TakeFree, TypeOK, Free
    <3>2. \A q \in Publishers : using[q] = using[p] => chan[q] # chan'[p]
      BY <3>1 DEF Free
    <3> QED
      BY <2>1, <2>2, <3>1, <3>2 DEF CallerStep, Exclusive
  <2>3. CASE Begin(p)
    <3>1. chan[p] = NoChannel /\ chan' = chan
      BY <2>3 DEF IInv, Holdings, Begin
    <3> QED
      BY <2>1, <3>1 DEF CallerStep, Exclusive
  <2>4. CASE chan'[p] = NoChannel
    BY <2>1, <2>4 DEF CallerStep, Exclusive
  <2>5. CASE chan' = chan /\ using' = using
    BY <2>5 DEF Exclusive
  <2>6. \/ TakeFree(p) /\ using' = using
        \/ Begin(p) \/ chan'[p] = NoChannel
        \/ chan' = chan /\ using' = using
    BY <1>1 DEF PublisherStep, TypeOK, Call, Cancel, Get, GetIdle, GetFails, Grow, LockPool, Opened, Spawn,
                Result, Interrupt, Interrupted, Settle, Confirm, Confirmed, Return, Discard, Discarded, Leave
  <2> QED
    BY <2>2, <2>3, <2>4, <2>5, <2>6
<1>2. CASE \A p \in Publishers : ~PublisherStep(p)
  <2>1. chan' = chan /\ using' = using
    BY <1>2, StepCases DEF WriteSucceeds, WriteFails, BrokerAnswers, Environment, PeerFallsSilent,
            NetworkBreaks, Noticed, ClosePool, PoolDrained, CloseConnection, Stop, RetirePool,
            Dial, Dialling, NewPool, DialFails
  <2> QED
    BY <2>1 DEF Exclusive
<1> QED
  BY <1>1, <1>2

\* What a publisher's step does to the connections: at most it cuts one.
LEMMA PublisherLinks ==
  ASSUME IInv, NEW p \in Publishers, PublisherStep(p)
  PROVE  /\ \A g \in Conns : link'[g] = "none" <=> link[g] = "none"
         /\ using'[p] = using[p] \/ using'[p] = current \/ using'[p] = 0
<1> TypeOK
  BY DEF IInv
<1> USE DEF network, dialled, caller, wire
<1>1. \A g \in Conns : link'[g] = "none" <=> link[g] = "none"
  <2>1. CASE Interrupt(p)
    <3>1. Cut(rawConn[using[p]]) /\ rawConn[using[p]] = using[p] /\ using[p] \in Conns
      BY <2>1, InterruptsOwn
    <3> QED
      BY <3>1, CutLinks
  <2>2. CASE ~Interrupt(p)
    BY <2>2 DEF PublisherStep, TypeOK, Call, Cancel, Begin, Get, GetIdle, GetFails, Grow, LockPool, Opened, Spawn,
                Result, Settle, Confirm, Confirmed, Return, Discard, Discarded, Leave
  <2> QED
    BY <2>1, <2>2
<1>2. using'[p] = using[p] \/ using'[p] = current \/ using'[p] = 0
  BY DEF PublisherStep, TypeOK, Call, Cancel, Begin, Get, GetIdle, GetFails, Grow, LockPool, Opened, Spawn, Result,
         Settle, Interrupt, Interrupted, Confirm, Confirmed, Return, Discard, Discarded, Leave
<1> QED
  BY <1>1, <1>2

\* Connections are dialled in order, a pool is made for the last one only, and
\* nobody knows a pool that was never made.
LEMMA PoolsExistStep ==
  ASSUME IInv, [Next]_vars
  PROVE  PoolsExist' /\ Sockets'
<1> TypeOK /\ TypeOK'
  BY TypeStep DEF IInv
<1> USE DEF network, dialled, caller, wire, vars
<1>1. PICK n \in Conns : Dialled(n)
  BY DEF IInv, PoolsExist
<1>2. Latest = n
  BY <1>1, LatestIsLast
<1>3. ASSUME \A g \in Conns : link'[g] = "none" <=> link[g] = "none",
             \A g \in Conns : pools'[g] = "none" <=> pools[g] = "none",
             current' = current \/ current' = 0, socket' = socket, rawConn' = rawConn,
             \A p \in Publishers : using'[p] # 0 => using[p] = using'[p] \/ using'[p] = current
      PROVE  PoolsExist' /\ Sockets'
  <2>1. \A m \in Conns : Dialled(m) => Dialled(m)'
    BY <1>3 DEF Dialled
  <2>2. 1 \in Conns /\ (current # 0 => current \in Conns)
    <3>1. MaxConns \in Nat \ {0}
      BY PublishAssumption
    <3>2. current \in 0..MaxConns
      BY DEF TypeOK
    <3>3. QED
      BY <3>1, <3>2 DEF Conns
  <2>3. ASSUME NEW p \in Publishers, using'[p] # 0 PROVE pools'[using'[p]] # "none"
    <3>1. using'[p] \in Conns
      BY <2>3, PublishAssumption DEF TypeOK, Conns
    <3>2. pools[using'[p]] # "none"
      BY <1>3, <2>3 DEF IInv, PoolsExist
    <3> QED
      BY <1>3, <3>1, <3>2
  <2>4. current' # 0 => pools'[current'] # "none"
    BY <1>3, <2>2 DEF IInv, PoolsExist
  <2>5. pools'[1] # "none"
    BY <1>3, <2>2 DEF IInv, PoolsExist
  <2>6. Sockets'
    BY <1>3, <2>1 DEF IInv, Sockets
  <2>7. \A g \in Conns : pools'[g] # "none" => link'[g] # "none"
    BY <1>3 DEF IInv, PoolsExist
  <2> QED
    BY <1>1, <2>1, <2>3, <2>4, <2>5, <2>6, <2>7 DEF PoolsExist
<1>4. ASSUME NEW p \in Publishers, PublisherStep(p) PROVE PoolsExist' /\ Sockets'
  <2>1. CallerStep(p)
    BY <1>4, CallerTypeStep
  <2> QED
    BY <1>3, <1>4, <2>1, PublisherLinks DEF CallerStep
<1>5. CASE UNCHANGED <<using, link, pools, dialled>>
  BY <1>3, <1>5
<1>6. CASE \E w \in writing : WriteSucceeds(w) \/ WriteFails(w)
  BY <1>5, <1>6 DEF WriteSucceeds, WriteFails
<1>7. CASE \E p \in Publishers : \E i \in Batch(p) : BrokerAnswers(p, i)
  BY <1>5, <1>7 DEF BrokerAnswers
<1>8. ASSUME NEW g \in Conns, Environment(g) PROVE PoolsExist' /\ Sockets'
  <2>1. \A h \in Conns : link'[h] = "none" <=> link[h] = "none"
    BY <1>8 DEF Environment, PeerFallsSilent, NetworkBreaks, Noticed, ClosePool, PoolDrained, CloseConnection,
                Alive, TypeOK
  <2>2. \A h \in Conns : pools'[h] = "none" <=> pools[h] = "none"
    BY <1>8 DEF Environment, PeerFallsSilent, NetworkBreaks, Noticed, ClosePool, PoolDrained, CloseConnection, TypeOK
  <2>3. UNCHANGED <<using, dialled>>
    BY <1>8 DEF Environment, PeerFallsSilent, NetworkBreaks, Noticed, ClosePool, PoolDrained, CloseConnection
  <2> QED
    BY <1>3, <2>1, <2>2, <2>3
<1>9. CASE Stop
  <2>1. \A g \in Conns : link'[g] = "none" <=> link[g] = "none"
    BY <1>9, CutLinks DEF Stop, TypeOK
  <2> QED
    BY <1>3, <1>9, <2>1 DEF Stop
<1>10. CASE RetirePool
  BY <1>3, <1>10 DEF RetirePool
<1>11. n \in Nat /\ 1 \in Conns /\ \A g \in Conns : g \in Nat
  BY PublishAssumption DEF Conns
<1>12. CASE Dial
  <2>1. /\ n + 1 \in Conns /\ pools[n] = "closed"
        /\ link' = [link EXCEPT ![n + 1] = "up"] /\ socket' = n + 1
        /\ UNCHANGED <<pools, rawConn, current, using>>
    BY <1>2, <1>11, <1>12, PublishAssumption DEF Dial, Dialling, Conns
  <2>2. link[n + 1] = "none" /\ pools[n + 1] = "none"
    BY <1>1, <1>11, <2>1 DEF Dialled, IInv, PoolsExist
  <2>3. Dialled(n + 1)'
    BY <1>1, <1>11, <2>1 DEF Dialled, TypeOK
  <2>4. PoolsExist'
    BY <2>1, <2>2, <2>3 DEF IInv, PoolsExist, TypeOK
  <2>5. ASSUME NEW g \in Conns, link'[g] # "none", pools'[g] = "none" PROVE g = n + 1
    <3>1. g # n + 1 => link[g] # "none" /\ pools[g] = "none"
      BY <2>1, <2>5 DEF TypeOK
    <3>2. g # n + 1 => Dialled(g)
      BY <3>1 DEF IInv, Sockets
    <3>3. g # n + 1 => g = n
      BY <1>1, <1>11, <3>2 DEF Dialled
    <3> QED
      BY <2>1, <2>5, <3>3
  <2> QED
    BY <2>1, <2>3, <2>4, <2>5 DEF IInv, Sockets
<1>13. CASE NewPool
  <2>1. /\ pools[n] = "none" /\ link[n] # "none"
        /\ pools' = [pools EXCEPT ![n] = "open"] /\ rawConn' = [rawConn EXCEPT ![n] = socket]
        /\ current' = n /\ UNCHANGED <<link, socket, using>>
    BY <1>2, <1>13 DEF NewPool
  <2>2. socket = n
    BY <2>1 DEF IInv, Sockets
  <2>3. \A m \in Conns : Dialled(m) => Dialled(m)'
    BY <2>1 DEF Dialled
  <2>4. \A g \in Conns : /\ pools'[g] = IF g = n THEN "open" ELSE pools[g]
                         /\ rawConn'[g] = IF g = n THEN n ELSE rawConn[g]
    BY <2>1, <2>2 DEF TypeOK
  <2>5. \A p \in Publishers : using[p] # 0 => using[p] \in Conns
    BY PublishAssumption DEF TypeOK, Conns
  <2>6. PoolsExist'
    BY <1>1, <1>11, <2>1, <2>3, <2>4, <2>5 DEF IInv, PoolsExist
  <2> QED
    BY <2>1, <2>3, <2>4, <2>6 DEF IInv, Sockets
<1>14. CASE DialFails
  <2>1. pools[n] = "none" /\ link' = [link EXCEPT ![n] = "none"] /\ UNCHANGED <<pools, dialled, using>>
    BY <1>2, <1>14 DEF DialFails
  <2>2. n # 1 /\ n - 1 \in Conns
    BY <1>11, <2>1, PublishAssumption DEF IInv, PoolsExist, Conns
  <2>3. Dialled(n - 1)'
    BY <1>1, <1>11, <2>1, <2>2 DEF Dialled, TypeOK
  <2>4. PoolsExist'
    BY <2>1, <2>2, <2>3 DEF IInv, PoolsExist, TypeOK
  <2>5. ASSUME NEW g \in Conns, link'[g] # "none", pools'[g] = "none" PROVE FALSE
    <3>1. g # n /\ link[g] # "none" /\ pools[g] = "none"
      BY <2>1, <2>5 DEF TypeOK
    <3>2. Dialled(g)
      BY <3>1 DEF IInv, Sockets
    <3> QED
      BY <1>1, <1>11, <3>1, <3>2 DEF Dialled
  <2> QED
    BY <2>1, <2>4, <2>5 DEF IInv, Sockets
<1>15. CASE UNCHANGED vars
  BY <1>5, <1>15
<1> QED
  BY <1>4, <1>6, <1>7, <1>8, <1>9, <1>10, <1>12, <1>13, <1>14, <1>15, StepCases

\* Whoever opens or closes a channel keeps the lock of that pool: get and put
\* wait for it, and pool.close does.
LEMMA LockedStep ==
  ASSUME IInv, [Next]_vars, NEW q \in Publishers
  PROVE  Locked(q)'
<1> TypeOK /\ Locked(q) /\ Holdings(q)
  BY DEF IInv
<1> USE DEF network, dialled, caller, wire, vars
<1>1. using[q] # 0 => using[q] \in Conns
  BY PublishAssumption DEF TypeOK, Conns
<1>2. q # Nobody
  BY PublishAssumption
<1>3. ASSUME NEW p \in Publishers, PublisherStep(p), p # q PROVE Locked(q)'
  <2>1. pc'[q] = pc[q] /\ using'[q] = using[q] /\ pools' = pools
    BY <1>3, CallerTypeStep DEF CallerStep
  <2>2. ASSUME pc[q] \in {"opening", "discard"} PROVE mu'[using[q]] = q
    <3>1. using[q] \in Conns /\ mu[using[q]] = q
      BY <1>1, <2>2 DEF Holdings, Locked
    <3>2. CASE mu' = mu
      BY <3>1, <3>2
    <3>3. CASE Lock(using[p], p)
      BY <1>2, <3>1, <3>3 DEF Lock, TypeOK
    <3>4. CASE Unlock(using[p]) /\ pc[p] \in {"opening", "discard"}
      <4>1. mu[using[p]] = p
        BY <3>4 DEF IInv, Locked
      <4> QED
        BY <1>3, <3>1, <3>4, <4>1 DEF Unlock, TypeOK
    <3>5. mu' = mu \/ Lock(using[p], p) \/ (Unlock(using[p]) /\ pc[p] \in {"opening", "discard"})
      BY <1>3 DEF PublisherStep, Call, Cancel, Begin, Get, GetIdle, GetFails, Grow, LockPool, Opened, Spawn, Result,
                  Settle, Interrupt, Interrupted, Confirm, Confirmed, Return, Discard, Discarded
    <3> QED
      BY <3>2, <3>3, <3>4, <3>5
  <2> QED
    BY <2>1, <2>2 DEF Locked
<1>4. CASE PublisherStep(q)
  <2>1. CASE LockPool(q)
    <3>1. using[q] \in Conns /\ pc[q] = "lock"
      BY <1>1, <2>1 DEF LockPool, Holdings
    <3>2. pc'[q] \notin {"opening", "discard"} \/ (Lock(using[q], q) /\ pools[using[q]] = "open")
      BY <2>1, GotoType DEF LockPool, Labels
    <3> QED
      BY <2>1, <3>1, <3>2, GotoType DEF LockPool, Lock, Locked, TypeOK, Labels
  <2>2. CASE Discard(q)
    <3>1. using[q] \in Conns
      BY <1>1, <2>2 DEF Discard, Holdings
    <3> QED
      BY <2>2, <3>1, GotoType DEF Discard, Lock, Locked, TypeOK, Labels
  <2>3. CASE Cancel(q)
    BY <2>3 DEF Cancel, Locked
  <2>4. CASE ~LockPool(q) /\ ~Discard(q) /\ ~Cancel(q)
    <3>1. pc'[q] \notin {"opening", "discard"}
      BY <1>4, <2>4, GotoType DEF PublisherStep, Labels, Call, Begin, Get, GetIdle, GetFails, Grow, Opened, Spawn,
            Result, Settle, Interrupt, Interrupted, Confirm, Confirmed, Return, Discarded, Leave
    <3> QED
      BY <3>1 DEF Locked
  <2> QED
    BY <2>1, <2>2, <2>3, <2>4
<1>5. ASSUME UNCHANGED <<pc, using, mu>>,
             \A g \in Conns : pools[g] = "open" /\ mu[g] # Nobody => pools'[g] = "open"
      PROVE  Locked(q)'
  BY <1>1, <1>2, <1>5 DEF Locked, Holdings
<1>6. ASSUME NEW g \in Conns, Environment(g) PROVE Locked(q)'
  BY <1>5, <1>6 DEF Environment, PeerFallsSilent, NetworkBreaks, Noticed, ClosePool, PoolDrained, CloseConnection,
                    TypeOK
<1>7. CASE \/ \E w \in writing : WriteSucceeds(w) \/ WriteFails(w)
           \/ \E p \in Publishers : \E i \in Batch(p) : BrokerAnswers(p, i)
           \/ Stop \/ RetirePool \/ Dial \/ DialFails \/ UNCHANGED vars
  BY <1>5, <1>7 DEF WriteSucceeds, WriteFails, BrokerAnswers, Stop, RetirePool, Dial, Dialling, DialFails
<1>8. CASE NewPool
  BY <1>5, <1>8 DEF NewPool, TypeOK
<1> QED
  BY <1>3, <1>4, <1>6, <1>7, <1>8, StepCases

\* Every step keeps the invariant.
LEMMA StepInvariant == IInv /\ [Next]_vars => IInv'
<1> SUFFICES ASSUME IInv, [Next]_vars PROVE IInv'
  OBVIOUS
<1>1. TypeOK /\ TypeOK' /\ Shaped' /\ Exclusive' /\ PoolsExist' /\ Sockets' /\ \A p \in Publishers : Locked(p)'
  BY TypeStep, ExclusiveStep, PoolsExistStep, LockedStep DEF IInv
<1>2. ASSUME NEW p \in Publishers, PublisherStep(p)
      PROVE  \A q \in Publishers : Holdings(q)' /\ Advance(q)'
  <2>1. CallerStep(p)
    BY <1>1, <1>2, CallerTypeStep
  <2>2. ASSUME NEW q \in Publishers, q # p PROVE Holdings(q)' /\ Advance(q)'
    BY <2>1, <2>2 DEF CallerStep, IInv, Holdings, Advance, Untouched
  <2> QED
    BY <1>2, <2>2, HoldingsStep, AdvanceStep
<1>3. CASE \E p \in Publishers : PublisherStep(p)
  BY <1>1, <1>2, <1>3, WriterStep DEF IInv
<1>4. CASE \E w \in writing : WriteSucceeds(w) \/ WriteFails(w)
  BY <1>1, <1>4, WriteStep DEF IInv
<1>5. CASE \E p \in Publishers : \E i \in Batch(p) : BrokerAnswers(p, i)
  BY <1>1, <1>5, AnswerStep DEF IInv
<1>6. CASE UNCHANGED <<caller, wire>>
  <2>1. \A p \in Publishers : Holdings(p)' /\ Advance(p)'
    BY <1>6, CallerKept DEF IInv, wire
  <2>2. \A w \in writing' : Writer(w)'
    BY <1>6 DEF IInv, Writer, wire, caller
  <2> QED
    BY <1>1, <2>1, <2>2 DEF IInv
<1>7. CASE \/ Stop \/ RetirePool \/ Dial \/ NewPool \/ DialFails \/ UNCHANGED vars
           \/ \E g \in Conns : Environment(g)
  BY <1>6, <1>7 DEF vars, Stop, RetirePool, Dial, Dialling, NewPool, DialFails, Environment, PeerFallsSilent,
                    NetworkBreaks, Noticed, ClosePool, PoolDrained, CloseConnection
<1> QED
  BY <1>3, <1>4, <1>5, <1>7, StepCases

\* The invariant holds in every state of the publish path.
LEMMA Invariance == Spec => []IInv
  BY InitInvariant, StepInvariant, PTL DEF Spec

-----------------------------------------------------------------------------

\* The types of the publish path, for any number of publishers and connections.
THEOREM TypeCorrect == Spec => []TypeOK
<1>1. IInv => TypeOK
  BY DEF IInv
<1> QED
  BY <1>1, Invariance, PTL

\* Whatever connections a batch was spread over and whoever cancelled on them:
\* nil from BatchPublish means that the broker has acknowledged all of it, and an
\* error that it has acknowledged a beginning, with at most one message in doubt.
THEOREM BatchesAreAckedInOrder == Spec => []AckedInOrder
<1>1. IInv => AckedInOrder
  <2> SUFFICES ASSUME IInv, NEW p \in Publishers
               PROVE  /\ result[p] = "nil" => \A i \in Batch(p) : frame[p][i] = "acked"
                      /\ \A i, j \in Batch(p) : i < j /\ frame[p][j] # "unsent" => frame[p][i] = "acked"
    BY DEF AckedInOrder
  <2>1. index[p] \in Nat /\ BatchSize[p] \in Nat /\ Advance(p)
    BY PublishAssumption DEF IInv, TypeOK
  <2>2. ASSUME result[p] = "nil", NEW i \in Batch(p) PROVE frame[p][i] = "acked"
    BY <2>1, <2>2 DEF Advance, Batch
  <2>3. ASSUME NEW i \in Batch(p), NEW j \in Batch(p), i < j, frame[p][j] # "unsent"
        PROVE  frame[p][i] = "acked"
    BY <2>1, <2>3 DEF Advance, Batch
  <2> QED
    BY <2>2, <2>3
<1> QED
  BY <1>1, Invariance, PTL

\* No publish goroutine outlives the loan of its channel: after an interrupt
\* publishAMQP waits for the write before the channel goes back.
THEOREM WritesStayOnLoan == Spec => []WritesOnLoan
<1>1. IInv => WritesOnLoan
  <2> SUFFICES ASSUME IInv PROVE WritesOnLoan
    OBVIOUS
  <2>1. ASSUME NEW w \in writing
        PROVE  /\ w.by \in Publishers /\ using[w.by] = w.conn /\ chan[w.by] = w.chan /\ w.chan # NoChannel
               /\ w = [by |-> w.by, index |-> index[w.by], conn |-> using[w.by], chan |-> chan[w.by]]
    BY PublishAssumption DEF IInv, TypeOK, Writer
  <2>2. ASSUME NEW v \in writing, NEW w \in writing, v.conn = w.conn, v.chan = w.chan PROVE v = w
    <3>1. v.by = w.by
      BY <2>1, <2>2 DEF IInv, Exclusive
    <3> QED
      BY <2>1, <3>1
  <2> QED
    BY <2>1, <2>2 DEF WritesOnLoan
<1> QED
  BY <1>1, Invariance, PTL

\* A cancelled publish closes the socket of the connection its channel is on and
\* no other, however many have been dialled since (pool.interrupt): the Dial hook
\* records a socket before reconnect builds the pool that is given it.
THEOREM CancelsBreakTheirOwn == Spec => CancelBreaksOwn
<1>1. ASSUME IInv, [Next]_vars, NEW p \in Publishers, pc[p] = "select", pc'[p] = "settle"
      PROVE  link'[using[p]] \notin Alive /\ \A g \in Conns \ {using[p]} : link'[g] = link[g]
  <2>1. TypeOK
    BY <1>1 DEF IInv
  <2>2. pc' # pc
    BY <1>1
  <2>3. PICK q \in Publishers : PublisherStep(q)
    BY <1>1, <2>2, StepCases DEF vars, network, dialled, caller, WriteSucceeds, WriteFails, BrokerAnswers, Stop,
            RetirePool, Dial, Dialling, NewPool, DialFails, Environment, PeerFallsSilent, NetworkBreaks, Noticed,
            ClosePool, PoolDrained, CloseConnection
  <2>4. q = p
    BY <1>1, <2>1, <2>3, CallerTypeStep DEF CallerStep
  <2>5. Interrupt(p)
    BY <1>1, <2>1, <2>3, <2>4, GotoType DEF PublisherStep, Labels, caller, Call, Cancel, Begin, Get, GetIdle, GetFails,
            Grow, LockPool, Opened, Spawn, Result, Settle, Confirm, Confirmed, Return, Discard, Discarded
  <2>6. Cut(using[p]) /\ using[p] \in Conns
    BY <1>1, <2>5, InterruptsOwn
  <2>7. link'[using[p]] \notin Alive
    <3>1. using[p] # 0 /\ "cut" \notin Alive
      BY <2>6, PublishAssumption DEF Conns, Alive
    <3> QED
      BY <2>1, <2>6, <3>1 DEF Cut, TypeOK
  <2> QED
    BY <2>1, <2>6, <2>7, CutLinks
<1>2. IInv /\ [Next]_vars =>
        [\A p \in Publishers :
            pc[p] = "select" /\ pc'[p] = "settle" =>
                /\ link'[using[p]] \notin Alive
                /\ \A g \in Conns \ {using[p]} : link'[g] = link[g]]_vars
  BY <1>1
<1> QED
  BY <1>2, Invariance, PTL DEF Spec, CancelBreaksOwn

-----------------------------------------------------------------------------

\* What the publishers have borrowed from the pool of connection g, and the
\* state they find it in.
LentBy(g) ==
    [p \in Publishers |-> IF using[p] = g /\ pc[p] # "opening" THEN chan[p] ELSE NoChannel]
StateOf(g) == IF pools[g] = "none" THEN "open" ELSE pools[g]

\* Lender counts with the Cardinality of its own instance of FiniteSets.
LEMMA SameCardinality == \A g, S : Pool(g)!Cardinality(S) = Cardinality(S)
  BY DEF Pool!Cardinality, Cardinality

\* A pool with a channel that is not lent has lent fewer than it has.
LEMMA RoomToLend ==
  ASSUME IInv, NEW g \in Conns, NEW c \in Channels, \A p \in Publishers : LentBy(g)[p] # c
  PROVE  Cardinality({p \in Publishers : LentBy(g)[p] # NoChannel}) < Cardinality(Channels)
<1> DEFINE B == {p \in Publishers : LentBy(g)[p] # NoChannel}
           f == [p \in B |-> chan[p]]
<1>1. \A p \in B : p \in Publishers /\ using[p] = g /\ chan[p] # NoChannel /\ chan[p] = LentBy(g)[p]
  BY DEF LentBy
<1>2. f \in Injection(B, Channels \ {c})
  <2>1. \A p \in B : chan[p] \in Channels \ {c}
    BY <1>1 DEF IInv, TypeOK
  <2>2. \A p, q \in B : chan[p] = chan[q] => p = q
    BY <1>1 DEF IInv, Exclusive
  <2> QED
    BY <2>1, <2>2 DEF Injection, IsInjective
<1>3. IsFiniteSet(Channels \ {c}) /\ Cardinality(Channels \ {c}) = Cardinality(Channels) - 1
  BY FS_RemoveElement, PublishAssumption
<1>4. IsFiniteSet(B) /\ Cardinality(B) <= Cardinality(Channels \ {c})
  <2> HIDE DEF B, f
  <2> QED
    BY <1>2, <1>3, FS_Injection DEF ExistsInjection
<1>5. Cardinality(B) \in Nat /\ Cardinality(Channels) \in Nat
  BY <1>4, FS_CardinalityType, PublishAssumption
<1> QED
  BY <1>3, <1>4, <1>5

\* A loan of a channel that is not lent, from a pool that is not closed.
LEMMA LendStep ==
  ASSUME IInv, NEW g \in Conns, NEW p \in Publishers, NEW c \in Channels,
         \A q \in Publishers : LentBy(g)[q] # c,
         LentBy(g)[p] = NoChannel, LentBy(g)' = [LentBy(g) EXCEPT ![p] = c],
         StateOf(g) # "closed", StateOf(g)' = StateOf(g)
  PROVE  Pool(g)!Next
<1>1. c \notin {LentBy(g)[q] : q \in {q \in Publishers : LentBy(g)[q] # NoChannel}}
  OBVIOUS
<1>2. Pool(g)!Lend(p, c)
  BY <1>1, RoomToLend, SameCardinality DEF Pool!Lend, Pool!Lent, Pool!Borrowers, LentBy, StateOf
<1> QED
  BY <1>2 DEF Pool!Next

\* A step that the users of the pool of connection g cannot see.
LEMMA UnseenStep ==
  ASSUME NEW g, LentBy(g)' = LentBy(g), StateOf(g)' = StateOf(g)
  PROVE  UNCHANGED (Pool(g)!vars)
  BY DEF Pool!vars, LentBy, StateOf

\* publishAMQP borrows from an open pool and gives back to the pool it borrowed
\* from, whichever pool is current by then.
LEMMA PublisherUsesPool ==
  ASSUME IInv, NEW p \in Publishers, PublisherStep(p), NEW g \in Conns
  PROVE  [Pool(g)!Next]_(Pool(g)!vars)
<1> TypeOK /\ Holdings(p)
  BY DEF IInv
<1>1. CallerStep(p)
  BY CallerTypeStep
<1>2. StateOf(g)' = StateOf(g)
  BY <1>1 DEF CallerStep, StateOf
<1>3. ASSUME NEW q \in Publishers, q # p
      PROVE  LentBy(g)'[q] = LentBy(g)[q]
  BY <1>1, <1>3 DEF CallerStep, LentBy
<1>4. CASE LentBy(g)'[p] = LentBy(g)[p]
  <2>1. LentBy(g)' = LentBy(g)
    BY <1>3, <1>4 DEF LentBy
  <2> QED
    BY <1>2, <2>1, UnseenStep
<1>5. CASE Get(p) /\ using[p] = g
  <2>1. LentBy(g)[p] = NoChannel /\ pc[p] # "opening" /\ pc'[p] = "check"
    BY <1>5, GotoType DEF LentBy, Holdings, Get, GetIdle, Labels
  <2>2. PICK c \in Free(g) : chan' = [chan EXCEPT ![p] = c] /\ using' = using
    BY <1>5 DEF Get, GetIdle, TakeFree
  <2>3. c \in Channels /\ \A q \in Publishers : LentBy(g)[q] # c
    BY PublishAssumption DEF Free, LentBy
  <2>4. LentBy(g)'[p] = c
    BY <1>5, <2>1, <2>2 DEF LentBy, TypeOK
  <2>5. LentBy(g)' = [LentBy(g) EXCEPT ![p] = c]
    BY <1>3, <2>4 DEF LentBy
  <2>6. StateOf(g) # "closed"
    BY <1>5 DEF Get, StateOf
  <2> QED
    BY <1>2, <2>1, <2>3, <2>5, <2>6, LendStep
<1>6. CASE Opened(p) /\ using[p] = g /\ pc'[p] = "check"
  <2>1. LentBy(g)[p] = NoChannel /\ pools[g] = "open" /\ chan[p] \in Channels
    BY <1>6 DEF LentBy, Holdings, Opened, IInv, Locked, TypeOK
  <2>2. chan' = chan /\ using' = using
    BY <1>6, GotoType DEF Opened, Labels
  <2>3. \A q \in Publishers : LentBy(g)[q] # chan[p]
    BY <1>6, <2>1, PublishAssumption DEF LentBy, IInv, Exclusive, Opened
  <2>4. LentBy(g)'[p] = chan[p]
    BY <1>6, <2>2 DEF LentBy
  <2>5. LentBy(g)' = [LentBy(g) EXCEPT ![p] = chan[p]]
    BY <1>3, <2>4 DEF LentBy
  <2> QED
    BY <1>2, <2>1, <2>3, <2>5, LendStep DEF StateOf
<1>7. CASE LentBy(g)[p] # NoChannel /\ LentBy(g)'[p] = NoChannel
  <2>1. LentBy(g)' = [LentBy(g) EXCEPT ![p] = NoChannel]
    BY <1>3, <1>7 DEF LentBy
  <2>2. Pool(g)!TakeBack(p)
    BY <1>2, <1>7, <2>1 DEF Pool!TakeBack, LentBy, StateOf
  <2> QED
    BY <2>2 DEF Pool!Next
<1>8. CASE chan'[p] = NoChannel \/ using'[p] # g
  <2>1. LentBy(g)'[p] = NoChannel
    BY <1>8 DEF LentBy
  <2> QED
    BY <1>4, <1>7, <2>1
<1>9. CASE Begin(p)
  <2>1. chan[p] = NoChannel /\ chan' = chan
    BY <1>9 DEF Begin, Holdings
  <2> QED
    BY <1>8, <2>1
<1>10. CASE LockPool(p)
  <2>1. chan[p] = NoChannel /\ (chan' = chan \/ pc'[p] = "opening")
    BY <1>10, GotoType DEF LockPool, Holdings, Labels
  <2>2. LentBy(g)[p] = NoChannel /\ LentBy(g)'[p] = NoChannel
    BY <2>1 DEF LentBy
  <2> QED
    BY <1>4, <2>2
<1>11. CASE Opened(p) /\ pc'[p] # "check"
  <2>1. chan'[p] = NoChannel
    BY <1>11, GotoType DEF Opened, Labels, TypeOK
  <2> QED
    BY <1>8, <2>1
<1>12. CASE Return(p) \/ Discarded(p)
  <2>1. chan'[p] = NoChannel
    BY <1>12 DEF Return, Discarded, Leave, TypeOK
  <2> QED
    BY <1>8, <2>1
<1>13. CASE using[p] # g /\ using' = using
  BY <1>4, <1>13 DEF LentBy
<1>14. CASE \/ Call(p) \/ Cancel(p) \/ GetFails(p) \/ Grow(p) \/ Spawn(p) \/ Result(p) \/ Interrupt(p)
            \/ Settle(p) \/ Confirm(p) \/ Discard(p)
  <2>1. chan' = chan /\ using' = using /\ (pc[p] = "opening" <=> pc'[p] = "opening")
    BY <1>14, GotoType DEF caller, Labels, Call, Cancel, GetFails, Grow, Spawn, Result, Interrupt, Interrupted, Settle,
                 Confirm, Confirmed, Discard
  <2> QED
    BY <1>4, <2>1 DEF LentBy
<1>15. Get(p) \/ Opened(p) => using' = using
  BY DEF Get, GetIdle, Opened
<1> QED
  BY <1>5, <1>6, <1>9, <1>10, <1>11, <1>12, <1>13, <1>14, <1>15 DEF PublisherStep

\* Every step uses every pool as Lender demands: reconnect and Shutdown close
\* the current one, drain it once, and make a new one for a new connection.
LEMMA PoolStep ==
  ASSUME IInv, [Next]_vars, NEW g \in Conns
  PROVE  [Pool(g)!Next]_(Pool(g)!vars)
<1> TypeOK
  BY DEF IInv
<1> USE DEF Labels, network, dialled, caller, wire, vars
<1>1. CASE \E p \in Publishers : PublisherStep(p)
  BY <1>1, PublisherUsesPool
<1>2. CASE \A p \in Publishers : ~PublisherStep(p)
  <2>1. LentBy(g)' = LentBy(g)
    <3>1. chan' = chan /\ using' = using /\ pc' = pc
      BY <1>2, StepCases DEF WriteSucceeds, WriteFails, BrokerAnswers, Environment, PeerFallsSilent, NetworkBreaks,
              Noticed, ClosePool, PoolDrained, CloseConnection, Stop, RetirePool, Dial, Dialling, NewPool, DialFails
    <3> QED
      BY <3>1 DEF LentBy
  <2>2. CASE StateOf(g)' = StateOf(g)
    BY <2>1, <2>2, UnseenStep
  <2>3. CASE StateOf(g) = "open" /\ StateOf(g)' = "closing"
    <3>1. Pool(g)!Shut
      BY <2>1, <2>3 DEF Pool!Shut, LentBy, StateOf
    <3> QED
      BY <3>1 DEF Pool!Next
  <2>4. CASE StateOf(g) = "closing" /\ StateOf(g)' = "closed"
    <3>1. Pool(g)!Drained /\ LentBy(g)' = LentBy(g)
      BY <2>1, <2>4 DEF Pool!Drained, StateOf
    <3> QED
      BY <3>1 DEF Pool!Next, LentBy
  <2>6. CASE \E h \in Conns : Environment(h)
    <3>1. \/ StateOf(g)' = StateOf(g)
          \/ StateOf(g) = "open" /\ StateOf(g)' = "closing"
          \/ StateOf(g) = "closing" /\ StateOf(g)' = "closed"
      BY <2>6 DEF Environment, PeerFallsSilent, NetworkBreaks, Noticed, ClosePool, PoolDrained, CloseConnection,
                  StateOf, TypeOK
    <3> QED
      BY <2>2, <2>3, <2>4, <3>1
  <2>7. CASE NewPool
    <3>1. PICK n \in Conns : Dialled(n)
      BY DEF IInv, PoolsExist
    <3>2. Latest = n
      BY <3>1, LatestIsLast
    <3>3. pools[n] = "none" /\ pools' = [pools EXCEPT ![n] = "open"]
      BY <2>7, <3>2 DEF NewPool
    <3>4. StateOf(g)' = StateOf(g)
      BY <3>3 DEF StateOf, TypeOK
    <3> QED
      BY <2>2, <3>4
  <2>8. CASE pools' = pools
    BY <2>2, <2>8 DEF StateOf
  <2> QED
    BY <1>2, <2>6, <2>7, <2>8, StepCases DEF WriteSucceeds, WriteFails, BrokerAnswers, Stop, RetirePool, Dial,
            Dialling, DialFails
<1> QED
  BY <1>1, <1>2

\* Across reconnects, cancellations and Shutdown every pool is used as Lender,
\* which PublisherPool implements, allows.
THEOREM PoolsAreUsedAsLenders == Spec => PoolsUsedAsSpecified
<1>1. Init => \A g \in Conns : Pool(g)!Init
  BY PublishAssumption DEF Init, Pool!Init, Conns
<1>2. IInv /\ [Next]_vars => [\A g \in Conns : [Pool(g)!Next]_(Pool(g)!vars)]_vars
  BY PoolStep
<1> QED
  BY <1>1, <1>2, Invariance, PTL DEF Spec, PoolsUsedAsSpecified
=============================================================================
