----------------------------- MODULE Connection -----------------------------
(***************************************************************************)
(* The life of the connection of one SDK after NewSDK: the goroutine that  *)
(* watches it (monitorConnection, handleCloseError), the one that          *)
(* re-establishes it (reconnect), the calls of the application that use    *)
(* the consume channel under s.mu (SetQos, DeclareQueues, Start) and       *)
(* Shutdown, with a broker and a network that fail.                        *)
(*                                                                         *)
(* Only the latest connection matters: reconnect closes s.conn before it   *)
(* dials.  link is its state; registered says whether connectionState      *)
(* knows its socket, installed whether s.conn and s.channel are it, armed  *)
(* whether NotifyClose was called on it while it was alive.                *)
(*                                                                         *)
(*   handshake  a socket, the AMQP handshake is not over                   *)
(*   up         in service                                                 *)
(*   stalled    the peer is silent: a call on it blocks until the          *)
(*              heartbeat expires or the socket is interrupted             *)
(*   chanerr    alive, but the broker closed s.channel with an exception   *)
(*   lost       broken with an error                                       *)
(*   closed     closed by this side                                        *)
(*                                                                         *)
(* A call to the broker that is refused, and a failure of the network,     *)
(* costs one fault of MaxFaults.                                           *)
(***************************************************************************)
EXTENDS Naturals, Sequences, FiniteSets

CONSTANTS
    Apps,           \* goroutines of the application
    Queues,         \* what Start may be called with
    Single,         \* queues with a ConsumerTag or Exclusive: the broker
                    \* refuses a second consumer on the channel
    MaxStarts,      \* bound on the calls of Start
    MaxFaults       \* bound on the failures

\* What SetQos and DeclareQueues configure; reconnect replays both.
Settings == {"qos", "declare"}

ASSUME ConnectionAssumption ==
    /\ IsFiniteSet(Apps) /\ Single \subseteq Queues
    /\ Queues \cap (Settings \cup {"idle", "spawn"}) = {}
    /\ Apps \cap {"free", "reconnect"} = {}
    /\ MaxStarts \in Nat /\ MaxFaults \in Nat

VARIABLES
    cancelled,      \* s.ctx is done
    interrupted,    \* shutdownOnce has run
    sd,             \* where Shutdown is
    link, registered, installed, armed,
    regs,           \* consumers of each queue on s.channel
    monitor,        \* a monitorConnection goroutine runs
    reconnecting,   \* s.reconnecting
    missed,         \* history: a close error was dropped by handleCloseError
    rec,            \* where the reconnect goroutine is, "none" if there is none
    todo,           \* the queues reconnect has still to consume from
    mu,             \* who holds s.mu: "free", "reconnect" or an application goroutine
    pool,           \* s.publisherPool # nil
    stored,         \* settings kept for replay: qosConfigured, declaredQueues
    applied,        \* settings made on s.channel
    queues,         \* s.queues
    overtook,       \* history: the calls of Start on each queue that were under
                    \* way when the last replay of the consumers began
    workers,        \* some consume goroutine runs
    call,           \* the call each application goroutine is in; a queue stands for
                    \* Start, "spawn" for a Start that has consumed and released s.mu
    faults

shut == <<cancelled, interrupted, sd>>
net  == <<link, registered, installed, armed, regs>>
sup  == <<monitor, reconnecting, missed>>
recv == <<rec, todo>>
conf == <<stored, queues, overtook>>
svc  == <<pool, applied, workers>>
vars == <<shut, net, sup, recv, conf, svc, mu, call, faults>>

Dead == {"chanerr", "lost", "closed"}
NoConsumers == [q \in Queues |-> 0]

\* The calls of Start that have kept q and not yet consumed from it.
Pending(q) == {a \in Apps : call[a] = q}

\* NewSDK has returned.
Init ==
    /\ cancelled = FALSE /\ interrupted = FALSE /\ sd = "idle"
    /\ link = "up" /\ registered = TRUE /\ installed = TRUE /\ armed = TRUE
    /\ regs = NoConsumers
    /\ monitor = TRUE /\ reconnecting = FALSE /\ missed = FALSE
    /\ rec = "none" /\ todo = <<>>
    /\ mu = "free"
    /\ pool = TRUE /\ applied = {} /\ workers = FALSE
    /\ stored = {} /\ queues = <<>> /\ overtook = NoConsumers
    /\ call = [a \in Apps |-> "idle"]
    /\ faults = 0

Fault == faults < MaxFaults /\ faults' = faults + 1

\* The link leaves service: its consumers are gone.
Break(l) == link' = l /\ regs' = NoConsumers

\* A call to the broker fails: it is refused, or the link is dead.
CallFails ==
    \/ link = "up" /\ Fault
    \/ link \in Dead /\ UNCHANGED faults

-----------------------------------------------------------------------------
(* The broker and the network.                                             *)

LinkStalls ==
    /\ link = "up" /\ Fault
    /\ link' = "stalled"
    /\ UNCHANGED <<shut, registered, installed, armed, regs, sup, recv, conf, svc, mu, call>>

HeartbeatExpires ==
    /\ link = "stalled"
    /\ Break("lost")
    /\ UNCHANGED <<shut, registered, installed, armed, sup, recv, conf, svc, mu, call, faults>>

LinkBreaks ==
    /\ link \in {"handshake", "up", "chanerr"} /\ Fault
    /\ Break("lost")
    /\ UNCHANGED <<shut, registered, installed, armed, sup, recv, conf, svc, mu, call>>

\* A channel exception that no call waits for: an acknowledgement the broker
\* does not accept, or one that came too late.
ChannelError ==
    /\ link = "up" /\ regs # NoConsumers /\ Fault
    /\ Break("chanerr")
    /\ UNCHANGED <<shut, registered, installed, armed, sup, recv, conf, svc, mu, call>>

-----------------------------------------------------------------------------
(* monitorConnection and handleCloseError.                                 *)

MonitorStops ==
    /\ monitor /\ cancelled
    /\ monitor' = FALSE
    /\ UNCHANGED <<shut, net, reconnecting, missed, recv, conf, svc, mu, call, faults>>

\* Mutated form of MonitorSees: the flag is not consulted.
MonitorSeesAlways ==
    /\ monitor /\ link \in {"chanerr", "lost"}
    /\ monitor' = FALSE
    /\ reconnecting' = TRUE /\ rec' = "lock" /\ missed' = reconnecting
    /\ UNCHANGED <<shut, net, todo, conf, svc, mu, call, faults>>

\* A close error arrives; a notification channel armed too late is closed
\* without one.  The compare-and-swap fails while reconnecting is set.
MonitorSees ==
    /\ monitor /\ link \in {"chanerr", "lost"}
    /\ monitor' = FALSE
    /\ IF armed /\ ~reconnecting
       THEN reconnecting' = TRUE /\ rec' = "lock" /\ UNCHANGED missed
       ELSE missed' = (missed \/ armed) /\ UNCHANGED <<reconnecting, rec>>
    /\ UNCHANGED <<shut, net, todo, conf, svc, mu, call, faults>>

-----------------------------------------------------------------------------
(* reconnect, which holds s.mu from RecLock to RecUnlock.                  *)

RecLock ==
    /\ rec = "lock" /\ mu = "free"
    /\ mu' = "reconnect" /\ rec' = "top"
    /\ UNCHANGED <<shut, net, sup, todo, conf, svc, call, faults>>

\* The head of the loop; s.publisherPool = nil comes before anything is closed.
RecTop ==
    /\ rec = "top"
    /\ IF cancelled THEN rec' = "unlock" /\ UNCHANGED pool
                    ELSE rec' = "teardown" /\ pool' = FALSE
    /\ UNCHANGED <<shut, net, sup, todo, conf, applied, workers, mu, call, faults>>

\* oldPublisherPool.close, s.channel.Close, s.conn.Close.
RecTeardown ==
    /\ rec = "teardown" /\ link # "stalled"
    /\ Break("closed") /\ rec' = "dial"
    /\ UNCHANGED <<shut, registered, installed, armed, sup, todo, conf, svc, mu, call, faults>>

\* connectionConfig.Dial: DialContext fails, or yields a socket.
RecDial ==
    /\ rec = "dial"
    /\ \/ /\ (cancelled /\ UNCHANGED faults) \/ (~cancelled /\ Fault)
          /\ rec' = "wait" /\ UNCHANGED <<link, registered, installed, armed>>
       \/ /\ ~cancelled
          /\ link' = "handshake" /\ registered' = FALSE /\ installed' = FALSE /\ armed' = FALSE
          /\ rec' = "set" /\ UNCHANGED faults
    /\ UNCHANGED <<shut, regs, sup, todo, conf, svc, mu, call>>

\* connectionState.set: the socket is stored, then the context is checked.
RecSet ==
    /\ rec = "set"
    /\ registered' = TRUE /\ rec' = "setcheck"
    /\ UNCHANGED <<shut, link, installed, armed, regs, sup, todo, conf, svc, mu, call, faults>>

\* Mutated form of RecSetCheck: the context is not checked after the store.
RecSetUnchecked ==
    /\ rec = "setcheck"
    /\ rec' = "handshake"
    /\ UNCHANGED <<shut, net, sup, todo, conf, svc, mu, call, faults>>

RecSetCheck ==
    /\ rec = "setcheck"
    /\ link' = (IF cancelled THEN "lost" ELSE link)
    /\ rec' = "handshake"
    /\ UNCHANGED <<shut, registered, installed, armed, regs, sup, todo, conf, svc, mu, call, faults>>

\* The AMQP handshake ends, or fails at the deadline of the socket.
RecHandshake ==
    /\ rec = "handshake"
    /\ \/ link = "handshake" /\ link' = "up" /\ rec' = "ctx" /\ UNCHANGED faults
       \/ /\ (link = "lost" /\ UNCHANGED faults) \/ (link = "handshake" /\ Fault)
          /\ link' = "closed" /\ rec' = "wait"
    /\ UNCHANGED <<shut, registered, installed, armed, regs, sup, todo, conf, svc, mu, call>>

RecCtx ==
    /\ rec = "ctx"
    /\ IF cancelled THEN /\ link # "stalled"
                         /\ link' = "closed" /\ rec' = "unlock"
                    ELSE rec' = "channel" /\ UNCHANGED link
    /\ UNCHANGED <<shut, registered, installed, armed, regs, sup, todo, conf, svc, mu, call, faults>>

\* conn.Close or closeReconnectResources after a failed step, then the wait.
RecGivesUp == Break("closed") /\ rec' = "wait"

RecChannel ==
    /\ rec = "channel"
    /\ \/ link = "up" /\ rec' = "notify" /\ UNCHANGED <<link, regs, faults>>
       \/ CallFails /\ RecGivesUp
    /\ UNCHANGED <<shut, registered, installed, armed, sup, todo, conf, svc, mu, call>>

\* Mutated form of RecInstall: the monitor starts before the set-up is over.
RecInstallWatched ==
    /\ rec = "notify"
    /\ armed' = (link \notin Dead) /\ installed' = TRUE
    /\ applied' = {} /\ rec' = "qos" /\ monitor' = TRUE
    /\ UNCHANGED <<shut, link, registered, regs, reconnecting, missed, todo, conf, pool, workers, mu, call, faults>>

\* NotifyClose on channel and connection, then s.conn and s.channel are set.
RecInstall ==
    /\ rec = "notify"
    /\ armed' = (link \notin Dead) /\ installed' = TRUE
    /\ applied' = {} /\ rec' = "qos"
    /\ UNCHANGED <<shut, link, registered, regs, sup, todo, conf, pool, workers, mu, call, faults>>

\* Replay of a setting; declareQueuesLocked also fails on a done context.
RecApply(k, l) ==
    /\ rec = k
    /\ \/ k \notin stored /\ rec' = l /\ UNCHANGED <<link, regs, applied, faults>>
       \/ /\ k \in stored /\ link = "up"
          /\ applied' = applied \cup {k} /\ rec' = l /\ UNCHANGED <<link, regs, faults>>
       \/ /\ k \in stored
          /\ CallFails \/ (k = "declare" /\ cancelled /\ link # "stalled" /\ UNCHANGED faults)
          /\ RecGivesUp /\ UNCHANGED applied
    /\ UNCHANGED <<shut, registered, installed, armed, sup, todo, conf, pool, workers, mu, call>>

\* Mutated form of RecQos: the prefetch settings are not replayed.
RecQosForgotten ==
    /\ rec = "qos" /\ rec' = "declare"
    /\ UNCHANGED <<shut, net, sup, todo, conf, svc, mu, call, faults>>

RecQos == RecApply("qos", "declare")

RecTopology == RecApply("declare", "pool")

\* newPublisherChannelPool on the new connection.
RecPool ==
    /\ rec = "pool"
    /\ \/ /\ link = "up"
          /\ pool' = TRUE
          /\ todo' = queues /\ rec' = "consume"
          /\ overtook' = [q \in Queues |-> Cardinality(Pending(q))]
          /\ UNCHANGED <<link, regs, faults>>
       \/ CallFails /\ RecGivesUp /\ UNCHANGED <<pool, todo, overtook>>
    /\ UNCHANGED <<shut, registered, installed, armed, sup, stored, queues, applied, workers, mu, call>>

\* s.channel.Consume(q): granted, or refused because of an earlier consumer,
\* which ends the connection.
Duplicate(q) == q \in Single /\ regs[q] > 0

\* Mutated form of Granted: Consume is called inside the loop over the workers.
GrantedPerWorker(q) ==
    /\ link = "up" /\ ~Duplicate(q)
    /\ regs' = [regs EXCEPT ![q] = @ + 2]
    /\ UNCHANGED <<link, faults>>

Granted(q) ==
    /\ link = "up" /\ ~Duplicate(q)
    /\ regs' = [regs EXCEPT ![q] = @ + 1]
    /\ UNCHANGED <<link, faults>>

Refused(q) ==
    \/ link = "up" /\ Duplicate(q) /\ Break("lost") /\ UNCHANGED faults
    \/ link = "up" /\ Fault /\ Break("chanerr")
    \/ link \in Dead /\ UNCHANGED <<link, regs, faults>>

\* startWithStoreQueuesFlag(s.queues, false, true): consumers and their workers
\* are started one queue at a time, unless the context is done at the start.
\* What it leaves behind when it fails is closed by the next RecTeardown.
RecConsume ==
    /\ rec = "consume"
    /\ \/ todo = <<>> /\ rec' = "spawn" /\ UNCHANGED <<todo, link, regs, workers, faults>>
       \/ todo # <<>> /\ Granted(Head(todo)) /\ todo' = Tail(todo) /\ workers' = TRUE /\ UNCHANGED rec
       \/ todo # <<>> /\ Refused(Head(todo)) /\ rec' = "wait" /\ todo' = <<>> /\ UNCHANGED workers
       \/ /\ todo = queues /\ todo # <<>> /\ cancelled /\ rec' = "wait" /\ todo' = <<>>
          /\ UNCHANGED <<link, regs, workers, faults>>
    /\ UNCHANGED <<shut, registered, installed, armed, sup, conf, pool, applied, mu, call>>

\* Mutated form of RecSpawn: nobody watches the new connection.
RecSpawnNothing ==
    /\ rec = "spawn" /\ rec' = "unlock"
    /\ UNCHANGED <<shut, net, sup, todo, conf, svc, mu, call, faults>>

RecSpawn ==
    /\ rec = "spawn"
    /\ monitor' = TRUE /\ rec' = "unlock"
    /\ UNCHANGED <<shut, net, reconnecting, missed, todo, conf, svc, mu, call, faults>>

\* The deferred calls run in reverse order: s.mu.Unlock, then the flag.
RecUnlock ==
    /\ rec = "unlock"
    /\ mu' = "free" /\ rec' = "store"
    /\ UNCHANGED <<shut, net, sup, todo, conf, svc, call, faults>>

RecStore ==
    /\ rec = "store"
    /\ reconnecting' = FALSE /\ rec' = "none"
    /\ UNCHANGED <<shut, net, monitor, missed, todo, conf, svc, mu, call, faults>>

\* waitReconnect: the timer, or the context.
RecWait ==
    /\ rec = "wait"
    /\ rec' = "top" \/ (cancelled /\ rec' = "unlock")
    /\ UNCHANGED <<shut, net, sup, todo, conf, svc, mu, call, faults>>

Reconnect ==
    \/ RecTop \/ RecTeardown \/ RecDial \/ RecSet \/ RecSetCheck \/ RecHandshake \/ RecCtx
    \/ RecChannel \/ RecInstall \/ RecQos \/ RecTopology \/ RecPool \/ RecConsume
    \/ RecSpawn \/ RecUnlock \/ RecStore \/ RecWait

-----------------------------------------------------------------------------
(* The application.                                                        *)

\* SetQos or DeclareQueues is called.
Configure(a, k) ==
    /\ call[a] = "idle"
    /\ call' = [call EXCEPT ![a] = k]
    /\ UNCHANGED <<shut, net, sup, recv, conf, svc, mu, faults>>

\* Start keeps the queue in one critical section of s.mu and consumes from it
\* in another.
Start(a, q) ==
    /\ call[a] = "idle" /\ Len(queues) < MaxStarts /\ mu = "free"
    /\ queues' = Append(queues, q)
    /\ call' = [call EXCEPT ![a] = q]
    /\ UNCHANGED <<shut, net, sup, recv, stored, overtook, svc, mu, faults>>

Lock(a) ==
    /\ call[a] \notin {"idle", "spawn"} /\ mu = "free"
    /\ mu' = a
    /\ UNCHANGED <<shut, net, sup, recv, conf, svc, call, faults>>

Return(a) == mu' = "free" /\ call' = [call EXCEPT ![a] = "idle"]

\* s.channel.Qos, or the declarations of declareQueuesLocked; the setting is
\* kept for replay when they succeed.  declareQueuesLocked also returns early on
\* a context that is done or a configuration that is not valid.
ConfigureReturns(a) ==
    /\ mu = a /\ call[a] \in Settings
    /\ \/ /\ link = "up"
          /\ stored' = stored \cup {call[a]} /\ applied' = applied \cup {call[a]}
          /\ UNCHANGED <<link, regs, faults>>
       \/ /\ \/ link = "up" /\ Fault /\ Break("chanerr")
             \/ (link \in Dead \/ call[a] = "declare") /\ UNCHANGED <<link, regs, faults>>
          /\ UNCHANGED <<stored, applied>>
    /\ Return(a)
    /\ UNCHANGED <<shut, registered, installed, armed, sup, recv, queues, overtook, pool, workers>>

\* s.channel.Consume, then s.mu.Unlock; an error ends the call and leaves the
\* queue in s.queues.
StartConsumes(a) ==
    /\ mu = a /\ call[a] \in Queues /\ mu' = "free"
    /\ \/ Granted(call[a]) /\ call' = [call EXCEPT ![a] = "spawn"]
       \/ Refused(call[a]) /\ call' = [call EXCEPT ![a] = "idle"]
    /\ UNCHANGED <<shut, registered, installed, armed, sup, recv, conf, svc>>

\* The calls of s.wg.Go, without s.mu.
StartWorkers(a) ==
    /\ call[a] = "spawn"
    /\ workers' = TRUE /\ call' = [call EXCEPT ![a] = "idle"]
    /\ UNCHANGED <<shut, net, sup, recv, conf, pool, applied, mu, faults>>

\* The workers leave when s.ctx is done or their delivery channel is closed.
WorkersExit ==
    /\ workers /\ (cancelled \/ regs = NoConsumers)
    /\ workers' = FALSE
    /\ UNCHANGED <<shut, net, sup, recv, conf, pool, applied, mu, call, faults>>

\* The context given to NewSDK is cancelled.
ParentCancel ==
    /\ ~cancelled
    /\ cancelled' = TRUE
    /\ UNCHANGED <<interrupted, sd, net, sup, recv, conf, svc, mu, call, faults>>

-----------------------------------------------------------------------------
(* Shutdown.                                                               *)

\* The first call cancels; a call after one that timed out only waits again.
ShutdownBegin ==
    /\ sd = "idle"
    /\ cancelled' = TRUE
    /\ sd' = IF interrupted THEN "wait" ELSE "interrupt"
    /\ UNCHANGED <<interrupted, net, sup, recv, conf, svc, mu, call, faults>>

\* Mutated form of ShutdownInterrupt: the socket is left alone.
ShutdownNoInterrupt ==
    /\ sd = "interrupt"
    /\ interrupted' = TRUE /\ sd' = "wait"
    /\ UNCHANGED <<cancelled, net, sup, recv, conf, svc, mu, call, faults>>

\* connectionState.interrupt, on the socket that is registered.
ShutdownInterrupt ==
    /\ sd = "interrupt"
    /\ IF registered /\ link # "closed" THEN Break("lost") ELSE UNCHANGED <<link, regs>>
    /\ interrupted' = TRUE /\ sd' = "wait"
    /\ UNCHANGED <<cancelled, registered, installed, armed, sup, recv, conf, svc, mu, call, faults>>

ShutdownTimesOut ==
    /\ sd = "wait" /\ sd' = "idle"
    /\ UNCHANGED <<cancelled, interrupted, net, sup, recv, conf, svc, mu, call, faults>>

\* s.wg is at zero.
Quiet == ~monitor /\ rec = "none" /\ ~workers

\* Mutated form of ShutdownWaited: it does not wait for the goroutines.
ShutdownHurries ==
    /\ sd = "wait" /\ sd' = "close"
    /\ UNCHANGED <<cancelled, interrupted, net, sup, recv, conf, svc, mu, call, faults>>

\* s.wg.Wait returns.  A Start that has yet to call s.wg.Go is not waited for.
ShutdownWaited ==
    /\ sd = "wait" /\ Quiet /\ sd' = "close"
    /\ UNCHANGED <<cancelled, interrupted, net, sup, recv, conf, svc, mu, call, faults>>

ShutdownClose ==
    /\ sd = "close" /\ mu = "free"
    /\ pool' = FALSE /\ sd' = "done"
    /\ IF installed THEN Break("closed") ELSE UNCHANGED <<link, regs>>
    /\ UNCHANGED <<cancelled, interrupted, registered, installed, armed, sup, recv, conf, applied, workers, call, mu, faults>>

-----------------------------------------------------------------------------

Next ==
    \/ LinkStalls \/ HeartbeatExpires \/ LinkBreaks \/ ChannelError
    \/ MonitorStops \/ MonitorSees
    \/ RecLock \/ Reconnect
    \/ \E a \in Apps :
          \/ \E k \in Settings : Configure(a, k)
          \/ \E q \in Queues : Start(a, q)
          \/ Lock(a) \/ ConfigureReturns(a) \/ StartConsumes(a) \/ StartWorkers(a)
    \/ WorkersExit \/ ParentCancel
    \/ ShutdownBegin \/ ShutdownInterrupt \/ ShutdownTimesOut \/ ShutdownWaited \/ ShutdownClose

Spec == Init /\ [][Next]_vars

(***************************************************************************)
(* Fairness.  Goroutines that can run do, and s.mu, a sync.Mutex, is       *)
(* handed to a starving waiter.  Handlers return.  Nothing obliges the     *)
(* application to call, the network to fail, the heartbeat to expire or    *)
(* Shutdown to time out.                                                   *)
(***************************************************************************)
Progress ==
    /\ WF_vars(MonitorStops) /\ WF_vars(MonitorSees)
    /\ SF_vars(RecLock) /\ WF_vars(Reconnect)
    /\ \A a \in Apps : /\ SF_vars(Lock(a)) /\ WF_vars(ConfigureReturns(a))
                       /\ WF_vars(StartConsumes(a)) /\ WF_vars(StartWorkers(a))
    /\ WF_vars(WorkersExit)
    /\ WF_vars(ShutdownInterrupt)

FairSpec == Spec /\ Progress

\* Recovery also needs a heartbeat to detect a silent peer.
RecoverySpec == FairSpec /\ WF_vars(HeartbeatExpires)

-----------------------------------------------------------------------------
(* Properties                                                              *)

RecPC == {"none", "lock", "top", "teardown", "dial", "set", "setcheck", "handshake", "ctx",
          "channel", "notify", "qos", "declare", "pool", "consume", "spawn", "unlock", "store", "wait"}

\* The type invariant; a reconnect registers each queue of s.queues once.
TypeOK ==
    /\ cancelled \in BOOLEAN /\ interrupted \in BOOLEAN
    /\ sd \in {"idle", "interrupt", "wait", "close", "done"}
    /\ link \in Dead \cup {"handshake", "up", "stalled"}
    /\ registered \in BOOLEAN /\ installed \in BOOLEAN /\ armed \in BOOLEAN
    /\ regs \in [Queues -> 0..(MaxStarts + Cardinality(Apps))]
    /\ monitor \in BOOLEAN /\ reconnecting \in BOOLEAN /\ missed \in BOOLEAN
    /\ rec \in RecPC /\ todo \in Seq(Queues)
    /\ mu \in Apps \cup {"free", "reconnect"}
    /\ pool \in BOOLEAN /\ workers \in BOOLEAN
    /\ stored \subseteq Settings /\ applied \subseteq Settings
    /\ queues \in Seq(Queues) /\ Len(queues) <= MaxStarts
    /\ overtook \in [Queues -> 0..Cardinality(Apps)]
    /\ call \in [Apps -> Queues \cup Settings \cup {"idle", "spawn"}]
    /\ faults \in 0..MaxFaults

\* Somebody always looks after the connection: a monitor whose notifications
\* were registered while the link was alive, or a reconnect.  The exception is
\* a close error that handleCloseError dropped.
Supervised == cancelled \/ missed \/ rec # "none" \/ (monitor /\ armed)

\* There is one reconnect at a time, it holds s.mu for as long as it works, and
\* the flag s.reconnecting is set for the whole of its life.
SingleReconnect ==
    /\ rec # "none" <=> reconnecting
    /\ mu = "reconnect" <=> rec \notin {"none", "lock", "store"}
    /\ monitor => rec \in {"none", "unlock", "store"}

\* handleCloseError drops a close error only when the reconnect that set the
\* flag has already handed over to the monitor that reports it.
DropsOnlyAtHandover == [][missed' # missed => rec \in {"unlock", "store"} /\ monitor]_vars

\* A connection in service is complete: when s.mu is free, the settings made
\* before are in force on s.channel, there is a publisher pool, and every queue
\* given to Start has a consumer, unless that call of Start is still under way.
Restored ==
    (link = "up" /\ mu = "free" /\ ~cancelled) =>
        /\ installed /\ pool
        /\ stored \subseteq applied
        /\ \A i \in 1..Len(queues) : regs[queues[i]] > 0 \/ \E a \in Apps : call[a] = queues[i]

\* A queue has no more consumers than it was given to Start, and one more for
\* each Start that the last replay overtook between its two critical sections.
ConsumerBound ==
    \A q \in Queues : regs[q] <= Cardinality({i \in 1..Len(queues) : queues[i] = q}) + overtook[q]

\* Once Shutdown has interrupted the connection none comes to life again: the
\* dial that it raced either is seen by interrupt or sees the cancellation.
NoLinkAfterInterrupt ==
    interrupted => \/ link \in {"lost", "closed"}
                   \/ link = "handshake" /\ rec \in {"set", "setcheck"}

\* When Shutdown has waited for s.wg and closed everything no connection,
\* installed or not, is alive, the pool is gone and nobody is left to bring one
\* back; this stays so whatever the application still calls.  Only a worker may
\* still run: that of a Start which Shutdown overtook before it called s.wg.Go.
ShutdownClean == sd = "done" => link \in {"lost", "closed"} /\ ~pool /\ ~monitor /\ rec = "none"

\* In service: connected, watched and consuming.
Serving ==
    /\ link = "up" /\ monitor /\ pool
    /\ \A i \in 1..Len(queues) : regs[queues[i]] > 0

\* CHANGELOG.md promises "Automatic reconnect with topology replay (queues, QoS)
\* and consumer restart": if a heartbeat detects a silent peer, a connection that
\* fails is restored, unless the SDK is cancelled or the close error was dropped.
Recovers == WF_vars(HeartbeatExpires) => (link # "up" ~> cancelled \/ missed \/ Serving)

\* CHANGELOG.md: "Automatic reconnect with topology replay (queues, QoS) and
\* consumer restart", whenever the connection fails.
AutomaticReconnect == link # "up" ~> cancelled \/ Serving

\* After Shutdown has interrupted the connection every goroutine that s.wg counts
\* ends (monitor, reconnect, workers), even if the peer is silent and no heartbeat
\* ever expires.
GoroutinesEnd == interrupted ~> []Quiet

=============================================================================
