-------------------------- MODULE ConnectionProofs --------------------------
(***************************************************************************)
(* Proofs about Connection, for any number of application goroutines,      *)
(* queues, calls of Start and failures.                                    *)
(***************************************************************************)
EXTENDS Connection, FiniteSetTheorems, TLAPS

\* Who is responsible for the connection while a reconnect winds up, and from
\* where on the close notifications of the new connection can be relied on.
Responsible ==
    /\ rec \in {"unlock", "store"} => cancelled \/ missed \/ (monitor /\ armed)
    /\ monitor => armed
    /\ rec \in {"qos", "declare", "pool"} /\ link \in {"up", "stalled"} => armed
    /\ rec \in {"consume", "spawn"} => armed

\* A socket is unknown to connectionState only while it is handed over, and is
\* in the handshake only under DialConfig.
Dialing ==
    /\ rec = "set" <=> ~registered
    /\ rec = "set" => link \in {"handshake", "lost"}
    /\ link = "handshake" => rec \in {"set", "setcheck", "handshake"}

\* How far Shutdown has come.
Stopping ==
    /\ interrupted => cancelled
    /\ sd = "interrupt" => cancelled
    /\ sd \in {"wait", "close", "done"} => interrupted
    /\ sd \in {"close", "done"} => ~monitor /\ rec = "none"

\* The inductive invariant.
IInv ==
    /\ SingleReconnect /\ Responsible /\ Supervised
    /\ Dialing /\ Stopping /\ NoLinkAfterInterrupt /\ ShutdownClean

\* The invariant holds when NewSDK returns.
LEMMA IInvInit == Init => IInv
  BY DEF Init, IInv, SingleReconnect, Responsible, Supervised, Dialing, Stopping,
         NoLinkAfterInterrupt, ShutdownClean, Quiet

\* A failure of the network or the broker keeps the invariant.
LEMMA NetworkStep ==
  ASSUME IInv, LinkStalls \/ HeartbeatExpires \/ LinkBreaks \/ ChannelError
  PROVE  IInv'
<1> USE DEF IInv, SingleReconnect, Responsible, Supervised, Dialing, Stopping,
            NoLinkAfterInterrupt, ShutdownClean, Quiet, shut, sup, recv, conf, svc, Break
<1>1. CASE LinkStalls
  BY <1>1 DEF LinkStalls
<1>2. CASE HeartbeatExpires
  BY <1>2 DEF HeartbeatExpires
<1>3. CASE LinkBreaks
  BY <1>3 DEF LinkBreaks
<1>4. CASE ChannelError
  BY <1>4 DEF ChannelError
<1> QED
  BY <1>1, <1>2, <1>3, <1>4

\* monitorConnection and handleCloseError keep the invariant.
LEMMA MonitorStep ==
  ASSUME IInv, MonitorStops \/ MonitorSees
  PROVE  IInv'
<1> USE DEF IInv, SingleReconnect, Responsible, Supervised, Dialing, Stopping,
            NoLinkAfterInterrupt, ShutdownClean, Quiet, shut, net, sup, recv, conf, svc, Break
<1>1. CASE MonitorStops
  BY <1>1 DEF MonitorStops
<1>2. CASE MonitorSees
  BY <1>2 DEF MonitorSees
<1> QED
  BY <1>1, <1>2

\* reconnect keeps the invariant up to the new connection.
LEMMA DialStep ==
  ASSUME IInv, RecLock \/ RecTop \/ RecTeardown \/ RecDial \/ RecSet \/ RecSetCheck \/ RecHandshake \/ RecCtx \/ RecChannel
  PROVE  IInv'
<1> USE DEF IInv, SingleReconnect, Responsible, Supervised, Dialing, Stopping,
            NoLinkAfterInterrupt, ShutdownClean, Quiet, shut, net, sup, recv, conf, svc, Break
<1>1. CASE RecLock
  BY <1>1 DEF RecLock
<1>2. CASE RecTop
  BY <1>2 DEF RecTop
<1>3. CASE RecTeardown
  BY <1>3 DEF RecTeardown
<1>4. CASE RecDial
  BY <1>4 DEF RecDial
<1>5. CASE RecSet
  BY <1>5 DEF RecSet
<1>6. CASE RecSetCheck
  BY <1>6 DEF RecSetCheck
<1>7. CASE RecHandshake
  BY <1>7 DEF RecHandshake
<1>8. CASE RecCtx
  BY <1>8 DEF RecCtx
<1>9. CASE RecChannel
  BY <1>9 DEF RecChannel, RecGivesUp, CallFails, Dead
<1> QED
  BY <1>1, <1>2, <1>3, <1>4, <1>5, <1>6, <1>7, <1>8, <1>9

\* reconnect keeps the invariant from the new channel to its return.
LEMMA ReplayStep ==
  ASSUME IInv, RecInstall \/ RecQos \/ RecTopology \/ RecPool \/ RecConsume \/ RecSpawn \/ RecUnlock \/ RecStore \/ RecWait
  PROVE  IInv'
<1> USE DEF IInv, SingleReconnect, Responsible, Supervised, Dialing, Stopping,
            NoLinkAfterInterrupt, ShutdownClean, Quiet, shut, net, sup, recv, conf, svc, Break
<1>1. CASE RecInstall
  BY <1>1 DEF RecInstall, Dead
<1>2. CASE RecQos
  BY <1>2 DEF RecQos, RecApply, RecGivesUp, CallFails, Dead
<1>3. CASE RecTopology
  BY <1>3 DEF RecTopology, RecApply, RecGivesUp, CallFails, Dead
<1>4. CASE RecPool
  BY <1>4 DEF RecPool, RecGivesUp, CallFails, Dead
<1>5. CASE RecConsume
  BY <1>5 DEF RecConsume, Granted, Refused, Dead
<1>6. CASE RecSpawn
  BY <1>6 DEF RecSpawn
<1>7. CASE RecUnlock
  BY <1>7 DEF RecUnlock
<1>8. CASE RecStore
  BY <1>8 DEF RecStore
<1>9. CASE RecWait
  BY <1>9 DEF RecWait
<1> QED
  BY <1>1, <1>2, <1>3, <1>4, <1>5, <1>6, <1>7, <1>8, <1>9

\* SetQos, DeclareQueues, Start and the workers keep the invariant.
LEMMA ApplicationStep ==
  ASSUME IInv, NEW a \in Apps,
         \/ \E k \in Settings : Configure(a, k)
         \/ \E q \in Queues : Start(a, q)
         \/ Lock(a) \/ ConfigureReturns(a) \/ StartConsumes(a) \/ StartWorkers(a)
  PROVE  IInv'
<1> USE DEF IInv, SingleReconnect, Responsible, Supervised, Dialing, Stopping,
            NoLinkAfterInterrupt, ShutdownClean, Quiet, shut, net, sup, recv, conf, svc, Break
<1>1. ASSUME NEW k \in Settings, Configure(a, k) PROVE IInv'
  BY <1>1 DEF Configure
<1>2. ASSUME NEW q \in Queues, Start(a, q) PROVE IInv'
  BY <1>2 DEF Start
<1>3. CASE Lock(a)
  BY <1>3, ConnectionAssumption DEF Lock
<1>4. CASE ConfigureReturns(a)
  BY <1>4, ConnectionAssumption DEF ConfigureReturns, Return, Dead
<1>5. CASE StartConsumes(a)
  BY <1>5, ConnectionAssumption DEF StartConsumes, Granted, Refused, Dead
<1>6. CASE StartWorkers(a)
  BY <1>6 DEF StartWorkers
<1> QED
  BY <1>1, <1>2, <1>3, <1>4, <1>5, <1>6

\* The cancellation of the context and Shutdown keep the invariant.
LEMMA ShutdownStep ==
  ASSUME IInv, WorkersExit \/ ParentCancel \/ ShutdownBegin \/ ShutdownInterrupt \/ ShutdownTimesOut \/ ShutdownWaited \/ ShutdownClose
  PROVE  IInv'
<1> USE DEF IInv, SingleReconnect, Responsible, Supervised, Dialing, Stopping,
            NoLinkAfterInterrupt, ShutdownClean, Quiet, shut, net, sup, recv, conf, svc, Break
<1>1. CASE WorkersExit
  BY <1>1 DEF WorkersExit
<1>2. CASE ParentCancel
  BY <1>2 DEF ParentCancel
<1>3. CASE ShutdownBegin
  BY <1>3 DEF ShutdownBegin
<1>4. CASE ShutdownInterrupt
  BY <1>4 DEF ShutdownInterrupt
<1>5. CASE ShutdownTimesOut
  BY <1>5 DEF ShutdownTimesOut
<1>6. CASE ShutdownWaited
  BY <1>6 DEF ShutdownWaited
<1>7. CASE ShutdownClose
  BY <1>7 DEF ShutdownClose
<1> QED
  BY <1>1, <1>2, <1>3, <1>4, <1>5, <1>6, <1>7

\* Every step of the supervision keeps the invariant.
LEMMA IInvStep == IInv /\ [Next]_vars => IInv'
<1> SUFFICES ASSUME IInv, [Next]_vars PROVE IInv'
  OBVIOUS
<1>1. CASE UNCHANGED vars
  BY <1>1 DEF vars, shut, net, sup, recv, conf, svc, IInv, SingleReconnect, Responsible, Supervised,
              Dialing, Stopping, NoLinkAfterInterrupt, ShutdownClean, Quiet
<1>2. CASE Next
  BY <1>2, NetworkStep, MonitorStep, DialStep, ReplayStep, ApplicationStep, ShutdownStep
     DEF Next, Reconnect
<1> QED
  BY <1>1, <1>2

\* The inductive invariant of the supervision holds in every reachable state.
THEOREM Invariance == Spec => []IInv
  BY IInvInit, IInvStep, PTL DEF Spec

\* The flag s.reconnecting admits one reconnect at a time, under s.mu.
THEOREM OneReconnectAtATime == Spec => []SingleReconnect
<1>1. IInv => SingleReconnect
  BY DEF IInv
<1> QED
  BY <1>1, Invariance, PTL

\* Unless handleCloseError drops a close error, the connection is always watched
\* by an armed monitor or being re-established.
THEOREM AlwaysLookedAfter == Spec => []Supervised
<1>1. IInv => Supervised
  BY DEF IInv
<1> QED
  BY <1>1, Invariance, PTL

\* A close error is dropped only in the window between the spawn of the new
\* monitor and the reset of s.reconnecting.
THEOREM DropsInOneWindow == Spec => DropsOnlyAtHandover
<1>1. IInv /\ [Next]_vars => [missed' # missed => rec \in {"unlock", "store"} /\ monitor]_vars
  <2> SUFFICES ASSUME IInv, Next, missed' # missed
               PROVE  rec \in {"unlock", "store"} /\ monitor
    BY DEF vars, sup
  <2>1. ~(LinkStalls \/ HeartbeatExpires \/ LinkBreaks \/ ChannelError \/ MonitorStops \/ RecLock)
    BY DEF LinkStalls, HeartbeatExpires, LinkBreaks, ChannelError, MonitorStops, RecLock, sup
  <2>2. ~Reconnect
    BY DEF Reconnect, RecTop, RecTeardown, RecDial, RecSet, RecSetCheck, RecHandshake, RecCtx, RecChannel,
           RecInstall, RecQos, RecTopology, RecApply, RecPool, RecConsume, RecSpawn, RecUnlock, RecStore,
           RecWait, sup
  <2>3. ASSUME NEW a \in Apps
        PROVE  ~(\/ \E k \in Settings : Configure(a, k)
                 \/ \E q \in Queues : Start(a, q)
                 \/ Lock(a) \/ ConfigureReturns(a) \/ StartConsumes(a) \/ StartWorkers(a))
    BY DEF Configure, Start, Lock, ConfigureReturns, StartConsumes, StartWorkers, sup
  <2>4. ~(WorkersExit \/ ParentCancel \/ ShutdownBegin \/ ShutdownInterrupt \/ ShutdownTimesOut \/ ShutdownWaited \/ ShutdownClose)
    BY DEF WorkersExit, ParentCancel, ShutdownBegin, ShutdownInterrupt, ShutdownTimesOut, ShutdownWaited, ShutdownClose, sup
  <2>5. MonitorSees
    BY <2>1, <2>2, <2>3, <2>4 DEF Next
  <2> QED
    BY <2>5 DEF MonitorSees, IInv, SingleReconnect, Responsible
<1> QED
  BY <1>1, Invariance, PTL DEF Spec, DropsOnlyAtHandover

\* After connectionState.interrupt no connection comes to life, however the
\* dial of a reconnect and Shutdown interleave.
THEOREM InterruptIsFinal == Spec => []NoLinkAfterInterrupt
<1>1. IInv => NoLinkAfterInterrupt
  BY DEF IInv
<1> QED
  BY <1>1, Invariance, PTL

\* A Shutdown that has waited for s.wg leaves no connection, and nobody who could
\* open one: a Start it did not wait for brings no more than a worker.
THEOREM ShutdownIsClean == Spec => []ShutdownClean
<1>1. IInv => ShutdownClean
  BY DEF IInv
<1> QED
  BY <1>1, Invariance, PTL

-----------------------------------------------------------------------------
(* The replay: what a reconnect restores, and how many consumers it leaves. *)

\* The flags of the goroutines, of the connection and of Shutdown.
Flags ==
    /\ cancelled \in BOOLEAN /\ interrupted \in BOOLEAN
    /\ registered \in BOOLEAN /\ installed \in BOOLEAN /\ armed \in BOOLEAN
    /\ monitor \in BOOLEAN /\ reconnecting \in BOOLEAN /\ missed \in BOOLEAN
    /\ pool \in BOOLEAN /\ workers \in BOOLEAN

\* The other types, without the bound on the consumers.
Typed ==
    /\ sd \in {"idle", "interrupt", "wait", "close", "done"}
    /\ link \in Dead \cup {"handshake", "up", "stalled"}
    /\ regs \in [Queues -> Nat]
    /\ rec \in RecPC /\ todo \in Seq(Queues)
    /\ mu \in Apps \cup {"free", "reconnect"}
    /\ stored \subseteq Settings /\ applied \subseteq Settings
    /\ queues \in Seq(Queues) /\ Len(queues) <= MaxStarts
    /\ overtook \in [Queues -> 0..Cardinality(Apps)]
    /\ call \in [Apps -> Queues \cup Settings \cup {"idle", "spawn"}]
    /\ faults \in 0..MaxFaults

\* From the teardown of the old connection to the loop over s.queues there is no
\* consumer on the channel.
Rebuilding == {"dial", "set", "setcheck", "handshake", "ctx", "channel", "notify", "qos", "declare", "pool"}
Emptied == rec \in Rebuilding => regs = NoConsumers

\* How many queues of s.queues the replay has consumed from.
Replayed == Len(queues) - Len(todo)

\* What is left of the loop is the end of s.queues.
Position ==
    rec = "consume" =>
        /\ Len(todo) <= Len(queues)
        /\ \A j \in 1..Len(todo) : todo[j] = queues[Replayed + j]

\* The labels at which no replay is under way.
Settled == {"none", "lock", "spawn", "unlock", "store"}

\* What is in force on a connection in service, label by label of the replay.
InForce ==
    /\ rec \in Settled \cup {"qos", "declare", "pool", "consume"} => installed
    /\ rec = "declare" /\ "qos" \in stored => "qos" \in applied
    /\ rec \in Settled \cup {"pool", "consume"} => stored \subseteq applied
    /\ rec \in Settled \cup {"consume"} => pool

\* Which queues of s.queues have a consumer.
Consuming ==
    /\ rec = "consume" => \A i \in 1..Replayed : regs[queues[i]] > 0
    /\ rec \in Settled =>
          \A i \in 1..Len(queues) : regs[queues[i]] > 0 \/ \E a \in Apps : call[a] = queues[i]

Restoring == link = "up" /\ ~cancelled => InForce /\ Consuming

\* How often q stands among the first n entries of s.queues.
Occurrences(n, q) == Cardinality({i \in 1..n : queues[i] = q})

\* A pending Start is paid for by an entry of s.queues, or was overtaken; while
\* the replay holds s.mu the calls it overtakes are those that are pending.
Counted ==
    /\ \A q \in Queues : regs[q] + Cardinality(Pending(q)) <= Occurrences(Len(queues), q) + overtook[q]
    /\ rec = "consume" =>
          \A q \in Queues : regs[q] <= Occurrences(Replayed, q) /\ Cardinality(Pending(q)) <= overtook[q]

\* The inductive invariant of the replay, on top of the one of the supervision.
RInv == Flags /\ Typed /\ Emptied /\ Position /\ Restoring /\ Counted

\* The invariant of the replay holds when NewSDK returns.
LEMMA RInvInit == Init => RInv
<1> SUFFICES ASSUME Init PROVE RInv
  OBVIOUS
<1> USE DEF Init
<1>1. Flags
  BY Zenon DEF Flags
<1>2. Typed
  <2>1. Cardinality(Apps) \in Nat
    BY ConnectionAssumption, FS_CardinalityType
  <2> QED
    BY <2>1, ConnectionAssumption DEF Typed, NoConsumers, RecPC
<1>3. Emptied /\ Position /\ Restoring
  BY DEF Emptied, Position, Restoring, InForce, Consuming, Settled
<1>4. Counted
  <2>1. ASSUME NEW q \in Queues PROVE Pending(q) = {} /\ Occurrences(Len(queues), q) = 0
    <3>1. Pending(q) = {}
      BY ConnectionAssumption DEF Pending
    <3>2. {i \in 1..Len(queues) : queues[i] = q} = {}
      OBVIOUS
    <3> QED
      BY <3>1, <3>2, FS_EmptySet DEF Occurrences
  <2>2. ASSUME NEW q \in Queues
        PROVE  regs[q] + Cardinality(Pending(q)) <= Occurrences(Len(queues), q) + overtook[q]
    <3>1. regs[q] = 0 /\ overtook[q] = 0 /\ Cardinality(Pending(q)) = 0
      BY <2>1, FS_EmptySet DEF NoConsumers
    <3> QED
      BY <2>1, <3>1
  <2> QED
    BY <2>2 DEF Counted
<1> QED
  BY <1>1, <1>2, <1>3, <1>4 DEF RInv

\* The flags stay flags.
LEMMA FlagsStep == Flags /\ [Next]_vars => Flags'
<1> SUFFICES ASSUME Flags, [Next]_vars PROVE Flags'
  OBVIOUS
<1> DEFINE flags == <<cancelled, interrupted, registered, installed, armed, monitor, reconnecting, missed, pool, workers>>
<1> USE DEF shut, net, sup, recv, conf, svc
<1>1. CASE UNCHANGED flags
  BY <1>1, Zenon DEF Flags
<1>2. CASE \/ LinkStalls \/ HeartbeatExpires \/ LinkBreaks \/ ChannelError
           \/ RecLock \/ RecTeardown \/ RecSetCheck \/ RecHandshake \/ RecCtx \/ RecChannel \/ RecQos \/ RecTopology
           \/ RecUnlock \/ RecWait \/ ShutdownTimesOut \/ UNCHANGED vars
  BY <1>1, <1>2 DEF LinkStalls, HeartbeatExpires, LinkBreaks, ChannelError, RecLock, RecTeardown, RecSetCheck,
       RecHandshake, RecCtx, RecChannel, RecQos, RecTopology, RecApply, RecUnlock, RecWait, ShutdownTimesOut, vars
<1>3. ASSUME NEW a \in Apps,
             \/ Lock(a) \/ ConfigureReturns(a)
             \/ \E k \in Settings : Configure(a, k)
             \/ \E q \in Queues : Start(a, q)
      PROVE  Flags'
  BY <1>1, <1>3 DEF Lock, ConfigureReturns, Configure, Start
<1>4. ASSUME workers' \in BOOLEAN, UNCHANGED <<shut, registered, installed, armed, sup, pool>> PROVE Flags'
  BY <1>4, Zenon DEF Flags
<1>5. CASE ShutdownWaited
  BY <1>1, <1>5 DEF ShutdownWaited
<1>6. CASE RecConsume
  <2>1. workers' \in BOOLEAN
    BY <1>6, Zenon DEF Flags, RecConsume
  <2> QED
    BY <1>4, <1>6, <2>1 DEF RecConsume
<1>7. ASSUME NEW a \in Apps, StartConsumes(a) \/ StartWorkers(a) PROVE Flags'
  <2>1. CASE StartConsumes(a)
    BY <1>1, <2>1 DEF StartConsumes
  <2>2. CASE StartWorkers(a)
    BY <1>4, <2>2 DEF StartWorkers
  <2> QED
    BY <1>7, <2>1, <2>2
<1>8. CASE MonitorStops
  BY <1>8, Zenon DEF Flags, MonitorStops
<1>9. CASE MonitorSees
  BY <1>9, Zenon DEF Flags, MonitorSees
<1>10. CASE RecTop
  BY <1>10, Zenon DEF Flags, RecTop
<1>11. CASE RecDial
  BY <1>11, Zenon DEF Flags, RecDial
<1>12. CASE RecSet
  BY <1>12, Zenon DEF Flags, RecSet
<1>13. CASE RecInstall
  BY <1>13, Zenon DEF Flags, RecInstall
<1>14. CASE RecPool
  BY <1>14, Zenon DEF Flags, RecPool
<1>15. CASE RecSpawn
  BY <1>15, Zenon DEF Flags, RecSpawn
<1>16. CASE RecStore
  BY <1>16, Zenon DEF Flags, RecStore
<1>17. CASE WorkersExit
  BY <1>17, Zenon DEF Flags, WorkersExit
<1>18. CASE ParentCancel
  BY <1>18, Zenon DEF Flags, ParentCancel
<1>19. CASE ShutdownBegin
  BY <1>19, Zenon DEF Flags, ShutdownBegin
<1>20. CASE ShutdownInterrupt
  BY <1>20, Zenon DEF Flags, ShutdownInterrupt
<1>21. CASE ShutdownClose
  BY <1>21, Zenon DEF Flags, ShutdownClose
<1> QED
  BY <1>2, <1>3, <1>5, <1>6, <1>7, <1>8, <1>9, <1>10, <1>11, <1>12, <1>13, <1>14, <1>15, <1>16, <1>17, <1>18, <1>19, <1>20, <1>21 DEF Next, Reconnect

\* There are never more pending calls than goroutines.
LEMMA PendingFinite ==
  ASSUME NEW q
  PROVE  /\ IsFiniteSet(Pending(q)) /\ Cardinality(Pending(q)) \in Nat
         /\ Cardinality(Apps) \in Nat /\ Cardinality(Pending(q)) <= Cardinality(Apps)
<1>1. Pending(q) \subseteq Apps
  BY DEF Pending
<1> QED
  BY <1>1, ConnectionAssumption, FS_Subset, FS_CardinalityType

\* Every step keeps the types.
LEMMA TypedStep == Typed /\ [Next]_vars => Typed'
<1> SUFFICES ASSUME Typed, [Next]_vars PROVE Typed'
  OBVIOUS
<1>a. NoConsumers \in [Queues -> Nat]
  BY DEF NoConsumers
<1>b. Fault => faults' \in 0..MaxFaults
  BY ConnectionAssumption DEF Fault, Typed
<1> USE DEF Typed, shut, net, sup, recv, conf, svc, RecPC, Break, Dead
<1>1. CASE LinkStalls \/ HeartbeatExpires \/ LinkBreaks \/ ChannelError \/ MonitorStops \/ MonitorSees
  BY <1>1, <1>a, <1>b DEF LinkStalls, HeartbeatExpires, LinkBreaks, ChannelError, MonitorStops, MonitorSees
<1>2. CASE RecLock \/ RecTop \/ RecTeardown \/ RecDial \/ RecSet
  BY <1>2, <1>a, <1>b DEF RecLock, RecTop, RecTeardown, RecDial, RecSet
<1>3. CASE RecSetCheck \/ RecHandshake \/ RecCtx \/ RecChannel \/ RecInstall
  BY <1>3, <1>a, <1>b DEF RecSetCheck, RecHandshake, RecCtx, RecChannel, RecInstall, RecGivesUp, CallFails
<1>4. CASE RecQos \/ RecTopology
  <2>1. ASSUME NEW k \in Settings, NEW l \in {"declare", "pool"}, RecApply(k, l) PROVE Typed'
    BY <2>1, <1>a, <1>b DEF RecApply, RecGivesUp, CallFails
  <2> QED
    BY <1>4, <2>1 DEF RecQos, RecTopology, Settings
<1>5. CASE RecPool
  <2>1. \A q \in Queues : Cardinality(Pending(q)) \in 0..Cardinality(Apps)
    BY PendingFinite
  <2>2. overtook' \in [Queues -> 0..Cardinality(Apps)]
    BY <1>5, <2>1 DEF RecPool
  <2> QED
    BY <1>5, <1>a, <1>b, <2>2 DEF RecPool, RecGivesUp, CallFails
<1>6. ASSUME NEW q \in Queues, Granted(q) PROVE regs' \in [Queues -> Nat] /\ link' = link /\ faults' = faults
  BY <1>6 DEF Granted
<1>7. ASSUME NEW q \in Queues, Refused(q)
      PROVE  /\ regs' \in [Queues -> Nat] /\ faults' \in 0..MaxFaults
             /\ link' \in {"chanerr", "lost", "closed"}
  BY <1>7, <1>a, <1>b DEF Refused
<1>8. CASE RecConsume
  <2>1. todo # <<>> => Head(todo) \in Queues /\ Tail(todo) \in Seq(Queues)
    OBVIOUS
  <2>2. CASE UNCHANGED <<todo, link, regs, faults>>
    BY <1>8, <2>2 DEF RecConsume
  <2>3. CASE todo # <<>> /\ Granted(Head(todo)) /\ todo' = Tail(todo) /\ workers' = TRUE /\ UNCHANGED rec
    BY <1>6, <1>8, <2>1, <2>3 DEF RecConsume
  <2>4. CASE todo # <<>> /\ Refused(Head(todo)) /\ rec' = "wait" /\ todo' = <<>> /\ UNCHANGED workers
    BY <1>7, <1>8, <2>1, <2>4 DEF RecConsume
  <2>5. CASE rec' = "wait" /\ todo' = <<>> /\ UNCHANGED <<link, regs, workers, faults>>
    BY <1>8, <2>5 DEF RecConsume
  <2> QED
    BY <1>8, <2>2, <2>3, <2>4, <2>5 DEF RecConsume
<1>9. CASE RecSpawn \/ RecUnlock \/ RecStore \/ RecWait
  BY <1>9 DEF RecSpawn, RecUnlock, RecStore, RecWait
<1>10. ASSUME NEW a \in Apps, NEW k \in Settings, Configure(a, k) PROVE Typed'
  BY <1>10 DEF Configure
<1>11. ASSUME NEW a \in Apps, NEW q \in Queues, Start(a, q) PROVE Typed'
  <2>1. queues' \in Seq(Queues) /\ Len(queues') <= MaxStarts
    BY <1>11, ConnectionAssumption DEF Start
  <2> QED
    BY <1>11, <2>1 DEF Start
<1>12. ASSUME NEW a \in Apps, Lock(a) PROVE Typed'
  BY <1>12 DEF Lock
<1>13. ASSUME NEW a \in Apps, ConfigureReturns(a) PROVE Typed'
  BY <1>13, <1>a, <1>b DEF ConfigureReturns, Return
<1>14. ASSUME NEW a \in Apps, StartConsumes(a) \/ StartWorkers(a) PROVE Typed'
  BY <1>6, <1>7, <1>14 DEF StartConsumes, StartWorkers
<1>15. CASE WorkersExit \/ ParentCancel \/ ShutdownBegin \/ ShutdownInterrupt \/ ShutdownTimesOut \/ ShutdownWaited \/ ShutdownClose
  BY <1>15, <1>a DEF WorkersExit, ParentCancel, ShutdownBegin, ShutdownInterrupt, ShutdownTimesOut, ShutdownWaited, ShutdownClose
<1>16. CASE UNCHANGED vars
  BY <1>16 DEF vars
<1> QED
  BY <1>1, <1>2, <1>3, <1>4, <1>5, <1>8, <1>9, <1>10, <1>11, <1>12, <1>13, <1>14, <1>15, <1>16 DEF Next, Reconnect

\* A step that neither consumes nor keeps a queue.
Aside ==
    /\ queues' = queues /\ overtook' = overtook /\ \A q \in Queues : Pending(q)' = Pending(q)
    /\ regs' \in {regs, NoConsumers} /\ (link' = "up" => regs' = regs)
    /\ rec' = "consume" => rec = "consume" /\ todo' = todo
    /\ rec' \in Rebuilding => rec \in Rebuilding \/ regs' = NoConsumers
    /\ link' = "up" /\ ~cancelled' /\ rec' \in Settled \cup {"consume"} =>
          link = "up" /\ ~cancelled /\ (rec' \in Settled => rec \in Settled)

\* Only four operations consume from a queue or keep one: the replay, its start,
\* and the two critical sections of Start.
LEMMA AsideStep ==
  ASSUME IInv, Typed, [Next]_vars
  PROVE  Aside \/ RecConsume \/ RecPool \/ \E a \in Apps : StartConsumes(a) \/ \E q \in Queues : Start(a, q)
<1> USE DEF shut, net, sup, recv, conf, svc, Break, Dead, Settled, Rebuilding
<1>a. ASSUME call' = call PROVE \A q \in Queues : Pending(q)' = Pending(q)
  BY <1>a DEF Pending
<1>1. CASE LinkStalls \/ HeartbeatExpires \/ LinkBreaks \/ ChannelError \/ MonitorStops
  BY <1>1, <1>a DEF Aside, LinkStalls, HeartbeatExpires, LinkBreaks, ChannelError, MonitorStops
<1>2. CASE MonitorSees
  BY <1>2, <1>a DEF Aside, MonitorSees
<1>3. CASE RecLock \/ RecTop \/ RecTeardown \/ RecDial \/ RecSet
  BY <1>3, <1>a DEF Aside, RecLock, RecTop, RecTeardown, RecDial, RecSet
<1>4. CASE RecSetCheck \/ RecHandshake \/ RecCtx \/ RecChannel \/ RecInstall
  BY <1>4, <1>a DEF Aside, RecSetCheck, RecHandshake, RecCtx, RecChannel, RecInstall, RecGivesUp
<1>5. CASE RecQos \/ RecTopology
  BY <1>5, <1>a DEF Aside, RecQos, RecTopology, RecApply, RecGivesUp
<1>6. CASE RecSpawn \/ RecUnlock \/ RecStore \/ RecWait
  BY <1>6, <1>a DEF Aside, RecSpawn, RecUnlock, RecStore, RecWait
<1>7. ASSUME NEW a \in Apps, NEW k \in Settings, Configure(a, k) PROVE Aside
  <2>1. ASSUME NEW q \in Queues PROVE Pending(q)' = Pending(q)
    BY <1>7, ConnectionAssumption DEF Pending, Configure, Typed
  <2> QED
    BY <1>7, <2>1 DEF Aside, Configure
<1>8. ASSUME NEW a \in Apps, Lock(a) PROVE Aside
  BY <1>8, <1>a DEF Aside, Lock
<1>9. ASSUME NEW a \in Apps, ConfigureReturns(a) PROVE Aside
  <2>1. ASSUME NEW q \in Queues PROVE Pending(q)' = Pending(q)
    BY <1>9, ConnectionAssumption DEF Pending, ConfigureReturns, Return, Typed
  <2> QED
    BY <1>9, <2>1 DEF Aside, ConfigureReturns
<1>10. CASE WorkersExit \/ ParentCancel \/ ShutdownBegin \/ ShutdownInterrupt \/ ShutdownTimesOut \/ ShutdownWaited \/ ShutdownClose
  BY <1>10, <1>a DEF Aside, WorkersExit, ParentCancel, ShutdownBegin, ShutdownInterrupt, ShutdownTimesOut, ShutdownWaited, ShutdownClose
<1>11. CASE UNCHANGED vars
  BY <1>11, <1>a DEF Aside, vars
<1>12. ASSUME NEW a \in Apps, StartWorkers(a) PROVE Aside
  <2>1. ASSUME NEW q \in Queues PROVE Pending(q)' = Pending(q)
    BY <1>12, ConnectionAssumption DEF Pending, StartWorkers, Typed
  <2> QED
    BY <1>12, <2>1 DEF Aside, StartWorkers
<1> QED
  BY <1>1, <1>2, <1>3, <1>4, <1>5, <1>6, <1>7, <1>8, <1>9, <1>10, <1>11, <1>12 DEF Next, Reconnect

\* While an application goroutine holds s.mu, or nobody does, no replay is under way.
LEMMA NoReplay ==
  ASSUME IInv, mu \in Apps \cup {"free"}
  PROVE  rec \in {"none", "lock", "store"}
  BY ConnectionAssumption DEF IInv, SingleReconnect

\* The settings and the pool are in force when the replay has passed them, and
\* stay so on a connection in service.
LEMMA InForceStep ==
  ASSUME IInv, RInv, [Next]_vars, link' = "up", ~cancelled'
  PROVE  InForce'
<1> Typed /\ Restoring
  BY DEF RInv
<1> USE DEF shut, net, sup, recv, conf, svc, Break, Dead, Settled
<1>1. CASE LinkStalls \/ HeartbeatExpires \/ LinkBreaks \/ ChannelError \/ MonitorStops \/ MonitorSees
  BY <1>1 DEF Restoring, InForce, LinkStalls, HeartbeatExpires, LinkBreaks, ChannelError, MonitorStops, MonitorSees
<1>2. CASE RecLock \/ RecTop \/ RecTeardown \/ RecDial \/ RecSet
  BY <1>2 DEF Restoring, InForce, RecLock, RecTop, RecTeardown, RecDial, RecSet
<1>3. CASE RecSetCheck \/ RecHandshake \/ RecCtx \/ RecChannel \/ RecInstall
  BY <1>3 DEF Restoring, InForce, RecSetCheck, RecHandshake, RecCtx, RecChannel, RecInstall, RecGivesUp
<1>4. CASE RecQos
  BY <1>4 DEF Restoring, InForce, RecQos, RecApply, RecGivesUp
<1>5. CASE RecTopology
  BY <1>5 DEF Restoring, InForce, RecTopology, RecApply, RecGivesUp, Typed, Settings
<1>6. CASE RecPool
  BY <1>6 DEF Restoring, InForce, RecPool, RecGivesUp
<1>7. CASE RecConsume
  BY <1>7 DEF Restoring, InForce, RecConsume, Granted, Refused
<1>8. CASE RecSpawn \/ RecUnlock \/ RecStore \/ RecWait
  BY <1>8 DEF Restoring, InForce, RecSpawn, RecUnlock, RecStore, RecWait
<1>9. ASSUME NEW a \in Apps, Lock(a) \/ (\E k \in Settings : Configure(a, k)) \/ (\E q \in Queues : Start(a, q))
      PROVE  InForce'
  BY <1>9 DEF Restoring, InForce, Lock, Configure, Start
<1>10. ASSUME NEW a \in Apps, ConfigureReturns(a) PROVE InForce'
  <2>1. rec \in {"none", "lock", "store"}
    BY <1>10, NoReplay DEF ConfigureReturns
  <2> QED
    BY <1>10, <2>1 DEF Restoring, InForce, ConfigureReturns
<1>11. ASSUME NEW a \in Apps, StartConsumes(a) \/ StartWorkers(a) PROVE InForce'
  BY <1>11 DEF Restoring, InForce, StartConsumes, StartWorkers, Granted, Refused
<1>12. CASE WorkersExit \/ ParentCancel \/ ShutdownBegin \/ ShutdownInterrupt \/ ShutdownTimesOut \/ ShutdownWaited
  BY <1>12 DEF Restoring, InForce, WorkersExit, ParentCancel, ShutdownBegin, ShutdownInterrupt, ShutdownTimesOut, ShutdownWaited
<1>13. CASE ShutdownClose
  BY <1>13 DEF ShutdownClose, IInv, Stopping
<1>14. CASE UNCHANGED vars
  BY <1>14 DEF Restoring, InForce, vars
<1> QED
  BY <1>1, <1>2, <1>3, <1>4, <1>5, <1>6, <1>7, <1>8, <1>9, <1>10, <1>11, <1>12, <1>13, <1>14 DEF Next, Reconnect

\* A step of the loop over s.queues: it is at its end, consumes from one more
\* queue, or fails.
LEMMA ConsumeCases ==
  ASSUME Typed, RecConsume
  PROVE  /\ rec = "consume" /\ UNCHANGED <<queues, overtook, call, cancelled>>
         /\ \/ todo = <<>> /\ rec' = "spawn" /\ UNCHANGED <<todo, link, regs>>
            \/ /\ todo # <<>> /\ todo' = Tail(todo) /\ rec' = "consume" /\ link = "up" /\ link' = "up"
               /\ regs' = [regs EXCEPT ![Head(todo)] = @ + 1]
            \/ rec' = "wait" /\ regs' \in {regs, NoConsumers}
  BY DEF RecConsume, Granted, Refused, Break, shut, conf

\* The start of the loop, or a failure before it.
LEMMA PoolCases ==
  ASSUME RecPool
  PROVE  /\ rec = "pool" /\ UNCHANGED <<queues, call, cancelled>>
         /\ \/ /\ todo' = queues /\ rec' = "consume" /\ UNCHANGED <<link, regs>>
               /\ overtook' = [q \in Queues |-> Cardinality(Pending(q))]
            \/ rec' = "wait" /\ overtook' = overtook /\ regs' = NoConsumers
  BY DEF RecPool, RecGivesUp, Break, shut, conf

\* The second critical section of Start: it consumes, or an error leaves fewer consumers.
LEMMA StartConsumesCases ==
  ASSUME IInv, Typed, NEW a \in Apps, StartConsumes(a)
  PROVE  /\ call[a] \in Queues /\ \E c \in {"idle", "spawn"} : call' = [call EXCEPT ![a] = c]
         /\ UNCHANGED <<queues, overtook, cancelled, rec, todo>>
         /\ rec \in {"none", "lock", "store"}
         /\ \/ regs' = [regs EXCEPT ![call[a]] = @ + 1] /\ link = "up" /\ link' = "up"
            \/ regs' \in {regs, NoConsumers} /\ link' # "up"
<1>1. mu = a /\ call[a] \in Queues
  BY DEF StartConsumes
<1>2. rec \in {"none", "lock", "store"}
  BY <1>1, NoReplay
<1> QED
  BY <1>1, <1>2 DEF StartConsumes, Granted, Refused, Break, Dead, shut, conf, recv

\* No consumer is left over from the old connection.
LEMMA EmptiedStep ==
  ASSUME IInv, RInv, [Next]_vars
  PROVE  Emptied'
<1> Typed /\ Emptied
  BY DEF RInv
<1>1. CASE Aside
  BY <1>1 DEF Aside, Emptied, NoConsumers
<1>2. CASE RecConsume
  BY <1>2, ConsumeCases DEF Emptied, Rebuilding
<1>3. CASE RecPool
  BY <1>3, PoolCases DEF Emptied, Rebuilding
<1>4. CASE \E a \in Apps : StartConsumes(a)
  BY <1>4, StartConsumesCases DEF Emptied, Rebuilding
<1>5. CASE \E a \in Apps, q \in Queues : Start(a, q)
  BY <1>5 DEF Start, net, recv, Emptied, NoConsumers
<1> QED
  BY <1>1, <1>2, <1>3, <1>4, <1>5, AsideStep

\* The loop goes through s.queues from its first to its last: nobody can call
\* Start while the reconnect holds s.mu.
LEMMA PositionStep ==
  ASSUME IInv, RInv, [Next]_vars
  PROVE  Position'
<1> Typed /\ Position /\ Typed'
  BY TypedStep DEF RInv
<1> SUFFICES ASSUME rec' = "consume" PROVE Position'
  BY DEF Position
<1>1. CASE Aside
  BY <1>1 DEF Aside, Position, Replayed
<1>2. CASE RecConsume
  <2>1. /\ rec = "consume" /\ queues' = queues
        /\ todo # <<>> /\ todo' = Tail(todo)
    BY <1>2, ConsumeCases
  <2>2. /\ Len(todo) \in Nat /\ Len(queues) \in Nat /\ Len(todo) > 0
        /\ Len(todo') = Len(todo) - 1
        /\ \A j \in 1..Len(todo') : todo'[j] = todo[j + 1]
    BY <2>1 DEF Typed
  <2>3. ASSUME NEW j \in 1..Len(todo') PROVE todo'[j] = queues'[Len(queues') - Len(todo') + j]
    <3>1. j + 1 \in 1..Len(todo) /\ Len(queues') - Len(todo') + j = (Len(queues) - Len(todo)) + (j + 1)
      BY <2>1, <2>2, <2>3
    <3> QED
      BY <2>1, <2>2, <3>1 DEF Position, Replayed
  <2>4. Len(todo') <= Len(queues')
    BY <2>1, <2>2 DEF Position
  <2> QED
    BY <2>3, <2>4 DEF Position, Replayed
<1>3. CASE RecPool
  <2>1. todo' = queues' /\ Len(queues) \in Nat /\ queues' = queues
    BY <1>3, PoolCases DEF Typed
  <2> QED
    BY <2>1 DEF Position, Replayed
<1>4. CASE \E a \in Apps : StartConsumes(a)
  BY <1>4, StartConsumesCases
<1>5. ASSUME NEW a \in Apps, NEW q \in Queues, Start(a, q) PROVE FALSE
  BY <1>5, NoReplay DEF Start, recv
<1> QED
  BY <1>1, <1>2, <1>3, <1>4, <1>5, AsideStep

\* A connection in service has a consumer for every queue that the replay has
\* passed and, when there is no replay, for every queue whose Start has returned.
LEMMA ConsumingStep ==
  ASSUME IInv, RInv, [Next]_vars, link' = "up", ~cancelled'
  PROVE  Consuming'
<1> Typed /\ Position /\ Restoring
  BY DEF RInv
<1>a. Len(queues) \in Nat /\ Len(todo) \in Nat /\ \A i \in 1..Len(queues) : queues[i] \in Queues
  BY DEF Typed
<1>1. CASE Aside
  <2>1. /\ queues' = queues /\ regs' = regs
        /\ rec' = "consume" => rec = "consume" /\ todo' = todo
        /\ rec' \in Settled \cup {"consume"} => link = "up" /\ ~cancelled /\ (rec' \in Settled => rec \in Settled)
    BY <1>1 DEF Aside
  <2>2. ASSUME NEW i \in 1..Len(queues), \E a \in Apps : call[a] = queues[i]
        PROVE  \E a \in Apps : call'[a] = queues[i]
    BY <1>a, <1>1, <2>2 DEF Aside, Pending
  <2> QED
    BY <2>1, <2>2 DEF Consuming, Restoring, Replayed, Settled
<1>2. CASE RecConsume
  <2>1. /\ rec = "consume" /\ UNCHANGED <<queues, call, cancelled>>
        /\ \/ todo = <<>> /\ rec' = "spawn" /\ UNCHANGED <<todo, link, regs>>
           \/ /\ todo # <<>> /\ todo' = Tail(todo) /\ rec' = "consume" /\ link = "up"
              /\ regs' = [regs EXCEPT ![Head(todo)] = @ + 1]
           \/ rec' = "wait"
    BY <1>2, ConsumeCases
  <2>2. CASE todo = <<>> /\ rec' = "spawn" /\ UNCHANGED <<todo, link, regs>>
    <3>1. Replayed = Len(queues) /\ \A i \in 1..Replayed : regs[queues[i]] > 0
      BY <1>a, <2>1, <2>2 DEF Restoring, Consuming, Replayed
    <3> QED
      BY <2>1, <2>2, <3>1 DEF Consuming, Settled
  <2>3. CASE /\ todo # <<>> /\ todo' = Tail(todo) /\ rec' = "consume" /\ link = "up"
             /\ regs' = [regs EXCEPT ![Head(todo)] = @ + 1]
    <3>1. Len(todo) > 0 /\ Len(todo') = Len(todo) - 1 /\ Head(todo) = todo[1] /\ Head(todo) \in Queues
      BY <2>3 DEF Typed
    <3>2. Head(todo) = queues[Replayed + 1] /\ Replayed \in Nat /\ Replayed + 1 <= Len(queues)
      BY <1>a, <2>1, <3>1 DEF Position, Replayed
    <3>3. Len(queues') - Len(todo') = Replayed + 1
      BY <1>a, <2>1, <3>1 DEF Replayed
    <3>4. ASSUME NEW i \in 1..(Replayed + 1) PROVE regs'[queues[i]] > 0
      <4>1. queues[i] \in Queues /\ regs[queues[i]] \in Nat
        BY <1>a, <3>2 DEF Typed
      <4>2. CASE i = Replayed + 1
        <5>1. regs \in [Queues -> Nat] /\ queues[i] = Head(todo)
          BY <3>2, <4>2 DEF Typed
        <5> QED
          BY <2>3, <4>1, <5>1
      <4>3. CASE i # Replayed + 1
        <5>1. i \in 1..Replayed
          BY <3>2, <4>3
        <5>2. regs[queues[i]] > 0
          BY <2>1, <2>3, <5>1 DEF Restoring, Consuming
        <5> QED
          BY <2>3, <3>1, <4>1, <5>2 DEF Typed
      <4> QED
        BY <4>2, <4>3
    <3> QED
      BY <2>1, <2>3, <3>3, <3>4 DEF Consuming, Replayed, Settled
  <2>4. CASE rec' = "wait"
    BY <2>4 DEF Consuming, Settled
  <2> QED
    BY <2>1, <2>2, <2>3, <2>4
<1>3. CASE RecPool
  <2>1. rec' = "wait" \/ (rec' = "consume" /\ todo' = queues')
    BY <1>3, PoolCases
  <2>2. rec' = "consume" => Len(queues') - Len(todo') = 0
    BY <1>a, <1>3, <2>1, PoolCases
  <2> QED
    BY <2>1, <2>2 DEF Consuming, Settled, Replayed
<1>4. ASSUME NEW a \in Apps, StartConsumes(a) PROVE Consuming'
  <2>1. /\ call[a] \in Queues /\ \E c \in {"idle", "spawn"} : call' = [call EXCEPT ![a] = c]
        /\ UNCHANGED <<queues, cancelled, rec, todo>> /\ rec \in {"none", "lock", "store"}
        /\ regs' = [regs EXCEPT ![call[a]] = @ + 1] /\ link = "up"
    BY <1>4, StartConsumesCases
  <2>2. ASSUME NEW i \in 1..Len(queues)
        PROVE  regs'[queues[i]] > 0 \/ \E b \in Apps : call'[b] = queues[i]
    <3>1. queues[i] \in Queues /\ regs[queues[i]] \in Nat
      BY <1>a DEF Typed
    <3>2. CASE queues[i] = call[a]
      BY <2>1, <3>1, <3>2 DEF Typed
    <3>3. CASE queues[i] # call[a]
      <4>1. regs[queues[i]] > 0 \/ \E b \in Apps : call[b] = queues[i]
        BY <2>1 DEF Restoring, Consuming, Settled
      <4>2. regs'[queues[i]] = regs[queues[i]]
        BY <2>1, <3>1, <3>3 DEF Typed
      <4>3. ASSUME NEW b \in Apps, call[b] = queues[i] PROVE call'[b] = queues[i]
        BY <2>1, <3>3, <4>3 DEF Typed
      <4> QED
        BY <4>1, <4>2, <4>3
    <3> QED
      BY <3>2, <3>3
  <2> QED
    BY <2>1, <2>2 DEF Consuming
<1>5. ASSUME NEW a \in Apps, NEW q \in Queues, Start(a, q) PROVE Consuming'
  <2>1. /\ call[a] = "idle" /\ queues' = Append(queues, q) /\ call' = [call EXCEPT ![a] = q]
        /\ UNCHANGED <<regs, link, rec, cancelled>> /\ rec \in {"none", "lock", "store"}
    BY <1>5, NoReplay DEF Start, net, recv, shut
  <2>2. /\ Len(queues') = Len(queues) + 1 /\ queues'[Len(queues) + 1] = q
        /\ \A i \in 1..Len(queues) : queues'[i] = queues[i]
    BY <2>1 DEF Typed
  <2>3. call'[a] = q /\ \A b \in Apps : b # a => call'[b] = call[b]
    BY <2>1 DEF Typed
  <2>4. ASSUME NEW i \in 1..Len(queues')
        PROVE  regs'[queues'[i]] > 0 \/ \E b \in Apps : call'[b] = queues'[i]
    <3>1. CASE i = Len(queues) + 1
      BY <2>2, <2>3, <3>1
    <3>2. CASE i # Len(queues) + 1
      <4>1. i \in 1..Len(queues)
        BY <1>a, <2>2, <3>2
      <4>2. queues[i] \in Queues /\ (regs[queues[i]] > 0 \/ \E b \in Apps : call[b] = queues[i])
        BY <1>a, <2>1, <4>1 DEF Restoring, Consuming, Settled
      <4>3. \A b \in Apps : call[b] = queues[i] => b # a
        BY <2>1, <4>2, ConnectionAssumption
      <4> QED
        BY <2>1, <2>2, <2>3, <4>1, <4>2, <4>3
    <3> QED
      BY <3>1, <3>2
  <2> QED
    BY <2>1, <2>4 DEF Consuming
<1> QED
  BY <1>1, <1>2, <1>3, <1>4, <1>5, AsideStep

\* The positions of a queue in a beginning of s.queues are finitely many.
LEMMA OccurrencesFinite ==
  ASSUME Typed, NEW n \in Nat, NEW q
  PROVE  /\ IsFiniteSet({i \in 1..n : queues[i] = q})
         /\ Occurrences(n, q) \in Nat /\ Occurrences(n, q) <= n
<1>1. IsFiniteSet(1..n) /\ Cardinality(1..n) = n
  BY FS_Interval
<1>2. {i \in 1..n : queues[i] = q} \subseteq 1..n
  OBVIOUS
<1> QED
  BY <1>1, <1>2, FS_Subset, FS_CardinalityType DEF Occurrences

\* One more position: it counts for the queue that stands there.
LEMMA OccurrencesNext ==
  ASSUME Typed, NEW n \in Nat, NEW q
  PROVE  Occurrences(n + 1, q) = Occurrences(n, q) + (IF queues[n + 1] = q THEN 1 ELSE 0)
<1> DEFINE S == {i \in 1..n : queues[i] = q}
<1>1. IsFiniteSet(S) /\ Cardinality(S) \in Nat
  BY OccurrencesFinite DEF Occurrences
<1>2. CASE queues[n + 1] = q
  <2>1. {i \in 1..(n + 1) : queues[i] = q} = S \cup {n + 1} /\ n + 1 \notin S
    BY <1>2
  <2> HIDE DEF S
  <2>2. Cardinality(S \cup {n + 1}) = Cardinality(S) + 1
    BY <1>1, <2>1, FS_AddElement
  <2> QED
    BY <1>2, <2>1, <2>2 DEF Occurrences, S
<1>3. CASE queues[n + 1] # q
  <2>1. {i \in 1..(n + 1) : queues[i] = q} = S
    BY <1>3
  <2> QED
    BY <1>1, <1>3, <2>1 DEF Occurrences
<1> QED
  BY <1>2, <1>3

\* A queue has as many consumers as entries in s.queues that are consumed from,
\* and those of the calls of Start that a replay has overtaken.
LEMMA CountedStep ==
  ASSUME IInv, RInv, [Next]_vars
  PROVE  Counted'
<1> Typed /\ Emptied /\ Position /\ Counted /\ Typed'
  BY TypedStep DEF RInv
<1>a. Len(queues) \in Nat /\ Len(todo) \in Nat
  BY DEF Typed
<1>b. \A q \in Queues : regs[q] \in Nat /\ overtook[q] \in Nat
  BY DEF Typed
<1>1. ASSUME queues' = queues, overtook' = overtook, \A q \in Queues : Pending(q)' = Pending(q), \A q \in Queues : regs'[q] <= regs[q]
      PROVE  \A q \in Queues : regs'[q] + Cardinality(Pending(q)') <= Occurrences(Len(queues), q)' + overtook'[q]
  <2> SUFFICES ASSUME NEW q \in Queues
               PROVE  regs'[q] + Cardinality(Pending(q)') <= Occurrences(Len(queues), q)' + overtook'[q]
    OBVIOUS
  <2>1. Occurrences(Len(queues), q)' = Occurrences(Len(queues), q)
    BY <1>1 DEF Occurrences
  <2>2. regs'[q] \in Nat /\ Occurrences(Len(queues), q) \in Nat
    BY <1>a, OccurrencesFinite DEF Typed
  <2>3. regs[q] + Cardinality(Pending(q)) <= Occurrences(Len(queues), q) + overtook[q]
    BY DEF Counted
  <2> QED
    BY <1>1, <1>b, <2>1, <2>2, <2>3, PendingFinite
<1>2. ASSUME call' = call PROVE \A q \in Queues : Pending(q)' = Pending(q)
  BY <1>2 DEF Pending
<1>3. ASSUME regs' \in {regs, NoConsumers} PROVE \A q \in Queues : regs'[q] <= regs[q]
  BY <1>3, <1>b DEF NoConsumers
<1>4. CASE Aside
  <2>1. \A q \in Queues : regs'[q] <= regs[q]
    BY <1>3, <1>4 DEF Aside
  <2>2. ASSUME rec' = "consume", NEW q \in Queues
        PROVE  regs'[q] <= Occurrences(Replayed, q)' /\ Cardinality(Pending(q)') <= overtook'[q]
    <3>1. rec = "consume" /\ UNCHANGED <<queues, overtook, todo>> /\ Pending(q)' = Pending(q)
      BY <1>4, <2>2 DEF Aside
    <3>2. /\ Occurrences(Replayed, q)' = Occurrences(Replayed, q)
          /\ regs[q] <= Occurrences(Replayed, q) /\ Cardinality(Pending(q)) <= overtook[q]
      BY <3>1 DEF Occurrences, Replayed, Counted
    <3>3. Replayed \in Nat
      BY <1>a, <3>1 DEF Position, Replayed
    <3>4. Occurrences(Replayed, q) \in Nat /\ regs'[q] \in Nat
      BY <3>3, OccurrencesFinite DEF Typed
    <3> QED
      BY <1>b, <2>1, <3>1, <3>2, <3>4
  <2> QED
    BY <1>1, <1>4, <2>1, <2>2 DEF Aside, Counted
<1>5. CASE RecConsume
  <2>1. /\ rec = "consume" /\ UNCHANGED <<queues, overtook, call>>
        /\ \/ rec' = "spawn" /\ regs' = regs
           \/ /\ todo # <<>> /\ todo' = Tail(todo) /\ rec' = "consume"
              /\ regs' = [regs EXCEPT ![Head(todo)] = @ + 1]
           \/ rec' = "wait" /\ regs' \in {regs, NoConsumers}
    BY <1>5, ConsumeCases
  <2>2. CASE rec' # "consume"
    BY <1>1, <1>2, <1>3, <2>1, <2>2 DEF Counted
  <2>3. CASE /\ todo # <<>> /\ todo' = Tail(todo) /\ rec' = "consume"
             /\ regs' = [regs EXCEPT ![Head(todo)] = @ + 1]
    <3>1. Len(todo) > 0 /\ Len(todo') = Len(todo) - 1 /\ Head(todo) = todo[1] /\ Head(todo) \in Queues
      BY <2>3 DEF Typed
    <3>2. Head(todo) = queues[Replayed + 1] /\ Replayed \in Nat /\ Replayed + 1 <= Len(queues)
      BY <1>a, <2>1, <3>1 DEF Position, Replayed
    <3>3. Replayed' = Replayed + 1
      BY <1>a, <2>1, <3>1 DEF Replayed
    <3>4. ASSUME NEW q \in Queues
          PROVE  /\ regs'[q] <= Occurrences(Replayed, q)' /\ Cardinality(Pending(q)') <= overtook'[q]
                 /\ regs'[q] + Cardinality(Pending(q)') <= Occurrences(Len(queues), q)' + overtook'[q]
      <4>1. regs[q] <= Occurrences(Replayed, q) /\ Cardinality(Pending(q)) <= overtook[q]
        BY <2>1 DEF Counted
      <4>2. regs'[q] = regs[q] + (IF queues[Replayed + 1] = q THEN 1 ELSE 0)
        <5>1. regs \in [Queues -> Nat]
          BY DEF Typed
        <5> HIDE DEF Replayed
        <5> QED
          BY <1>b, <2>3, <3>1, <3>2, <5>1
      <4>3. Occurrences(Replayed, q)' = Occurrences(Replayed + 1, q)
        BY <2>1, <3>3 DEF Occurrences
      <4>4. /\ Occurrences(Replayed + 1, q) = Occurrences(Replayed, q) + (IF queues[Replayed + 1] = q THEN 1 ELSE 0)
            /\ Occurrences(Replayed, q) \in Nat
        BY <3>2, OccurrencesNext, OccurrencesFinite
      <4>5. regs'[q] <= Occurrences(Replayed + 1, q)
        BY <1>b, <4>1, <4>2, <4>4
      <4>6. Occurrences(Replayed + 1, q) <= Occurrences(Len(queues), q)
        <5>1. {i \in 1..(Replayed + 1) : queues[i] = q} \subseteq {i \in 1..Len(queues) : queues[i] = q}
          BY <1>a, <3>2
        <5> QED
          BY <1>a, <5>1, OccurrencesFinite, FS_Subset DEF Occurrences
      <4>7. /\ Occurrences(Len(queues), q)' = Occurrences(Len(queues), q)
            /\ Occurrences(Len(queues), q) \in Nat /\ Occurrences(Replayed + 1, q) \in Nat
            /\ Pending(q)' = Pending(q) /\ regs'[q] \in Nat
        <5>1. Occurrences(Len(queues), q)' = Occurrences(Len(queues), q)
          BY <2>1 DEF Occurrences
        <5>2. Occurrences(Len(queues), q) \in Nat /\ Occurrences(Replayed + 1, q) \in Nat
          <6>1. Replayed + 1 \in Nat
            BY <3>2
          <6> QED
            BY <1>a, <6>1, OccurrencesFinite
        <5>3. Pending(q)' = Pending(q) /\ regs'[q] \in Nat
          BY <1>2, <2>1 DEF Typed
        <5> QED
          BY <5>1, <5>2, <5>3
      <4> QED
        BY <1>b, <2>1, <4>1, <4>3, <4>5, <4>6, <4>7, PendingFinite
    <3> QED
      BY <3>4 DEF Counted
  <2> QED
    BY <2>1, <2>2, <2>3
<1>6. CASE RecPool
  <2>1. /\ UNCHANGED <<queues, call>> /\ regs' = NoConsumers
        /\ \/ /\ rec' = "consume" /\ todo' = queues'
              /\ overtook' = [q \in Queues |-> Cardinality(Pending(q))]
           \/ rec' = "wait" /\ overtook' = overtook
    BY <1>6, PoolCases DEF Emptied, Rebuilding
  <2>2. CASE rec' = "wait" /\ overtook' = overtook
    BY <1>1, <1>2, <1>3, <2>1, <2>2 DEF Counted
  <2>3. CASE /\ rec' = "consume" /\ todo' = queues'
             /\ overtook' = [q \in Queues |-> Cardinality(Pending(q))]
    <3>1. ASSUME NEW q \in Queues
          PROVE  /\ regs'[q] <= Occurrences(Replayed, q)' /\ Cardinality(Pending(q)') <= overtook'[q]
                 /\ regs'[q] + Cardinality(Pending(q)') <= Occurrences(Len(queues), q)' + overtook'[q]
      <4>1. Replayed' = 0 /\ regs'[q] = 0
        BY <1>a, <2>1, <2>3 DEF Replayed, NoConsumers
      <4>2. Occurrences(0, q) \in Nat /\ Occurrences(Replayed, q)' = Occurrences(0, q)
        BY <2>1, <4>1, OccurrencesFinite DEF Occurrences
      <4>3. Occurrences(Len(queues), q) \in Nat /\ Occurrences(Len(queues), q)' = Occurrences(Len(queues), q)
        BY <1>a, <2>1, OccurrencesFinite DEF Occurrences
      <4>4. Pending(q)' = Pending(q) /\ overtook'[q] = Cardinality(Pending(q))
        BY <1>2, <2>1, <2>3
      <4> QED
        BY <4>1, <4>2, <4>3, <4>4, PendingFinite
    <3> QED
      BY <3>1 DEF Counted
  <2> QED
    BY <2>1, <2>2, <2>3
<1>7. ASSUME NEW a \in Apps, StartConsumes(a) PROVE Counted'
  <2>1. /\ call[a] \in Queues /\ \E c \in {"idle", "spawn"} : call' = [call EXCEPT ![a] = c]
        /\ UNCHANGED <<queues, overtook, rec>> /\ rec \in {"none", "lock", "store"}
        /\ regs' = [regs EXCEPT ![call[a]] = @ + 1] \/ regs' \in {regs, NoConsumers}
    BY <1>7, StartConsumesCases
  <2>2. ASSUME NEW q \in Queues
        PROVE  regs'[q] + Cardinality(Pending(q)') <= Occurrences(Len(queues), q)' + overtook'[q]
    <3>1. /\ Occurrences(Len(queues), q)' = Occurrences(Len(queues), q) /\ Occurrences(Len(queues), q) \in Nat
          /\ regs[q] + Cardinality(Pending(q)) <= Occurrences(Len(queues), q) + overtook[q]
          /\ regs'[q] \in Nat
      BY <1>a, <2>1, OccurrencesFinite DEF Occurrences, Counted, Typed
    <3>2. CASE q = call[a]
      <4>1. Pending(q)' = Pending(q) \ {a} /\ a \in Pending(q)
        BY <2>1, <3>2, ConnectionAssumption DEF Pending, Typed
      <4>2. Cardinality(Pending(q)') = Cardinality(Pending(q)) - 1
        BY <4>1, PendingFinite, FS_RemoveElement
      <4>3. regs'[q] <= regs[q] + 1
        BY <1>b, <1>3, <2>1, <3>2 DEF Typed
      <4> QED
        BY <1>b, <2>1, <3>1, <4>2, <4>3, PendingFinite
    <3>3. CASE q # call[a]
      <4>1. Pending(q)' = Pending(q)
        BY <2>1, <3>3, ConnectionAssumption DEF Pending, Typed
      <4>2. regs'[q] <= regs[q]
        BY <1>b, <1>3, <2>1, <3>3 DEF Typed
      <4> QED
        BY <1>b, <2>1, <3>1, <4>1, <4>2, PendingFinite
    <3> QED
      BY <3>2, <3>3
  <2> QED
    BY <2>1, <2>2 DEF Counted
<1>8. ASSUME NEW a \in Apps, NEW r \in Queues, Start(a, r) PROVE Counted'
  <2>1. /\ call[a] = "idle" /\ queues' = Append(queues, r) /\ call' = [call EXCEPT ![a] = r]
        /\ UNCHANGED <<regs, overtook, rec>> /\ rec \in {"none", "lock", "store"}
    BY <1>8, NoReplay DEF Start, net, recv
  <2>2. /\ Len(queues') = Len(queues) + 1 /\ queues'[Len(queues) + 1] = r
        /\ \A i \in 1..Len(queues) : queues'[i] = queues[i]
    BY <2>1 DEF Typed
  <2>3. ASSUME NEW q \in Queues
        PROVE  regs'[q] + Cardinality(Pending(q)') <= Occurrences(Len(queues), q)' + overtook'[q]
    <3> DEFINE old == Occurrences(Len(queues), q)
               new == Occurrences(Len(queues), q)'
    <3>2. new = old + (IF r = q THEN 1 ELSE 0)
      <4> DEFINE S == {i \in 1..Len(queues) : queues[i] = q}
                 T == {i \in 1..(Len(queues) + 1) : queues'[i] = q}
      <4>1. IsFiniteSet(S) /\ Cardinality(S) = old /\ old \in Nat
        BY <1>a, OccurrencesFinite DEF Occurrences
      <4>2. new = Cardinality(T)
        BY <2>2 DEF Occurrences
      <4>3. r = q => T = S \cup {Len(queues) + 1} /\ Len(queues) + 1 \notin S
        BY <1>a, <2>2
      <4>4. r # q => T = S
        BY <1>a, <2>2
      <4> HIDE DEF S, T, old, new
      <4>5. r = q => Cardinality(T) = Cardinality(S) + 1
        BY <4>1, <4>3, FS_AddElement
      <4> QED
        BY <4>1, <4>2, <4>4, <4>5
    <3>3. old \in Nat /\ regs[q] + Cardinality(Pending(q)) <= old + overtook[q] /\ UNCHANGED <<regs, overtook>>
      BY <1>a, <2>1, OccurrencesFinite DEF Counted
    <3> HIDE DEF old, new
    <3>4. CASE r = q
      <4>1. Pending(q)' = Pending(q) \cup {a} /\ a \notin Pending(q)
        BY <2>1, <3>4, ConnectionAssumption DEF Pending, Typed
      <4>2. Cardinality(Pending(q)') = Cardinality(Pending(q)) + 1
        BY <4>1, PendingFinite, FS_AddElement
      <4> QED
        BY <1>b, <3>2, <3>3, <3>4, <4>2, PendingFinite DEF new
    <3>5. CASE r # q
      <4>1. Pending(q)' = Pending(q)
        BY <2>1, <3>5, ConnectionAssumption DEF Pending, Typed
      <4> QED
        BY <1>b, <3>2, <3>3, <3>5, <4>1, PendingFinite DEF new
    <3> QED
      BY <3>4, <3>5
  <2> QED
    BY <2>1, <2>3 DEF Counted
<1> QED
  BY <1>4, <1>5, <1>6, <1>7, <1>8, AsideStep

\* Every step keeps the invariant of the replay.
LEMMA RInvStep == IInv /\ RInv /\ [Next]_vars => RInv'
<1> SUFFICES ASSUME IInv, RInv, [Next]_vars PROVE RInv'
  OBVIOUS
<1>1. Restoring'
  BY InForceStep, ConsumingStep DEF Restoring
<1> QED
  BY <1>1, FlagsStep, TypedStep, EmptiedStep, PositionStep, CountedStep DEF RInv

\* The invariant of the replay holds in every state.
LEMMA ReplayInvariance == Spec => []RInv
  BY RInvInit, RInvStep, Invariance, PTL DEF Spec

\* A connection in service is complete as soon as s.mu is free: whatever failed
\* on the way and however calls of the application and reconnects interleave,
\* reconnect leaves no setting, no pool and no consumer out.
THEOREM ServiceIsComplete == Spec => []Restored
<1>1. IInv /\ RInv => Restored
  <2> SUFFICES ASSUME IInv, RInv, link = "up", mu = "free", ~cancelled
               PROVE  /\ installed /\ pool
                      /\ stored \subseteq applied
                      /\ \A i \in 1..Len(queues) : regs[queues[i]] > 0 \/ \E a \in Apps : call[a] = queues[i]
    BY DEF Restored
  <2>1. rec \in {"none", "lock", "store"}
    BY NoReplay
  <2>2. InForce /\ Consuming
    BY DEF RInv, Restoring
  <2> QED
    BY <2>1, <2>2 DEF InForce, Consuming, Settled
<1> QED
  BY <1>1, Invariance, ReplayInvariance, PTL

\* However often the connection is re-established, a queue has no more consumers
\* than it was given to Start and one for each call that the last replay overtook.
THEOREM ConsumersAreBounded == Spec => []ConsumerBound
<1>1. RInv => ConsumerBound
  <2> SUFFICES ASSUME RInv, NEW q \in Queues
               PROVE  regs[q] <= Cardinality({i \in 1..Len(queues) : queues[i] = q}) + overtook[q]
    BY DEF ConsumerBound
  <2>1. regs[q] + Cardinality(Pending(q)) <= Occurrences(Len(queues), q) + overtook[q]
    BY DEF RInv, Counted
  <2>2. Len(queues) \in Nat /\ regs[q] \in Nat /\ overtook[q] \in Nat /\ Typed
    BY DEF RInv, Typed
  <2>3. Occurrences(Len(queues), q) \in Nat
    BY <2>2, OccurrencesFinite
  <2> QED
    BY <2>1, <2>2, <2>3, PendingFinite DEF Occurrences
<1> QED
  BY <1>1, ReplayInvariance, PTL

\* The types of the supervision; a queue has at most MaxStarts consumers and one
\* for each goroutine of the application.
THEOREM TypeCorrect == Spec => []TypeOK
<1>1. RInv => TypeOK
  <2> SUFFICES ASSUME RInv PROVE TypeOK
    OBVIOUS
  <2>1. Flags /\ Typed
    BY DEF RInv
  <2>2. ASSUME NEW q \in Queues PROVE regs[q] \in 0..(MaxStarts + Cardinality(Apps))
    <3>1. regs[q] + Cardinality(Pending(q)) <= Occurrences(Len(queues), q) + overtook[q]
      BY DEF RInv, Counted
    <3>2. /\ Len(queues) \in Nat /\ regs[q] \in Nat /\ Len(queues) <= MaxStarts
          /\ overtook[q] \in 0..Cardinality(Apps)
      BY <2>1 DEF Typed
    <3>3. Occurrences(Len(queues), q) \in Nat /\ Occurrences(Len(queues), q) <= Len(queues)
      BY <2>1, <3>2, OccurrencesFinite
    <3> QED
      BY <3>1, <3>2, <3>3, PendingFinite, ConnectionAssumption
  <2>3. regs \in [Queues -> 0..(MaxStarts + Cardinality(Apps))]
    BY <2>1, <2>2 DEF Typed
  <2> QED
    BY <2>1, <2>3 DEF Flags, Typed, TypeOK
<1> QED
  BY <1>1, ReplayInvariance, PTL
=============================================================================
