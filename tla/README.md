# Verification of huma

huma is a Go SDK for RabbitMQ. An application creates one `SDK` with `NewSDK`,
declares queues, starts consumers with handlers, publishes messages through a pool
of confirm-mode channels and ends with `Shutdown`; in between the SDK restores a
connection that fails. This directory models the parts of the SDK where goroutines,
the broker and the network meet, checks the models with TLC on small instances, and
proves their main safety properties with TLAPS for all values of the constants.
`PROJECT.json` lists components, runs, mutants, hazards, findings and theorems, and
maps every definition that models code to the lines it models.

## The system

| Component | Source | State | Operations | Interacts with |
|---|---|---|---|---|
| Publisher pool | `publisher_pool.go` | buffered Go channel of AMQP channels, `closed`, atomic `currentPoolSize`, `mu` | constructor, `get`, `put`, `close`, `interrupt` | `publishAMQP` (get, put), `reconnect` and `Shutdown` (close) |
| Supervision | `reconnect.go` | `reconnecting` flag, notification channels, one monitor per connection | `monitorConnection`, `handleCloseError`, `reconnect`, `waitReconnect` | replaces `conn`, `channel`, pool under `s.mu`; restarts consumers |
| Set-up calls | `rabbitmqsdk.go` | `qosConfigured`, `declaredQueues`, `queues` | `SetQos`, `DeclareQueues`, `Start` | use `s.channel` under `s.mu`; what they store is replayed by `reconnect` |
| Shutdown | `rabbitmqsdk.go` | `shutdownOnce`, `closeOnce`, `connectionState`, the context | `Shutdown`, `connectionState.set/interrupt/current` | interrupts the socket without `s.mu`, waits for all goroutines |
| Consumers | `rabbitmqsdk.go` | per delivery: the retry count in a header | `consume`, `processDelivery`, `handleDeliveryFailure` | the handler, `publishAMQP` for retries, the broker |
| Publish path | `rabbitmqsdk.go` | none of its own | `Publish`, `BatchPublish`, `PublishWithDelayDLXTTL`, `publishAMQP` | the pool; a cancelled publish closes the shared socket |
| Topology | `rabbitmqsdk.go` | `declaredQueues`; exchanges, queues and bindings on the broker | `declareQueuesLocked` | `DeclareQueues` and `reconnect` call it |
| Construction | `rabbitmqsdk.go`, `types.go` | configuration, what was acquired so far | `NewSDK`, `QueueConfig.validate` | everything |
| Metrics | `metrics.go` | Prometheus counters in a shared registry | registration with rollback, increments | everything |
| Message builder, tracing | `message.go`, `trace.go` | body, headers, content type, expiration, error | `With...`, `validate`, the injection of a span | `Publish` |
| Logger, interface, mock, examples | the other files | | | |

The hard behaviours are the interleavings of `get`, `put` and `close`, whose count is
partly changed outside the lock; the hand-over from one connection's monitor to
`reconnect` and on to the next monitor; a replay of which any step may fail; `Start`,
which stores and consumes in two critical sections; `Shutdown` racing a dial and
calls that block under `s.mu` on a silent peer; a publish that is cancelled while its
write is under way, on a socket all others share and with a pool that may have been
replaced; retries whose outcome is not known when the connection is lost; a topology
that is declared in several steps; and calls of `NewSDK` that register and unregister
the same names. What makes each part correct:

- pool: an exact and bounded count, exclusive use, no leaked channel, nothing left
  after `close`, every `get` returns;
- supervision: one reconnect at a time, somebody always responsible for the
  connection, a connection in service is complete, recovery when failures cease;
- Shutdown: no connection comes to life after the interrupt, every goroutine ends,
  no connection and no pool is left;
- publish path: nil means acknowledged, batches in order, a channel is given back only when
  nobody writes to it, a cancellation returns and harms no other connection;
- consumers: at-least-once delivery, none rejected early, retries end;
- topology: no queue without its dead letters, a connection in service has everything,
  a replay never contradicts itself;
- construction: a failed `NewSDK` leaves nothing, a rollback touches nobody else;
- messages and configuration: what is sent and declared is what was asked for.

## The modules

| Module | Models |
|---|---|
| `PublisherPool`, `MCPool` | the pool, any number of publishers and closers |
| `Lender` | what the pool promises its publishers |
| `PublisherPoolProofs` | its theorems |
| `Publish`, `MCPublish` | concurrent publishes and batches over several connections and pools |
| `PublishProofs` | its theorems, and that publishers use a pool as `Lender` says |
| `Connection`, `MCConnection` | the life of the connection: monitor, reconnect, set-up calls, Shutdown |
| `ConnectionProofs` | its theorems |
| `Delivery`, `MCDelivery` | one message through workers, retries and redeliveries |
| `AtLeastOnce` | what the consumers promise about a message |
| `DeliveryProofs` | its theorems, and that the consumers keep that promise |
| `Topology`, `MCTopology` | queue configurations from `validate` to the broker, declaration by declaration, their replay, and the consumers restarted after it |
| `TopologyProofs` | its theorems |
| `Construction`, `MCConstruction` | concurrent calls of `NewSDK` and the registration of their metrics |
| `ConstructionProofs` | its theorems |
| `Message`, `MCMessage` | a `Message` that is built and published repeatedly |
| `MessageProofs` | its theorem |

How they fit together: `PublisherPool` implements `Lender`, and `Publish` uses one
`Lender` per connection, so that what holds for publishers over several connections
rests on what is proved about one pool. `Connection` and `Topology` look at the same
`reconnect` from two sides: the first has its goroutines and locks and takes a call of
`DeclareQueues` as one setting, the second has its declarations and takes for granted
that somebody reconnects. `Delivery` implements `AtLeastOnce` and contains the outcomes
of `publishAMQP` that `Publish` has.

The `MC` modules add only symmetry sets and values for TLC. Definitions marked
"Mutated form of X" are X with a plausible mistake; TLC must find the property they
are paired with in `PROJECT.json` violated when one of them takes X's place. They are
part of no specification.

### PublisherPool

One action is one step another goroutine can see: a receive from or send to
`p.channels`, a load or add of `currentPoolSize`, a critical section of `p.mu`. The
critical section of `get` spans `conn.Channel` and `Confirm`, so it is split
(`LockToGrow`, `OpenChannel`) and `mu` is a variable; those of `put` and `close` are
single steps. A channel that `get` has opened and could not put in confirm mode is
`spurned`: it is open and uncounted, outside the lock, until `CloseSpurned` closes it
(in the constructor nobody else can see it, and `FillFails` closes it with the others). `close` drains one channel at a time (`DrainTake`, `DrainClose`) outside
the lock, as the code does. `pc` says where a goroutine is and `hand` what it has
taken out of the pool. A context may expire at any moment, so each check of it is a
choice. A lost connection refuses `Channel()` (`ConnectionDies`) and its channels close
one at a time (`ChannelDies`); `interrupt`, which closes the socket, is such a loss.
An identifier that is closed and referred to by nobody may stand for a later channel,
which keeps the set of channels finite without bounding how many are opened.

`PoolImplementsLender` maps a publisher between `get` and `put` to a borrower and the
pool to open, closing (closed, the buffer not empty yet) or closed. A `get` that overtakes
`close` may still be lent a channel from the buffer; an abandoned construction counts
as an open pool that lends nothing.

### Publish

A publisher runs `BatchPublish`; `pc` follows `Publish`, `publishAMQP` and, where they
block, `get` and `put`, from the check of the context to the deferred `put`. Each pool has
its mutex `mu`: `get` opens a channel under it (`LockPool`, `Opened`), `put` closes one
under it when the pool is closed or its buffer full (`Discard`, `Discarded`), and on a
silent peer neither call ends, nor does anybody who waits for the lock; contexts play no
part there. A `get` that waits for a channel ends with its context (`GetFails`). The
publish goroutine is a record in `writing`: it ignores the context too, and blocks on a
silent peer until the socket is closed. `Interrupt` is the `ctx.Done()` branch with
`pool.interrupt`, `Settle` the receive that follows.

`Dial` records the new socket in `connectionState` (`socket`), `NewPool` gives the pool
what is on record by then (`rawConn`), and `Interrupt` closes that, not "the pool's
connection"; that both are the same is `CancelBreaksOwn`. `link` separates a socket that
is closed (`cut`) from a client library that has noticed (`down`), because in between
channels look alive and confirmations are pending; what the broker received before may be
stored even then. `RetirePool`, `ClosePool`, `PoolDrained`, `CloseConnection`, `Dial`,
`NewPool` and `DialFails` are `reconnect` as publishers see it, `Stop` the interrupt of
`Shutdown`, which then closes the pool before it gives it up. The refusal of an invalid
message is one of the errors of `Begin`. A frame is unsent, on the wire, acknowledged or
refused: whether the broker has stored a message it did not answer makes no difference to
the SDK, and it acknowledges a message it cannot route as well. Free channels of a pool
are alike, and what a call leaves in its variables is reset when it returns.

By design, cancelling one publish closes a connection that may be healthy, and every
other publish and consumer on it fails and is restored by `reconnect`. The properties
show what is left of that: it is never another connection, and everybody gets away.

### Connection

`reconnect` closes the old connection before it dials, so only the latest one is
kept: `link` is its state (handshake, up, stalled, chanerr, lost, closed), `registered`
whether `connectionState` knows its socket, `installed` whether `s.conn` and
`s.channel` are it, `armed` whether `NotifyClose` was called while it lived. `rec` is the
label of the reconnect goroutine, one per statement that calls the broker or touches
shared state; `RecLock` to `RecUnlock` hold `s.mu`. The deferred calls of `reconnect`
run in reverse order, so `RecUnlock` precedes `RecStore`, which resets the flag.
`Start` is two critical sections (`Start`, then `Lock` and `StartConsumes`) and the calls
of `s.wg.Go` after them, without the lock (`StartWorkers`); its queue is in `queues` from
the first on. `Shutdown` waits for `s.wg` (`ShutdownWaited`) and then takes `s.mu` to close
everything (`ShutdownClose`). `regs` counts the broker's consumers of each queue on
the current channel. Two variables are history: `missed` is a close error that
`handleCloseError` dropped, `overtook` the calls of `Start` on each queue that were between
their critical sections when the last replay began to consume.

A call on a stalled link blocks, whatever lock it holds, until the heartbeat expires
or the socket is interrupted. Abstractions: a call of `Start` has one queue, a call of
`DeclareQueues` is one setting, `workers` says whether some worker runs, and the pool is
there or not (its inside is `PublisherPool`). The broker ends a connection that asks
for a second consumer with a tag in use, or on an exclusive queue (`Single`).

### Delivery

Copies of a message with the same retry count are alike, so the state counts them:
`ready` in the queue, `dead` rejected for good; `frames` is the sequence of settlements
on their way. `held` is the delivery each worker has and `tie` the broker's view of it:
owned by the worker, settled, or gone with its channel. `Republish` is `publishAMQP` as
the retry sees it: confirmed, failed before anything was sent, or failed with an unknown
outcome. A lost connection makes the broker requeue every delivery it has no
settlement for, those under way included. The context may be done while a worker still
takes deliveries, because `select` prefers neither. A retry is routed back to the queue
it came from, so unroutable retries are not modelled.

`HookPanics` is a label hook or logger that panics after the `Ack` or `Nack`: the deferred
`recover` of `processDelivery` covers it, so the delivery is handed to
`handleDeliveryFailure` although it is settled, and the second settlement ends the
channel. `ProcessDies` is a crash and a restart.

`AtLeastOnce` knows of a message only whether it is owed, processed or rejected;
`ImplementsAtLeastOnce` maps it to all copies together.

### Topology

A declaration is a record of its kind, name and arguments; `broker` is the set of those
that exist. The broker compares the arguments of queues (`QueueArgs`, `DelayArgs`: type,
life, dead letters, consumer timeout; TTL and the route that expired messages take), while
another exchange or binding contradicts nothing (`Compatible`). `Declarations` lists what one queue needs, in
the order of the code: dead-letter exchange, DLQ, binding, then exchange and delay
queue, then the queue, then its binding. `DeclareQueues` and the replay work through
their configurations one declaration at a time (`Declare`) and may be refused, because
what exists differs or for reasons of the broker's own (`DeclarationRefused`).
`validate` is applied before each configuration; the delay goes through the conversions
of the code, to milliseconds and to an int32, with `TicksPerMilli` ticks to a
millisecond and an int32 of `2 * Half` values so that TLC can go through the edges.
Queues live as long as their configuration says (`life`). `cancelled` holds the names
that somebody deleted since the last reconnect: nothing restores those before the next
one. Abstractions: the two critical sections of `Start` are in `Connection`; the checks
of single fields in `validate` and the context are an error before any queue; `NoWait`
declarations, whose errors arrive later, and the deletion of exchanges and DLQs are left
out.

### Construction

Each step of `NewSDK` acquires something or fails and releases the list its error path
names; `Register` and `Unregister` are one collector each, because other calls and the
application use the same registry in between. The registry (`Accepts`) refuses a
descriptor that is not valid, as with the label name `queue_name`, a name that is taken,
and a name with other labels than it has ever been registered with (`dims`), which
`Unregister` does not make it forget. `Shutdown` is one step (its inside is in
`Connection`) and leaves the metrics registered, so a second `NewSDK` with the same
namespace fails after it; `SomebodyWins` allows for that. The checks of the
configuration, each of a single value, are one choice between an error and going on.

### Message

One action per builder call that matters and `Publish` up to `publishAMQP`: validation,
with tracing enabled the injection into the message's own headers, the `InjectHeaders` hook,
which may return any table or nil, and the conversion of the expiration, in ticks as in
`Topology`. `wanted` and `sent` are history variables. `json.Marshal` may fail at any
call.

## Runs

| Run | Shows | Result |
|---|---|---|
| `pool_safety` | count exact and bounded, exclusive use, no leak, closed pool drained; the pool implements `Lender` | pass, 38 230 states |
| `pool_liveness` | every `get` returns; `close` releases every channel for good | pass, 4 568 states |
| `pool_lost_wakeup` | the comment on `get`, with a patient context | violated |
| `publish` | nil means acknowledged and batches in order, writes within loans, a cancellation breaks its own connection only, pools used as `Lender` says; a publish cancelled in its write returns without heartbeats, one cancelled elsewhere with them, every one if the broker answers too | pass, 335 997 states |
| `connection` | supervision, replay, consumers, Shutdown, where errors are dropped; all goroutines end after the interrupt, with a silent peer; recovery once failures cease, unless the error was dropped | pass, 328 775 states |
| `connection_lost_reconnect` | the recovery without the exception | violated |
| `connection_start_retried` | the recovery with a queue that admits one consumer | violated |
| `delivery` | no loss, no early rejection, N + 1 attempts without failures, every copy settled; `AtLeastOnce` is implemented | pass, 85 992 states |
| `topology` | dead letters first, nothing durable lost, complete in service, consistent replay, delays kept, in service again once failures cease | pass, 214 727 states |
| `topology_short_delay` | the error message of `validate`: a delay is at least a millisecond | violated |
| `construction` | a failed `NewSDK` leaves nothing, rollbacks are harmless, calls that race do not all lose | pass, 2 410 344 states |
| `message` | the wanted body, its own trace or the one before, the expiration asked for | pass, 222 048 states |

What the violations show (`findings` in `PROJECT.json` quotes the lines they contradict):

1. `put` uncounts a dead channel without waking a `get` that waits for one, though the
   pool then has room. The waiter stays until its context expires (20 ms by default).
2. The new monitor runs before `s.reconnecting` is reset. A connection that fails in
   that window is never restored. `DropsOnlyAtHandover` shows, and the theorem
   `DropsInOneWindow` proves, that this is the only window.
3. A `Start` that failed keeps its queue in `s.queues`. When it is called again and the
   queue has a consumer tag or is exclusive, no later reconnect can succeed.
4. `validate` refuses a `DLXTTL` of zero and less, so one below a millisecond passes and is
   declared as a TTL of 0. `DelayKept` is about those of a millisecond and more.

### Observations

What the models say about the code apart from that; each is a case that a property
above excludes or delimits, so it shows in the statement of the property.

- `Start` calls `s.wg.Go` after it has released `s.mu`. A `Shutdown` in between finds the
  wait group at zero, closes everything and returns before the worker starts, though the
  comment on `Shutdown` says that it stops all workers. The worker ends soon
  (`GoroutinesEnd`), and `ShutdownClean` says what `Shutdown` leaves behind all the same;
  it is silent about workers for this reason.
- A `PublisherMaxPoolSize` of 2^31 or more passes the check of `NewSDK`, wraps in
  `newPublisherChannelPool`, and the pool has a limit below its initial size: it never
  grows, and a channel that dies is not replaced. `PoolAssumption` assumes it away.
- Redeliveries after a failure are not counted in the header, so `MaxRedelivery = N`
  allows more than N + 1 runs of the handler once a connection was lost
  (`FaultFreeBound` holds without failures).
- A label hook or logger that panics after the `Ack` is taken for a handler that failed:
  a message that was processed may be published again (`HookPanics`).
- A publish whose connection is lost reports that RabbitMQ negatively acknowledged the
  message, which may be stored. A caller that publishes again makes a duplicate
  (`AckedInOrder` leaves one message of a batch open).
- A cancelled publish returns for sure only when it is in its write or waits for a channel
  or a confirmation. `p.mu.Lock`, `conn.Channel` and `ch.Close` take no notice of the
  context, so with a silent peer a `get` or `put` there, and everybody who waits for the
  pool's lock, stays until a heartbeat is missed or a write that is cancelled closes the
  socket: `InterruptReturns` needs no heartbeat, `CancelReturns` does.
- With tracing, a message that is published again under a context without a span carries
  the trace of the publish before (`SendsAsAsked` says so).
- `declaredQueues` only grows. A queue or delay queue that was deleted and declared with
  other arguments is replayed in both forms, and no reconnect succeeds any more. The same
  follows from a `Start` of a queue that does not exist, which stays in `s.queues`. Both
  are the exceptions of `Restores`.
- `IncReconnects` precedes the restart of the consumers, so an attempt that fails there
  is counted and so is the next.
- An expiration below a millisecond is sent as "0" (`SendsAsAsked` allows less than a
  millisecond).
- A `Shutdown` leaves the metrics registered.

### Bounds

- Pool: four publishers on a maximum of three make two wait at once; initial size two
  below the maximum three makes `put` find the buffer full; two closers are `reconnect`
  and `Shutdown`; four channels leave one fresh when three are open. The liveness run
  and the violated one have two publishers, where a wait already needs the other to let go.
- Publish: two publishers on two channels, so that one may return its channel while the
  other opens one; one calls `BatchPublish` with two messages and may cancel, the other
  `Publish` with `context.Background()` (`Cancellable`); a second connection is enough for
  a publisher to be left with the pool of the first. Cancellations of several publishers
  at once are left to the theorems.
- Connection: one application goroutine, which a reconnect or `Shutdown` may overtake
  between any two of its critical sections; several would take `s.mu` in turn, and the
  theorems are for any number. Two starts give a queue registered twice or two queues;
  `MaxFaults` 2 is a failure and another during the recovery from it.
- Delivery: two workers hold a copy and its original at the same time; limits -1, 0 and
  1 are the three modes. Two failures cover a republish with unknown outcome followed by
  a lost connection, two losses, or a hook that panics twice. `attempts` stops one above
  the promise. Counts in headers from outside the SDK start within the limit.
- Topology: two calls out of batches of one or two configurations that agree, disagree
  and fail half way, with every life, another route, a consumer timeout, delays on either
  side of the limit of an int32 and that are no whole number of milliseconds; two failures are one during service or a
  call and one during the replay; one deletion. The bounds on calls, failures and
  deletions make the number of states finite; the system itself has none.
- Construction: three calls, two namespaces and three collectors: a rollback of more than
  one collector while two others register; a collector of the application may be in the
  way of any of them, or have left its labels there. Label names are none, a valid and an
  invalid one.
- Message: two spans, and expirations on both sides of zero and of a millisecond.

`CHECK_DEADLOCK FALSE` stands where the system may stop: a pool that is closed or was
never built, a message that is settled, publishers that have returned, a construction
that is over, and `Topology` when its bounds are used up and it is in service.

### Fairness

- Goroutines that can run do so (the Go scheduler): weak fairness of each step.
- `sync.Mutex` hands itself to a starving waiter: strong fairness of steps that lock.
- `get` runs under a context with the deadline `publisherPoolWait`, and a context that has
  expired stays so: strong fairness of the step that notices it (`Expires`), except in
  `PatientSpec`, which asks what happens before the deadline.
- Handlers return and the broker reads its socket (`Delivery`), as any progress needs.
- `Publish`: `FairSpec` makes the SDK's goroutines run, a `get` that waits for a channel end
  with its context and the client library notice a closed socket, and lets `Shutdown`
  finish closing a pool; neither the broker nor a heartbeat is fair, and nothing makes a
  call on a silent peer return, so `InterruptReturns` rests on the interrupt alone.
  `CancelReturns` assumes `Heartbeats`, `PublishReturns` `Served`, a broker that answers and
  heartbeats, which a caller that never cancels needs.
- `Topology`: declarations are answered and `reconnect` goes on; what may stop is the
  sequence of failures, since each is bounded.
- The heartbeat expires where `Recovers` assumes it (and in `RecoverySpec` of the violated
  runs): amqp091 sends heartbeats, but `Shutdown` must not depend on them, so
  `GoroutinesEnd` is checked without.
- Nothing makes the application call, the network fail or `Shutdown` time out.

## Theorems

`PublisherPoolProofs`, for any finite sets of publishers and closers, any channels and
any `0 < Size <= MaxPoolSize` (`PoolAssumption`, which `NewSDK` enforces but for a maximum that wraps): `TypeCorrect`,
`ChannelsAreExclusive`, `NothingLeaks`, `SizeIsAccurate`, `PoolIsBounded`,
`ClosedIsDrained`, `PoolIsLender`. None of these is inductive alone. `Control` relates program counters,
hands, the lock and the closer: a goroutine holds a channel at four labels only, and a
spurned one at one; the
holder of `mu` is the one opening a channel, and there is room for it as long as it
holds `mu`, because others only lower the count; a closed pool that is not empty has
a closer at work. `StepIsMove` then shows that every step is one of seven moves of
channels (stay, take, drop, return, grow, stock, clear), and counting (`CountingStep`)
and placement (`PlacesStep`) are proved for the moves, not for each action.
`ClosedIsDrained` and `PoolIsBounded` follow from the invariant with the cardinality
theorems of the library. `PoolIsLender` is the refinement: from the same invariant every
step of the pool is a loan, a return, a step of closing or nothing to its borrowers; that
a loan stays within `MaxPoolSize` is `PoolIsBounded` once more.

`PublishProofs`, for any finite sets of publishers, whichever may cancel, and of channels, any batches and number
of connections (`PublishAssumption`): `TypeCorrect`, `BatchesAreAckedInOrder`,
`WritesStayOnLoan`, `CancelsBreakTheirOwn`, `PoolsAreUsedAsLenders`. The invariant says what a
publisher holds at each label (`Holdings`), how far its batch has come (`Advance`: all
before the index acknowledged, nothing after it sent, no error forgotten on the way to
the caller), that a publish goroutine belongs to a publisher that still waits for it
(`Writer`), that no two have the same channel (`Exclusive`), that pools come with their
connections in order (`PoolsExist`), that the socket on record is that of the connection
still without a pool and every pool has got its own (`Sockets`), and who holds a pool's
mutex (`Locked`: no pool is closed while a channel is opened in it). `Writer` is what `publishAMQP` waits for after an
interrupt: without it a channel could be put back while it is written to. `Sockets` is what
`CancelsBreakTheirOwn` rests on: it has to hold over a dial, a replay and the new pool, with
the old pool still in use.
`PoolsAreUsedAsLenders` goes through the steps once more for each pool: a step of
publishers is a loan or a return of one pool and nothing to the others.

`ConnectionProofs`, for any finite set of application goroutines, any queues, starts and
failures (`ConnectionAssumption` otherwise only keeps names apart): `OneReconnectAtATime`,
`AlwaysLookedAfter`, `DropsInOneWindow`, `InterruptIsFinal`, `ShutdownIsClean`, and on top
of them `ServiceIsComplete`, `ConsumersAreBounded`, `TypeCorrect`. The
invariant of the first five adds who is responsible while a reconnect winds up and from which label on
the close notifications are armed (`Responsible`), that a socket is unknown to
`connectionState` only between dial and `set` (`Dialing`), and how far Shutdown has come
(`Stopping`: once it has waited there is neither a monitor nor a reconnect, and no worker
that starts late brings one back). `DropsInOneWindow` is an action property and follows from
`SingleReconnect`: a monitor and a reconnect coexist only at the hand-over. The others
need the invariant of the replay (`RInv`): what is in force at each of its labels
(`InForce`), that what is left of the loop over `s.queues` is an end of it (`Position`) and
that what is before has its consumer (`Consuming`), and a balance of consumers and pending
calls of `Start` against the entries of `s.queues` (`Counted`): a reconnect that overtakes a
`Start` between its critical sections pays for one consumer too many, and without one
there is none (`overtook`).

`DeliveryProofs`, for any finite set of workers, any limits from -1 on and any number of
failures (`DeliveryAssumption`): `NothingIsLost`, `OnlyExhaustedAreRejected`,
`DeliveryIsAtLeastOnce`, `RetriesAreBounded`. `NoLoss` needs to know that an idle worker has no delivery and
that no header counts more than the limit, which in turn rests on `handleDeliveryFailure`
publishing only below the limit (`Workings`, `Within`). `RequeueRestores` is the counting
behind a lost channel: what had no settlement is ready again, with its own count. The
refinement follows from `NoLoss` (nothing left means processed or rejected) and from
`SettledForGood`. `RetriesAreBounded` has an invariant of its own for the states without
failures (`FInv`): one copy at most, in the queue, with a worker or on its way back
(`OneCopy`), and no more handler calls than its header accounts for (`Counted`). It
holds only while nothing is settled twice and every delivery belongs to the present
channel (`Calm`), which is why it ends with the first failure.

`TopologyProofs`, for any batches of configurations, any bounds, any width of the integer
and any length of a millisecond (`TopologyAssumption`, which has only the types of a
`QueueConfig`): `TypeCorrect`, `DeadLettersAreReady`, `DurableIsKept`, `ServiceIsComplete`,
`ReplaysAreAccepted`, `DelaysAreKept`. The invariant says that what precedes the next
declaration exists (`Begun`: for good if it is an exchange or a DLQ, otherwise while the
connection lasts and nobody deletes it), that what a call or a replay has gone through is
complete (`Present`), that consumers are missing only where reconnect has them still to
start (`Restarted`), and that all known configurations, the ones a call in progress has gone
through included, agree with the broker (`Agreed`). A new declaration cannot break
`Agreed`: as long as nobody deletes, everything known exists while a call declares, so what
the broker accepts agrees with everything known; and what a replay declares is known.
`DeadLettersFirst` (the order within one queue) and `GoDownKeeps` (what a lost connection
or a restart may take) carry the rest; `DelayConversion` is the arithmetic of the delay.

`ConstructionProofs`, for any calls, namespaces and list of different collectors
(`ConstructionAssumption`): `FailuresLeaveNothing`, `ServingSDKsAreWhole`,
`RacesHaveAWinner`. The invariant says how much a call has registered at each label
(`Progress`) and that the registry names it as owner of exactly the collectors on its list
(`Ownership`); without the second, a rollback by name could hit a collector of
somebody else. For `RacesHaveAWinner` the registry knows the labels of every name that
is taken (`Remembered`), a call with a label that is not valid registers nothing (`Barred`),
and every name an SDK has ever registered is covered by a call that got that far and is
not rolled back (`Covered`): whoever is rolled back was overtaken by somebody further
ahead, because the order is fixed and the rollback takes the first names away first. So
who is rolled back has one of the three reasons (`Overtaken`).

`MessageProofs`, for any spans, durations and length of a millisecond:
`MessagesAreAsAsked`, an action property, from the invariant that the body is the one
asked for last as long as the message has no error (`Asked`) and that the headers carry
what was sent last (`Carried`).

Every invariant, action property and refinement that a passing run checks is stated by a
theorem. Each inductive invariant was also checked with TLC, on the instance of its run.

Only model-checked: all liveness (`GetReturns`, `CloseReleasesAll`, `InterruptReturns`,
`CancelReturns`, `PublishReturns`, `GoroutinesEnd`, `Recovers`, `Settles`, `Restores`), since the prover
handles neither fairness nor `ENABLED`. A module's type invariant is listed in a run where
it is all a theorem states (`PublisherPool`); in the others it is a theorem or a conjunct of
the proved invariant.

## Not modelled

- Dummy heartbeat messages of `consume`: known by a header only, published and
  acknowledged next to the messages `Delivery` follows.
- A call of `Start` with several queues; it is taken as one call for each.
- The counters of the metrics: increments without control. `SetLogger`: an
  assignment without a lock, which races with every reader of the logger.
- The setters of a message's priority and identifier: plain assignments.
- The logger, the interfaces, the mock (for tests) and the examples have no state of
  interest. The client library, the registry and the broker are modelled only as the
  SDK uses them.

## Plan

The modules were written in the order of the risk they carry: pool, supervision,
deliveries, publishing, topology, construction, messages. Their safety
properties are proved. What is left:

1. properties of `Lender` and `AtLeastOnce` themselves, which then hold of the pool and of
   the consumers by their refinements;
2. the safety facts behind the liveness runs, as invariants: who is able to move when a
   `get`, a cancelled publish or a `Shutdown` waits.
