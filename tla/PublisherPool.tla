--------------------------- MODULE PublisherPool ---------------------------
(***************************************************************************)
(* The pool of confirm-mode AMQP channels that publishers share            *)
(* (publisher_pool.go).  Publishers run get and put concurrently with each *)
(* other, with the goroutines that close the pool (reconnect and Shutdown) *)
(* and with the loss of channels and of the connection.                    *)
(*                                                                         *)
(* One action is one step another goroutine can see: a receive from or a   *)
(* send to the Go channel p.channels, a load or an add of the atomic       *)
(* currentPoolSize, a critical section of p.mu.  The critical section of   *)
(* get spans a network call, so it is split and mu is explicit; those of   *)
(* put and close are one step each.  The context of get may expire at any  *)
(* time, so every check of it is a nondeterministic choice.                *)
(*                                                                         *)
(* An identifier in Channels stands for an amqp091.Channel; one that is    *)
(* closed and that nobody refers to any more may stand for a later channel.*)
(***************************************************************************)
EXTENDS Integers, Sequences, FiniteSets

CONSTANTS
    Publishers,     \* goroutines that call get and put
    Closers,        \* goroutines that call close
    Channels,       \* identifiers of AMQP channels
    Size,           \* publisherPoolSize: buffer of p.channels
    MaxPoolSize,    \* publisherMaxPoolSize
    NoChannel,      \* a hand that holds nothing
    Nobody          \* mu is unlocked

Procs == Publishers \cup Closers

\* NewSDK refuses a maximum below the initial size and replaces zero by defaults.
\* A maximum that an int32 cannot hold is the exception: it wraps, and is assumed away.
ASSUME PoolAssumption ==
    /\ Publishers \cap Closers = {}
    /\ IsFiniteSet(Publishers) /\ IsFiniteSet(Closers)
    /\ Size \in Nat \ {0}
    /\ MaxPoolSize \in Nat
    /\ Size <= MaxPoolSize
    /\ NoChannel \notin Channels
    /\ Nobody \notin Publishers

VARIABLES
    phase,      \* newPublisherChannelPool: "filling", then "ready" or "failed"
    idle,       \* the contents of the buffered Go channel p.channels
    closed,     \* p.closed, and p.channels is closed
    current,    \* p.currentPoolSize
    mu,         \* the publisher that holds p.mu across steps, or Nobody
    open,       \* the AMQP channels for which IsClosed() is false
    connUp,     \* p.conn still accepts Channel()
    pc,         \* where each goroutine is
    hand,       \* the channel each goroutine has taken out of the pool
    spurned     \* a channel get has opened and could not put in confirm mode

vars == <<phase, idle, closed, current, mu, open, connUp, pc, hand, spurned>>

PublisherPC == {"out", "try", "check", "grow", "lock", "opening", "spurn", "wait", "recheck",
                "hold"}
CloserPC == {"out", "drain", "closing", "done"}

Idle == {idle[i] : i \in 1..Len(idle)}
InHand == {x \in Procs : hand[x] # NoChannel}
Held == {hand[x] : x \in InHand}
Referenced == Idle \cup Held
Spurned == {spurned[p] : p \in {q \in Publishers : spurned[q] # NoChannel}}

\* A channel conn.Channel() may return: not open and not referred to.
Fresh == Channels \ (open \cup Referenced \cup Spurned)

Goto(x, l) == pc' = [pc EXCEPT ![x] = l]

Init ==
    /\ phase = "filling"
    /\ idle = <<>>
    /\ closed = FALSE
    /\ current = 0
    /\ mu = Nobody
    /\ open = {}
    /\ connUp = TRUE
    /\ pc = [x \in Procs |-> "out"]
    /\ hand = [x \in Procs |-> NoChannel]
    /\ spurned = [p \in Publishers |-> NoChannel]

-----------------------------------------------------------------------------
(* newPublisherChannelPool: nobody else knows the pool yet.                *)

\* conn.Channel() and Confirm succeed: send the channel, count it.
Fill ==
    /\ phase = "filling" /\ Len(idle) < Size
    /\ connUp
    /\ \E c \in Fresh : idle' = Append(idle, c) /\ open' = open \cup {c}
    /\ current' = current + 1
    /\ UNCHANGED <<phase, closed, mu, connUp, pc, hand, spurned>>

\* Channel() fails, or Confirm does and the channel is closed at once: the
\* constructor closes and drains the pool, and returns none.
FillFails ==
    /\ phase = "filling" /\ Len(idle) < Size
    /\ phase' = "failed"
    /\ closed' = TRUE
    /\ idle' = <<>> /\ current' = current - Len(idle) /\ open' = open \ Idle
    /\ UNCHANGED <<mu, connUp, pc, hand, spurned>>

FillDone ==
    /\ phase = "filling" /\ Len(idle) = Size
    /\ phase' = "ready"
    /\ UNCHANGED <<idle, closed, current, mu, open, connUp, pc, hand, spurned>>

-----------------------------------------------------------------------------
(* get                                                                     *)

BeginGet(p) ==
    /\ phase = "ready" /\ pc[p] = "out"
    /\ Goto(p, "try")
    /\ UNCHANGED <<phase, idle, closed, current, mu, open, connUp, hand, spurned>>

\* A receive from p.channels; a closed Go channel still yields what it holds.
Receive(x, l) ==
    /\ idle # <<>>
    /\ hand' = [hand EXCEPT ![x] = Head(idle)]
    /\ idle' = Tail(idle)
    /\ Goto(x, l)

\* "publisher pool is closed": the Go channel is closed and drained.
PoolClosedError(p) ==
    /\ idle = <<>> /\ closed
    /\ Goto(p, "out")
    /\ UNCHANGED <<idle, hand>>

\* The top of the loop: ctx.Err(), then tryTakeChannel.
TryTake(p) ==
    /\ pc[p] = "try"
    /\ \/ /\ Goto(p, "out")                                 \* ctx.Err() # nil
          /\ UNCHANGED <<idle, hand>>
       \/ Receive(p, "check")
       \/ PoolClosedError(p)
       \/ /\ idle = <<>> /\ ~closed                         \* default
          /\ Goto(p, "grow")
          /\ UNCHANGED <<idle, hand>>
    /\ UNCHANGED <<phase, closed, current, mu, open, connUp, spurned>>

\* What get does with a channel it has received: an open one is returned, a
\* closed one is uncounted and get goes on at label l.
Inspect(p, l) ==
    \/ /\ hand[p] \in open
       /\ Goto(p, "hold")
       /\ UNCHANGED <<current, hand>>
    \/ /\ hand[p] \notin open
       /\ current' = current - 1
       /\ hand' = [hand EXCEPT ![p] = NoChannel]
       /\ Goto(p, l)

\* Mutated form of CheckTaken: a dead channel is dropped but stays counted.
CheckTakenKeepsCount(p) ==
    /\ pc[p] = "check"
    /\ hand[p] \notin open
    /\ hand' = [hand EXCEPT ![p] = NoChannel]
    /\ Goto(p, "grow")
    /\ UNCHANGED <<phase, idle, closed, current, mu, open, connUp, spurned>>

CheckTaken(p) ==
    /\ pc[p] = "check"
    /\ Inspect(p, "grow")
    /\ UNCHANGED <<phase, idle, closed, mu, open, connUp, spurned>>

\* The unlocked load of currentPoolSize.
LoadSize(p) ==
    /\ pc[p] = "grow"
    /\ Goto(p, IF current < MaxPoolSize THEN "lock" ELSE "wait")
    /\ UNCHANGED <<phase, idle, closed, current, mu, open, connUp, hand, spurned>>

\* Mutated form of LockToGrow: the size is not checked again under the lock.
LockToGrowUnchecked(p) ==
    /\ pc[p] = "lock" /\ mu = Nobody
    /\ IF closed THEN Goto(p, "out") /\ UNCHANGED mu
                 ELSE Goto(p, "opening") /\ mu' = p
    /\ UNCHANGED <<phase, idle, closed, current, open, connUp, hand, spurned>>

\* p.mu.Lock(), then closed and currentPoolSize are checked under the lock.
LockToGrow(p) ==
    /\ pc[p] = "lock" /\ mu = Nobody
    /\ \/ closed /\ Goto(p, "out") /\ UNCHANGED mu
       \/ ~closed /\ current >= MaxPoolSize /\ Goto(p, "wait") /\ UNCHANGED mu
       \/ ~closed /\ current < MaxPoolSize /\ Goto(p, "opening") /\ mu' = p
    /\ UNCHANGED <<phase, idle, closed, current, open, connUp, hand, spurned>>

\* Mutated form of OpenChannel: the error return forgets p.mu.Unlock().
OpenChannelKeepsLock(p) ==
    /\ pc[p] = "opening"
    /\ Goto(p, "out")
    /\ UNCHANGED <<phase, idle, closed, current, mu, open, connUp, hand, spurned>>

\* conn.Channel() and Confirm, still under the lock: both succeed, Channel()
\* fails, or Confirm fails with a channel that is open and not counted.
OpenChannel(p) ==
    /\ pc[p] = "opening"
    /\ \/ /\ connUp
          /\ \E c \in Fresh : hand' = [hand EXCEPT ![p] = c] /\ open' = open \cup {c}
          /\ current' = current + 1
          /\ Goto(p, "hold")
          /\ UNCHANGED spurned
       \/ /\ Goto(p, "out")
          /\ UNCHANGED <<current, open, hand, spurned>>
       \/ /\ connUp
          /\ \E c \in Fresh : spurned' = [spurned EXCEPT ![p] = c] /\ open' = open \cup {c}
          /\ Goto(p, "spurn")
          /\ UNCHANGED <<current, hand>>
    /\ mu' = Nobody
    /\ UNCHANGED <<phase, idle, closed, connUp>>

\* Mutated form of CloseSpurned: the error return drops the channel.
CloseSpurnedForgets(p) ==
    /\ pc[p] = "spurn"
    /\ spurned' = [spurned EXCEPT ![p] = NoChannel]
    /\ Goto(p, "out")
    /\ UNCHANGED <<phase, idle, closed, current, mu, open, connUp, hand>>

\* The ch.Close() of that error return, after p.mu.Unlock().
CloseSpurned(p) ==
    /\ pc[p] = "spurn"
    /\ open' = open \ {spurned[p]}
    /\ spurned' = [spurned EXCEPT ![p] = NoChannel]
    /\ Goto(p, "out")
    /\ UNCHANGED <<phase, idle, closed, current, mu, connUp, hand>>

\* The blocking select: a channel arrives or p.channels is closed.
AwaitChannel(p) ==
    /\ pc[p] = "wait"
    /\ Receive(p, "recheck") \/ PoolClosedError(p)
    /\ UNCHANGED <<phase, closed, current, mu, open, connUp, spurned>>

\* The blocking select: ctx.Done().
WaitExpires(p) ==
    /\ pc[p] = "wait"
    /\ Goto(p, "out")
    /\ UNCHANGED <<phase, idle, closed, current, mu, open, connUp, hand, spurned>>

\* A closed channel sends get back to the top of its loop.
Recheck(p) ==
    /\ pc[p] = "recheck"
    /\ Inspect(p, "try")
    /\ UNCHANGED <<phase, idle, closed, mu, open, connUp, spurned>>

-----------------------------------------------------------------------------
(* put, one critical section of mu.                                        *)

Release(x) == hand' = [hand EXCEPT ![x] = NoChannel]

\* The pool is closed or full, or the channel is dead: uncount and close it.
Discard(p) ==
    /\ current' = current - 1
    /\ open' = open \ {hand[p]}
    /\ UNCHANGED idle

\* The send to p.channels, which has room.
GiveBack(p) ==
    /\ idle' = Append(idle, hand[p])
    /\ UNCHANGED <<current, open>>

\* Mutated form of Put: the closed flag is not consulted.
PutIgnoresClosed(p) ==
    /\ pc[p] = "hold" /\ mu = Nobody
    /\ IF hand[p] \in open /\ Len(idle) < Size THEN GiveBack(p) ELSE Discard(p)
    /\ Release(p) /\ Goto(p, "out")
    /\ UNCHANGED <<phase, closed, mu, connUp, spurned>>

\* Mutated form of Put: a channel that does not fit is uncounted, not closed.
PutForgetsClose(p) ==
    /\ pc[p] = "hold" /\ mu = Nobody
    /\ IF ~closed /\ hand[p] \in open /\ Len(idle) < Size
       THEN GiveBack(p)
       ELSE current' = current - 1 /\ UNCHANGED <<idle, open>>
    /\ Release(p) /\ Goto(p, "out")
    /\ UNCHANGED <<phase, closed, mu, connUp, spurned>>

\* Mutated form of Put: the publisher goes on using the channel it returned.
PutKeepsUsing(p) ==
    /\ pc[p] = "hold" /\ mu = Nobody
    /\ ~closed /\ hand[p] \in open /\ Len(idle) < Size
    /\ idle' = Append(idle, hand[p])
    /\ UNCHANGED <<phase, closed, current, open, mu, connUp, pc, hand, spurned>>

\* Mutated form of Put: no default branch, the send does not mind the capacity.
PutOverfills(p) ==
    /\ pc[p] = "hold" /\ mu = Nobody
    /\ IF ~closed /\ hand[p] \in open THEN GiveBack(p) ELSE Discard(p)
    /\ Release(p) /\ Goto(p, "out")
    /\ UNCHANGED <<phase, closed, mu, connUp, spurned>>

Put(p) ==
    /\ pc[p] = "hold" /\ mu = Nobody
    /\ \/ (closed \/ hand[p] \notin open) /\ Discard(p)
       \/ ~closed /\ hand[p] \in open /\ Len(idle) < Size /\ GiveBack(p)
       \/ ~closed /\ hand[p] \in open /\ Len(idle) >= Size /\ Discard(p)
    /\ Release(p) /\ Goto(p, "out")
    /\ UNCHANGED <<phase, closed, mu, connUp, spurned>>

-----------------------------------------------------------------------------
(* close: mark the pool closed under mu, then drain it outside mu while    *)
(* publishers may still receive from it.                                   *)

CloseBegin(k) ==
    /\ phase = "ready" /\ pc[k] = "out" /\ mu = Nobody
    /\ Goto(k, IF closed THEN "done" ELSE "drain")
    /\ closed' = TRUE
    /\ UNCHANGED <<phase, idle, current, mu, open, connUp, hand, spurned>>

DrainTake(k) ==
    /\ pc[k] = "drain"
    /\ \/ Receive(k, "closing")
       \/ idle = <<>> /\ Goto(k, "done") /\ UNCHANGED <<idle, hand>>
    /\ UNCHANGED <<phase, closed, current, mu, open, connUp, spurned>>

DrainClose(k) ==
    /\ pc[k] = "closing"
    /\ Discard(k) /\ Release(k) /\ Goto(k, "drain")
    /\ UNCHANGED <<phase, closed, mu, connUp, spurned>>

-----------------------------------------------------------------------------
(* The broker and the network: a channel exception, a lost connection.  A  *)
(* lost connection refuses Channel() first and then closes its channels    *)
(* one at a time.                                                          *)

ChannelDies(c) ==
    /\ c \in open
    /\ open' = open \ {c}
    /\ UNCHANGED <<phase, idle, closed, current, mu, connUp, pc, hand, spurned>>

ConnectionDies ==
    /\ connUp
    /\ connUp' = FALSE
    /\ UNCHANGED <<phase, idle, closed, current, mu, open, pc, hand, spurned>>

-----------------------------------------------------------------------------

Get(p) ==
    \/ BeginGet(p) \/ TryTake(p) \/ CheckTaken(p) \/ LoadSize(p) \/ LockToGrow(p)
    \/ OpenChannel(p) \/ CloseSpurned(p) \/ AwaitChannel(p) \/ WaitExpires(p) \/ Recheck(p)

Close(k) == CloseBegin(k) \/ DrainTake(k) \/ DrainClose(k)

Next ==
    \/ Fill \/ FillFails \/ FillDone
    \/ \E p \in Publishers : Get(p) \/ Put(p)
    \/ \E k \in Closers : Close(k)
    \/ \E c \in Channels : ChannelDies(c)
    \/ ConnectionDies

Spec == Init /\ [][Next]_vars

(***************************************************************************)
(* Fairness.  Every goroutine that can run does (the Go scheduler); p.mu   *)
(* is a sync.Mutex, which hands itself to a starving waiter, hence strong  *)
(* fairness for the steps that lock it; conn.Channel() returns and a       *)
(* publish ends, both bounded by the connection's deadline or closure.     *)
(* Nothing obliges a publisher to call get.                                *)
(***************************************************************************)
PatientFairness ==
    /\ \A p \in Publishers :
          /\ WF_vars(TryTake(p)) /\ WF_vars(CheckTaken(p)) /\ WF_vars(LoadSize(p))
          /\ WF_vars(OpenChannel(p)) /\ WF_vars(CloseSpurned(p)) /\ WF_vars(AwaitChannel(p)) /\ WF_vars(Recheck(p))
          /\ SF_vars(LockToGrow(p)) /\ SF_vars(Put(p))
    /\ \A k \in Closers : WF_vars(DrainTake(k)) /\ WF_vars(DrainClose(k))

\* The context ends get at the top of its loop or in the select.
Expires(p) ==
    /\ pc[p] \in {"try", "wait"}
    /\ Goto(p, "out")
    /\ UNCHANGED <<phase, idle, closed, current, mu, open, connUp, hand, spurned>>

\* get runs under poolCtx, which expires after publisherPoolWait and stays
\* expired: a get that comes back to its checks again and again is ended by one.
FairSpec == Spec /\ PatientFairness /\ \A p \in Publishers : SF_vars(Expires(p))

\* A context without a deadline in reach: it may never expire.
PatientSpec == Spec /\ PatientFairness

-----------------------------------------------------------------------------
(* Properties                                                              *)

\* The type invariant; the buffer of p.channels never has more than Size
\* channels, so the send in put never blocks under mu.
TypeOK ==
    /\ phase \in {"filling", "ready", "failed"}
    /\ idle \in Seq(Channels) /\ Len(idle) <= Size
    /\ closed \in BOOLEAN
    /\ current \in Int
    /\ mu \in Publishers \cup {Nobody}
    /\ open \subseteq Channels
    /\ connUp \in BOOLEAN
    /\ pc \in [Procs -> PublisherPC \cup CloserPC]
    /\ \A p \in Publishers : pc[p] \in PublisherPC
    /\ \A k \in Closers : pc[k] \in CloserPC
    /\ hand \in [Procs -> Channels \cup {NoChannel}]
    /\ spurned \in [Publishers -> Channels \cup {NoChannel}]

\* currentPoolSize counts exactly the channels that are in the pool or in
\* somebody's hand, whatever the interleaving of the unlocked adds in get and
\* close with the locked ones in get and put.
SizeAccounting == current = Len(idle) + Cardinality(InHand)

\* The pool never has more channels than publisherMaxPoolSize, neither by its
\* own count nor as open channels on the broker: the unlocked load in get is
\* repeated under mu, and only there may the count grow.  A channel that Confirm
\* refused is not the pool's; get is about to close it.
ChannelBound == current <= MaxPoolSize /\ Cardinality(open \ Spurned) <= MaxPoolSize

\* A channel is in one place only: two publishers never use the same channel,
\* and a channel in use is not also waiting in p.channels.
ExclusiveUse ==
    /\ \A i, j \in 1..Len(idle) : idle[i] = idle[j] => i = j
    /\ \A x, y \in InHand : hand[x] = hand[y] => x = y
    /\ Idle \cap Held = {}

\* No channel is left open on the broker once the SDK has forgotten it: each
\* error path and each discard of get, put and close closes what it drops, a
\* channel that Confirm refused too.
NoLeak == open \subseteq Referenced \cup Spurned

\* After close has drained the pool nothing enters it again, and when the last
\* publisher has returned its channel none is open and the count is zero: put
\* and get consult p.closed under mu before they add to the pool.
ClosedDrained ==
    closed /\ (\A k \in Closers : pc[k] \notin {"drain", "closing"}) =>
        /\ idle = <<>>
        /\ (\A p \in Publishers : pc[p] = "out") => open = {} /\ current = 0

\* From the receive or the opening of a channel to its return or discard the
\* channel is lent; p.channels, once closed, lends what it still holds.
Promise == INSTANCE Lender WITH
    lent <- [p \in Publishers |-> hand[p]],
    state <- IF ~closed THEN "open" ELSE IF idle # <<>> THEN "closing" ELSE "closed"

\* The pool implements the specification its users rely on: whatever the
\* interleaving of get, put and close, the steps a publisher can see are those of
\* a lender that never lends a channel twice, too many, or after it is closed.
PoolImplementsLender == Promise!Spec

\* Every call of get returns, with a channel or with an error, provided that
\* conn.Channel() and Confirm answer: no path of get or put keeps p.mu, and the
\* waits that take notice of the context end with it.
GetReturns == \A p \in Publishers : pc[p] = "try" ~> pc[p] \in {"hold", "out"}

\* Closing the pool eventually closes every channel it ever gave out, for good:
\* those in the pool, those in use and those being opened at that moment.
CloseReleasesAll == closed ~> [](open = {})

\* What the comment on get promises: once the pool is at its limit, "the call
\* blocks until one is returned or ctx is canceled".  A call blocked in the
\* select does not stay there when every holder has returned its channel.
WaiterServed ==
    \A p \in Publishers :
        (pc[p] = "wait" /\ InHand = {}) ~> pc[p] # "wait"

=============================================================================
