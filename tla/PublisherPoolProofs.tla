------------------------ MODULE PublisherPoolProofs ------------------------
(***************************************************************************)
(* Proofs about PublisherPool, for any number of publishers and closers    *)
(* and any pool sizes.                                                     *)
(***************************************************************************)
EXTENDS PublisherPool, FiniteSetTheorems, TLAPS

\* A goroutine has a channel in its hand exactly at these labels, and one that
\* Confirm refused where it closes it.
HandsMatch ==
    /\ \A x \in Procs : hand[x] # NoChannel <=> pc[x] \in {"check", "recheck", "hold", "closing"}
    /\ \A p \in Publishers : spurned[p] # NoChannel <=> pc[p] = "spurn"

\* Nobody uses the pool before newPublisherChannelPool has returned it.
FillingAlone ==
    phase = "filling" => ~closed /\ mu = Nobody /\ \A x \in Procs : pc[x] = "out"

\* p.mu is held across steps by the publisher that opens a channel, and there
\* is room for that channel as long as it is held.
LockOwner ==
    /\ \A p \in Publishers : mu = p <=> pc[p] = "opening"
    /\ mu # Nobody => current < MaxPoolSize /\ ~closed

\* A closed pool that is not empty has a closer at work on it.
DrainerAtWork ==
    closed /\ idle # <<>> => \E k \in Closers : pc[k] \in {"drain", "closing"}

\* The control part of the inductive invariant.
Control == TypeOK /\ HandsMatch /\ FillingAlone /\ LockOwner /\ DrainerAtWork

\* The inductive invariant.
IInv ==
    /\ Control
    /\ SizeAccounting /\ current <= MaxPoolSize
    /\ ExclusiveUse
    /\ NoLeak

-----------------------------------------------------------------------------

\* A pool under construction has the right types (newPublisherChannelPool).
LEMMA TypeInit == Init => TypeOK
<1> SUFFICES ASSUME Init PROVE TypeOK
  OBVIOUS
<1>1. idle \in Seq(Channels) /\ Len(idle) <= Size
  BY PoolAssumption DEF Init
<1>2. closed \in BOOLEAN /\ connUp \in BOOLEAN
  BY Zenon DEF Init
<1> QED
  BY <1>1, <1>2 DEF Init, TypeOK, Procs, PublisherPC, CloserPC

\* A receive from p.channels keeps the types.
LEMMA ReceiveType ==
  ASSUME TypeOK, NEW x \in Procs, NEW l, Receive(x, l)
  PROVE  /\ idle' \in Seq(Channels) /\ Len(idle') = Len(idle) - 1 /\ Len(idle) >= 1
         /\ hand' \in [Procs -> Channels \cup {NoChannel}]
         /\ Head(idle) \in Channels
  BY DEF TypeOK, Receive

\* Every step of get, put, close and of the broker keeps the types.
LEMMA TypeStep ==
  ASSUME TypeOK, [Next]_vars
  PROVE  TypeOK'
<1> USE PoolAssumption DEF TypeOK, Procs, PublisherPC, CloserPC, Goto
<1>1. CASE Fill
  BY <1>1 DEF Fill, Fresh
<1>2. CASE FillDone \/ ConnectionDies \/ UNCHANGED vars
  BY <1>2 DEF FillDone, ConnectionDies, vars
<1>7. CASE FillFails
  <2>1. closed' \in BOOLEAN
    BY <1>7, Zenon DEF FillFails
  <2>2. idle' \in Seq(Channels) /\ Len(idle') <= Size
    BY <1>7 DEF FillFails
  <2> QED
    BY <1>7, <2>1, <2>2 DEF FillFails
<1>3. ASSUME NEW p \in Publishers, Get(p) PROVE TypeOK'
  <2>1. CASE BeginGet(p)
    BY <2>1 DEF BeginGet
  <2>2. CASE TryTake(p)
    <3>1. CASE Receive(p, "check")
      BY <2>2, <3>1, ReceiveType DEF TryTake, Receive
    <3>2. CASE ~Receive(p, "check")
      BY <2>2, <3>2 DEF TryTake, PoolClosedError
    <3> QED
      BY <3>1, <3>2
  <2>3. CASE CheckTaken(p)
    BY <2>3 DEF CheckTaken, Inspect
  <2>4. CASE LoadSize(p)
    BY <2>4 DEF LoadSize
  <2>5. CASE LockToGrow(p)
    BY <2>5 DEF LockToGrow
  <2>6. CASE OpenChannel(p)
    BY <2>6 DEF OpenChannel, Fresh
  <2>7. CASE AwaitChannel(p)
    <3>1. CASE Receive(p, "recheck")
      BY <2>7, <3>1, ReceiveType DEF AwaitChannel, Receive
    <3>2. CASE PoolClosedError(p)
      BY <2>7, <3>2 DEF AwaitChannel, PoolClosedError
    <3> QED
      BY <2>7, <3>1, <3>2 DEF AwaitChannel
  <2>8. CASE WaitExpires(p)
    BY <2>8 DEF WaitExpires
  <2>9. CASE Recheck(p)
    BY <2>9 DEF Recheck, Inspect
  <2>10. CASE CloseSpurned(p)
    BY <2>10 DEF CloseSpurned
  <2> QED
    BY <1>3, <2>1, <2>2, <2>3, <2>4, <2>5, <2>6, <2>7, <2>8, <2>9, <2>10 DEF Get
<1>4. ASSUME NEW p \in Publishers, Put(p) PROVE TypeOK'
  <2>1. idle' \in Seq(Channels) /\ Len(idle') <= Size
    BY <1>4 DEF Put, Discard, GiveBack
  <2>2. current' \in Int
    BY <1>4 DEF Put, Discard, GiveBack
  <2> QED
    BY <1>4, <2>1, <2>2 DEF Put, Discard, GiveBack, Release
<1>5. ASSUME NEW k \in Closers, Close(k) PROVE TypeOK'
  <2>1. CASE CloseBegin(k)
    <3>1. closed' \in BOOLEAN
      BY <2>1, Zenon DEF CloseBegin
    <3> QED
      BY <2>1, <3>1 DEF CloseBegin
  <2>2. CASE DrainTake(k)
    <3>1. CASE Receive(k, "closing")
      BY <2>2, <3>1, ReceiveType DEF DrainTake, Receive
    <3>2. CASE idle = <<>> /\ Goto(k, "done") /\ UNCHANGED <<idle, hand>>
      BY <2>2, <3>2 DEF DrainTake
    <3> QED
      BY <2>2, <3>1, <3>2 DEF DrainTake
  <2>3. CASE DrainClose(k)
    BY <2>3 DEF DrainClose, Discard, Release
  <2> QED
    BY <1>5, <2>1, <2>2, <2>3 DEF Close
<1>6. ASSUME NEW c \in Channels, ChannelDies(c) PROVE TypeOK'
  BY <1>6 DEF ChannelDies
<1> QED
  BY <1>1, <1>2, <1>3, <1>4, <1>5, <1>6, <1>7 DEF Next

\* The variables of the pool keep their types: p.channels never overfills.
THEOREM TypeCorrect == Spec => []TypeOK
  BY TypeInit, TypeStep, PTL DEF Spec

-----------------------------------------------------------------------------
(* The control part of the invariant.                                      *)

\* The control invariant holds before the constructor opens a channel.
LEMMA ControlInit == Init => Control
<1> SUFFICES ASSUME Init PROVE Control
  OBVIOUS
<1>1. TypeOK
  BY TypeInit
<1>2. HandsMatch
  BY DEF Init, HandsMatch, Procs
<1>3. FillingAlone /\ DrainerAtWork
  BY DEF Init, FillingAlone, DrainerAtWork
<1>4. LockOwner
  BY PoolAssumption DEF Init, LockOwner, Procs
<1> QED
  BY <1>1, <1>2, <1>3, <1>4 DEF Control

\* Every step keeps hand and pc in agreement.
LEMMA HandsMatchStep ==
  ASSUME Control, [Next]_vars
  PROVE  HandsMatch'
<1> USE PoolAssumption DEF Control, TypeOK, HandsMatch, Procs, Goto
<1>1. CASE Fill \/ FillFails \/ FillDone \/ ConnectionDies \/ UNCHANGED vars
  BY <1>1 DEF Fill, FillFails, FillDone, ConnectionDies, vars
<1>2. ASSUME NEW p \in Publishers, Get(p) PROVE HandsMatch'
  <2>1. CASE BeginGet(p) \/ LoadSize(p) \/ WaitExpires(p) \/ LockToGrow(p)
    BY <2>1 DEF BeginGet, LoadSize, WaitExpires, LockToGrow
  <2>2. CASE TryTake(p)
    BY <2>2, ReceiveType DEF TryTake, PoolClosedError, Receive
  <2>3. CASE CheckTaken(p)
    BY <2>3 DEF CheckTaken, Inspect
  <2>4. CASE OpenChannel(p)
    BY <2>4 DEF OpenChannel, Fresh
  <2>5. CASE AwaitChannel(p)
    BY <2>5, ReceiveType DEF AwaitChannel, PoolClosedError, Receive
  <2>6. CASE Recheck(p)
    BY <2>6 DEF Recheck, Inspect
  <2>7. CASE CloseSpurned(p)
    BY <2>7 DEF CloseSpurned
  <2> QED
    BY <1>2, <2>1, <2>2, <2>3, <2>4, <2>5, <2>6, <2>7 DEF Get
<1>3. ASSUME NEW p \in Publishers, Put(p) PROVE HandsMatch'
  BY <1>3 DEF Put, Release
<1>4. ASSUME NEW k \in Closers, Close(k) PROVE HandsMatch'
  <2>1. CASE CloseBegin(k)
    BY <2>1 DEF CloseBegin
  <2>2. CASE DrainTake(k)
    BY <2>2, ReceiveType DEF DrainTake, Receive
  <2>3. CASE DrainClose(k)
    BY <2>3 DEF DrainClose, Release
  <2> QED
    BY <1>4, <2>1, <2>2, <2>3 DEF Close
<1>5. ASSUME NEW c \in Channels, ChannelDies(c) PROVE HandsMatch'
  BY <1>5 DEF ChannelDies
<1> QED
  BY <1>1, <1>2, <1>3, <1>4, <1>5 DEF Next

\* Construction is over before the first get, put or close.
LEMMA FillingAloneStep ==
  ASSUME Control, [Next]_vars
  PROVE  FillingAlone'
<1> USE PoolAssumption DEF Control, TypeOK, FillingAlone, Procs, Goto
<1>1. CASE Fill \/ FillFails \/ FillDone \/ ConnectionDies \/ UNCHANGED vars
  BY <1>1 DEF Fill, FillFails, FillDone, ConnectionDies, vars
<1>2. ASSUME NEW p \in Publishers, Get(p) \/ Put(p) PROVE FillingAlone'
  <2>1. phase' = phase
    BY <1>2 DEF Get, Put, BeginGet, TryTake, CheckTaken, LoadSize, LockToGrow,
                OpenChannel, CloseSpurned, AwaitChannel, WaitExpires, Recheck
  <2>2. phase # "filling"
    <3>1. phase = "ready" \/ pc[p] # "out"
      BY <1>2 DEF Get, Put, BeginGet, TryTake, CheckTaken, LoadSize, LockToGrow,
                  OpenChannel, CloseSpurned, AwaitChannel, WaitExpires, Recheck
    <3> QED
      BY <3>1
  <2> QED
    BY <2>1, <2>2
<1>3. ASSUME NEW k \in Closers, Close(k) PROVE FillingAlone'
  BY <1>3 DEF Close, CloseBegin, DrainTake, DrainClose
<1>4. ASSUME NEW c \in Channels, ChannelDies(c) PROVE FillingAlone'
  BY <1>4 DEF ChannelDies
<1> QED
  BY <1>1, <1>2, <1>3, <1>4 DEF Next

\* The count is tested again under the lock, and nobody adds to it or closes
\* the pool while the lock is held.
LEMMA LockOwnerStep ==
  ASSUME Control, [Next]_vars
  PROVE  LockOwner'
<1> USE PoolAssumption DEF Control, TypeOK, LockOwner, FillingAlone, Procs, Goto, PublisherPC
<1>1. CASE Fill \/ FillFails \/ FillDone \/ ConnectionDies \/ UNCHANGED vars
  BY <1>1 DEF Fill, FillFails, FillDone, ConnectionDies, vars
<1>2. ASSUME NEW p \in Publishers, Get(p) PROVE LockOwner'
  <2>1. CASE BeginGet(p) \/ LoadSize(p) \/ WaitExpires(p)
    BY <2>1 DEF BeginGet, LoadSize, WaitExpires
  <2>2. CASE TryTake(p)
    BY <2>2 DEF TryTake, PoolClosedError, Receive
  <2>3. CASE CheckTaken(p)
    BY <2>3 DEF CheckTaken, Inspect
  <2>4. CASE LockToGrow(p)
    BY <2>4 DEF LockToGrow
  <2>5. CASE OpenChannel(p)
    BY <2>5 DEF OpenChannel
  <2>6. CASE AwaitChannel(p)
    BY <2>6 DEF AwaitChannel, PoolClosedError, Receive
  <2>7. CASE Recheck(p)
    BY <2>7 DEF Recheck, Inspect
  <2>8. CASE CloseSpurned(p)
    BY <2>8 DEF CloseSpurned
  <2> QED
    BY <1>2, <2>1, <2>2, <2>3, <2>4, <2>5, <2>6, <2>7, <2>8 DEF Get
<1>3. ASSUME NEW p \in Publishers, Put(p) PROVE LockOwner'
  BY <1>3 DEF Put
<1>4. ASSUME NEW k \in Closers, Close(k) PROVE LockOwner'
  BY <1>4 DEF Close, CloseBegin, DrainTake, DrainClose, Discard, Receive
<1>5. ASSUME NEW c \in Channels, ChannelDies(c) PROVE LockOwner'
  BY <1>5 DEF ChannelDies
<1> QED
  BY <1>1, <1>2, <1>3, <1>4, <1>5 DEF Next

\* Only the closer that found the pool open drains it, and it stops when the
\* pool is empty; nothing is added to a closed pool.
LEMMA DrainerAtWorkStep ==
  ASSUME Control, [Next]_vars
  PROVE  DrainerAtWork'
<1> USE PoolAssumption DEF Control, TypeOK, DrainerAtWork, FillingAlone, Procs, Goto
<1>1. CASE Fill \/ FillFails \/ FillDone \/ ConnectionDies \/ UNCHANGED vars
  BY <1>1 DEF Fill, FillFails, FillDone, ConnectionDies, vars
<1>2. ASSUME NEW p \in Publishers, Get(p) \/ Put(p) PROVE DrainerAtWork'
  <2>1. \A k \in Closers : pc'[k] = pc[k]
    BY <1>2 DEF Get, Put, BeginGet, TryTake, CheckTaken, LoadSize, LockToGrow,
                OpenChannel, CloseSpurned, AwaitChannel, WaitExpires, Recheck, Receive, PoolClosedError, Inspect
  <2>2. closed' = closed
    BY <1>2 DEF Get, Put, BeginGet, TryTake, CheckTaken, LoadSize, LockToGrow,
                OpenChannel, CloseSpurned, AwaitChannel, WaitExpires, Recheck
  <2>3. closed => idle' = idle \/ idle # <<>>
    BY <1>2 DEF Get, Put, BeginGet, TryTake, CheckTaken, LoadSize, LockToGrow,
                OpenChannel, CloseSpurned, AwaitChannel, WaitExpires, Recheck, Receive, PoolClosedError, Discard
  <2> QED
    BY <2>1, <2>2, <2>3
<1>3. ASSUME NEW k \in Closers, Close(k) PROVE DrainerAtWork'
  <2>1. CASE CloseBegin(k)
    BY <2>1 DEF CloseBegin
  <2>2. CASE DrainTake(k)
    BY <2>2 DEF DrainTake, Receive
  <2>3. CASE DrainClose(k)
    BY <2>3 DEF DrainClose, Discard
  <2> QED
    BY <1>3, <2>1, <2>2, <2>3 DEF Close
<1>4. ASSUME NEW c \in Channels, ChannelDies(c) PROVE DrainerAtWork'
  BY <1>4 DEF ChannelDies
<1> QED
  BY <1>1, <1>2, <1>3, <1>4 DEF Next

\* Every step of the pool keeps the control invariant.
LEMMA ControlStep == Control /\ [Next]_vars => Control'
  BY TypeStep, HandsMatchStep, FillingAloneStep, LockOwnerStep, DrainerAtWorkStep DEF Control

-----------------------------------------------------------------------------
(* What a step does with channels: one of nine moves, whichever goroutine    *)
(* makes it.                                                               *)

Stay == UNCHANGED <<idle, hand, current, spurned>> /\ open' \subseteq open

\* From p.channels into the hand of x.
Take(x) ==
    /\ hand[x] = NoChannel /\ idle # <<>>
    /\ hand' = [hand EXCEPT ![x] = Head(idle)] /\ idle' = Tail(idle)
    /\ UNCHANGED <<current, open, spurned>>

\* Out of the hand of x, closed and uncounted.
Drop(x) ==
    /\ hand[x] # NoChannel
    /\ hand' = [hand EXCEPT ![x] = NoChannel]
    /\ current' = current - 1 /\ open' = open \ {hand[x]}
    /\ UNCHANGED <<idle, spurned>>

\* From the hand of x back into p.channels.
Return(x) ==
    /\ hand[x] # NoChannel
    /\ hand' = [hand EXCEPT ![x] = NoChannel] /\ idle' = Append(idle, hand[x])
    /\ UNCHANGED <<current, open, spurned>>

\* Opened by x.
Grow(x, c) ==
    /\ hand[x] = NoChannel /\ c \in Fresh /\ current < MaxPoolSize
    /\ hand' = [hand EXCEPT ![x] = c]
    /\ current' = current + 1 /\ open' = open \cup {c}
    /\ UNCHANGED <<idle, spurned>>

\* Opened by newPublisherChannelPool.
Stock(c) ==
    /\ c \in Fresh /\ Len(idle) < Size /\ InHand = {}
    /\ idle' = Append(idle, c)
    /\ current' = current + 1 /\ open' = open \cup {c}
    /\ UNCHANGED <<hand, spurned>>

\* Closed by newPublisherChannelPool, which fails.
Clear ==
    /\ InHand = {}
    /\ idle' = <<>> /\ current' = current - Len(idle) /\ open' = open \ Idle
    /\ UNCHANGED <<hand, spurned>>

\* Opened by p and refused by Confirm, then closed by p.
Spurn(p, c) ==
    /\ spurned[p] = NoChannel
    /\ spurned' = [spurned EXCEPT ![p] = c] /\ open' = open \cup {c}
    /\ UNCHANGED <<idle, hand, current>>

Dispose(p) ==
    /\ spurned' = [spurned EXCEPT ![p] = NoChannel] /\ open' = open \ {spurned[p]}
    /\ UNCHANGED <<idle, hand, current>>

Move ==
    \/ Stay \/ Clear
    \/ \E x \in Procs : Take(x) \/ Drop(x) \/ Return(x)
    \/ \E x \in Procs, c \in Channels : Grow(x, c)
    \/ \E c \in Channels : Stock(c)
    \/ \E p \in Publishers : Dispose(p) \/ \E c \in Channels : Spurn(p, c)

\* Whatever a step of get, put or close does to the channels is one of the moves.
LEMMA StepIsMove ==
  ASSUME Control, [Next]_vars
  PROVE  Move
<1> USE PoolAssumption DEF Control, TypeOK, HandsMatch, Procs
<1>1. CASE Fill
  <2>1. InHand = {}
    BY <1>1 DEF Fill, FillingAlone, InHand
  <2>2. PICK c \in Fresh : idle' = Append(idle, c) /\ open' = open \cup {c}
    BY <1>1 DEF Fill
  <2> QED
    BY <1>1, <2>1, <2>2 DEF Fill, Move, Stock, Fresh
<1>2. CASE FillDone \/ ConnectionDies \/ UNCHANGED vars
  BY <1>2 DEF FillDone, ConnectionDies, vars, Move, Stay
<1>7. CASE FillFails
  <2>1. InHand = {}
    BY <1>7 DEF FillFails, FillingAlone, InHand
  <2> QED
    BY <1>7, <2>1 DEF FillFails, Move, Clear
<1>3. ASSUME NEW p \in Publishers, Get(p) PROVE Move
  <2>1. CASE BeginGet(p) \/ LoadSize(p) \/ WaitExpires(p) \/ LockToGrow(p)
    BY <2>1 DEF BeginGet, LoadSize, WaitExpires, LockToGrow, Move, Stay
  <2>2. CASE TryTake(p)
    <3>1. Take(p) \/ Stay
      BY <2>2 DEF TryTake, PoolClosedError, Receive, Stay, Take
    <3> QED
      BY <3>1 DEF Move
  <2>3. CASE CheckTaken(p)
    <3>1. Drop(p) \/ Stay
      BY <2>3 DEF CheckTaken, Inspect, Stay, Drop
    <3> QED
      BY <3>1 DEF Move
  <2>4. CASE OpenChannel(p)
    <3>1. current < MaxPoolSize /\ hand[p] = NoChannel
      BY <2>4 DEF OpenChannel, LockOwner
    <3>2. spurned[p] = NoChannel
      BY <2>4 DEF OpenChannel
    <3>3. Stay \/ \E c \in Channels : Grow(p, c) \/ Spurn(p, c)
      BY <2>4, <3>1, <3>2 DEF OpenChannel, Stay, Grow, Spurn, Fresh
    <3> QED
      BY <3>3 DEF Move
  <2>5. CASE AwaitChannel(p)
    <3>1. Take(p) \/ Stay
      BY <2>5 DEF AwaitChannel, PoolClosedError, Receive, Stay, Take
    <3> QED
      BY <3>1 DEF Move
  <2>6. CASE Recheck(p)
    <3>1. Drop(p) \/ Stay
      BY <2>6 DEF Recheck, Inspect, Stay, Drop
    <3> QED
      BY <3>1 DEF Move
  <2>7. CASE CloseSpurned(p)
    <3>1. Dispose(p)
      BY <2>7 DEF CloseSpurned, Dispose
    <3> QED
      BY <3>1 DEF Move
  <2> QED
    BY <1>3, <2>1, <2>2, <2>3, <2>4, <2>5, <2>6, <2>7 DEF Get
<1>4. ASSUME NEW p \in Publishers, Put(p) PROVE Move
  <2>1. Drop(p) \/ Return(p)
    BY <1>4 DEF Put, Discard, GiveBack, Release, Drop, Return
  <2> QED
    BY <2>1 DEF Move
<1>5. ASSUME NEW k \in Closers, Close(k) PROVE Move
  <2>1. CASE CloseBegin(k)
    BY <2>1 DEF CloseBegin, Move, Stay
  <2>2. CASE DrainTake(k)
    <3>1. Take(k) \/ Stay
      BY <2>2 DEF DrainTake, Receive, Stay, Take
    <3> QED
      BY <3>1 DEF Move
  <2>3. CASE DrainClose(k)
    <3>1. Drop(k)
      BY <2>3 DEF DrainClose, Discard, Release, Drop
    <3> QED
      BY <3>1 DEF Move
  <2> QED
    BY <1>5, <2>1, <2>2, <2>3 DEF Close
<1>6. ASSUME NEW c \in Channels, ChannelDies(c) PROVE Move
  BY <1>6 DEF ChannelDies, Move, Stay
<1> QED
  BY <1>1, <1>2, <1>3, <1>4, <1>5, <1>6, <1>7 DEF Next

-----------------------------------------------------------------------------
(* Counting.                                                               *)

\* Finitely many goroutines hold a channel, so they can be counted.
LEMMA InHandFinite == IsFiniteSet(InHand) /\ Cardinality(InHand) \in Nat
<1>1. IsFiniteSet(Procs)
  BY PoolAssumption, FS_Union DEF Procs
<1>2. InHand \in SUBSET Procs
  BY DEF InHand
<1> QED
  BY <1>1, <1>2, FS_Subset, FS_CardinalityType

\* A goroutine that takes a channel is one more, one that lets go one less.
LEMMA HandChanges ==
  ASSUME TypeOK, NEW x \in Procs, NEW c \in Channels \cup {NoChannel},
         hand' = [hand EXCEPT ![x] = c]
  PROVE  /\ hand[x] = NoChannel /\ c # NoChannel =>
              Cardinality(InHand') = Cardinality(InHand) + 1
         /\ hand[x] # NoChannel /\ c = NoChannel =>
              Cardinality(InHand') = Cardinality(InHand) - 1
<1>1. hand[x] = NoChannel /\ c # NoChannel => InHand' = InHand \cup {x} /\ x \notin InHand
  BY DEF InHand, TypeOK
<1>2. hand[x] # NoChannel /\ c = NoChannel => InHand' = InHand \ {x} /\ x \in InHand
  BY DEF InHand, TypeOK
<1>3. x \notin InHand => Cardinality(InHand \cup {x}) = Cardinality(InHand) + 1
  BY InHandFinite, FS_AddElement
<1>4. x \in InHand => Cardinality(InHand \ {x}) = Cardinality(InHand) - 1
  BY InHandFinite, FS_RemoveElement
<1> QED
  BY <1>1, <1>2, <1>3, <1>4

\* Every move keeps currentPoolSize equal to the channels in the pool and in
\* use, and within publisherMaxPoolSize.
LEMMA CountingStep ==
  ASSUME TypeOK, SizeAccounting, current <= MaxPoolSize, Move
  PROVE  SizeAccounting' /\ current' <= MaxPoolSize
<1> USE PoolAssumption DEF TypeOK, SizeAccounting
<1>1. CASE Stay
  BY <1>1 DEF Stay, InHand
<1>8. ASSUME NEW p \in Publishers, NEW c \in Channels, Spurn(p, c)
      PROVE  SizeAccounting' /\ current' <= MaxPoolSize
  BY <1>8 DEF Spurn, InHand
<1>9. ASSUME NEW p \in Publishers, Dispose(p) PROVE SizeAccounting' /\ current' <= MaxPoolSize
  BY <1>9 DEF Dispose, InHand
<1>2. ASSUME NEW x \in Procs, Take(x) PROVE SizeAccounting' /\ current' <= MaxPoolSize
  <2>1. Head(idle) \in Channels /\ Len(idle') = Len(idle) - 1
    BY <1>2 DEF Take
  <2>2. Cardinality(InHand') = Cardinality(InHand) + 1
    BY <1>2, <2>1, HandChanges DEF Take
  <2> QED
    BY <1>2, <2>1, <2>2, InHandFinite DEF Take
<1>3. ASSUME NEW x \in Procs, Drop(x) PROVE SizeAccounting' /\ current' <= MaxPoolSize
  <2>1. Cardinality(InHand') = Cardinality(InHand) - 1
    BY <1>3, HandChanges DEF Drop
  <2>2. current' = current - 1 /\ idle' = idle /\ Len(idle) \in Nat
    BY <1>3 DEF Drop
  <2> QED
    BY <2>1, <2>2, InHandFinite
<1>4. ASSUME NEW x \in Procs, Return(x) PROVE SizeAccounting' /\ current' <= MaxPoolSize
  <2>1. Cardinality(InHand') = Cardinality(InHand) - 1
    BY <1>4, HandChanges DEF Return
  <2>2. Len(idle') = Len(idle) + 1
    BY <1>4 DEF Return
  <2> QED
    BY <1>4, <2>1, <2>2, InHandFinite DEF Return
<1>5. ASSUME NEW x \in Procs, NEW c \in Channels, Grow(x, c)
      PROVE  SizeAccounting' /\ current' <= MaxPoolSize
  <2>1. Cardinality(InHand') = Cardinality(InHand) + 1
    BY <1>5, HandChanges DEF Grow
  <2> QED
    BY <1>5, <2>1, InHandFinite DEF Grow
<1>6. ASSUME NEW c \in Channels, Stock(c) PROVE SizeAccounting' /\ current' <= MaxPoolSize
  <2>1. Len(idle') = Len(idle) + 1
    BY <1>6 DEF Stock
  <2>2. Cardinality(InHand) = 0 /\ Cardinality(InHand') = 0
    <3>1. InHand = {} /\ InHand' = {}
      BY <1>6 DEF Stock, InHand
    <3> QED
      BY <3>1, FS_EmptySet, Zenon
  <2>3. current = Len(idle) /\ Len(idle) \in Nat /\ Len(idle) < Size
    BY <1>6, <2>2 DEF Stock
  <2>4. current' = Len(idle) + 1
    BY <1>6, <2>3 DEF Stock
  <2> QED
    BY <2>1, <2>2, <2>3, <2>4
<1>7. CASE Clear
  <2>1. Cardinality(InHand) = 0 /\ Cardinality(InHand') = 0
    <3>1. InHand = {} /\ InHand' = {}
      BY <1>7 DEF Clear, InHand
    <3> QED
      BY <3>1, FS_EmptySet, Zenon
  <2>2. current = Len(idle) /\ Len(idle) \in Nat
    BY <2>1
  <2>3. current' = 0
    <3>1. current' = current - Len(idle)
      BY <1>7, Zenon DEF Clear
    <3> QED
      BY <2>2, <3>1
  <2>4. Len(idle') = 0
    BY <1>7 DEF Clear
  <2> QED
    BY <2>1, <2>3, <2>4
<1> QED
  BY <1>1, <1>2, <1>3, <1>4, <1>5, <1>6, <1>7, <1>8, <1>9 DEF Move

-----------------------------------------------------------------------------
(* Where the channels are.                                                 *)

\* What a receive, a send and a change of one hand do to the sets of channels.
LEMMA TailElements ==
  ASSUME TypeOK, idle # <<>>, idle' = Tail(idle), ExclusiveUse
  PROVE  /\ Head(idle) \in Idle /\ Head(idle) \in Channels
         /\ Idle' = Idle \ {Head(idle)}
         /\ \A i, j \in 1..Len(idle') : idle'[i] = idle'[j] => i = j
<1> USE DEF TypeOK, Idle
<1>1. /\ Len(idle') = Len(idle) - 1 /\ Len(idle) \in Nat \ {0}
      /\ \A i \in 1..Len(idle') : idle'[i] = idle[i + 1]
      /\ Head(idle) = idle[1] /\ Head(idle) \in Channels
  OBVIOUS
<1>2. \A i, j \in 1..Len(idle) : idle[i] = idle[j] => i = j
  BY DEF ExclusiveUse
<1>3. Idle' = {idle'[i] : i \in 1..Len(idle')}
  OBVIOUS
<1>4. \A c \in Idle' : c \in Idle \ {Head(idle)}
  BY <1>1, <1>2, <1>3
<1>5. \A c \in Idle \ {Head(idle)} : c \in Idle'
  <2> TAKE c \in Idle \ {Head(idle)}
  <2>1. PICK i \in 1..Len(idle) : c = idle[i]
    OBVIOUS
  <2>2. i - 1 \in 1..Len(idle') /\ idle'[i - 1] = c
    BY <1>1, <2>1
  <2> QED
    BY <2>2, <1>3
<1>6. Head(idle) \in Idle
  BY <1>1
<1>7. \A i, j \in 1..Len(idle') : idle'[i] = idle'[j] => i = j
  BY <1>1, <1>2
<1>8. Idle' = Idle \ {Head(idle)}
  <2> HIDE DEF TypeOK, Idle
  <2> QED
    BY <1>4, <1>5
<1> QED
  BY <1>1, <1>6, <1>7, <1>8

\* A send to p.channels adds one element and keeps the others.
LEMMA AppendElements ==
  ASSUME TypeOK, NEW c \in Channels, idle' = Append(idle, c), ExclusiveUse
  PROVE  /\ Idle' = Idle \cup {c}
         /\ c \notin Idle => \A i, j \in 1..Len(idle') : idle'[i] = idle'[j] => i = j
<1> USE DEF TypeOK, Idle
<1>1. /\ Len(idle') = Len(idle) + 1 /\ Len(idle) \in Nat
      /\ \A i \in 1..Len(idle) : idle'[i] = idle[i]
      /\ idle'[Len(idle) + 1] = c
  OBVIOUS
<1>2. \A i, j \in 1..Len(idle) : idle[i] = idle[j] => i = j
  BY DEF ExclusiveUse
<1>3. Idle' = {idle'[i] : i \in 1..Len(idle')}
  OBVIOUS
<1>4. Idle' = Idle \cup {c}
  BY <1>1, <1>3
<1>5. ASSUME c \notin Idle, NEW i \in 1..Len(idle'), NEW j \in 1..Len(idle'), idle'[i] = idle'[j]
      PROVE  i = j
  BY <1>1, <1>2, <1>5
<1> QED
  BY <1>4, <1>5

\* A channel that is put into an empty hand, or leaves a hand.
LEMMA HandElements ==
  ASSUME TypeOK, NEW x \in Procs, NEW c \in Channels \cup {NoChannel},
         hand' = [hand EXCEPT ![x] = c], ExclusiveUse
  PROVE  /\ hand[x] = NoChannel /\ c # NoChannel /\ c \notin Held =>
              /\ Held' = Held \cup {c}
              /\ \A y, z \in InHand' : hand'[y] = hand'[z] => y = z
         /\ hand[x] # NoChannel /\ c = NoChannel =>
              /\ Held' = Held \ {hand[x]} /\ hand[x] \in Held
              /\ \A y, z \in InHand' : hand'[y] = hand'[z] => y = z
<1> USE DEF TypeOK, Held, InHand
<1>1. Held' = {hand'[y] : y \in InHand'}
  OBVIOUS
<1>2. \A y, z \in InHand : hand[y] = hand[z] => y = z
  BY DEF ExclusiveUse
<1>3. \A y \in Procs : hand'[y] = IF y = x THEN c ELSE hand[y]
  OBVIOUS
<1>4. ASSUME hand[x] = NoChannel, c # NoChannel, c \notin Held
      PROVE  /\ Held' = Held \cup {c}
             /\ \A y, z \in InHand' : hand'[y] = hand'[z] => y = z
  <2>1. InHand' = InHand \cup {x} /\ x \notin InHand
    BY <1>3, <1>4
  <2>2. \A y \in InHand : hand'[y] = hand[y] /\ hand[y] \in Held
    BY <1>3, <2>1
  <2>3. Held' = Held \cup {c}
    BY <1>1, <1>3, <2>1, <2>2
  <2>4. \A y, z \in InHand' : hand'[y] = hand'[z] => y = z
    BY <1>2, <1>3, <1>4, <2>1, <2>2
  <2> QED
    BY <2>1, <2>2, <2>3, <2>4
<1>5. ASSUME hand[x] # NoChannel, c = NoChannel
      PROVE  /\ Held' = Held \ {hand[x]} /\ hand[x] \in Held
             /\ \A y, z \in InHand' : hand'[y] = hand'[z] => y = z
  <2>1. InHand' = InHand \ {x} /\ x \in InHand
    BY <1>3, <1>5
  <2> QED
    BY <1>1, <1>2, <1>3, <1>5, <2>1
<1> QED
  BY <1>4, <1>5

\* Every move keeps a channel in one place, and drops no open channel.
LEMMA PlacesStep ==
  ASSUME TypeOK, ExclusiveUse, NoLeak, Move
  PROVE  ExclusiveUse' /\ NoLeak'
<1> USE PoolAssumption DEF ExclusiveUse, NoLeak, Referenced
<1> DEFINE Same == spurned' = spurned /\ Spurned' = Spurned
<1>0. spurned' = spurned => Same
  BY DEF Spurned
<1> HIDE DEF Same
<1>1. CASE Stay
  <2>1. idle' = idle /\ Idle' = Idle /\ InHand' = InHand /\ hand' = hand /\ Held' = Held
    BY <1>1 DEF Stay, Idle, Held, InHand
  <2> QED
    BY <1>0, <1>1, <2>1 DEF Same, Stay
<1>8. ASSUME NEW p \in Publishers, NEW c \in Channels, Spurn(p, c) PROVE ExclusiveUse' /\ NoLeak'
  <2>1. idle' = idle /\ Idle' = Idle /\ InHand' = InHand /\ hand' = hand /\ Held' = Held
    BY <1>8 DEF Spurn, Idle, Held, InHand
  <2>2. Spurned \cup {c} \subseteq Spurned'
    BY <1>8 DEF Spurn, Spurned, TypeOK
  <2> QED
    BY <1>8, <2>1, <2>2 DEF Spurn
<1>9. ASSUME NEW p \in Publishers, Dispose(p) PROVE ExclusiveUse' /\ NoLeak'
  <2>1. idle' = idle /\ Idle' = Idle /\ InHand' = InHand /\ hand' = hand /\ Held' = Held
    BY <1>9 DEF Dispose, Idle, Held, InHand
  <2>2. Spurned \ {spurned[p]} \subseteq Spurned'
    BY <1>9 DEF Dispose, Spurned, TypeOK
  <2> QED
    BY <1>9, <2>1, <2>2 DEF Dispose
<1>2. ASSUME NEW x \in Procs, Take(x) PROVE ExclusiveUse' /\ NoLeak'
  <2>1. Head(idle) \in Idle \ Held /\ Head(idle) \in Channels /\ Idle' = Idle \ {Head(idle)}
    BY <1>2, TailElements DEF Take
  <2>2. \A i, j \in 1..Len(idle') : idle'[i] = idle'[j] => i = j
    BY <1>2, TailElements DEF Take
  <2>3. /\ Held' = Held \cup {Head(idle)}
        /\ \A y, z \in InHand' : hand'[y] = hand'[z] => y = z
    BY <1>2, <2>1, HandElements DEF Take
  <2> QED
    BY <1>0, <1>2, <2>1, <2>2, <2>3 DEF Same, Take
<1>3. ASSUME NEW x \in Procs, Drop(x) PROVE ExclusiveUse' /\ NoLeak'
  <2>1. /\ Held' = Held \ {hand[x]}
        /\ \A y, z \in InHand' : hand'[y] = hand'[z] => y = z
    BY <1>3, HandElements DEF Drop
  <2>2. idle' = idle /\ Idle' = Idle
    BY <1>3 DEF Drop, Idle
  <2> QED
    BY <1>0, <1>3, <2>1, <2>2 DEF Same, Drop
<1>4. ASSUME NEW x \in Procs, Return(x) PROVE ExclusiveUse' /\ NoLeak'
  <2>1. /\ Held' = Held \ {hand[x]} /\ hand[x] \in Held
        /\ \A y, z \in InHand' : hand'[y] = hand'[z] => y = z
    BY <1>4, HandElements DEF Return
  <2>2. hand[x] \in Channels
    BY <1>4 DEF Return, TypeOK
  <2>3. /\ Idle' = Idle \cup {hand[x]}
        /\ \A i, j \in 1..Len(idle') : idle'[i] = idle'[j] => i = j
    BY <1>4, <2>1, <2>2, AppendElements DEF Return
  <2> QED
    BY <1>0, <1>4, <2>1, <2>3 DEF Same, Return
<1>5. ASSUME NEW x \in Procs, NEW c \in Channels, Grow(x, c) PROVE ExclusiveUse' /\ NoLeak'
  <2>1. c \notin Idle /\ c \notin Held
    BY <1>5 DEF Grow, Fresh
  <2>2. /\ Held' = Held \cup {c}
        /\ \A y, z \in InHand' : hand'[y] = hand'[z] => y = z
    BY <1>5, <2>1, HandElements DEF Grow
  <2>3. idle' = idle /\ Idle' = Idle
    BY <1>5 DEF Grow, Idle
  <2> QED
    BY <1>0, <1>5, <2>1, <2>2, <2>3 DEF Same, Grow
<1>6. ASSUME NEW c \in Channels, Stock(c) PROVE ExclusiveUse' /\ NoLeak'
  <2>1. c \notin Idle /\ c \notin Held
    BY <1>6 DEF Stock, Fresh
  <2>2. /\ Idle' = Idle \cup {c}
        /\ \A i, j \in 1..Len(idle') : idle'[i] = idle'[j] => i = j
    BY <1>6, <2>1, AppendElements DEF Stock
  <2>3. hand' = hand /\ Held' = Held /\ InHand' = InHand
    BY <1>6 DEF Stock, Held, InHand
  <2> QED
    BY <1>0, <1>6, <2>1, <2>2, <2>3 DEF Same, Stock
<1>7. CASE Clear
  <2>1. Held' = {} /\ Held = {} /\ InHand' = {} /\ Idle' = {} /\ Len(idle') = 0
    BY <1>7 DEF Clear, Held, InHand, Idle
  <2> QED
    BY <1>0, <1>7, <2>1 DEF Same, Clear
<1> QED
  BY <1>1, <1>2, <1>3, <1>4, <1>5, <1>6, <1>7, <1>8, <1>9 DEF Move

-----------------------------------------------------------------------------
(* The invariant and what follows from it.                                 *)

\* The invariant holds before the constructor opens a channel.
LEMMA IInvInit == Init => IInv
<1> SUFFICES ASSUME Init PROVE IInv
  OBVIOUS
<1>1. InHand = {} /\ Idle = {} /\ Len(idle) = 0
  BY DEF Init, InHand, Idle
<1>2. SizeAccounting /\ current <= MaxPoolSize
  BY <1>1, FS_EmptySet, PoolAssumption DEF Init, SizeAccounting
<1>3. ExclusiveUse /\ NoLeak
  BY <1>1 DEF Init, ExclusiveUse, NoLeak
<1> QED
  BY <1>2, <1>3, ControlInit DEF IInv

\* Every step of get, put, close and of the broker keeps the invariant.
LEMMA IInvStep == IInv /\ [Next]_vars => IInv'
<1> SUFFICES ASSUME IInv, [Next]_vars PROVE IInv'
  OBVIOUS
<1>1. Control' /\ Move
  BY ControlStep, StepIsMove DEF IInv
<1>2. SizeAccounting' /\ current' <= MaxPoolSize
  BY <1>1, CountingStep DEF IInv, Control
<1>3. ExclusiveUse' /\ NoLeak'
  BY <1>1, PlacesStep DEF IInv, Control
<1> QED
  BY <1>1, <1>2, <1>3 DEF IInv

\* The inductive invariant of the pool holds in every reachable state.
THEOREM Invariance == Spec => []IInv
  BY IInvInit, IInvStep, PTL DEF Spec

\* Two publishers never share a channel of the pool (get, put, close).
THEOREM ChannelsAreExclusive == Spec => []ExclusiveUse
<1>1. IInv => ExclusiveUse
  BY DEF IInv
<1> QED
  BY <1>1, Invariance, PTL

\* No open channel is forgotten by an error path of get, put or close.
THEOREM NothingLeaks == Spec => []NoLeak
<1>1. IInv => NoLeak
  BY DEF IInv
<1> QED
  BY <1>1, Invariance, PTL

\* currentPoolSize is the number of channels in the pool and in use.
THEOREM SizeIsAccurate == Spec => []SizeAccounting
<1>1. IInv => SizeAccounting
  BY DEF IInv
<1> QED
  BY <1>1, Invariance, PTL

\* The open channels that Confirm has not refused are among those in the pool
\* and in use, of which there are currentPoolSize.
LEMMA OpenIsCounted ==
  ASSUME IInv
  PROVE  Cardinality(open \ Spurned) \in Nat /\ Cardinality(open \ Spurned) <= current
<1> USE DEF IInv, Control, TypeOK
<1>1. IsFiniteSet(Idle) /\ Cardinality(Idle) <= Len(idle)
  <2> DEFINE f == [i \in 1..Len(idle) |-> idle[i]]
  <2>1. f \in Surjection(1..Len(idle), Idle)
    BY DEF Surjection, Idle
  <2>2. IsFiniteSet(1..Len(idle)) /\ Cardinality(1..Len(idle)) = Len(idle)
    <3>1. Len(idle) \in Nat /\ 1 \in Int /\ Len(idle) \in Int
      OBVIOUS
    <3>2. /\ IsFiniteSet(1..Len(idle))
          /\ Cardinality(1..Len(idle)) = IF 1 > Len(idle) THEN 0 ELSE Len(idle) - 1 + 1
      BY <3>1, FS_Interval, Zenon
    <3> QED
      BY <3>1, <3>2
  <2> QED
    BY <2>1, <2>2, FS_Surjection
<1>2. IsFiniteSet(Held) /\ Cardinality(Held) <= Cardinality(InHand)
  <2> DEFINE g == [x \in InHand |-> hand[x]]
  <2>1. g \in Surjection(InHand, Held)
    BY DEF Surjection, Held
  <2> QED
    BY <2>1, InHandFinite, FS_Surjection
<1>3. /\ IsFiniteSet(Referenced)
      /\ Cardinality(Referenced) = Cardinality(Idle) + Cardinality(Held) - Cardinality(Idle \cap Held)
  BY <1>1, <1>2, FS_Union DEF Referenced
<1>4. /\ Cardinality(Idle) \in Nat /\ Cardinality(Held) \in Nat
      /\ Cardinality(Idle \cap Held) \in Nat
  BY <1>1, <1>2, FS_CardinalityType, FS_EmptySet DEF ExclusiveUse
<1>5. /\ Cardinality(open \ Spurned) <= Cardinality(Referenced)
      /\ Cardinality(open \ Spurned) \in Nat
  BY <1>3, FS_Subset, FS_CardinalityType DEF NoLeak
<1> QED
  BY <1>1, <1>2, <1>3, <1>4, <1>5, InHandFinite DEF SizeAccounting

\* Neither the count nor the broker ever sees more than publisherMaxPoolSize
\* channels of one pool that are in confirm mode.
THEOREM PoolIsBounded == Spec => []ChannelBound
<1>1. IInv => ChannelBound
  <2> SUFFICES ASSUME IInv PROVE ChannelBound
    OBVIOUS
  <2> QED
    BY OpenIsCounted, PoolAssumption DEF ChannelBound, IInv, Control, TypeOK
<1> QED
  BY <1>1, Invariance, PTL

\* A closed pool is drained, and empty once its last channel is returned.
THEOREM ClosedIsDrained == Spec => []ClosedDrained
<1>1. IInv => ClosedDrained
  <2> SUFFICES ASSUME IInv, closed, \A k \in Closers : pc[k] \notin {"drain", "closing"}
               PROVE  /\ idle = <<>>
                      /\ (\A p \in Publishers : pc[p] = "out") => open = {} /\ current = 0
    BY DEF ClosedDrained
  <2>1. idle = <<>>
    BY DEF IInv, Control, DrainerAtWork
  <2>2. ASSUME \A p \in Publishers : pc[p] = "out" PROVE open = {} /\ current = 0
    <3>1. InHand = {}
      BY <2>2 DEF IInv, Control, HandsMatch, InHand, Procs, TypeOK, CloserPC
    <3>2. Held = {} /\ Idle = {} /\ Len(idle) = 0 /\ Spurned = {}
      BY <2>1, <2>2, <3>1 DEF Held, Idle, Spurned, IInv, Control, HandsMatch
    <3>3. Cardinality(InHand) = 0
      BY <3>1, FS_EmptySet
    <3>4. current = 0
      BY <3>2, <3>3 DEF IInv, SizeAccounting
    <3> QED
      BY <3>2, <3>4 DEF IInv, NoLeak, Referenced
  <2> QED
    BY <2>1, <2>2
<1> QED
  BY <1>1, Invariance, PTL

-----------------------------------------------------------------------------
(* The pool implements Lender.                                             *)

\* p.closed is set for good; a closed pool gets no channel back and opens none.
LEMMA ClosedStep ==
  ASSUME Control, [Next]_vars
  PROVE  /\ closed => closed'
         /\ closed /\ idle = <<>> => idle' = <<>>
         /\ closed' # closed => hand' = hand
         /\ closed /\ idle = <<>> => \A p \in Publishers : hand'[p] # NoChannel => hand'[p] = hand[p]
<1> USE PoolAssumption DEF Control, TypeOK, HandsMatch, Procs
<1>1. CASE Fill \/ FillFails
  BY <1>1 DEF Fill, FillFails, FillingAlone
<1>2. CASE FillDone \/ ConnectionDies \/ UNCHANGED vars
  BY <1>2 DEF FillDone, ConnectionDies, vars
<1>3. ASSUME NEW p \in Publishers, Get(p)
      PROVE  /\ closed' = closed
             /\ closed /\ idle = <<>> =>
                  idle' = <<>> /\ \A q \in Publishers : hand'[q] # NoChannel => hand'[q] = hand[q]
  <2>1. CASE BeginGet(p) \/ LoadSize(p) \/ WaitExpires(p) \/ LockToGrow(p)
    BY <2>1 DEF BeginGet, LoadSize, WaitExpires, LockToGrow
  <2>2. CASE TryTake(p) \/ AwaitChannel(p)
    BY <2>2 DEF TryTake, AwaitChannel, PoolClosedError, Receive
  <2>3. CASE CheckTaken(p) \/ Recheck(p)
    BY <2>3 DEF CheckTaken, Recheck, Inspect
  <2>4. CASE OpenChannel(p)
    BY <2>4 DEF OpenChannel, LockOwner
  <2>5. CASE CloseSpurned(p)
    BY <2>5 DEF CloseSpurned
  <2> QED
    BY <1>3, <2>1, <2>2, <2>3, <2>4, <2>5 DEF Get
<1>4. ASSUME NEW p \in Publishers, Put(p)
      PROVE  /\ closed' = closed
             /\ closed /\ idle = <<>> =>
                  idle' = <<>> /\ \A q \in Publishers : hand'[q] # NoChannel => hand'[q] = hand[q]
  BY <1>4 DEF Put, Discard, GiveBack, Release
<1>5. ASSUME NEW k \in Closers, CloseBegin(k)
      PROVE  closed' /\ idle' = idle /\ hand' = hand
  BY <1>5 DEF CloseBegin
<1>6. ASSUME NEW k \in Closers, DrainTake(k) \/ DrainClose(k)
      PROVE  /\ closed' = closed
             /\ closed /\ idle = <<>> =>
                  idle' = <<>> /\ \A q \in Publishers : hand'[q] # NoChannel => hand'[q] = hand[q]
  BY <1>6 DEF DrainTake, DrainClose, Receive, Discard, Release
<1>7. ASSUME NEW c \in Channels, ChannelDies(c)
      PROVE  closed' = closed /\ idle' = idle /\ hand' = hand
  BY <1>7 DEF ChannelDies
<1> QED
  BY <1>1, <1>2, <1>3, <1>4, <1>5, <1>6, <1>7 DEF Next, Close

\* A pool under construction is a lender that has lent nothing.
LEMMA PromiseInit == Init => Promise!Init
  BY DEF Init, Promise!Init, Procs

\* Lender counts borrowers with the Cardinality of its own instance of FiniteSets.
LEMMA SameCardinality == \A S : Promise!Cardinality(S) = Cardinality(S)
  BY DEF Promise!Cardinality, Cardinality

\* There is room for one more borrower when a channel waits in p.channels or the
\* count is below the limit.
LEMMA RoomToLend ==
  ASSUME IInv, idle # <<>> \/ current < MaxPoolSize
  PROVE  Cardinality(Promise!Borrowers) < MaxPoolSize
<1>1. Promise!Borrowers \in SUBSET InHand
  BY DEF Promise!Borrowers, InHand, Procs
<1>2. /\ Cardinality(Promise!Borrowers) \in Nat
      /\ Cardinality(Promise!Borrowers) <= Cardinality(InHand)
  BY <1>1, InHandFinite, FS_Subset, FS_CardinalityType
<1>3. Len(idle) \in Nat /\ (idle # <<>> => Len(idle) > 0)
  BY DEF IInv, Control, TypeOK
<1> QED
  BY <1>2, <1>3, InHandFinite, PoolAssumption DEF IInv, SizeAccounting, Control, TypeOK

\* Every step of get, put, close and of the broker is a step of the lender, or
\* one its users cannot see.
LEMMA PromiseStep ==
  ASSUME IInv, [Next]_vars
  PROVE  [Promise!Next]_(Promise!vars)
<1> DEFINE lent == [p \in Publishers |-> hand[p]]
           state == IF ~closed THEN "open" ELSE IF idle # <<>> THEN "closing" ELSE "closed"
<1> USE PoolAssumption
<1>1. Control /\ TypeOK /\ Move
  BY StepIsMove DEF IInv, Control
<1>2. /\ closed => closed'
      /\ closed /\ idle = <<>> => idle' = <<>>
      /\ closed' # closed => hand' = hand
      /\ closed /\ idle = <<>> => \A p \in Publishers : hand'[p] # NoChannel => hand'[p] = hand[p]
  BY <1>1, ClosedStep
<1>3. state' = state \/ (state = "open" /\ state' \in {"closing", "closed"})
                     \/ (state = "closing" /\ state' = "closed")
  BY <1>2
<1>4. CASE lent' = lent
  BY <1>3, <1>4 DEF Promise!Next, Promise!Shut, Promise!Drained, Promise!vars
<1>5. ASSUME NEW p \in Publishers, NEW c \in Channels,
             hand[p] = NoChannel, hand' = [hand EXCEPT ![p] = c],
             c \notin Held, idle # <<>> \/ current < MaxPoolSize
      PROVE  Promise!Next
  <2>1. lent' = [lent EXCEPT ![p] = c] /\ lent[p] = NoChannel
    BY <1>1, <1>5 DEF TypeOK, Procs
  <2>2. c \notin Promise!Lent
    BY <1>5 DEF Promise!Lent, Promise!Borrowers, Held, InHand, Procs
  <2>3. hand'[p] # hand[p] /\ hand'[p] # NoChannel
    BY <1>1, <1>5 DEF TypeOK, Procs
  <2>4. state # "closed" /\ closed' = closed
    BY <1>2, <2>3
  <2>5. state' = state \/ (state = "closing" /\ state' = "closed")
    BY <1>3, <2>4
  <2>6. Promise!Lend(p, c)
    BY <2>1, <2>2, <2>4, <2>5, <1>5, RoomToLend, SameCardinality DEF Promise!Lend, Promise!Drained
  <2> QED
    BY <2>6 DEF Promise!Next
<1>6. ASSUME NEW p \in Publishers, hand[p] # NoChannel, hand' = [hand EXCEPT ![p] = NoChannel],
             idle' = idle \/ idle' = Append(idle, hand[p])
      PROVE  Promise!Next
  <2>1. lent' = [lent EXCEPT ![p] = NoChannel] /\ lent[p] # NoChannel
    BY <1>1, <1>6 DEF TypeOK, Procs
  <2>2. hand' # hand
    BY <1>1, <1>6 DEF TypeOK, Procs
  <2>3. Append(idle, hand[p]) # <<>>
    <3>1. hand[p] \in Channels /\ idle \in Seq(Channels)
      BY <1>1, <1>6 DEF TypeOK, Procs
    <3>2. Len(Append(idle, hand[p])) = Len(idle) + 1 /\ Len(idle) \in Nat
      BY <3>1
    <3> QED
      BY <3>2
  <2>4. state' = state
    BY <1>2, <1>6, <2>2, <2>3
  <2>5. Promise!TakeBack(p)
    BY <2>1, <2>4 DEF Promise!TakeBack
  <2> QED
    BY <2>5 DEF Promise!Next
<1>7. ASSUME NEW k \in Closers, NEW c, hand' = [hand EXCEPT ![k] = c]
      PROVE  lent' = lent
  BY <1>1, <1>7 DEF TypeOK, Procs
<1>8. ASSUME NEW x \in Procs, Take(x) PROVE [Promise!Next]_(Promise!vars)
  <2>1. Head(idle) \in Channels /\ Head(idle) \notin Held
    BY <1>1, <1>8 DEF IInv, ExclusiveUse, Take, TypeOK, Idle
  <2> QED
    BY <1>4, <1>5, <1>7, <1>8, <2>1 DEF Take, Procs
<1>9. ASSUME NEW x \in Procs, Drop(x) \/ Return(x) PROVE [Promise!Next]_(Promise!vars)
  BY <1>4, <1>6, <1>7, <1>9 DEF Drop, Return, Procs
<1>10. ASSUME NEW x \in Procs, NEW c \in Channels, Grow(x, c) PROVE [Promise!Next]_(Promise!vars)
  BY <1>4, <1>5, <1>7, <1>10 DEF Grow, Procs, Fresh, Referenced
<1>11. CASE Stay \/ Clear \/ \E c \in Channels : Stock(c)
  BY <1>4, <1>11 DEF Stay, Clear, Stock
<1>12. ASSUME NEW p \in Publishers, Dispose(p) \/ \E c \in Channels : Spurn(p, c)
       PROVE  [Promise!Next]_(Promise!vars)
  BY <1>4, <1>12 DEF Dispose, Spurn
<1> QED
  BY <1>1, <1>8, <1>9, <1>10, <1>11, <1>12 DEF Move

\* The pool implements the lender its users rely on, for any number of
\* publishers and closers and any sizes: get, put and close in any interleaving
\* lend no channel twice, never more than publisherMaxPoolSize, and none from a
\* pool that is closed and drained.
THEOREM PoolIsLender == Spec => PoolImplementsLender
<1>1. Init => Promise!Init
  BY PromiseInit
<1>2. IInv /\ [Next]_vars => [Promise!Next]_(Promise!vars)
  BY PromiseStep
<1> QED
  BY <1>1, <1>2, Invariance, PTL DEF Spec, PoolImplementsLender, Promise!Spec
=============================================================================
