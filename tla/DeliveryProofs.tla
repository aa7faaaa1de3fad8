--------------------------- MODULE DeliveryProofs ---------------------------
(***************************************************************************)
(* At-least-once delivery, for any number of workers, any limits and any   *)
(* number of failures.                                                     *)
(***************************************************************************)
EXTENDS Delivery, FiniteSetTheorems, TLAPS

-----------------------------------------------------------------------------
(* The inductive invariant.                                                *)

\* What the state of a worker says about its delivery: an idle one has none, a
\* retry is made only below the limit, a rejection only at it.
Workings ==
    \A w \in Workers :
        /\ pc[w] = "idle" => tie[w] = "none"
        /\ pc[w] = "republish" => limit > 0 /\ held[w] < limit
        /\ pc[w] = "reject" => limit # 0 /\ held[w] = Bound

\* No header counts more retries than the limit, and a rejection under way is one
\* of a delivery whose retries are used up.
Within(fs) ==
    \A i \in 1..Len(fs) :
        fs[i].count \in 0..Bound /\ (fs[i].kind = "reject" => limit # 0 /\ fs[i].count = Bound)

IInv == TypeOK /\ Workings /\ Within(frames) /\ ready[Bound + 1] = 0 /\ DeadOnlyExhausted /\ NoLoss

-----------------------------------------------------------------------------
(* Facts about the operators of Delivery.                                  *)

\* The limit is one that QueueConfig.validate accepts.
LEMMA LimitType ==
    ASSUME TypeOK
    PROVE  /\ limit \in Int /\ limit >= -1 /\ Bound \in Nat
           /\ limit > 0 => Bound = limit
           /\ Counts = 0..(Bound + 1)
BY DeliveryAssumption DEF TypeOK, Bound, Counts

\* handleDeliveryFailure publishes again only below the limit and rejects only at it.
LEMMA VerdictMeaning ==
    ASSUME TypeOK, NEW n \in 0..Bound
    PROVE  /\ Verdict(n) \in {"requeue", "republish", "reject"}
           /\ Verdict(n) = "republish" => limit > 0 /\ n < limit
           /\ Verdict(n) = "reject" => limit # 0 /\ n = Bound
BY LimitType DEF Verdict, Bound

\* A lost channel makes nothing disappear from the queue: every delivery without
\* settlement goes back to it, with its own count, and nothing else does.
LEMMA RequeueRestores ==
    ASSUME IInv, NEW rest \in Seq(Frames), Within(rest), Requeue(rest)
    PROVE  /\ ready' \in [Counts -> Nat]
           /\ ready'[Bound + 1] = 0
           /\ \A n \in Counts : ready'[n] >= ready[n]
           /\ \A w \in Owned : held[w] \in Counts /\ ready'[held[w]] > 0
           /\ \A i \in 1..Len(rest) :
                 rest[i].kind # "again" => rest[i].count \in Counts /\ ready'[rest[i].count] > 0
           /\ Owned = {} /\ rest = <<>> => ready' = ready
<1> DEFINE A(n) == {w \in Owned : held[w] = n}
           B(n) == {i \in 1..Len(rest) : rest[i].count = n /\ rest[i].kind # "again"}
           a == [n \in Counts |-> Cardinality(A(n))]
           b == [n \in Counts |-> Cardinality(B(n))]
<1>1. /\ ready \in [Counts -> Nat] /\ ready[Bound + 1] = 0
      /\ Bound \in Nat /\ Counts = 0..(Bound + 1) /\ Len(rest) \in Nat
      /\ \A w \in Workers : held[w] \in 0..Bound
    BY LimitType DEF IInv, TypeOK
<1>2. ready' = [n \in Counts |-> ready[n] + Cardinality(A(n)) + Cardinality(B(n))]
    BY DEF Requeue
<1>3. \A n \in Counts : IsFiniteSet(A(n)) /\ IsFiniteSet(B(n))
  <2>1. IsFiniteSet(Workers) /\ IsFiniteSet(1..Len(rest))
    BY <1>1, DeliveryAssumption, FS_Interval
  <2>2. \A n \in Counts : A(n) \in SUBSET Workers /\ B(n) \in SUBSET (1..Len(rest))
    BY DEF Owned
  <2> QED
    BY <2>1, <2>2, FS_Subset
<1>4. /\ a \in [Counts -> Nat] /\ b \in [Counts -> Nat]
      /\ \A n \in Counts :
          /\ A(n) # {} => a[n] > 0
          /\ B(n) # {} => b[n] > 0
          /\ A(n) = {} => a[n] = 0
          /\ B(n) = {} => b[n] = 0
  <2> HIDE DEF A, B
  <2>1. ASSUME NEW n \in Counts
        PROVE  /\ a[n] \in Nat /\ (A(n) = {} <=> a[n] = 0)
               /\ b[n] \in Nat /\ (B(n) = {} <=> b[n] = 0)
    <3>1. IsFiniteSet(A(n)) /\ IsFiniteSet(B(n))
        BY <1>3
    <3> QED
        BY <3>1, FS_CardinalityType, FS_EmptySet
  <2>2. a \in [Counts -> Nat] /\ b \in [Counts -> Nat]
    BY <2>1
  <2> QED
    BY <2>1, <2>2
<1>5. \A n \in Counts : ready'[n] = ready[n] + a[n] + b[n]
    BY <1>2
<1>6. DOMAIN ready' = Counts /\ ready' = [n \in Counts |-> ready'[n]]
    BY <1>2
<1> HIDE DEF A, B, a, b
<1>7. ASSUME NEW n \in Counts
      PROVE  /\ ready'[n] \in Nat /\ ready'[n] >= ready[n]
             /\ A(n) # {} \/ B(n) # {} => ready'[n] > 0
             /\ A(n) = {} /\ B(n) = {} => ready'[n] = ready[n]
  <2>1. ready[n] \in Nat /\ a[n] \in Nat /\ b[n] \in Nat /\ ready'[n] = ready[n] + a[n] + b[n]
    BY <1>1, <1>4, <1>5
  <2>2. /\ A(n) # {} => a[n] > 0
        /\ B(n) # {} => b[n] > 0
        /\ A(n) = {} => a[n] = 0
        /\ B(n) = {} => b[n] = 0
    BY <1>4
  <2> QED
    BY <2>1, <2>2
<1>8. ready'[Bound + 1] = 0
  <2>1. A(Bound + 1) = {} /\ B(Bound + 1) = {}
    BY <1>1 DEF A, B, Owned, Within
  <2> QED
    BY <1>1, <1>7, <2>1
<1>9. ASSUME NEW w \in Owned PROVE held[w] \in Counts /\ ready'[held[w]] > 0
  <2>1. held[w] \in Counts /\ A(held[w]) # {}
    BY <1>1 DEF A, Owned
  <2> QED
    BY <1>1, <1>7, <2>1
<1>10. ASSUME NEW i \in 1..Len(rest), rest[i].kind # "again"
       PROVE  rest[i].count \in Counts /\ ready'[rest[i].count] > 0
  <2>1. rest[i].count \in Counts /\ B(rest[i].count) # {}
    <3>1. rest[i].count \in 0..Bound
        BY DEF Within
    <3>2. i \in B(rest[i].count)
        BY <1>10 DEF B
    <3> QED
        BY <1>1, <3>1, <3>2
  <2> QED
    BY <1>1, <1>7, <2>1
<1>11. ASSUME Owned = {}, rest = <<>> PROVE ready' = ready
  <2>1. \A n \in Counts : A(n) = {} /\ B(n) = {}
    BY <1>11 DEF A, B
  <2>2. \A n \in Counts : ready'[n] = ready[n]
    BY <1>1, <1>7, <2>1
  <2> QED
    BY <1>1, <1>6, <2>2
<1>12. ready' \in [Counts -> Nat] /\ \A n \in Counts : ready'[n] >= ready[n]
    BY <1>6, <1>7
<1> QED
    BY <1>12, <1>8, <1>9, <1>10, <1>11

-----------------------------------------------------------------------------
(* The invariant holds.                                                    *)

\* The message is in the queue when it arrives.
LEMMA Initially == Init => IInv
<1> SUFFICES ASSUME Init PROVE IInv
    OBVIOUS
<1>1. PICK n \in 0..Bound : ready = [None EXCEPT ![n] = 1]
    BY DEF Init
<1>2. limit \in Int /\ Bound \in Nat /\ Counts = 0..(Bound + 1)
    BY DeliveryAssumption DEF Init, Bound, Counts
<1>3. ready \in [Counts -> Nat] /\ ready[n] = 1 /\ ready[Bound + 1] = 0 /\ n \in Counts
    BY <1>1, <1>2 DEF None
<1>4. up \in BOOLEAN /\ succeeded \in BOOLEAN /\ stopped \in BOOLEAN
    BY Zenon DEF Init
<1>5. TypeOK
    BY <1>2, <1>3, <1>4, DeliveryAssumption DEF Init, TypeOK
<1>6. Workings /\ Within(frames) /\ DeadOnlyExhausted
    BY DEF Init, Workings, Within, DeadOnlyExhausted
<1>7. NoLoss
    BY <1>3 DEF NoLoss
<1> QED
    BY <1>3, <1>5, <1>6, <1>7 DEF IInv

\* A copy goes from the queue to a worker.
LEMMA DeliverStep ==
    ASSUME IInv, NEW w \in Workers, NEW n \in Counts, Deliver(w, n)
    PROVE  IInv'
<1>1. /\ Bound \in Nat /\ Counts = 0..(Bound + 1) /\ Bound' = Bound /\ Counts' = Counts
      /\ ready \in [Counts -> Nat] /\ ready[Bound + 1] = 0
    BY LimitType DEF IInv, TypeOK, Deliver, Bound, Counts
<1>2. n \in 0..Bound /\ ready[n] > 0
    BY <1>1 DEF Deliver
<1>3. ready' \in [Counts -> Nat] /\ ready'[Bound + 1] = 0
    BY <1>1, <1>2 DEF Deliver
<1>4. attempts' \in 0..(Bound + 2)
    BY <1>1 DEF IInv, TypeOK, Deliver
<1>5. TypeOK'
    BY <1>1, <1>2, <1>3, <1>4 DEF IInv, TypeOK, Deliver, Goto
<1>6. Workings'
    BY <1>1 DEF IInv, TypeOK, Workings, Deliver, Goto
<1>7. Within(frames)' /\ DeadOnlyExhausted'
    BY <1>1 DEF IInv, Within, DeadOnlyExhausted, Deliver
<1>8. NoLoss'
  <2>1. w \in Owned' /\ pc'[w] # "ack"
    BY DEF IInv, TypeOK, Deliver, Goto, Owned
  <2> QED
    BY <2>1 DEF NoLoss
<1> QED
    BY <1>1, <1>3, <1>5, <1>6, <1>7, <1>8 DEF IInv

\* The handler returns, and the worker keeps the copy.
LEMMA HandlerStep ==
    ASSUME IInv, NEW w \in Workers, HandlerSucceeds(w) \/ HandlerFails(w)
    PROVE  IInv'
<1>1. /\ Bound' = Bound /\ Counts' = Counts /\ held[w] \in 0..Bound
      /\ Owned' = Owned /\ pc[w] = "handling"
      /\ UNCHANGED <<limit, ready, dead, frames, up, held, tie, attempts, stopped, faults>>
    BY DEF IInv, TypeOK, HandlerSucceeds, HandlerFails, Bound, Counts, Owned
<1>2. CASE HandlerSucceeds(w)
  <2>1. TypeOK'
    BY <1>1, <1>2 DEF IInv, TypeOK, HandlerSucceeds, Goto, Kinds
  <2>2. Workings'
    BY <1>1, <1>2 DEF IInv, TypeOK, Workings, HandlerSucceeds, Goto
  <2>3. Within(frames)' /\ DeadOnlyExhausted' /\ NoLoss'
    BY <1>1, <1>2 DEF IInv, Within, DeadOnlyExhausted, NoLoss, HandlerSucceeds
  <2> QED
    BY <1>1, <2>1, <2>2, <2>3 DEF IInv
<1>3. CASE HandlerFails(w)
  <2> DEFINE v == Verdict(held[w])
  <2>1. /\ v \in {"requeue", "republish", "reject"}
        /\ v = "republish" => limit > 0 /\ held[w] < limit
        /\ v = "reject" => limit # 0 /\ held[w] = Bound
    BY <1>1, VerdictMeaning DEF IInv
  <2>2. pc' = [pc EXCEPT ![w] = v] /\ UNCHANGED succeeded
    BY <1>3 DEF HandlerFails, Goto
  <2> HIDE DEF v
  <2>3. TypeOK'
    BY <1>1, <2>1, <2>2 DEF IInv, TypeOK, Kinds
  <2>4. Workings'
    BY <1>1, <2>1, <2>2 DEF IInv, TypeOK, Workings
  <2>5. Within(frames)' /\ DeadOnlyExhausted'
    BY <1>1 DEF IInv, Within, DeadOnlyExhausted
  <2>6. NoLoss'
    BY <1>1, <2>1, <2>2 DEF IInv, TypeOK, NoLoss
  <2> QED
    BY <1>1, <2>3, <2>4, <2>5, <2>6 DEF IInv
<1> QED
    BY <1>2, <1>3

\* A retry is published, fails, or fails with an unknown outcome.
LEMMA RepublishStep ==
    ASSUME IInv, NEW w \in Workers, Republish(w)
    PROVE  IInv'
<1> DEFINE n == held[w] + 1
<1>1. /\ Bound \in Nat /\ Counts = 0..(Bound + 1) /\ Bound' = Bound /\ Counts' = Counts
      /\ ready \in [Counts -> Nat] /\ ready[Bound + 1] = 0 /\ Owned' = Owned
      /\ UNCHANGED <<limit, dead, frames, up, held, tie, attempts, succeeded, stopped>>
    BY LimitType DEF IInv, TypeOK, Republish, Bound, Counts, Owned
<1>2. pc[w] = "republish" /\ n \in 1..Bound
  <2>1. pc[w] = "republish"
    BY DEF Republish
  <2>2. limit > 0 /\ held[w] < limit /\ held[w] \in 0..Bound
    BY <2>1 DEF IInv, TypeOK, Workings
  <2>3. limit \in Int /\ Bound = limit
    BY <2>2, LimitType DEF IInv
  <2> QED
    BY <2>1, <2>2, <2>3
<1>3. PICK l \in {"ack", "requeue"} :
          /\ pc' = [pc EXCEPT ![w] = l]
          /\ ready' = Add(ready, n) \/ ready' = ready
          /\ l = "ack" => ready' = Add(ready, n)
    BY DEF Republish, Goto
<1>4. /\ ready' \in [Counts -> Nat] /\ ready'[Bound + 1] = 0
      /\ \A m \in Counts : ready[m] > 0 => ready'[m] > 0
      /\ ready' = Add(ready, n) => ready'[n] > 0
  <2>1. n \in Counts /\ n # Bound + 1 /\ ready[n] + 1 \in Nat /\ ready[n] + 1 > 0
        /\ Bound + 1 \in Counts
    BY <1>1, <1>2
  <2>2. CASE ready' = Add(ready, n)
    <3>1. ready' = [ready EXCEPT ![n] = ready[n] + 1]
        BY <2>2 DEF Add
    <3> QED
        BY <1>1, <2>1, <3>1
  <2>3. CASE ready' = ready /\ ready' # Add(ready, n)
    BY <1>1, <2>3
  <2> QED
    BY <1>3, <2>2, <2>3
<1>5. faults' \in 0..MaxFaults
    BY DeliveryAssumption DEF IInv, TypeOK, Republish, Fault
<1>6. TypeOK'
    BY <1>1, <1>3, <1>4, <1>5 DEF IInv, TypeOK, Kinds
<1>7. Workings'
    BY <1>1, <1>3 DEF IInv, TypeOK, Workings
<1>8. Within(frames)' /\ DeadOnlyExhausted'
    BY <1>1 DEF IInv, Within, DeadOnlyExhausted
<1>9. NoLoss'
  <2>1. CASE l = "ack"
    BY <1>1, <1>2, <1>3, <1>4, <2>1 DEF NoLoss
  <2>2. CASE l = "requeue"
    BY <1>1, <1>3, <1>4, <2>2 DEF IInv, TypeOK, NoLoss
  <2> QED
    BY <2>1, <2>2
<1> QED
    BY <1>1, <1>4, <1>6, <1>7, <1>8, <1>9 DEF IInv

\* Ack or Nack of a delivery that is still the worker's, of one that was settled
\* before, and of one whose channel is gone.
LEMMA SettleStep ==
    ASSUME IInv, NEW w \in Workers, Settle(w)
    PROVE  IInv'
<1> DEFINE f == [kind |-> IF tie[w] = "owned" THEN pc[w] ELSE "again", count |-> held[w]]
<1>1. /\ Bound \in Nat /\ Bound' = Bound /\ Counts' = Counts
      /\ held[w] \in 0..Bound /\ pc[w] \in Kinds
      /\ UNCHANGED <<limit, ready, dead, up, attempts, succeeded, stopped>>
    BY LimitType DEF IInv, TypeOK, Settle, Bound, Counts
<1>2. f \in Frames /\ f.count = held[w]
      /\ (f.kind = "reject" => limit # 0 /\ held[w] = Bound)
      /\ (tie[w] = "owned" => f.kind = pc[w])
    BY <1>1 DEF IInv, Workings, Frames, Kinds
<1>3. PICK l \in {"idle", "requeue", "republish", "reject"} :
          /\ pc' = [pc EXCEPT ![w] = l]
          /\ \/ l = "idle" /\ held' = [held EXCEPT ![w] = 0] /\ tie' = [tie EXCEPT ![w] = "none"]
             \/ l # "idle" /\ held' = held /\ tie' = [tie EXCEPT ![w] = "settled"]
          /\ l = "republish" => limit > 0 /\ held[w] < limit
          /\ l = "reject" => limit # 0 /\ held[w] = Bound
  <2>1. CASE Leave(w)
    BY <2>1 DEF Leave, Goto
  <2>2. CASE HookPanics(w)
    BY <1>1, <2>2, VerdictMeaning DEF IInv, HookPanics, Goto
  <2> QED
    BY <2>1, <2>2 DEF Settle
<1>4. \/ frames' = frames /\ tie[w] = "none"
      \/ frames' = Append(frames, f)
    BY DEF Settle
<1>5. /\ frames' \in Seq(Frames)
      /\ \A i \in 1..Len(frames) : i \in 1..Len(frames') /\ frames'[i] = frames[i]
      /\ \A i \in 1..Len(frames') : (i \in 1..Len(frames) /\ frames'[i] = frames[i]) \/ frames'[i] = f
      /\ tie[w] # "none" => \E i \in 1..Len(frames') : frames'[i] = f
  <2> HIDE DEF f
  <2>1. frames \in Seq(Frames)
    BY DEF IInv, TypeOK
  <2>2. CASE frames' = frames /\ tie[w] = "none"
    BY <2>1, <2>2
  <2>3. CASE frames' = Append(frames, f)
    <3>1. frames' \in Seq(Frames) /\ Len(frames') = Len(frames) + 1 /\ frames'[Len(frames) + 1] = f
          /\ \A i \in 1..Len(frames) : frames'[i] = frames[i]
        BY <1>2, <2>1, <2>3
    <3> QED
        BY <2>1, <3>1
  <2> QED
    BY <1>4, <2>2, <2>3
<1> HIDE DEF f
<1>6. faults' \in 0..MaxFaults
    BY DeliveryAssumption DEF IInv, TypeOK, Settle, Leave, HookPanics, Fault
<1>7. TypeOK'
  <2>1. /\ pc' \in [Workers -> {"idle", "handling", "republish"} \cup Kinds]
        /\ held' \in [Workers -> 0..Bound]
        /\ tie' \in [Workers -> {"none", "owned", "settled"}]
    <3>1. pc' \in [Workers -> {"idle", "handling", "republish"} \cup Kinds]
        BY <1>3 DEF IInv, TypeOK, Kinds
    <3>2. held' \in [Workers -> 0..Bound]
        BY <1>1, <1>3 DEF IInv, TypeOK
    <3>3. tie' \in [Workers -> {"none", "owned", "settled"}]
        BY <1>3 DEF IInv, TypeOK
    <3> QED
        BY <3>1, <3>2, <3>3
  <2> QED
    BY <1>1, <1>5, <1>6, <2>1 DEF IInv, TypeOK
<1>8. Workings'
    BY <1>1, <1>3 DEF IInv, TypeOK, Workings
<1>9. Within(frames)'
    BY <1>1, <1>2, <1>5 DEF IInv, Within
<1>10. NoLoss'
  <2>1. CASE \E v \in Owned : pc[v] # "ack" /\ v # w
    BY <1>3, <2>1 DEF IInv, TypeOK, Owned, NoLoss
  <2>2. CASE w \in Owned /\ pc[w] # "ack"
    <3>1. f.kind \in {"requeue", "reject"}
        BY <1>1, <1>2, <2>2 DEF Owned, Kinds
    <3>2. \E i \in 1..Len(frames') : frames'[i] = f
        BY <1>5, <2>2 DEF Owned
    <3> QED
        BY <3>1, <3>2 DEF NoLoss
  <2>3. CASE \E i \in 1..Len(frames) : frames[i].kind \in {"requeue", "reject"}
    BY <1>5, <2>3 DEF NoLoss
  <2>4. CASE succeeded \/ dead # {} \/ \E n \in Counts : ready[n] > 0
    BY <1>1, <2>4 DEF NoLoss
  <2> QED
    BY <2>1, <2>2, <2>3, <2>4 DEF IInv, NoLoss
<1>11. DeadOnlyExhausted'
    BY <1>1 DEF IInv, DeadOnlyExhausted
<1> QED
    BY <1>1, <1>7, <1>8, <1>9, <1>10, <1>11 DEF IInv

\* A channel that is gone, with every settlement under way that asks for something.
LEMMA RequeueStep ==
    ASSUME IInv, NEW rest \in Seq(Frames), Within(rest), Requeue(rest),
           \A i \in 1..Len(frames) : frames[i].kind \in {"requeue", "reject"} =>
               \E j \in 1..Len(rest) : rest[j] = frames[i],
           UNCHANGED <<limit, dead, attempts, succeeded, stopped>>,
           \/ UNCHANGED <<pc, held>>
           \/ pc' = [w \in Workers |-> "idle"] /\ held' = [w \in Workers |-> 0],
           faults' \in 0..MaxFaults
    PROVE  IInv'
<1>1. /\ Bound \in Nat /\ Bound' = Bound /\ Counts' = Counts
      /\ frames' = <<>> /\ up' = FALSE /\ tie' = [w \in Workers |-> "none"]
    BY LimitType DEF IInv, Bound, Counts, Requeue
<1>2. /\ ready' \in [Counts -> Nat]
      /\ ready'[Bound + 1] = 0
      /\ \A n \in Counts : ready[n] \in Nat /\ ready'[n] >= ready[n]
      /\ \A w \in Owned : held[w] \in Counts /\ ready'[held[w]] > 0
      /\ \A i \in 1..Len(rest) :
            rest[i].kind # "again" => rest[i].count \in Counts /\ ready'[rest[i].count] > 0
    BY RequeueRestores DEF IInv, TypeOK
<1>3. up' \in BOOLEAN /\ succeeded' \in BOOLEAN /\ stopped' \in BOOLEAN
    BY <1>1, Zenon DEF IInv, TypeOK
<1>4. TypeOK'
    BY <1>1, <1>2, <1>3 DEF IInv, TypeOK
<1>5. Workings'
    BY <1>1 DEF IInv, TypeOK, Workings
<1>6. Within(frames)' /\ DeadOnlyExhausted'
    BY <1>1 DEF IInv, Within, DeadOnlyExhausted
<1>7. NoLoss'
  <2>1. CASE \E n \in Counts : ready[n] > 0
    <3>1. PICK n \in Counts : ready[n] > 0
        BY <2>1
    <3>2. ready'[n] > 0
        BY <1>2, <3>1
    <3> QED
        BY <1>1, <3>2 DEF NoLoss
  <2>2. CASE \E i \in 1..Len(frames) : frames[i].kind \in {"requeue", "reject"}
    <3>1. PICK j \in 1..Len(rest) : rest[j].kind \in {"requeue", "reject"}
        BY <2>2
    <3> QED
        BY <1>1, <1>2, <3>1 DEF NoLoss
  <2>3. CASE Owned # {}
    BY <1>1, <1>2, <2>3 DEF NoLoss
  <2>4. CASE succeeded \/ dead # {}
    BY <2>4 DEF NoLoss
  <2> QED
    BY <2>1, <2>2, <2>3, <2>4 DEF IInv, NoLoss
<1> QED
    BY <1>1, <1>2, <1>4, <1>5, <1>6, <1>7 DEF IInv

\* The broker reads a settlement: it settles the delivery or ends the channel.
LEMMA BrokerStep ==
    ASSUME IInv, BrokerSettles
    PROVE  IInv'
<1> DEFINE f == Head(frames)
<1>1. /\ frames \in Seq(Frames) /\ frames # <<>> /\ f \in Frames /\ f = frames[1]
      /\ Len(frames) \in Nat /\ 1 \in 1..Len(frames)
      /\ UNCHANGED <<limit, pc, held, attempts, succeeded, stopped, faults>>
    BY DEF IInv, TypeOK, BrokerSettles
<1>2. /\ Tail(frames) \in Seq(Frames) /\ Len(Tail(frames)) = Len(frames) - 1
      /\ \A i \in 1..Len(Tail(frames)) : Tail(frames)[i] = frames[i + 1]
    BY <1>1
<1>3. /\ \A i \in 1..Len(Tail(frames)) : \E j \in 1..Len(frames) : Tail(frames)[i] = frames[j]
      /\ \A j \in 1..Len(frames) : frames[j] = f \/ \E i \in 1..Len(Tail(frames)) : Tail(frames)[i] = frames[j]
  <2>1. ASSUME NEW i \in 1..Len(Tail(frames))
        PROVE  i + 1 \in 1..Len(frames) /\ Tail(frames)[i] = frames[i + 1]
    BY <1>1, <1>2
  <2>2. ASSUME NEW j \in 1..Len(frames), j # 1
        PROVE  j - 1 \in 1..Len(Tail(frames)) /\ Tail(frames)[j - 1] = frames[j]
    <3>1. j \in Nat /\ j - 1 \in 1..Len(Tail(frames)) /\ (j - 1) + 1 = j
        BY <1>1, <1>2, <2>2
    <3> HIDE DEF f
    <3> QED
        BY <1>2, <3>1
  <2> QED
    BY <1>1, <2>1, <2>2
<1>4. Within(Tail(frames)) /\ f.count \in 0..Bound /\ (f.kind = "reject" => limit # 0 /\ f.count = Bound)
    BY <1>1, <1>3 DEF IInv, Within
<1>5. CASE f.kind = "again" /\ Requeue(Tail(frames)) /\ UNCHANGED dead
  <2>1. faults' \in 0..MaxFaults
    BY <1>1 DEF IInv, TypeOK
  <2>2. \A i \in 1..Len(frames) : frames[i].kind \in {"requeue", "reject"} =>
            \E j \in 1..Len(Tail(frames)) : Tail(frames)[j] = frames[i]
    BY <1>3, <1>5
  <2> HIDE DEF f
  <2> QED
    BY <1>1, <1>2, <1>4, <1>5, <2>1, <2>2, RequeueStep
<1>6. CASE /\ f.kind # "again" /\ frames' = Tail(frames)
           /\ ready' = IF f.kind = "requeue" THEN Add(ready, f.count) ELSE ready
           /\ dead' = IF f.kind = "reject" THEN dead \cup {f.count} ELSE dead
           /\ UNCHANGED <<up, tie>>
  <2>1. /\ Bound \in Nat /\ Counts = 0..(Bound + 1) /\ Bound' = Bound /\ Counts' = Counts
        /\ Owned' = Owned /\ ready \in [Counts -> Nat] /\ ready[Bound + 1] = 0
    BY <1>1, <1>6, LimitType DEF IInv, TypeOK, Bound, Counts, Owned
  <2>2. /\ ready' \in [Counts -> Nat] /\ ready'[Bound + 1] = 0
        /\ \A m \in Counts : ready[m] > 0 => ready'[m] > 0
        /\ f.kind = "requeue" => ready'[f.count] > 0
    <3> HIDE DEF f
    <3>1. f.count \in Counts /\ f.count # Bound + 1 /\ ready[f.count] + 1 \in Nat
          /\ ready[f.count] + 1 > 0 /\ Bound + 1 \in Counts
        BY <1>4, <2>1
    <3>2. CASE f.kind = "requeue"
      <4>1. ready' = [ready EXCEPT ![f.count] = ready[f.count] + 1]
        BY <1>6, <3>2 DEF Add
      <4> QED
        BY <2>1, <3>1, <4>1
    <3>3. CASE f.kind # "requeue"
        BY <1>6, <2>1, <3>3
    <3> QED
        BY <3>2, <3>3
  <2>3. /\ dead' \subseteq Counts /\ dead \subseteq dead'
        /\ f.kind = "reject" => dead' # {}
        /\ \A n \in dead' : n \in dead \/ (limit # 0 /\ n = Bound)
    <3> HIDE DEF f
    <3>1. f.count \in Counts /\ dead \subseteq Counts
        BY <1>4, <2>1 DEF IInv, TypeOK
    <3>2. CASE f.kind = "reject"
      <4>1. dead' = dead \cup {f.count}
        BY <1>6, <3>2
      <4> QED
        BY <1>4, <3>1, <3>2, <4>1
    <3>3. CASE f.kind # "reject"
        BY <1>6, <3>1, <3>3
    <3> QED
        BY <3>2, <3>3
  <2>4. TypeOK'
    BY <1>1, <1>2, <1>6, <2>1, <2>2, <2>3 DEF IInv, TypeOK
  <2>5. Workings' /\ Within(frames)'
    BY <1>1, <1>4, <1>6, <2>1 DEF IInv, Workings, Within
  <2>6. DeadOnlyExhausted'
    BY <1>1, <2>1, <2>3 DEF IInv, DeadOnlyExhausted
  <2>7. NoLoss'
    <3> HIDE DEF f
    <3>1. CASE \E i \in 1..Len(frames) : frames[i].kind \in {"requeue", "reject"}
      <4>1. \/ f.kind \in {"requeue", "reject"}
            \/ \E i \in 1..Len(frames') : frames'[i].kind \in {"requeue", "reject"}
        BY <1>3, <1>6, <3>1
      <4>2. f.kind = "requeue" => \E n \in Counts' : ready'[n] > 0
        BY <1>4, <2>1, <2>2
      <4> QED
        BY <2>3, <4>1, <4>2 DEF NoLoss
    <3>2. CASE \E w \in Owned : pc[w] # "ack"
        BY <1>1, <2>1, <3>2 DEF NoLoss
    <3>3. CASE succeeded \/ dead # {} \/ \E n \in Counts : ready[n] > 0
        BY <1>1, <2>1, <2>2, <2>3, <3>3 DEF NoLoss
    <3> QED
        BY <3>1, <3>2, <3>3 DEF IInv, NoLoss
  <2> QED
    BY <2>1, <2>2, <2>4, <2>5, <2>6, <2>7 DEF IInv
<1> QED
    BY <1>5, <1>6 DEF BrokerSettles

\* The connection or the process goes.
LEMMA LossStep ==
    ASSUME IInv, ConnectionLost \/ ProcessDies
    PROVE  IInv'
<1>1. frames \in Seq(Frames) /\ Within(frames) /\ Requeue(frames)
    BY DEF IInv, TypeOK, ConnectionLost, ProcessDies
<1>2. faults' \in 0..MaxFaults
    BY DeliveryAssumption DEF IInv, TypeOK, ConnectionLost, ProcessDies, Fault
<1>3. /\ UNCHANGED <<limit, dead, attempts, succeeded, stopped>>
      /\ \/ UNCHANGED <<pc, held>>
         \/ pc' = [w \in Workers |-> "idle"] /\ held' = [w \in Workers |-> 0]
    BY DEF ConnectionLost, ProcessDies
<1>4. \A i \in 1..Len(frames) : frames[i].kind \in {"requeue", "reject"} =>
          \E j \in 1..Len(frames) : frames[j] = frames[i]
    OBVIOUS
<1> QED
    BY <1>1, <1>2, <1>3, <1>4, RequeueStep

\* Steps that touch no copy.
LEMMA IdleStep ==
    ASSUME IInv, Reconnected \/ Stop \/ UNCHANGED vars
    PROVE  IInv'
<1>1. /\ UNCHANGED <<limit, ready, dead, frames, pc, held, tie, attempts, succeeded, faults>>
      /\ Bound' = Bound /\ Counts' = Counts /\ Owned' = Owned
    BY DEF Reconnected, Stop, vars, Bound, Counts, Owned
<1>2. up' \in BOOLEAN /\ stopped' \in BOOLEAN
    BY Zenon DEF IInv, TypeOK, Reconnected, Stop, vars
<1>3. TypeOK'
    BY <1>1, <1>2 DEF IInv, TypeOK
<1>4. Workings' /\ Within(frames)' /\ DeadOnlyExhausted' /\ NoLoss'
    BY <1>1 DEF IInv, Workings, Within, DeadOnlyExhausted, NoLoss
<1> QED
    BY <1>1, <1>3, <1>4 DEF IInv

\* The inductive invariant holds throughout.
LEMMA IInvHolds == Spec => []IInv
<1>1. IInv /\ [Next]_vars => IInv'
    BY DeliverStep, HandlerStep, RepublishStep, SettleStep, BrokerStep, LossStep, IdleStep
       DEF Next, Work
<1> QED
    BY <1>1, Initially, PTL DEF Spec

-----------------------------------------------------------------------------
(* The properties.                                                         *)

\* No message is lost, through failed handlers and publishes, lost settlements, lost
\* connections and a process that dies (processDelivery, handleDeliveryFailure).
THEOREM NothingIsLost == Spec => []NoLoss
<1>1. IInv => NoLoss
    BY DEF IInv
<1> QED
    BY <1>1, IInvHolds, PTL

\* A rejected message has used up its retries (handleDeliveryFailure).
THEOREM OnlyExhaustedAreRejected == Spec => []DeadOnlyExhausted
<1>1. IInv => DeadOnlyExhausted
    BY DEF IInv
<1> QED
    BY <1>1, IInvHolds, PTL

\* When no copy is left, a handler call has succeeded or a bounded policy rejected
\* the message.
LEMMA SettledMeansDone ==
    IInv /\ Settled => Owned = {} /\ (succeeded \/ (dead # {} /\ limit # 0))
<1> SUFFICES ASSUME IInv, Settled
             PROVE  Owned = {} /\ (succeeded \/ (dead # {} /\ limit # 0))
    OBVIOUS
<1>1. Owned = {}
    BY DEF IInv, Workings, Settled, Owned
<1>2. \A n \in Counts : ~(ready[n] > 0)
    BY DEF Settled, None
<1>3. succeeded \/ dead # {}
    BY <1>1, <1>2 DEF IInv, NoLoss, Settled
<1>4. dead # {} => limit # 0
    BY DEF IInv, DeadOnlyExhausted
<1> QED
    BY <1>1, <1>3, <1>4

\* Once no copy is left, none comes back.
LEMMA SettledForGood ==
    ASSUME IInv, Settled, [Next]_vars
    PROVE  Settled' /\ UNCHANGED <<succeeded, dead, limit>>
<1>1. /\ Owned = {} /\ ready = None /\ frames = <<>> /\ \A w \in Workers : pc[w] = "idle"
    BY SettledMeansDone DEF Settled
<1>2. ASSUME Requeue(frames) PROVE ready' = ready /\ frames' = <<>>
  <2>1. Within(frames) /\ frames \in Seq(Frames)
    BY DEF IInv, TypeOK
  <2> QED
    BY <1>1, <1>2, <2>1, RequeueRestores DEF Requeue
<1>3. ~BrokerSettles /\ \A w \in Workers : ~Work(w)
  <2>1. ASSUME NEW w \in Workers, NEW n \in Counts PROVE ~Deliver(w, n)
    BY <1>1 DEF Deliver, None
  <2> QED
    BY <1>1, <2>1 DEF BrokerSettles, Work, HandlerSucceeds, HandlerFails, Republish, Settle, Kinds
<1>4. CASE ConnectionLost \/ ProcessDies
    BY <1>1, <1>2, <1>4 DEF ConnectionLost, ProcessDies, Settled, None, Counts, Bound
<1>5. CASE Reconnected \/ Stop \/ UNCHANGED vars
    BY <1>1, <1>5 DEF Reconnected, Stop, vars, Settled, None, Counts, Bound
<1> QED
    BY <1>3, <1>4, <1>5 DEF Next

\* Consumers implement AtLeastOnce.
THEOREM DeliveryIsAtLeastOnce == Spec => ImplementsAtLeastOnce
<1>0. (IInv /\ Settled => succeeded \/ dead # {})'
  <2>1. IInv /\ Settled => succeeded \/ dead # {}
    BY SettledMeansDone
  <2> QED
    BY <2>1, PTL
<1>1. Init => Message!Init
  <2> SUFFICES ASSUME Init PROVE Message!Init
    OBVIOUS
  <2>1. ~Settled
    <3>1. PICK n \in 0..Bound : ready = [None EXCEPT ![n] = 1]
        BY DEF Init
    <3>2. limit \in Int /\ Bound \in Nat /\ Counts = 0..(Bound + 1)
        BY DeliveryAssumption DEF Init, Bound, Counts
    <3>3. ready[n] = 1 /\ None[n] = 0
        BY <3>1, <3>2 DEF None
    <3> QED
        BY <3>3 DEF Settled
  <2> QED
    BY <2>1, Zenon DEF Init, Message!Init
<1>2. IInv /\ IInv' /\ [Next]_vars => [Message!Next]_(Message!vars)
  <2> SUFFICES ASSUME IInv, IInv', [Next]_vars PROVE [Message!Next]_(Message!vars)
    OBVIOUS
  <2>1. Settled \in BOOLEAN /\ Settled' \in BOOLEAN /\ (limit # 0) \in BOOLEAN
    BY DEF Settled
  <2>2. limit' = limit
    BY DEF Next, Work, Deliver, HandlerSucceeds, HandlerFails, Republish, Settle, BrokerSettles,
           ConnectionLost, ProcessDies, Reconnected, Stop, vars
  <2>3. CASE Settled
    BY <2>2, <2>3, SettledForGood DEF Message!vars
  <2>4. CASE ~Settled
    <3>1. CASE \E w \in Workers : HandlerSucceeds(w)
      <4>1. succeeded' = TRUE /\ dead' = dead /\ ~Settled'
        BY <3>1 DEF HandlerSucceeds, Goto, Settled, IInv, TypeOK
      <4> QED
        BY <2>2, <2>4, <4>1 DEF Message!Next, Message!Process
    <3>2. CASE BrokerSettles
      <4>1. succeeded' = succeeded
        BY <3>2 DEF BrokerSettles
      <4>2. dead' = dead \/ (dead' # {} /\ limit # 0)
        BY <2>2, <3>2 DEF BrokerSettles, IInv, DeadOnlyExhausted
      <4>3. CASE dead' = dead
        BY <1>0, <2>2, <2>4, <4>1, <4>3
           DEF Message!Next, Message!Finish, Message!vars
      <4>4. CASE dead' # {} /\ limit # 0
        BY <2>1, <2>2, <2>4, <4>1, <4>4 DEF Message!Next, Message!Reject
      <4> QED
        BY <4>2, <4>3, <4>4
    <3>3. CASE ~BrokerSettles /\ ~\E w \in Workers : HandlerSucceeds(w)
      <4>1. succeeded' = succeeded /\ dead' = dead
        BY <3>3 DEF Next, Work, Deliver, HandlerFails, Republish, Settle,
                    ConnectionLost, ProcessDies, Reconnected, Stop, vars
      <4> QED
        BY <1>0, <2>2, <2>4, <4>1 DEF Message!Next, Message!Finish, Message!vars
    <3> QED
        BY <3>1, <3>2, <3>3
  <2> QED
    BY <2>3, <2>4
<1> QED
    BY <1>1, <1>2, IInvHolds, PTL DEF Spec, ImplementsAtLeastOnce, Message!Spec

-----------------------------------------------------------------------------
(* Without failures.                                                       *)

FaultFree == faults = 0 /\ ~stopped

\* The workers with a delivery that has still to be retried, rejected or given
\* back: the copy is theirs.
Live == {w \in Owned : pc[w] # "ack"}

\* The acknowledgements under way that give a copy back.
Returning == {i \in 1..Len(frames) : frames[i].kind = "requeue"}

\* The channel is the one every delivery came from, and nothing is settled twice.
Calm ==
    /\ up
    /\ \A w \in Workers : pc[w] # "idle" => tie[w] = "owned"
    /\ \A i \in 1..Len(frames) : frames[i].kind # "again"

\* There is one copy at most: in the queue, with a worker or on its way back.
OneCopy ==
    /\ \A n \in Counts : ready[n] <= 1
    /\ \A m, n \in Counts : ready[m] > 0 /\ ready[n] > 0 => m = n
    /\ \A n \in Counts : ready[n] > 0 => Live = {} /\ Returning = {}
    /\ \A v, w \in Live : v = w
    /\ Live = {} \/ Returning = {}
    /\ \A i, j \in Returning : i = j

\* With bounded retries the handler has been called no more often than the count
\* in the header of the copy allows, and no copy is given back.
Counted ==
    limit # 0 =>
        /\ attempts <= Bound + 1
        /\ \A n \in Counts : ready[n] > 0 => attempts <= n
        /\ \A w \in Live : attempts <= held[w] + 1 /\ pc[w] # "requeue"
        /\ Returning = {}

FInv == FaultFree => Calm /\ OneCopy /\ Counted

\* The one copy is in the queue when the message arrives.
LEMMA FInvInitially == Init => FInv
<1> SUFFICES ASSUME Init PROVE Calm /\ OneCopy /\ Counted
    BY DEF FInv
<1>1. PICK n \in 0..Bound : ready = [None EXCEPT ![n] = 1]
    BY DEF Init
<1>2. limit \in Int /\ Bound \in Nat /\ Counts = 0..(Bound + 1)
    BY DeliveryAssumption DEF Init, Bound, Counts
<1>3. n \in Counts /\ \A m \in Counts : ready[m] = IF m = n THEN 1 ELSE 0
    BY <1>1, <1>2 DEF None
<1>4. Owned = {} /\ Live = {} /\ Returning = {} /\ frames = <<>> /\ attempts = 0
    BY DEF Init, Owned, Live, Returning
<1>5. Calm
  <2>1. up
    BY Zenon DEF Init
  <2>2. \A w \in Workers : pc[w] = "idle"
    BY DEF Init
  <2> QED
    BY <1>4, <2>1, <2>2 DEF Calm
<1>6. OneCopy /\ Counted
    BY <1>2, <1>3, <1>4 DEF OneCopy, Counted
<1> QED
    BY <1>5, <1>6

\* A step without failures follows a state without failures.
LEMMA FaultFreeBefore ==
    ASSUME IInv, [Next]_vars, FaultFree'
    PROVE  FaultFree
<1>1. faults \in Nat /\ stopped \in BOOLEAN
    BY DEF IInv, TypeOK
<1>2. faults' = faults \/ faults' = faults + 1
    BY DEF Next, Work, Deliver, HandlerSucceeds, HandlerFails, Republish, Settle, Leave, HookPanics, Fault,
           BrokerSettles, ConnectionLost, ProcessDies, Reconnected, Stop, vars
<1>3. stopped' = stopped \/ Stop
    BY DEF Next, Work, Deliver, HandlerSucceeds, HandlerFails, Republish, Settle,
           BrokerSettles, ConnectionLost, ProcessDies, Reconnected, vars
<1> QED
    BY <1>1, <1>2, <1>3 DEF FaultFree, Stop

\* The copy goes from the queue to a worker.
LEMMA DeliverAlone ==
    ASSUME IInv, Calm, OneCopy, Counted, NEW w \in Workers, NEW n \in Counts, Deliver(w, n)
    PROVE  Calm' /\ OneCopy' /\ Counted'
<1>1. /\ Bound \in Nat /\ Counts = 0..(Bound + 1) /\ Bound' = Bound /\ Counts' = Counts
      /\ ready \in [Counts -> Nat] /\ ready[Bound + 1] = 0 /\ limit' = limit /\ attempts \in Nat
    BY LimitType DEF IInv, TypeOK, Deliver, Bound, Counts
<1>2. ready[n] = 1 /\ n \in 0..Bound /\ n # Bound + 1
    BY <1>1 DEF Deliver, OneCopy
<1>3. \A m \in Counts : ready'[m] = 0
  <2> SUFFICES ASSUME NEW m \in Counts PROVE ready'[m] = 0
    OBVIOUS
  <2>1. ready' = [ready EXCEPT ![n] = 0]
    BY <1>1, <1>2 DEF Deliver
  <2>2. m # n => ready[m] = 0
    <3>1. ready[n] > 0
      BY <1>2
    <3>2. m # n => ~(ready[m] > 0)
      BY <3>1, Zenon DEF OneCopy
    <3> QED
      BY <1>1, <3>2
  <2> QED
    BY <1>1, <2>1, <2>2
<1>4. Live = {} /\ Returning = {}
    BY <1>2 DEF OneCopy
<1>5. Live' = {w} /\ Returning' = {} /\ held'[w] = n /\ pc'[w] = "handling"
    BY <1>4 DEF IInv, TypeOK, Deliver, Goto, Live, Owned, Returning
<1>6. Calm'
    BY DEF IInv, TypeOK, Calm, Deliver, Goto
<1>7. OneCopy'
  <2>1. \A m \in Counts' : ready'[m] <= 1 /\ ~(ready'[m] > 0)
    BY <1>1, <1>3
  <2>2. (\A u, v \in Live' : u = v) /\ \A i, j \in Returning' : i = j
    BY <1>5
  <2> QED
    BY <1>5, <2>1, <2>2, Zenon DEF OneCopy
<1>8. limit # 0 => attempts' <= n + 1
    BY <1>1, <1>2 DEF Counted, Deliver
<1>9. Counted'
  <2> SUFFICES ASSUME limit # 0
               PROVE  /\ attempts' <= Bound + 1
                      /\ \A v \in Live' : attempts' <= held'[v] + 1 /\ pc'[v] # "requeue"
    BY <1>1, <1>3, <1>5 DEF Counted
  <2>1. attempts' \in Nat
    BY <1>1 DEF Deliver
  <2> QED
    BY <1>1, <1>2, <1>5, <1>8, <2>1
<1> QED
    BY <1>6, <1>7, <1>9

\* The handler decides what becomes of the copy, and the worker keeps it.
LEMMA HandlerAlone ==
    ASSUME IInv, Calm, OneCopy, Counted, NEW w \in Workers, HandlerSucceeds(w) \/ HandlerFails(w)
    PROVE  Calm' /\ OneCopy' /\ Counted'
<1>1. /\ Bound' = Bound /\ Counts' = Counts /\ held[w] \in 0..Bound
      /\ Owned' = Owned /\ Returning' = Returning /\ pc[w] = "handling"
      /\ UNCHANGED <<limit, ready, dead, frames, up, held, tie, attempts, stopped, faults>>
    BY DEF IInv, TypeOK, HandlerSucceeds, HandlerFails, Bound, Counts, Owned, Returning
<1>2. PICK l : pc' = [pc EXCEPT ![w] = l] /\ (limit # 0 => l # "requeue")
    BY <1>1, VerdictMeaning DEF IInv, HandlerSucceeds, HandlerFails, Goto, Verdict
<1>3. Live' \subseteq Live /\ \A v \in Live' : v # w => pc'[v] = pc[v]
    BY <1>1, <1>2 DEF IInv, TypeOK, Live, Owned
<1>4. Calm'
    BY <1>1, <1>2 DEF IInv, TypeOK, Calm
<1>5. OneCopy'
    BY <1>1, <1>3 DEF OneCopy
<1>6. Counted'
    BY <1>1, <1>2, <1>3 DEF IInv, TypeOK, Counted
<1> QED
    BY <1>4, <1>5, <1>6

\* The copy goes from the worker back to the queue, with its count increased.
LEMMA RepublishAlone ==
    ASSUME IInv, Calm, OneCopy, Counted, FaultFree, FaultFree', NEW w \in Workers, Republish(w)
    PROVE  Calm' /\ OneCopy' /\ Counted'
<1> DEFINE n == held[w] + 1
<1>1. /\ Bound \in Nat /\ Counts = 0..(Bound + 1) /\ Bound' = Bound /\ Counts' = Counts
      /\ ready \in [Counts -> Nat] /\ Owned' = Owned /\ Returning' = Returning
      /\ attempts \in Nat
      /\ UNCHANGED <<limit, dead, frames, up, held, tie, attempts, succeeded, stopped>>
    BY LimitType DEF IInv, TypeOK, Republish, Bound, Counts, Owned, Returning
<1>2. pc[w] = "republish" /\ n \in 1..Bound /\ w \in Live
  <2>1. pc[w] = "republish"
    BY DEF Republish
  <2>2. limit > 0 /\ held[w] < limit /\ held[w] \in 0..Bound
    BY <2>1 DEF IInv, TypeOK, Workings
  <2>3. limit \in Int /\ Bound = limit
    BY <2>2, LimitType DEF IInv
  <2>4. w \in Live
    BY <2>1 DEF Calm, Live, Owned
  <2> QED
    BY <2>1, <2>2, <2>3, <2>4
<1>3. ready' = Add(ready, n) /\ pc' = [pc EXCEPT ![w] = "ack"]
  <2>1. up /\ ~stopped /\ ~Fault
    BY DEF Calm, FaultFree, Fault
  <2> QED
    BY <2>1 DEF Republish, Goto
<1>4. /\ \A m \in Counts : ready[m] = 0
      /\ Returning = {} /\ \A v \in Live : v = w
  <2>1. /\ \A m \in Counts : ~(ready[m] > 0)
        /\ Returning = {} /\ \A v \in Live : v = w
    BY <1>2, Zenon DEF OneCopy
  <2> QED
    BY <1>1, <2>1
<1>5. n \in Counts /\ \A m \in Counts : ready'[m] = IF m = n THEN 1 ELSE 0
  <2>1. n \in Counts /\ ready[n] = 0
    BY <1>1, <1>2, <1>4
  <2>2. ready' = [ready EXCEPT ![n] = 1]
    BY <1>3, <2>1 DEF Add
  <2> HIDE DEF n
  <2> QED
    BY <1>1, <1>4, <2>1, <2>2
<1>6. Live' = {} /\ Returning' = {}
    BY <1>1, <1>3, <1>4 DEF IInv, TypeOK, Live, Owned
<1>7. Calm'
    BY <1>1, <1>2, <1>3 DEF IInv, TypeOK, Calm
<1>8. limit # 0 => attempts <= n /\ attempts <= Bound + 1
    BY <1>2 DEF Counted
<1> HIDE DEF n
<1>9. OneCopy'
  <2>1. \A m \in Counts : ready'[m] <= 1 /\ (ready'[m] > 0 => m = n)
    BY <1>5
  <2> QED
    BY <1>1, <1>6, <2>1, Zenon DEF OneCopy
<1>10. Counted'
    BY <1>1, <1>5, <1>6, <1>8 DEF Counted
<1> QED
    BY <1>7, <1>9, <1>10

\* The copy is acknowledged, rejected, or on its way back to the queue.
LEMMA SettleAlone ==
    ASSUME IInv, Calm, OneCopy, Counted, FaultFree, FaultFree', NEW w \in Workers, Settle(w)
    PROVE  Calm' /\ OneCopy' /\ Counted'
<1> DEFINE f == [kind |-> pc[w], count |-> held[w]]
<1>1. /\ Bound' = Bound /\ Counts' = Counts /\ pc[w] \in Kinds /\ tie[w] = "owned"
      /\ UNCHANGED <<limit, ready, dead, up, attempts, succeeded, stopped>>
    BY DEF IInv, TypeOK, Settle, Bound, Counts, Calm, Kinds
<1>2. /\ frames' = Append(frames, f) /\ tie' = [tie EXCEPT ![w] = "none"]
      /\ held' = [held EXCEPT ![w] = 0] /\ pc' = [pc EXCEPT ![w] = "idle"]
  <2>1. ~Fault
    BY DEF FaultFree, Fault
  <2> QED
    BY <1>1, <2>1 DEF Settle, Leave, HookPanics, Goto
<1>3. f.kind = pc[w] /\ f \in Frames /\ frames \in Seq(Frames)
  <2>1. held[w] \in Nat
    BY LimitType DEF IInv, TypeOK
  <2> QED
    BY <1>1, <2>1 DEF IInv, TypeOK, Frames, Kinds
<1> HIDE DEF f
<1>4. /\ Len(frames) \in Nat /\ Len(frames') = Len(frames) + 1
      /\ frames'[Len(frames) + 1] = f /\ \A i \in 1..Len(frames) : frames'[i] = frames[i]
    BY <1>2, <1>3
<1>5. Live' = Live \ {w} /\ \A v \in Live' : pc'[v] = pc[v] /\ held'[v] = held[v]
    BY <1>1, <1>2 DEF IInv, TypeOK, Live, Owned
<1>6. \A i \in 1..Len(frames') : (i \in 1..Len(frames) /\ frames'[i] = frames[i]) \/ frames'[i] = f
    BY <1>4
<1>7. Calm'
    BY <1>1, <1>2, <1>3, <1>6 DEF IInv, TypeOK, Calm, Kinds
<1>8. CASE pc[w] = "requeue"
  <2>1. w \in Live
    BY <1>1, <1>8 DEF Live, Owned
  <2>2. Returning = {} /\ (\A n \in Counts : ~(ready[n] > 0)) /\ Live' = {} /\ limit = 0
    BY <1>5, <1>8, <2>1 DEF OneCopy, Counted
  <2>3. \A i \in Returning' : i = Len(frames) + 1
    BY <1>4, <2>2 DEF Returning
  <2>4. OneCopy'
    BY <1>1, <2>2, <2>3 DEF OneCopy
  <2>5. Counted'
    BY <1>1, <2>2 DEF Counted
  <2> QED
    BY <1>7, <2>4, <2>5
<1>9. CASE pc[w] # "requeue"
  <2>1. Returning' = Returning
    BY <1>3, <1>4, <1>6, <1>9 DEF Returning
  <2>2. OneCopy'
    BY <1>1, <1>5, <2>1 DEF OneCopy
  <2>3. Counted'
    BY <1>1, <1>5, <2>1 DEF Counted
  <2> QED
    BY <1>7, <2>2, <2>3
<1> QED
    BY <1>8, <1>9

\* The broker reads a settlement, which gives the copy back to the queue or ends it.
LEMMA BrokerAlone ==
    ASSUME IInv, Calm, OneCopy, Counted, BrokerSettles
    PROVE  Calm' /\ OneCopy' /\ Counted'
<1> DEFINE f == Head(frames)
<1>1. /\ frames \in Seq(Frames) /\ f = frames[1] /\ Len(frames) \in Nat /\ 1 \in 1..Len(frames)
      /\ Bound \in Nat /\ Bound' = Bound /\ Counts = 0..(Bound + 1) /\ Counts' = Counts
      /\ ready \in [Counts -> Nat] /\ f.kind # "again" /\ f.count \in 0..Bound
      /\ UNCHANGED <<limit, pc, held, attempts, succeeded, stopped, faults>>
    BY LimitType DEF IInv, TypeOK, BrokerSettles, Calm, Bound, Counts, Within
<1>2. /\ frames' = Tail(frames) /\ UNCHANGED <<up, tie>>
      /\ ready' = IF f.kind = "requeue" THEN Add(ready, f.count) ELSE ready
    BY <1>1 DEF BrokerSettles
<1>3. Live' = Live
    BY <1>1, <1>2 DEF Live, Owned
<1>4. /\ Len(frames') = Len(frames) - 1
      /\ \A i \in 1..Len(frames') : i + 1 \in 1..Len(frames) /\ frames'[i] = frames[i + 1]
    BY <1>1, <1>2
<1> HIDE DEF f
<1>5. \A i \in Returning' : i \in Nat /\ i + 1 \in Returning /\ i + 1 # 1
    BY <1>1, <1>4 DEF Returning
<1>6. \A i, j \in Returning' : i = j
    BY <1>5 DEF OneCopy
<1>7. Calm'
    BY <1>1, <1>2, <1>4 DEF Calm
<1>8. CASE f.kind = "requeue"
  <2>1. 1 \in Returning
    BY <1>1, <1>8 DEF Returning
  <2>2. Live = {} /\ limit = 0 /\ Returning' = {} /\ \A m \in Counts : ready[m] = 0
    BY <1>1, <1>5, <2>1 DEF OneCopy, Counted
  <2>3. f.count \in Counts /\ \A m \in Counts : ready'[m] = IF m = f.count THEN 1 ELSE 0
    <3>1. f.count \in Counts
      BY <1>1
    <3>2. ready' = [ready EXCEPT ![f.count] = 1]
      <4>1. ready' = [ready EXCEPT ![f.count] = ready[f.count] + 1]
        BY <1>2, <1>8, Zenon DEF Add
      <4>2. ready[f.count] = 0
        BY <2>2, <3>1, Zenon
      <4> QED
        BY <4>1, <4>2
    <3> QED
      BY <1>1, <2>2, <3>1, <3>2
  <2>4. OneCopy'
    BY <1>1, <1>3, <2>2, <2>3 DEF OneCopy
  <2>5. Counted'
    BY <1>1, <2>2 DEF Counted
  <2> QED
    BY <1>7, <2>4, <2>5
<1>9. CASE f.kind # "requeue"
  <2>1. ready' = ready
    BY <1>2, <1>9
  <2>2. Returning = {} => Returning' = {}
    BY <1>5
  <2>3. OneCopy'
    BY <1>1, <1>3, <1>6, <2>1, <2>2 DEF OneCopy
  <2>4. Counted'
    BY <1>1, <1>3, <2>1, <2>2 DEF Counted
  <2> QED
    BY <1>7, <2>3, <2>4
<1> QED
    BY <1>8, <1>9

\* Every step without failures keeps the one copy.
LEMMA FInvStep ==
    ASSUME IInv, FInv, [Next]_vars
    PROVE  FInv'
<1> SUFFICES ASSUME FaultFree' PROVE Calm' /\ OneCopy' /\ Counted'
    BY DEF FInv
<1>1. FaultFree /\ Calm /\ OneCopy /\ Counted
    BY FaultFreeBefore DEF FInv
<1>2. ~ConnectionLost /\ ~ProcessDies /\ ~Reconnected /\ ~Stop
  <2>1. faults = 0 /\ faults' = 0 /\ ~stopped /\ ~stopped' /\ up
    BY <1>1, Zenon DEF FaultFree, Calm
  <2>2. ~Fault
    BY <2>1 DEF Fault
  <2> QED
    BY <2>1, <2>2, Zenon DEF ConnectionLost, ProcessDies, Reconnected, Stop
<1>3. CASE UNCHANGED vars
  <2>1. Live' = Live /\ Returning' = Returning /\ Bound' = Bound /\ Counts' = Counts
    BY <1>3 DEF vars, Live, Owned, Returning, Bound, Counts
  <2> QED
    BY <1>1, <1>3, <2>1 DEF vars, Calm, OneCopy, Counted
<1> QED
    BY <1>1, <1>2, <1>3, DeliverAlone, HandlerAlone, RepublishAlone, SettleAlone, BrokerAlone DEF Next, Work

\* MaxRedelivery means what it says: without failures a message has one copy at
\* a time, however many workers consume, and handleDeliveryFailure lets its
\* handler be called MaxRedelivery + 1 times at most.
THEOREM RetriesAreBounded == Spec => []FaultFreeBound
<1>1. IInv /\ FInv => FaultFreeBound
  <2> SUFFICES ASSUME IInv, FInv, FaultFree
               PROVE  /\ limit # 0 => attempts <= Bound + 1
                      /\ Cardinality(Live) <= 1
    BY DEF FaultFreeBound, FaultFree, Live
  <2>1. limit # 0 => attempts <= Bound + 1
    BY DEF FInv, Counted
  <2>2. CASE Live = {}
    BY <2>1, <2>2, FS_EmptySet
  <2>3. CASE Live # {}
    <3>1. PICK w : Live = {w}
      BY <2>3 DEF FInv, OneCopy
    <3> QED
      BY <2>1, <3>1, FS_Singleton
  <2> QED
    BY <2>2, <2>3
<1> QED
    BY <1>1, FInvInitially, FInvStep, IInvHolds, PTL DEF Spec

=============================================================================
