--------------------------- MODULE TopologyProofs ---------------------------
(***************************************************************************)
(* Proofs about Topology, for any queue configurations, delays, failures   *)
(* and deletions.                                                          *)
(***************************************************************************)
EXTENDS Topology, SequenceTheorems, TLAPS

\* The kinds of declarations that nothing takes away from the broker.
Permanent == {"DLX", "DLQ", "DLQ binding", "exchange"}

\* The types, apart from the flag and the consumers.
Typed ==
    /\ broker \subseteq UNION {Topology(q) : q \in Configs} /\ Compatible(broker)
    /\ link \in {"up", "down"}
    /\ holder \in {"none", "declare", "replay", "consume"}
    /\ batch \in Seq(Configs) /\ todo \in Seq(Configs) /\ declaredQueues \in Seq(Configs)
    /\ step \in 1..(IF todo = <<>> THEN 1 ELSE Len(Declarations(Head(todo))))
    /\ deletions \in 0..MaxDeletions /\ calls \in 0..MaxCalls /\ faults \in 0..MaxFaults

\* What the SDK is at: a call has its batch, a replay goes through what is stored.
Working ==
    /\ holder # "declare" => batch = <<>>
    /\ holder \notin {"declare", "replay"} => todo = <<>>
    /\ holder = "replay" => ToSet(todo) \subseteq Declared

\* The consumers are on existing queues of the connection in service.
Consumers ==
    /\ queues \subseteq Names /\ left \subseteq queues /\ cancelled \subseteq Names
    /\ consuming \subseteq {n \in queues : link = "up" /\ Queue(n) # {}}
    /\ deletions = 0 => cancelled = {}

\* How much of the configuration at hand has been declared: its permanent part
\* for good, the rest as long as the connection stays and nobody deletes it.
Begun ==
    todo # <<>> =>
        \A j \in 1..(step - 1) :
            LET d == Declarations(Head(todo))[j] IN
            /\ d.kind \in Permanent => d \in broker
            /\ link = "up" => Head(todo).name \in cancelled \/ d \in broker

Whole(q) == q.name \in cancelled \/ Topology(q) \subseteq broker

\* What has been declared on a connection in service is there.
Present ==
    link = "up" =>
        /\ \A q \in Declared : Whole(q) \/ (holder = "replay" /\ q \in ToSet(todo))
        /\ \A q \in ToSet(batch) : Whole(q) \/ q \in ToSet(todo)

\* The consumers that a connection in service has still to get are left.
Restarted ==
    link = "up" =>
        /\ holder \in {"none", "declare"} => queues \subseteq consuming \cup cancelled
        /\ holder = "consume" => queues \subseteq consuming \cup cancelled \cup left

\* The configurations of accepted calls, and those that the present call has
\* gone through.
Known == Declared \cup (ToSet(batch) \ ToSet(todo))

\* What is known agrees with the broker and with itself, is valid, and what of
\* it is durable is there even without a connection.
Agreed ==
    /\ \A q \in Known : validate(q)
    /\ deletions = 0 =>
          /\ Compatible(broker \cup UNION {Topology(q) : q \in Known})
          /\ \A q \in Known : q.life = "durable" => Topology(q) \subseteq broker

\* The inductive invariant.
IInv ==
    /\ Typed /\ Working /\ Consumers /\ Begun /\ Present /\ Restarted /\ Agreed
    /\ DeadLetterReady /\ ReplayAccepted

-----------------------------------------------------------------------------
(* The declarations of one queue.                                          *)

\* The elements of a sequence that is put together from two.
LEMMA ConcatToSet ==
  ASSUME NEW S, NEW s \in Seq(S), NEW t \in Seq(S)
  PROVE  ToSet(s \o t) = ToSet(s) \cup ToSet(t)
<1>1. /\ s \o t \in Seq(S) /\ Len(s \o t) = Len(s) + Len(t) /\ Len(s) \in Nat /\ Len(t) \in Nat
      /\ \A i \in 1..(Len(s) + Len(t)) : (s \o t)[i] = IF i <= Len(s) THEN s[i] ELSE t[i - Len(s)]
      /\ DOMAIN s = 1..Len(s) /\ DOMAIN t = 1..Len(t) /\ DOMAIN (s \o t) = 1..(Len(s) + Len(t))
  BY ConcatProperties
<1>2. ASSUME NEW i \in 1..Len(s) PROVE s[i] \in ToSet(s \o t)
  <2>1. i \in 1..(Len(s) + Len(t)) /\ (s \o t)[i] = s[i]
    BY <1>1
  <2> QED
    BY <1>1, <2>1 DEF ToSet
<1>3. ASSUME NEW i \in 1..Len(t) PROVE t[i] \in ToSet(s \o t)
  <2>1. Len(s) + i \in 1..(Len(s) + Len(t)) /\ (s \o t)[Len(s) + i] = t[i]
    BY <1>1
  <2> QED
    BY <1>1, <2>1 DEF ToSet
<1>4. ASSUME NEW i \in 1..(Len(s) + Len(t)) PROVE (s \o t)[i] \in ToSet(s) \cup ToSet(t)
  <2>1. CASE i <= Len(s)
    BY <1>1, <2>1 DEF ToSet
  <2>2. CASE ~(i <= Len(s))
    <3>1. i - Len(s) \in 1..Len(t) /\ (s \o t)[i] = t[i - Len(s)]
      BY <1>1, <2>2
    <3> QED
      BY <1>1, <3>1 DEF ToSet
  <2> QED
    BY <2>1, <2>2
<1> QED
  BY <1>1, <1>2, <1>3, <1>4 DEF ToSet

\* The same for four.
LEMMA ConcatFourToSet ==
  ASSUME NEW S, NEW s \in Seq(S), NEW t \in Seq(S), NEW u \in Seq(S), NEW v \in Seq(S)
  PROVE  ToSet(s \o t \o u \o v) = ToSet(s) \cup ToSet(t) \cup ToSet(u) \cup ToSet(v)
<1> DEFINE st == s \o t
           stu == st \o u
<1>1. st \in Seq(S) /\ ToSet(st) = ToSet(s) \cup ToSet(t)
  BY ConcatToSet, ConcatProperties
<1> HIDE DEF st
<1>2. stu \in Seq(S) /\ ToSet(stu) = ToSet(st) \cup ToSet(u)
  BY <1>1, ConcatToSet, ConcatProperties
<1> HIDE DEF stu
<1>3. ToSet(stu \o v) = ToSet(stu) \cup ToSet(v)
  BY <1>2, ConcatToSet
<1> QED
  BY <1>1, <1>2, <1>3, Zenon DEF st, stu

\* The first element and the others.
LEMMA HeadTailToSet ==
  ASSUME NEW S, NEW s \in Seq(S), s # <<>>
  PROVE  Head(s) \in S /\ Tail(s) \in Seq(S) /\ ToSet(s) = {Head(s)} \cup ToSet(Tail(s))
<1>1. /\ Len(s) \in Nat /\ Len(s) > 0 /\ Head(s) = s[1] /\ Head(s) \in S /\ Tail(s) \in Seq(S)
      /\ DOMAIN s = 1..Len(s) /\ DOMAIN Tail(s) = 1..(Len(s) - 1)
      /\ \A i \in 1..(Len(s) - 1) : Tail(s)[i] = s[i + 1]
  BY HeadTailProperties
<1>2. ASSUME NEW i \in 1..Len(s) PROVE s[i] \in {Head(s)} \cup ToSet(Tail(s))
  <2>1. CASE i = 1
    BY <1>1, <2>1
  <2>2. CASE i # 1
    <3>1. i - 1 \in 1..(Len(s) - 1) /\ Tail(s)[i - 1] = s[i]
      BY <1>1, <2>2
    <3> QED
      BY <1>1, <3>1 DEF ToSet
  <2> QED
    BY <2>1, <2>2
<1>3. ASSUME NEW i \in 1..(Len(s) - 1) PROVE Tail(s)[i] \in ToSet(s)
  <2>1. i + 1 \in 1..Len(s) /\ Tail(s)[i] = s[i + 1]
    BY <1>1
  <2> QED
    BY <1>1, <2>1 DEF ToSet
<1> QED
  BY <1>1, <1>2, <1>3 DEF ToSet

\* What a queue may need.
Parts(q) ==
    { Declaration(q, "DLX", Lasting), Declaration(q, "DLQ", Lasting), Declaration(q, "DLQ binding", <<>>),
      Declaration(q, "exchange", <<q.route>>),
      Declaration(q, "delay", DelayArgs(q)),
      Declaration(q, "queue", QueueArgs(q)), Declaration(q, "binding", <<q.route>>) }

\* Every sequence of declarations is made of them.
LEMMA PartsTyped ==
  ASSUME NEW q
  PROVE  /\ DeadLetters(q) \in Seq(Parts(q)) /\ Delay(q) \in Seq(Parts(q))
         /\ Itself(q) \in Seq(Parts(q)) /\ Binding(q) \in Seq(Parts(q))
         /\ Declarations(q) \in Seq(Parts(q))
<1> DEFINE P == Parts(q)
<1>a. ASSUME NEW a \in P, NEW b \in P, NEW c \in P
      PROVE  <<>> \in Seq(P) /\ <<a>> \in Seq(P) /\ <<a, b>> \in Seq(P) /\ <<a, b, c>> \in Seq(P)
  <2> HIDE DEF P
  <2> QED
    OBVIOUS
<1>b. /\ Declaration(q, "DLX", Lasting) \in P /\ Declaration(q, "DLQ", Lasting) \in P
      /\ Declaration(q, "DLQ binding", <<>>) \in P /\ Declaration(q, "exchange", <<q.route>>) \in P
      /\ Declaration(q, "delay", DelayArgs(q)) \in P
      /\ Declaration(q, "queue", QueueArgs(q)) \in P /\ Declaration(q, "binding", <<q.route>>) \in P
  BY DEF Parts
<1> HIDE DEF P
<1>1. DeadLetters(q) \in Seq(P)
  BY <1>a, <1>b, Zenon DEF DeadLetters
<1>2. Delay(q) \in Seq(P)
  BY <1>a, <1>b, Zenon DEF Delay
<1>3. Itself(q) \in Seq(P)
  BY <1>a, <1>b, Zenon DEF Itself
<1>4. Binding(q) \in Seq(P)
  BY <1>a, <1>b, Zenon DEF Binding
<1>5. Declarations(q) \in Seq(P)
  BY <1>1, <1>2, <1>3, <1>4, ConcatProperties DEF Declarations
<1> QED
  BY <1>1, <1>2, <1>3, <1>4, <1>5 DEF P

\* The declarations of a queue as a set.
LEMMA TopologyParts ==
  ASSUME NEW q
  PROVE  /\ Topology(q) = ToSet(DeadLetters(q)) \cup ToSet(Delay(q)) \cup ToSet(Itself(q)) \cup ToSet(Binding(q))
         /\ ToSet(DeadLetters(q)) = IF ~q.dlq THEN {}
                ELSE { Declaration(q, "DLX", Lasting), Declaration(q, "DLQ", Lasting),
                       Declaration(q, "DLQ binding", <<>>) }
         /\ ToSet(Delay(q)) = IF q.delay = 0 THEN {}
                ELSE { Declaration(q, "exchange", <<q.route>>),
                       Declaration(q, "delay", DelayArgs(q)) }
         /\ ToSet(Itself(q)) = { Declaration(q, "queue", QueueArgs(q)) }
         /\ ToSet(Binding(q)) = IF q.delay = 0 THEN {} ELSE { Declaration(q, "binding", <<q.route>>) }
<1>1. Topology(q) = ToSet(DeadLetters(q)) \cup ToSet(Delay(q)) \cup ToSet(Itself(q)) \cup ToSet(Binding(q))
  <2> DEFINE a == DeadLetters(q)
             b == Delay(q)
             c == Itself(q)
             d == Binding(q)
  <2>1. a \in Seq(Parts(q)) /\ b \in Seq(Parts(q)) /\ c \in Seq(Parts(q)) /\ d \in Seq(Parts(q))
    BY PartsTyped
  <2>2. Topology(q) = ToSet(a \o b \o c \o d)
    BY DEF Topology, Declarations
  <2> HIDE DEF a, b, c, d
  <2>3. Topology(q) = ToSet(a) \cup ToSet(b) \cup ToSet(c) \cup ToSet(d)
    BY <2>1, <2>2, ConcatFourToSet
  <2> QED
    BY <2>3 DEF a, b, c, d
<1>2. ASSUME NEW a PROVE ToSet(<<a>>) = {a}
  BY DEF ToSet
<1>3. ASSUME NEW a, NEW b PROVE ToSet(<<a, b>>) = {a, b}
  BY DEF ToSet
<1>4. ASSUME NEW a, NEW b, NEW c PROVE ToSet(<<a, b, c>>) = {a, b, c}
  BY DEF ToSet
<1>5. ToSet(<<>>) = {}
  BY DEF ToSet
<1>6. ToSet(DeadLetters(q)) = IF ~q.dlq THEN {}
         ELSE { Declaration(q, "DLX", Lasting), Declaration(q, "DLQ", Lasting), Declaration(q, "DLQ binding", <<>>) }
  BY <1>4, <1>5, Zenon DEF DeadLetters
<1>7. ToSet(Delay(q)) = IF q.delay = 0 THEN {}
         ELSE { Declaration(q, "exchange", <<q.route>>),
                Declaration(q, "delay", DelayArgs(q)) }
  BY <1>3, <1>5, Zenon DEF Delay
<1>8. ToSet(Binding(q)) = IF q.delay = 0 THEN {} ELSE { Declaration(q, "binding", <<q.route>>) }
  BY <1>2, <1>5, Zenon DEF Binding
<1> QED
  BY <1>1, <1>2, <1>6, <1>7, <1>8, Zenon DEF Itself

\* Everything a queue needs bears its name, and there is one of each kind.
LEMMA TopologyKinds ==
  ASSUME NEW q, NEW d \in Topology(q)
  PROVE  /\ d \in Parts(q) /\ d.name = q.name
         /\ d.kind \in Permanent \cup {"delay", "queue", "binding"}
         /\ d.kind = "queue" => d = Declaration(q, "queue", QueueArgs(q))
         /\ d.kind = "delay" => d = Declaration(q, "delay", DelayArgs(q))
<1>1. ASSUME NEW k, NEW a, d = Declaration(q, k, a) PROVE d.kind = k /\ d.name = q.name
  BY <1>1 DEF Declaration
<1>2. \/ d \in ToSet(DeadLetters(q)) \/ d \in ToSet(Delay(q)) \/ d \in ToSet(Itself(q)) \/ d \in ToSet(Binding(q))
  BY TopologyParts, Zenon
<1>3. d \in Parts(q)
  BY <1>2, PartsTyped DEF ToSet
<1>4. \/ d = Declaration(q, "DLX", Lasting) \/ d = Declaration(q, "DLQ", Lasting)
      \/ d = Declaration(q, "DLQ binding", <<>>) \/ d = Declaration(q, "exchange", <<q.route>>)
      \/ d = Declaration(q, "delay", DelayArgs(q))
      \/ d = Declaration(q, "queue", QueueArgs(q)) \/ d = Declaration(q, "binding", <<q.route>>)
  BY <1>3, Zenon DEF Parts
<1>5. /\ d.name = q.name
      /\ \/ d.kind \in {"DLX", "DLQ", "DLQ binding", "exchange", "binding"}
         \/ d.kind = "delay" /\ d = Declaration(q, "delay", DelayArgs(q))
         \/ d.kind = "queue" /\ d = Declaration(q, "queue", QueueArgs(q))
  <2>1. CASE d = Declaration(q, "DLX", Lasting) \/ d = Declaration(q, "DLQ", Lasting)
    BY <1>1, <2>1
  <2>2. CASE d = Declaration(q, "DLQ binding", <<>>) \/ d = Declaration(q, "exchange", <<q.route>>)
    BY <1>1, <2>2
  <2>3. CASE d = Declaration(q, "binding", <<q.route>>)
    BY <1>1, <2>3
  <2>4. CASE d = Declaration(q, "delay", DelayArgs(q))
    BY <1>1, <2>4
  <2>5. CASE d = Declaration(q, "queue", QueueArgs(q))
    BY <1>1, <2>5
  <2> QED
    BY <1>4, <2>1, <2>2, <2>3, <2>4, <2>5
<1> QED
  BY <1>3, <1>5 DEF Permanent
\* The declarations one by one.
LEMMA DeclarationsIndexed ==
  ASSUME NEW q
  PROVE  /\ Len(Declarations(q)) \in Nat \ {0}
         /\ \A j \in 1..Len(Declarations(q)) : Declarations(q)[j] \in Topology(q)
         /\ \A d \in Topology(q) : \E j \in 1..Len(Declarations(q)) : d = Declarations(q)[j]
<1> DEFINE D == Declarations(q)
<1>1. D \in Seq(Parts(q)) /\ ToSet(D) = Topology(q)
  BY PartsTyped, Zenon DEF Topology
<1>2. Declaration(q, "queue", QueueArgs(q)) \in Topology(q)
  BY TopologyParts, Zenon
<1> HIDE DEF D
<1>3. DOMAIN D = 1..Len(D) /\ Len(D) \in Nat
  BY <1>1
<1>4. \A j \in 1..Len(D) : D[j] \in Topology(q)
  BY <1>1, <1>3 DEF ToSet
<1>5. \A d \in Topology(q) : \E j \in 1..Len(D) : d = D[j]
  BY <1>1, <1>3 DEF ToSet
<1>6. Len(D) # 0
  BY <1>2, <1>3, <1>5
<1> QED
  BY <1>3, <1>4, <1>5, <1>6 DEF D

\* The dead-letter part of a queue is made of declarations that nothing takes away.
LEMMA DeadLettersPermanent ==
  ASSUME NEW q, NEW d \in ToSet(DeadLetters(q))
  PROVE  d.kind \in Permanent
<1>1. ASSUME NEW kind, NEW args PROVE Declaration(q, kind, args).kind = kind
  BY DEF Declaration
<1>2. d \in { Declaration(q, "DLX", Lasting), Declaration(q, "DLQ", Lasting), Declaration(q, "DLQ binding", <<>>) }
  <2>1. CASE q.dlq
    BY <2>1, TopologyParts, Zenon
  <2>2. CASE ~q.dlq
    BY <2>2, TopologyParts, Zenon
  <2> QED
    BY <2>1, <2>2
<1>3. d.kind \in {"DLX", "DLQ", "DLQ binding"}
  BY <1>1, <1>2
<1> QED
  BY <1>3 DEF Permanent

\* The dead-letter part comes before the queue that refers to it.
LEMMA DeadLettersFirst ==
  ASSUME NEW q, NEW k \in 1..Len(Declarations(q)), Declarations(q)[k].kind = "queue",
         NEW d \in ToSet(DeadLetters(q))
  PROVE  d.kind \in Permanent /\ \E j \in 1..(k - 1) : Declarations(q)[j] = d
<1> DEFINE P == Parts(q)
           a == DeadLetters(q)
           b == Delay(q)
           c == Itself(q)
           e == Binding(q)
<1>1. a \in Seq(P) /\ b \in Seq(P) /\ c \in Seq(P) /\ e \in Seq(P) /\ Declarations(q) = ((a \o b) \o c) \o e
  BY PartsTyped DEF Declarations
<1>2. ASSUME NEW x \in ToSet(a) PROVE x.kind \in Permanent
  BY DeadLettersPermanent
<1>3. k \in 1..Len(((a \o b) \o c) \o e) /\ (((a \o b) \o c) \o e)[k].kind = "queue" /\ d \in ToSet(a)
  BY <1>1
<1> HIDE DEF P, a, b, c, e
<1>4. ASSUME NEW s \in Seq(P), NEW t \in Seq(P)
      PROVE  /\ s \o t \in Seq(P) /\ Len(s) \in Nat /\ Len(s) <= Len(s \o t)
             /\ \A j \in 1..Len(s) : (s \o t)[j] = s[j]
  BY ConcatProperties
<1> DEFINE ab == a \o b
<1>5. ab \in Seq(P) /\ Len(a) \in Nat /\ Len(a) <= Len(ab) /\ \A j \in 1..Len(a) : ab[j] = a[j]
  BY <1>1, <1>4
<1> DEFINE abc == ab \o c
<1> HIDE DEF ab
<1>6. abc \in Seq(P) /\ Len(ab) \in Nat /\ Len(ab) <= Len(abc) /\ \A j \in 1..Len(ab) : abc[j] = ab[j]
  BY <1>1, <1>4, <1>5
<1> DEFINE abce == abc \o e
<1> HIDE DEF abc
<1>7. abce \in Seq(P) /\ Len(abc) \in Nat /\ Len(abc) <= Len(abce) /\ \A j \in 1..Len(abc) : abce[j] = abc[j]
  BY <1>1, <1>4, <1>6
<1> HIDE DEF abce
<1>8. abce = Declarations(q)
  BY <1>1 DEF abce, abc, ab
<1>9. \A j \in 1..Len(a) : j \in Nat /\ abce[j] = a[j]
  BY <1>5, <1>6, <1>7
<1>10. DOMAIN a = 1..Len(a)
  BY <1>1
<1>11. PICK j \in 1..Len(a) : d = a[j]
  BY <1>3, <1>10 DEF ToSet
<1>12. ~(k <= j)
  <2> SUFFICES ASSUME k <= j PROVE FALSE
    OBVIOUS
  <2>0. k \in Nat /\ k >= 1
    BY k \in 1..Len(Declarations(q))
  <2>1. k \in 1..Len(a)
    BY <1>5, <2>0
  <2>2. abce[k] \in ToSet(a)
    BY <1>9, <1>10, <2>1 DEF ToSet
  <2>3. abce[k].kind = "queue"
    BY <1>8
  <2> QED
    BY <1>2, <2>2, <2>3 DEF Permanent
<1>13. j \in 1..(k - 1) /\ Declarations(q)[j] = d
  BY <1>5, <1>7, <1>8, <1>9, <1>11, <1>12
<1> QED
  BY <1>2, <1>3, <1>13

\* A queue that is declared the same refers to the same dead-letter part.
LEMMA SameDeadLetters ==
  ASSUME NEW q \in Configs, NEW r \in Configs, ToSet(Itself(q)) \subseteq Topology(r)
  PROVE  ToSet(DeadLetters(q)) = ToSet(DeadLetters(r))
<1> DEFINE iq == Declaration(q, "queue", QueueArgs(q))
           ir == Declaration(r, "queue", QueueArgs(r))
<1>1. iq \in Topology(r)
  BY TopologyParts, Zenon
<1>2. iq.kind = "queue"
  BY DEF Declaration
<1>3. iq = ir
  BY <1>1, <1>2, TopologyKinds
<1>4. iq.args = QueueArgs(q) /\ iq.name = q.name /\ ir.args = QueueArgs(r) /\ ir.name = r.name
  BY DEF Declaration
<1>5. q.name = r.name /\ QueueArgs(q) = QueueArgs(r)
  BY <1>3, <1>4
<1>6. q.dlq = r.dlq
  BY <1>5 DEF QueueArgs
<1>7. ASSUME NEW kind, NEW args PROVE Declaration(q, kind, args) = Declaration(r, kind, args)
  BY <1>5, Zenon DEF Declaration
<1>8. DeadLetters(q) = DeadLetters(r)
  BY <1>6, <1>7, Zenon DEF DeadLetters
<1> QED
  BY <1>8

\* Fewer declarations do not contradict each other either.
LEMMA CompatibleSubset ==
  ASSUME NEW S, NEW T, S \subseteq T, Compatible(T)
  PROVE  Compatible(S)
BY DEF Compatible

\* What the broker gets for a delay that validate accepts.
LEMMA DelayConversion ==
  ASSUME NEW q \in Configs, validate(q)
  PROVE  /\ int32(Milliseconds(q.delay)) * TicksPerMilli \in (q.delay - TicksPerMilli + 1)..q.delay
         /\ q.delay >= TicksPerMilli => int32(Milliseconds(q.delay)) \in 1..(Half - 1)
<1> DEFINE m == q.delay \div TicksPerMilli
<1>1. q.delay \in Nat /\ TicksPerMilli \in Nat \ {0} /\ Half \in Nat \ {0}
  BY TopologyAssumption
<1>2. m \in Nat /\ m * TicksPerMilli <= q.delay /\ q.delay < m * TicksPerMilli + TicksPerMilli
  <2> DEFINE x == q.delay
             y == TicksPerMilli
  <2>1. x \in Nat /\ y \in Nat \ {0}
    BY <1>1
  <2> HIDE DEF x, y
  <2> DEFINE z == x \div y
  <2>2. z \in Nat /\ x % y \in 0..(y - 1) /\ x = (y * z) + (x % y)
    BY <2>1, Z3
  <2>3. y * z = z * y /\ z * y \in Nat
    BY <2>1, <2>2
  <2>4. z * y <= x /\ x < z * y + y
    BY <2>1, <2>2, <2>3
  <2> QED
    BY <2>2, <2>4 DEF x, y
<1>3. m < Half
  BY DEF validate, Milliseconds
<1>4. int32(Milliseconds(q.delay)) = int32(m)
  BY DEF Milliseconds
<1> HIDE DEF m
<1>5. (m + Half) % (2 * Half) = m + Half
  BY <1>1, <1>2, <1>3
<1>6. int32(m) = m
  BY <1>1, <1>2, <1>5 DEF int32
<1>9. q.delay >= TicksPerMilli => m \in 1..(Half - 1)
  <2>1. m = 0 => m * TicksPerMilli = 0
    BY <1>1
  <2> QED
    BY <1>1, <1>2, <1>3, <2>1
<1> DEFINE p == m * TicksPerMilli
<1>7. p \in Nat /\ p <= q.delay /\ q.delay < p + TicksPerMilli
  BY <1>1, <1>2
<1> HIDE DEF p
<1>8. p \in (q.delay - TicksPerMilli + 1)..q.delay
  BY <1>1, <1>7
<1> QED
  BY <1>4, <1>6, <1>8, <1>9 DEF p
-----------------------------------------------------------------------------
(* What the steps have in common.                                          *)

\* The empty sequence has no elements.
LEMMA EmptyToSet == ToSet(<<>>) = {}
BY DEF ToSet

\* A queue is among its declarations, and the broker compares how long it lives.
LEMMA ItselfDeclared ==
  ASSUME NEW q
  PROVE  \E d \in Topology(q) : d.kind = "queue" /\ d.name = q.name /\ d.args[1] = q.life
<1> DEFINE d == Declaration(q, "queue", QueueArgs(q))
<1>1. d \in Topology(q)
  BY TopologyParts, Zenon
<1>2. d.kind = "queue" /\ d.name = q.name /\ d.args = QueueArgs(q)
  BY DEF Declaration
<1>3. d.args[1] = q.life
  BY <1>2 DEF QueueArgs
<1> QED
  BY <1>1, <1>2, <1>3

\* As long as nothing permanent goes, no queue is without its dead-letter part.
LEMMA LossKeepsDeadLetters ==
  ASSUME DeadLetterReady, broker' \subseteq broker,
         \A d \in broker : d.kind \in Permanent => d \in broker'
  PROVE  DeadLetterReady'
<1> SUFFICES ASSUME NEW q \in Configs, ToSet(Itself(q)) \subseteq broker', NEW d \in ToSet(DeadLetters(q))
             PROVE  d \in broker'
  BY DEF DeadLetterReady
<1>1. d \in broker
  BY DEF DeadLetterReady
<1> QED
  BY <1>1, DeadLettersPermanent

\* With the connection go queues that were not meant to last, and no others.
LEMMA GoDownKeeps ==
  ASSUME Typed, NEW N \in {{}, Living("transient")}, GoDown(N)
  PROVE  /\ broker' \subseteq broker
         /\ \A d \in broker : d.kind \in Permanent \cup {"delay"} => d \in broker'
         /\ \A q \in Configs : q.life = "durable" /\ Topology(q) \subseteq broker => Topology(q) \subseteq broker'
<1>1. broker' = {d \in broker : ~(d.kind \in {"queue", "binding"}
                 /\ d.name \in N \cup Living("exclusive") \cup (Living("autodelete") \cap consuming))}
  BY DEF GoDown, Without
<1>2. broker' \subseteq broker /\ \A d \in broker : d.kind \in Permanent \cup {"delay"} => d \in broker'
  BY <1>1 DEF Permanent
<1>3. ASSUME NEW q \in Configs, q.life = "durable", Topology(q) \subseteq broker, NEW d \in Topology(q)
      PROVE  d \in broker'
  <2>1. d.name = q.name /\ d \in broker
    BY <1>3, TopologyKinds
  <2>2. PICK e \in broker : e.kind = "queue" /\ e.name = q.name /\ e.args[1] = "durable"
    BY <1>3, ItselfDeclared
  <2>3. ASSUME NEW life \in {"transient", "exclusive", "autodelete"} PROVE q.name \notin Living(life)
    <3> SUFFICES ASSUME q.name \in Living(life) PROVE FALSE
      OBVIOUS
    <3>1. PICK f \in broker : f.kind = "queue" /\ f.name = q.name /\ f.args[1] = life
      BY DEF Living, Queue
    <3>2. e = f
      BY <2>2, <3>1 DEF Typed, Compatible
    <3> QED
      BY <2>2, <3>1, <3>2
  <2>4. q.name \notin N
    BY <2>3
  <2> QED
    BY <1>1, <2>1, <2>3, <2>4
<1> QED
  BY <1>2, <1>3

\* What was declared of the configuration at hand is among its declarations.
LEMMA BegunDeclared ==
  ASSUME Typed, todo # <<>>
  PROVE  /\ Head(todo) \in Configs /\ Tail(todo) \in Seq(Configs)
         /\ ToSet(todo) = {Head(todo)} \cup ToSet(Tail(todo))
         /\ step \in 1..Len(Declarations(Head(todo))) /\ Len(Declarations(Head(todo))) \in Nat
         /\ \A j \in 1..step : Declarations(Head(todo))[j] \in Topology(Head(todo))
<1>1. /\ Head(todo) \in Configs /\ Tail(todo) \in Seq(Configs)
      /\ ToSet(todo) = {Head(todo)} \cup ToSet(Tail(todo))
  BY HeadTailToSet DEF Typed
<1> DEFINE D == Declarations(Head(todo))
<1>2. Len(D) \in Nat \ {0} /\ \A j \in 1..Len(D) : D[j] \in Topology(Head(todo))
  BY DeclarationsIndexed
<1>3. step \in 1..Len(D)
  BY DEF Typed
<1> HIDE DEF D
<1>4. \A j \in 1..step : D[j] \in Topology(Head(todo))
  BY <1>2, <1>3
<1> QED
  BY <1>1, <1>2, <1>3, <1>4 DEF D

\* The channel goes down, and the SDK is where it was.
LEMMA DownStep ==
  ASSUME IInv, NEW N \in {{}, Living("transient")}, GoDown(N),
         UNCHANGED <<holder, batch, todo, step, left, declaredQueues, cancelled, deletions, calls>>,
         faults' \in 0..MaxFaults, queues \subseteq queues', queues' \subseteq Names
  PROVE  Typed' /\ Working' /\ Consumers' /\ Begun' /\ Present' /\ Restarted' /\ Agreed' /\ DeadLetterReady'
<1> USE DEF IInv
<1>1. /\ broker' \subseteq broker
      /\ \A d \in broker : d.kind \in Permanent \cup {"delay"} => d \in broker'
      /\ \A q \in Configs : q.life = "durable" /\ Topology(q) \subseteq broker => Topology(q) \subseteq broker'
  BY GoDownKeeps
<1>2. link' = "down" /\ consuming' = {}
  BY DEF GoDown
<1>3. Declared' = Declared /\ Known' = Known
  BY DEF Declared, Known
<1>4. Typed'
  <2>1. Compatible(broker)'
    BY <1>1, CompatibleSubset DEF Typed, Compatible
  <2>2. (IF todo = <<>> THEN 1 ELSE Len(Declarations(Head(todo))))' = IF todo = <<>> THEN 1 ELSE Len(Declarations(Head(todo)))
    OBVIOUS
  <2> QED
    BY <1>1, <1>2, <2>1, <2>2 DEF Typed
<1>5. Working'
  BY <1>3 DEF Working
<1>6. Consumers'
  BY <1>2 DEF Consumers
<1>7. Begun'
  <2> SUFFICES ASSUME todo # <<>>, NEW j \in 1..(step - 1),
                      Declarations(Head(todo))[j].kind \in Permanent
               PROVE  Declarations(Head(todo))[j] \in broker'
    BY <1>2 DEF Begun
  <2> QED
    BY <1>1 DEF Begun
<1>8. Present' /\ Restarted'
  BY <1>2 DEF Present, Restarted
<1>9. Agreed'
  <2>1. ASSUME deletions = 0
        PROVE  Compatible(broker' \cup UNION {Topology(q) : q \in Known})
    BY <2>1, <1>1, CompatibleSubset DEF Agreed
  <2>2. ASSUME deletions = 0, NEW q \in Known, q.life = "durable"
        PROVE  Topology(q) \subseteq broker'
    <3>1. q \in Configs
      BY DEF Known, Declared, Typed, ToSet
    <3> QED
      BY <1>1, <2>2, <3>1 DEF Agreed
  <2> QED
    BY <1>3, <2>1, <2>2 DEF Agreed, Compatible
<1>10. DeadLetterReady'
  BY <1>1, LossKeepsDeadLetters
<1> QED
  BY <1>4, <1>5, <1>6, <1>7, <1>8, <1>9, <1>10
-----------------------------------------------------------------------------
(* The steps one by one.                                                   *)

\* The elements of a batch are configurations.
LEMMA BatchTyped ==
  ASSUME NEW b \in Batches
  PROVE  b \in Seq(Configs) /\ b # <<>> /\ ToSet(b) \subseteq Configs
<1>1. b \in Seq(ToSet(b)) /\ b # <<>>
  BY TopologyAssumption
<1>2. ToSet(b) \subseteq Configs
  BY Zenon DEF Configs
<1> DEFINE S == ToSet(b)
<1>3. b \in Seq(S) /\ S \subseteq Configs
  BY <1>1, <1>2
<1> HIDE DEF S
<1>4. b \in Seq(Configs)
  BY <1>3
<1> QED
  BY <1>1, <1>2, <1>4

\* A call begins with everything still to declare.
LEMMA DeclareQueuesStep ==
  ASSUME IInv, NEW b \in Batches, DeclareQueues(b)
  PROVE  IInv'
<1> USE DEF IInv, DeclareQueues, Called
<1>1. Declared' = Declared
  BY DEF Declared
<1>2. batch = <<>> /\ ToSet(batch) = {}
  BY EmptyToSet DEF Working
<1>3. Known = Declared /\ Known' = Declared
  BY <1>1, <1>2 DEF Known
<1>4. Typed'
  <2>1. b \in Seq(Configs) /\ b # <<>>
    BY BatchTyped
  <2>2. Len(Declarations(Head(b))) \in Nat \ {0}
    BY DeclarationsIndexed
  <2>3. step' \in 1..(IF todo' = <<>> THEN 1 ELSE Len(Declarations(Head(todo'))))
    BY <2>1, <2>2
  <2>4. calls' \in 0..MaxCalls
    BY TopologyAssumption DEF Typed
  <2> QED
    BY <2>1, <2>3, <2>4 DEF Typed, Compatible
<1>5. Working' /\ Consumers' /\ Begun' /\ Restarted'
  BY DEF Working, Consumers, Begun, Restarted, Queue
<1>6. Present'
  BY <1>1, <1>2 DEF Present, Whole
<1>7. Agreed'
  BY <1>3 DEF Agreed, Compatible
<1>8. DeadLetterReady' /\ ReplayAccepted'
  BY DEF DeadLetterReady, ReplayAccepted
<1> QED
  BY <1>4, <1>5, <1>6, <1>7, <1>8

\* A call that fails leaves what it has declared, and nothing else.
LEMMA DeclareFailsStep ==
  ASSUME IInv, DeclareFails
  PROVE  IInv'
<1> USE DEF IInv, DeclareFails, Abandoned
<1>1. Declared' = Declared
  BY DEF Declared
<1>2. ToSet(batch') = {} /\ ToSet(todo') = {}
  BY EmptyToSet
<1>3. Known' = Declared /\ Declared \subseteq Known
  BY <1>1, <1>2 DEF Known
<1>4. Typed'
  BY DEF Typed, Compatible, bounds
<1>5. Working' /\ Consumers' /\ Begun' /\ Restarted'
  BY DEF Working, Consumers, Begun, Restarted, Queue, bounds
<1>6. Present'
  BY <1>1, <1>2 DEF Present, Whole
<1>7. Agreed'
  <2>1. ASSUME deletions = 0
        PROVE  Compatible(broker \cup UNION {Topology(q) : q \in Declared})
    BY <2>1, <1>3, CompatibleSubset DEF Agreed
  <2> QED
    BY <1>3, <2>1 DEF Agreed, Compatible, bounds
<1>8. DeadLetterReady' /\ ReplayAccepted'
  BY DEF DeadLetterReady, ReplayAccepted, bounds
<1> QED
  BY <1>4, <1>5, <1>6, <1>7, <1>8

\* A call that succeeds has declared its whole batch, which is stored.
LEMMA DeclareSucceedsStep ==
  ASSUME IInv, DeclareSucceeds
  PROVE  IInv'
<1> USE DEF IInv, DeclareSucceeds
<1>1. Declared' = Declared \cup ToSet(batch)
  BY ConcatToSet DEF Declared, Typed
<1>2. ToSet(batch') = {} /\ ToSet(todo') = {} /\ ToSet(todo) = {}
  BY EmptyToSet
<1>3. Known' = Known
  BY <1>1, <1>2 DEF Known
<1>4. Typed'
  <2>1. declaredQueues' \in Seq(Configs)
    BY ConcatProperties DEF Typed
  <2> QED
    BY <2>1 DEF Typed, Compatible, bounds
<1>5. Working' /\ Consumers' /\ Begun' /\ Restarted'
  BY DEF Working, Consumers, Begun, Restarted, Queue, bounds
<1>6. Present'
  BY <1>1, <1>2 DEF Present, Whole
<1>7. Agreed'
  BY <1>3 DEF Agreed, Compatible, bounds
<1>8. DeadLetterReady' /\ ReplayAccepted'
  BY DEF DeadLetterReady, ReplayAccepted, bounds
<1> QED
  BY <1>4, <1>5, <1>6, <1>7, <1>8

\* A new connection has everything stored still to declare.
LEMMA RedialStep ==
  ASSUME IInv, Redial
  PROVE  IInv'
<1> USE DEF IInv, Redial, RedialBy
<1>1. Declared' = Declared
  BY DEF Declared
<1>2. batch = <<>> /\ ToSet(batch) = {} /\ ToSet(batch') = {} /\ ToSet(todo') = Declared
  BY EmptyToSet DEF Working, Declared
<1>3. Known = Declared /\ Known' = Declared
  BY <1>1, <1>2 DEF Known
<1>4. Typed'
  <2>1. Len(Declarations(Head(declaredQueues))) \in Nat \ {0}
    BY DeclarationsIndexed
  <2>2. step' \in 1..(IF todo' = <<>> THEN 1 ELSE Len(Declarations(Head(todo'))))
    BY <2>1
  <2> QED
    BY <2>2 DEF Typed, Compatible, bounds
<1>5. Working' /\ Consumers' /\ Begun' /\ Restarted'
  BY <1>1, <1>2 DEF Working, Consumers, Begun, Restarted, Queue, bounds
<1>6. Present'
  BY <1>1, <1>2 DEF Present
<1>7. Agreed'
  BY <1>3 DEF Agreed, Compatible, bounds
<1>8. DeadLetterReady' /\ ReplayAccepted'
  BY DEF DeadLetterReady, ReplayAccepted, bounds
<1> QED
  BY <1>4, <1>5, <1>6, <1>7, <1>8

\* The replay gives way to the consumers, and these to the application.
LEMMA ReconnectStepKeeps ==
  ASSUME IInv, ReplayDone \/ ReconnectDone
  PROVE  IInv'
<1> USE DEF IInv
<1>1. /\ UNCHANGED <<broker, link, batch, todo, step, declaredQueues, queues, consuming, cancelled, refused, bounds>>
      /\ link = "up" /\ todo = <<>> /\ batch = <<>>
      /\ \/ holder = "replay" /\ holder' = "consume" /\ left' = queues
         \/ holder = "consume" /\ holder' = "none" /\ left = {} /\ left' = left
  BY DEF ReplayDone, ReconnectDone, InService, Working
<1>2. Declared' = Declared /\ Known' = Known /\ ToSet(todo) = {} /\ ToSet(batch) = {}
  BY <1>1, EmptyToSet DEF Declared, Known
<1>3. Typed'
  BY <1>1 DEF Typed, Compatible, bounds
<1>4. Working' /\ Consumers' /\ Begun' /\ Restarted'
  BY <1>1 DEF Working, Consumers, Begun, Restarted, Queue, bounds
<1>5. Present'
  BY <1>1, <1>2 DEF Present, Whole
<1>6. Agreed'
  BY <1>1, <1>2 DEF Agreed, Compatible, bounds
<1>7. DeadLetterReady' /\ ReplayAccepted'
  BY <1>1 DEF DeadLetterReady, ReplayAccepted, bounds
<1> QED
  BY <1>3, <1>4, <1>5, <1>6, <1>7

\* A consumer is started, by Start or by reconnect, or Start leaves it to the
\* reconnect to come.
LEMMA ConsumerStep ==
  ASSUME IInv, NEW n \in Names, Start(n) \/ Consume(n)
  PROVE  IInv'
<1> USE DEF IInv
<1>1. UNCHANGED <<holder, batch, todo, step, declaredQueues, cancelled, refused, bounds>>
  BY DEF Start, Consume
<1>2. CASE GoDown({})
  <2>1. left' = left /\ queues \subseteq queues' /\ queues' \subseteq Names
    <3>1. CASE Start(n)
      BY <3>1 DEF Start, Consumers
    <3>2. CASE Consume(n) /\ Queue(n) = {}
      BY <3>2 DEF Consume, Consumers
    <3>3. CASE Consume(n) /\ Queue(n) # {}
      BY <1>2, <3>3 DEF Consume, GoDown
    <3> QED
      BY <3>1, <3>2, <3>3
  <2>2. faults' \in 0..MaxFaults /\ UNCHANGED <<deletions, calls>>
    BY <1>1 DEF bounds, Typed
  <2>3. Typed' /\ Working' /\ Consumers' /\ Begun' /\ Present' /\ Restarted' /\ Agreed' /\ DeadLetterReady'
    BY <1>1, <1>2, <2>1, <2>2, DownStep
  <2>4. ReplayAccepted'
    BY <1>1 DEF ReplayAccepted, bounds
  <2> QED
    BY <2>3, <2>4
<1>3. CASE ~GoDown({})
  <2>1. /\ UNCHANGED <<broker, link>>
        /\ queues' \subseteq Names /\ left' \subseteq queues'
        /\ consuming' \subseteq {m \in queues' : link = "up" /\ Queue(m) # {}}
        /\ link = "up" =>
              /\ holder = "none" => queues' \subseteq consuming' \cup cancelled
              /\ holder = "consume" => queues' \subseteq consuming' \cup cancelled \cup left'
              /\ holder \in {"none", "consume"}
    <3>1. CASE Start(n)
      BY <1>3, <3>1 DEF Start, Consumers, Restarted
    <3>2. CASE Consume(n)
      BY <1>3, <3>2 DEF Consume, Consumers, Restarted
    <3> QED
      BY <3>1, <3>2
  <2>2. Declared' = Declared /\ Known' = Known
    BY <1>1 DEF Declared, Known
  <2>3. Typed'
    BY <1>1, <2>1 DEF Typed, Compatible, bounds
  <2>4. Working' /\ Begun'
    BY <1>1, <2>1, <2>2 DEF Working, Begun
  <2>5. Consumers'
    BY <1>1, <2>1 DEF Consumers, Queue, bounds
  <2>6. Restarted'
    BY <1>1, <2>1 DEF Restarted
  <2>7. Present'
    BY <1>1, <2>1, <2>2 DEF Present, Whole
  <2>8. Agreed'
    BY <1>1, <2>1, <2>2 DEF Agreed, Compatible, bounds
  <2>9. DeadLetterReady' /\ ReplayAccepted'
    BY <1>1, <2>1 DEF DeadLetterReady, ReplayAccepted, bounds
  <2> QED
    BY <2>3, <2>4, <2>5, <2>6, <2>7, <2>8, <2>9
<1> QED
  BY <1>2, <1>3
\* Somebody deletes a queue: what has its name may be missing from now on.
LEMMA QueueDeletedStep ==
  ASSUME IInv, NEW n \in Names, QueueDeleted(n)
  PROVE  IInv'
<1> USE DEF IInv
<1>1. /\ UNCHANGED <<link, holder, batch, todo, step, left, declaredQueues, queues, refused, calls, faults>>
      /\ cancelled' = cancelled \cup {n} /\ deletions' = deletions + 1 /\ deletions < MaxDeletions
  BY DEF QueueDeleted, sdk
<1>2. /\ broker' \subseteq broker
      /\ \A d \in broker : d.kind \in Permanent \/ d.name # n => d \in broker'
  BY DEF QueueDeleted, Without, Permanent
<1>3. /\ consuming' \subseteq consuming /\ consuming \subseteq consuming' \cup {n}
      /\ \A m \in consuming' : Queue(m)' = Queue(m)
  <2>1. CASE broker' = Without({n}) /\ consuming' = consuming \ {n}
    BY <2>1 DEF Without, Queue
  <2>2. CASE broker' = {d \in broker : ~(d.kind = "delay" /\ d.name = n)} /\ consuming' = consuming
    BY <2>2 DEF Queue
  <2> QED
    BY <2>1, <2>2 DEF QueueDeleted
<1>4. Declared' = Declared /\ Known' = Known
  BY <1>1 DEF Declared, Known
<1>5. deletions' \in 0..MaxDeletions /\ deletions' > 0
  BY <1>1, TopologyAssumption DEF Typed
<1>6. Typed'
  <2>1. Compatible(broker)'
    BY <1>2 DEF Typed, Compatible
  <2> QED
    BY <1>1, <1>2, <1>5, <2>1 DEF Typed
<1>7. Working'
  BY <1>1, <1>4 DEF Working
<1>8. Consumers'
  BY <1>1, <1>3, <1>5 DEF Consumers
<1>9. Begun'
  <2> SUFFICES ASSUME todo # <<>>, NEW j \in 1..(step - 1)
               PROVE  LET d == Declarations(Head(todo))[j] IN
                      /\ d.kind \in Permanent => d \in broker'
                      /\ link = "up" => Head(todo).name \in cancelled' \/ d \in broker'
    BY <1>1 DEF Begun
  <2> DEFINE d == Declarations(Head(todo))[j]
  <2>1. j \in 1..step
    BY DEF Typed
  <2>2. d.name = Head(todo).name
    BY <2>1, BegunDeclared, TopologyKinds
  <2>3. /\ d.kind \in Permanent => d \in broker
        /\ link = "up" => Head(todo).name \in cancelled \/ d \in broker
    BY DEF Begun
  <2> HIDE DEF d
  <2>4. /\ d.kind \in Permanent => d \in broker'
        /\ link = "up" => Head(todo).name \in cancelled' \/ d \in broker'
    BY <1>1, <1>2, <2>2, <2>3
  <2> QED
    BY <2>4 DEF d
<1>10. ASSUME NEW q, Whole(q) PROVE Whole(q)'
  <2>1. CASE q.name \in cancelled'
    BY <2>1 DEF Whole
  <2>2. CASE q.name \notin cancelled'
    <3>1. ASSUME NEW d \in Topology(q) PROVE d \in broker'
      BY <1>1, <1>2, <1>10, <2>2, TopologyKinds DEF Whole
    <3> QED
      BY <3>1 DEF Whole
  <2> QED
    BY <2>1, <2>2
<1>11. Present'
  BY <1>1, <1>4, <1>10 DEF Present
<1>12. Restarted'
  BY <1>1, <1>3 DEF Restarted
<1>13. Agreed' /\ ReplayAccepted'
  BY <1>4, <1>5 DEF Agreed, ReplayAccepted
<1>14. DeadLetterReady'
  BY <1>2, LossKeepsDeadLetters
<1> QED
  BY <1>6, <1>7, <1>8, <1>9, <1>11, <1>12, <1>13, <1>14

\* The broker does not refuse what is replayed.
LEMMA ReplayedAccepted ==
  ASSUME IInv, Declaring, holder = "replay", deletions = 0
  PROVE  Accepted /\ Head(todo) \in Known /\ Pending \in Topology(Head(todo))
<1> USE DEF IInv
<1>1. todo # <<>>
  BY DEF Declaring
<1>2. Head(todo) \in Known
  BY <1>1, BegunDeclared DEF Working, Known
<1>3. step \in 1..step
  BY <1>1, BegunDeclared
<1>4. Pending \in Topology(Head(todo))
  BY <1>1, <1>3, BegunDeclared DEF Pending
<1>5. broker \cup {Pending} \subseteq broker \cup UNION {Topology(q) : q \in Known}
  BY <1>2, <1>4
<1>6. Accepted
  BY <1>5, CompatibleSubset DEF Agreed, Accepted
<1> QED
  BY <1>2, <1>4, <1>6

\* The channel goes down under the SDK: the connection is lost, the broker
\* restarts, or it refuses a declaration.
LEMMA FailureStep ==
  ASSUME IInv, ConnectionLost \/ BrokerRestarts \/ DeclarationRefused
  PROVE  IInv'
<1> USE DEF IInv
<1>1. UNCHANGED <<holder, batch, todo, step, left, declaredQueues, queues, cancelled, deletions, calls>>
  BY DEF ConnectionLost, BrokerRestarts, DeclarationRefused, sdk
<1>2. faults' \in 0..MaxFaults
  BY TopologyAssumption DEF ConnectionLost, BrokerRestarts, DeclarationRefused, Fault, Typed
<1>3. GoDown({}) \/ GoDown(Living("transient"))
  BY DEF ConnectionLost, BrokerRestarts, DeclarationRefused
<1>4. queues \subseteq queues' /\ queues' \subseteq Names
  BY <1>1 DEF Consumers
<1>5. Typed' /\ Working' /\ Consumers' /\ Begun' /\ Present' /\ Restarted' /\ Agreed' /\ DeadLetterReady'
  BY <1>1, <1>2, <1>3, <1>4, DownStep
<1>6. ReplayAccepted'
  <2>1. CASE refused' = refused
    BY <1>1, <2>1 DEF ReplayAccepted
  <2>2. CASE Declaring /\ ~Accepted /\ refused' = (refused \/ holder = "replay")
    <3>1. holder = "replay" => deletions # 0
      BY <2>2, ReplayedAccepted
    <3>2. deletions \in Nat
      BY DEF Typed
    <3>3. refused' => refused \/ holder = "replay"
      BY <2>2, Zenon
    <3> QED
      BY <1>1, <3>1, <3>2, <3>3 DEF ReplayAccepted
  <2> QED
    BY <2>1, <2>2 DEF ConnectionLost, BrokerRestarts, DeclarationRefused
<1> QED
  BY <1>5, <1>6

\* One more declaration is made.
LEMMA DeclareStepKeeps ==
  ASSUME IInv, Declare
  PROVE  IInv'
<1> USE DEF IInv
<1> DEFINE h == Head(todo)
           D == Declarations(h)
<1>1. /\ UNCHANGED <<link, holder, batch, left, declaredQueues, queues, consuming, cancelled, refused,
                     deletions, calls, faults>>
      /\ holder \in {"declare", "replay"} /\ todo # <<>> /\ link = "up" /\ validate(h)
      /\ Compatible(broker \cup {D[step]}) /\ broker' = broker \cup {D[step]}
      /\ \/ step < Len(D) /\ step' = step + 1 /\ todo' = todo
         \/ ~(step < Len(D)) /\ step' = 1 /\ todo' = Tail(todo)
  BY DEF Declare, Declaring, Accepted, Pending, bounds
<1>2. /\ h \in Configs /\ Tail(todo) \in Seq(Configs)
      /\ ToSet(todo) = {h} \cup ToSet(Tail(todo))
      /\ step \in 1..Len(D) /\ Len(D) \in Nat
      /\ \A j \in 1..step : D[j] \in Topology(h)
  BY <1>1, BegunDeclared
<1>3. D[step] \in Topology(h)
  BY <1>2
<1>4. \A d \in Topology(h) : \E j \in 1..Len(D) : d = D[j]
  BY DeclarationsIndexed
<1>5. \A j \in 1..(step - 1) : /\ D[j].kind \in Permanent => D[j] \in broker
                               /\ h.name \in cancelled \/ D[j] \in broker
  BY <1>1 DEF Begun
<1>6. \A j \in 1..step : h.name \in cancelled \/ D[j] \in broker'
  <2> SUFFICES ASSUME NEW j \in 1..step PROVE h.name \in cancelled \/ D[j] \in broker'
    OBVIOUS
  <2>1. CASE j = step
    BY <1>1, <2>1
  <2>2. CASE j # step
    <3>1. j \in 1..(step - 1)
      BY <1>2, <2>2
    <3> QED
      BY <1>1, <1>5, <3>1
  <2> QED
    BY <2>1, <2>2
<1>7. Declared' = Declared /\ ToSet(batch') = ToSet(batch)
  BY <1>1 DEF Declared
<1>8. Typed'
  <2>1. broker' \subseteq UNION {Topology(q) : q \in Configs} /\ Compatible(broker)'
    BY <1>1, <1>2, <1>3 DEF Typed, Compatible
  <2>2. todo' \in Seq(Configs)
    BY <1>1, <1>2 DEF Typed
  <2>3. step' \in 1..(IF todo' = <<>> THEN 1 ELSE Len(Declarations(Head(todo'))))
    <3>1. CASE step < Len(D) /\ step' = step + 1 /\ todo' = todo
      BY <1>1, <1>2, <3>1
    <3>2. CASE step' = 1
      BY <3>2, DeclarationsIndexed
    <3> QED
      BY <1>1, <3>1, <3>2
  <2> QED
    BY <1>1, <2>1, <2>2, <2>3 DEF Typed
<1>9. Working'
  BY <1>1, <1>2, <1>7 DEF Working
<1>10. Consumers' /\ Restarted'
  BY <1>1 DEF Consumers, Restarted, Queue
<1>11. Begun'
  <2>1. CASE todo' = todo /\ step' = step + 1
    <3> SUFFICES ASSUME NEW j \in 1..step
                 PROVE  /\ D[j].kind \in Permanent => D[j] \in broker'
                        /\ h.name \in cancelled \/ D[j] \in broker'
      BY <1>1, <1>2, <2>1 DEF Begun
    <3>1. CASE j = step
      BY <1>1, <3>1
    <3>2. CASE j # step
      <4>1. j \in 1..(step - 1)
        BY <1>2, <3>2
      <4> QED
        BY <1>1, <1>5, <4>1
    <3> QED
      BY <3>1, <3>2
  <2>2. CASE step' = 1
    BY <2>2 DEF Begun
  <2> QED
    BY <1>1, <2>1, <2>2
<1>12. \A q : Whole(q) => Whole(q)'
  BY <1>1 DEF Whole
<1>13. \A q \in ToSet(todo) : Whole(q)' \/ q \in ToSet(todo')
  <2>1. CASE todo' = todo
    BY <2>1
  <2>2. CASE ~(step < Len(D)) /\ todo' = Tail(todo)
    <3>1. step = Len(D)
      BY <1>2, <2>2
    <3>2. h.name \in cancelled \/ Topology(h) \subseteq broker'
      BY <1>4, <1>6, <3>1
    <3>3. ASSUME NEW q, q = h PROVE Whole(q)'
      BY <1>1, <3>2, <3>3 DEF Whole
    <3> QED
      BY <1>2, <2>2, <3>3
  <2> QED
    BY <1>1, <2>1, <2>2
<1>14. Present'
  BY <1>1, <1>7, <1>12, <1>13 DEF Present
<1>15. Known' \subseteq Known \cup {h}
  BY <1>1, <1>2, <1>7 DEF Known
<1>16. Agreed'
  <2>1. \A q \in Known' : validate(q)
    BY <1>1, <1>15 DEF Agreed
  <2>2. ASSUME deletions = 0, holder = "declare"
        PROVE  \A q \in Known' : Topology(q) \subseteq broker'
    <3>1. cancelled' = {}
      BY <1>1, <2>2 DEF Consumers
    <3> QED
      BY <1>1, <1>14, <2>2, <3>1 DEF Present, Known, Whole
  <2>3. ASSUME deletions = 0, holder = "declare"
        PROVE  Compatible(broker' \cup UNION {Topology(q) : q \in Known'})
    <3>1. broker' \cup UNION {Topology(q) : q \in Known'} = broker'
      BY <2>2, <2>3
    <3> QED
      BY <1>1, <3>1
  <2>4. ASSUME deletions = 0, holder = "replay"
        PROVE  /\ Compatible(broker' \cup UNION {Topology(q) : q \in Known'})
               /\ \A q \in Known' : q.life = "durable" => Topology(q) \subseteq broker'
    <3>1. batch = <<>> /\ ToSet(batch) = {}
      BY <2>4, EmptyToSet DEF Working
    <3>2. Known' = Declared /\ Known = Declared
      BY <1>7, <3>1 DEF Known
    <3>3. h \in Known
      BY <1>2, <2>4, <3>2 DEF Working
    <3>4. broker' \cup UNION {Topology(q) : q \in Known'} = broker \cup UNION {Topology(q) : q \in Known}
      BY <1>1, <1>3, <3>2, <3>3
    <3>5. Compatible(broker' \cup UNION {Topology(q) : q \in Known'})
      BY <2>4, <3>4 DEF Agreed
    <3> QED
      BY <1>1, <2>4, <3>2, <3>5 DEF Agreed
  <2> QED
    BY <1>1, <2>1, <2>2, <2>3, <2>4 DEF Agreed, Compatible
<1>17. DeadLetterReady'
  <2> SUFFICES ASSUME NEW q \in Configs, ToSet(Itself(q)) \subseteq broker'
               PROVE  ToSet(DeadLetters(q)) \subseteq broker'
    BY DEF DeadLetterReady
  <2>1. CASE ToSet(Itself(q)) \subseteq broker
    BY <1>1, <2>1 DEF DeadLetterReady
  <2>2. CASE ~(ToSet(Itself(q)) \subseteq broker)
    <3> DEFINE i == Declaration(q, "queue", QueueArgs(q))
    <3>1. ToSet(Itself(q)) = {i}
      BY TopologyParts
    <3>2. i.kind = "queue"
      BY DEF Declaration
    <3> HIDE DEF i
    <3>3. D[step] = i
      BY <1>1, <2>2, <3>1
    <3>4. ToSet(Itself(q)) \subseteq Topology(h)
      BY <1>3, <3>1, <3>3
    <3>5. ToSet(DeadLetters(q)) = ToSet(DeadLetters(h))
      BY <1>2, <3>4, SameDeadLetters
    <3>6. ASSUME NEW d \in ToSet(DeadLetters(h)) PROVE d \in broker
      <4>1. d.kind \in Permanent /\ \E j \in 1..(step - 1) : D[j] = d
        BY <1>2, <3>2, <3>3, DeadLettersFirst
      <4> QED
        BY <1>5, <4>1
    <3> QED
      BY <1>1, <3>5, <3>6
  <2> QED
    BY <2>1, <2>2
<1>18. ReplayAccepted'
  BY <1>1 DEF ReplayAccepted
<1> QED
  BY <1>8, <1>9, <1>10, <1>11, <1>14, <1>16, <1>17, <1>18
-----------------------------------------------------------------------------
(* The theorems.                                                           *)

\* Of what an earlier process has left every queue is complete.
LEMMA InitEstablishes ==
  ASSUME Init
  PROVE  IInv
<1> PICK C \in SUBSET {q \in Configs : q.life = "durable" /\ validate(q)} :
            broker = UNION {Topology(q) : q \in C} /\ Compatible(broker)
  BY DEF Init
<1>1. /\ link = "up" /\ holder = "none" /\ batch = <<>> /\ todo = <<>> /\ step = 1
      /\ left = {} /\ declaredQueues = <<>> /\ queues = {} /\ consuming = {} /\ cancelled = {}
      /\ refused = FALSE /\ deletions = 0 /\ calls = 0 /\ faults = 0
  BY DEF Init
<1>2. Declared = {} /\ ToSet(batch) = {} /\ ToSet(todo) = {} /\ Known = {}
  BY <1>1, EmptyToSet DEF Declared, Known
<1>3. Typed
  BY <1>1, TopologyAssumption DEF Typed
<1>4. Working /\ Consumers /\ Begun /\ Present /\ Restarted
  BY <1>1, <1>2 DEF Working, Consumers, Begun, Present, Restarted
<1>5. Agreed /\ ReplayAccepted
  BY <1>1, <1>2 DEF Agreed, ReplayAccepted, Compatible
<1>6. DeadLetterReady
  <2> SUFFICES ASSUME NEW q \in Configs, ToSet(Itself(q)) \subseteq broker
               PROVE  ToSet(DeadLetters(q)) \subseteq broker
    BY DEF DeadLetterReady
  <2> DEFINE i == Declaration(q, "queue", QueueArgs(q))
  <2>1. ToSet(Itself(q)) = {i}
    BY TopologyParts
  <2> HIDE DEF i
  <2>2. PICK r \in C : i \in Topology(r)
    BY <2>1
  <2>3. ToSet(DeadLetters(q)) = ToSet(DeadLetters(r))
    BY <2>1, <2>2, SameDeadLetters
  <2>4. ToSet(DeadLetters(r)) \subseteq Topology(r)
    BY TopologyParts, Zenon
  <2> QED
    BY <2>3, <2>4
<1> QED
  BY <1>3, <1>4, <1>5, <1>6 DEF IInv

\* Every step preserves the inductive invariant.
LEMMA StepPreserves ==
  ASSUME IInv, [Next]_vars
  PROVE  IInv'
<1>1. ASSUME NEW b \in Batches, DeclareQueues(b) PROVE IInv'
  BY <1>1, DeclareQueuesStep
<1>2. ASSUME NEW n \in Names, Start(n) \/ Consume(n) PROVE IInv'
  BY <1>2, ConsumerStep
<1>3. ASSUME NEW n \in Names, QueueDeleted(n) PROVE IInv'
  BY <1>3, QueueDeletedStep
<1>4. CASE Declare
  BY <1>4, DeclareStepKeeps
<1>5. CASE ConnectionLost \/ BrokerRestarts \/ DeclarationRefused
  BY <1>5, FailureStep
<1>6. CASE DeclareFails
  BY <1>6, DeclareFailsStep
<1>7. CASE DeclareSucceeds
  BY <1>7, DeclareSucceedsStep
<1>8. CASE Redial
  BY <1>8, RedialStep
<1>9. CASE ReplayDone \/ ReconnectDone
  BY <1>9, ReconnectStepKeeps
<1>10. CASE UNCHANGED vars
  <2>1. Declared' = Declared /\ Known' = Known
    BY <1>10 DEF Declared, Known, vars, sdk
  <2>2. Typed' /\ Working'
    BY <1>10, <2>1 DEF IInv, Typed, Working, Compatible, vars, sdk, bounds
  <2>3. Consumers' /\ Begun' /\ Restarted'
    BY <1>10 DEF IInv, Consumers, Begun, Restarted, Queue, vars, sdk, bounds
  <2>4. Present'
    BY <1>10, <2>1 DEF IInv, Present, Whole, vars, sdk
  <2>5. Agreed' /\ DeadLetterReady' /\ ReplayAccepted'
    BY <1>10, <2>1 DEF IInv, Agreed, DeadLetterReady, ReplayAccepted, Compatible, vars, sdk, bounds
  <2> QED
    BY <2>2, <2>3, <2>4, <2>5 DEF IInv
<1> QED
  BY <1>1, <1>2, <1>3, <1>4, <1>5, <1>6, <1>7, <1>8, <1>9, <1>10 DEF Next, DeclareStep, ReconnectStep

\* The inductive invariant holds throughout.
LEMMA Invariance == Spec => []IInv
<1>1. Init => IInv
  BY InitEstablishes
<1>2. IInv /\ [Next]_vars => IInv'
  BY StepPreserves
<1> QED
  BY <1>1, <1>2, PTL DEF Spec

\* Every value has its type, consumers are on queues that exist, and
\* declareQueuesLocked has a declaration to make next.
THEOREM TypeCorrect == Spec => []TypeOK
<1>1. Init => refused \in BOOLEAN
  BY Zenon DEF Init
<1>2. refused \in BOOLEAN /\ [Next]_vars => (refused \in BOOLEAN)'
  <2> SUFFICES ASSUME refused \in BOOLEAN, [Next]_vars
               PROVE  refused' \in BOOLEAN
    OBVIOUS
  <2>1. CASE DeclarationRefused
    BY <2>1, Zenon DEF DeclarationRefused
  <2>2. ASSUME ~DeclarationRefused PROVE refused' = refused
    BY <2>2 DEF Next, DeclareStep, ReconnectStep, DeclareQueues, Called, Start, QueueDeleted, Declare,
                DeclareFails, Abandoned, DeclareSucceeds, Redial, RedialBy, ReplayDone, ReconnectDone,
                InService, Consume, ConnectionLost, BrokerRestarts, vars
  <2> QED
    BY <2>1, <2>2
<1>3. IInv /\ refused \in BOOLEAN => TypeOK
  BY DEF IInv, Typed, Consumers, TypeOK
<1> QED
  BY <1>1, <1>2, <1>3, Invariance, PTL DEF Spec

\* A queue with a dead-letter exchange never exists on the broker without the
\* exchange, its DLQ and the binding, at whatever declaration declareQueuesLocked
\* is interrupted and whatever goes with the connection.
THEOREM DeadLettersAreReady == Spec => []DeadLetterReady
<1>1. IInv => DeadLetterReady
  BY DEF IInv
<1> QED
  BY <1>1, Invariance, PTL

\* The durable topology of every call of DeclareQueues that returned nil is
\* complete at every moment, unless somebody else deletes queues.
THEOREM DurableIsKept == Spec => []Kept
<1>1. IInv => Kept
  BY DEF IInv, Agreed, Known, Kept
<1> QED
  BY <1>1, Invariance, PTL

\* A connection that reconnect has handed back has the whole topology and a
\* consumer for every started queue, except for what was deleted since.
THEOREM ServiceIsComplete == Spec => []Complete
<1>1. IInv => Complete
  BY DEF IInv, Present, Restarted, Whole, Complete
<1> QED
  BY <1>1, Invariance, PTL

\* The broker refuses no declaration of a replay as different, unless somebody
\* else deleted a queue: DeclareQueues stores what it has declared, and only that.
THEOREM ReplaysAreAccepted == Spec => []ReplayAccepted
<1>1. IInv => ReplayAccepted
  BY DEF IInv
<1> QED
  BY <1>1, Invariance, PTL

\* The delay that the broker applies to an accepted queue is the one configured,
\* to the millisecond, and at least one if that is what was configured:
\* x-message-ttl is an int32, and validate keeps it from wrapping.
THEOREM DelaysAreKept == Spec => []DelayKept
<1>1. IInv => DelayKept
  <2> SUFFICES ASSUME IInv, deletions = 0, NEW q \in Declared, q.delay >= TicksPerMilli,
                      NEW d \in broker, d.kind = "delay", d.name = q.name
               PROVE  /\ d.args[2] \in 1..(Half - 1)
                      /\ d.args[2] * TicksPerMilli \in (q.delay - TicksPerMilli + 1)..q.delay
    BY DEF DelayKept, TTL
  <2> DEFINE ms == int32(Milliseconds(q.delay))
             e == Declaration(q, "delay", DelayArgs(q))
  <2>1. q \in Known /\ q \in Configs /\ validate(q)
    BY DEF IInv, Typed, Agreed, Known, Declared, ToSet
  <2>2. e \in Topology(q)
    <3>1. q.delay # 0
      BY <2>1, TopologyAssumption
    <3> QED
      BY <3>1, TopologyParts, Zenon
  <2>3. e.kind = "delay" /\ e.name = q.name /\ e.args[2] = ms
    BY DEF Declaration, DelayArgs
  <2>4. ms \in 1..(Half - 1) /\ ms * TicksPerMilli \in (q.delay - TicksPerMilli + 1)..q.delay
    BY <2>1, DelayConversion
  <2> HIDE DEF ms, e
  <2>5. d = e
    BY <2>1, <2>2, <2>3 DEF IInv, Agreed, Compatible
  <2>6. d.args[2] = ms
    BY <2>3, <2>5
  <2> QED
    BY <2>4, <2>6
<1> QED
  BY <1>1, Invariance, PTL
=============================================================================
