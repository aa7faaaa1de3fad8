------------------------- MODULE ConstructionProofs -------------------------
(***************************************************************************)
(* NewSDK releases what it acquired, registers all or nothing, and fails   *)
(* for its metrics only with a reason: for any number of concurrent calls, *)
(* any namespaces, labels and collectors.                                  *)
(***************************************************************************)
EXTENDS Construction, FiniteSetTheorems, TLAPS

USE DEF config, names

-----------------------------------------------------------------------------
(* The inductive invariant.                                                *)

N == Len(Collectors)
Labels == {"validate", "dial", "channel", "pool", "register", "rollback", "monitor",
           "failed", "serving", "down"}

\* Where a call is, how much it has registered: nothing before newPrometheusMetrics
\* and after a failure, a beginning of the slice while it registers, all of it
\* afterwards.  Only a call that failed is rolled back.
Progress ==
    \A s \in SDKs :
        /\ pc[s] \in {"validate", "dial", "channel", "pool", "failed"} => registered[s] = <<>>
        /\ pc[s] = "failed" => held[s] = {}
        /\ pc[s] = "register" => metrics[s] /\ Len(registered[s]) < N
        /\ pc[s] \in {"monitor", "serving"} =>
              Len(registered[s]) = IF metrics[s] THEN N ELSE 0
        /\ pc[s] # "rollback" => \A i \in 1..Len(registered[s]) : registered[s][i] = i

\* No collector is registered twice, and the registry agrees with the list of the
\* call: it names the call as owner of exactly the collectors on its list.
Ownership ==
    /\ \A s \in SDKs : \A i, j \in 1..Len(registered[s]) :
          registered[s][i] = registered[s][j] => i = j
    /\ \A s \in SDKs : \A i \in 1..Len(registered[s]) : registry[Name(s, registered[s][i])] = s
    /\ \A s \in SDKs : \A n \in FullNames :
          registry[n] = s => \E i \in 1..Len(registered[s]) : n = Name(s, registered[s][i])

IInv == TypeOK /\ Progress /\ Ownership

-----------------------------------------------------------------------------
(* Facts about names.                                                      *)

\* The collectors have different names, so a call's full names are different.
LEMMA NamesDiffer ==
    /\ N \in Nat \ {0}
    /\ \A s \in SDKs : \A i, j \in 1..N : Name(s, i) = Name(s, j) => i = j
    /\ TypeOK => \A s \in SDKs : \A i \in 1..N : Name(s, i) \in FullNames
<1>1. N \in Nat \ {0}
    BY ConstructionAssumption DEF N
<1>2. \A s \in SDKs : \A i, j \in 1..N : Name(s, i) = Name(s, j) => i = j
    BY <1>1, ConstructionAssumption DEF N, Name
<1>3. TypeOK => \A s \in SDKs : \A i \in 1..N : Name(s, i) \in FullNames
    BY <1>1, ConstructionAssumption DEF N, Name, FullNames, TypeOK
<1> QED
    BY <1>1, <1>2, <1>3

-----------------------------------------------------------------------------
(* The invariant holds.                                                    *)

\* Nothing is acquired or registered in the beginning.
LEMMA Initially == Init => IInv
<1> SUFFICES ASSUME Init PROVE IInv
    OBVIOUS
<1>1. TypeOK
  <2>1. dims \in [FullNames -> Dimensions \cup {Nobody}]
    BY DEF Init, Dimensions
  <2> QED
    BY <2>1, NamesDiffer DEF Init, TypeOK, Holding, N
<1>2. Progress
    BY DEF Init, Progress
<1>3. Ownership
    BY ConstructionAssumption DEF Init, Ownership
<1> QED
    BY <1>1, <1>2, <1>3 DEF IInv

\* A step that neither registers nor unregisters moves one call to another label,
\* where it holds what it has to and has registered what it should.
LEMMA Moves ==
    ASSUME IInv, NEW s \in SDKs, NEW l \in Labels, NEW H \in SUBSET Resources,
           pc' = [pc EXCEPT ![s] = l], held' = [held EXCEPT ![s] = H],
           UNCHANGED <<config, registered, names>>,
           H = IF l = "failed" THEN {} ELSE Holding(l),
           l \in {"validate", "dial", "channel", "pool", "failed"} \/ pc[s] = "rollback"
               => registered[s] = <<>>,
           l = "register" => metrics[s] /\ Len(registered[s]) < N,
           l \in {"monitor", "serving"} => Len(registered[s]) = IF metrics[s] THEN N ELSE 0
    PROVE  IInv'
<1>1. TypeOK'
  <2>1. pc' \in [SDKs -> Labels] /\ held' \in [SDKs -> SUBSET Resources]
    BY DEF IInv, TypeOK, Labels
  <2>2. ASSUME NEW t \in SDKs, pc'[t] # "failed" PROVE held'[t] = Holding(pc'[t])
    <3>1. CASE t = s
        BY <2>2, <3>1 DEF IInv, TypeOK
    <3>2. CASE t # s
        BY <2>2, <3>2 DEF IInv, TypeOK
    <3> QED
        BY <3>1, <3>2
  <2> QED
    BY <2>1, <2>2 DEF IInv, TypeOK, Labels
<1>2. Progress'
  <2> SUFFICES ASSUME NEW t \in SDKs
               PROVE  /\ pc'[t] \in {"validate", "dial", "channel", "pool", "failed"} => registered[t] = <<>>
                      /\ pc'[t] = "failed" => held'[t] = {}
                      /\ pc'[t] = "register" => metrics[t] /\ Len(registered[t]) < N
                      /\ pc'[t] \in {"monitor", "serving"} => Len(registered[t]) = IF metrics[t] THEN N ELSE 0
                      /\ pc'[t] # "rollback" => \A i \in 1..Len(registered[t]) : registered[t][i] = i
    BY DEF Progress
  <2>1. CASE t # s
    BY <2>1 DEF IInv, TypeOK, Progress
  <2>2. CASE t = s
    <3>1. pc'[s] = l /\ held'[s] = H
        BY DEF IInv, TypeOK
    <3>2. \A i \in 1..Len(registered[s]) : registered[s][i] = i
        BY DEF IInv, Progress
    <3> QED
        BY <2>2, <3>1, <3>2
  <2> QED
    BY <2>1, <2>2
<1>3. Ownership'
    BY DEF IInv, Ownership, Name
<1> QED
    BY <1>1, <1>2, <1>3 DEF IInv

\* The steps of NewSDK before and after its metrics, and Shutdown.
LEMMA OtherStep ==
    ASSUME IInv, NEW s \in SDKs,
           Validate(s) \/ Dial(s) \/ OpenChannel(s) \/ NewPool(s)
           \/ MetricsFail(s) \/ StartMonitor(s) \/ Shutdown(s)
    PROVE  IInv'
<1>1. /\ pc[s] # "failed" => held[s] = Holding(pc[s])
      /\ pc[s] \in {"validate", "dial", "channel", "pool", "failed"} => registered[s] = <<>>
      /\ pc[s] = "monitor" => Len(registered[s]) = IF metrics[s] THEN N ELSE 0
      /\ N \in Nat \ {0} /\ Len(<<>>) = 0
    BY NamesDiffer DEF IInv, TypeOK, Progress
<1>2. /\ Holding("validate") = {} /\ Holding("down") = {} /\ Holding("dial") = {"context"}
      /\ Holding("channel") = {"context", "connection"}
      /\ Holding("pool") = {"context", "connection", "channel"}
      /\ \A l \in {"register", "rollback", "monitor"} :
            Holding(l) = {"context", "connection", "channel", "pool"}
      /\ Holding("serving") = {"context", "connection", "channel", "pool", "monitor"}
    BY DEF Holding, Resources
<1>3. ASSUME NEW R, FailReleasing(s, R), held[s] \subseteq R, registered[s] = <<>>,
             UNCHANGED <<config, registered, names>>
      PROVE  IInv'
  <2>1. held' = [held EXCEPT ![s] = {}] /\ pc' = [pc EXCEPT ![s] = "failed"]
    <3>1. held[s] \ R = {}
        BY <1>3
    <3> QED
        BY <1>3, <3>1 DEF FailReleasing, Goto
  <2> QED
    BY <1>3, <2>1, Moves DEF Labels
<1>4. ASSUME NEW r, NEW l \in Labels \ {"failed", "validate", "rollback"}, Acquire(s, r, l),
             held[s] \cup {r} = Holding(l), pc[s] # "rollback",
             UNCHANGED <<config, registered, names>>,
             l \in {"dial", "channel", "pool"} => registered[s] = <<>>,
             l = "register" => metrics[s] /\ Len(registered[s]) < N,
             l \in {"monitor", "serving"} => Len(registered[s]) = IF metrics[s] THEN N ELSE 0
      PROVE  IInv'
  <2>1. held' = [held EXCEPT ![s] = Holding(l)] /\ pc' = [pc EXCEPT ![s] = l]
    BY <1>4 DEF Acquire, Goto
  <2>2. Holding(l) \in SUBSET Resources
    BY <1>2, <1>4 DEF Labels, Resources
  <2> QED
    BY <1>4, <2>1, <2>2, Moves
<1>5. CASE Validate(s)
  <2>1. CASE FailReleasing(s, {})
    BY <1>1, <1>2, <1>3, <1>5, <2>1 DEF Validate
  <2>2. CASE Acquire(s, "context", "dial")
    <3>1. held[s] \cup {"context"} = Holding("dial")
        BY <1>1, <1>2, <1>5 DEF Validate
    <3> QED
        BY <1>1, <1>2, <1>4, <1>5, <2>2, <3>1 DEF Validate, Labels
  <2> QED
    BY <1>5, <2>1, <2>2 DEF Validate
<1>6. CASE Dial(s)
  <2>1. CASE FailReleasing(s, {"context"})
    BY <1>1, <1>2, <1>3, <1>6, <2>1 DEF Dial
  <2>2. CASE Acquire(s, "connection", "channel")
    <3>1. held[s] \cup {"connection"} = Holding("channel")
        BY <1>1, <1>2, <1>6 DEF Dial
    <3> QED
        BY <1>1, <1>2, <1>4, <1>6, <2>2, <3>1 DEF Dial, Labels
  <2> QED
    BY <1>6, <2>1, <2>2 DEF Dial
<1>7. CASE OpenChannel(s)
  <2>1. CASE FailReleasing(s, {"context", "connection"})
    BY <1>1, <1>2, <1>3, <1>7, <2>1 DEF OpenChannel
  <2>2. CASE Acquire(s, "channel", "pool")
    <3>1. held[s] \cup {"channel"} = Holding("pool")
        BY <1>1, <1>2, <1>7 DEF OpenChannel
    <3> QED
        BY <1>1, <1>2, <1>4, <1>7, <2>2, <3>1 DEF OpenChannel, Labels
  <2> QED
    BY <1>7, <2>1, <2>2 DEF OpenChannel
<1>8. CASE NewPool(s)
  <2>1. CASE FailReleasing(s, {"context", "channel", "connection"})
    BY <1>1, <1>2, <1>3, <1>8, <2>1 DEF NewPool
  <2>2. CASE metrics[s] /\ Acquire(s, "pool", "register")
    <3>1. held[s] \cup {"pool"} = Holding("register")
        BY <1>1, <1>2, <1>8 DEF NewPool
    <3> QED
        BY <1>1, <1>2, <1>4, <1>8, <2>2, <3>1 DEF NewPool, Labels
  <2>3. CASE ~metrics[s] /\ Acquire(s, "pool", "monitor")
    <3>1. held[s] \cup {"pool"} = Holding("monitor")
        BY <1>1, <1>2, <1>8 DEF NewPool
    <3> QED
        BY <1>1, <1>2, <1>4, <1>8, <2>3, <3>1 DEF NewPool, Labels
  <2> QED
    BY <1>8, <2>1, <2>2, <2>3 DEF NewPool
<1>9. CASE MetricsFail(s)
    BY <1>1, <1>2, <1>3, <1>9 DEF MetricsFail
<1>10. CASE StartMonitor(s)
  <2>1. held[s] \cup {"monitor"} = Holding("serving")
    BY <1>1, <1>2, <1>10 DEF StartMonitor
  <2> QED
    BY <1>1, <1>4, <1>10, <2>1 DEF StartMonitor, Labels
<1>11. CASE Shutdown(s)
    BY <1>1, <1>2, <1>11, Moves DEF Shutdown, Goto, Labels
<1> QED
    BY <1>5, <1>6, <1>7, <1>8, <1>9, <1>10, <1>11

\* The next collector is registered, or its name is taken.
LEMMA RegisterStep ==
    ASSUME IInv, NEW s \in SDKs, Register(s)
    PROVE  IInv'
<1> DEFINE k == Len(registered[s])
<1>1. /\ registered[s] \in Seq(1..N) /\ k \in Nat /\ k < N /\ pc[s] = "register" /\ metrics[s]
      /\ \A i \in 1..k : registered[s][i] = i
  <2>1. pc[s] = "register"
    BY DEF Register, RegisterThe
  <2>2. metrics[s] /\ k < N /\ \A i \in 1..k : registered[s][i] = i
    BY <2>1 DEF IInv, Progress
  <2>3. registered[s] \in Seq(1..N) /\ k \in Nat
    BY DEF IInv, TypeOK, N
  <2> QED
    BY <2>1, <2>2, <2>3
<1>2. k + 1 \in 1..N /\ Name(s, k + 1) \in FullNames
    BY <1>1, NamesDiffer DEF IInv
<1>3. CASE /\ ~Accepts(s, k + 1) /\ Goto(s, "rollback")
           /\ UNCHANGED <<config, held, registered, names>>
  <2>1. TypeOK'
    BY <1>1, <1>3 DEF IInv, TypeOK, Holding, Goto
  <2>2. Progress'
    BY <1>1, <1>3 DEF IInv, TypeOK, Progress, Goto
  <2>3. Ownership'
    BY <1>3 DEF IInv, Ownership, Name
    <2> QED
    BY <2>1, <2>2, <2>3 DEF IInv
<1>4. CASE /\ Accepts(s, k + 1)
           /\ registry' = [registry EXCEPT ![Name(s, k + 1)] = s]
           /\ dims' = [dims EXCEPT ![Name(s, k + 1)] = Dims(s, k + 1)]
           /\ registered' = [registered EXCEPT ![s] = Append(@, k + 1)]
           /\ Goto(s, IF k + 1 = N THEN "monitor" ELSE "register")
           /\ UNCHANGED <<config, held>>
  <2>1. /\ registered'[s] \in Seq(1..N) /\ Len(registered'[s]) = k + 1
        /\ \A i \in 1..(k + 1) : registered'[s][i] = i
        /\ \A t \in SDKs : t # s => registered'[t] = registered[t]
    BY <1>1, <1>2, <1>4 DEF IInv, TypeOK
  <2>2. TypeOK'
    <3>1. dims' \in [FullNames -> Dimensions \cup {Nobody}]
        BY <1>2, <1>4 DEF IInv, TypeOK, Dims, Dimensions
    <3> QED
        BY <1>1, <1>2, <1>4, <2>1, <3>1 DEF IInv, TypeOK, Holding, Goto, N
  <2>3. Progress'
    BY <1>1, <1>4, <2>1, <2>2, NamesDiffer DEF IInv, TypeOK, Progress, Goto
  <2>4. Ownership'
    <3>1. ASSUME NEW t \in SDKs, NEW i \in 1..Len(registered'[t]), NEW j \in 1..Len(registered'[t]),
                 registered'[t][i] = registered'[t][j]
          PROVE  i = j
        BY <2>1, <3>1 DEF IInv, Ownership
    <3>2. ASSUME NEW t \in SDKs, NEW i \in 1..Len(registered'[t])
          PROVE  (registry[Name(t, registered[t][i])] = t)'
      <4>1. CASE t = s /\ i = k + 1
        BY <1>2, <1>4, <2>1, <4>1 DEF IInv, TypeOK, Name
      <4>2. CASE ~(t = s /\ i = k + 1)
        <5>1. i \in 1..Len(registered[t]) /\ registered'[t][i] = registered[t][i]
            BY <1>1, <2>1, <4>2
        <5>2. registry[Name(t, registered[t][i])] = t
            BY <5>1 DEF IInv, Ownership
        <5>3. Name(t, registered[t][i]) \in FullNames /\ Name(t, registered[t][i]) # Name(s, k + 1)
          <6>1. registered[t][i] \in 1..N
            BY <5>1 DEF IInv, TypeOK, N
          <6>2. registry[Name(t, registered[t][i])] # Nobody
            BY <5>2, ConstructionAssumption
          <6> QED
            BY <1>4, <6>1, <6>2, NamesDiffer DEF IInv, Accepts
        <5> QED
            BY <1>2, <1>4, <5>1, <5>2, <5>3 DEF IInv, TypeOK, Name
      <4> QED
        BY <4>1, <4>2
    <3>3. ASSUME NEW t \in SDKs, NEW n \in FullNames, registry'[n] = t
          PROVE  \E i \in 1..Len(registered'[t]) : n = (Name(t, registered[t][i]))'
      <4>1. CASE n = Name(s, k + 1)
        BY <1>1, <1>2, <1>4, <2>1, <3>3, <4>1 DEF IInv, TypeOK, Name
      <4>2. CASE n # Name(s, k + 1)
        <5>1. registry[n] = t
            BY <1>4, <3>3, <4>2 DEF IInv, TypeOK
        <5>2. PICK i \in 1..Len(registered[t]) : n = Name(t, registered[t][i])
            BY <5>1 DEF IInv, Ownership
        <5>3. i \in 1..Len(registered'[t]) /\ registered'[t][i] = registered[t][i]
            BY <1>1, <2>1, <5>2
        <5> QED
            BY <1>4, <5>2, <5>3 DEF Name
      <4> QED
        BY <4>1, <4>2
    <3> QED
        BY <3>1, <3>2, <3>3 DEF Ownership
    <2> QED
    BY <2>2, <2>3, <2>4 DEF IInv
<1> QED
    BY <1>3, <1>4 DEF Register, RegisterThe, N

\* The rollback takes a name of its own out of the registry.
LEMMA UnregisterStep ==
    ASSUME IInv, NEW s \in SDKs, Unregister(s)
    PROVE  IInv'
<1> DEFINE first == Name(s, Head(registered[s]))
<1>1. /\ registered[s] \in Seq(1..N) \ {<<>>} /\ Head(registered[s]) = registered[s][1]
      /\ Len(registered[s]) \in Nat \ {0} /\ Head(registered[s]) \in 1..N
    BY DEF IInv, TypeOK, Unregister, N
<1>2. first \in FullNames /\ registry[first] = s
    BY <1>1, NamesDiffer DEF IInv, Ownership
<1>3. /\ registered'[s] \in Seq(1..N) /\ Len(registered'[s]) = Len(registered[s]) - 1
      /\ \A i \in 1..Len(registered'[s]) : registered'[s][i] = registered[s][i + 1]
      /\ \A t \in SDKs : t # s => registered'[t] = registered[t]
    BY <1>1 DEF IInv, TypeOK, Unregister
<1>4. TypeOK'
    BY <1>2, <1>3 DEF IInv, TypeOK, Unregister, N, Holding
<1>5. Progress'
    BY <1>3 DEF IInv, TypeOK, Progress, Unregister
<1>6. Ownership'
  <2>1. ASSUME NEW t \in SDKs, NEW i \in 1..Len(registered'[t]), NEW j \in 1..Len(registered'[t]),
               registered'[t][i] = registered'[t][j]
        PROVE  i = j
    <3>1. CASE t # s
        BY <1>3, <2>1, <3>1 DEF IInv, Ownership
    <3>2. CASE t = s
      <4>1. i + 1 \in 1..Len(registered[s]) /\ j + 1 \in 1..Len(registered[s])
        BY <1>1, <1>3, <3>2
      <4>2. registered[s][i + 1] = registered[s][j + 1]
        BY <1>3, <2>1, <3>2
      <4>3. i + 1 = j + 1
        BY <4>1, <4>2 DEF IInv, Ownership
      <4> QED
        BY <1>1, <1>3, <3>2, <4>3
    <3> QED
        BY <3>1, <3>2
  <2>2. ASSUME NEW t \in SDKs, NEW i \in 1..Len(registered'[t])
        PROVE  (registry[Name(t, registered[t][i])] = t)'
    <3>1. PICK j \in 1..Len(registered[t]) :
              registered'[t][i] = registered[t][j] /\ (t = s => j # 1)
      <4>1. CASE t # s
        BY <1>3, <4>1
      <4>2. CASE t = s
        <5>1. i + 1 \in 1..Len(registered[s]) /\ i + 1 # 1
            BY <1>1, <1>3, <4>2
        <5> QED
            BY <1>3, <4>2, <5>1
      <4> QED
        BY <4>1, <4>2
    <3>2. registry[Name(t, registered[t][j])] = t
        BY <3>1 DEF IInv, Ownership
    <3>3. Name(t, registered[t][j]) # first
      <4>1. CASE t # s
        BY <1>2, <3>2, <4>1
      <4>2. CASE t = s
        <5>1. registered[s][j] # registered[s][1]
            BY <1>1, <3>1, <4>2 DEF IInv, Ownership
        <5> QED
            BY <1>1, <3>1, <4>2, <5>1, NamesDiffer DEF IInv, TypeOK, N
      <4> QED
        BY <4>1, <4>2
    <3>4. Name(t, registered[t][j]) \in FullNames
        BY <3>1, NamesDiffer DEF IInv, TypeOK, N
    <3> QED
        BY <1>2, <3>1, <3>2, <3>3, <3>4 DEF IInv, TypeOK, Unregister, Name
  <2>3. ASSUME NEW t \in SDKs, NEW n \in FullNames, registry'[n] = t
        PROVE  \E i \in 1..Len(registered'[t]) : n = (Name(t, registered[t][i]))'
    <3>1. registry[n] = t /\ n # first
        BY <1>2, <2>3, ConstructionAssumption DEF IInv, TypeOK, Unregister
    <3>2. PICK j \in 1..Len(registered[t]) : n = Name(t, registered[t][j])
        BY <3>1 DEF IInv, Ownership
    <3>3. CASE t # s
        BY <1>3, <3>2, <3>3 DEF Unregister, Name
    <3>4. CASE t = s
      <4>1. j # 1
        BY <1>1, <3>1, <3>2, <3>4
      <4>2. j - 1 \in 1..Len(registered'[s]) /\ registered'[s][j - 1] = registered[s][j]
        BY <1>1, <1>3, <3>4, <4>1
      <4> QED
        BY <3>2, <3>4, <4>2 DEF Unregister, Name
    <3> QED
        BY <3>3, <3>4
  <2> QED
    BY <2>1, <2>2, <2>3 DEF Ownership
<1> QED
    BY <1>4, <1>5, <1>6 DEF IInv

\* The inductive invariant holds throughout.
LEMMA IInvHolds == Spec => []IInv
<1>1. IInv /\ UNCHANGED vars => IInv'
    BY DEF IInv, TypeOK, Progress, Ownership, vars, Name
<1>2. IInv /\ [Next]_vars => IInv'
    BY <1>1, OtherStep, RegisterStep, UnregisterStep DEF Next, NewSDK
<1> QED
    BY <1>2, Initially, PTL DEF Spec

-----------------------------------------------------------------------------
(* The properties.                                                         *)

\* A call of NewSDK that returns an error has released everything it acquired and
\* unregistered every collector it registered.
THEOREM FailuresLeaveNothing == Spec => []FailedLeavesNothing
<1>1. IInv => FailedLeavesNothing
    BY DEF IInv, Progress, Ownership, FailedLeavesNothing, Owned
<1> QED
    BY <1>1, IInvHolds, PTL

\* The rollback of another call never takes away a collector of an SDK in service:
\* its metrics are registered completely, and none if it has none.
THEOREM ServingSDKsAreWhole == Spec => []ServingIsWhole
<1>1. ASSUME IInv, NEW s \in SDKs, pc[s] = "serving"
      PROVE  Cardinality(Owned(s)) = IF metrics[s] THEN N ELSE 0
  <2>1. \A i \in 1..Len(registered[s]) : registered[s][i] = i
    BY <1>1 DEF IInv, Progress
  <2>2. CASE ~metrics[s]
    <3>1. Owned(s) = {}
        BY <1>1, <2>2 DEF IInv, Progress, Ownership, Owned
    <3> QED
        BY <2>2, <3>1, FS_EmptySet
  <2>3. CASE metrics[s]
    <3> DEFINE f == [i \in 1..N |-> Name(s, i)]
    <3>1. Len(registered[s]) = N
        BY <1>1, <2>3 DEF IInv, Progress
    <3>2. \A i \in 1..N : registry[Name(s, i)] = s /\ Name(s, i) \in FullNames
        BY <1>1, <2>1, <3>1, NamesDiffer DEF IInv, Ownership
    <3>3. \A n \in Owned(s) : \E i \in 1..N : n = Name(s, i)
        BY <1>1, <2>1, <3>1 DEF IInv, Ownership, Owned
    <3>4. f \in Bijection(1..N, Owned(s))
      <4>1. f \in [1..N -> Owned(s)]
        BY <3>2 DEF Owned
      <4>2. \A i, j \in 1..N : f[i] = f[j] => i = j
        BY NamesDiffer
      <4>3. \A n \in Owned(s) : \E i \in 1..N : f[i] = n
        BY <3>3
      <4> QED
        BY <4>1, <4>2, <4>3 DEF Bijection, Injection, Surjection, IsInjective
    <3>5. IsFiniteSet(1..N) /\ Cardinality(1..N) = N
        BY NamesDiffer, FS_Interval
    <3> QED
        BY <2>3, <3>4, <3>5, FS_Bijection DEF ExistsBijection
  <2> QED
    BY <2>2, <2>3
<1>2. IInv => ServingIsWhole
    BY <1>1 DEF ServingIsWhole, N
<1> QED
    BY <1>2, IInvHolds, PTL

-----------------------------------------------------------------------------
(* Calls that race for a namespace.                                        *)

\* The application has, or had, one of the names of a namespace.
Foreign(ns) == \E n \in FullNames : n[1] = ns /\ dims[n] = Application

\* A call that has registered the first i collectors for a namespace and is not
\* rolled back.
Ahead(t, ns, i) == pc[t] # "rollback" /\ namespace[t] = ns /\ Len(registered[t]) >= i
Winner(ns, i) == \E t \in SDKs : Ahead(t, ns, i)

\* A name that is taken has its labels recorded.
Remembered == \A n \in FullNames : registry[n] # Nobody => dims[n] # Nobody

\* A name that was ever registered by an SDK is covered by somebody who got that
\* far and is not rolled back: who is rolled back was overtaken.
Covered ==
    \A ns \in Namespaces, i \in 1..N :
        dims[<<ns, Collectors[i]>>] # Nobody => Foreign(ns) \/ Winner(ns, i)

\* A call with a label that is not valid registers nothing.
Barred == \A s \in SDKs : labelName[s] \in Invalid => registered[s] = <<>>

\* Who is rolled back has a reason for it.
Overtaken ==
    \A s \in SDKs : pc[s] = "rollback" =>
        labelName[s] \in Invalid \/ Foreign(namespace[s]) \/ Winner(namespace[s], 1)

OInv == Remembered /\ Covered /\ Barred /\ Overtaken

\* In the beginning only the application has registered anything.
LEMMA OInvInitially == Init => OInv
<1> SUFFICES ASSUME Init PROVE OInv
    OBVIOUS
<1>1. Remembered
    BY ConstructionAssumption DEF Init, Remembered
<1>2. Covered
  <2> SUFFICES ASSUME NEW ns \in Namespaces, NEW i \in 1..N, dims[<<ns, Collectors[i]>>] # Nobody
               PROVE  Foreign(ns)
    BY DEF Covered
  <2>1. <<ns, Collectors[i]>> \in FullNames
    BY DEF FullNames, N
  <2> QED
    BY <2>1 DEF Init, Foreign
<1>3. Barred /\ Overtaken
    BY DEF Init, Barred, Overtaken
<1> QED
    BY <1>1, <1>2, <1>3 DEF OInv

\* A step that leaves the registry alone, rolls nobody back and takes nothing off
\* the list of a call that is not rolled back.
LEMMA OtherOvertaken ==
    ASSUME IInv, OInv, NEW s \in SDKs,
           Validate(s) \/ Dial(s) \/ OpenChannel(s) \/ NewPool(s)
           \/ MetricsFail(s) \/ StartMonitor(s) \/ Shutdown(s)
    PROVE  OInv'
<1>1. UNCHANGED <<namespace, labelName, registered, names>>
    BY DEF Validate, Dial, OpenChannel, NewPool, MetricsFail, StartMonitor, Shutdown
<1>2. PICK l : pc' = [pc EXCEPT ![s] = l] /\ l # "rollback"
    BY DEF Validate, Dial, OpenChannel, NewPool, MetricsFail, StartMonitor, Shutdown,
           FailReleasing, Acquire, Goto
<1>3. \A t \in SDKs : pc'[t] = "rollback" => pc[t] = "rollback"
    BY <1>2 DEF IInv, TypeOK
<1>4. ASSUME NEW ns, NEW i PROVE Foreign(ns)' = Foreign(ns) /\ (Winner(ns, i) => Winner(ns, i)')
    BY <1>1, <1>3 DEF Foreign, Winner, Ahead
<1>5. Remembered' /\ Barred'
    BY <1>1 DEF OInv, Remembered, Barred
<1>6. Covered'
    BY <1>1, <1>4 DEF OInv, Covered
<1>7. Overtaken'
    BY <1>1, <1>3, <1>4 DEF OInv, Overtaken
<1> QED
    BY <1>5, <1>6, <1>7 DEF OInv

\* Who is refused a collector with a valid label was overtaken: the labels of the
\* name are recorded, so somebody who is not rolled back has come further.
LEMMA RefusedMeansOvertaken ==
    ASSUME IInv, OInv, NEW s \in SDKs, pc[s] = "register", labelName[s] \notin Invalid,
           ~Accepts(s, Len(registered[s]) + 1)
    PROVE  Foreign(namespace[s]) \/ Winner(namespace[s], Len(registered[s]) + 1)
<1> DEFINE k == Len(registered[s])
           n == Name(s, k + 1)
<1>1. k \in Nat /\ k + 1 \in 1..N /\ namespace[s] \in Namespaces
  <2>1. k \in Nat /\ k < N /\ namespace[s] \in Namespaces
    BY DEF IInv, TypeOK, Progress
  <2> QED
    BY <2>1, NamesDiffer
<1>2. n \in FullNames
    BY <1>1, NamesDiffer DEF IInv
<1>3. dims[n] # Nobody
    BY <1>2 DEF OInv, Remembered, Accepts
<1> QED
    BY <1>1, <1>3 DEF OInv, Covered, Name

\* A call registers one more collector, or is rolled back.
LEMMA RegisterOvertaken ==
    ASSUME IInv, IInv', OInv, NEW s \in SDKs, Register(s)
    PROVE  OInv'
<1> DEFINE k == Len(registered[s])
<1>1. /\ pc[s] = "register" /\ UNCHANGED config /\ k \in Nat /\ k + 1 \in 1..N /\ N \in Nat
      /\ namespace[s] \in Namespaces
  <2>1. pc[s] = "register" /\ UNCHANGED config
    BY DEF Register, RegisterThe
  <2>2. k \in Nat /\ k < N /\ namespace[s] \in Namespaces
    BY <2>1 DEF IInv, TypeOK, Progress
  <2> QED
    BY <2>1, <2>2, NamesDiffer
<1>2. CASE ~Accepts(s, k + 1) /\ pc' = [pc EXCEPT ![s] = "rollback"] /\ UNCHANGED <<registered, names>>
  <2>1. ASSUME NEW ns PROVE Foreign(ns)' = Foreign(ns)
    BY <1>2 DEF Foreign
  <2>2. Remembered' /\ Barred'
    BY <1>1, <1>2 DEF OInv, Remembered, Barred
  <2>3. pc'[s] = "rollback" /\ \A t \in SDKs \ {s} : pc'[t] = pc[t]
    BY <1>2 DEF IInv, TypeOK
  <2>4. \A t \in SDKs : Len(registered[t]) \in Nat
    BY DEF IInv, TypeOK
  <2>5. ASSUME NEW ns, NEW i \in Nat \ {0}, Winner(ns, i) PROVE (Foreign(ns) \/ Winner(ns, i))'
    <3>1. PICK t \in SDKs : Ahead(t, ns, i)
        BY <2>5 DEF Winner
    <3>2. CASE t # s
        BY <1>1, <1>2, <2>3, <3>1, <3>2 DEF Winner, Ahead
    <3>3. CASE t = s
      <4>1. namespace[s] = ns /\ k >= i
        BY <3>1, <3>3 DEF Ahead
      <4>2. labelName[s] \notin Invalid
        <5>1. registered[s] # <<>>
            BY <2>5, <4>1
        <5> QED
            BY <5>1 DEF OInv, Barred
      <4>3. CASE Foreign(ns)
        BY <2>1, <4>3
      <4>4. CASE Winner(ns, k + 1)
        <5>1. PICK u \in SDKs : Ahead(u, ns, k + 1)
            BY <4>4 DEF Winner
        <5>2. u # s /\ Len(registered[u]) >= i
            BY <1>1, <2>4, <4>1, <5>1 DEF Ahead
        <5> QED
            BY <1>1, <1>2, <2>3, <5>1, <5>2 DEF Winner, Ahead
      <4> QED
        BY <1>1, <1>2, <4>1, <4>2, <4>3, <4>4, RefusedMeansOvertaken
    <3> QED
        BY <3>2, <3>3
  <2>6. Covered'
    <3> SUFFICES ASSUME NEW ns \in Namespaces, NEW i \in 1..N, dims[<<ns, Collectors[i]>>] # Nobody
                 PROVE  (Foreign(ns) \/ Winner(ns, i))'
        BY <1>2 DEF Covered
    <3>1. Foreign(ns) \/ Winner(ns, i)
        BY DEF OInv, Covered
    <3> QED
        BY <1>1, <2>1, <2>5, <3>1
  <2>7. Overtaken'
    <3> SUFFICES ASSUME NEW u \in SDKs, pc'[u] = "rollback", labelName[u] \notin Invalid, ~Foreign(namespace[u])
                 PROVE  Winner(namespace[u], 1)'
        BY <1>1, <2>1 DEF Overtaken
    <3>1. Winner(namespace[u], 1)
      <4>1. CASE u # s
        BY <2>3, <4>1 DEF OInv, Overtaken
      <4>2. CASE u = s
        <5>1. PICK t \in SDKs : Ahead(t, namespace[s], k + 1)
            BY <1>1, <1>2, <4>2, RefusedMeansOvertaken DEF Winner
        <5>2. Len(registered[t]) >= 1
            BY <1>1, <2>4, <5>1 DEF Ahead
        <5> QED
            BY <4>2, <5>1, <5>2 DEF Winner, Ahead
      <4> QED
        BY <4>1, <4>2
    <3> QED
        BY <1>1, <2>1, <2>5, <3>1
  <2> QED
    BY <2>2, <2>6, <2>7 DEF OInv
<1>3. CASE /\ Accepts(s, k + 1)
           /\ registry' = [registry EXCEPT ![Name(s, k + 1)] = s]
           /\ dims' = [dims EXCEPT ![Name(s, k + 1)] = Dims(s, k + 1)]
           /\ registered' = [registered EXCEPT ![s] = Append(@, k + 1)]
           /\ pc' = [pc EXCEPT ![s] = IF k + 1 = N THEN "monitor" ELSE "register"]
  <2>1. /\ Len(registered'[s]) = k + 1
        /\ \A t \in SDKs \ {s} : registered'[t] = registered[t] /\ pc'[t] = pc[t]
        /\ pc'[s] # "rollback"
    BY <1>3 DEF IInv, TypeOK
  <2>2. Name(s, k + 1) \in FullNames /\ \A t \in SDKs : Len(registered[t]) \in Nat
    BY <1>1, NamesDiffer DEF IInv, TypeOK
  <2>3. Dims(s, k + 1) \notin {Application, Nobody}
    <3>1. Dims(s, k + 1) \in LabelNames \cup {"no labels"}
        BY DEF IInv, TypeOK, Dims
    <3> QED
        BY <3>1, LabelAssumption DEF Dimensions
  <2>4. Remembered'
    BY <1>3, <2>2, <2>3 DEF IInv, TypeOK, OInv, Remembered
  <2>5. ASSUME NEW ns, Foreign(ns) PROVE Foreign(ns)'
    <3>1. PICK n \in FullNames : n[1] = ns /\ dims[n] = Application
        BY <2>5 DEF Foreign
    <3>2. n # Name(s, k + 1)
        BY <1>3, <2>3, <3>1, ConstructionAssumption DEF Accepts
    <3>3. dims'[n] = Application
        BY <1>3, <3>1, <3>2 DEF IInv, TypeOK
    <3> QED
        BY <3>1, <3>3 DEF Foreign
  <2>6. ASSUME NEW ns, NEW i \in Nat, Winner(ns, i) PROVE Winner(ns, i)'
    <3>1. PICK t \in SDKs : Ahead(t, ns, i)
        BY <2>6 DEF Winner
    <3>2. Len(registered'[t]) >= i
        BY <1>1, <2>1, <2>2, <3>1 DEF Ahead
    <3> QED
        BY <1>1, <2>1, <3>1, <3>2 DEF Winner, Ahead
  <2>7. Barred'
    <3>1. labelName[s] \notin Invalid
      <4>1. k + 1 # N \/ registered[s] # <<>>
        <5>1. registered[s] = <<>> => k = 0
            OBVIOUS
        <5>2. N > 1
            BY LabelAssumption DEF N
        <5> QED
            BY <5>1, <5>2
      <4> QED
        BY <1>3, <4>1 DEF OInv, Barred, Accepts, N
    <3> QED
        BY <1>1, <2>1, <3>1 DEF OInv, Barred
  <2>8. Covered'
    <3> SUFFICES ASSUME NEW ns \in Namespaces, NEW i \in 1..N, dims'[<<ns, Collectors[i]>>] # Nobody
                 PROVE  (Foreign(ns) \/ Winner(ns, i))'
        BY DEF Covered
    <3>1. CASE <<ns, Collectors[i]>> = Name(s, k + 1)
      <4>1. ns = namespace[s] /\ i = k + 1
        BY <1>1, <3>1, ConstructionAssumption DEF Name, N
      <4>2. Ahead(s, ns, i)'
        BY <1>1, <2>1, <4>1 DEF Ahead
      <4> QED
        BY <4>2 DEF Winner
    <3>2. CASE <<ns, Collectors[i]>> # Name(s, k + 1)
      <4>1. <<ns, Collectors[i]>> \in FullNames
        BY DEF FullNames, N
      <4>2. dims[<<ns, Collectors[i]>>] # Nobody
        BY <1>3, <3>2, <4>1 DEF IInv, TypeOK
      <4>3. Foreign(ns) \/ Winner(ns, i)
        BY <4>2 DEF OInv, Covered
      <4> QED
        BY <1>1, <2>5, <2>6, <4>3
    <3> QED
        BY <3>1, <3>2
  <2>9. Overtaken'
    <3> SUFFICES ASSUME NEW u \in SDKs, pc'[u] = "rollback"
                 PROVE  labelName[u] \in Invalid \/ (Foreign(namespace[u]) \/ Winner(namespace[u], 1))'
        BY <1>1 DEF Overtaken
    <3>1. pc[u] = "rollback"
        BY <2>1
    <3> QED
        BY <1>1, <2>5, <2>6, <3>1 DEF OInv, Overtaken
  <2> QED
    BY <2>4, <2>7, <2>8, <2>9 DEF OInv
<1> QED
    BY <1>2, <1>3 DEF Register, RegisterThe, Goto, N

\* The rollback touches no list but its own, and the registry keeps the labels.
LEMMA UnregisterOvertaken ==
    ASSUME IInv, OInv, NEW s \in SDKs, Unregister(s)
    PROVE  OInv'
<1>1. /\ pc[s] = "rollback" /\ UNCHANGED <<config, pc, dims>> /\ registered[s] # <<>>
      /\ \A t \in SDKs \ {s} : registered'[t] = registered[t]
    BY DEF IInv, TypeOK, Unregister
<1>2. ASSUME NEW ns, NEW i PROVE Foreign(ns)' = Foreign(ns) /\ (Winner(ns, i) => Winner(ns, i)')
    BY <1>1 DEF Foreign, Winner, Ahead
<1>3. Remembered'
    BY <1>1 DEF IInv, TypeOK, OInv, Remembered, Unregister
<1>4. Barred'
    BY <1>1 DEF OInv, Barred
<1>5. Covered'
    BY <1>1, <1>2 DEF OInv, Covered
<1>6. Overtaken'
    BY <1>1, <1>2 DEF OInv, Overtaken
<1> QED
    BY <1>3, <1>4, <1>5, <1>6 DEF OInv

\* With a valid label and names the application never used, NewSDK fails for its
\* metrics only when another call for the namespace has registered and is not
\* rolled back: of calls that race for a namespace not all lose it, because
\* newPrometheusMetrics registers in a fixed order.
THEOREM RacesHaveAWinner == Spec => []SomebodyWins
<1>1. IInv /\ IInv' /\ OInv /\ [Next]_vars => OInv'
  <2> SUFFICES ASSUME IInv, IInv', OInv, [Next]_vars PROVE OInv'
    OBVIOUS
  <2>1. CASE UNCHANGED vars
    BY <2>1 DEF vars, OInv, Remembered, Covered, Barred, Overtaken, Foreign, Winner, Ahead
  <2> QED
    BY <2>1, OtherOvertaken, RegisterOvertaken, UnregisterOvertaken DEF Next, NewSDK
<1>2. OInv => SomebodyWins
  <2> SUFFICES ASSUME OInv, NEW s \in SDKs, pc[s] = "rollback", labelName[s] \notin Invalid,
                      ~Foreign(namespace[s])
               PROVE  \E t \in SDKs : namespace[t] = namespace[s] /\ registered[t] # <<>> /\ pc[t] # "rollback"
    BY DEF SomebodyWins, Foreign
  <2>1. PICK t \in SDKs : Ahead(t, namespace[s], 1)
    BY DEF OInv, Overtaken, Winner
  <2> QED
    BY <2>1 DEF Ahead
<1> QED
    BY <1>1, <1>2, OInvInitially, IInvHolds, PTL DEF Spec

=============================================================================
