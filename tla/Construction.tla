---------------------------- MODULE Construction ----------------------------
(***************************************************************************)
(* NewSDK called by several goroutines of one process: what it acquires    *)
(* step by step, what it releases when a later step fails, and the         *)
(* registration of its metrics (newPrometheusMetrics), with a rollback, in *)
(* a registry that all of them and the application share.                  *)
(*                                                                         *)
(* The registry knows a collector by its full name, the namespace and the  *)
(* name of the metric.  It refuses a descriptor that is not valid, a name  *)
(* that is taken, and a name with other labels than it was registered with *)
(* before, even if it was unregistered since.  Shutdown closes what NewSDK *)
(* opened and leaves the metrics registered.                               *)
(***************************************************************************)
EXTENDS Naturals, Sequences, FiniteSets

CONSTANTS
    SDKs,           \* calls of NewSDK
    Namespaces,     \* values of cfg.MetricsNamespace
    Collectors,     \* the names of the metrics, in the order of registration;
                    \* all but the last, reconnects, have labels
    LabelNames,     \* values of cfg.MetricLabelName
    Invalid,        \* those with which no descriptor is valid, as "queue_name"
    Application,    \* the owner of the application's own collectors
    Nobody

ASSUME ConstructionAssumption ==
    /\ Collectors \in Seq({Collectors[i] : i \in 1..Len(Collectors)}) \ {<<>>}
    /\ \A i, j \in 1..Len(Collectors) : Collectors[i] = Collectors[j] => i = j
    /\ Application \notin SDKs /\ Nobody \notin SDKs /\ Application # Nobody

\* What a full name may be registered with; reconnects has no labels.
Dimensions == LabelNames \cup {"no labels", Application}

ASSUME LabelAssumption ==
    /\ Len(Collectors) > 1 /\ Invalid \subseteq LabelNames
    /\ Application \notin LabelNames \cup {"no labels"} /\ Nobody \notin Dimensions

FullNames == Namespaces \X {Collectors[i] : i \in 1..Len(Collectors)}

VARIABLES
    namespace,      \* cfg.MetricsNamespace of each call
    metrics,        \* cfg.EnableMetrics
    labelName,      \* cfg.MetricLabelName
    pc,             \* where each call is
    held,           \* what it has acquired
    registered,     \* the local variable of newPrometheusMetrics
    registry,       \* the owner of each full name
    dims            \* the labels each full name was first registered with

config == <<namespace, metrics, labelName>>
names  == <<registry, dims>>
vars   == <<config, pc, held, registered, names>>

\* The application may have registered a collector of its own with a name of the
\* SDK's, and may have unregistered it again.
Init ==
    /\ namespace \in [SDKs -> Namespaces]
    /\ metrics \in [SDKs -> BOOLEAN] /\ labelName \in [SDKs -> LabelNames]
    /\ pc = [s \in SDKs |-> "validate"]
    /\ held = [s \in SDKs |-> {}]
    /\ registered = [s \in SDKs |-> <<>>]
    /\ \E known \in SUBSET FullNames : \E taken \in SUBSET known :
          /\ Cardinality(known) <= 1
          /\ dims = [n \in FullNames |-> IF n \in known THEN Application ELSE Nobody]
          /\ registry = [n \in FullNames |-> IF n \in taken THEN Application ELSE Nobody]

Goto(s, l) == pc' = [pc EXCEPT ![s] = l]

\* A step acquires r and goes on, or fails and releases R.
Acquire(s, r, l) == held' = [held EXCEPT ![s] = @ \cup {r}] /\ Goto(s, l)
FailReleasing(s, R) == held' = [held EXCEPT ![s] = @ \ R] /\ Goto(s, "failed")

-----------------------------------------------------------------------------
(* The steps of NewSDK, each with its error path.                          *)

\* The checks of the configuration, any of which may fail, and context.WithCancel.
Validate(s) ==
    /\ pc[s] = "validate"
    /\ FailReleasing(s, {}) \/ Acquire(s, "context", "dial")
    /\ UNCHANGED <<config, registered, names>>

Dial(s) ==
    /\ pc[s] = "dial"
    /\ FailReleasing(s, {"context"}) \/ Acquire(s, "connection", "channel")
    /\ UNCHANGED <<config, registered, names>>

OpenChannel(s) ==
    /\ pc[s] = "channel"
    /\ FailReleasing(s, {"context", "connection"}) \/ Acquire(s, "channel", "pool")
    /\ UNCHANGED <<config, registered, names>>

\* Mutated form of NewPool: the connection is not closed.
NewPoolForgets(s) ==
    /\ pc[s] = "pool"
    /\ FailReleasing(s, {"context", "channel"})
    /\ UNCHANGED <<config, registered, names>>

\* newPublisherChannelPool; it closes the channels it has opened when it fails.
NewPool(s) ==
    /\ pc[s] = "pool"
    /\ \/ FailReleasing(s, {"context", "channel", "connection"})
       \/ Acquire(s, "pool", IF metrics[s] THEN "register" ELSE "monitor")
    /\ UNCHANGED <<config, registered, names>>

-----------------------------------------------------------------------------
(* newPrometheusMetrics.                                                   *)

Name(s, i) == <<namespace[s], Collectors[i]>>

\* The labels of collector number i.
Dims(s, i) == IF i = Len(Collectors) THEN "no labels" ELSE labelName[s]

\* The registry accepts collector number i.
Accepts(s, i) ==
    /\ i = Len(Collectors) \/ labelName[s] \notin Invalid
    /\ registry[Name(s, i)] = Nobody
    /\ dims[Name(s, i)] \in {Nobody, Dims(s, i)}

\* Register of collector number i.
RegisterThe(s, i) ==
    /\ pc[s] = "register" /\ i \in 1..Len(Collectors)
    /\ \/ /\ Accepts(s, i)
          /\ registry' = [registry EXCEPT ![Name(s, i)] = s]
          /\ dims' = [dims EXCEPT ![Name(s, i)] = Dims(s, i)]
          /\ registered' = [registered EXCEPT ![s] = Append(@, i)]
          /\ Goto(s, IF Len(registered[s]) + 1 = Len(Collectors) THEN "monitor" ELSE "register")
       \/ /\ ~Accepts(s, i)
          /\ Goto(s, "rollback")
          /\ UNCHANGED <<registered, names>>
    /\ UNCHANGED <<config, held>>

\* Mutated form of Register: the collectors come in no fixed order.
RegisterAnyOrder(s) ==
    \E i \in 1..Len(Collectors) :
        (\A j \in 1..Len(registered[s]) : registered[s][j] # i) /\ RegisterThe(s, i)

\* The next collector, in the order of the slice.
Register(s) == RegisterThe(s, Len(registered[s]) + 1)

\* Mutated form of Unregister: all names are unregistered, whoever registered them.
UnregisterAll(s) ==
    /\ pc[s] = "rollback"
    /\ registry' = [n \in FullNames |-> IF n[1] = namespace[s] THEN Nobody ELSE registry[n]]
    /\ registered' = [registered EXCEPT ![s] = <<>>]
    /\ UNCHANGED <<config, pc, held, dims>>

\* Unregister of the collectors registered so far, one by one; the registry goes
\* by the name, and remembers its labels.
Unregister(s) ==
    /\ pc[s] = "rollback" /\ registered[s] # <<>>
    /\ registry' = [registry EXCEPT ![Name(s, Head(registered[s]))] = Nobody]
    /\ registered' = [registered EXCEPT ![s] = Tail(@)]
    /\ UNCHANGED <<config, pc, held, dims>>

\* NewSDK returns the error of newPrometheusMetrics.
MetricsFail(s) ==
    /\ pc[s] = "rollback" /\ registered[s] = <<>>
    /\ FailReleasing(s, {"context", "pool", "channel", "connection"})
    /\ UNCHANGED <<config, registered, names>>

\* The monitor is started and NewSDK returns the SDK.
StartMonitor(s) ==
    /\ pc[s] = "monitor"
    /\ Acquire(s, "monitor", "serving")
    /\ UNCHANGED <<config, registered, names>>

\* Shutdown, as a whole: Connection has its steps.
Shutdown(s) ==
    /\ pc[s] = "serving"
    /\ held' = [held EXCEPT ![s] = {}]
    /\ Goto(s, "down")
    /\ UNCHANGED <<config, registered, names>>

-----------------------------------------------------------------------------

NewSDK(s) ==
    \/ Validate(s) \/ Dial(s) \/ OpenChannel(s) \/ NewPool(s)
    \/ Register(s) \/ Unregister(s) \/ MetricsFail(s) \/ StartMonitor(s)

Next == \E s \in SDKs : NewSDK(s) \/ Shutdown(s)

Spec == Init /\ [][Next]_vars

-----------------------------------------------------------------------------
(* Properties                                                              *)

Resources == {"context", "connection", "channel", "pool", "monitor"}

\* What a call holds at each label.
Holding(l) ==
    CASE l \in {"validate", "down"} -> {}
      [] l = "dial" -> {"context"}
      [] l = "channel" -> {"context", "connection"}
      [] l = "pool" -> {"context", "connection", "channel"}
      [] l \in {"register", "rollback", "monitor"} -> Resources \ {"monitor"}
      [] l = "serving" -> Resources

Owned(s) == {n \in FullNames : registry[n] = s}

\* The type invariant; no resource is acquired twice or dropped on the way.
TypeOK ==
    /\ namespace \in [SDKs -> Namespaces] /\ metrics \in [SDKs -> BOOLEAN]
    /\ labelName \in [SDKs -> LabelNames]
    /\ pc \in [SDKs -> {"validate", "dial", "channel", "pool", "register", "rollback",
                        "monitor", "failed", "serving", "down"}]
    /\ held \in [SDKs -> SUBSET Resources]
    /\ \A s \in SDKs : pc[s] # "failed" => held[s] = Holding(pc[s])
    /\ registered \in [SDKs -> Seq(1..Len(Collectors))]
    /\ registry \in [FullNames -> SDKs \cup {Application, Nobody}]
    /\ dims \in [FullNames -> Dimensions \cup {Nobody}]

\* A call of NewSDK that returns an error leaves nothing behind, wherever it
\* failed: no context, socket, channel or pool, and no collector in the registry.
FailedLeavesNothing == \A s \in SDKs : pc[s] = "failed" => held[s] = {} /\ Owned(s) = {}

\* An SDK in service with metrics has every one of its collectors in the registry:
\* the rollback of another call, which goes by name, never takes one away.
ServingIsWhole ==
    \A s \in SDKs : pc[s] = "serving" =>
        Cardinality(Owned(s)) = IF metrics[s] THEN Len(Collectors) ELSE 0

\* README: NewSDK returns an error "if metric registration fails, including when
\* another SDK has already registered the same namespace in the same registry".
\* With a label Prometheus accepts and names the application has never used it
\* fails for no other reason: some call for the namespace has registered and is
\* not rolled back.  Calls that race for a namespace do not all lose it, because
\* they register in the same order, and what one of them leaves behind in the
\* registry does not shut out the others.
SomebodyWins ==
    \A s \in SDKs : pc[s] = "rollback" =>
        \/ labelName[s] \in Invalid
        \/ \E n \in FullNames : n[1] = namespace[s] /\ dims[n] = Application
        \/ \E t \in SDKs : namespace[t] = namespace[s] /\ registered[t] # <<>> /\ pc[t] # "rollback"

=============================================================================
