------------------------------ MODULE Message -------------------------------
(***************************************************************************)
(* A Message from its builder calls to what Publish hands to publishAMQP.  *)
(* The application may keep a Message and publish it again, under another  *)
(* context and after further builder calls; it must not be shared between  *)
(* goroutines.  Durations are in ticks, of which a millisecond has         *)
(* TicksPerMilli; time.Duration counts nanoseconds.                        *)
(***************************************************************************)
EXTENDS Integers

CONSTANTS
    Spans,          \* valid span contexts of the contexts Publish is called with
    NoSpan,         \* a context without one; headers without a trace
    Nil,            \* the nil map of headers of a Message that NewMessage did not make
    Expirations,    \* arguments of WithExpiration
    TicksPerMilli

ASSUME MessageAssumption ==
    /\ NoSpan \notin Spans /\ Nil \notin Spans \cup {NoSpan}
    /\ Expirations \subseteq Int /\ TicksPerMilli \in Nat \ {0}

VARIABLES
    tracing,        \* cfg.EnableTracing
    hook,           \* cfg.InjectHeaders # nil
    body,           \* "none", "bytes" or "json"
    contentType,    \* "", "json", "custom" or "text"
    headers,        \* Nil, or the trace the headers carry
    expiration,
    err,            \* m.err # nil
    wanted,         \* history: the body of the last builder call for it, "unencodable" if it failed
    sent            \* history: what Publish sent last, and under which span

config == <<tracing, hook>>
vars == <<config, body, contentType, headers, expiration, err, wanted, sent>>

\* The header tables: the trace each carries.
Tables == Spans \cup {NoSpan}

\* nr tells a publish from the one before.
NotSent == [body |-> "none", contentType |-> "text", trace |-> NoSpan, span |-> NoSpan, ttl |-> -1, nr |-> 0]

\* NewMessage, or a composite literal.
Init ==
    /\ tracing \in BOOLEAN /\ hook \in BOOLEAN
    /\ body = "none" /\ contentType = "" /\ expiration = 0 /\ err = FALSE
    /\ headers \in {NoSpan, Nil}
    /\ wanted = "none" /\ sent = NotSent

WithBody ==
    /\ body' = "bytes" /\ wanted' = "bytes"
    /\ UNCHANGED <<contentType, headers, expiration, err, sent, config>>

\* Mutated form of WithJSONBody: the error of json.Marshal is dropped.
WithJSONBodyUnchecked ==
    /\ wanted' = "unencodable"
    /\ UNCHANGED <<body, contentType, headers, expiration, err, sent, config>>

\* json.Marshal succeeds or fails; the error stays with the message.
WithJSONBody ==
    /\ \/ body' = "json" /\ contentType' = "json" /\ wanted' = "json" /\ UNCHANGED err
       \/ err' = TRUE /\ wanted' = "unencodable" /\ UNCHANGED <<body, contentType>>
    /\ UNCHANGED <<headers, expiration, sent, config>>

WithHeader ==
    /\ headers' = IF headers = Nil THEN NoSpan ELSE headers
    /\ UNCHANGED <<body, contentType, expiration, err, wanted, sent, config>>

WithContentType ==
    /\ contentType' = "custom"
    /\ UNCHANGED <<body, headers, expiration, err, wanted, sent, config>>

WithExpiration(d) ==
    /\ expiration' = d
    /\ UNCHANGED <<body, contentType, headers, err, wanted, sent, config>>

\* The headers after validate, which also gives a message without a content type
\* the type text/plain.
validate == IF headers = Nil THEN NoSpan ELSE headers

\* The expiration in milliseconds, -1 for the empty string.
formatDurationToExpiration(d) == IF d > 0 THEN d \div TicksPerMilli ELSE -1

\* With tracing, Inject writes a valid span into the message's own headers.
inject(s, h) == IF tracing /\ s # NoSpan THEN s ELSE h

\* What s.injectHeaders may make of the headers: any table, or nil.
injectHeaders(h) == IF hook THEN Tables \cup {Nil} ELSE {h}

\* Publish returns the message's error before it sends anything.
PublishFails == err /\ UNCHANGED vars

Publish(s) ==
    /\ ~err
    /\ headers' = inject(s, validate)
    /\ contentType' = IF contentType = "" THEN "text" ELSE contentType
    /\ \E h \in injectHeaders(headers') :
          sent' = [body |-> body, contentType |-> contentType', span |-> s,
                   trace |-> IF h = Nil THEN NoSpan ELSE h,
                   ttl |-> formatDurationToExpiration(expiration), nr |-> 1 - sent.nr]
    /\ UNCHANGED <<body, expiration, err, wanted, config>>

Next ==
    \/ WithBody \/ WithJSONBody \/ WithHeader \/ WithContentType
    \/ \E d \in Expirations : WithExpiration(d)
    \/ \E s \in Spans \cup {NoSpan} : Publish(s)
    \/ PublishFails

Spec == Init /\ [][Next]_vars

-----------------------------------------------------------------------------
(* Properties                                                              *)

\* The type invariant; what is sent has a header table, into which the
\* propagator and the hooks may write.
TypeOK ==
    /\ tracing \in BOOLEAN /\ hook \in BOOLEAN
    /\ body \in {"none", "bytes", "json"} /\ wanted \in {"none", "bytes", "json", "unencodable"}
    /\ contentType \in {"", "json", "custom", "text"}
    /\ headers \in Tables \cup {Nil}
    /\ expiration \in Expirations \cup {0} /\ err \in BOOLEAN
    /\ sent.trace \in Tables /\ sent.contentType # "" /\ sent.nr \in {0, 1}

\* Whatever order builder calls and publishes come in, a publish sends what the
\* application asked for last: never an earlier body in place of one that could not
\* be encoded; a header table; and an expiration that is not exceeded and less than
\* a millisecond short, where zero and negative durations (a deadline that has
\* passed) mean no expiration.  Unless a hook decides, it carries the span of its
\* own context if tracing is enabled and there is one, and otherwise what it
\* carried before: none at first, but that of the last publish when a message is
\* published again under a context without a span.
SendsAsAsked ==
    [][sent' # sent =>
          /\ sent'.body = wanted
          /\ sent'.trace # Nil
          /\ ~hook => sent'.trace = IF tracing /\ sent'.span # NoSpan THEN sent'.span ELSE sent.trace
          /\ IF expiration > 0
             THEN sent'.ttl * TicksPerMilli \in (expiration - TicksPerMilli + 1)..expiration
             ELSE sent'.ttl = -1]_vars

=============================================================================
