--------------------------- MODULE MessageProofs ----------------------------
(***************************************************************************)
(* What is sent is what was asked for, for every set of spans and          *)
(* expirations and any length of a millisecond.                            *)
(***************************************************************************)
EXTENDS Message, TLAPS

\* The body is the one asked for last, unless a body could not be encoded; that
\* error stays, and nothing is sent any more.
Asked == ~err => body = wanted

\* Without a hook the headers carry what was sent last.
Carried == ~hook => validate = sent.trace

Inv == TypeOK /\ Asked /\ Carried

\* A duration in milliseconds is not exceeded and less than one short.
LEMMA MillisecondsRoundDown ==
    ASSUME NEW d \in Int, d > 0
    PROVE  /\ formatDurationToExpiration(d) \in Int
           /\ formatDurationToExpiration(d) * TicksPerMilli \in (d - TicksPerMilli + 1)..d
<1> DEFINE t == TicksPerMilli
           q == d \div t
<1>1. t \in Int /\ t > 0
    BY MessageAssumption
<1>2. q \in Int /\ d % t \in 0..(t - 1) /\ d = (t * q) + (d % t)
    BY <1>1, Z3
<1>3. t * q = q * t
    BY <1>1, <1>2
<1>4. q * t \in (d - t + 1)..d
    BY <1>1, <1>2, <1>3
<1> QED
    BY <1>2, <1>4 DEF formatDurationToExpiration

\* The inductive invariant holds in the beginning.
LEMMA Initially == Init => Inv
<1> SUFFICES ASSUME Init PROVE Inv
    OBVIOUS
<1>1. err \in BOOLEAN /\ tracing \in BOOLEAN /\ hook \in BOOLEAN /\ body = wanted
    BY Zenon DEF Init
<1>2. sent.trace = NoSpan /\ sent.contentType = "text" /\ sent.nr = 0
    BY DEF Init, NotSent
<1>3. validate = NoSpan
    BY DEF Init, validate
<1>4. TypeOK
    BY <1>1, <1>2 DEF Init, TypeOK, Tables
<1> QED
    BY <1>1, <1>2, <1>3, <1>4 DEF Inv, Asked, Carried

\* A publish: what is sent, and what stays with the message.
LEMMA Publishes ==
    ASSUME Inv, NEW s \in Tables, Publish(s)
    PROVE  /\ ~err /\ UNCHANGED <<body, wanted, expiration, err, tracing, hook>>
           /\ sent'.body = body /\ sent'.span = s /\ sent'.nr = 1 - sent.nr
           /\ sent'.ttl = formatDurationToExpiration(expiration)
           /\ sent'.contentType = contentType' /\ contentType' \in {"json", "custom", "text"}
           /\ headers' \in Tables /\ headers' = inject(s, validate)
           /\ sent'.trace \in Tables /\ (~hook => sent'.trace = headers')
<1>1. PICK h \in injectHeaders(headers') :
          sent' = [body |-> body, contentType |-> contentType', span |-> s,
                   trace |-> IF h = Nil THEN NoSpan ELSE h,
                   ttl |-> formatDurationToExpiration(expiration), nr |-> 1 - sent.nr]
    BY DEF Publish
<1>2. /\ ~err /\ UNCHANGED <<body, wanted, expiration, err, tracing, hook>>
      /\ headers' = inject(s, validate)
    BY DEF Publish, config
<1>3. contentType' \in {"json", "custom", "text"}
    BY DEF Publish, Inv, TypeOK
<1>4. headers' \in Tables
    BY <1>2 DEF inject, validate, Tables, Inv, TypeOK
<1>5. h \in Tables \cup {Nil} /\ (~hook => h = headers' /\ h # Nil)
    BY <1>1, <1>4, MessageAssumption DEF injectHeaders, Tables
<1>6. sent'.trace \in Tables /\ (~hook => sent'.trace = headers')
    BY <1>1, <1>5 DEF Tables
<1> QED
    BY <1>1, <1>2, <1>3, <1>4, <1>6

\* The inductive invariant holds throughout.
LEMMA InvHolds == Spec => []Inv
<1>1. Inv /\ [Next]_vars => Inv'
  <2> SUFFICES ASSUME Inv, [Next]_vars PROVE Inv'
    OBVIOUS
  <2> USE DEF Inv, TypeOK, Asked, Carried, config, validate
  <2>1. CASE WithBody
    BY <2>1 DEF WithBody
  <2>2. CASE WithJSONBody
    BY <2>2 DEF WithJSONBody
  <2>3. CASE WithHeader
    BY <2>3, MessageAssumption DEF WithHeader, Tables
  <2>4. CASE WithContentType
    BY <2>4 DEF WithContentType
  <2>5. ASSUME NEW d \in Expirations, WithExpiration(d) PROVE Inv'
    BY <2>5 DEF WithExpiration
  <2>6. ASSUME NEW s \in Spans \cup {NoSpan}, Publish(s) PROVE Inv'
    <3>1. s \in Tables
        BY DEF Tables
    <3>2. headers' # Nil
        BY <2>6, <3>1, Publishes, MessageAssumption DEF Tables
    <3>3. 1 - sent.nr \in {0, 1}
      <4>1. sent.nr \in {0, 1}
        BY Zenon
      <4> QED
        BY ONLY <4>1
    <3> QED
        BY <2>6, <3>1, <3>2, <3>3, Publishes
  <2>7. CASE UNCHANGED vars
    BY <2>7 DEF vars
  <2> QED
    BY <2>1, <2>2, <2>3, <2>4, <2>5, <2>6, <2>7 DEF Next, PublishFails
<1> QED
    BY <1>1, Initially, PTL DEF Spec

\* A publish sends the body of the last builder call, the span of its own context
\* if it is traced and the one it carried before if not, and an expiration that is
\* not exceeded (Publish, WithJSONBody, Inject and formatDurationToExpiration).
THEOREM MessagesAreAsAsked == Spec => SendsAsAsked
<1> DEFINE AsAsked ==
        sent' # sent =>
            /\ sent'.body = wanted
            /\ sent'.trace # Nil
            /\ ~hook => sent'.trace = IF tracing /\ sent'.span # NoSpan THEN sent'.span ELSE sent.trace
            /\ IF expiration > 0
               THEN sent'.ttl * TicksPerMilli \in (expiration - TicksPerMilli + 1)..expiration
               ELSE sent'.ttl = -1
<1>1. Inv /\ [Next]_vars => AsAsked
  <2> SUFFICES ASSUME Inv, [Next]_vars, sent' # sent PROVE AsAsked
    OBVIOUS
  <2>1. PICK s \in Tables : Publish(s)
    BY DEF Next, WithBody, WithJSONBody, WithHeader, WithContentType, WithExpiration,
           PublishFails, vars, Tables
  <2>2. expiration \in Int
    <3>1. expiration \in Expirations \cup {0}
        BY DEF Inv, TypeOK
    <3> QED
        BY <3>1, MessageAssumption
  <2>3. sent'.body = wanted /\ sent'.ttl = formatDurationToExpiration(expiration)
    BY <2>1, Publishes DEF Inv, Asked
  <2>4. /\ sent'.trace # Nil
        /\ ~hook => sent'.trace = IF tracing /\ sent'.span # NoSpan THEN sent'.span ELSE sent.trace
    BY <2>1, Publishes, MessageAssumption DEF inject, Inv, Carried, Tables
  <2>5. CASE expiration > 0
    BY <2>2, <2>3, <2>4, <2>5, MillisecondsRoundDown
  <2>6. CASE ~(expiration > 0)
    BY <2>3, <2>4, <2>6 DEF formatDurationToExpiration
  <2> QED
    BY <2>5, <2>6
<1> QED
    BY <1>1, InvHolds, PTL DEF Spec, SendsAsAsked

=============================================================================
