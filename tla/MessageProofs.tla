--------------------------- MODULE MessageProofs ---------------------------
(***************************************************************************)
(* Theorems about Message, for every set of header keys and values, every  *)
(* number of calls on a builder, every limit and every length of time.     *)
(***************************************************************************)
EXTENDS Message, SequenceTheorems, TLAPS

Calls == [field : Fields, value : Values]

\* A message exists once it is built; calls until then set its fields.
BuildInv ==
    /\ stage = "start" => calls = <<>> /\ parts = Unset
    /\ stage # "failed" => \A f \in Fields : LastValue(f, parts[f])
    /\ IsMessage => Valid(parts)

\* The envelope carries the message, and counts its attempts.
QueueInv ==
    /\ stage \notin {"queued", "held", "done"} => nacks = 0
    /\ stage \in {"queued", "held"} =>
          /\ nacks < MaxAttempts
          /\ envelope.delivery_count = nacks + 1
          /\ envelope.parts = Carried(parts)
          /\ envelope.first_delivered <= now
    /\ stage = "held" => delivery = envelope
    /\ stage = "held" \/ (stage = "queued" /\ nacks > 0) =>
          /\ delivery.first_delivered = envelope.first_delivered
          /\ envelope.first_delivered <= first

-----------------------------------------------------------------------------
(* Fields, and the errors of a validation *)

LEMMA SetParts ==
    ASSUME NEW p \in Parts, NEW f \in Fields, NEW v \in Values \cup {None}
    PROVE  /\ Set(p, f, v) \in Parts
           /\ Set(p, f, v)[f] = v
           /\ \A g \in Fields \ {f} : Set(p, f, v)[g] = p[g]
BY DEF Set, Parts

LEMMA ErrorsType ==
    ASSUME NEW p \in Parts
    PROVE  /\ \A k \in HeaderKeys : HeaderErrors(p, k) \subseteq Errors \ {"none"}
           /\ IdErrors(p) \subseteq Errors \ {"none"}
           /\ BuildErrors(p) \subseteq Errors \ {"none"}
<1>1. \A k \in HeaderKeys : HeaderErrors(p, k) \subseteq Errors \ {"none"}
  BY DEF HeaderErrors, Errors
<1>2. IdErrors(p) \subseteq Errors \ {"none"}
  BY DEF IdErrors, Errors
<1> QED BY <1>1, <1>2 DEF BuildErrors, Errors

\* build() looks at every header that is set.
LEMMA HeadersChecked ==
    ASSUME NEW p \in Parts, BuildErrors(p) = {}
    PROVE  /\ p["payload"] \notin {None, Empty}
           /\ \A k \in HeaderKeys : p[k] # None => HeaderErrors(p, k) = {}
           /\ IdErrors(p) = {}
<1> DEFINE headers == UNION {HeaderErrors(p, k) : k \in {x \in HeaderKeys : p[x] # None}}
<1>1. p["payload"] \notin {None, Empty}
  BY DEF BuildErrors
<1>2. headers = {}
  BY <1>1 DEF BuildErrors
<1>3. IdErrors(p) = {}
  BY <1>1, <1>2 DEF BuildErrors
<1>4. ASSUME NEW k \in HeaderKeys, p[k] # None
      PROVE  HeaderErrors(p, k) = {}
  BY <1>2, <1>4
<1> QED BY <1>1, <1>3, <1>4

LEMMA HeaderPasses ==
    ASSUME NEW p \in Parts, NEW k \in HeaderKeys, HeaderErrors(p, k) = {}
    PROVE  k \notin BadKeys /\ p[k] # Empty
BY DEF HeaderErrors, KeyRefused

\* What build() lets pass is valid.
LEMMA BuildPasses ==
    ASSUME NEW p \in Parts, BuildErrors(p) = {}
    PROVE  Valid(p)
<1>1. \A k \in HeaderKeys : p[k] # None => k \notin BadKeys /\ p[k] # Empty
  BY HeadersChecked, HeaderPasses
<1>2. p["payload"] \notin {None, Empty} /\ p["deduplication_id"] # Empty
  BY HeadersChecked DEF IdErrors
<1> QED BY <1>1, <1>2 DEF Valid

\* What with_header and with_deduplication_id let pass stays valid.
LEMMA WithPasses ==
    ASSUME NEW p \in Parts, Valid(p), NEW v \in Values,
           NEW f \in HeaderKeys \cup {"deduplication_id"},
           (IF f \in HeaderKeys THEN HeaderErrors(Set(p, f, v), f)
                                ELSE IdErrors(Set(p, f, v))) = {}
    PROVE  Valid(Set(p, f, v))
<1> DEFINE q == Set(p, f, v)
<1>1. f \in Fields /\ "payload" \in Fields /\ "deduplication_id" \in Fields
      /\ HeaderKeys \subseteq Fields
  BY DEF Fields
<1>2. q \in Parts /\ q[f] = v /\ \A g \in Fields \ {f} : q[g] = p[g]
  BY <1>1, SetParts
<1>3. f # "payload"
  BY MessageAssumption
<1> HIDE DEF q
<1>4. CASE f \in HeaderKeys
  <2>1. f \notin BadKeys /\ q[f] # Empty
    BY <1>2, <1>4, HeaderPasses DEF q
  <2>2. f # "deduplication_id"
    BY <1>4, MessageAssumption
  <2>3. Valid(q)
    BY <1>1, <1>2, <1>3, <2>1, <2>2 DEF Valid
  <2> QED BY <2>3 DEF q
<1>5. CASE f \notin HeaderKeys
  <2>1. f = "deduplication_id" /\ IdErrors(q) = {}
    BY <1>5 DEF q
  <2>2. q["deduplication_id"] # Empty
    BY <2>1 DEF IdErrors
  <2>3. Valid(q)
    BY <1>1, <1>2, <1>3, <1>5, <2>1, <2>2 DEF Valid
  <2> QED BY <2>3 DEF q
<1> QED BY <1>4, <1>5

\* from_json makes a message that build() lets pass, whatever the key.
LEMMA JsonPasses ==
    ASSUME NEW p \in Parts, p["payload"] = Json, p["content-type"] = Json,
           p["deduplication_id"] = None,
           \A k \in HeaderKeys \ {"content-type"} : p[k] = None
    PROVE  BuildErrors(p) = {}
<1>1. None # Empty /\ Json # None /\ Json # Empty
  BY MessageAssumption DEF Json, Empty
<1>2. \A k \in HeaderKeys : p[k] # None => k = "content-type"
  OBVIOUS
<1>3. HeaderErrors(p, "content-type") = {}
  BY <1>1, MessageAssumption DEF HeaderErrors, KeyRefused
<1>4. UNION {HeaderErrors(p, k) : k \in {x \in HeaderKeys : p[x] # None}} = {}
  BY <1>2, <1>3
<1>5. IdErrors(p) = {}
  BY <1>1 DEF IdErrors
<1> QED BY <1>1, <1>4, <1>5 DEF BuildErrors

-----------------------------------------------------------------------------
(* The calls that set a field *)

\* After one more call the field it sets has its value...
LEMMA CallLast ==
    ASSUME calls \in Seq(Calls), NEW f \in Fields, NEW v \in Values,
           calls' = Append(calls, Call(f, v))
    PROVE  LastValue(f, v)'
<1>1. /\ Len(calls') = Len(calls) + 1 /\ Len(calls) \in Nat
      /\ calls'[Len(calls) + 1] = Call(f, v)
      /\ DOMAIN calls' = 1 .. Len(calls) + 1
  BY AppendProperties, LenProperties DEF Call, Calls
<1>2. Call(f, v).field = f /\ Call(f, v).value = v
  BY DEF Call
<1> QED BY <1>1, <1>2 DEF LastValue

\* ...and every other field the one it had.
LEMMA CallOthers ==
    ASSUME calls \in Seq(Calls), NEW f \in Fields, NEW v \in Values,
           calls' = Append(calls, Call(f, v)),
           NEW g \in Fields \ {f}, NEW w, LastValue(g, w)
    PROVE  LastValue(g, w)'
<1>1. /\ Len(calls') = Len(calls) + 1 /\ Len(calls) \in Nat
      /\ calls'[Len(calls) + 1] = Call(f, v)
      /\ DOMAIN calls' = 1 .. Len(calls) + 1 /\ DOMAIN calls = 1 .. Len(calls)
      /\ \A i \in 1 .. Len(calls) : calls'[i] = calls[i]
  BY AppendProperties, LenProperties DEF Call, Calls
<1>2. Call(f, v).field = f
  BY DEF Call
<1>3. CASE w = None /\ \A i \in DOMAIN calls : calls[i].field # g
  BY <1>1, <1>2, <1>3 DEF LastValue
<1>4. ASSUME NEW i \in DOMAIN calls,
             calls[i].field = g /\ calls[i].value = w
                /\ \A j \in i + 1 .. Len(calls) : calls[j].field # g
      PROVE  LastValue(g, w)'
  BY <1>1, <1>2, <1>4 DEF LastValue
<1> QED BY <1>3, <1>4 DEF LastValue

\* So a setter keeps what BuildInv says of the fields.
LEMMA SetterKeeps ==
    ASSUME calls \in Seq(Calls), parts \in Parts,
           \A g \in Fields : LastValue(g, parts[g]),
           NEW f \in Fields, NEW v \in Values,
           calls' = Append(calls, Call(f, v)), parts' = Set(parts, f, v)
    PROVE  \A g \in Fields : LastValue(g, parts[g])'
<1>1. parts'[f] = v /\ \A g \in Fields \ {f} : parts'[g] = parts[g]
  BY SetParts
<1>2. LastValue(f, v)'
  BY CallLast
<1>3. ASSUME NEW g \in Fields \ {f}, NEW w, w = parts[g]
      PROVE  LastValue(g, w)'
  BY <1>3, CallOthers
<1>4. ASSUME NEW g \in Fields \ {f}
      PROVE  LastValue(g, parts[g])'
  BY <1>1, <1>3 DEF LastValue
<1>5. LastValue(f, parts[f])'
  BY <1>1, <1>2 DEF LastValue
<1> QED BY <1>4, <1>5

\* The fields that from_json sets, and the calls that stand for it.
JsonParts(key) ==
    Set(Set(Set(Unset, "payload", Json), "routing_key", key), "content-type", Json)

JsonCalls(key) ==
    IF key = None
    THEN <<Call("payload", Json), Call("content-type", Json)>>
    ELSE <<Call("payload", Json), Call("routing_key", key),
           Call("content-type", Json)>>

LEMMA JsonFields ==
    ASSUME NEW key \in Values \cup {None}
    PROVE  /\ JsonParts(key) \in Parts
           /\ JsonParts(key)["payload"] = Json
           /\ JsonParts(key)["routing_key"] = key
           /\ JsonParts(key)["content-type"] = Json
           /\ \A f \in Fields \ {"payload", "routing_key", "content-type"} :
                 JsonParts(key)[f] = None
<1>1. "payload" \in Fields /\ "routing_key" \in Fields /\ "content-type" \in Fields
  BY MessageAssumption DEF Fields
<1>2. Json \in Values /\ "content-type" \notin {"payload", "routing_key"}
  BY MessageAssumption DEF Json
<1> QED BY <1>1, <1>2 DEF JsonParts, Set, Parts, Unset

LEMMA JsonCallsType ==
    ASSUME NEW key \in Values \cup {None}
    PROVE  JsonCalls(key) \in Seq(Calls)
<1>1. {"payload", "routing_key", "content-type"} \subseteq Fields /\ Json \in Values
  BY MessageAssumption DEF Fields, Json
<1>2. Call("payload", Json) \in Calls /\ Call("content-type", Json) \in Calls
      /\ (key # None => Call("routing_key", key) \in Calls)
  BY <1>1 DEF Call, Calls
<1> QED BY <1>2 DEF JsonCalls

LEMMA JsonLast ==
    ASSUME NEW key \in Values \cup {None},
           calls' = JsonCalls(key), parts' = JsonParts(key)
    PROVE  \A f \in Fields : LastValue(f, parts[f])'
<1>1. "content-type" \notin {"payload", "routing_key"}
  BY MessageAssumption
<1>2. \A f, v : Call(f, v).field = f /\ Call(f, v).value = v
  BY DEF Call
<1>3. ASSUME NEW f \in Fields \ {"payload", "routing_key", "content-type"}
      PROVE  parts'[f] = None /\ \A i \in DOMAIN calls' : calls'[i].field # f
  BY <1>2, JsonFields DEF JsonCalls
<1>4. CASE key = None
  <2>1. DOMAIN calls' = 1 .. 2 /\ Len(calls') = 2
    BY <1>4 DEF JsonCalls
  <2>2. /\ calls'[1].field = "payload" /\ calls'[1].value = Json
        /\ calls'[2].field = "content-type" /\ calls'[2].value = Json
    BY <1>2, <1>4 DEF JsonCalls
  <2>3. LastValue("payload", parts["payload"])'
    BY <1>1, <2>1, <2>2, JsonFields DEF LastValue
  <2>4. LastValue("content-type", parts["content-type"])'
    BY <1>1, <2>1, <2>2, JsonFields DEF LastValue
  <2>5. LastValue("routing_key", parts["routing_key"])'
    BY <1>1, <1>4, <2>1, <2>2, JsonFields DEF LastValue
  <2> QED BY <1>3, <2>3, <2>4, <2>5 DEF LastValue
<1>5. CASE key # None
  <2>1. DOMAIN calls' = 1 .. 3 /\ Len(calls') = 3
    BY <1>5 DEF JsonCalls
  <2>2. /\ calls'[1].field = "payload" /\ calls'[1].value = Json
        /\ calls'[2].field = "routing_key" /\ calls'[2].value = key
        /\ calls'[3].field = "content-type" /\ calls'[3].value = Json
    BY <1>2, <1>5 DEF JsonCalls
  <2>3. LastValue("payload", parts["payload"])'
    BY <1>1, <2>1, <2>2, JsonFields DEF LastValue
  <2>4. LastValue("content-type", parts["content-type"])'
    BY <1>1, <2>1, <2>2, JsonFields DEF LastValue
  <2>5. LastValue("routing_key", parts["routing_key"])'
    BY <1>1, <2>1, <2>2, JsonFields DEF LastValue
  <2> QED BY <1>3, <2>3, <2>4, <2>5 DEF LastValue
<1> QED BY <1>4, <1>5

-----------------------------------------------------------------------------
(* Type correctness *)

\* A validated change of the message.
LEMMA VerdictType ==
    ASSUME TypeOK, NEW p \in Parts, NEW errors \in SUBSET (Errors \ {"none"}),
           Verdict(p, errors)
    PROVE  parts' \in Parts /\ error' \in Errors /\ stage' \in {"message", "failed"}
BY DEF TypeOK, Verdict

LEMMA EnvelopeKinds ==
    ASSUME NEW p \in Parts, NEW e \in EnvelopeType, now \in 0 .. MaxTime
    PROVE  /\ Carried(p) \in Parts
           /\ NewEnvelope(p) \in EnvelopeType
           /\ e.delivery_count < MaxAttempts => Requeued(e) \in EnvelopeType
<1>1. Carried(p) \in Parts
  BY DEF Carried, Parts
<1>2. MaxAttempts \in Nat /\ 1 <= MaxAttempts /\ MaxTime \in Nat
  BY MessageAssumption
<1>3. NewEnvelope(p) \in EnvelopeType
  BY <1>1, <1>2 DEF NewEnvelope, EnvelopeType
<1>4. ASSUME e.delivery_count < MaxAttempts
      PROVE  Requeued(e) \in EnvelopeType
  BY <1>2, <1>4 DEF Requeued, EnvelopeType
<1> QED BY <1>1, <1>3, <1>4

LEMMA TypeNext == TypeOK /\ QueueInv /\ [Next]_vars => TypeOK'
<1> SUFFICES ASSUME TypeOK, QueueInv, [Next]_vars PROVE TypeOK'
  OBVIOUS
<1> USE DEF buildVars, queueVars
<1>0. MaxTime \in Nat /\ MaxAttempts \in Nat \ {0} /\ HeaderKeys \subseteq Fields
      /\ "deduplication_id" \in Fields
  BY MessageAssumption DEF Fields
<1>1. CASE UNCHANGED vars
  BY <1>1 DEF vars, TypeOK
<1>2. CASE Builder
  BY <1>2 DEF Builder, TypeOK, Stages
<1>3. ASSUME NEW f \in Fields, NEW v \in Values, SetField(f, v)
      PROVE  TypeOK'
  <2>1. parts' \in Parts
    BY <1>3, SetParts DEF SetField, TypeOK
  <2>2. calls' \in Seq(Calls)
    BY <1>3, AppendProperties DEF SetField, TypeOK, Call, Calls
  <2> QED BY <1>3, <2>1, <2>2 DEF SetField, TypeOK, Calls
<1>4. ASSUME NEW f \in Fields, NEW v \in Values, With(f, v)
      PROVE  TypeOK'
  <2>1. parts' \in Parts /\ error' \in Errors /\ stage' \in Stages
    BY <1>4, SetParts, ErrorsType DEF With, Verdict, TypeOK, Stages
  <2>2. calls' \in Seq(Calls)
    BY <1>4, AppendProperties DEF With, TypeOK, Call, Calls
  <2> QED BY <1>4, <2>1, <2>2 DEF With, TypeOK, Calls
<1>5. CASE Build
  <2>1. parts' \in Parts /\ error' \in Errors /\ stage' \in Stages
    BY <1>5, ErrorsType DEF Build, Verdict, TypeOK, Stages
  <2> QED BY <1>5, <2>1 DEF Build, TypeOK
<1>6. ASSUME NEW key \in Values \cup {None}, FromJson(key)
      PROVE  TypeOK'
  <2>1. Verdict(JsonParts(key), BuildErrors(JsonParts(key)))
    BY <1>6 DEF FromJson, JsonParts
  <2>2. parts' \in Parts /\ error' \in Errors /\ stage' \in Stages
    BY <2>1, JsonFields, ErrorsType DEF Verdict, TypeOK, Stages
  <2>3. calls' \in Seq(Calls)
    BY <1>6, JsonCallsType DEF FromJson, JsonCalls
  <2> QED BY <1>6, <2>2, <2>3 DEF FromJson, TypeOK, Calls
<1>7. CASE FromJsonFails
  BY <1>7 DEF FromJsonFails, Verdict, TypeOK, Stages, Errors
<1>8. ASSUME NEW at \in 0 .. MaxTime, Send(at)
      PROVE  TypeOK'
  <2>1. envelope' \in EnvelopeType
    BY <1>8, EnvelopeKinds DEF Send, TypeOK
  <2> QED BY <1>8, <2>1 DEF Send, TypeOK, Stages
<1>9. CASE Receive
  BY <1>9 DEF Receive, TypeOK, Stages
<1>10. CASE Ack
  BY <1>10 DEF Ack, TypeOK, Stages
<1>11. CASE Nack
  <2>1. nacks' \in 0 .. MaxAttempts
    BY <1>0, <1>11 DEF Nack, TypeOK, QueueInv
  <2>2. envelope' \in EnvelopeType
    BY <1>0, <1>11, EnvelopeKinds DEF Nack, Exhausted, TypeOK, QueueInv
  <2> QED BY <1>11, <2>1, <2>2 DEF Nack, TypeOK, Stages
<1>12. CASE Tick
  BY <1>0, <1>12 DEF Tick, TypeOK
<1> QED BY <1>1, <1>2, <1>3, <1>4, <1>5, <1>6, <1>7, <1>8, <1>9, <1>10, <1>11,
           <1>12 DEF Next

-----------------------------------------------------------------------------
(* The invariants *)

LEMMA BuildNext == TypeOK /\ BuildInv /\ [Next]_vars => BuildInv'
<1> SUFFICES ASSUME TypeOK, BuildInv, [Next]_vars PROVE BuildInv'
  OBVIOUS
<1> USE DEF buildVars, queueVars
<1>0. calls \in Seq(Calls) /\ parts \in Parts
  BY DEF TypeOK, Calls
\* A step after which parts and calls are the same, and no message is new.
<1>1. ASSUME UNCHANGED <<parts, calls>>, IsMessage' => IsMessage,
             stage' = "start" => stage = "start",
             stage' # "failed" => stage # "failed"
      PROVE  BuildInv'
  BY <1>1 DEF BuildInv, LastValue, Valid
<1>2. CASE UNCHANGED vars \/ Builder \/ Receive \/ Ack \/ Nack \/ Tick
           \/ \E at \in 0 .. MaxTime : Send(at)
  BY <1>1, <1>2 DEF vars, Builder, Receive, Ack, Nack, Tick, Send, IsMessage
<1>3. ASSUME NEW f \in Fields, NEW v \in Values, SetField(f, v)
      PROVE  BuildInv'
  <2>1. \A g \in Fields : LastValue(g, parts[g])'
    BY <1>0, <1>3, SetterKeeps DEF SetField, BuildInv
  <2> QED BY <1>3, <2>1 DEF SetField, BuildInv, IsMessage
<1>4. ASSUME NEW f \in Fields, NEW v \in Values, With(f, v)
      PROVE  BuildInv'
  <2>1. CASE stage' = "failed"
    BY <2>1 DEF BuildInv, IsMessage
  <2>2. CASE stage' # "failed"
    <3>1. parts' = Set(parts, f, v) /\ stage' = "message"
          /\ (IF f \in HeaderKeys THEN HeaderErrors(parts', f)
                                  ELSE IdErrors(parts')) = {}
      BY <1>4, <2>2 DEF With, Verdict
    <3>2. \A g \in Fields : LastValue(g, parts[g])'
      BY <1>0, <1>4, <3>1, SetterKeeps DEF With, BuildInv
    <3>3. Valid(parts')
      BY <1>0, <1>4, <3>1, WithPasses DEF With, BuildInv, IsMessage
    <3> QED BY <3>1, <3>2, <3>3 DEF BuildInv, Valid
  <2> QED BY <2>1, <2>2
<1>5. CASE Build
  <2>1. CASE stage' = "failed"
    BY <2>1 DEF BuildInv, IsMessage
  <2>2. CASE stage' # "failed"
    <3>1. UNCHANGED <<parts, calls>> /\ stage' = "message" /\ BuildErrors(parts) = {}
      BY <1>5, <2>2 DEF Build, Verdict
    <3>2. Valid(parts)
      BY <1>0, <3>1, BuildPasses
    <3> QED BY <1>5, <3>1, <3>2 DEF Build, BuildInv, LastValue, Valid
  <2> QED BY <2>1, <2>2
<1>6. ASSUME NEW key \in Values \cup {None}, FromJson(key)
      PROVE  BuildInv'
  <2>1. CASE stage' = "failed"
    BY <2>1 DEF BuildInv, IsMessage
  <2>2. CASE stage' # "failed"
    <3>1. parts' = JsonParts(key) /\ stage' = "message"
          /\ BuildErrors(parts') = {} /\ calls' = JsonCalls(key)
      BY <1>6, <2>2 DEF FromJson, Verdict, JsonParts, JsonCalls
    <3>2. \A g \in Fields : LastValue(g, parts[g])'
      BY <3>1, JsonLast
    <3>3. Valid(parts')
      BY <3>1, JsonFields, BuildPasses
    <3> QED BY <3>1, <3>2, <3>3 DEF BuildInv, Valid
  <2> QED BY <2>1, <2>2
<1>7. CASE FromJsonFails
  BY <1>7 DEF FromJsonFails, Verdict, BuildInv, IsMessage
<1> QED BY <1>2, <1>3, <1>4, <1>5, <1>6, <1>7 DEF Next

LEMMA QueueNext == TypeOK /\ QueueInv /\ [Next]_vars => QueueInv'
<1> SUFFICES ASSUME TypeOK, QueueInv, [Next]_vars PROVE QueueInv'
  OBVIOUS
<1> USE DEF buildVars, queueVars, QueueInv
<1>0. now \in Nat /\ nacks \in Nat /\ MaxAttempts \in Nat \ {0}
      /\ envelope \in EnvelopeType /\ delivery \in EnvelopeType
  BY MessageAssumption DEF TypeOK
<1>1. CASE UNCHANGED vars
  BY <1>1 DEF vars
<1>2. CASE \/ Builder \/ Build \/ FromJsonFails
           \/ \E f \in Fields, v \in Values : SetField(f, v) \/ With(f, v)
           \/ \E key \in Values \cup {None} : FromJson(key)
  BY <1>2 DEF Builder, Build, FromJsonFails, SetField, With, FromJson, Verdict
<1>3. ASSUME NEW at \in 0 .. MaxTime, Send(at)
      PROVE  QueueInv'
  BY <1>0, <1>3 DEF Send, NewEnvelope
<1>4. CASE Receive
  BY <1>0, <1>4 DEF Receive
<1>5. CASE Ack
  BY <1>5 DEF Ack
<1>6. CASE Nack
  <2>1. /\ Requeued(envelope).delivery_count = envelope.delivery_count + 1
        /\ Requeued(envelope).parts = envelope.parts
        /\ Requeued(envelope).first_delivered = envelope.first_delivered
    BY <1>0 DEF Requeued, EnvelopeType
  <2> QED BY <1>0, <1>6, <2>1 DEF Nack, Exhausted
<1>7. CASE Tick
  BY <1>0, <1>7 DEF Tick, EnvelopeType
<1> QED BY <1>1, <1>2, <1>3, <1>4, <1>5, <1>6, <1>7 DEF Next

-----------------------------------------------------------------------------
(* Theorems *)

LEMMA Initially == Init => TypeOK /\ BuildInv /\ QueueInv
<1> SUFFICES ASSUME Init PROVE TypeOK /\ BuildInv /\ QueueInv
  OBVIOUS
<1>0. MaxAttempts \in Nat \ {0} /\ MaxTime \in Nat
  BY MessageAssumption
<1>1. Unset \in Parts /\ \A f \in Fields : Unset[f] = None
  BY DEF Unset, Parts
<1>2. NoEnvelope \in EnvelopeType
  BY <1>0, <1>1 DEF NoEnvelope, EnvelopeType
<1>3. calls \in Seq([field : Fields, value : Values])
  BY EmptySeq DEF Init
<1>4. TypeOK
  BY <1>0, <1>1, <1>2, <1>3 DEF Init, TypeOK, Stages, Errors
<1>5. \A f \in Fields : LastValue(f, parts[f])
  BY <1>1 DEF Init, LastValue
<1>6. BuildInv
  BY <1>5 DEF Init, BuildInv, IsMessage
<1>7. QueueInv
  BY DEF Init, QueueInv
<1> QED BY <1>4, <1>6, <1>7

\* The invariant from which all the others follow.
LEMMA Inductive == Spec => [](TypeOK /\ BuildInv /\ QueueInv)
BY Initially, TypeNext, BuildNext, QueueNext, PTL DEF Spec

\* What travels has the fields of a message and a count from 1 to the limit.
THEOREM MessageTypeCorrect == Spec => []TypeOK
BY Inductive, PTL

\* Every message that exists, and every message a consumer receives, is valid,
\* whichever of build, from_json, with_header and with_deduplication_id made it.
THEOREM AlwaysValid == Spec => []EveryMessageValid
<1>1. TypeOK /\ BuildInv /\ QueueInv => EveryMessageValid
  <2> SUFFICES ASSUME TypeOK, BuildInv, QueueInv PROVE EveryMessageValid
    OBVIOUS
  <2>1. IsMessage => Valid(parts)
    BY DEF BuildInv
  <2>2. CASE stage = "held"
    <3>1. delivery.parts = Carried(parts) /\ Valid(parts) /\ parts \in Parts
      BY <2>1, <2>2 DEF QueueInv, IsMessage, TypeOK
    <3>2. "deduplication_id" \notin HeaderKeys /\ None # Empty
          /\ HeaderKeys \subseteq Fields /\ "payload" \in Fields
      BY MessageAssumption DEF Fields
    <3>3. \A f \in Fields \ {"deduplication_id"} : Carried(parts)[f] = parts[f]
      BY <3>1 DEF Carried, Parts
    <3>4. Carried(parts)["deduplication_id"] = None
      BY <3>1 DEF Carried, Parts, Fields
    <3>5. Valid(Carried(parts))
      BY <3>1, <3>2, <3>3, <3>4 DEF Valid
    <3> QED BY <2>1, <3>1, <3>5 DEF EveryMessageValid
  <2> QED BY <2>1, <2>2 DEF EveryMessageValid
<1> QED BY <1>1, Inductive, PTL

\* Each field of a message has the value that was set last.
THEOREM LastCallKept == Spec => []LastCallWins
<1>1. BuildInv => LastCallWins
  BY DEF BuildInv, LastCallWins, IsMessage
<1> QED BY <1>1, Inductive, PTL

\* Each delivery shows what was sent, without the deduplication id, and the
\* number of its attempt.
THEOREM DeliveryShowsMessage == Spec => []DeliveredAsBuilt
<1>1. TypeOK /\ QueueInv => DeliveredAsBuilt
  <2> SUFFICES ASSUME TypeOK, QueueInv, stage = "held"
               PROVE  /\ \A f \in Fields \ {"deduplication_id"} :
                            delivery.parts[f] = parts[f]
                      /\ delivery.delivery_count = nacks + 1
    BY DEF DeliveredAsBuilt
  <2>1. delivery.parts = Carried(parts) /\ delivery.delivery_count = nacks + 1
    BY DEF QueueInv
  <2>2. \A f \in Fields \ {"deduplication_id"} : Carried(parts)[f] = parts[f]
    BY DEF Carried, Parts, TypeOK
  <2> QED BY <2>1, <2>2
<1> QED BY <1>1, Inductive, PTL

\* All deliveries of a message show one first delivery, which is not after the
\* first of them.
THEOREM OneFirstDelivery == Spec => FirstDeliveryStable
<1>1. TypeOK /\ QueueInv /\ [Next]_vars =>
        [stage = "queued" /\ stage' = "held" =>
            /\ delivery'.first_delivered <= first'
            /\ nacks > 0 => delivery'.first_delivered = delivery.first_delivered]_vars
  <2> SUFFICES ASSUME TypeOK, QueueInv, Next, stage = "queued", stage' = "held"
               PROVE  /\ delivery'.first_delivered <= first'
                      /\ nacks > 0 =>
                            delivery'.first_delivered = delivery.first_delivered
    OBVIOUS
  <2>1. Receive
    BY DEF Next, Builder, SetField, With, Build, FromJson, FromJsonFails, Send,
           Verdict, Ack, Nack, Tick, buildVars, queueVars
  <2> QED BY <2>1 DEF Receive, QueueInv, TypeOK, EnvelopeType
<1> QED BY <1>1, Inductive, PTL DEF Spec, FirstDeliveryStable

-----------------------------------------------------------------------------
(* Errors *)

\* A field that has a value is not unset.
LEMMA CallValues ==
    ASSUME NEW c \in Seq(Calls), NEW i \in DOMAIN c
    PROVE  c[i].value # None
<1>1. c[i] \in Calls
  BY ElementOfSeq, LenProperties
<1> QED BY <1>1, MessageAssumption DEF Calls

LEMMA ValueGiven ==
    ASSUME calls \in Seq(Calls), NEW f, NEW v, LastValue(f, v), v # None
    PROVE  ~LastValue(f, None)
BY CallValues DEF LastValue

\* What build() says of fields that have their last values.
LEMMA BuildRefusal ==
    ASSUME NEW p \in Parts, NEW e \in BuildErrors(p)
    PROVE  /\ e = "payload" => p["payload"] \in {None, Empty}
           /\ e = "header key" => \E k \in BadKeys : p[k] # None
           /\ e = "header value" =>
                 \E k \in HeaderKeys \ BadKeys : p[k] = Empty
           /\ e = "deduplication id" => p["deduplication_id"] = Empty
           /\ e \in {"payload", "header key", "header value", "deduplication id"}
<1> DEFINE headers == UNION {HeaderErrors(p, k) : k \in {x \in HeaderKeys : p[x] # None}}
<1>1. \A k \in HeaderKeys : \A x \in HeaderErrors(p, k) :
         \/ x = "header key" /\ k \in BadKeys
         \/ x = "header value" /\ k \notin BadKeys /\ p[k] = Empty
  BY DEF HeaderErrors, KeyRefused
<1>2. \A x \in IdErrors(p) : x = "deduplication id" /\ p["deduplication_id"] = Empty
  BY DEF IdErrors
<1>3. \/ e = "payload" /\ p["payload"] \in {None, Empty}
      \/ e \in headers
      \/ e \in IdErrors(p)
  BY DEF BuildErrors
<1>4. CASE e \in headers
  <2>1. PICK k \in HeaderKeys : p[k] # None /\ e \in HeaderErrors(p, k)
    BY <1>4
  <2> QED BY <1>1, <2>1
<1> QED BY <1>2, <1>3, <1>4

LEMMA RejectionNext ==
    TypeOK /\ BuildInv /\ RejectionJustified /\ [Next]_vars => RejectionJustified'
<1> SUFFICES ASSUME TypeOK, BuildInv, RejectionJustified, [Next]_vars
             PROVE  RejectionJustified'
  OBVIOUS
<1> USE DEF buildVars, queueVars
<1>0. /\ calls \in Seq(Calls) /\ parts \in Parts
      /\ BadKeys \subseteq HeaderKeys /\ HeaderKeys \subseteq Fields
      /\ {"payload", "deduplication_id"} \subseteq Fields
      /\ HeaderKeys \cap {"payload", "routing_key", "deduplication_id"} = {}
      /\ None \notin Values /\ Empty \in Values
  BY MessageAssumption DEF TypeOK, Calls, Fields
\* No call is refused, or nothing that the property speaks of changes.
<1>1. ASSUME stage # "failed", stage' # "failed", UNCHANGED error
      PROVE  RejectionJustified'
  BY <1>1 DEF RejectionJustified
<1>2. ASSUME UNCHANGED <<stage, error, calls>>
      PROVE  RejectionJustified'
  <2>1. ASSUME NEW f, NEW v
        PROVE  LastValue(f, v)' <=> LastValue(f, v)
    BY <1>2 DEF LastValue
  <2> QED BY <1>2, <2>1 DEF RejectionJustified
<1>3. CASE UNCHANGED vars \/ Tick
  BY <1>2, <1>3 DEF vars, Tick
<1>4. CASE \/ Builder \/ Receive \/ Ack \/ Nack
           \/ \E at \in 0 .. MaxTime : Send(at)
           \/ \E f \in Fields, v \in Values : SetField(f, v)
  BY <1>1, <1>4 DEF Builder, Receive, Ack, Nack, Send, SetField
<1>5. ASSUME NEW f \in Fields, NEW v \in Values, With(f, v)
      PROVE  RejectionJustified'
  <2>1. CASE stage' # "failed"
    BY <1>1, <1>5, <2>1 DEF With, Verdict
  <2>2. CASE stage' = "failed"
    <3> DEFINE q == Set(parts, f, v)
    <3>1. error' \in IF f \in HeaderKeys THEN HeaderErrors(q, f) ELSE IdErrors(q)
      BY <1>5, <2>2 DEF With, Verdict
    <3>2. q[f] = v
      BY <1>0, SetParts
    <3>3. LastValue(f, v)'
      BY <1>0, <1>5, CallLast DEF With
    <3>4. v # None /\ (f \in HeaderKeys \/ f = "deduplication_id")
      BY <1>0, <1>5 DEF With
    <3>5. calls' \in Seq(Calls)
      BY <1>0, <1>5, AppendProperties DEF With, Call, Calls
    <3> HIDE DEF q
    <3>6. \/ error' = "header key" /\ f \in BadKeys
          \/ error' = "header value" /\ f \in HeaderKeys \ BadKeys /\ v = Empty
          \/ error' = "deduplication id" /\ f = "deduplication_id" /\ v = Empty
      BY <3>1, <3>2, <3>4 DEF HeaderErrors, KeyRefused, IdErrors
    <3>7. ~LastValue(f, None)'
      <4>1. \A i \in DOMAIN calls' : calls'[i].value # None
        BY <3>5, CallValues
      <4> QED BY <3>3, <3>4, <4>1 DEF LastValue
    <3> QED BY <2>2, <3>3, <3>6, <3>7 DEF RejectionJustified
  <2> QED BY <2>1, <2>2
<1>6. CASE Build
  <2>1. CASE stage' # "failed"
    BY <1>1, <1>6, <2>1 DEF Build, Verdict
  <2>2. CASE stage' = "failed"
    <3>1. error' \in BuildErrors(parts) /\ UNCHANGED calls
          /\ \A f \in Fields : LastValue(f, parts[f])
      BY <1>6, <2>2 DEF Build, Verdict, BuildInv
    <3>2. \A f \in Fields : parts[f] # None => ~LastValue(f, None)
      BY <1>0, <3>1, ValueGiven
    <3>3. /\ error' = "payload" =>
                LastValue("payload", None) \/ LastValue("payload", Empty)
          /\ error' = "header key" => \E k \in BadKeys : ~LastValue(k, None)
          /\ error' = "header value" =>
                \E k \in HeaderKeys \ BadKeys : LastValue(k, Empty)
          /\ error' = "deduplication id" => LastValue("deduplication_id", Empty)
          /\ error' \notin {"none", "serialization"}
      <4>1. CASE error' = "payload"
        BY <1>0, <3>1, <4>1, BuildRefusal
      <4>2. CASE error' = "header key"
        BY <1>0, <3>1, <3>2, <4>2, BuildRefusal
      <4>3. CASE error' = "header value"
        BY <1>0, <3>1, <4>3, BuildRefusal
      <4>4. CASE error' = "deduplication id"
        BY <1>0, <3>1, <4>4, BuildRefusal
      <4> QED BY <1>0, <3>1, <4>1, <4>2, <4>3, <4>4, BuildRefusal
    <3>4. ASSUME NEW f, NEW v
          PROVE  LastValue(f, v)' <=> LastValue(f, v)
      BY <3>1 DEF LastValue
    <3> QED BY <2>2, <3>3, <3>4 DEF RejectionJustified
  <2> QED BY <2>1, <2>2
<1>7. ASSUME NEW key \in Values \cup {None}, FromJson(key)
      PROVE  RejectionJustified'
  <2>1. BuildErrors(JsonParts(key)) = {}
    <3>1. \A k \in HeaderKeys \ {"content-type"} :
             k \in Fields \ {"payload", "routing_key", "content-type"}
      BY <1>0
    <3>2. "deduplication_id" \in Fields \ {"payload", "routing_key", "content-type"}
      BY <1>0, MessageAssumption
    <3> QED BY <3>1, <3>2, JsonFields, JsonPasses
  <2>2. Verdict(JsonParts(key), BuildErrors(JsonParts(key))) /\ stage = "start"
    BY <1>7 DEF FromJson, JsonParts
  <2>3. stage' = "message" /\ UNCHANGED error
    BY <2>1, <2>2 DEF Verdict
  <2> QED BY <1>1, <2>2, <2>3
<1>8. CASE FromJsonFails
  BY <1>8 DEF FromJsonFails, Verdict, RejectionJustified, BuildInv
<1> QED BY <1>3, <1>4, <1>5, <1>6, <1>7, <1>8 DEF Next

\* An error names something that the last calls for a field got wrong.
THEOREM RejectionsExplained == Spec => []RejectionJustified
<1>1. Init => RejectionJustified
  BY DEF Init, RejectionJustified
<1> QED BY <1>1, RejectionNext, Inductive, PTL DEF Spec
=============================================================================
