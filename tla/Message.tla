------------------------------ MODULE Message ------------------------------
(***************************************************************************)
(* The life of one message: built with the builder, with from_json or with *)
(* from_json_with_key, validated, changed by with_header and               *)
(* with_deduplication_id, sent as an Envelope of the in-memory backend,    *)
(* handed out as a Delivery, and requeued or given up when that is nack'd. *)
(*                                                                         *)
(* A message is a function from its fields to their values: the payload,   *)
(* the routing key, the deduplication id and one field for each header     *)
(* key.  `calls` records what the application asked for, and is what the   *)
(* properties compare the message with.                                    *)
(***************************************************************************)
EXTENDS Naturals, Sequences

CONSTANTS
    HeaderKeys,  \* the keys of headers, "content-type" among them
    BadKeys,     \* those that are empty or begin with "bq-"
    Values,      \* what a field is set to, the empty string among them
    None,        \* a field that is not set
    MaxCalls,    \* the calls that set a field (bounds the model)
    MaxAttempts, \* DlqConfig::max_receive_count
    MaxTime      \* the last tick of the clock (bounds the model)

Empty == ""
Json  == "json"   \* what serde_json makes of a value, and its content type

ASSUME MessageAssumption ==
    /\ "content-type" \in HeaderKeys \ BadKeys
    /\ BadKeys \subseteq HeaderKeys
    /\ HeaderKeys \cap {"payload", "routing_key", "deduplication_id"} = {}
    /\ {Empty, Json} \subseteq Values
    /\ None \notin Values
    /\ MaxCalls \in Nat /\ MaxAttempts \in Nat \ {0} /\ MaxTime \in Nat

Fields == {"payload", "routing_key", "deduplication_id"} \cup HeaderKeys

VARIABLES
    stage,     \* where the message is
    parts,     \* the fields of the builder, then of the Message
    error,     \* why a call was refused
    calls,     \* the calls that set a field, in their order
    envelope,  \* the Envelope that carries the message
    delivery,  \* the fields of the Delivery the application has
    visible,   \* the delivery_at of send_at
    first,     \* when a receive first handed the message out
    nacks,     \* how often it was nack'd
    now

buildVars == <<parts, error, calls>>
queueVars == <<envelope, delivery, visible, first, nacks>>
vars == <<stage, buildVars, queueVars, now>>

Stages == {"start", "building", "message", "failed", "queued", "held", "done"}
Errors == {"none", "serialization", "payload", "header key", "header value",
           "deduplication id"}

\* MessageBulder::default()
Unset == [f \in Fields |-> None]

NoEnvelope == [parts |-> Unset, delivery_count |-> 1, first_delivered |-> 0]

Init ==
    /\ stage = "start"
    /\ parts = Unset /\ error = "none" /\ calls = <<>>
    /\ envelope = NoEnvelope /\ delivery = NoEnvelope
    /\ visible = 0 /\ first = 0 /\ nacks = 0 /\ now = 0

-----------------------------------------------------------------------------
(* Validation *)

\* Seeded fault: the reserved prefix is not looked for.
KeyRefused_Reserved(k) == k = Empty

\* validate_header_key
KeyRefused(k) == k \in BadKeys

\* validate_header_key, then validate_header_value.
HeaderErrors(p, k) ==
    IF KeyRefused(k) THEN {"header key"}
    ELSE IF p[k] = Empty THEN {"header value"} ELSE {}

\* Seeded fault: the deduplication id is required.
IdErrors_Required(p) ==
    IF p["deduplication_id"] \in {None, Empty} THEN {"deduplication id"} ELSE {}

IdErrors(p) ==
    IF p["deduplication_id"] = Empty THEN {"deduplication id"} ELSE {}

\* What build may say of the fields p: the payload comes first, then the first
\* bad header in the order of the HashMap, which is any, then the id.
BuildErrors(p) ==
    LET headers == UNION {HeaderErrors(p, k) : k \in {x \in HeaderKeys : p[x] # None}}
    IN  IF p["payload"] \in {None, Empty} THEN {"payload"}
        ELSE IF headers # {} THEN headers ELSE IdErrors(p)

-----------------------------------------------------------------------------
(* Building *)

\* Seeded fault: a field that is set keeps its first value.
Set_KeepsFirst(p, f, v) == IF p[f] = None THEN [p EXCEPT ![f] = v] ELSE p

\* A setter replaces the field, as HashMap::insert does a header.
Set(p, f, v) == [p EXCEPT ![f] = v]

Call(f, v) == [field |-> f, value |-> v]

\* The fields p pass, or the value they are in is dropped with an error.
Verdict(p, errors) ==
    IF errors = {} THEN stage' = "message" /\ parts' = p /\ UNCHANGED error
                   ELSE stage' = "failed" /\ error' \in errors /\ UNCHANGED parts

Builder ==
    /\ stage = "start"
    /\ stage' = "building"
    /\ UNCHANGED <<buildVars, queueVars, now>>

\* payload, header, routing_key and deduplication_id of the builder: no check.
SetField(f, v) ==
    /\ stage = "building"
    /\ Len(calls) < MaxCalls
    /\ parts' = Set(parts, f, v)
    /\ calls' = Append(calls, Call(f, v))
    /\ UNCHANGED <<stage, error, queueVars, now>>

Build ==
    /\ stage = "building"
    /\ Verdict(parts, BuildErrors(parts))
    /\ UNCHANGED <<calls, queueVars, now>>

\* from_json, without a routing key, and from_json_with_key.
FromJson(key) ==
    /\ stage = "start"
    /\ LET p == Set(Set(Set(Unset, "payload", Json), "routing_key", key),
                    "content-type", Json)
       IN  Verdict(p, BuildErrors(p))
    /\ calls' = IF key = None
                THEN <<Call("payload", Json), Call("content-type", Json)>>
                ELSE <<Call("payload", Json), Call("routing_key", key),
                       Call("content-type", Json)>>
    /\ UNCHANGED <<queueVars, now>>

\* serde_json::to_vec fails.
FromJsonFails ==
    /\ stage = "start"
    /\ Verdict(Unset, {"serialization"})
    /\ UNCHANGED <<calls, queueVars, now>>

\* with_header and with_deduplication_id consume the message, and give it back
\* only if the new value passes.
With(f, v) ==
    /\ stage = "message"
    /\ Len(calls) < MaxCalls
    /\ f \in HeaderKeys \cup {"deduplication_id"}
    /\ LET p == Set(parts, f, v)
       IN  Verdict(p, IF f \in HeaderKeys THEN HeaderErrors(p, f) ELSE IdErrors(p))
    /\ calls' = Append(calls, Call(f, v))
    /\ UNCHANGED <<queueVars, now>>

-----------------------------------------------------------------------------
(* Carrying *)

\* An Envelope has no place for the deduplication id.
Carried(p) == [p EXCEPT !["deduplication_id"] = None]

\* Seeded fault: the routing key is forgotten as well.
NewEnvelope_NoRoutingKey(p) ==
    [parts |-> [Carried(p) EXCEPT !["routing_key"] = None],
     delivery_count |-> 1, first_delivered |-> now]

NewEnvelope(p) ==
    [parts |-> Carried(p), delivery_count |-> 1, first_delivered |-> now]

\* Seeded fault: the first delivery is stamped at each nack.
Requeued_Restamped(e) ==
    [e EXCEPT !.delivery_count = @ + 1, !.first_delivered = now]

Requeued(e) == [e EXCEPT !.delivery_count = @ + 1]

\* send, or send_at with a delivery_at that may be past.
Send(at) ==
    /\ stage = "message"
    /\ stage' = "queued"
    /\ envelope' = NewEnvelope(parts)
    /\ visible' = at
    /\ UNCHANGED <<buildVars, delivery, first, nacks, now>>

\* A receive call makes a Delivery of the envelope.
Receive ==
    /\ stage = "queued"
    /\ visible <= now
    /\ stage' = "held"
    /\ delivery' = envelope
    /\ first' = IF nacks = 0 THEN now ELSE first
    /\ UNCHANGED <<buildVars, envelope, visible, nacks, now>>

Ack ==
    /\ stage = "held"
    /\ stage' = "done"
    /\ UNCHANGED <<buildVars, queueVars, now>>

\* Seeded fault: one attempt too many.
Exhausted_OffByOne(n) == n > MaxAttempts

Exhausted(n) == n >= MaxAttempts

\* The envelope of the ack handle is requeued with its count raised.
Nack ==
    /\ stage = "held"
    /\ nacks' = nacks + 1
    /\ IF Exhausted(nacks')
       THEN stage' = "done" /\ UNCHANGED envelope
       ELSE stage' = "queued" /\ envelope' = Requeued(envelope)
    /\ UNCHANGED <<buildVars, delivery, visible, first, now>>

Tick ==
    /\ now < MaxTime
    /\ now' = now + 1
    /\ UNCHANGED <<stage, buildVars, queueVars>>

-----------------------------------------------------------------------------

Next ==
    \/ Builder
    \/ \E f \in Fields, v \in Values : SetField(f, v) \/ With(f, v)
    \/ Build
    \/ \E key \in Values \cup {None} : FromJson(key)
    \/ FromJsonFails
    \/ \E at \in 0 .. MaxTime : Send(at)
    \/ Receive \/ Ack \/ Nack
    \/ Tick

Spec == Init /\ [][Next]_vars

-----------------------------------------------------------------------------
(* Properties *)

Parts == [Fields -> Values \cup {None}]

EnvelopeType == [parts : Parts, delivery_count : 1 .. MaxAttempts,
                 first_delivered : 0 .. MaxTime]

\* Type invariant: what travels has a count from 1 to the limit.
TypeOK ==
    /\ stage \in Stages
    /\ parts \in Parts
    /\ error \in Errors
    /\ calls \in Seq([field : Fields, value : Values])
    /\ envelope \in EnvelopeType /\ delivery \in EnvelopeType
    /\ visible \in 0 .. MaxTime /\ first \in 0 .. MaxTime
    /\ nacks \in 0 .. MaxAttempts
    /\ now \in 0 .. MaxTime

\* The value the application gave the field last, if it gave one.
LastValue(f, v) ==
    \/ v = None /\ \A i \in DOMAIN calls : calls[i].field # f
    \/ \E i \in DOMAIN calls :
          /\ calls[i].field = f /\ calls[i].value = v
          /\ \A j \in i + 1 .. Len(calls) : calls[j].field # f

IsMessage == stage \in {"message", "queued", "held", "done"}

Valid(p) ==
    /\ p["payload"] \notin {None, Empty}
    /\ \A k \in HeaderKeys : p[k] # None => k \notin BadKeys /\ p[k] # Empty
    /\ p["deduplication_id"] # Empty

\* Whatever way a message was made and changed on, by the builder, from_json or
\* the with_ methods, a message that exists is valid, and so is what a consumer
\* gets of it: a payload, no header under an empty key or one reserved for
\* buqueue, no empty header value.
EveryMessageValid ==
    /\ IsMessage => Valid(parts)
    /\ stage = "held" => Valid(delivery.parts)

\* A message has in each field the value that was set last, across the builder
\* and the with_ methods, also over the content type that from_json sets.
LastCallWins == IsMessage => \A f \in Fields : LastValue(f, parts[f])

\* An error names something the last calls got wrong: an empty value that was
\* replaced before build() does not count.
RejectionJustified ==
    /\ (error # "none") <=> (stage = "failed")
    /\ error = "serialization" => calls = <<>>
    /\ error = "payload" =>
          LastValue("payload", None) \/ LastValue("payload", Empty)
    /\ error = "header key" => \E k \in BadKeys : ~LastValue(k, None)
    /\ error = "header value" =>
          \E k \in HeaderKeys \ BadKeys : LastValue(k, Empty)
    /\ error = "deduplication id" => LastValue("deduplication_id", Empty)

\* Every delivery of the message, the first and those after a nack, has the
\* payload, the headers and the routing key it was sent with, and the number of
\* this attempt; only the deduplication id is not delivered.
DeliveredAsBuilt ==
    stage = "held" =>
        /\ \A f \in Fields \ {"deduplication_id"} : delivery.parts[f] = parts[f]
        /\ delivery.delivery_count = nacks + 1

\* first_delivery_at is the same on every delivery of a message, and not after
\* the first.
FirstDeliveryStable ==
    [][stage = "queued" /\ stage' = "held" =>
          /\ delivery'.first_delivered <= first'
          /\ nacks > 0 => delivery'.first_delivered = delivery.first_delivered]_vars
=============================================================================
