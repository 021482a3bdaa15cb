------------------------------ MODULE QueueApi ------------------------------
(***************************************************************************)
(* The traits of buqueue-core on top of a backend that keeps the contract  *)
(* of QueueContract: how handles are built, wrapped and type-erased; the   *)
(* methods the traits provide (send_batch, send_at, try_receive,           *)
(* receive_batch, receive_graceful, messages, into_stream,                 *)
(* shutdown_handle) and which of them a call reaches: the trait's own or   *)
(* the one the backend overrides.                                          *)
(*                                                                         *)
(* A backend may fail any call, answer late or never, or need several      *)
(* polls for a receive; a future can be dropped wherever it waits.  Which  *)
(* of send_at, try_receive, shutdown_handle and receive_graceful it        *)
(* overrides is open.                                                      *)
(***************************************************************************)
EXTENDS Naturals, Sequences, FiniteSets, Functions

CONSTANTS
    Messages, MaxTime, MaxAttempts, MayLose,   \* those of the contract
    Backends,   \* for each backend, the provided methods it overrides
    MaxBatch    \* the largest batch asked for (bounds the model)

\* A backend with batches of its own is left out: send_batch, receive_batch and
\* the two streams are always the trait's.
ASSUME ApiAssumption ==
    /\ MaxTime \in Nat /\ MaxBatch \in Nat
    /\ Backends \subseteq SUBSET {"send_at", "try_receive", "shutdown_handle",
                                   "receive_graceful"}

VARIABLES
    unsent, offered, waiting, out, acked, exhausted, accepted, attempts,
    not_before, now   \* the backend, see QueueContract

Backend == INSTANCE QueueContract

VARIABLES
    \* the handles
    halves,     \* which of the producer and the consumer the application has
    overrides,  \* the provided methods this backend overrides
    reach,      \* the methods that reach the backend through all wrappers
    shutdown,   \* shutdown() was called on a handle from shutdown_handle()
    \* the producer's calls
    given,      \* the batch of a send_batch; send() is a batch of one
    ids,        \* the ids it has collected
    send_state, \* how that call stands
    wanted,     \* the delivery_at the application asked for, 0 for none
    \* the consumer's call
    pc,         \* "unbuilt", "idle", in "receive", or in "poll" (try_receive)
    call,       \* which call it is, or "none"; "next" is a poll of a stream
    max,        \* the size receive_batch was asked for
    batch,      \* the Vec it fills
    stream,     \* the stream made of the consumer: "none", or the method
    owned,      \* deliveries in the application's hands
    late        \* deliveries from graceful calls after shutdown

contractVars == <<unsent, offered, waiting, out, acked, exhausted, accepted,
                  attempts, not_before, now>>
handleVars  == <<halves, overrides, reach>>
sendVars    == <<given, ids, send_state, wanted>>
receiveVars == <<pc, call, max, batch, stream, owned, late>>
vars == <<contractVars, handleVars, shutdown, sendVars, receiveVars>>

-----------------------------------------------------------------------------
(* Method resolution *)

Halves == {"producer", "consumer"}

ProducerMethods == {"send", "send_batch", "send_at"}

ConsumerMethods ==
    {"receive", "try_receive", "receive_batch", "shutdown_handle",
     "receive_graceful", "messages", "into_stream"}

Methods == [producer |-> ProducerMethods, consumer |-> ConsumerMethods]

\* Seeded fault: a wrapper that leaves send_at to the trait's default.
DelegatedProducer_NoSendAt == ProducerMethods \ {"send_at"}

\* What ref_delegate! forwards to T, for &T, Box<T>, Arc<T> and &mut T.
\* into_stream is the trait's for T and the wrapper alike.
DelegatedProducer == ProducerMethods

DelegatedConsumer == ConsumerMethods

\* Seeded fault: a type-erased consumer with a shutdown handle of its own.
ErasedConsumer_OwnHandle == ConsumerMethods \ {"shutdown_handle", "into_stream"}

\* What a DynProducer and a DynConsumer pass on through the erased trait to the
\* value in the box; into_stream needs Self: Sized.
ErasedProducer == ProducerMethods

ErasedConsumer == ConsumerMethods \ {"into_stream"}

Delegated == [producer |-> DelegatedProducer, consumer |-> DelegatedConsumer]
Erased    == [producer |-> ErasedProducer, consumer |-> ErasedConsumer]

\* What reaches the backend once the halves S are in wrappers that pass on W.
Through(S, W) == reach \ UNION {Methods[h] \ W[h] : h \in S}

\* The call of a provided method runs the backend's version of it.
Native(op) == op \in overrides \cap reach

\* The default shutdown_handle makes a new handle each time it is called, so
\* that nobody holds one that the consumer looks at.
Signalled == shutdown /\ Native("shutdown_handle")

-----------------------------------------------------------------------------
(* Builders and wrappers *)

\* What build_pair, build_producer and build_consumer leave the caller with.
Products == {{"producer", "consumer"}, {"producer"}, {"consumer"}}

Init ==
    /\ Backend!Init
    /\ halves = {}
    /\ overrides \in Backends
    /\ reach = ProducerMethods \cup ConsumerMethods
    /\ shutdown = FALSE
    /\ given = <<>> /\ ids = <<>> /\ send_state = "idle"
    /\ wanted = [m \in Messages |-> 0]
    /\ pc = "unbuilt" /\ call = "none" /\ max = 0
    /\ batch = <<>> /\ stream = "none"
    /\ owned = {} /\ late = 0

\* builder.build_*(), or builder.make_dynamic().build_*().
Build(S, dynamic) ==
    /\ pc = "unbuilt"
    /\ pc' = "idle"
    /\ halves' = S
    /\ reach' = IF dynamic THEN Through(S, Erased) ELSE reach
    /\ UNCHANGED <<contractVars, overrides, shutdown, sendVars>>
    /\ UNCHANGED <<call, max, batch, stream, owned, late>>

Sending == send_state # "idle"

\* The half can be moved: no call of it is in progress.
Free(h) ==
    /\ h \in halves
    /\ IF h = "consumer" THEN pc = "idle" /\ stream = "none" ELSE ~Sending

\* The application puts the half behind a reference, a Box or an Arc.
Wrap(h) ==
    /\ Free(h)
    /\ reach' = Through({h}, Delegated)
    /\ UNCHANGED <<contractVars, halves, overrides, shutdown, sendVars, receiveVars>>

IntoDyn(h) ==
    /\ Free(h)
    /\ h = "consumer" => "into_stream" \in reach   \* else it is erased already
    /\ reach' = Through({h}, Erased)
    /\ UNCHANGED <<contractVars, halves, overrides, shutdown, sendVars, receiveVars>>

\* ShutdownHandle::shutdown, on a handle that shutdown_handle() gave.
Shutdown ==
    /\ "consumer" \in halves
    /\ ~shutdown
    /\ shutdown' = TRUE
    /\ UNCHANGED <<contractVars, handleVars, sendVars, receiveVars>>

-----------------------------------------------------------------------------
(* QueueProducer *)

\* send_batch takes a Vec of messages, possibly an empty one.
SendBatch(msgs) ==
    /\ "producer" \in halves
    /\ ~Sending
    /\ Backend!Offer(Range(msgs))
    /\ given' = msgs
    /\ send_state' = "running"
    /\ UNCHANGED <<handleVars, shutdown, ids, wanted, receiveVars>>

\* Seeded fault: the batch popped from its end.
Upcoming_Popped == given[Len(given) - Len(ids)]

\* The message whose send the for loop awaits.
Upcoming == given[Len(ids) + 1]

\* The messages of the batch that the future still owns.
Unprocessed == Range(given) \cap offered

BatchSends ==
    /\ send_state = "running"
    /\ Len(ids) < Len(given)
    /\ Backend!Accept(Upcoming, 0)
    /\ ids' = Append(ids, Upcoming)
    /\ UNCHANGED <<handleVars, shutdown, given, send_state, wanted, receiveVars>>

\* The backend takes the message and its answer is lost, as by a timeout.
BatchUnanswered ==
    /\ send_state = "running"
    /\ Len(ids) < Len(given)
    /\ Backend!Accept(Upcoming, 0)
    /\ send_state' = "doomed"
    /\ UNCHANGED <<handleVars, shutdown, given, ids, wanted, receiveVars>>

\* The call returns, or is dropped: so are its messages and the ids.
EndBatch ==
    /\ Backend!Refuse(Unprocessed)
    /\ given' = <<>> /\ ids' = <<>> /\ send_state' = "idle"
    /\ UNCHANGED <<handleVars, shutdown, wanted, receiveVars>>

\* `?`: the first error is returned.
BatchFails ==
    /\ \/ send_state = "running" /\ Len(ids) < Len(given)
       \/ send_state = "doomed"
    /\ EndBatch

BatchDone ==
    /\ send_state = "running"
    /\ Len(ids) = Len(given)
    /\ EndBatch

\* The caller drops the future of send_batch.
CancelBatch == Sending /\ EndBatch

SendAt(m, at) ==
    /\ "producer" \in halves
    /\ Backend!Offer({m})
    /\ wanted' = [wanted EXCEPT ![m] = at]
    /\ UNCHANGED <<handleVars, shutdown, given, ids, send_state, receiveVars>>

\* The default send_at warns and sends at once.
SendAtCompletes(m) ==
    /\ wanted[m] > 0
    /\ Backend!Accept(m, IF Native("send_at") THEN wanted[m] ELSE 0)
    /\ UNCHANGED <<handleVars, shutdown, sendVars, receiveVars>>

\* It fails, or its future is dropped.
SendAtFails(m) ==
    /\ wanted[m] > 0
    /\ Backend!Refuse({m})
    /\ UNCHANGED <<handleVars, shutdown, sendVars, receiveVars>>

DropProducer ==
    /\ "producer" \in halves
    /\ ~Sending
    /\ offered = {}
    /\ halves' = halves \ {"producer"}
    /\ UNCHANGED <<contractVars, overrides, reach, shutdown,
                   sendVars, receiveVars>>

-----------------------------------------------------------------------------
(* QueueConsumer *)

\* The calls that give up when shutdown is signalled.
GracefulCalls == {"receive_graceful", "next"}

\* A future or a handle that keeps the messages S is dropped: the backend may
\* still have them, or may have lost some.
LetGo(S) == \/ UNCHANGED contractVars
            \/ \E L \in SUBSET S : Backend!Lose(L)

\* The application calls c on a consumer that no call or stream borrows.
Start(c) ==
    /\ "consumer" \in halves
    /\ pc = "idle"
    /\ (c = "next") <=> (stream # "none")
    /\ UNCHANGED <<overrides, reach, shutdown, sendVars, batch, owned, late>>

CallReceive ==
    /\ Start("receive")
    /\ pc' = "receive"
    /\ call' = "receive"
    /\ UNCHANGED <<contractVars, halves, max, stream>>

CallTryReceive ==
    /\ Start("try_receive")
    /\ pc' = "poll"
    /\ call' = "try_receive"
    /\ UNCHANGED <<contractVars, halves, max, stream>>

CallReceiveBatch(n) ==
    /\ Start("receive_batch")
    /\ pc' = "receive"
    /\ call' = "receive_batch"
    /\ max' = n
    /\ UNCHANGED <<contractVars, halves, stream>>

\* messages() borrows the consumer, into_stream() takes it.
OpenStream(method) ==
    /\ "consumer" \in halves
    /\ pc = "idle" /\ stream = "none"
    /\ method \in reach
    /\ stream' = method
    /\ UNCHANGED <<contractVars, handleVars, shutdown, sendVars>>
    /\ UNCHANGED <<pc, call, max, batch, owned, late>>

\* Seeded fault: a stream of messages() that owns the consumer.
EndStream_Owned == stream' = "none" /\ halves' = halves \ {"consumer"}

\* The stream is over: a borrowed consumer is free again, an owned one dropped.
EndStream ==
    /\ stream' = "none"
    /\ halves' = IF stream = "into_stream" THEN halves \ {"consumer"} ELSE halves

\* The locals of the call are gone.
Return == pc' = "idle" /\ call' = "none" /\ max' = 0 /\ batch' = <<>>

\* The call c returns None or an error and drops what keeps the messages S.
\* try_unfold ends a stream with its first None or error.
EndCall(c, S) ==
    /\ Return
    /\ IF c = "next" THEN EndStream ELSE UNCHANGED <<halves, stream>>
    /\ LetGo(IF halves' = halves THEN S ELSE waiting)

\* Seeded fault: the flag is not looked at before the race.
StopsAtOnce_Never == FALSE

\* `if self.shutdown_handle().is_shutdown() { return None; }`
StopsAtOnce == Signalled

\* receive_graceful, by itself or for the next item of a stream.
CallGraceful(c) ==
    /\ Start(c)
    /\ IF StopsAtOnce
       THEN EndCall(c, {})
       ELSE /\ pc' = "receive" /\ call' = c
            /\ UNCHANGED <<contractVars, halves, max, stream>>

\* Seeded fault: the Vec is started anew with every delivery.
Vec_Overwritten(m) == <<m>>

\* deliveries.push(delivery)
Vec(m) == Append(batch, m)

\* Seeded fault: `deliveries.len() <= max`.
Full_OffByOne(b) == call # "receive_batch" \/ Len(b) > max

\* Only receive_batch goes on, `while deliveries.len() < max`.
Full(b) == call # "receive_batch" \/ Len(b) >= max

\* receive, or the try_receive of a poll, returns m: the call returns with what
\* it has, or receive_batch polls again.
Collect(m) ==
    /\ Backend!Hand(m)
    /\ IF Full(Vec(m))
       THEN Return /\ owned' = owned \cup Range(Vec(m))
       ELSE pc' = "poll" /\ batch' = Vec(m) /\ UNCHANGED <<call, max, owned>>
    /\ late' = IF call \in GracefulCalls /\ shutdown /\ "shutdown_handle" \in overrides
               THEN late + 1 ELSE late
    /\ UNCHANGED <<handleVars, shutdown, sendVars, stream>>

ReceiveDone(m) == pc = "receive" /\ Collect(m)

PollHit(m) == pc = "poll" /\ Collect(m)

\* The call returns without a delivery more.
Leave(S) ==
    /\ EndCall(call, S)
    /\ UNCHANGED <<overrides, reach, shutdown, sendVars, late>>

\* receive returns an error.
ReceiveFails ==
    /\ pc = "receive"
    /\ Leave({})
    /\ UNCHANGED owned

\* wait_for_shutdown wins the race, and the receive future is dropped.
GracefulStop ==
    /\ pc = "receive"
    /\ call \in GracefulCalls
    /\ Signalled
    /\ Leave(waiting)
    /\ UNCHANGED owned

NothingReady ==
    ~ \E m \in Messages : Backend!Visible(m) /\ Backend!AttemptsLeft(m)

\* The step of a poll is the moment in which the backend looks into the queue.
\* Its own try_receive finds what is there then.  The trait's cuts receive() off
\* as soon as its timer fires, and receive() need not have got as far as the
\* message by then.  A backend's own may also never get there, as the in-memory
\* one that waits for the mutex or for room: then only Cancel ends it.
GivesUp == Native("try_receive") => NothingReady

\* try_receive returns None; the trait's drops the receive() it has polled.
PollMiss ==
    /\ pc = "poll"
    /\ GivesUp
    /\ Leave(IF Native("try_receive") THEN {} ELSE waiting)
    /\ owned' = owned \cup Range(batch)

\* `?`: try_receive returns an error, and the Vec is dropped with the
\* deliveries that are in it.
PollFails ==
    /\ pc = "poll"
    /\ Leave(Range(batch))
    /\ UNCHANGED owned

\* The future of the call is dropped, as by a timeout around it.  The future of
\* a stream's next item stays in the stream.
Cancel ==
    /\ pc \in {"receive", "poll"}
    /\ call # "next"
    /\ Leave(waiting \cup Range(batch))
    /\ UNCHANGED owned

\* The stream is dropped, and with it the future of its next item.
DropStream ==
    /\ stream # "none"
    /\ Return
    /\ EndStream
    /\ LetGo(IF pc = "receive" \/ halves' # halves THEN waiting ELSE {})
    /\ UNCHANGED <<overrides, reach, shutdown, sendVars, owned, late>>

DropConsumer ==
    /\ "consumer" \in halves
    /\ pc = "idle" /\ stream = "none"
    /\ halves' = halves \ {"consumer"}
    /\ LetGo(waiting)
    /\ UNCHANGED <<overrides, reach, shutdown, sendVars, receiveVars>>

-----------------------------------------------------------------------------
(* Delivery: ack and nack, which outlive the consumer *)

Settled(m) ==
    /\ m \in owned
    /\ owned' = owned \ {m}
    /\ UNCHANGED <<handleVars, shutdown, sendVars>>
    /\ UNCHANGED <<pc, call, max, batch, stream, late>>

Ack(m) == Settled(m) /\ Backend!Ack(m)

\* Without a consumer there may be nowhere to give the message back to.
Nack(m) ==
    /\ Settled(m)
    /\ \/ Backend!Return(m)
       \/ Backend!GiveUp(m)
       \/ "consumer" \notin halves /\ Backend!Lose({m})

Tick ==
    /\ Backend!Tick
    /\ UNCHANGED <<handleVars, shutdown, sendVars, receiveVars>>

-----------------------------------------------------------------------------

\* The batches an application sends: without repetition, in any order.
Batches == {b \in UNION {[1 .. n -> Messages] : n \in 0 .. MaxBatch} :
                \A i, j \in DOMAIN b : b[i] = b[j] => i = j}

ConsumerStep ==
    \/ \E m \in Messages : ReceiveDone(m) \/ PollHit(m)
    \/ PollMiss
    \/ GracefulStop

ProducerNext ==
    \/ \E msgs \in Batches : SendBatch(msgs)
    \/ BatchSends \/ BatchUnanswered \/ BatchFails \/ BatchDone \/ CancelBatch
    \/ \E m \in Messages : \/ \E at \in 1 .. MaxTime : SendAt(m, at)
                           \/ SendAtCompletes(m)
                           \/ SendAtFails(m)
    \/ DropProducer

ConsumerNext ==
    \/ CallReceive \/ CallTryReceive
    \/ \E n \in 0 .. MaxBatch : CallReceiveBatch(n)
    \/ \E c \in GracefulCalls : CallGraceful(c)
    \/ \E method \in {"messages", "into_stream"} : OpenStream(method)
    \/ ConsumerStep
    \/ ReceiveFails \/ PollFails \/ Cancel
    \/ DropStream \/ DropConsumer
    \/ \E m \in Messages : Ack(m) \/ Nack(m)

Next ==
    \/ \E S \in Products, dynamic \in BOOLEAN : Build(S, dynamic)
    \/ \E h \in Halves : Wrap(h) \/ IntoDyn(h)
    \/ Shutdown
    \/ ProducerNext
    \/ ConsumerNext
    \/ Tick

\* The task of a receive_graceful is woken by wait_for_shutdown and polled.  A
\* backend owes nobody the end of any other call.
Fairness == WF_vars(GracefulStop)

Spec == Init /\ [][Next]_vars

FairSpec == Spec /\ Fairness
-----------------------------------------------------------------------------
(* Properties *)

\* Type invariant.
TypeOK ==
    /\ halves \subseteq Halves
    /\ overrides \in Backends
    /\ reach \subseteq ProducerMethods \cup ConsumerMethods
    /\ shutdown \in BOOLEAN
    /\ given \in Seq(Messages) /\ ids \in Seq(Messages)
    /\ send_state \in {"idle", "running", "doomed"}
    /\ wanted \in [Messages -> 0 .. MaxTime]
    /\ pc \in {"unbuilt", "idle", "receive", "poll"}
    /\ call \in {"none", "receive", "try_receive", "receive_batch"} \cup GracefulCalls
    /\ max \in 0 .. MaxBatch
    /\ batch \in Seq(Messages) /\ (batch = <<>> \/ Len(batch) < MaxBatch)
    /\ stream \in {"none", "messages", "into_stream"}
    /\ owned \subseteq Messages
    /\ late \in Nat

\* A producer of a backend that schedules never has a message delivered before
\* the time asked for, however often the producer was put behind a reference, a
\* Box or an Arc or type-erased on the way: no wrapper falls back to the trait's
\* send_at, which sends at once.
ScheduleHonoured ==
    "send_at" \in overrides =>
        \A m \in Messages : attempts[m] > 0 => wanted[m] <= now

\* The ids of send_batch are those of the first messages of the batch, in their
\* order, and of all of them if it returns Ok.  When it returns an error or is
\* dropped at most one message more was sent, the one whose answer was awaited,
\* and none of them is still about to be sent.
BatchPrefix ==
    [][Sending /\ ~Sending' =>
          LET sent == Range(given) \cap accepted IN
          /\ ids = SubSeq(given, 1, Len(ids))
          /\ Range(ids) \subseteq sent
          /\ \A i \in Len(ids) + 2 .. Len(given) : given[i] \notin sent
          /\ BatchDone => ids = given
          /\ Range(given) \cap offered' = {}]_vars

\* receive_batch returns at least one delivery and at most max of them, except
\* that receive_batch(0) returns one; no other call returns more than one.
BatchBounds ==
    [][LET returned == owned' \ owned IN
          /\ returned # {} =>
                Cardinality(returned) <=
                    (IF call = "receive_batch" /\ max > 1 THEN max ELSE 1)
          /\ PollMiss /\ call = "receive_batch" => returned # {}]_vars

\* The messages in a delivery that no one has any more.
Stranded == out \ (owned \cup (IF pc = "poll" THEN Range(batch) ELSE {}))

\* A message that was received is in the hands of the application or in the Vec
\* that a receive_batch still fills: the only deliveries that are let go of
\* without an ack or a nack are those a receive_batch had collected when a later
\* poll of it failed or its future was dropped.
StrandedExplained ==
    [][\/ Stranded' \subseteq Stranded
       \/ call = "receive_batch" /\ pc = "poll" /\ (PollFails \/ Cancel)]_vars

\* Once shutdown was called on a handle of a backend that provides one, at most
\* one more delivery comes from receive_graceful or a stream, that of the call
\* that was waiting: also through a type-erased or boxed consumer.
AtMostOneAfterShutdown == "shutdown_handle" \in overrides => late <= 1

\* The messages that were in the queue or in a delivery and now are nowhere.
Vanished == (waiting \cup out) \ (waiting' \cup out' \cup acked' \cup exhausted')

\* What may take the message m out of the queue for good: the drop of a receive()
\* that had begun, also by the zero timeout of the trait's try_receive, or the
\* drop of the consumer.
QueuedLossExplained ==
    \/ pc = "receive" /\ (Cancel \/ GracefulStop \/ DropStream)
    \/ pc = "poll" /\ (Cancel \/ (PollMiss /\ "try_receive" \notin overrides))
    \/ DropConsumer
    \/ stream = "into_stream" /\ stream' = "none"

\* What may lose a message that was received: the drop of a Vec that was not yet
\* returned, or a nack without a consumer to take the message back.
ReceivedLossExplained(m) ==
    \/ m \in Range(batch) /\ (PollFails \/ Cancel)
    \/ "consumer" \notin halves /\ Nack(m)

\* These are all the losses.  In no wrapper does polling a backend that has a
\* try_receive of its own lose anything; the end of a stream of messages(), by
\* an error or by a shutdown it had not waited for, gives the consumer back with
\* all that is in its queue.
VanishedExplained ==
    [][/\ waiting \cap Vanished # {} => QueuedLossExplained
       /\ \A m \in out \cap Vanished : ReceivedLossExplained(m)]_vars

\* A receive_graceful or a stream that waits on a backend with a shutdown handle
\* returns once shutdown is called, whatever the consumer is wrapped in.
GracefulStops ==
    (shutdown /\ pc = "receive" /\ call \in GracefulCalls
        /\ "shutdown_handle" \in overrides) ~> (pc = "idle")
=============================================================================
