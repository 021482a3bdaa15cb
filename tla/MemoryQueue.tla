---------------------------- MODULE MemoryQueue ----------------------------
(***************************************************************************)
(* The in-memory backend of buqueue, crates/buqueue-memory: the producer   *)
(* handles, the bounded tokio mpsc channel, the state they share with the  *)
(* consumer under an async mutex, the consumer's three receive calls, and  *)
(* the ack handle of every delivery.                                       *)
(*                                                                         *)
(* Each future is cut at its await points, so that the steps of different  *)
(* tasks interleave as they do on tokio's multi-threaded runtime, and a    *)
(* future can be dropped (cancelled) wherever it can be suspended.          *)
(***************************************************************************)
EXTENDS Envelope

CONSTANTS
    Producers,         \* names for the clones of the producer handle
    Capacity,          \* MemoryConfig::capacity
    DlqConfigured,     \* was the builder given a DlqConfig?
    MaxReceiveCount,   \* DlqConfig::max_receive_count, if it was
    Usage              \* the API calls the application makes

ASSUME QueueAssumption ==
    /\ Producers # {}
    /\ Capacity \in Nat \ {0}          \* mpsc::channel panics on 0
    /\ DlqConfigured \in BOOLEAN
    /\ MaxReceiveCount \in 0 .. U32Max \* the field is pub: 0 gets past new()

ReceiveCalls == {"receive", "try_receive", "receive_graceful"}

Results == {"none", "pending", "delivery", "empty", "stopped", "cancelled",
            "ConsumerShutdown", "ConnectionLost"}

VARIABLES
    \* the mpsc channel
    channel,      \* envelopes sent and not yet received, oldest first
    rx_open,      \* the MemoryConsumer, which owns the Receiver, is alive
    \* SharedState and the tokio Mutex around it
    lock,         \* who holds the mutex across an await: "free" if nobody
    nack_counts,  \* nacks per id; entries are never removed, absent is 0
    scheduled,    \* messages accepted by send_at and not yet taken by a flush
    dlq,          \* what a reader of the dead letter channel could receive
    \* producers and their futures
    producers,    \* live MemoryProducer handles, each a liveness sender
    unsent,       \* messages no send call has been made for
    sending,      \* send futures awaiting room in the channel
    scheduling,   \* send_at futures awaiting the mutex
    \* the consumer and its current call
    pc,           \* where the call stands, "idle" between calls
    call,         \* which of ReceiveCalls it is
    result,       \* how the last call returned
    due,          \* the flush loop's local map of due envelopes
    wake_at,      \* the deadline of the select's timer, Never for pending()
    \* deliveries
    held,         \* envelopes of the Delivery values the application holds
    nacking,      \* nack futures awaiting the mutex
    requeuing,    \* nack futures holding the mutex and awaiting room
    \* environment
    shutdown,     \* the watch channel behind every ShutdownHandle
    now,          \* Utc::now()
    \* history, read by no action
    accepted,     \* ids for which send or send_at returned Ok
    handed,       \* how often each message was returned by a receive call
    acked,        \* ids whose delivery was ack'd
    exhausted,    \* ids whose nack reached the receive limit
    visible_at    \* the delivery_at of each send_at, 0 for a plain send

channelVars  == <<channel, rx_open>>
sharedVars   == <<lock, nack_counts, scheduled, dlq>>
producerVars == <<producers, unsent, sending, scheduling>>
consumerVars == <<pc, call, result, due, wake_at>>
deliveryVars == <<held, nacking, requeuing>>
environmentVars == <<shutdown, now>>
historyVars  == <<accepted, handed, acked, exhausted, visible_at>>

vars == <<channelVars, sharedVars, producerVars, consumerVars, deliveryVars,
          environmentVars, historyVars>>

\* MemoryBackend::builder(config)...build_pair(): one producer, one consumer.
Init ==
    /\ channel = <<>>
    /\ rx_open = TRUE
    /\ lock = "free"
    /\ nack_counts = [m \in Messages |-> 0]
    /\ scheduled = NothingScheduled
    /\ dlq = <<>>
    /\ \E p \in Producers : producers = {p}
    /\ unsent = Messages
    /\ sending = {}
    /\ scheduling = {}
    /\ pc = "idle"
    /\ call = "receive"
    /\ result = "none"
    /\ due = NothingScheduled
    /\ wake_at = Never
    /\ held = {}
    /\ nacking = {}
    /\ requeuing = {}
    /\ shutdown = FALSE
    /\ now = 0
    /\ accepted = {}
    /\ handed = [m \in Messages |-> 0]
    /\ acked = {}
    /\ exhausted = {}
    /\ visible_at = [m \in Messages |-> 0]

-----------------------------------------------------------------------------
(* tokio::sync::mpsc, modelled from how the crate uses it: `send().await` on
   a full channel suspends, on one without a receiver fails. *)

\* Seeded fault: one permit too many.
HasRoom_OffByOne == Len(channel) <= Capacity

HasRoom == Len(channel) < Capacity

Push(e) == channel' = Append(channel, e)

-----------------------------------------------------------------------------
(* MemoryProducer *)

\* A handle with a send or send_at in flight is borrowed: it cannot be dropped.
Busy(p) == \E s \in sending \cup scheduling : s.by = p

\* #[derive(Clone)]: the clone holds a liveness sender of its own.
CloneProducer(p, q) ==
    /\ "clone_producer" \in Usage
    /\ p \in producers
    /\ q \notin producers
    /\ producers' = producers \cup {q}
    /\ UNCHANGED <<unsent, sending, scheduling>>
    /\ UNCHANGED <<channelVars, sharedVars, consumerVars, deliveryVars,
                   environmentVars, historyVars>>

DropProducer(p) ==
    /\ "drop_producer" \in Usage
    /\ p \in producers
    /\ ~Busy(p)
    /\ producers' = producers \ {p}
    /\ UNCHANGED <<unsent, sending, scheduling>>
    /\ UNCHANGED <<channelVars, sharedVars, consumerVars, deliveryVars,
                   environmentVars, historyVars>>

\* send(), up to its await.
Send(p, m) ==
    /\ "send" \in Usage
    /\ p \in producers
    /\ m \in unsent
    /\ unsent' = unsent \ {m}
    /\ sending' = sending \cup {[by |-> p, env |-> NewEnvelope(m)]}
    /\ UNCHANGED <<producers, scheduling>>
    /\ UNCHANGED <<channelVars, sharedVars, consumerVars, deliveryVars,
                   environmentVars, historyVars>>

\* The channel takes the envelope and send returns Ok(id).
SendCompletes(s) ==
    /\ s \in sending
    /\ rx_open
    /\ HasRoom
    /\ Push(s.env)
    /\ sending' = sending \ {s}
    /\ accepted' = accepted \cup {s.env.id}
    /\ UNCHANGED <<rx_open, producers, unsent, scheduling>>
    /\ UNCHANGED <<handed, acked, exhausted, visible_at>>
    /\ UNCHANGED <<sharedVars, consumerVars, deliveryVars, environmentVars>>

\* The receiver is gone: send returns ConnectionLost.
SendFails(s) ==
    /\ s \in sending
    /\ ~rx_open
    /\ sending' = sending \ {s}
    /\ UNCHANGED <<producers, unsent, scheduling>>
    /\ UNCHANGED <<channelVars, sharedVars, consumerVars, deliveryVars,
                   environmentVars, historyVars>>

\* send_at(), up to its await.
SendAt(p, m, at) ==
    /\ "send_at" \in Usage
    /\ p \in producers
    /\ m \in unsent
    /\ unsent' = unsent \ {m}
    /\ scheduling' = scheduling \cup
                       {[by |-> p, env |-> NewEnvelope(m), at |-> at]}
    /\ UNCHANGED <<producers, sending>>
    /\ UNCHANGED <<channelVars, sharedVars, consumerVars, deliveryVars,
                   environmentVars, historyVars>>

\* The critical section of send_at has no await: it is one step.  It succeeds
\* whether or not the consumer is still there.
SendAtCompletes(s) ==
    /\ s \in scheduling
    /\ lock = "free"
    /\ scheduled' = Schedule(scheduled, s.at, s.env)
    /\ scheduling' = scheduling \ {s}
    /\ accepted' = accepted \cup {s.env.id}
    /\ visible_at' = [visible_at EXCEPT ![s.env.id] = s.at]
    /\ UNCHANGED <<lock, nack_counts, dlq, producers, unsent, sending>>
    /\ UNCHANGED <<handed, acked, exhausted>>
    /\ UNCHANGED <<channelVars, consumerVars, deliveryVars, environmentVars>>

\* The caller drops a send or send_at future that is still waiting.
CancelSend(s) ==
    /\ "cancel_send" \in Usage
    /\ s \in sending \cup scheduling
    /\ sending' = sending \ {s}
    /\ scheduling' = scheduling \ {s}
    /\ UNCHANGED <<producers, unsent>>
    /\ UNCHANGED <<channelVars, sharedVars, consumerVars, deliveryVars,
                   environmentVars, historyVars>>

-----------------------------------------------------------------------------
(* MemoryConsumer.  `&mut self` admits one call at a time.  A call steps
   through

     receive           check -> lock_flush -> flush -> try_recv -> lock_next
                       -> poll_recv -> poll_timer -> poll_liveness -> parked
     try_receive       lock_flush -> flush -> try_recv
     receive_graceful  poll_shutdown, then as receive

   and ends in idle.  The three polls are one poll of the biased select!:
   other threads run between them. *)

ConsumerStates == {"idle", "check", "lock_flush", "flush", "try_recv",
                   "lock_next", "poll_recv", "poll_timer", "poll_liveness",
                   "parked", "poll_shutdown"}

\* Seeded fault: a select that polls the shutdown signal only once.
AwaitPoints_NotParked == {"lock_flush", "flush", "lock_next"}

\* Where the future of a receive call can be suspended, hence dropped: waiting,
\* or made to yield by tokio because its task has run for too long.
AwaitPoints == {"lock_flush", "flush", "lock_next", "parked"}

\* The call returns r, and its locals go.
Return(r) ==
    /\ pc' = "idle"
    /\ result' = r
    /\ wake_at' = Never

\* make_delivery and the return of its delivery.
Deliver ==
    /\ channel' = Tail(channel)
    /\ held' = held \cup {Head(channel)}
    /\ handed' = [handed EXCEPT ![Head(channel).id] = @ + 1]
    /\ Return("delivery")

\* Seeded fault: the guard outlives the future it belongs to.
LockAfterDrop_Leaked == lock

\* Seeded fault: the drop unlocks the mutex, whoever holds it.
LockAfterDrop_Anyone == "free"

\* Dropping the future of a receive call drops its locals: the mutex guard...
LockAfterDrop == IF pc = "flush" THEN "free" ELSE lock

\* ...and the due envelopes that the flush loop has not sent yet.
DropReceiveFuture ==
    /\ lock' = LockAfterDrop
    /\ due' = NothingScheduled

\* The application starts call c on an idle consumer.
Start(c) ==
    /\ c \in Usage
    /\ rx_open
    /\ pc = "idle"
    /\ call' = c
    /\ UNCHANGED <<channelVars, sharedVars, producerVars, due,
                   deliveryVars, environmentVars, historyVars>>

\* The call goes to its state s.
Enter(s) ==
    /\ pc' = s
    /\ result' = "pending"
    /\ UNCHANGED wake_at

CallReceive == Start("receive") /\ Enter("check")

CallTryReceive == Start("try_receive") /\ Enter("lock_flush")

\* receive_graceful returns None at once if shutdown was signalled before.
CallReceiveGraceful ==
    /\ Start("receive_graceful")
    /\ IF shutdown THEN Return("stopped") ELSE Enter("poll_shutdown")

\* The first poll of receive_graceful's select!: shutdown is pending, so
\* receive() is polled.
PollReceive ==
    /\ pc = "poll_shutdown"
    /\ ~shutdown
    /\ Enter("check")
    /\ UNCHANGED <<call, due>>
    /\ UNCHANGED <<channelVars, sharedVars, producerVars, deliveryVars,
                   environmentVars, historyVars>>

\* A later poll of that select! sees the signal first: receive_graceful
\* returns None and the receive() future it raced is dropped.
StopGraceful ==
    /\ call = "receive_graceful"
    /\ shutdown
    /\ pc \in AwaitPoints \cup {"poll_shutdown"}
    /\ DropReceiveFuture
    /\ Return("stopped")
    /\ UNCHANGED <<nack_counts, scheduled, dlq, call>>
    /\ UNCHANGED <<channelVars, producerVars, deliveryVars, environmentVars,
                   historyVars>>

\* The caller drops the future of any of the three calls, as a timeout does.
CancelReceive ==
    /\ "cancel_receive" \in Usage
    /\ pc \in AwaitPoints
    /\ DropReceiveFuture
    /\ Return("cancelled")
    /\ UNCHANGED <<nack_counts, scheduled, dlq, call>>
    /\ UNCHANGED <<channelVars, producerVars, deliveryVars, environmentVars,
                   historyVars>>

\* The top of receive's loop.
CheckShutdown ==
    /\ pc = "check"
    /\ IF shutdown THEN Return("ConsumerShutdown") ELSE Enter("lock_flush")
    /\ UNCHANGED <<call, due>>
    /\ UNCHANGED <<channelVars, sharedVars, producerVars, deliveryVars,
                   environmentVars, historyVars>>

\* flush_scheduled gets the mutex; flush_due_scheduled splits the map.
FlushLock ==
    /\ pc = "lock_flush"
    /\ lock = "free"
    /\ lock' = "consumer"
    /\ due' = DueBy(scheduled, now)
    /\ scheduled' = NotDueBy(scheduled, now)
    /\ pc' = "flush"
    /\ UNCHANGED <<nack_counts, dlq, call, result, wake_at>>
    /\ UNCHANGED <<channelVars, producerVars, deliveryVars, environmentVars,
                   historyVars>>

\* One turn of the flush loop, with the mutex held: it waits for room in the
\* channel that only this consumer empties.
FlushSend ==
    /\ pc = "flush"
    /\ Keys(due) # {}
    /\ HasRoom
    /\ Push(Head(due[FirstKey(due)]))
    /\ due' = Unflushed(due)
    /\ UNCHANGED <<rx_open, pc, call, result, wake_at>>
    /\ UNCHANGED <<sharedVars, producerVars, deliveryVars, environmentVars,
                   historyVars>>

FlushDone ==
    /\ pc = "flush"
    /\ Keys(due) = {}
    /\ lock' = "free"
    /\ pc' = "try_recv"
    /\ UNCHANGED <<nack_counts, scheduled, dlq, call, result, due, wake_at>>
    /\ UNCHANGED <<channelVars, producerVars, deliveryVars, environmentVars,
                   historyVars>>

\* rx.try_recv() after the flush.  It never reports Disconnected, since the
\* consumer itself holds a sender.
TryRecv ==
    /\ pc = "try_recv"
    /\ \/ /\ channel # <<>>
          /\ Deliver
       \/ /\ channel = <<>>
          /\ IF call = "try_receive" THEN Return("empty")
                                     ELSE Enter("lock_next")
          /\ UNCHANGED <<channel, held, handed>>
    /\ UNCHANGED <<rx_open, call, due, nacking, requeuing>>
    /\ UNCHANGED <<accepted, acked, exhausted, visible_at>>
    /\ UNCHANGED <<sharedVars, producerVars, environmentVars>>

\* The timer's deadline is fixed here, once per turn of receive's loop.
ReadNextScheduled ==
    /\ pc = "lock_next"
    /\ lock = "free"
    /\ wake_at' = next_scheduled_at(scheduled)
    /\ pc' = "poll_recv"
    /\ UNCHANGED <<call, result, due>>
    /\ UNCHANGED <<channelVars, sharedVars, producerVars, deliveryVars,
                   environmentVars, historyVars>>

\* The first branch of the select!: rx.recv().
PollRecv ==
    /\ pc = "poll_recv"
    /\ \/ /\ channel # <<>>
          /\ Deliver
       \/ /\ channel = <<>>
          /\ Enter("poll_timer")
          /\ UNCHANGED <<channel, held, handed>>
    /\ UNCHANGED <<rx_open, call, due, nacking, requeuing>>
    /\ UNCHANGED <<accepted, acked, exhausted, visible_at>>
    /\ UNCHANGED <<sharedVars, producerVars, environmentVars>>

\* The second branch: an elapsed sleep restarts receive's loop...
TimerElapsed ==
    /\ pc = "poll_timer"
    /\ now >= wake_at
    /\ pc' = "check"
    /\ wake_at' = Never
    /\ UNCHANGED <<call, result, due>>
    /\ UNCHANGED <<channelVars, sharedVars, producerVars, deliveryVars,
                   environmentVars, historyVars>>

\* ...and one that is pending, as a sleep can be for up to a millisecond more
\* than was asked of it (tokio rounds deadlines up), lets the select! go on.
TimerPending ==
    /\ pc = "poll_timer"
    /\ Enter("poll_liveness")
    /\ UNCHANGED <<call, due>>
    /\ UNCHANGED <<channelVars, sharedVars, producerVars, deliveryVars,
                   environmentVars, historyVars>>

\* Seeded fault: the last clone is not counted.
NoProducer_LastNotCounted == \A p, q \in producers : p = q

\* Every sender of the liveness channel is dropped.
NoProducer == producers = {}

\* The third branch: liveness_rx.recv() yields None once no producer is left.
PollLiveness ==
    /\ pc = "poll_liveness"
    /\ IF NoProducer THEN Return("ConnectionLost") ELSE Enter("parked")
    /\ UNCHANGED <<call, due>>
    /\ UNCHANGED <<channelVars, sharedVars, producerVars, deliveryVars,
                   environmentVars, historyVars>>

\* Seeded faults: a select! that does not register one of its wakers.
WakeReady_NoChannel == now >= wake_at \/ NoProducer
WakeReady_NoLiveness == channel # <<>> \/ now >= wake_at

\* Some branch of the suspended select! can make progress.
WakeReady == channel # <<>> \/ now >= wake_at \/ NoProducer

\* The task is polled again.  receive_graceful polls shutdown before receive.
Wake ==
    /\ pc = "parked"
    /\ WakeReady
    /\ ~(call = "receive_graceful" /\ shutdown)
    /\ Enter("poll_recv")
    /\ UNCHANGED <<call, due>>
    /\ UNCHANGED <<channelVars, sharedVars, producerVars, deliveryVars,
                   environmentVars, historyVars>>

\* Dropping the consumer drops the Receiver and what is in the channel.
DropConsumer ==
    /\ "drop_consumer" \in Usage
    /\ rx_open
    /\ pc = "idle"
    /\ rx_open' = FALSE
    /\ channel' = <<>>
    /\ UNCHANGED <<sharedVars, producerVars, consumerVars, deliveryVars,
                   environmentVars, historyVars>>

-----------------------------------------------------------------------------
(* Delivery and MemoryAckHandle.  ack and nack consume the Delivery; each can
   run in a task of its own, concurrently with the consumer. *)

Ack(e) ==
    /\ "ack" \in Usage
    /\ e \in held
    /\ held' = held \ {e}
    /\ acked' = acked \cup {e.id}
    /\ UNCHANGED <<nacking, requeuing, accepted, handed, exhausted, visible_at>>
    /\ UNCHANGED <<channelVars, sharedVars, producerVars, consumerVars,
                   environmentVars>>

\* The application drops the Delivery: there is no Drop impl, nothing is sent.
DropDelivery(e) ==
    /\ "drop_delivery" \in Usage
    /\ e \in held
    /\ held' = held \ {e}
    /\ UNCHANGED <<nacking, requeuing>>
    /\ UNCHANGED <<channelVars, sharedVars, producerVars, consumerVars,
                   environmentVars, historyVars>>

\* nack(), up to the lock.
Nack(e) ==
    /\ "nack" \in Usage
    /\ e \in held
    /\ held' = held \ {e}
    /\ nacking' = nacking \cup {e}
    /\ UNCHANGED requeuing
    /\ UNCHANGED <<channelVars, sharedVars, producerVars, consumerVars,
                   environmentVars, historyVars>>

\* The receive limit: without a DlqConfig it is u32::MAX.
MaxAttempts == IF DlqConfigured THEN MaxReceiveCount ELSE U32Max

\* Seeded faults: one attempt too few, and one too many.
AttemptsExhausted_Early(count) == count + 1 >= MaxAttempts
AttemptsExhausted_OffByOne(count) == count > MaxAttempts

AttemptsExhausted(count) == count >= MaxAttempts

\* build_pair lets go of the receiver of the dead letter channel as soon as it
\* has made it, so that a send on that channel always fails.
DlqReceiverOpen == FALSE

\* dlq_tx.send(..), whose error is ignored; there is no dlq_tx without a config.
DeadLetter(e) ==
    dlq' = IF DlqConfigured /\ DlqReceiverOpen
           THEN Append(dlq, Redelivered(e)) ELSE dlq

\* Under the mutex, nack counts the attempt and either gives the message up or
\* goes on to requeue it, keeping the mutex.
NackLock(e) ==
    /\ e \in nacking
    /\ lock = "free"
    /\ nacking' = nacking \ {e}
    /\ nack_counts' = [nack_counts EXCEPT ![e.id] = Increment(@)]
    /\ \/ /\ AttemptsExhausted(nack_counts'[e.id])
          /\ DeadLetter(e)
          /\ exhausted' = exhausted \cup {e.id}
          /\ UNCHANGED <<lock, requeuing>>
       \/ /\ ~AttemptsExhausted(nack_counts'[e.id])
          /\ lock' = "nack"
          /\ requeuing' = requeuing \cup {e}
          /\ UNCHANGED <<dlq, exhausted>>
    /\ UNCHANGED <<scheduled, held, accepted, handed, acked, visible_at>>
    /\ UNCHANGED <<channelVars, producerVars, consumerVars, environmentVars>>

\* The channel takes the envelope back; nack returns and drops the guard.
NackRequeue(e) ==
    /\ e \in requeuing
    /\ rx_open
    /\ HasRoom
    /\ Push(Redelivered(e))
    /\ requeuing' = requeuing \ {e}
    /\ lock' = "free"
    /\ UNCHANGED <<rx_open, nack_counts, scheduled, dlq, held, nacking>>
    /\ UNCHANGED <<producerVars, consumerVars, environmentVars, historyVars>>

\* The receiver is gone: the error is ignored and nack returns Ok all the same.
NackRequeueFails(e) ==
    /\ e \in requeuing
    /\ ~rx_open
    /\ requeuing' = requeuing \ {e}
    /\ lock' = "free"
    /\ UNCHANGED <<nack_counts, scheduled, dlq, held, nacking>>
    /\ UNCHANGED <<channelVars, producerVars, consumerVars, environmentVars,
                   historyVars>>

\* The caller drops a nack future that is still waiting, and with it the guard.
CancelNack(e) ==
    /\ "cancel_nack" \in Usage
    /\ e \in nacking \cup requeuing
    /\ nacking' = nacking \ {e}
    /\ requeuing' = requeuing \ {e}
    /\ lock' = IF e \in requeuing THEN "free" ELSE lock
    /\ UNCHANGED <<nack_counts, scheduled, dlq, held>>
    /\ UNCHANGED <<channelVars, producerVars, consumerVars, environmentVars,
                   historyVars>>

-----------------------------------------------------------------------------
(* The environment *)

\* ShutdownHandle::shutdown, on any clone of the handle.
Shutdown ==
    /\ "shutdown" \in Usage
    /\ ~shutdown
    /\ shutdown' = TRUE
    /\ UNCHANGED now
    /\ UNCHANGED <<channelVars, sharedVars, producerVars, consumerVars,
                   deliveryVars, historyVars>>

Tick ==
    /\ now < MaxTime
    /\ now' = now + 1
    /\ UNCHANGED shutdown
    /\ UNCHANGED <<channelVars, sharedVars, producerVars, consumerVars,
                   deliveryVars, historyVars>>

-----------------------------------------------------------------------------
(* The specification *)

ProducerNext ==
    \/ \E p, q \in Producers : CloneProducer(p, q)
    \/ \E p \in Producers : DropProducer(p)
    \/ \E p \in Producers, m \in Messages : Send(p, m)
    \/ \E p \in Producers, m \in Messages, at \in Times : SendAt(p, m, at)
    \/ \E s \in sending : SendCompletes(s) \/ SendFails(s)
    \/ \E s \in scheduling : SendAtCompletes(s)
    \/ \E s \in sending \cup scheduling : CancelSend(s)

\* The steps of a receive call that wait for nobody.
ConsumerStep ==
    \/ PollReceive \/ StopGraceful \/ CheckShutdown \/ FlushDone \/ TryRecv
    \/ PollRecv \/ TimerElapsed \/ TimerPending \/ PollLiveness \/ Wake

StartCall == CallReceive \/ CallTryReceive \/ CallReceiveGraceful

ConsumerNext ==
    \/ StartCall \/ ConsumerStep
    \/ FlushLock \/ FlushSend \/ ReadNextScheduled
    \/ CancelReceive \/ DropConsumer

DeliveryNext ==
    \/ \E e \in held : Ack(e) \/ Nack(e) \/ DropDelivery(e)
    \/ \E e \in nacking : NackLock(e)
    \/ \E e \in requeuing : NackRequeue(e) \/ NackRequeueFails(e)
    \/ \E e \in nacking \cup requeuing : CancelNack(e)

Next == ProducerNext \/ ConsumerNext \/ DeliveryNext \/ Shutdown \/ Tick

Spec == Init /\ [][Next]_vars

(* Fairness.  tokio polls a woken task eventually, wakes a task when what it
   waits for is there, and serves the waiters of a Mutex and of a channel's
   semaphore first come, first served: a waiter passed over finitely often is
   strong fairness.  A timer fires soon after its deadline.  The application
   polls the futures it made, settles what it receives, and receives again. *)

Settle(m) == \E e \in held : e.id = m /\ (Ack(e) \/ Nack(e))

SendSteps(m) ==
    \/ \E s \in sending : s.env.id = m /\ (SendCompletes(s) \/ SendFails(s))
    \/ \E s \in scheduling : s.env.id = m /\ SendAtCompletes(s)

NackSteps(m) ==
    \/ \E e \in nacking : e.id = m /\ NackLock(e)
    \/ \E e \in requeuing : e.id = m /\ (NackRequeue(e) \/ NackRequeueFails(e))

TaskFairness(m) == SF_vars(SendSteps(m)) /\ SF_vars(NackSteps(m))

RuntimeFairness ==
    /\ WF_vars(ConsumerStep)
    /\ SF_vars(TimerElapsed)
    /\ SF_vars(FlushLock)
    /\ SF_vars(FlushSend)
    /\ SF_vars(ReadNextScheduled)
    /\ \A m \in Messages : TaskFairness(m)
    /\ WF_vars(Tick)

SettleFairness(m) == WF_vars(Settle(m))

ApplicationFairness ==
    /\ WF_vars(StartCall)
    /\ \A m \in Messages : SettleFairness(m)

FairSpec == Spec /\ RuntimeFairness /\ ApplicationFairness

-----------------------------------------------------------------------------
(* Properties *)

\* Every variable has its type, and the channel never holds more than its
\* capacity: the sends of producers, of the flush loop and of nack all wait.
TypeOK ==
    /\ channel \in Seq(Envelopes) /\ Len(channel) <= Capacity
    /\ rx_open \in BOOLEAN
    /\ lock \in {"free", "consumer", "nack"}
    /\ nack_counts \in [Messages -> 0 .. U32Max]
    /\ scheduled \in Schedules
    /\ dlq \in Seq(Envelopes)
    /\ producers \subseteq Producers
    /\ unsent \subseteq Messages
    /\ sending \subseteq [by : Producers, env : Envelopes]
    /\ scheduling \subseteq [by : Producers, env : Envelopes, at : Times]
    /\ pc \in ConsumerStates
    /\ call \in ReceiveCalls
    /\ result \in Results
    /\ due \in Schedules
    /\ wake_at \in Times \cup {Never}
    /\ held \subseteq Envelopes
    /\ nacking \subseteq Envelopes
    /\ requeuing \subseteq Envelopes
    /\ shutdown \in BOOLEAN
    /\ now \in Times
    /\ accepted \subseteq Messages
    /\ handed \in [Messages -> Nat]
    /\ acked \subseteq Messages
    /\ exhausted \subseteq Messages
    /\ visible_at \in [Messages -> Times]

\* The mutex is held across an await by the consumer exactly while it flushes
\* and by a nack exactly while it requeues, by one of them at a time, however
\* calls are cancelled; due envelopes exist only while the flush holds it.
LockDiscipline ==
    /\ lock = "consumer" <=> pc = "flush"
    /\ lock = "nack" <=> requeuing # {}
    /\ \A d, e \in requeuing : d = e
    /\ pc # "flush" => due = NothingScheduled

\* The places a message can be in, by the ids they hold.
Places ==
    [unsent     |-> unsent,
     sending    |-> {s.env.id : s \in sending},
     scheduling |-> {s.env.id : s \in scheduling},
     scheduled  |-> IdsInSchedule(scheduled),
     due        |-> IdsInSchedule(due),
     channel    |-> IdsInSeq(channel),
     held       |-> IdsInSet(held),
     nacking    |-> IdsInSet(nacking),
     requeuing  |-> IdsInSet(requeuing),
     acked      |-> acked,
     exhausted  |-> exhausted]

\* No message is in two places...
PlacesApart ==
    LET P == Places IN
    \A p, q \in DOMAIN P : p # q => P[p] \cap P[q] = {}

\* ...nor twice in one.
PlacesDistinct ==
    /\ \A r, s \in sending : r.env.id = s.env.id => r = s
    /\ \A r, s \in scheduling : r.env.id = s.env.id => r = s
    /\ DistinctInSchedule(scheduled)
    /\ DistinctInSchedule(due)
    /\ DistinctInSeq(channel)
    /\ DistinctInSet(held)
    /\ DistinctInSet(nacking)
    /\ DistinctInSet(requeuing)

\* Whatever is cancelled or dropped, send, flush, receive, ack and nack move a
\* message and never copy it.  An ack'd or given up one never comes back.
NoDuplicate == PlacesApart /\ PlacesDistinct

\* A Delivery's delivery_count says how often the message has been received,
\* and the nack count kept apart in SharedState agrees with it, through every
\* path a message takes back into the channel.
DeliveryCountHonest ==
    /\ \A e \in held \cup nacking :
          /\ e.delivery_count = handed[e.id]
          /\ e.delivery_count = nack_counts[e.id] + 1
    /\ \A e \in requeuing :
          /\ e.delivery_count = handed[e.id]
          /\ e.delivery_count = nack_counts[e.id]
    /\ \A i \in DOMAIN channel :
          /\ channel[i].delivery_count = handed[channel[i].id] + 1
          /\ channel[i].delivery_count = nack_counts[channel[i].id] + 1

\* How often a message can be received: a limit of 0, which the public field
\* admits, still gives one attempt.
Limit == IF MaxAttempts = 0 THEN 1 ELSE MaxAttempts

\* No message is received more often than the limit allows.
AttemptsBounded == \A m \in Messages : handed[m] <= Limit

\* The entries that nack_counts keeps for good are right to the end: of an ack'd
\* message every attempt but the last was nack'd, and a message is given up by
\* the nack of its last attempt, neither earlier nor later.
AttemptsAccounted ==
    \A m \in Messages :
        /\ m \in acked => handed[m] = nack_counts[m] + 1
        /\ m \in exhausted => handed[m] = Limit /\ nack_counts[m] = Limit
        /\ m \notin exhausted => nack_counts[m] < Limit

\* The ids that the backend or the application still works on.
InFlight ==
    LET P == Places IN
    UNION {P[p] : p \in {"scheduled", "due", "channel", "held", "nacking",
                         "requeuing"}}

\* A message for which send or send_at returned Ok is on its way, or was ack'd,
\* or was given up by the nack that reached the limit.
NoSilentLoss == accepted \subseteq InFlight \cup acked \cup exhausted

\* Under every use of the API, an accepted message is lost only with what holds
\* it: its Delivery or the future of its nack, which the application dropped or
\* which found the receiver gone; the Receiver; or the future of a receive call
\* that was flushing.  No message is lost from the map, whatever the flush does.
LossesExplained ==
    [][\A m \in InFlight \ (InFlight' \cup acked' \cup exhausted') :
          \/ m \in IdsInSet(held \cup nacking \cup requeuing)
          \/ m \in IdsInSeq(channel) /\ ~rx_open'
          \/ m \in IdsInSchedule(due) /\ pc = "flush" /\ pc' = "idle"]_vars

\* A message sent with send_at is not received, nor in the channel, before its
\* time.
NeverEarly ==
    \A m \in Messages :
        handed[m] > 0 \/ m \in IdsInSeq(channel) => visible_at[m] <= now

\* A flush gives the channel the message with the earliest deadline of all that
\* are accepted and not yet visible: none overtakes it in the map while the
\* flush waits for room.
FlushInDeadlineOrder ==
    [][\A m \in IdsInSchedule(due) \ IdsInSchedule(due') :
          m \in IdsInSeq(channel') =>
             \A k \in IdsInSchedule(due') \cup IdsInSchedule(scheduled') :
                visible_at[m] <= visible_at[k]]_vars

\* A channel that can hold every message never makes anyone wait for room.
NeverBlocked ==
    (sending # {} \/ requeuing # {} \/ Keys(due) # {}) => HasRoom

\* ConnectionLost is final: whoever is told so has no producer left, nor a send
\* still waiting, and can get none.
ConnectionLostIsFinal ==
    result = "ConnectionLost" =>
        producers = {} /\ sending = {} /\ scheduling = {}

\* A nack waits for nothing but the mutex and, with it, room or the end of the
\* receiver; a delivery can be settled if the application ever does so.
DeliveriesNeverStall ==
    \A m \in Messages :
       /\ m \in IdsInSet(held) /\ Usage \cap {"ack", "nack"} # {}
          => ENABLED <<Settle(m)>>_vars
       /\ \/ m \in IdsInSet(nacking) /\ lock = "free"
          \/ m \in IdsInSet(requeuing) /\ (HasRoom \/ ~rx_open)
          => ENABLED <<NackSteps(m)>>_vars

\* A receive call waits for nothing but the mutex, room for a message it flushes,
\* or a parked select! without a message, an elapsed timer or the end of the
\* producers, and after shutdown a receive_graceful for none of these.
NeverStalls ==
    /\ \/ pc \in {"check", "try_recv", "poll_recv", "poll_timer",
                  "poll_liveness", "poll_shutdown"}
       \/ pc = "flush" /\ Keys(due) = {}
       \/ pc = "parked" /\ (channel # <<>> \/ now >= wake_at \/ producers = {})
       \/ pc # "idle" /\ call = "receive_graceful" /\ shutdown
       => ENABLED <<ConsumerStep>>_vars
    /\ pc = "lock_flush" /\ lock = "free" => ENABLED <<FlushLock>>_vars
    /\ pc = "lock_next" /\ lock = "free" => ENABLED <<ReadNextScheduled>>_vars
    /\ pc = "flush" /\ Keys(due) # {} /\ HasRoom => ENABLED <<FlushSend>>_vars
    /\ pc = "idle" /\ rx_open /\ ~shutdown /\ Usage \cap ReceiveCalls # {}
       => ENABLED <<StartCall>>_vars
    /\ DeliveriesNeverStall
    /\ now < MaxTime => ENABLED <<Tick>>_vars

\* A nack that waits for room with the mutex, while the consumer has yet to take
\* the mutex before it makes room.
NackDeadlock ==
    /\ lock = "nack" /\ rx_open /\ ~HasRoom
    /\ pc \in {"idle", "check", "lock_flush", "lock_next", "poll_shutdown"}

\* A flush that waits for room that its own call would make.
FlushDeadlock == pc = "flush" /\ Keys(due) # {} /\ ~HasRoom

\* Both are final for the tasks of the queue: the first ends only if the consumer
\* or the nack is dropped, the second only if the receive call is.
DeadlocksStay ==
    [][/\ NackDeadlock => \/ NackDeadlock'
                          \/ DropConsumer
                          \/ \E e \in requeuing : CancelNack(e)
       /\ FlushDeadlock => \/ FlushDeadlock'
                           \/ StopGraceful \/ CancelReceive]_vars

\* Every accepted message is received.
AcceptedIsReceived ==
    \A m \in Messages : m \in accepted ~> handed[m] > 0

\* Every accepted message is ack'd or reaches its receive limit.
EventuallySettled ==
    \A m \in Messages : m \in accepted ~> m \in acked \cup exhausted

\* After shutdown a receive_graceful returns, wherever it is suspended and
\* whoever holds the mutex.
GracefulTerminates ==
    (shutdown /\ call = "receive_graceful" /\ pc # "idle") ~> pc = "idle"

\* The message at position k of the channel.
Queued(m, k) == k \in DOMAIN channel /\ channel[k].id = m

\* The queue moves: each message in the channel is received or moves up by one.
QueueMovesOn ==
    \A m \in Messages, k \in 1 .. Capacity :
        Queued(m, k) ~> m \in IdsInSet(held) \/ Queued(m, k - 1)

\* A receive that waits when the last producer goes away returns.
ReceiveEndsWithProducers ==
    (producers = {} /\ call = "receive" /\ pc # "idle") ~> pc = "idle"
=============================================================================
