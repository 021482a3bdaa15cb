# A TLA+ model of buqueue

buqueue is a Rust library that puts one producer and one consumer trait in
front of several message queues. At this commit the repository holds two
crates: `buqueue-core` (the traits and the types they exchange) and
`buqueue-memory`, the only backend with code, an in-process queue on tokio
channels. The brokers of the top-level README (SQS, NATS, RabbitMQ, Redis,
Kafka) are described there and not implemented.

This directory models both: the queue that the in-memory backend implements,
the contract it keeps towards the traits, and what the traits build on that
contract, for a backend that overrides any of `send_at`, `try_receive`,
`shutdown_handle` and `receive_graceful`. Paths below are relative to the repository
(`src/crates/` is left out).

## Inventory

| Part | Source | State | Operations | Hard behaviour |
|------|--------|-------|------------|----------------|
| Envelopes, schedule | `buqueue-memory/src/envelope.rs` | `SharedState`: `nack_counts`, `scheduled`, DLQ sender | `next_scheduled_at`, `flush_due_scheduled` | the split at `now`, the flush that waits for room with the mutex held |
| Producer | `buqueue-memory/src/producer.rs` | a channel sender, a liveness sender | `send`, `send_at`, clone, drop | a full channel, the mutex, the last clone going away |
| Consumer | `buqueue-memory/src/consumer.rs` | receiver, a sender of its own, shutdown handle, liveness receiver | `receive`, `try_receive`, `receive_graceful` | one `select!` over three sources, a timer computed once, cancellation at every await |
| Ack handle | `buqueue-memory/src/ack.rs` | the envelope | `ack`, `nack` | limit, requeue into a full channel, errors ignored |
| Builder | `buqueue-memory/src/builder.rs` | configuration | `build_pair`, `build_producer`, `build_consumer` | what is kept and what is dropped |
| Shutdown | `buqueue-core/src/feature/shutdown.rs` | a watch channel of one flag | `shutdown`, `is_shutdown`, `wait_for_shutdown` | the signal racing a delivery |
| Delivery | `buqueue-core/src/core/delivery.rs` | the message and its ack handle | `ack`, `nack`, accessors, drop | each settled at most once, or never |
| Consumer trait | `buqueue-core/src/traits/consumer.rs` | the Vec of a batch, a stream and the future of its next item | `receive_batch`, `messages`, `into_stream`, default `try_receive`, `receive_graceful`, `shutdown_handle` | errors and cancellation in the middle of a batch or a stream; defaults that drop a polled `receive` |
| Producer trait | `buqueue-core/src/traits/producer.rs` | the rest of a batch and the ids so far | `send_batch`, default `send_at` | errors and lost answers in the middle of a batch; a default that does not schedule |
| Wrappers | both `traits/` files: `ref_delegate!`, `ErasedQueue*`, `*DynProducer`, `*DynConsumer` | which methods they pass on | every method of the traits | a method that is not passed on falls back to the default in silence |
| Messages | `buqueue-core/src/core/message.rs` | a message under construction | the builder, `from_json`, `from_json_with_key`, `with_header`, `with_deduplication_id` | what is validated when, and what a later call replaces |
| Backend traits | `buqueue-core/src/traits/backend.rs` | a builder | `make_dynamic`, `build_*` | which halves exist, and how they are wrapped |
| DLQ configuration | `buqueue-core/src/feature/dlq.rs` | a limit | `new` | a public field that bypasses `new` |
| Errors | `buqueue-core/src/core/error.rs` | none | `is_transient` | none |

How they interact. The application calls producers, the consumer and
deliveries from tasks of its own. Producers, the flush of the consumer and
`nack` all push into **one bounded channel** that only the consumer empties.
`send_at`, the flush and `nack` share **one async mutex** around
`SharedState`; the flush and `nack` keep it while they wait for room in the
channel. The consumer learns that no producer is left from a second, empty
channel (*liveness*), and of shutdown from a watch channel. Above the
backend, the methods the traits provide call the few a backend must have, on
whatever the application has put around the handle: a reference, a `Box`, an
`Arc`, or an erased type.

What makes each part correct:

* producer: an accepted message is in the system until it is settled;
* consumer: every accepted message is received, none early, none twice, and a
  waiting call ends when it should;
* ack handle: counts are right, the limit is kept, a message given up goes
  where it should;
* traits: a default or a wrapper weakens no promise of the backend; a batch
  sends a prefix and receives no more than was asked; shutdown is honoured;
* messages: what exists is valid, and every delivery shows what was sent;
* mutex and channel: no call that is dropped leaves either unusable, and no two
  parts wait for each other.

## Modules

| Module | Models |
|--------|--------|
| `Envelope` | the data: envelopes, counters, the schedule and its operations, as pure operators |
| `MemoryQueue` | the memory backend: every call as a sequence of steps, fairness, properties |
| `MCMemoryQueue` | sets of messages and producers, the full API and the symmetry for TLC |
| `MCMemoryQueueClaims` | statements of the repository's docs and tests that the code does not keep |
| `QueueContract` | what a backend promises: where a message can be and how it may move, without channels, locks or tasks |
| `MemoryContract` | `MemoryQueue` with the refinement mapping to `QueueContract` |
| `QueueApi` | the traits: builders, wrappers, provided methods and their callers, on a backend that is an instance of `QueueContract` |
| `Message` | one message from the builder through envelopes and redeliveries to its end |
| `MCQueueApi`, `MCMessage` | instances of the two for TLC |
| `MemoryQueueProofs` | lemmas about `Envelope`; theorems about `MemoryQueue`: types, the mutex, the last producer |
| `PlacesProofs` | no message is duplicated, with room for all nobody waits; the delivery and nack counts, the receive limit, and what remains of a message after its end |
| `VisibilityProofs` | scheduled messages: never early, flushed in the order of their deadlines |
| `ContractProofs` | what can be lost, and when nothing is; `MemoryQueue` implements `QueueContract` |
| `LivenessProofs` | the deadlocks that stay; calls that end, a queue that moves and messages that are received, under fairness |
| `SettledProofs` | every accepted message is settled in the end, under fairness |
| `ApiProofs` | theorems about `QueueApi`: safety, and the calls that end |
| `MessageProofs` | theorems about `Message` |

`MemoryQueue` EXTENDS `Envelope`; `MemoryContract` EXTENDS `MemoryQueue` and
instantiates `QueueContract` with a mapping; `QueueApi` instantiates
`QueueContract` with its own variables and adds those of the callers. So the
contract is stated once: the in-memory backend is shown to keep it, and the
traits are checked on it. Definitions whose name has an underscore and a fault
(`HasRoom_OffByOne`) are faults a property has to notice; no specification uses
them.

### How the model corresponds to the code

A Rust future can be suspended, and dropped, only at an await. Each call is
therefore cut at its awaits, and further wherever it reads something another
thread can change in the meantime. `pc` says where the consumer's call stands:

| `pc` | `consumer.rs` |
|------|------|
| `poll_shutdown` | 132-134, the first branch of `receive_graceful`'s `select!` |
| `check` | 65, `is_shutdown()` at the top of `receive`'s loop |
| `lock_flush` | 57, waiting for the mutex |
| `flush` | 58, in the loop of `flush_due_scheduled` (`envelope.rs` 60-64), holding it |
| `try_recv` | 72 and 111 |
| `lock_next` | 76, waiting for the mutex; `wake_at` is the deadline read there |
| `poll_recv`, `poll_timer`, `poll_liveness` | 86, 91, 100: the three branches, polled in this order by `biased` |
| `parked` | 84, every branch pending |

Producers' and ack handles' calls that wait are elements of `sending`,
`scheduling`, `nacking` and `requeuing`; a received message the application
has not settled is in `held`. `lock` names who keeps the mutex **across an
await**; critical sections without an await (`send_at`, `next_scheduled_at`)
are one step that needs the mutex free. The variables `accepted`, `handed`,
`acked`, `exhausted` and `visible_at` are history: no action reads them.

**The contract** has one variable per place a message can be in. Its step
`Hand` needs a message that waits, is due and has an attempt left; `Return` and
`GiveUp` split a nack by the limit; `Lose` is possible only where `MayLose`
says the application drops what holds a message. `MemoryContract` maps
`scheduled`, `due` and the channel to *waiting*, `held`, `nacking` and
`requeuing` to *out*, and the futures of `send` and `send_at` to *offered*.

**The traits.** In `QueueApi`, `overrides` is the set of provided methods a
backend has of its own (those four at most: `send_batch`, `receive_batch` and
the streams are always the trait's, so a backend with native batches is not
covered), and `reach` the set of methods that still get through
all wrappers; `Native(op)` says which of the two versions of a method a call
runs. `Build`, `Wrap` and `IntoDyn` apply what each wrapper passes on, read off
its `impl`. A call of the consumer is `pc = "receive"` while it awaits
`receive` (also inside `receive_batch`, `receive_graceful` and a stream) and
`"poll"` while it runs a `try_receive`; `call` says which method it is. `late`
counts for one property and is read by no action.

| Action | Code |
|--------|------|
| `Collect` | `push` onto the Vec of `receive_batch` and its loop condition, or the return of another method (`consumer.rs` 95-108) |
| `EndCall`, `Leave` | a return without a delivery: the locals go, a stream ends with its first `None` or error (`try_unfold`) |
| `PollHit`, `PollMiss` | a `try_receive` that comes to its end. It need not: the in-memory one can wait for the mutex or for room for ever (`nack_deadlock`, `flush_deadlock`), and then only `Cancel` ends it, here as in a `receive`. A `receive_batch` that polls hangs with it, with deliveries in its Vec |
| `LetGo` | a dropped future or handle: the backend keeps what it had, or loses some of it |
| `BatchSends`, `BatchUnanswered`, `BatchFails` | one round of `send_batch`: `Ok`, an error although the backend took the message, an error |
| `PollMiss` | `try_receive` without a message: the backend's own looks into the queue at this step; the default may give up earlier, and drops a `receive` |

**Messages.** `parts` is the content of the builder, then of the `Message`;
`Verdict` is `?` on a validation. `BuildErrors` keeps the order of the checks,
and leaves open which of several bad headers is reported, because they sit in a
`HashMap`. `calls` records what was asked for and is read by no action.

External code is modelled from its use: tokio's mpsc channel (`HasRoom`,
`Push`), mutex, `select!`, timer and watch channel, and the system clock
(`Tick`). A future may also be suspended at an await whose resource is there
(tokio makes a task yield that has run for too long), so cancellation is
allowed at an await whatever the state. A timer may be pending a little after
its deadline, because tokio rounds deadlines up to a millisecond
(`TimerPending`).

### Abstractions and bounds

* In all modules but `Message`, payload, headers and routing key are never
  looked at: a message is its id. In `Message`, a header key is good or bad and
  a value empty or not, which is all the validation looks at.
* `Messages` are sent at most once each; a model's run ends when they are used
  up. This is why deadlock is not checked: the system may stop. Waiting for
  ever is checked by the liveness properties instead.
* `MaxTime` bounds the clock and the deadlines, `U32Max` stands for
  `u32::MAX`; counters wrap beyond it as in a release build.
* `Usage` is the set of calls the application makes. A run leaves out calls to
  ask what holds without them, e.g. `no_loss` without cancellation.

Two messages, a channel of one or two places and one or two ticks are enough
for every conflict in this code: a conflict needs a message in the channel and
another that wants to get in, an earlier and a later deadline, a first and a
second delivery, and a clone next to the original. The limit is 2 in the runs;
limits of 0, 1 and `u32::MAX` are covered by the proofs. `no_loss` uses three messages,
so that a place in the channel is contended by a send, a flush and a requeue.
`direct` has three messages on a channel of two, so that a message waits behind
another in the channel and a third waits for room.

`api` has two messages, two ticks and batches of up to two, on a backend that
has only what the traits require and on one that overrides what the in-memory
one does. That is enough for a batch that fails after its first message, a poll
that fails with a delivery in the Vec, a delivery that races shutdown with
another message behind it, and a scheduled message next to an immediate one.
`message` has one key and one value of each kind and up to four setter calls, so
that a field can be set, spoiled, mended and spoiled again. The proofs then free
every safety property from these bounds.

### Fairness

`RuntimeFairness` says what tokio gives: a woken task is polled (weak fairness
of the consumer's steps), waiters of a mutex or of the channel's semaphore are
served first come, first served (strong fairness of each step that takes the
mutex or a place: it is not passed over for ever), a timer fires, time passes.
`ApplicationFairness` says what the application does in the liveness runs: it
starts a call when none is running, and acks or nacks each delivery. No
fairness is assumed of producers: `send`, `clone`, `drop` and shutdown may
never happen.

`QueueApi` assumes one step only: `receive_graceful` is polled once
`wait_for_shutdown` is ready (a watch channel wakes its waiters). Weak fairness is
enough: once enabled, the step stays enabled until the call ends. Nothing is
assumed of `receive`, `send` or the application, nor of `try_receive`: the trait
says that it does not block, but the in-memory one does, first for the mutex
(`consumer.rs` 110 and 57, `ack.rs` 53) and then for room (`envelope.rs` 62). So no
property of `QueueApi` says that a poll returns.

Fairness says nothing of a step that is never enabled. `NeverStalls`, an
invariant of `core_safety`, closes that gap: it lists the states in which a call,
a delivery, a nack or the clock must not be stuck, and says with ENABLED that a
fair step is possible in each of them. `GracefulStop`, the only fair step of
`QueueApi`, is enabled where its guard holds, as its definition shows: it gives each
variable one value and has no other condition. What is not evident is that the
guard holds in every wrapper, and the run `api` checks that (`GracefulStops`).

## Runs

| Run | Question |
|-----|----------|
| `core_safety` | all calls and cancellations: types, mutex, uniqueness, counts (`DeliveryCountHonest` on the way, `AttemptsAccounted` to the end), limit, no early delivery, order of a flush, final `ConnectionLost`, and the complete list of places where a message can be lost. `NeverStalls`: a call is stuck only for the mutex, for room, or in an empty queue, a delivery can be settled and a nack goes on once the mutex is free. `DeadlocksStay`: once a nack or a flush waits with the mutex held for room that nobody can make, only dropping one of the two or a shutdown of the graceful call ends it |
| `no_loss` | is an accepted message ever lost when nothing is cancelled? No |
| `roomy` | with room for all messages, does nobody wait and is everything settled (polling with `try_receive`)? Yes |
| `direct` | with plain sends only, a channel of two and producers that come and go, is every message received by an application that keeps calling `receive`, does each message in the channel move up until then (`QueueMovesOn`), and does a waiting `receive` end when the last producer goes? Yes |
| `graceful` | does `receive_graceful` end after shutdown, also when mutex and channel are stuck? Yes |
| `api` | do batches, scheduled sends, streams and graceful calls keep what the backend promises, through any wrappers, with errors, lost answers and cancellations? Yes. `VanishedExplained` is the complete list of what can lose a message here: a dropped `receive` (by `Cancel`, by shutdown, with a stream, or by the zero timeout of the default `try_receive`), a dropped Vec, a dropped consumer, and a nack after that. `GracefulStops`: a graceful call ends after shutdown |
| `message` | is every message valid, does it have what was set last, and does each delivery show it? Yes, except for the deduplication id |

`core_safety` and `no_loss` also check `KeepsContract`, the refinement of
`QueueContract`, with all calls and with those that lose nothing
(`MayLose = FALSE`). `core_safety` and the safety runs use symmetry over
messages and producers; the liveness runs do not.

### Disagreements between docs and code

Each has a run that ends in a counterexample.

| Run | What happens |
|-----|--------------|
| `dlq_vanishes` | the dead letter channel has no receiver (`builder.rs` 43), a message that reaches its limit is gone |
| `nack_deadlock` | `nack` waits for room holding the mutex (`ack.rs` 53), the consumer waits for the mutex before it makes room |
| `flush_deadlock` | more due messages than free places: the flush (`envelope.rs` 62) waits for its own consumer |
| `lost_wakeup` | `send_at` does not wake a `receive` that has fixed its timer before (`consumer.rs` 76) |
| `connection_lost_race` | a send and the drop of the producer between two polls of one `select!` (`consumer.rs` 86, 100) |

Other points where docs and code differ, seen in the model's steps and left
without a run of their own:

* `receive` returns `ConnectionLost` when no producer is left although messages
  are scheduled (`PollLiveness`; `consumer.rs` 101), always; no property is about
  it.
* A dropped `Delivery` is not redelivered (`DropDelivery`), against
  `delivery.rs` 20. `LossesExplained` lists this loss and does not exclude it.
* A shutdown between `PollReceive` and `CheckShutdown` makes `receive_graceful`
  return `Some(Err(ConsumerShutdown))` (`consumer.rs` 135). `GracefulTerminates`
  says only that the call ends.
* `shutdown()` returns at once, with deliveries unsettled (`Shutdown`), against
  the top-level README, line 438.
* A `receive_graceful` that shutdown stops inside the flush loses the due
  messages it had taken out of the map (`StopGraceful` in `flush`). This loss
  is one of those `LossesExplained` lists.
* The in-memory producer drops the deduplication id (`Carried` in `Message`;
  `producer.rs` 29-37, 52-60), although `message.rs` 323 and the README 189-191
  say that backends without the feature store it as a `bq-dedup-id` header.
* `first_delivered` is stamped when a message is sent (`NewEnvelope`), not at
  the first delivery attempt as `delivery.rs` says of `first_delivery_at`.
* A stream ends with its first error (`EndCall`; `consumer.rs` 148,
  `try_unfold`), and `into_stream` then drops the consumer; the loop in the
  README (367) reads as if errors were skipped.
* The default `shutdown_handle` makes a new handle each time (`Signalled`): on a
  backend that does not override it, `receive_graceful` never stops.
* `receive_batch(0)` receives one message (`BatchBounds`).
* A `receive_batch` that fails after its first delivery drops what it has
  (`StrandedExplained`); on the in-memory backend those messages are lost.

These are why the liveness runs restrict what they do: `roomy` has room for
every message (no `nack_deadlock`, no `flush_deadlock`) and polls with
`try_receive` (no `lost_wakeup`), `direct` neither schedules nor nacks.

## Proofs

Eight modules prove, for every number of messages, producers and ticks, every
capacity, limit, size of a batch and usage, from the assumptions named in
`Envelope`, `MemoryQueue`, `QueueApi` and `Message` and the hypotheses in the
table only:

| Theorem | Module | States |
|---------|--------|--------|
| `TypeCorrect` | `MemoryQueueProofs` | `Spec => []TypeOK` |
| `MutexDiscipline` | `MemoryQueueProofs` | `Spec => []LockDiscipline` |
| `LostIsFinal` | `MemoryQueueProofs` | `Spec => []ConnectionLostIsFinal` |
| `NeverDuplicated` | `PlacesProofs` | `Spec => []NoDuplicate` |
| `RoomForAll` | `PlacesProofs` | `Spec => []NeverBlocked`, if the capacity is at least the number of messages |
| `CountsHonest` | `PlacesProofs` | `Spec => []DeliveryCountHonest` |
| `AttemptsWithinLimit` | `PlacesProofs` | `Spec => []AttemptsBounded` |
| `AttemptsAccountedFor` | `PlacesProofs` | `Spec => []AttemptsAccounted` |
| `LossesAreExplained` | `ContractProofs` | `Spec => LossesExplained` |
| `NothingIsLost` | `ContractProofs` | `Spec => []NoSilentLoss`, if `Usage` has none of `LosingCalls` |
| `NotEarly` | `VisibilityProofs` | `Spec => []NeverEarly` |
| `FlushOrdered` | `VisibilityProofs` | `Spec => FlushInDeadlineOrder` |
| `ImplementsContract` | `ContractProofs` | `Spec => KeepsContract`: `MemoryQueue` implements `QueueContract` |
| `DeadlocksAreFinal` | `LivenessProofs` | `Spec => DeadlocksStay` |
| `GracefulReturns` | `LivenessProofs` | `FairSpec /\ []NeverStalls => GracefulTerminates` |
| `ReceiveEnds` | `LivenessProofs` | `FairSpec /\ []NeverStalls => ReceiveEndsWithProducers`, if `Usage` has neither `send_at` nor `nack` |
| `QueueMoves` | `LivenessProofs` | `FairSpec /\ []NeverStalls => QueueMovesOn`, if moreover the consumer is never dropped, shut down or cancelled and some receive call is in use |
| `AcceptedAreReceived` | `LivenessProofs` | `FairSpec /\ []NeverStalls => AcceptedIsReceived`, for the same usages, with `ReceivedFromSet` |
| `AcceptedAreSettled` | `SettledProofs` | `FairSpec /\ []NeverStalls => EventuallySettled`, for the usages in `Polling`, with `SettlingSets` |
| `ApiTypeCorrect` | `ApiProofs` | `Spec => []TypeOK` |
| `SchedulesHonoured` | `ApiProofs` | `Spec => []ScheduleHonoured` |
| `BatchesArePrefixes` | `ApiProofs` | `Spec => BatchPrefix` |
| `BatchesBounded` | `ApiProofs` | `Spec => BatchBounds` |
| `StrandedAreExplained` | `ApiProofs` | `Spec => StrandedExplained` |
| `ShutdownHonoured` | `ApiProofs` | `Spec => []AtMostOneAfterShutdown` |
| `LossesListed` | `ApiProofs` | `Spec => VanishedExplained` |
| `GracefulCallsStop` | `ApiProofs` | `FairSpec /\ []StopEnabled => GracefulStops` |
| `MessageTypeCorrect` | `MessageProofs` | `Spec => []TypeOK` |
| `AlwaysValid` | `MessageProofs` | `Spec => []EveryMessageValid` |
| `LastCallKept` | `MessageProofs` | `Spec => []LastCallWins` |
| `RejectionsExplained` | `MessageProofs` | `Spec => []RejectionJustified` |
| `DeliveryShowsMessage` | `MessageProofs` | `Spec => []DeliveredAsBuilt` |
| `OneFirstDelivery` | `MessageProofs` | `Spec => FirstDeliveryStable` |

The argument for the in-memory backend, bottom up:

* `TypeOK` is inductive. The part that is not routine is that the flush takes
  the head of a nonempty sequence, which rests on `FirstKeyIsLeast`: a nonempty
  set of ticks has a least element (`LeastTick`, from the well-foundedness of
  strict inclusion between finite sets). `LockDiscipline` is inductive given the
  types. `ConnectionLostIsFinal` needs that a send in flight borrows a live
  handle (`ProducersInv`).
* `NoDuplicate` is inductive given the types. `PlacesProofs` sorts the steps into
  four kinds: those that leave every place alone, shrink places, move one id from
  a place to another (`MovePlaces`), or split one in two (the flush,
  `SplitPlaces`). `NeverBlocked` follows: the ids in the channel are distinct and
  leave out the one that is waiting, so the channel is shorter than the set of
  messages (`RoomWithout`).
* `DeliveryCountHonest` and `AttemptsBounded` speak of messages that have reached
  the channel and are not inductive. `CountInv` adds that a message that has not
  is counted 1, received 0 and nacked 0 times, and how many attempts are left at
  each place. Its step uses `NoDuplicate`: when a receive or a nack counts a
  message, no other envelope has its id. `Limit <= U32Max` keeps the u32
  counters from wrapping. `AttemptsAccounted` is inductive beside `CountInv`: it
  is the one that speaks of the entries that stay in the map after a message's
  end, which no later step touches because no envelope has that id any more.
* `NeverEarly` and `FlushInDeadlineOrder` follow from `VisibilityInv`: the key of
  the map is the `delivery_at`; what the flush holds is due; and nothing in the
  map is due before what the flush holds, because the flush keeps the mutex that
  `send_at` needs. Its step uses all the invariants before it (`Base`).
* `LossNext` shows that each step keeps what is in flight, or is one of five
  (`Loses`). Both loss theorems follow from it. `NothingIsLost` holds for more
  usages than the run `no_loss` has: producers may be cloned and dropped, sends
  cancelled and shutdown signalled.
* `ImplementsContract` puts them together. Each step of `MemoryQueue` maps to one
  step of the contract or changes nothing it sees (`ProducerStep`, `ReceiveStep`,
  `DeliveryStep`, `EnvironmentStep`). The contract's guards are the invariants
  above: what is handed out is in one place (`NoDuplicate`), due (`VisibilityInv`)
  and has an attempt left (`CountInv`). `UsageInv` says that the receiver goes, or
  a graceful call is made, only by an application that uses those calls, so that
  a loss needs `MayLose`.

For the traits, `BackendInv` is what the contract keeps, `GivenInv` says how far
a `send_batch` is, `ReachInv` that no wrapper hides `send_at`, `try_receive` or
`shutdown_handle`, and `CallInv` and `HandsInv` where the deliveries of a call
are. `DeliveryKinds` sorts the consumer's steps into five by what they do to
deliveries; `BatchBounds` and `StrandedExplained` follow from it. `ScheduleInv`
and `ShutdownInv` strengthen the two invariants that are not inductive: a waiting
message is not visible before the time asked for, and after the one late
delivery no call is left that could have another. `VanishedExplained` takes the
ends of calls one by one (`CallsLose`, `DropsLose`): what a call, a stream or a
nack lets go of bounds what is lost (`LetGoLoses`, `EndLoses`); `ReachInv` shows
that a poll runs the backend's own `try_receive` if there is one, and `CallInv` that
a poll is never of a stream. That every step of `QueueApi` is one of the contract
or leaves it alone holds by construction; it is a lemma (`BackendStep`), from which
`BackendInv` follows.

For messages, `BuildInv` ties every field to the last call that set it
(`SetterKeeps`, `JsonLast`), and `QueueInv` ties the envelope to the message.

Liveness. The provers know nothing of ENABLED: to them it is an unknown formula,
and weak fairness of `A` says that `A` happens if `ENABLED A` holds for ever. So
each liveness proof has two halves. One half, that no step leads from a state of
the argument anywhere but forward, is proved for all constants. The other, that
a fair step is enabled there, is the invariant `NeverStalls`, which TLC checks
in `core_safety` (all calls and all states of the queue at that size); the theorems
carry it as a hypothesis, `[]NeverStalls`. For the one fair step of `QueueApi` the
hypothesis is `[]StopEnabled`, that `GracefulStop` is enabled where its guard holds.

* `GracefulReturns` walks through the states of `pc` from the back: in each of
  them `StopGraceful` or the next consumer step is enabled, whoever holds the
  mutex, and leads to the end of the call or to a state that has been dealt with
  (`CallFlow`). It needs no bound on `Usage`: the run `graceful` has only some of
  the calls beside it.
* `ReceiveEnds` is about usages where nothing is scheduled or requeued
  (`PlainUse`). Its first part is an invariant: then nobody but the consumer ever
  has the mutex, the timer is never set, and the flush has nothing to send. What
  is left is one pass through the `select!`, whose last branch sees the end of
  the producers.
* `QueueMoves` adds that a call is started again after each one ends, and shows
  that what stands in the channel keeps its order and its distance from the head
  until a receive takes the head.
* `DeadlocksAreFinal` needs no fairness: it is an action property, shown step by
  step.
* `GracefulCallsStop` rests on `GracefulStop` staying enabled until the call ends,
  whatever the backend does meanwhile (`GracefulFlow`).

Two liveness properties need an induction over a number or a set: on the place
of a message in the channel (`AcceptedAreReceived`, with `QueueMoves`' argument
as the step), and five of them for `AcceptedAreSettled`.

* `AcceptedAreSettled` is about the application of the run `roomy`: it polls with
  `try_receive`, sends, schedules, acks and nacks, and the channel has room for
  all messages (`RoomForAll` then shows that nothing waits for room). In
  addition to that run it may cancel sends, and clone and drop producers. A message
  only moves forward (`ForwardNext`): from the schedule to the due ones, to the
  channel, to a delivery, and from there to its end or, nack'd, back to the
  channel with one attempt more. So each station must be shown to let it go, and
  the attempts to run out. That a flush ends is an induction on the number of due
  messages (`FlushEnds`). That the mutex is free again and again is an induction
  on the set of the nacks that may hold it (`LockFreed`); strong fairness then
  gives it to the flush and to each nack. So the consumer goes round and round
  (`Rounds`). The clock comes to its end, by induction (`TimeEnds`), so whatever is
  scheduled gets due. A message in the channel is handed out, by induction on its
  place (`HeldFromAll`). Together a message with `c` attempts counted is settled or
  gets to `c + 1` (`AttemptsEnd`), and an induction from the largest count down ends
  it.
* An induction needs the set of the numbers for which its formula holds. Here the
  formula is temporal (`SettledFrom(m, c)`, say), and TLA+ has no set
  `{n \in Nat : F(n)}` for a temporal `F`; the library's induction theorems, which
  take an operator instead of a set, cannot be instantiated by the installed
  provers. So the two theorems have the existence of these sets as a
  hypothesis: `ReceivedFromSet` and `SettlingSets` are of the form
  `\E S : \A n \in Nat : n \in S <=> F(n)`. Each is true in every behaviour, since a
  temporal formula is true or false of a behaviour and separation then gives `S`. It
  says nothing about the queue. The steps of the inductions are lemmas without it.

Model-checked only: `NeverStalls`, because of ENABLED. Every other property of a passing run is a theorem.

## Not modelled, and why

* `error.rs`: values with a kind and a source, without state. Which call returns
  an error and when is in the models of the calls; `is_transient` is one match
  that nothing in the repository reads.
* The accessors of `Message` and `Delivery`, `payload_json` and `payload_str`:
  they read immutable data.
* The assertion of `DlqConfig::new` and the panic of `mpsc::channel(0)`: the
  models start with a limit and a capacity as the program has them after that.
* The type system's part of the traits (which wrapper implements which trait,
  `Send` bounds, `Arc` around a consumer): the compiler checks it.
* Backends that override `send_batch`, `receive_batch`, `messages` or `into_stream`:
  there is none, and nothing is said about what such a batch would promise.
* The brokers of the top-level README: no code.

## Plan

Done: all the modules above, their runs, and the proof of every property that a
passing run checks except `NeverStalls`. Still worth doing, in order of
importance:

1. `NeverStalls` as a theorem, when the provers know what ENABLED is: that frees
   the liveness theorems of their one hypothesis about the model.
2. `EventuallySettled` beyond `Polling`: with `receive` in place of `try_receive`
   (where `lost_wakeup` has to be excluded), or for a channel with less room and
   an application that avoids both deadlocks.
3. A run of `MemoryQueue` with two full limits (`MaxReceiveCount` 3, three
   messages) on a larger machine.
4. The brokers, each as a refinement of `QueueContract`, when their code exists.
