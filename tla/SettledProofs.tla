---------------------------- MODULE SettledProofs ----------------------------
(***************************************************************************)
(* Every accepted message is settled: ack'd, or given up at the limit.     *)
(*                                                                         *)
(* A message goes from the schedule to the due ones, the channel, a delivery *)
(* and, when nack'd, back to the channel with one attempt more counted.  No *)
(* step takes it back or out of the way (ForwardNext), so at each station a *)
(* fair step has to move it on, and the attempts have to run out:          *)
(*                                                                         *)
(*   - the flush ends, by induction on the number of due messages;         *)
(*   - the mutex is free again and again, by induction on the set of nacks *)
(*     that may hold it;                                                   *)
(*   - the consumer goes round and round, and the clock comes to its end, by *)
(*     induction on time: what is scheduled gets due;                      *)
(*   - what is in the channel is handed out, by induction on its position; *)
(*   - what is handed out is ack'd or nack'd, and what is nack'd is given up *)
(*     or requeued;                                                        *)
(*   - so a message with c attempts counted is settled or gets to c + 1, and *)
(*     the message is settled, by induction from the largest count down.   *)
(*                                                                         *)
(* An induction over temporal formulas needs the set of numbers for which  *)
(* the formula holds (SettlingSets), and, as in LivenessProofs, []NeverStalls *)
(* stands for what the provers do not know of ENABLED.                     *)
(***************************************************************************)
EXTENDS ContractProofs, LivenessProofs

\* The application of the run roomy: it polls with try_receive, sends and schedules
\* as it likes, settles what it holds by ack or nack (a dropped Delivery is lost),
\* and the channel has room for all messages, so that no sender parks the flush.
Polling ==
    /\ Usage \subseteq {"send", "send_at", "cancel_send", "clone_producer",
                        "drop_producer", "try_receive", "ack", "nack"}
    /\ "try_receive" \in Usage
    /\ Usage \cap {"ack", "nack"} # {}
    /\ IsFiniteSet(Messages) /\ Cardinality(Messages) <= Capacity

-----------------------------------------------------------------------------
(* The consumer's loop *)

\* The consumer calls try_receive and nothing else, and is never dropped.
PollingInv ==
    /\ rx_open /\ ~shutdown
    /\ pc \in {"idle", "lock_flush", "flush", "try_recv"}
    /\ pc # "idle" => call = "try_receive"

\* Its only way around.
Around == {<<"idle", "lock_flush">>, <<"lock_flush", "flush">>,
           <<"flush", "try_recv">>, <<"try_recv", "idle">>}

LEMMA PollingNext ==
    ASSUME Polling, PollingInv, [Next]_vars
    PROVE  /\ PollingInv'
           /\ UNCHANGED pc \/ <<pc, pc'>> \in Around
           /\ pc = "lock_flush" => UNCHANGED pc \/ FlushLock
           /\ StartCall \/ ConsumerStep \/ FlushLock => pc' # pc
<1> DEFINE G == /\ PollingInv'
                /\ UNCHANGED pc \/ <<pc, pc'>> \in Around
                /\ pc = "lock_flush" => UNCHANGED pc \/ FlushLock
                /\ StartCall \/ ConsumerStep \/ FlushLock => pc' # pc
<1> USE DEF channelVars, sharedVars, producerVars, consumerVars, deliveryVars,
            environmentVars, historyVars, PollingInv, Around, Polling
<1>1. ASSUME UNCHANGED <<rx_open, shutdown, pc, call>>
      PROVE  G
  <2>1. ~StartCall
    BY <1>1 DEF StartCall, CallReceive, CallTryReceive, CallReceiveGraceful,
                Start, Enter
  <2>2. ~ConsumerStep
    BY <1>1 DEF ConsumerStep, PollReceive, StopGraceful, CheckShutdown, FlushDone,
                TryRecv, PollRecv, TimerElapsed, TimerPending, PollLiveness,
                Wake, Deliver, Enter, Return
  <2>3. ~FlushLock
    BY <1>1 DEF FlushLock
  <2> QED BY <1>1, <2>1, <2>2, <2>3
<1>2. CASE UNCHANGED vars
  BY <1>1, <1>2 DEF vars
<1>3. CASE ProducerNext
  BY <1>1, <1>3 DEF ProducerNext, CloneProducer, DropProducer, Send, SendCompletes,
              SendFails, SendAt, SendAtCompletes, CancelSend
<1>4. CASE StartCall
  <2>1. CallTryReceive
    BY <1>4 DEF StartCall, CallReceive, CallReceiveGraceful, Start
  <2>2. /\ pc = "idle" /\ pc' = "lock_flush" /\ call' = "try_receive"
        /\ UNCHANGED <<rx_open, shutdown>>
    BY <2>1 DEF CallTryReceive, Start, Enter
  <2> QED BY <2>2
<1>5. CASE ConsumerStep
  <2>1. FlushDone \/ TryRecv
    BY <1>5 DEF ConsumerStep, PollReceive, StopGraceful, CheckShutdown, PollRecv,
                TimerElapsed, TimerPending, PollLiveness, Wake
  <2>2. /\ \/ pc = "flush" /\ pc' = "try_recv"
           \/ pc = "try_recv" /\ pc' = "idle"
        /\ UNCHANGED <<rx_open, shutdown, call>>
    BY <2>1 DEF FlushDone, TryRecv, Deliver, Enter, Return
  <2> QED BY <2>2
<1>6. CASE FlushLock
  BY <1>6 DEF FlushLock
<1>7. CASE FlushSend
  BY <1>1, <1>7 DEF FlushSend
<1>8. ~ReadNextScheduled /\ ~CancelReceive /\ ~DropConsumer /\ ~Shutdown
  BY DEF ReadNextScheduled, CancelReceive, DropConsumer, Shutdown
<1>9. CASE DeliveryNext
  BY <1>1, <1>9 DEF DeliveryNext, Ack, Nack, DropDelivery, NackLock, NackRequeue,
              NackRequeueFails, CancelNack
<1>10. CASE Tick
  BY <1>1, <1>10 DEF Tick
<1> QED BY <1>2, <1>3, <1>4, <1>5, <1>6, <1>7, <1>8, <1>9, <1>10
        DEF Next, ConsumerNext

\* What the life of a message rests on.
LifeInv == Base /\ NeverBlocked /\ NoSilentLoss /\ PollingInv

LEMMA Life ==
    ASSUME Polling
    PROVE  Spec => []LifeInv
<1>1. Spec => []Base
  <2>1. Base /\ VisibilityInv => Base
    OBVIOUS
  <2> QED BY <2>1, Dated, PTL
<1>2. Spec => []NeverBlocked
  BY RoomForAll DEF Polling
<1>3. Spec => []NoSilentLoss
  <2>1. Usage \cap LosingCalls = {}
    BY DEF Polling, LosingCalls
  <2> QED BY <2>1, NothingIsLost
<1>4. Spec => []PollingInv
  <2>1. Init => PollingInv
    BY DEF Init, PollingInv
  <2>2. PollingInv /\ [Next]_vars => PollingInv'
    BY PollingNext
  <2> QED BY <2>1, <2>2, PTL DEF Spec
<1>5. Base /\ NeverBlocked /\ NoSilentLoss /\ PollingInv => LifeInv
  BY DEF LifeInv
<1> QED BY <1>1, <1>2, <1>3, <1>4, <1>5, PTL

-----------------------------------------------------------------------------
(* The way of a message *)

\* Where the messages of a place go in one step.
Forward ==
    /\ IdsInSchedule(scheduled)
          \subseteq IdsInSchedule(scheduled') \cup IdsInSchedule(due')
    /\ IdsInSchedule(due) \subseteq IdsInSchedule(due') \cup IdsInSeq(channel')
    /\ IdsInSeq(channel) \subseteq IdsInSeq(channel') \cup IdsInSet(held')
    /\ IdsInSet(held)
          \subseteq IdsInSet(held') \cup IdsInSet(nacking') \cup acked'
    /\ IdsInSet(nacking)
          \subseteq IdsInSet(nacking') \cup IdsInSet(requeuing') \cup exhausted'
    /\ IdsInSet(requeuing)
          \subseteq IdsInSet(requeuing') \cup IdsInSeq(channel')

\* The attempts only grow, by one when a nack goes on.
Counting ==
    /\ \A m \in Messages : nack_counts[m] <= nack_counts'[m]
    /\ \A m \in IdsInSet(nacking) :
          \/ m \in IdsInSet(nacking') \/ m \in exhausted'
          \/ m \in IdsInSet(requeuing') /\ nack_counts'[m] = nack_counts[m] + 1

LEMMA NackLockCounts ==
    ASSUME Base, NEW e \in nacking, NackLock(e)
    PROVE  Counting /\ Forward
<1>1. /\ e.id \in Messages /\ e \in Envelopes
      /\ nack_counts \in [Messages -> 0 .. U32Max]
      /\ nack_counts[e.id] \in 0 .. U32Max /\ nack_counts[e.id] < U32Max
  <2>1. e \in Envelopes /\ e.id \in Messages
        /\ nack_counts \in [Messages -> 0 .. U32Max]
    BY DEF Base, TypeOK, Envelopes
  <2>2. e.delivery_count = nack_counts[e.id] + 1 /\ e.delivery_count <= Limit
    BY DEF Base, CountInv, ReceivedCounts
  <2> QED BY <2>1, <2>2, LimitType, EnvelopeAssumption
<1>2. nack_counts'[e.id] = nack_counts[e.id] + 1
  BY <1>1, EnvelopeAssumption DEF NackLock, Increment
<1>3. \A m \in Messages \ {e.id} : nack_counts'[m] = nack_counts[m]
  BY <1>1 DEF NackLock
<1>4. \A m \in Messages : nack_counts[m] <= nack_counts'[m]
  BY <1>1, <1>2, <1>3
<1>5. \/ nacking' = nacking \ {e} /\ exhausted' = exhausted \cup {e.id}
      \/ nacking' = nacking \ {e} /\ requeuing' = requeuing \cup {e}
  BY DEF NackLock
<1>6. \A m \in IdsInSet(nacking) :
         \/ m \in IdsInSet(nacking')
         \/ m = e.id /\ (m \in exhausted' \/ m \in IdsInSet(requeuing'))
  BY <1>5 DEF IdsInSet
<1>7. UNCHANGED <<scheduled, due, channel, held>> /\ requeuing \subseteq requeuing'
  BY DEF NackLock, channelVars, consumerVars
<1> QED BY <1>2, <1>4, <1>6, <1>7 DEF Counting, Forward, IdsInSet

LEMMA ForwardNext ==
    ASSUME Polling, LifeInv, [Next]_vars
    PROVE  Forward /\ Counting
<1> DEFINE G == Forward /\ Counting
<1> USE DEF channelVars, sharedVars, producerVars, consumerVars, deliveryVars,
            environmentVars, historyVars
<1>0. TypeOK /\ LockDiscipline /\ nack_counts \in [Messages -> 0 .. U32Max]
  BY DEF LifeInv, Base, TypeOK
<1>1. ASSUME UNCHANGED <<nack_counts, nacking>>, Forward
      PROVE  G
  BY <1>0, <1>1 DEF Counting
<1>2. ASSUME UNCHANGED <<nack_counts, scheduled, due, channel, held, nacking, requeuing>>
      PROVE  G
  BY <1>1, <1>2 DEF Forward
<1>3. CASE UNCHANGED vars
  BY <1>2, <1>3 DEF vars
<1>4. CASE ProducerNext
  <2>1. ASSUME NEW s \in sending, SendCompletes(s)
        PROVE  G
    <3>1. IdsInSeq(channel') = IdsInSeq(channel) \cup {s.env.id}
      BY <2>1, <1>0, AppendIds DEF SendCompletes, Push, TypeOK
    <3> QED BY <2>1, <3>1, <1>1 DEF SendCompletes, Forward
  <2>2. ASSUME NEW s \in scheduling, SendAtCompletes(s)
        PROVE  G
    <3>1. IdsInSchedule(scheduled') = IdsInSchedule(scheduled) \cup {s.env.id}
      BY <2>2, <1>0, ScheduleIds DEF SendAtCompletes, TypeOK
    <3> QED BY <2>2, <3>1, <1>1 DEF SendAtCompletes, Forward
  <2> QED BY <1>2, <1>4, <2>1, <2>2
          DEF ProducerNext, CloneProducer, DropProducer, Send, SendFails, SendAt,
              CancelSend
<1>5. CASE StartCall
  BY <1>2, <1>5 DEF StartCall, CallReceive, CallTryReceive, CallReceiveGraceful,
                    Start, Enter, Return
<1>6. CASE ConsumerStep
  <2>1. FlushDone \/ TryRecv
    BY <1>6 DEF ConsumerStep, PollReceive, StopGraceful, CheckShutdown, PollRecv,
                TimerElapsed, TimerPending, PollLiveness, Wake, LifeInv, PollingInv
  <2>2. CASE FlushDone
    BY <1>2, <2>2 DEF FlushDone
  <2>3. CASE TryRecv /\ channel # <<>> /\ Deliver
    <3>1. IdsInSeq(channel) = IdsInSeq(channel') \cup {Head(channel).id}
      BY <2>3, <1>0, TailIds DEF Deliver, TypeOK
    <3>2. IdsInSet(held') = IdsInSet(held) \cup {Head(channel).id}
      BY <2>3 DEF Deliver, IdsInSet
    <3>3. UNCHANGED <<nack_counts, scheduled, due, nacking, requeuing>>
      BY <2>3 DEF TryRecv
    <3> QED BY <3>1, <3>2, <3>3, <1>1 DEF Forward
  <2>4. CASE TryRecv /\ ~(channel # <<>> /\ Deliver)
    BY <1>2, <2>4 DEF TryRecv
  <2> QED BY <2>1, <2>2, <2>3, <2>4
<1>7. CASE FlushLock
  <2>1. /\ IdsInSchedule(scheduled)
              = IdsInSchedule(due') \cup IdsInSchedule(scheduled')
        /\ IdsInSchedule(due) = {}
    BY <1>0, <1>7, SplitIds, NothingScheduledIds
       DEF FlushLock, TypeOK, LockDiscipline
  <2> QED BY <1>1, <1>7, <2>1 DEF FlushLock, Forward
<1>8. CASE FlushSend
  <2> DEFINE x == Head(due[FirstKey(due)]).id
  <2>1. /\ IdsInSchedule(due) = IdsInSchedule(due') \cup {x}
        /\ IdsInSeq(channel') = IdsInSeq(channel) \cup {x}
    BY <1>0, <1>8, UnflushedType, UnflushedIds, AppendIds
       DEF FlushSend, Push, TypeOK
  <2> HIDE DEF x
  <2> QED BY <1>1, <1>8, <2>1 DEF FlushSend, Forward
<1>9. ~ReadNextScheduled /\ ~CancelReceive /\ ~DropConsumer
  BY DEF ReadNextScheduled, CancelReceive, DropConsumer, LifeInv, PollingInv,
         Polling
<1>10. CASE DeliveryNext
  <2>1. ASSUME NEW e \in held, Ack(e) \/ Nack(e)
        PROVE  G
    <3>1. \/ acked' = acked \cup {e.id} /\ nacking' = nacking
          \/ nacking' = nacking \cup {e}
      BY <2>1 DEF Ack, Nack
    <3>2. held' = held \ {e} /\ nacking \subseteq nacking'
          /\ UNCHANGED <<nack_counts, scheduled, due, channel, requeuing>>
      BY <2>1 DEF Ack, Nack
    <3>3. \A m \in IdsInSet(held) : m \in IdsInSet(held') \/ m = e.id
      BY <3>2 DEF IdsInSet
    <3>4. e.id \in IdsInSet(nacking') \cup acked'
      BY <3>1 DEF IdsInSet
    <3>5. IdsInSet(nacking) \subseteq IdsInSet(nacking')
      BY <3>2 DEF IdsInSet
    <3>6. Forward
      BY <3>2, <3>3, <3>4, <3>5 DEF Forward
    <3> QED BY <3>2, <3>5, <3>6, <1>0 DEF Counting
  <2>2. ASSUME NEW e \in nacking, NackLock(e)
        PROVE  G
    BY <2>2, NackLockCounts DEF LifeInv
  <2>3. ASSUME NEW e \in requeuing, NackRequeue(e)
        PROVE  G
    <3>1. IdsInSeq(channel') = IdsInSeq(channel) \cup {e.id}
      BY <2>3, <1>0, RedeliveredType, AppendIds DEF NackRequeue, Push, TypeOK
    <3>2. requeuing' = requeuing \ {e}
          /\ UNCHANGED <<nack_counts, scheduled, due, held, nacking>>
      BY <2>3 DEF NackRequeue
    <3>3. \A m \in IdsInSet(requeuing) : m \in IdsInSet(requeuing') \/ m = e.id
      BY <3>2 DEF IdsInSet
    <3> QED BY <3>1, <3>2, <3>3, <1>1 DEF Forward
  <2>4. /\ \A e \in requeuing : ~NackRequeueFails(e)
        /\ \A e \in held : ~DropDelivery(e)
        /\ \A e \in nacking \cup requeuing : ~CancelNack(e)
    BY DEF NackRequeueFails, DropDelivery, CancelNack, LifeInv, PollingInv, Polling
  <2> QED BY <1>10, <2>1, <2>2, <2>3, <2>4 DEF DeliveryNext
<1>11. CASE Shutdown \/ Tick
  BY <1>2, <1>11 DEF Shutdown, Tick
<1> QED BY <1>3, <1>4, <1>5, <1>6, <1>7, <1>8, <1>9, <1>10, <1>11
        DEF Next, ConsumerNext

-----------------------------------------------------------------------------
(* The flush comes to an end: an induction on the number of due messages *)

LEMMA FairPolling ==
    FairSpec => /\ Spec
                /\ WF_vars(ConsumerStep) /\ WF_vars(StartCall) /\ WF_vars(Tick)
                /\ SF_vars(FlushLock) /\ SF_vars(FlushSend)
BY PTL DEF FairSpec, RuntimeFairness, ApplicationFairness

LEMMA FairTasks ==
    FairSpec => \A m \in Messages : TaskFairness(m)
BY PTL DEF FairSpec, RuntimeFairness

LEMMA FairApplication ==
    FairSpec => \A m \in Messages : SettleFairness(m)
BY PTL DEF FairSpec, ApplicationFairness

LEMMA FairSettling ==
    ASSUME NEW m \in Messages
    PROVE  FairSpec => TaskFairness(m) /\ SettleFairness(m)
BY FairTasks, FairApplication

DueCount == Cardinality(IdsInSchedule(due))

LEMMA FlushFlow ==
    ASSUME Polling, PollingInv, [Next]_vars, pc = "flush"
    PROVE  UNCHANGED <<pc, due>> \/ FlushSend \/ FlushDone
<1> USE DEF channelVars, sharedVars, producerVars, consumerVars, deliveryVars,
            environmentVars, historyVars
<1>1. CASE UNCHANGED vars
  BY <1>1 DEF vars
<1>2. CASE ProducerNext
  BY <1>2 DEF ProducerNext, CloneProducer, DropProducer, Send, SendCompletes,
              SendFails, SendAt, SendAtCompletes, CancelSend
<1>3. ~StartCall
  BY DEF StartCall, CallReceive, CallTryReceive, CallReceiveGraceful, Start
<1>4. CASE ConsumerStep
  BY <1>4 DEF ConsumerStep, PollReceive, StopGraceful, CheckShutdown, TryRecv,
              PollRecv, TimerElapsed, TimerPending, PollLiveness, Wake, PollingInv
<1>5. ~FlushLock /\ ~ReadNextScheduled /\ ~CancelReceive /\ ~DropConsumer
  BY DEF FlushLock, ReadNextScheduled, CancelReceive, DropConsumer, Polling
<1>6. CASE DeliveryNext
  BY <1>6 DEF DeliveryNext, Ack, Nack, DropDelivery, NackLock, NackRequeue,
              NackRequeueFails, CancelNack
<1>7. CASE Shutdown \/ Tick
  BY <1>7 DEF Shutdown, Tick
<1> QED BY <1>1, <1>2, <1>3, <1>4, <1>5, <1>6, <1>7 DEF Next, ConsumerNext

LEMMA VarsChange == pc' # pc => vars' # vars
BY DEF vars, consumerVars

\* Without cancellations only a nack's own steps change what is requeued.
LEMMA RequeuingFlow ==
    ASSUME Polling, LifeInv, [Next]_vars
    PROVE  \/ UNCHANGED requeuing
           \/ \E e \in requeuing : NackRequeue(e)
           \/ \E e \in nacking : NackLock(e)
<1> USE DEF deliveryVars
<1>1. CASE UNCHANGED vars
  BY <1>1 DEF vars
<1>2. CASE ProducerNext
  BY <1>2 DEF ProducerNext, CloneProducer, DropProducer, Send, SendCompletes,
              SendFails, SendAt, SendAtCompletes, CancelSend
<1>3. CASE StartCall
  BY <1>3 DEF StartCall, CallReceive, CallTryReceive, CallReceiveGraceful, Start
<1>4. CASE ConsumerStep
  BY <1>4 DEF ConsumerStep, PollReceive, StopGraceful, CheckShutdown, FlushDone,
              TryRecv, PollRecv, TimerElapsed, TimerPending, PollLiveness, Wake
<1>5. CASE FlushLock \/ FlushSend \/ ReadNextScheduled \/ CancelReceive
              \/ DropConsumer
  BY <1>5 DEF FlushLock, FlushSend, ReadNextScheduled, CancelReceive,
              DropConsumer
<1>6. CASE DeliveryNext
  BY <1>6 DEF DeliveryNext, Ack, Nack, DropDelivery, NackRequeueFails,
              CancelNack, LifeInv, PollingInv, Polling
<1>7. CASE Shutdown \/ Tick
  BY <1>7 DEF Shutdown, Tick
<1> QED BY <1>1, <1>2, <1>3, <1>4, <1>5, <1>6, <1>7 DEF Next, ConsumerNext

LEMMA DueCounts ==
    ASSUME Polling, LifeInv
    PROVE  /\ DueCount \in Nat
           /\ DueCount = 0 => Keys(due) = {}
           /\ FlushSend => pc' = pc /\ DueCount' = DueCount - 1
<1> DEFINE S == IdsInSchedule(due)
<1>1. due \in Schedules /\ channel \in Seq(Envelopes)
  BY DEF LifeInv, Base, TypeOK
<1>2. IsFiniteSet(S) /\ DueCount \in Nat
  <2>1. S \subseteq Messages
    BY WaitingIds DEF LifeInv, Base, Waiting
  <2> QED BY <2>1, FS_Subset, FS_CardinalityType DEF Polling, DueCount
<1>3. ASSUME DueCount = 0 PROVE Keys(due) = {}
  <2>1. S = {}
    BY <1>2, <1>3, FS_EmptySet DEF DueCount
  <2>2. \A t \in Times : IdsInSeq(due[t]) = {}
    BY <2>1 DEF IdsInSchedule
  <2>3. Keys(due) \subseteq Times
    BY DEF Keys
  <2> QED BY <1>1, <2>2, <2>3, KeyIds
<1>4. ASSUME FlushSend PROVE pc' = pc /\ DueCount' = DueCount - 1
  <2> DEFINE x == Head(due[FirstKey(due)]).id
  <2>1. DistinctInSchedule(due)
    BY DEF LifeInv, Base, NoDuplicate, PlacesDistinct
  <2>2. S = IdsInSchedule(due') \cup {x} /\ x \notin IdsInSchedule(due')
    BY <1>1, <1>4, <2>1, UnflushedIds DEF FlushSend
  <2> HIDE DEF x
  <2>3. IdsInSchedule(due') = S \ {x} /\ x \in S
    BY <2>2
  <2>4. DueCount' = DueCount - 1
    BY <1>2, <2>3, FS_RemoveElement DEF DueCount
  <2> QED BY <1>4, <2>4 DEF FlushSend
<1> QED BY <1>2, <1>3, <1>4

\* What the induction is about: the flush sends n messages and ends.
FlushEndsFrom(n) ==
    FairSpec /\ []NeverStalls =>
        ((pc = "flush" /\ DueCount <= n) ~> pc = "try_recv")

LEMMA FlushEndsFromNone ==
    ASSUME Polling
    PROVE  FlushEndsFrom(0)
<1> DEFINE P == pc = "flush" /\ DueCount <= 0
           Q == pc = "try_recv"
<1>1. ASSUME LifeInv, P
      PROVE  Keys(due) = {}
  BY <1>1, DueCounts
<1>2. ASSUME LifeInv, P, [Next]_vars
      PROVE  P' \/ Q'
  <2>1. ~FlushSend
    BY <1>1, <1>2 DEF FlushSend
  <2>2. CASE UNCHANGED <<pc, due>>
    BY <1>2, <2>2 DEF DueCount
  <2>3. CASE FlushDone
    BY <2>3 DEF FlushDone
  <2> QED BY <1>2, <2>1, <2>2, <2>3, FlushFlow DEF LifeInv
<1>3. ASSUME LifeInv, P, <<ConsumerStep>>_vars
      PROVE  Q'
  <2>1. pc' # pc
    BY <1>3, PollingNext DEF LifeInv, Next, ConsumerNext
  <2> QED BY <1>2, <1>3, <2>1 DEF Next, ConsumerNext
<1>4. LifeInv /\ NeverStalls /\ P => ENABLED <<ConsumerStep>>_vars
  BY <1>1 DEF NeverStalls
<1>5. FairSpec /\ []NeverStalls => (P ~> Q)
  <2> HIDE DEF P, Q
  <2> QED BY <1>2, <1>3, <1>4, Life, FairPolling, PTL DEF Spec
<1> QED BY <1>5 DEF FlushEndsFrom

LEMMA FlushEndsFromNext ==
    ASSUME Polling, NEW n \in Nat
    PROVE  FlushEndsFrom(n) => FlushEndsFrom(n + 1)
<1> DEFINE P == pc = "flush" /\ DueCount <= n
           R == pc = "flush" /\ DueCount <= n + 1
           M == pc = "flush" /\ DueCount = n + 1
           Q == pc = "try_recv"
<1>1. LifeInv /\ R => P \/ M
  BY DueCounts
<1>2. ASSUME LifeInv, M, [Next]_vars
      PROVE  M' \/ P' \/ Q'
  <2>1. CASE UNCHANGED <<pc, due>>
    BY <1>2, <2>1 DEF DueCount
  <2>2. CASE FlushSend
    BY <1>2, <2>2, DueCounts
  <2>3. CASE FlushDone
    BY <2>3 DEF FlushDone
  <2> QED BY <1>2, <2>1, <2>2, <2>3, FlushFlow DEF LifeInv
<1>3. ASSUME LifeInv, M, <<FlushSend>>_vars
      PROVE  P'
  BY <1>3, DueCounts
<1>4. ASSUME LifeInv, M, <<ConsumerStep>>_vars
      PROVE  P' \/ Q'
  <2>1. pc' # pc
    BY <1>4, PollingNext DEF LifeInv, Next, ConsumerNext
  <2> QED BY <1>2, <1>4, <2>1 DEF Next, ConsumerNext
<1>5. LifeInv /\ NeverStalls /\ M
         => ENABLED <<ConsumerStep>>_vars \/ ENABLED <<FlushSend>>_vars
  BY DEF NeverStalls, LifeInv, NeverBlocked
<1>6. (FairSpec /\ []NeverStalls => (P ~> Q)) => (FairSpec /\ []NeverStalls => (R ~> Q))
  <2> HIDE DEF P, R, M, Q
  <2> QED BY <1>1, <1>2, <1>3, <1>4, <1>5, Life, FairPolling, PTL DEF Spec
<1> QED BY <1>6 DEF FlushEndsFrom

FlushEnds == FairSpec /\ []NeverStalls => (pc = "flush" ~> pc = "try_recv")

LEMMA FlushEndsFromAll ==
    ASSUME Polling
    PROVE  FlushEndsFrom(Cardinality(Messages)) => FlushEnds
<1> DEFINE F == pc = "flush"
           P == pc = "flush" /\ DueCount <= Cardinality(Messages)
           Q == pc = "try_recv"
<1>1. LifeInv /\ F => P
  <2>1. SUFFICES ASSUME LifeInv PROVE DueCount <= Cardinality(Messages)
    OBVIOUS
  <2>2. IdsInSchedule(due) \subseteq Messages
    BY <2>1, WaitingIds DEF LifeInv, Base, Waiting
  <2> QED BY <2>2, FS_Subset DEF Polling, DueCount
<1>2. (FairSpec /\ []NeverStalls => (P ~> Q)) => (FairSpec /\ []NeverStalls => (F ~> Q))
  <2> HIDE DEF F, P, Q
  <2> QED BY <1>1, Life, FairPolling, PTL
<1> QED BY <1>2 DEF FlushEndsFrom, FlushEnds

-----------------------------------------------------------------------------
(* The mutex is free again and again: an induction on the nacks that may have it *)

\* A nack that has the mutex puts its message into the channel and lets go of it.
LEMMA RequeueingEnds ==
    ASSUME Polling, NEW m \in Messages
    PROVE  FairSpec /\ []NeverStalls =>
              (m \in IdsInSet(requeuing)
                  ~> m \in IdsInSeq(channel) /\ lock = "free")
<1> DEFINE P == m \in IdsInSet(requeuing)
           Q == m \in IdsInSeq(channel) /\ lock = "free"
<1>1. ASSUME LifeInv, NEW e \in requeuing, NackRequeue(e)
      PROVE  e.id \in IdsInSeq(channel') /\ lock' = "free"
             /\ requeuing' = requeuing \ {e}
  <2>1. IdsInSeq(channel') = IdsInSeq(channel) \cup {e.id}
    BY <1>1, RedeliveredType, AppendIds
       DEF NackRequeue, Push, TypeOK, LifeInv, Base
  <2> QED BY <1>1, <2>1 DEF NackRequeue
<1>2. ASSUME LifeInv, P, [Next]_vars
      PROVE  P' \/ Q'
  <2>1. CASE UNCHANGED requeuing
    BY <1>2, <2>1
  <2>2. ASSUME NEW e \in requeuing, NackRequeue(e)
        PROVE  P' \/ Q'
    <3>1. m = e.id \/ m \in IdsInSet(requeuing')
      BY <1>1, <1>2, <2>2 DEF IdsInSet
    <3> QED BY <1>1, <1>2, <2>2, <3>1
  <2>3. ASSUME NEW e \in nacking, NackLock(e)
        PROVE  P' \/ Q'
    BY <1>2, <2>3 DEF NackLock, IdsInSet
  <2>4. \/ UNCHANGED requeuing
        \/ \E e \in requeuing : NackRequeue(e)
        \/ \E e \in nacking : NackLock(e)
    BY <1>2, RequeuingFlow
  <2> QED BY <2>1, <2>2, <2>3, <2>4
<1>3. ASSUME LifeInv, P, <<NackSteps(m)>>_vars
      PROVE  Q'
  <2>1. lock = "nack"
    BY <1>3 DEF LifeInv, Base, LockDiscipline, IdsInSet
  <2>2. \E e \in requeuing : e.id = m /\ NackRequeue(e)
    BY <1>3, <2>1 DEF NackSteps, NackLock, NackRequeueFails, LifeInv, PollingInv
  <2> QED BY <1>1, <1>3, <2>2
<1>4. LifeInv /\ NeverStalls /\ P => ENABLED <<NackSteps(m)>>_vars
  BY DEF LifeInv, NeverBlocked, NeverStalls, DeliveriesNeverStall, IdsInSet
<1>5. FairSpec /\ []NeverStalls => (P ~> Q)
  <2> HIDE DEF P, Q
  <2> QED BY <1>2, <1>3, <1>4, Life, FairPolling, FairSettling, PTL
          DEF Spec, TaskFairness
<1> QED BY <1>5

\* What the induction is about: the nacks of the messages in T let go of the mutex.
FreedFrom(T) ==
    FairSpec /\ []NeverStalls =>
        (T \cap IdsInSet(requeuing) # {} ~> lock = "free")

LEMMA FreedFromNone == FreedFrom({})
<1> DEFINE P == {} \cap IdsInSet(requeuing) # {}
           Q == lock = "free"
<1>1. ~P
  OBVIOUS
<1>2. FairSpec /\ []NeverStalls => (P ~> Q)
  <2> HIDE DEF P, Q
  <2> QED BY <1>1, PTL
<1> QED BY <1>2 DEF FreedFrom

LEMMA FreedFromNext ==
    ASSUME Polling, NEW T \in SUBSET Messages, NEW m \in Messages
    PROVE  FreedFrom(T) => FreedFrom(T \cup {m})
<1> DEFINE P == T \cap IdsInSet(requeuing) # {}
           R == (T \cup {m}) \cap IdsInSet(requeuing) # {}
           M == m \in IdsInSet(requeuing)
           C == m \in IdsInSeq(channel)
           Q == lock = "free"
<1>1. R => P \/ M
  OBVIOUS
<1>2. FairSpec /\ []NeverStalls => (M ~> C /\ Q)
  BY RequeueingEnds
<1>3. (FairSpec /\ []NeverStalls => (P ~> Q)) => (FairSpec /\ []NeverStalls => (R ~> Q))
  <2> HIDE DEF P, R, M, C, Q
  <2> QED BY <1>1, <1>2, PTL
<1> QED BY <1>3 DEF FreedFrom

LockFreed == FairSpec /\ []NeverStalls => []<>(lock = "free")

LEMMA FreedFromAll ==
    ASSUME Polling
    PROVE  FlushEnds /\ FreedFrom(Messages) => LockFreed
<1> DEFINE F == pc = "flush"
           E == pc = "try_recv"
           P == Messages \cap IdsInSet(requeuing) # {}
           Q == lock = "free"
<1>1. LifeInv => Q \/ F \/ P
  <2>1. SUFFICES ASSUME LifeInv, requeuing # {} PROVE P
    BY DEF LifeInv, Base, LockDiscipline, TypeOK
  <2>2. PICK e \in requeuing : TRUE
    BY <2>1
  <2>3. e.id \in Messages
    BY <2>1 DEF LifeInv, Base, TypeOK, Envelopes
  <2> QED BY <2>3 DEF IdsInSet
<1>2. E => ~F
  OBVIOUS
<1>3. (FairSpec /\ []NeverStalls => (F ~> E)) /\ (FairSpec /\ []NeverStalls => (P ~> Q))
         => (FairSpec /\ []NeverStalls => []<>Q)
  <2> HIDE DEF F, E, P, Q
  <2> QED BY <1>1, <1>2, Life, FairPolling, PTL
<1> QED BY <1>3 DEF FlushEnds, FreedFrom, LockFreed

-----------------------------------------------------------------------------
(* The consumer goes round and round, and time comes to its end *)

Rounds ==
    FairSpec /\ []NeverStalls =>
        []<>(pc = "idle") /\ []<>(pc = "lock_flush") /\ []<>(pc = "try_recv")

LEMMA RoundsEnd ==
    ASSUME Polling
    PROVE  FlushEnds /\ LockFreed => Rounds
<1> DEFINE I == pc = "idle"
           L == pc = "lock_flush"
           F == pc = "flush"
           E == pc = "try_recv"
           Q == lock = "free"
<1>1. LifeInv => I \/ L \/ F \/ E
  BY DEF LifeInv, PollingInv
<1>2. ASSUME LifeInv, [Next]_vars
      PROVE  (I => I' \/ L') /\ (L => L' \/ F') /\ (E => E' \/ I')
  BY <1>2, PollingNext DEF LifeInv, Around
<1>3. /\ LifeInv /\ <<StartCall>>_vars => pc' # pc
      /\ LifeInv /\ <<ConsumerStep>>_vars => pc' # pc
      /\ LifeInv /\ <<FlushLock>>_vars => pc' # pc
  BY PollingNext DEF LifeInv, Next, ConsumerNext
<1>4. /\ LifeInv /\ I /\ <<StartCall>>_vars => L'
      /\ LifeInv /\ E /\ <<ConsumerStep>>_vars => I'
      /\ LifeInv /\ L /\ <<FlushLock>>_vars => F'
  BY <1>2, <1>3 DEF Next, ConsumerNext
<1>5. /\ LifeInv /\ NeverStalls /\ I => ENABLED <<StartCall>>_vars
      /\ LifeInv /\ NeverStalls /\ E => ENABLED <<ConsumerStep>>_vars
      /\ LifeInv /\ NeverStalls /\ L /\ Q => ENABLED <<FlushLock>>_vars
  BY DEF LifeInv, PollingInv, NeverStalls, Polling, ReceiveCalls
<1>6. (FairSpec /\ []NeverStalls => (F ~> E)) /\ (FairSpec /\ []NeverStalls => []<>Q)
         => (FairSpec /\ []NeverStalls => []<>I /\ []<>L /\ []<>E)
  <2> HIDE DEF I, L, F, E, Q
  <2> QED BY <1>1, <1>2, <1>4, <1>5, Life, FairPolling, PTL DEF Spec
<1> QED BY <1>6 DEF FlushEnds, LockFreed, Rounds

\* What the induction is about: the clock reaches n.
TimeReaches(n) == FairSpec /\ []NeverStalls => <>(now >= n)

LEMMA TimeReachesStart == TimeReaches(0)
<1> DEFINE Q == now >= 0
<1>1. TypeOK => Q
  BY DEF TypeOK, Times
<1>2. FairSpec /\ []NeverStalls => <>Q
  <2> HIDE DEF Q
  <2> QED BY <1>1, TypeCorrect, FairPolling, PTL
<1> QED BY <1>2 DEF TimeReaches

LEMMA TimeNext ==
    ASSUME TypeOK, [Next]_vars
    PROVE  UNCHANGED now \/ Tick
<1> USE DEF environmentVars
<1>1. CASE UNCHANGED vars
  BY <1>1 DEF vars
<1>2. CASE ProducerNext
  BY <1>2 DEF ProducerNext, CloneProducer, DropProducer, Send, SendCompletes,
              SendFails, SendAt, SendAtCompletes, CancelSend
<1>3. CASE StartCall
  BY <1>3 DEF StartCall, CallReceive, CallTryReceive, CallReceiveGraceful, Start
<1>4. CASE ConsumerStep
  BY <1>4 DEF ConsumerStep, PollReceive, StopGraceful, CheckShutdown, FlushDone,
              TryRecv, PollRecv, TimerElapsed, TimerPending, PollLiveness, Wake
<1>5. CASE FlushLock \/ FlushSend \/ ReadNextScheduled \/ CancelReceive
              \/ DropConsumer
  BY <1>5 DEF FlushLock, FlushSend, ReadNextScheduled, CancelReceive,
              DropConsumer
<1>6. CASE DeliveryNext
  BY <1>6 DEF DeliveryNext, Ack, Nack, DropDelivery, NackLock, NackRequeue,
              NackRequeueFails, CancelNack
<1>7. CASE Shutdown \/ Tick
  BY <1>7 DEF Shutdown
<1> QED BY <1>1, <1>2, <1>3, <1>4, <1>5, <1>6, <1>7 DEF Next, ConsumerNext

LEMMA TimeReachesNext ==
    ASSUME NEW n \in Nat, n + 1 <= MaxTime
    PROVE  TimeReaches(n) => TimeReaches(n + 1)
<1> DEFINE P == now >= n
           M == now = n
           Q == now >= n + 1
<1>1. TypeOK /\ P => M \/ Q
  BY DEF TypeOK, Times
<1>2. TypeOK /\ M /\ [Next]_vars => M' \/ Q'
  BY TimeNext DEF Tick
<1>3. M /\ <<Tick>>_vars => Q'
  BY DEF Tick
<1>4. NeverStalls /\ M => ENABLED <<Tick>>_vars
  BY EnvelopeAssumption DEF NeverStalls
<1>5. (FairSpec /\ []NeverStalls => <>P) => (FairSpec /\ []NeverStalls => <>Q)
  <2> HIDE DEF P, M, Q
  <2> QED BY <1>1, <1>2, <1>3, <1>4, TypeCorrect, FairPolling, PTL DEF Spec
<1> QED BY <1>5 DEF TimeReaches

TimeEnds == FairSpec /\ []NeverStalls => <>[](now = MaxTime)

LEMMA TimeReachesEnd == TimeReaches(MaxTime) => TimeEnds
<1> DEFINE P == now >= MaxTime
           Q == now = MaxTime
<1>1. TypeOK /\ P => Q
  BY EnvelopeAssumption DEF TypeOK, Times
<1>2. TypeOK /\ Q /\ [Next]_vars => Q'
  BY EnvelopeAssumption, TimeNext DEF Tick
<1>3. (FairSpec /\ []NeverStalls => <>P) => (FairSpec /\ []NeverStalls => <>[]Q)
  <2> HIDE DEF P, Q
  <2> QED BY <1>1, <1>2, TypeCorrect, FairPolling, PTL DEF Spec
<1> QED BY <1>3 DEF TimeReaches, TimeEnds

-----------------------------------------------------------------------------
(* The stations of a message *)

\* A scheduled message is due when the flush looks at the clock at the latest.
LEMMA ScheduledEnds ==
    ASSUME Polling, NEW m \in Messages
    PROVE  Rounds /\ TimeEnds =>
              (FairSpec /\ []NeverStalls =>
                  (m \in IdsInSchedule(scheduled) ~> m \in IdsInSchedule(due)))
<1> DEFINE P == m \in IdsInSchedule(scheduled)
           Q == m \in IdsInSchedule(due)
           T == now = MaxTime
           L == pc = "lock_flush"
           E == pc = "try_recv"
<1>1. LifeInv /\ P /\ [Next]_vars => P' \/ Q'
  BY ForwardNext DEF Forward
<1>2. ASSUME LifeInv, P, T, L, [Next]_vars
      PROVE  L' \/ Q'
  <2>1. CASE UNCHANGED pc
    BY <1>2, <2>1
  <2>2. CASE FlushLock
    <3>1. \A t \in Times : NotDueBy(scheduled, now)[t] = <<>>
      BY <1>2, EnvelopeAssumption DEF NotDueBy, Times
    <3>2. scheduled' = NothingScheduled
      BY <2>2, <3>1 DEF FlushLock, NotDueBy, NothingScheduled
    <3>3. m \notin IdsInSchedule(scheduled')
      BY <3>2, NothingScheduledIds
    <3> QED BY <1>1, <1>2, <3>3
  <2> QED BY <1>2, <2>1, <2>2, PollingNext DEF LifeInv
<1>3. L => ~E
  OBVIOUS
<1>4. (FairSpec /\ []NeverStalls => []<>(pc = "idle") /\ []<>L /\ []<>E)
      /\ (FairSpec /\ []NeverStalls => <>[]T)
         => (FairSpec /\ []NeverStalls => (P ~> Q))
  <2> HIDE DEF P, Q, T, L, E
  <2> QED BY <1>1, <1>2, <1>3, Life, FairPolling, PTL DEF Spec
<1> QED BY <1>4 DEF Rounds, TimeEnds

\* A due message gets into the channel before the flush ends.
LEMMA DueEnds ==
    ASSUME Polling, NEW m \in Messages
    PROVE  FlushEnds =>
              (FairSpec /\ []NeverStalls =>
                  (m \in IdsInSchedule(due) ~> m \in IdsInSeq(channel)))
<1> DEFINE P == m \in IdsInSchedule(due)
           Q == m \in IdsInSeq(channel)
           F == pc = "flush"
           E == pc = "try_recv"
<1>1. LifeInv /\ P /\ [Next]_vars => P' \/ Q'
  BY ForwardNext DEF Forward
<1>2. LifeInv /\ P => F
  BY NothingScheduledIds DEF LifeInv, Base, LockDiscipline
<1>3. E => ~F
  OBVIOUS
<1>4. (FairSpec /\ []NeverStalls => (F ~> E))
         => (FairSpec /\ []NeverStalls => (P ~> Q))
  <2> HIDE DEF P, Q, F, E
  <2> QED BY <1>1, <1>2, <1>3, Life, FairPolling, PTL DEF Spec
<1> QED BY <1>4 DEF FlushEnds

\* The application settles what it holds.
LEMMA HoldingEnds ==
    ASSUME Polling, NEW m \in Messages
    PROVE  FairSpec /\ []NeverStalls =>
              (m \in IdsInSet(held) ~> m \in acked \/ m \in IdsInSet(nacking))
<1> DEFINE P == m \in IdsInSet(held)
           Q == m \in acked \/ m \in IdsInSet(nacking)
<1>1. LifeInv /\ P /\ [Next]_vars => P' \/ Q'
  BY ForwardNext DEF Forward
<1>2. <<Settle(m)>>_vars => Q'
  BY DEF Settle, Ack, Nack, IdsInSet
<1>3. NeverStalls /\ P => ENABLED <<Settle(m)>>_vars
  BY DEF NeverStalls, DeliveriesNeverStall, Polling
<1>4. FairSpec /\ []NeverStalls => (P ~> Q)
  <2> HIDE DEF P, Q
  <2> QED BY <1>1, <1>2, <1>3, Life, FairPolling, FairSettling, PTL
          DEF Spec, SettleFairness
<1> QED BY <1>4

\* A nack gets the mutex, and gives the message up or requeues it with one attempt
\* more counted.
NackEnds(m, c) ==
    FairSpec /\ []NeverStalls =>
        ((m \in IdsInSet(nacking) /\ nack_counts[m] >= c)
            ~> (m \in exhausted
                  \/ (m \in IdsInSet(requeuing) /\ nack_counts[m] >= c + 1)))

LEMMA NackingEnds ==
    ASSUME Polling, NEW m \in Messages, NEW c \in Nat
    PROVE  LockFreed => NackEnds(m, c)
<1> DEFINE P == m \in IdsInSet(nacking) /\ nack_counts[m] >= c
           Q == m \in exhausted
                   \/ (m \in IdsInSet(requeuing) /\ nack_counts[m] >= c + 1)
           F == lock = "free"
<1>1. LifeInv => nack_counts[m] \in Nat
  BY DEF LifeInv, Base, TypeOK
<1>2. ASSUME LifeInv, P, [Next]_vars
      PROVE  P' \/ Q'
  <2>1. /\ nack_counts[m] \in Nat /\ nack_counts'[m] \in Nat
        /\ nack_counts[m] <= nack_counts'[m]
    <3>1. TypeOK'
      BY <1>2, TypeNext DEF LifeInv, Base
    <3> QED BY <1>1, <1>2, <3>1, ForwardNext DEF Counting, TypeOK
  <2>2. \/ m \in IdsInSet(nacking') \/ m \in exhausted'
        \/ m \in IdsInSet(requeuing') /\ nack_counts'[m] = nack_counts[m] + 1
    BY <1>2, ForwardNext DEF Counting
  <2> QED BY <1>2, <2>1, <2>2
<1>3. ASSUME LifeInv, P, <<NackSteps(m)>>_vars
      PROVE  Q'
  <2>1. m \notin IdsInSet(requeuing)
    BY <1>3, PlaceNames DEF LifeInv, Base, NoDuplicate, PlacesApart, Places
  <2>2. PICK e \in nacking : e.id = m /\ NackLock(e)
    BY <1>3, <2>1 DEF NackSteps, IdsInSet
  <2>3. m \notin IdsInSet(nacking')
    <3>1. \A d \in nacking : d.id = e.id => d = e
      BY <1>3 DEF LifeInv, Base, NoDuplicate, PlacesDistinct, DistinctInSet
    <3>2. nacking' = nacking \ {e}
      BY <2>2 DEF NackLock
    <3> QED BY <2>2, <3>1, <3>2 DEF IdsInSet
  <2>4. [Next]_vars
    BY <2>2 DEF Next, DeliveryNext
  <2> QED BY <1>2, <1>3, <2>3, <2>4
<1>4. LifeInv /\ NeverStalls /\ P /\ F => ENABLED <<NackSteps(m)>>_vars
  BY DEF NeverStalls, DeliveriesNeverStall
<1>5. (FairSpec /\ []NeverStalls => []<>F) => (FairSpec /\ []NeverStalls => (P ~> Q))
  <2> HIDE DEF P, Q, F
  <2> QED BY <1>2, <1>3, <1>4, Life, FairPolling, FairSettling, PTL
          DEF Spec, TaskFairness
<1> QED BY <1>5 DEF LockFreed, NackEnds

-----------------------------------------------------------------------------
(* The channel comes to an end: an induction on the position of a message *)

LEMMA PollingChannel ==
    ASSUME Polling, LifeInv, [Next]_vars
    PROVE  \/ UNCHANGED channel
           \/ \E e \in Envelopes : channel' = Append(channel, e)
           \/ channel # <<>> /\ Deliver
<1> DEFINE G == \/ UNCHANGED channel
                \/ \E e \in Envelopes : channel' = Append(channel, e)
                \/ channel # <<>> /\ Deliver
<1> USE DEF channelVars
<1>0. TypeOK
  BY DEF LifeInv, Base
<1>1. CASE UNCHANGED vars
  BY <1>1 DEF vars
<1>2. CASE ProducerNext
  <2>1. ASSUME NEW s \in sending, SendCompletes(s)
        PROVE  G
    BY <2>1, <1>0 DEF SendCompletes, Push, TypeOK
  <2> QED BY <1>2, <2>1
          DEF ProducerNext, CloneProducer, DropProducer, Send, SendFails,
              SendAt, SendAtCompletes, CancelSend
<1>3. CASE StartCall
  BY <1>3 DEF StartCall, CallReceive, CallTryReceive, CallReceiveGraceful, Start
<1>4. CASE ConsumerStep
  BY <1>4 DEF ConsumerStep, PollReceive, StopGraceful, CheckShutdown, FlushDone,
              TryRecv, PollRecv, TimerElapsed, TimerPending, PollLiveness, Wake
<1>5. CASE FlushLock \/ ReadNextScheduled \/ CancelReceive
  BY <1>5 DEF FlushLock, ReadNextScheduled, CancelReceive
<1>6. CASE FlushSend
  BY <1>0, <1>6, UnflushedType DEF FlushSend, Push, TypeOK
<1>7. ~DropConsumer
  BY DEF DropConsumer, Polling
<1>8. CASE DeliveryNext
  <2>1. ASSUME NEW e \in requeuing, NackRequeue(e)
        PROVE  G
    BY <2>1, <1>0, RedeliveredType DEF NackRequeue, Push, TypeOK
  <2> QED BY <1>8, <2>1
          DEF DeliveryNext, Ack, Nack, DropDelivery, NackLock, NackRequeueFails,
              CancelNack
<1>9. CASE Shutdown \/ Tick
  BY <1>9 DEF Shutdown, Tick
<1> QED BY <1>1, <1>2, <1>3, <1>4, <1>5, <1>6, <1>7, <1>8, <1>9
        DEF Next, ConsumerNext

LEMMA PollingMoves ==
    ASSUME Polling, LifeInv, [Next]_vars, NEW m \in Messages,
           NEW k \in 1 .. Capacity, Queued(m, k)
    PROVE  Queued(m, k)' \/ Moves(m, k)'
<1>1. CASE UNCHANGED channel
  BY <1>1 DEF Queued
<1>2. ASSUME NEW e \in Envelopes, channel' = Append(channel, e)
      PROVE  Queued(m, k)'
  BY <1>2, AppendProperties DEF Queued, LifeInv, Base, TypeOK
<1>3. CASE Deliver
  BY <1>3, DeliverMoves DEF LifeInv, Base
<1> QED BY <1>1, <1>2, <1>3, PollingChannel

\* What the induction is about: from there the message is handed out.
HeldFrom(m, n) ==
    FairSpec /\ []NeverStalls => (QueuedUpTo(m, n) ~> m \in IdsInSet(held))

LEMMA HeldFromNone ==
    ASSUME NEW m \in Messages
    PROVE  HeldFrom(m, 0)
<1> DEFINE P == QueuedUpTo(m, 0)
           Q == m \in IdsInSet(held)
<1>1. ~P
  BY DEF QueuedUpTo
<1>2. FairSpec /\ []NeverStalls => (P ~> Q)
  <2> HIDE DEF P, Q
  <2> QED BY <1>1, PTL
<1> QED BY <1>2 DEF HeldFrom

LEMMA HeldFromNext ==
    ASSUME Polling, NEW m \in Messages, NEW k \in 1 .. Capacity
    PROVE  Rounds /\ HeldFrom(m, k - 1) => HeldFrom(m, k)
<1> DEFINE P == QueuedUpTo(m, k - 1)
           R == QueuedUpTo(m, k)
           K == Queued(m, k)
           J == Queued(m, k - 1)
           H == m \in IdsInSet(held)
           E == pc = "try_recv"
<1>0. k \in Nat \ {0}
  BY QueueAssumption
<1>1. R => P \/ K
  BY <1>0 DEF QueuedUpTo
<1>2. LifeInv /\ J => P
  BY <1>0 DEF QueuedUpTo, Queued, LifeInv, Base, TypeOK
<1>3. LifeInv /\ K /\ [Next]_vars => K' \/ H' \/ J'
  BY PollingMoves DEF Moves
<1>4. ASSUME LifeInv, K, E, <<ConsumerStep>>_vars
      PROVE  H' \/ J'
  <2>1. channel # <<>>
    BY <1>4 DEF Queued
  <2>2. Deliver
    BY <1>4, <2>1
       DEF ConsumerStep, PollReceive, StopGraceful, AwaitPoints, CheckShutdown,
           FlushDone, TryRecv, PollRecv, TimerElapsed, TimerPending,
           PollLiveness, Wake
  <2> QED BY <1>4, <2>2, DeliverMoves DEF Moves, LifeInv, Base
<1>5. ASSUME LifeInv, K, E, [Next]_vars
      PROVE  E' \/ H' \/ J'
  <2>1. CASE UNCHANGED pc
    BY <1>5, <2>1
  <2>2. CASE ConsumerStep
    <3>1. pc' # pc
      BY <1>5, <2>2, PollingNext DEF LifeInv
    <3> QED BY <1>4, <1>5, <2>2, <3>1, VarsChange
  <2> QED BY <1>5, <2>1, <2>2, CallFlow
          DEF FlushLock, ReadNextScheduled, CancelReceive, Polling
<1>6. LifeInv /\ NeverStalls /\ E => ENABLED <<ConsumerStep>>_vars
  BY DEF NeverStalls
<1>7. (FairSpec /\ []NeverStalls =>
          []<>(pc = "idle") /\ []<>(pc = "lock_flush") /\ []<>E)
      /\ (FairSpec /\ []NeverStalls => (P ~> H))
         => (FairSpec /\ []NeverStalls => (R ~> H))
  <2> HIDE DEF P, R, K, J, H, E
  <2> QED BY <1>1, <1>2, <1>3, <1>4, <1>5, <1>6, Life, FairPolling, PTL DEF Spec
<1> QED BY <1>7 DEF Rounds, HeldFrom

HeldFromAll(m) ==
    FairSpec /\ []NeverStalls => (m \in IdsInSeq(channel) ~> m \in IdsInSet(held))

LEMMA HeldFromCapacity ==
    ASSUME Polling, NEW m \in Messages
    PROVE  HeldFrom(m, Capacity) => HeldFromAll(m)
<1> DEFINE A == m \in IdsInSeq(channel)
           P == QueuedUpTo(m, Capacity)
           Q == m \in IdsInSet(held)
<1>1. ASSUME LifeInv, A
      PROVE  P
  <2>1. channel \in Seq(Envelopes) /\ Len(channel) \in Nat /\ Len(channel) <= Capacity
    BY <1>1, LenProperties DEF LifeInv, Base, TypeOK
  <2>2. PICK k \in DOMAIN channel : channel[k].id = m
    BY <1>1 DEF IdsInSeq
  <2>3. k \in 1 .. Capacity
    BY <2>1, <2>2, QueueAssumption
  <2> QED BY <2>2, <2>3 DEF QueuedUpTo, Queued
<1>2. (FairSpec /\ []NeverStalls => (P ~> Q)) => (FairSpec /\ []NeverStalls => (A ~> Q))
  <2> HIDE DEF A, P, Q
  <2> QED BY <1>1, Life, FairPolling, PTL
<1> QED BY <1>2 DEF HeldFrom, HeldFromAll

-----------------------------------------------------------------------------
(* The attempts come to an end: an induction on the attempts left *)

\* A message on its way with c attempts counted is settled, or is on its way again
\* with one attempt more.
AttemptEnds(m, c) ==
    FairSpec /\ []NeverStalls =>
        ((m \in OnTheWay /\ nack_counts[m] >= c)
            ~> (m \in acked \cup exhausted
                  \/ (m \in OnTheWay /\ nack_counts[m] >= c + 1)))

LEMMA AttemptsEnd ==
    ASSUME Polling, NEW m \in Messages, NEW c \in Nat
    PROVE  FlushEnds /\ LockFreed /\ Rounds /\ TimeEnds /\ HeldFromAll(m)
              => AttemptEnds(m, c)
<1> DEFINE S == m \in IdsInSchedule(scheduled)
           U == m \in IdsInSchedule(due)
           C == m \in IdsInSeq(channel)
           H == m \in IdsInSet(held)
           K == m \in IdsInSet(nacking)
           R == m \in IdsInSet(requeuing)
           A == m \in acked
           X == m \in exhausted
           G == nack_counts[m] >= c
           N == nack_counts[m] >= c + 1
           W == m \in OnTheWay
           D == m \in acked \cup exhausted
           Fair == FairSpec /\ []NeverStalls
<1>1. W <=> S \/ U \/ C \/ H \/ K \/ R
  BY DEF OnTheWay
<1>2. D <=> A \/ X
  OBVIOUS
<1>3. ASSUME LifeInv, G, [Next]_vars
      PROVE  G'
  <2>1. /\ nack_counts[m] \in Nat /\ nack_counts'[m] \in Nat
        /\ nack_counts[m] <= nack_counts'[m]
    <3>1. TypeOK'
      BY <1>3, TypeNext DEF LifeInv, Base
    <3> QED BY <1>3, <3>1, ForwardNext DEF Counting, TypeOK, LifeInv, Base
  <2> QED BY <1>3, <2>1
<1>4. Rounds /\ TimeEnds => (FairSpec /\ []NeverStalls => (S ~> U))
  BY ScheduledEnds
<1>5. FlushEnds => (FairSpec /\ []NeverStalls => (U ~> C))
  BY DueEnds
<1>6. FairSpec /\ []NeverStalls => (H ~> A \/ K)
  BY HoldingEnds
<1>7. LockFreed => (FairSpec /\ []NeverStalls => ((K /\ G) ~> (X \/ (R /\ N))))
  <2>1. LockFreed => NackEnds(m, c)
    BY NackingEnds
  <2> QED BY <2>1 DEF NackEnds
<1>8. FairSpec /\ []NeverStalls => (R ~> C /\ lock = "free")
  BY RequeueingEnds
<1>9. FlushEnds /\ LockFreed /\ Rounds /\ TimeEnds
         /\ (FairSpec /\ []NeverStalls => (C ~> H))
         => (FairSpec /\ []NeverStalls => ((W /\ G) ~> (D \/ (W /\ N))))
  <2> HIDE DEF S, U, C, H, K, R, A, X, G, N, W, D
  <2> QED BY <1>1, <1>2, <1>3, <1>4, <1>5, <1>6, <1>7, <1>8, Life, FairPolling, PTL DEF Spec
<1> QED BY <1>9 DEF HeldFromAll, AttemptEnds

\* What the induction is about: from there the message is settled.
SettledFrom(m, c) ==
    FairSpec /\ []NeverStalls =>
        (m \in OnTheWay /\ nack_counts[m] >= c ~> m \in acked \cup exhausted)

LEMMA SettledFromLast ==
    ASSUME Polling, NEW m \in Messages
    PROVE  SettledFrom(m, U32Max + 1)
<1> DEFINE P == m \in OnTheWay /\ nack_counts[m] >= U32Max + 1
           Q == m \in acked \cup exhausted
<1>1. LifeInv => ~P
  BY EnvelopeAssumption DEF LifeInv, Base, TypeOK
<1>2. FairSpec /\ []NeverStalls => (P ~> Q)
  <2> HIDE DEF P, Q
  <2> QED BY <1>1, Life, FairPolling, PTL
<1> QED BY <1>2 DEF SettledFrom

LEMMA SettledFromNext ==
    ASSUME Polling, NEW m \in Messages, NEW c \in Nat
    PROVE  FlushEnds /\ LockFreed /\ Rounds /\ TimeEnds /\ HeldFromAll(m)
              => (SettledFrom(m, c + 1) => SettledFrom(m, c))
<1> DEFINE P == m \in OnTheWay /\ nack_counts[m] >= c + 1
           R == m \in OnTheWay /\ nack_counts[m] >= c
           Q == m \in acked \cup exhausted
<1>1. FlushEnds /\ LockFreed /\ Rounds /\ TimeEnds /\ HeldFromAll(m)
         => AttemptEnds(m, c)
  BY AttemptsEnd
<1>2. (FairSpec /\ []NeverStalls => (R ~> Q \/ P)) /\ (FairSpec /\ []NeverStalls => (P ~> Q))
         => (FairSpec /\ []NeverStalls => (R ~> Q))
  <2> HIDE DEF P, R, Q
  <2> QED BY PTL
<1> QED BY <1>1, <1>2 DEF SettledFrom, AttemptEnds

\* EventuallySettled, for one message.
SettledIfAccepted(m) ==
    FairSpec /\ []NeverStalls => (m \in accepted ~> m \in acked \cup exhausted)

LEMMA SettledFromNone ==
    ASSUME Polling, NEW m \in Messages
    PROVE  SettledFrom(m, 0) => SettledIfAccepted(m)
<1> DEFINE A == m \in accepted
           P == m \in OnTheWay /\ nack_counts[m] >= 0
           Q == m \in acked \cup exhausted
<1>1. LifeInv /\ A => P \/ Q
  BY InFlightIds DEF LifeInv, Base, TypeOK, NoSilentLoss
<1>2. (FairSpec /\ []NeverStalls => (P ~> Q)) => (FairSpec /\ []NeverStalls => (A ~> Q))
  <2> HIDE DEF A, P, Q
  <2> QED BY <1>1, Life, FairPolling, PTL
<1> QED BY <1>2 DEF SettledFrom, SettledIfAccepted

-----------------------------------------------------------------------------
(* The five inductions *)

\* The separation axiom of set theory for what the inductions are about.  In every
\* behaviour such sets exist, but TLA+ has no {x \in X : F} for a temporal F.
SettlingSets ==
    /\ \E S : \A n \in Nat : n \in S <=> FlushEndsFrom(n)
    /\ \E S : \A T \in SUBSET Messages : T \in S <=> FreedFrom(T)
    /\ \E S : \A n \in Nat : n \in S <=> TimeReaches(n)
    /\ \E S : \A m \in Messages, n \in Nat : <<m, n>> \in S <=> HeldFrom(m, n)
    /\ \E S : \A m \in Messages, n \in Nat : <<m, n>> \in S <=> SettledFrom(m, n)

LEMMA MessageSetInduction ==
    ASSUME IsFiniteSet(Messages), NEW C, {} \in C,
           \A T \in SUBSET Messages, m \in Messages : T \in C => T \cup {m} \in C
    PROVE  Messages \in C
<1> DEFINE N == {n \in Nat : \A T \in SUBSET Messages : Cardinality(T) = n => T \in C}
<1>1. \A T \in SUBSET Messages : IsFiniteSet(T) /\ Cardinality(T) \in Nat
  BY FS_Subset, FS_CardinalityType
<1>2. 0 \in N
  BY <1>1, FS_EmptySet
<1>3. ASSUME NEW n \in N
      PROVE  n + 1 \in N
  <2>1. SUFFICES ASSUME NEW T \in SUBSET Messages, Cardinality(T) = n + 1
        PROVE  T \in C
    OBVIOUS
  <2>2. PICK m \in T : TRUE
    <3>1. n + 1 # 0
      BY <1>3
    <3>2. Cardinality({}) = 0
      BY FS_EmptySet
    <3>3. T # {}
      BY <2>1, <3>1, <3>2
    <3> QED BY <3>3
  <2> DEFINE R == T \ {m}
  <2>3. R \in SUBSET Messages /\ m \in Messages /\ T = R \cup {m}
    BY <2>2
  <2>4. Cardinality(R) = n
    <3>1. IsFiniteSet(T) /\ n \in Nat
      BY <1>1, <1>3
    <3>2. Cardinality(R) = Cardinality(T) - 1
      BY <2>2, <3>1, FS_RemoveElement
    <3> QED BY <2>1, <3>1, <3>2
  <2>5. R \in C
    BY <2>3, <2>4
  <2> HIDE DEF R
  <2> QED BY <2>3, <2>5
<1>4. N = Nat
  <2> HIDE DEF N
  <2>1. N \in SUBSET Nat
    BY DEF N
  <2> QED BY <1>2, <1>3, <2>1, NatSetInduction
<1> QED BY <1>1, <1>4

LEMMA FlushAlwaysEnds ==
    ASSUME Polling, SettlingSets
    PROVE  FlushEnds
<1> PICK S : \A n \in Nat : n \in S <=> FlushEndsFrom(n)
  BY DEF SettlingSets
<1> DEFINE N == Nat \cap S
<1>1. 0 \in N
  BY FlushEndsFromNone
<1>2. ASSUME NEW n \in N
      PROVE  n + 1 \in N
  <2>1. FlushEndsFrom(n) => FlushEndsFrom(n + 1)
    BY FlushEndsFromNext
  <2> DEFINE k == n + 1
  <2>2. k \in Nat
    OBVIOUS
  <2> HIDE DEF k
  <2>3. k \in S <=> FlushEndsFrom(k)
    BY <2>2
  <2> QED BY <2>1, <2>2, <2>3 DEF k
<1>3. N = Nat
  <2> HIDE DEF N
  <2>1. N \in SUBSET Nat
    BY DEF N
  <2> QED BY <1>1, <1>2, <2>1, NatSetInduction
<1>4. \A n \in Nat : FlushEndsFrom(n)
  BY <1>3
<1> DEFINE c == Cardinality(Messages)
<1>5. c \in Nat
  BY FS_CardinalityType DEF Polling
<1> HIDE DEF c
<1>6. FlushEndsFrom(c)
  BY <1>4, <1>5
<1> QED BY <1>6, FlushEndsFromAll DEF c

LEMMA LockAlwaysFreed ==
    ASSUME Polling, SettlingSets
    PROVE  LockFreed
<1> PICK S : \A T \in SUBSET Messages : T \in S <=> FreedFrom(T)
  BY DEF SettlingSets
<1>1. {} \in S
  BY FreedFromNone
<1>2. ASSUME NEW T \in SUBSET Messages, NEW m \in Messages, T \in S
      PROVE  T \cup {m} \in S
  <2>1. FreedFrom(T) => FreedFrom(T \cup {m})
    BY FreedFromNext
  <2> DEFINE R == T \cup {m}
  <2>2. R \in SUBSET Messages
    OBVIOUS
  <2> HIDE DEF R
  <2>3. R \in S <=> FreedFrom(R)
    BY <2>2
  <2> QED BY <1>2, <2>1, <2>3 DEF R
<1>3. Messages \in S
  BY <1>1, <1>2, MessageSetInduction DEF Polling
<1>4. FreedFrom(Messages)
  BY <1>3
<1> QED BY <1>4, FlushAlwaysEnds, FreedFromAll

LEMMA TimeAlwaysEnds ==
    ASSUME SettlingSets
    PROVE  TimeEnds
<1> PICK S : \A n \in Nat : n \in S <=> TimeReaches(n)
  BY DEF SettlingSets
<1> DEFINE N == {n \in Nat : n <= MaxTime => n \in S}
<1>1. 0 \in N
  BY TimeReachesStart
<1>2. ASSUME NEW n \in N
      PROVE  n + 1 \in N
  <2>1. SUFFICES ASSUME n + 1 <= MaxTime
        PROVE  n + 1 \in S
    OBVIOUS
  <2>2. n \in Nat /\ n <= MaxTime
    BY <2>1, EnvelopeAssumption
  <2>3. TimeReaches(n)
    BY <2>2
  <2>4. TimeReaches(n) => TimeReaches(n + 1)
    BY <2>1, <2>2, TimeReachesNext
  <2> DEFINE k == n + 1
  <2>5. k \in Nat
    BY <2>2
  <2> HIDE DEF k
  <2>6. k \in S <=> TimeReaches(k)
    BY <2>5
  <2> QED BY <2>3, <2>4, <2>6 DEF k
<1>3. N = Nat
  <2> HIDE DEF N
  <2>1. N \in SUBSET Nat
    BY DEF N
  <2> QED BY <1>1, <1>2, <2>1, NatSetInduction
<1>4. MaxTime \in Nat /\ MaxTime \in S
  BY <1>3, EnvelopeAssumption
<1>5. TimeReaches(MaxTime)
  BY <1>4
<1> QED BY <1>5, TimeReachesEnd

LEMMA HeldAlways ==
    ASSUME Polling, SettlingSets, NEW m \in Messages
    PROVE  HeldFromAll(m)
<1> PICK S : \A d \in Messages, n \in Nat : <<d, n>> \in S <=> HeldFrom(d, n)
  BY DEF SettlingSets
<1>0. Rounds
  BY FlushAlwaysEnds, LockAlwaysFreed, RoundsEnd
<1> DEFINE N == {n \in Nat : n <= Capacity => <<m, n>> \in S}
<1>1. 0 \in N
  BY HeldFromNone
<1>2. ASSUME NEW n \in N
      PROVE  n + 1 \in N
  <2>1. SUFFICES ASSUME n + 1 <= Capacity
        PROVE  <<m, n + 1>> \in S
    BY QueueAssumption
  <2>2. /\ n + 1 \in 1 .. Capacity /\ (n + 1) - 1 = n
        /\ n \in Nat /\ n + 1 \in Nat /\ n <= Capacity
    BY <2>1, QueueAssumption
  <2>3. HeldFrom(m, n)
    BY <2>2
  <2> DEFINE k == n + 1
  <2>4. k \in 1 .. Capacity /\ k - 1 = n
    BY <2>2
  <2> HIDE DEF k
  <2>5. Rounds /\ HeldFrom(m, k - 1) => HeldFrom(m, k)
    BY <2>4, HeldFromNext
  <2>6. HeldFrom(m, k)
    BY <1>0, <2>3, <2>4, <2>5
  <2> QED BY <2>2, <2>6 DEF k
<1>3. N = Nat
  <2> HIDE DEF N
  <2>1. N \in SUBSET Nat
    BY DEF N
  <2> QED BY <1>1, <1>2, <2>1, NatSetInduction
<1>4. Capacity \in Nat /\ Capacity <= Capacity
  BY QueueAssumption
<1>5. \A n \in Nat : n <= Capacity => HeldFrom(m, n)
  BY <1>3
<1>6. HeldFrom(m, Capacity)
  <2> HIDE DEF N
  <2> QED BY <1>4, <1>5, Zenon
<1> QED BY <1>6, HeldFromCapacity

\* Every accepted message is ack'd or reaches its receive limit, for every number
\* of messages and producers, every number of attempts and every delay, if the
\* application polls with try_receive, settles what it holds by ack or nack, and
\* drops nothing but producers, and if the channel has room for all the messages.
THEOREM AcceptedAreSettled ==
    ASSUME Polling, SettlingSets
    PROVE  FairSpec /\ []NeverStalls => EventuallySettled
<1> PICK S : \A m \in Messages, n \in Nat : <<m, n>> \in S <=> SettledFrom(m, n)
  BY DEF SettlingSets
<1>1. FlushEnds /\ LockFreed /\ Rounds /\ TimeEnds
  BY FlushAlwaysEnds, LockAlwaysFreed, RoundsEnd, TimeAlwaysEnds
<1>2. ASSUME NEW m \in Messages
      PROVE  SettledFrom(m, 0)
  <2>1. ASSUME NEW c \in Nat, SettledFrom(m, c + 1)
        PROVE  SettledFrom(m, c)
    BY <1>1, <2>1, HeldAlways, SettledFromNext
  <2> DEFINE N == {n \in Nat : \A c \in Nat : c + n = U32Max + 1 => <<m, c>> \in S}
  <2>2. 0 \in N
    <3>1. SettledFrom(m, U32Max + 1)
      BY SettledFromLast
    <3> DEFINE k == U32Max + 1
    <3>2. k \in Nat
      BY EnvelopeAssumption
    <3>3. SettledFrom(m, k)
      BY <3>1
    <3>4. \A c \in Nat : c + 0 = U32Max + 1 => c = k
      BY EnvelopeAssumption
    <3> HIDE DEF k
    <3>5. <<m, k>> \in S
      BY <3>2, <3>3
    <3> QED BY <3>4, <3>5
  <2>3. ASSUME NEW n \in N
        PROVE  n + 1 \in N
    <3>1. SUFFICES ASSUME NEW c \in Nat, c + (n + 1) = U32Max + 1
          PROVE  <<m, c>> \in S
      BY <2>3
    <3> DEFINE k == c + 1
    <3>2. k \in Nat /\ k + n = U32Max + 1
      BY <2>3, <3>1
    <3>3. SettledFrom(m, k) => SettledFrom(m, c)
      BY <2>1
    <3> HIDE DEF k
    <3>4. <<m, k>> \in S
      BY <2>3, <3>2
    <3>5. SettledFrom(m, k)
      BY <3>2, <3>4
    <3> QED BY <3>3, <3>5
  <2>4. N = Nat
    <3> HIDE DEF N
    <3>1. N \in SUBSET Nat
      BY DEF N
    <3> QED BY <2>2, <2>3, <3>1, NatSetInduction
  <2>5. U32Max + 1 \in Nat /\ 0 + (U32Max + 1) = U32Max + 1
    BY EnvelopeAssumption
  <2>6. <<m, 0>> \in S
    BY <2>4, <2>5
  <2> QED BY <2>6
<1>3. ASSUME NEW m \in Messages
      PROVE  SettledIfAccepted(m)
  BY <1>2, SettledFromNone
<1> QED BY <1>3 DEF SettledIfAccepted, EventuallySettled

=============================================================================
