--------------------------- MODULE ContractProofs ---------------------------
(***************************************************************************)
(* What MemoryQueue can lose, and that it implements QueueContract, for    *)
(* every number of messages and producers, every capacity, limit and       *)
(* usage.                                                                  *)
(*                                                                         *)
(* Loss: every step keeps the messages that are in flight, but for the     *)
(* five ways of losing one that Loses lists; a loss is thus one that       *)
(* LossesExplained admits, and a usage that admits none of the five loses  *)
(* nothing that was accepted.                                              *)
(*                                                                         *)
(* Contract: each step of MemoryQueue is mapped to one step of the         *)
(* contract or leaves everything the contract sees unchanged.  That the    *)
(* step is allowed there needs the invariants of the other modules: a      *)
(* message handed out is in one place only (NoDuplicate), is due           *)
(* (VisibilityInv) and has an attempt left (CountInv), and what is lost    *)
(* the application let go of (UsageInv).                                   *)
(***************************************************************************)
EXTENDS VisibilityProofs, MemoryContract

\* InFlight, place by place.
OnTheWay ==
    IdsInSchedule(scheduled) \cup IdsInSchedule(due) \cup IdsInSeq(channel)
       \cup IdsInSet(held) \cup IdsInSet(nacking) \cup IdsInSet(requeuing)

\* The steps that let go of a message without settling it.
Loses ==
    \/ \E e \in held : DropDelivery(e)
    \/ \E e \in requeuing : NackRequeueFails(e)
    \/ \E e \in nacking \cup requeuing : CancelNack(e)
    \/ DropConsumer
    \/ pc = "flush" /\ (StopGraceful \/ CancelReceive)

\* What the other steps do with the messages.
Keeps ==
    OnTheWay \subseteq OnTheWay' \cup acked' \cup exhausted'

\* What all steps do: nothing that was settled is unsettled, and what is
\* accepted goes on its way.
Settles ==
    /\ acked \subseteq acked' /\ exhausted \subseteq exhausted'
    /\ accepted' \subseteq accepted \cup OnTheWay'

-----------------------------------------------------------------------------
(* The steps *)

LEMMA InFlightIds == InFlight = OnTheWay /\ InFlight' = OnTheWay'
BY DEF InFlight, OnTheWay, Places

LEMMA KeepSame ==
    ASSUME UNCHANGED <<placeVars, accepted>>
    PROVE  Keeps /\ Settles
BY DEF placeVars, Keeps, Settles, OnTheWay

\* A receive hands the head of the channel to the application.
LEMMA DeliverKeeps ==
    ASSUME TypeOK, channel # <<>>, Deliver,
           UNCHANGED <<scheduled, due, nacking, requeuing, acked, exhausted,
                       accepted>>
    PROVE  Keeps /\ Settles
<1>1. IdsInSeq(channel) = IdsInSeq(channel') \cup {Head(channel).id}
  BY TailIds DEF Deliver, TypeOK
<1>2. IdsInSet(held') = IdsInSet(held) \cup {Head(channel).id}
  BY DEF Deliver, IdsInSet
<1> QED BY <1>1, <1>2 DEF Keeps, Settles, OnTheWay

\* Every step either keeps what is in flight or is one of the five.
LEMMA LossNext ==
    TypeOK /\ LockDiscipline /\ [Next]_vars => (Keeps \/ Loses) /\ Settles
<1> SUFFICES ASSUME TypeOK, LockDiscipline, [Next]_vars
             PROVE  (Keeps \/ Loses) /\ Settles
  OBVIOUS
<1> USE DEF channelVars, sharedVars, producerVars, consumerVars, deliveryVars,
            environmentVars, historyVars
<1>1. CASE UNCHANGED vars
  BY <1>1, KeepSame DEF vars, placeVars
<1>2. ASSUME NEW p \in Producers, NEW q \in Producers, CloneProducer(p, q)
      PROVE  Keeps /\ Settles
  BY <1>2, KeepSame DEF CloneProducer, placeVars
<1>3. ASSUME NEW p \in Producers, DropProducer(p)
      PROVE  Keeps /\ Settles
  BY <1>3, KeepSame DEF DropProducer, placeVars
<1>4. ASSUME NEW p \in Producers, NEW m \in Messages, Send(p, m)
      PROVE  Keeps /\ Settles
  BY <1>4 DEF Send, Keeps, Settles, OnTheWay
<1>5. ASSUME NEW p \in Producers, NEW m \in Messages, NEW at \in Times,
             SendAt(p, m, at)
      PROVE  Keeps /\ Settles
  BY <1>5 DEF SendAt, Keeps, Settles, OnTheWay
<1>6. ASSUME NEW s \in sending, SendCompletes(s)
      PROVE  Keeps /\ Settles
  <2>1. IdsInSeq(channel') = IdsInSeq(channel) \cup {s.env.id}
    BY <1>6, AppendIds DEF SendCompletes, Push, TypeOK
  <2> QED BY <1>6, <2>1 DEF SendCompletes, Keeps, Settles, OnTheWay
<1>7. ASSUME NEW s \in sending, SendFails(s)
      PROVE  Keeps /\ Settles
  BY <1>7 DEF SendFails, Keeps, Settles, OnTheWay
<1>8. ASSUME NEW s \in scheduling, SendAtCompletes(s)
      PROVE  Keeps /\ Settles
  <2>1. IdsInSchedule(scheduled') = IdsInSchedule(scheduled) \cup {s.env.id}
    BY <1>8, ScheduleIds DEF SendAtCompletes, TypeOK
  <2> QED BY <1>8, <2>1 DEF SendAtCompletes, Keeps, Settles, OnTheWay
<1>9. ASSUME NEW s \in sending \cup scheduling, CancelSend(s)
      PROVE  Keeps /\ Settles
  BY <1>9 DEF CancelSend, Keeps, Settles, OnTheWay
<1>10. CASE CallReceive
  BY <1>10, KeepSame DEF CallReceive, Start, Enter, placeVars
<1>11. CASE CallTryReceive
  BY <1>11, KeepSame DEF CallTryReceive, Start, Enter, placeVars
<1>12. CASE CallReceiveGraceful
  BY <1>12, KeepSame DEF CallReceiveGraceful, Start, Enter, Return, placeVars
<1>13. CASE PollReceive
  BY <1>13, KeepSame DEF PollReceive, Enter, placeVars
<1>14. CASE StopGraceful
  <2>1. CASE pc = "flush"
    BY <1>14, <2>1 DEF Loses, Settles, StopGraceful
  <2>2. CASE pc # "flush"
    BY <1>14, <2>2, KeepSame
       DEF StopGraceful, DropReceiveFuture, LockDiscipline, placeVars
  <2> QED BY <2>1, <2>2
<1>15. CASE CheckShutdown
  BY <1>15, KeepSame DEF CheckShutdown, Enter, Return, placeVars
<1>16. CASE FlushDone
  BY <1>16, KeepSame DEF FlushDone, placeVars
<1>17. CASE TryRecv
  <2>1. CASE channel # <<>> /\ Deliver
    BY <1>17, <2>1, DeliverKeeps DEF TryRecv
  <2>2. CASE channel = <<>>
    BY <1>17, <2>2, KeepSame DEF TryRecv, Enter, Return, placeVars
  <2> QED BY <1>17, <2>1, <2>2 DEF TryRecv
<1>18. CASE PollRecv
  <2>1. CASE channel # <<>> /\ Deliver
    BY <1>18, <2>1, DeliverKeeps DEF PollRecv
  <2>2. CASE channel = <<>>
    BY <1>18, <2>2, KeepSame DEF PollRecv, Enter, placeVars
  <2> QED BY <1>18, <2>1, <2>2 DEF PollRecv
<1>19. CASE TimerElapsed
  BY <1>19, KeepSame DEF TimerElapsed, placeVars
<1>20. CASE TimerPending
  BY <1>20, KeepSame DEF TimerPending, Enter, placeVars
<1>21. CASE PollLiveness
  BY <1>21, KeepSame DEF PollLiveness, Enter, Return, placeVars
<1>22. CASE Wake
  BY <1>22, KeepSame DEF Wake, Enter, placeVars
<1>23. CASE FlushLock
  <2>1. /\ IdsInSchedule(scheduled)
              = IdsInSchedule(due') \cup IdsInSchedule(scheduled')
        /\ IdsInSchedule(due) = {}
    BY <1>23, SplitIds, NothingScheduledIds
       DEF FlushLock, TypeOK, LockDiscipline
  <2> QED BY <1>23, <2>1 DEF FlushLock, Keeps, Settles, OnTheWay
<1>24. CASE FlushSend
  <2> DEFINE x == Head(due[FirstKey(due)]).id
  <2>1. /\ IdsInSchedule(due) = IdsInSchedule(due') \cup {x}
        /\ IdsInSeq(channel') = IdsInSeq(channel) \cup {x}
    BY <1>24, UnflushedType, UnflushedIds, AppendIds
       DEF FlushSend, Push, TypeOK
  <2> HIDE DEF x
  <2> QED BY <1>24, <2>1 DEF FlushSend, Keeps, Settles, OnTheWay
<1>25. CASE ReadNextScheduled
  BY <1>25, KeepSame DEF ReadNextScheduled, placeVars
<1>26. CASE CancelReceive
  <2>1. CASE pc = "flush"
    BY <1>26, <2>1 DEF Loses, Settles, CancelReceive
  <2>2. CASE pc # "flush"
    BY <1>26, <2>2, KeepSame
       DEF CancelReceive, DropReceiveFuture, LockDiscipline, placeVars
  <2> QED BY <2>1, <2>2
<1>27. CASE DropConsumer
  BY <1>27 DEF Loses, Settles, DropConsumer
<1>28. ASSUME NEW e \in held, Ack(e)
       PROVE  Keeps /\ Settles
  BY <1>28 DEF Ack, IdsInSet, Keeps, Settles, OnTheWay
<1>29. ASSUME NEW e \in held, Nack(e)
       PROVE  Keeps /\ Settles
  BY <1>29 DEF Nack, IdsInSet, Keeps, Settles, OnTheWay
<1>30. ASSUME NEW e \in held, DropDelivery(e)
       PROVE  (Keeps \/ Loses) /\ Settles
  BY <1>30 DEF Loses, Settles, DropDelivery
<1>31. ASSUME NEW e \in nacking, NackLock(e)
       PROVE  Keeps /\ Settles
  BY <1>31 DEF NackLock, IdsInSet, Keeps, Settles, OnTheWay
<1>32. ASSUME NEW e \in requeuing, NackRequeue(e)
       PROVE  Keeps /\ Settles
  <2>1. IdsInSeq(channel') = IdsInSeq(channel) \cup {e.id}
    BY <1>32, RedeliveredType, AppendIds DEF NackRequeue, Push, TypeOK
  <2> QED BY <1>32, <2>1 DEF NackRequeue, IdsInSet, Keeps, Settles, OnTheWay
<1>33. ASSUME NEW e \in requeuing, NackRequeueFails(e)
       PROVE  (Keeps \/ Loses) /\ Settles
  BY <1>33 DEF Loses, Settles, NackRequeueFails
<1>34. ASSUME NEW e \in nacking \cup requeuing, CancelNack(e)
       PROVE  (Keeps \/ Loses) /\ Settles
  BY <1>34 DEF Loses, Settles, CancelNack
<1>35. CASE Shutdown
  BY <1>35, KeepSame DEF Shutdown, placeVars
<1>36. CASE Tick
  BY <1>36, KeepSame DEF Tick, placeVars
<1>37. CASE ProducerNext
  BY <1>37, <1>2, <1>3, <1>4, <1>5, <1>6, <1>7, <1>8, <1>9 DEF ProducerNext
<1>38. CASE ConsumerNext
  BY <1>38, <1>10, <1>11, <1>12, <1>13, <1>14, <1>15, <1>16, <1>17, <1>18,
     <1>19, <1>20, <1>21, <1>22, <1>23, <1>24, <1>25, <1>26, <1>27
     DEF ConsumerNext, ConsumerStep, StartCall
<1>39. CASE DeliveryNext
  BY <1>39, <1>28, <1>29, <1>30, <1>31, <1>32, <1>33, <1>34 DEF DeliveryNext
<1> QED BY <1>1, <1>35, <1>36, <1>37, <1>38, <1>39 DEF Next

-----------------------------------------------------------------------------
(* The theorems *)

\* However the API is used, a message that was accepted and is neither received
\* and settled nor given up disappears only with what holds it: the delivery or
\* nack that the application drops, the Receiver, or a flush that is cancelled.
THEOREM LossesAreExplained == Spec => LossesExplained
<1> DEFINE Explained ==
             \A m \in InFlight \ (InFlight' \cup acked' \cup exhausted') :
                \/ m \in IdsInSet(held \cup nacking \cup requeuing)
                \/ m \in IdsInSeq(channel) /\ ~rx_open'
                \/ m \in IdsInSchedule(due) /\ pc = "flush" /\ pc' = "idle"
<1>1. TypeOK /\ LockDiscipline /\ [Next]_vars => Explained
  <2> SUFFICES ASSUME TypeOK, LockDiscipline, [Next]_vars,
                      NEW m \in OnTheWay,
                      m \notin OnTheWay' \cup acked' \cup exhausted'
               PROVE  \/ m \in IdsInSet(held \cup nacking \cup requeuing)
                      \/ m \in IdsInSeq(channel) /\ ~rx_open'
                      \/ /\ m \in IdsInSchedule(due)
                         /\ pc = "flush" /\ pc' = "idle"
    BY InFlightIds
  <2>1. Loses
    BY LossNext DEF Keeps
  <2> USE DEF channelVars, sharedVars, consumerVars, deliveryVars
  <2>2. ASSUME NEW e \in held, DropDelivery(e)
        PROVE  m \in IdsInSet(held)
    BY <2>2 DEF DropDelivery, OnTheWay
  <2>3. ASSUME NEW e \in requeuing, NackRequeueFails(e)
        PROVE  m \in IdsInSet(requeuing)
    BY <2>3, InFlightIds DEF NackRequeueFails, OnTheWay
  <2>4. ASSUME NEW e \in nacking \cup requeuing, CancelNack(e)
        PROVE  m \in IdsInSet(nacking) \cup IdsInSet(requeuing)
    BY <2>4 DEF CancelNack, OnTheWay
  <2>5. CASE DropConsumer
    BY <2>5 DEF DropConsumer, OnTheWay
  <2>6. CASE pc = "flush" /\ (StopGraceful \/ CancelReceive)
    BY <2>6 DEF StopGraceful, CancelReceive, DropReceiveFuture, Return,
                OnTheWay
  <2>7. IdsInSet(held \cup nacking \cup requeuing)
           = IdsInSet(held) \cup IdsInSet(nacking) \cup IdsInSet(requeuing)
    BY DEF IdsInSet
  <2> QED BY <2>1, <2>2, <2>3, <2>4, <2>5, <2>6, <2>7 DEF Loses
<1>2. TypeOK /\ LockDiscipline /\ [Next]_vars => [Explained]_vars
  BY <1>1
<1> QED BY <1>2, TypeCorrect, MutexDiscipline, PTL DEF Spec, LossesExplained

\* Nothing has gone that could be lost without one of the LosingCalls.
LossInv == /\ rx_open /\ call # "receive_graceful"
           /\ accepted \subseteq OnTheWay \cup acked \cup exhausted

\* Without those calls no step loses a message: the receiver stays, and no
\* future that holds a message is dropped.
LEMMA LossInvNext ==
    ASSUME Usage \cap LosingCalls = {}
    PROVE  TypeOK /\ LockDiscipline /\ LossInv /\ [Next]_vars => LossInv'
<1> SUFFICES ASSUME TypeOK, LockDiscipline, LossInv, [Next]_vars
             PROVE  LossInv'
  OBVIOUS
<1>1. ~Loses
  BY DEF Loses, LosingCalls, LossInv, DropDelivery, NackRequeueFails,
         CancelNack, DropConsumer, StopGraceful, CancelReceive
<1>2. Keeps /\ Settles
  BY <1>1, LossNext
<1>3. accepted' \subseteq OnTheWay' \cup acked' \cup exhausted'
  BY <1>2 DEF LossInv, Keeps, Settles
<1>4. rx_open' /\ call' # "receive_graceful"
  <2> USE DEF LossInv, LosingCalls, channelVars, sharedVars, producerVars,
              consumerVars, deliveryVars, environmentVars, historyVars
  <2>1. CASE UNCHANGED vars
    BY <2>1 DEF vars
  <2>2. CASE ProducerNext
    BY <2>2 DEF ProducerNext, CloneProducer, DropProducer, Send, SendAt,
                SendCompletes, SendFails, SendAtCompletes, CancelSend
  <2>3. CASE StartCall
    BY <2>3 DEF StartCall, CallReceive, CallTryReceive, CallReceiveGraceful,
                Start
  <2>4. CASE ConsumerStep
    BY <2>4 DEF ConsumerStep, PollReceive, StopGraceful, CheckShutdown,
                FlushDone, TryRecv, PollRecv, TimerElapsed, TimerPending,
                PollLiveness, Wake
  <2>5. CASE FlushLock \/ FlushSend \/ ReadNextScheduled \/ CancelReceive
             \/ DropConsumer
    BY <2>5 DEF FlushLock, FlushSend, ReadNextScheduled, CancelReceive,
                DropConsumer
  <2>6. CASE DeliveryNext
    BY <2>6 DEF DeliveryNext, Ack, Nack, DropDelivery, NackLock, NackRequeue,
                NackRequeueFails, CancelNack
  <2>7. CASE Shutdown \/ Tick
    BY <2>7 DEF Shutdown, Tick
  <2> QED BY <2>1, <2>2, <2>3, <2>4, <2>5, <2>6, <2>7 DEF Next, ConsumerNext
<1> QED BY <1>3, <1>4 DEF LossInv

\* An application that settles every delivery, drops no future that has
\* received a message and keeps its consumer never loses a message that send or
\* send_at accepted, with any number of producers and any interleaving.
THEOREM NothingIsLost ==
    ASSUME Usage \cap LosingCalls = {}
    PROVE  Spec => []NoSilentLoss
<1>1. Init => LossInv
  BY DEF Init, LossInv
<1>2. LossInv => NoSilentLoss
  BY InFlightIds DEF LossInv, NoSilentLoss
<1> QED BY <1>1, <1>2, LossInvNext, TypeCorrect, MutexDiscipline, PTL DEF Spec

-----------------------------------------------------------------------------
(* The contract *)

\* What the contract sees of the backend.
contractView == <<placeVars, accepted, handed, visible_at, now>>

\* The receiver goes and a graceful call is made only by an application that
\* uses those calls.
UsageInv ==
    /\ ~rx_open => "drop_consumer" \in Usage
    /\ call = "receive_graceful" => "receive_graceful" \in Usage

\* The invariants that the mapping rests on.
Sound == Base /\ VisibilityInv /\ UsageInv

-----------------------------------------------------------------------------
(* Where the messages are *)

\* A message in one place is in no other, and not twice in one.
LEMMA Elsewhere ==
    ASSUME PlacesApart, NEW n \in DOMAIN Places, NEW m \in Places[n]
    PROVE  \A p \in DOMAIN Places \ {n} : m \notin Places[p]
BY DEF PlacesApart

LEMMA PlaceIds ==
    /\ Places["unsent"] = unsent
    /\ Places["sending"] = {s.env.id : s \in sending}
    /\ Places["scheduling"] = {s.env.id : s \in scheduling}
    /\ Places["scheduled"] = IdsInSchedule(scheduled)
    /\ Places["due"] = IdsInSchedule(due)
    /\ Places["channel"] = IdsInSeq(channel)
    /\ Places["held"] = IdsInSet(held)
    /\ Places["nacking"] = IdsInSet(nacking)
    /\ Places["requeuing"] = IdsInSet(requeuing)
BY DEF Places

\* What waits and what is out are apart.
LEMMA WaitingOutApart ==
    ASSUME PlacesApart
    PROVE  Waiting \cap Out = {}
<1>1. \A p \in {"scheduled", "due", "channel"},
         q \in {"held", "nacking", "requeuing"} : Places[p] \cap Places[q] = {}
  BY PlaceNames DEF PlacesApart
<1>2. /\ Waiting = Places["scheduled"] \cup Places["due"] \cup Places["channel"]
      /\ Out = Places["held"] \cup Places["nacking"] \cup Places["requeuing"]
  BY PlaceIds DEF Waiting, Out
<1> QED BY <1>1, <1>2

\* A send future is the only holder of its message.
LEMMA SendIds ==
    ASSUME TypeOK, NoDuplicate, NEW s \in sending \cup scheduling
    PROVE  /\ s.env \in Envelopes /\ s.env.id \in Messages
           /\ s.env.id \in Offered
           /\ {r.env.id : r \in (sending \cup scheduling) \ {s}}
                 = Offered \ {s.env.id}
<1>1. \A r \in sending, t \in scheduling : r.env.id # t.env.id
  <2>1. Places["sending"] \cap Places["scheduling"] = {}
    BY PlaceNames DEF NoDuplicate, PlacesApart
  <2> QED BY <2>1, PlaceIds
<1>2. \A r \in sending \cup scheduling : r.env.id = s.env.id => r = s
  BY <1>1 DEF NoDuplicate, PlacesDistinct
<1> QED BY <1>2 DEF TypeOK, Envelopes, Offered

\* No future is both of send and of send_at.
LEMMA SendersApart ==
    ASSUME PlacesApart
    PROVE  sending \cap scheduling = {}
<1>1. {s.env.id : s \in sending} \cap {s.env.id : s \in scheduling} = {}
  <2>1. Places["sending"] \cap Places["scheduling"] = {}
    BY PlaceNames DEF PlacesApart
  <2> QED BY <2>1, PlaceIds
<1> QED BY <1>1

\* So is a delivery, or the nack it became.
LEMMA OutIds ==
    ASSUME TypeOK, NoDuplicate, NEW e \in held \cup nacking \cup requeuing
    PROVE  /\ e \in Envelopes /\ e.id \in Messages /\ e.id \in Out
           /\ e.id \notin Waiting
           /\ IdsInSet(held \ {e}) \cup IdsInSet(nacking \ {e})
                 \cup IdsInSet(requeuing \ {e}) = Out \ {e.id}
<1>1. \A p, q \in {"held", "nacking", "requeuing"} :
         p # q => Places[p] \cap Places[q] = {}
  BY PlaceNames DEF NoDuplicate, PlacesApart
<1>2. /\ IdsInSet(held) \cap IdsInSet(nacking) = {}
      /\ IdsInSet(held) \cap IdsInSet(requeuing) = {}
      /\ IdsInSet(nacking) \cap IdsInSet(requeuing) = {}
  BY <1>1, PlaceIds
<1>3. \A f \in held \cup nacking \cup requeuing : f.id = e.id => f = e
  BY <1>2 DEF NoDuplicate, PlacesDistinct, DistinctInSet, IdsInSet
<1>4. e.id \in Out
  BY DEF Out, IdsInSet
<1>5. e.id \notin Waiting
  BY <1>4, WaitingOutApart DEF NoDuplicate
<1>6. IdsInSet(held \ {e}) \cup IdsInSet(nacking \ {e})
         \cup IdsInSet(requeuing \ {e}) = Out \ {e.id}
  BY <1>3 DEF Out, IdsInSet
<1> QED BY <1>4, <1>5, <1>6 DEF TypeOK, Envelopes

\* Whatever waits or is out is a message.
LEMMA WaitingIds ==
    ASSUME TypeOK
    PROVE  Waiting \cup Out \subseteq Messages
<1>1. \A q \in Seq(Envelopes) : IdsInSeq(q) \subseteq Messages
  BY SeqEnvs DEF IdsInSeq, EnvsInSeq, Envelopes
<1>2. \A s \in Schedules : IdsInSchedule(s) \subseteq Messages
  BY <1>1 DEF IdsInSchedule, Schedules
<1>3. Out \subseteq Messages
  BY DEF Out, IdsInSet, TypeOK, Envelopes
<1> QED BY <1>1, <1>2, <1>3 DEF Waiting, TypeOK

-----------------------------------------------------------------------------
(* The steps of the contract, from what a step of the backend does *)

\* The contract sees nothing.
LEMMA Stutters ==
    ASSUME UNCHANGED contractView
    PROVE  UNCHANGED Contract!contractVars
BY DEF contractView, placeVars, Contract!contractVars, Offered, Waiting, Out

\* The ids that leave a place are lost, and the application used LosingCalls.
LEMMA LosesIds ==
    ASSUME TypeOK, Usage \cap LosingCalls # {},
           UNCHANGED <<unsent, Offered, acked, exhausted, accepted, handed,
                       visible_at, now>>,
           NEW S \in SUBSET (Waiting \cup Out),
           Waiting' = Waiting \ S, Out' = Out \ S
    PROVE  Contract!Next
<1>1. S \in SUBSET Messages
  BY WaitingIds
<1>2. Contract!Lose(S)
  BY DEF Contract!Lose
<1> QED BY <1>1, <1>2 DEF Contract!Next

\* A receive hands out the head of the channel.
LEMMA DeliverHands ==
    ASSUME Sound, channel # <<>>, Deliver,
           UNCHANGED <<unsent, sending, scheduling, scheduled, due, nacking,
                       requeuing, accepted, acked, exhausted, visible_at, now>>
    PROVE  Contract!Next
<1> DEFINE m == Head(channel).id
<1>1. /\ TypeOK /\ NoDuplicate /\ CountInv /\ VisibilityInv
      /\ channel \in Seq(Envelopes) /\ Head(channel) \in EnvsInSeq(channel)
  BY TailEnvs DEF Sound, Base, TypeOK
<1>2. /\ IdsInSeq(channel) = IdsInSeq(channel') \cup {m}
      /\ m \notin IdsInSeq(channel')
  BY <1>1, TailIds DEF Deliver, NoDuplicate, PlacesDistinct
<1>3. /\ IdsInSet(held') = IdsInSet(held) \cup {m}
      /\ handed' = [handed EXCEPT ![m] = @ + 1]
  BY DEF Deliver, IdsInSet
<1>4. m \in Messages /\ handed[m] \in Nat /\ handed[m] < Limit
  <2>1. /\ Head(channel).delivery_count = handed[m] + 1
        /\ Head(channel).delivery_count <= Limit
    BY <1>1 DEF CountInv, ChannelCounts
  <2>2. m \in Messages
    BY <1>1, SeqEnvs DEF Envelopes
  <2> QED BY <1>1, <2>1, <2>2, LimitType DEF TypeOK
<1>5. visible_at[m] <= now
  BY <1>1, <1>2 DEF VisibilityInv, Visible
<1>6. m \notin IdsInSchedule(scheduled) /\ m \notin IdsInSchedule(due)
  <2>1. m \in Places["channel"]
    BY <1>2, PlaceIds
  <2> QED BY <1>1, <2>1, PlaceNames, PlaceIds, Elsewhere DEF NoDuplicate
<1> HIDE DEF m
<1>7. /\ m \in Waiting /\ Waiting' = Waiting \ {m} /\ Out' = Out \cup {m}
      /\ Offered' = Offered
  BY <1>2, <1>3, <1>6 DEF Waiting, Out, Offered
<1>8. Contract!Hand(m)
  BY <1>3, <1>4, <1>5, <1>7
     DEF Contract!Hand, Contract!Visible, Contract!AttemptsLeft, Limit
<1> QED BY <1>4, <1>8 DEF Contract!Next

\* send and send_at take a message.
LEMMA OfferStep ==
    ASSUME NEW m \in unsent, m \in Messages, unsent' = unsent \ {m},
           Offered' = Offered \cup {m},
           UNCHANGED <<Waiting, Out, acked, exhausted, accepted, handed,
                       visible_at, now>>
    PROVE  Contract!Next
<1>1. Contract!Offer({m})
  BY DEF Contract!Offer
<1> QED BY <1>1 DEF Contract!Next

\* A send that completes makes the message wait.
LEMMA AcceptStep ==
    ASSUME NEW m \in Offered, m \in Messages, NEW at \in Times,
           Offered' = Offered \ {m}, Waiting' = Waiting \cup {m},
           accepted' = accepted \cup {m},
           visible_at' = [visible_at EXCEPT ![m] = at],
           UNCHANGED <<unsent, Out, acked, exhausted, handed, now>>
    PROVE  Contract!Next
<1>1. Contract!Accept(m, at)
  BY DEF Contract!Accept
<1> QED BY <1>1 DEF Contract!Next, Times

\* A send that fails or is dropped lets go of it.
LEMMA RefuseStep ==
    ASSUME NEW m \in Offered, m \in Messages, Offered' = Offered \ {m},
           UNCHANGED <<unsent, Waiting, Out, acked, exhausted, accepted,
                       handed, visible_at, now>>
    PROVE  Contract!Next
<1>1. Contract!Refuse({m})
  BY DEF Contract!Refuse
<1> QED BY <1>1 DEF Contract!Next

-----------------------------------------------------------------------------
(* The refinement *)

LEMMA UsageNext == UsageInv /\ [Next]_vars => UsageInv'
<1> SUFFICES ASSUME UsageInv, [Next]_vars PROVE UsageInv'
  OBVIOUS
<1> USE DEF UsageInv, channelVars, sharedVars, producerVars, consumerVars,
            deliveryVars, environmentVars, historyVars
<1>1. CASE UNCHANGED vars
  BY <1>1 DEF vars
<1>2. CASE ProducerNext
  BY <1>2 DEF ProducerNext, CloneProducer, DropProducer, Send, SendAt,
              SendCompletes, SendFails, SendAtCompletes, CancelSend
<1>3. CASE StartCall
  BY <1>3 DEF StartCall, CallReceive, CallTryReceive, CallReceiveGraceful,
              Start
<1>4. CASE ConsumerStep
  BY <1>4 DEF ConsumerStep, PollReceive, StopGraceful, CheckShutdown,
              FlushDone, TryRecv, PollRecv, TimerElapsed, TimerPending,
              PollLiveness, Wake
<1>5. CASE FlushLock \/ FlushSend \/ ReadNextScheduled \/ CancelReceive
             \/ DropConsumer
  BY <1>5 DEF FlushLock, FlushSend, ReadNextScheduled, CancelReceive,
              DropConsumer
<1>6. CASE DeliveryNext
  BY <1>6 DEF DeliveryNext, Ack, Nack, DropDelivery, NackLock, NackRequeue,
              NackRequeueFails, CancelNack
<1>7. CASE Shutdown \/ Tick
  BY <1>7 DEF Shutdown, Tick
<1> QED BY <1>1, <1>2, <1>3, <1>4, <1>5, <1>6, <1>7 DEF Next, ConsumerNext

\* At first nothing is anywhere.
LEMMA ContractInit == Init => Contract!Init
BY NothingScheduledIds, NoIds
   DEF Init, Contract!Init, Offered, Waiting, Out, IdsInSet

\* A producer's step.
LEMMA ProducerStep ==
    Sound /\ ProducerNext => Contract!Next \/ UNCHANGED Contract!contractVars
<1> SUFFICES ASSUME Sound, ProducerNext
             PROVE  Contract!Next \/ UNCHANGED Contract!contractVars
  OBVIOUS
<1> USE DEF channelVars, sharedVars, producerVars, consumerVars, deliveryVars,
            environmentVars, historyVars
<1>0. TypeOK /\ NoDuplicate /\ VisibilityInv
  BY DEF Sound, Base
<1>1. ASSUME NEW p \in Producers, NEW q \in Producers, CloneProducer(p, q)
      PROVE  UNCHANGED Contract!contractVars
  BY <1>1, Stutters DEF CloneProducer, contractView, placeVars
<1>2. ASSUME NEW p \in Producers, DropProducer(p)
      PROVE  UNCHANGED Contract!contractVars
  BY <1>2, Stutters DEF DropProducer, contractView, placeVars
<1>3. ASSUME NEW p \in Producers, NEW m \in Messages, Send(p, m)
      PROVE  Contract!Next
  <2>1. Offered' = Offered \cup {m}
    <3> DEFINE r == [by |-> p, env |-> NewEnvelope(m)]
    <3>1. r.env.id = m
      BY DEF NewEnvelope
    <3>2. sending' = sending \cup {r} /\ scheduling' = scheduling
      BY <1>3 DEF Send
    <3> HIDE DEF r
    <3> QED BY <3>1, <3>2 DEF Offered
  <2>2. UNCHANGED <<Waiting, Out>>
    BY <1>3 DEF Send, Waiting, Out
  <2> QED BY <1>3, <2>1, <2>2, OfferStep DEF Send
<1>4. ASSUME NEW p \in Producers, NEW m \in Messages, NEW at \in Times,
             SendAt(p, m, at)
      PROVE  Contract!Next
  <2>1. Offered' = Offered \cup {m}
    <3> DEFINE r == [by |-> p, env |-> NewEnvelope(m), at |-> at]
    <3>1. r.env.id = m
      BY DEF NewEnvelope
    <3>2. scheduling' = scheduling \cup {r} /\ sending' = sending
      BY <1>4 DEF SendAt
    <3> HIDE DEF r
    <3> QED BY <3>1, <3>2 DEF Offered
  <2>2. UNCHANGED <<Waiting, Out>>
    BY <1>4 DEF SendAt, Waiting, Out
  <2> QED BY <1>4, <2>1, <2>2, OfferStep DEF SendAt
<1>5. ASSUME NEW s \in sending, SendCompletes(s)
      PROVE  Contract!Next
  <2> DEFINE m == s.env.id
  <2>1. s.env \in Envelopes /\ m \in Messages /\ m \in Offered
    BY <1>0, SendIds
  <2>2. Offered' = Offered \ {m}
    <3>1. /\ sending' = sending \ {s} /\ scheduling' = scheduling \ {s}
          /\ s \notin scheduling
      <4>1. s \notin scheduling
        BY <1>0, SendersApart DEF NoDuplicate
      <4> QED BY <1>5, <4>1 DEF SendCompletes
    <3> QED BY <1>0, <3>1, SendIds DEF Offered
  <2>3. IdsInSeq(channel') = IdsInSeq(channel) \cup {m}
    BY <1>0, <1>5, <2>1, AppendIds DEF SendCompletes, Push, TypeOK
  <2>4. visible_at' = [visible_at EXCEPT ![m] = 0]
    <3>1. visible_at[m] = 0
      BY <1>0 DEF VisibilityInv, Undated
    <3> QED BY <1>0, <1>5, <3>1 DEF SendCompletes, TypeOK
  <2>5. /\ Waiting' = Waiting \cup {m} /\ Out' = Out
        /\ accepted' = accepted \cup {m}
        /\ UNCHANGED <<unsent, acked, exhausted, handed, now>>
    BY <1>5, <2>3 DEF SendCompletes, Waiting, Out
  <2>6. 0 \in Times
    BY EnvelopeAssumption DEF Times
  <2> HIDE DEF m
  <2> QED BY <2>1, <2>2, <2>4, <2>5, <2>6, AcceptStep
<1>6. ASSUME NEW s \in sending, SendFails(s)
      PROVE  Contract!Next
  <2>1. /\ sending' = sending \ {s} /\ scheduling' = scheduling \ {s}
    <3>1. s \notin scheduling
      BY <1>0, SendersApart DEF NoDuplicate
    <3> QED BY <1>6, <3>1 DEF SendFails
  <2>2. Offered' = Offered \ {s.env.id}
    BY <1>0, <2>1, SendIds DEF Offered
  <2> QED BY <1>0, <1>6, <2>2, SendIds, RefuseStep DEF SendFails, Waiting, Out
<1>7. ASSUME NEW s \in scheduling, SendAtCompletes(s)
      PROVE  Contract!Next
  <2> DEFINE m == s.env.id
  <2>1. s.env \in Envelopes /\ m \in Messages /\ m \in Offered /\ s.at \in Times
    BY <1>0, SendIds DEF TypeOK
  <2>2. Offered' = Offered \ {m}
    <3>1. s \notin sending
      BY <1>0, SendersApart DEF NoDuplicate
    <3>2. sending' = sending \ {s} /\ scheduling' = scheduling \ {s}
      BY <1>7, <3>1 DEF SendAtCompletes
    <3> QED BY <1>0, <3>2, SendIds DEF Offered
  <2>3. IdsInSchedule(scheduled') = IdsInSchedule(scheduled) \cup {m}
    BY <1>0, <1>7, <2>1, ScheduleIds DEF SendAtCompletes, TypeOK
  <2>4. /\ Waiting' = Waiting \cup {m} /\ Out' = Out
        /\ accepted' = accepted \cup {m}
        /\ visible_at' = [visible_at EXCEPT ![m] = s.at]
        /\ UNCHANGED <<unsent, acked, exhausted, handed, now>>
    BY <1>7, <2>3 DEF SendAtCompletes, Waiting, Out
  <2> HIDE DEF m
  <2> QED BY <2>1, <2>2, <2>4, AcceptStep
<1>8. ASSUME NEW s \in sending \cup scheduling, CancelSend(s)
      PROVE  Contract!Next
  <2>1. Offered' = Offered \ {s.env.id}
    BY <1>0, <1>8, SendIds DEF CancelSend, Offered
  <2> QED BY <1>0, <1>8, <2>1, SendIds, RefuseStep DEF CancelSend, Waiting, Out
<1> QED BY <1>1, <1>2, <1>3, <1>4, <1>5, <1>6, <1>7, <1>8 DEF ProducerNext

\* A step of the consumer.
LEMMA ReceiveStep ==
    Sound /\ ConsumerNext => Contract!Next \/ UNCHANGED Contract!contractVars
<1> SUFFICES ASSUME Sound, ConsumerNext
             PROVE  Contract!Next \/ UNCHANGED Contract!contractVars
  OBVIOUS
<1> USE DEF channelVars, sharedVars, producerVars, consumerVars, deliveryVars,
            environmentVars, historyVars
<1>0. TypeOK /\ LockDiscipline /\ NoDuplicate /\ UsageInv
  BY DEF Sound, Base
<1>1. CASE StartCall
  BY <1>1, Stutters
     DEF StartCall, CallReceive, CallTryReceive, CallReceiveGraceful, Start,
         Enter, Return, contractView, placeVars
<1>2. CASE PollReceive \/ CheckShutdown \/ FlushDone \/ TimerElapsed
             \/ TimerPending \/ PollLiveness \/ Wake \/ ReadNextScheduled
  BY <1>2, Stutters
     DEF PollReceive, CheckShutdown, FlushDone, TimerElapsed, TimerPending,
         PollLiveness, Wake, ReadNextScheduled, Enter, Return, contractView,
         placeVars
<1>3. CASE TryRecv
  <2>1. CASE channel # <<>> /\ Deliver
    BY <1>3, <2>1, DeliverHands DEF TryRecv
  <2>2. CASE channel = <<>>
    BY <1>3, <2>2, Stutters DEF TryRecv, contractView, placeVars
  <2> QED BY <1>3, <2>1, <2>2 DEF TryRecv
<1>4. CASE PollRecv
  <2>1. CASE channel # <<>> /\ Deliver
    BY <1>4, <2>1, DeliverHands DEF PollRecv
  <2>2. CASE channel = <<>>
    BY <1>4, <2>2, Stutters DEF PollRecv, contractView, placeVars
  <2> QED BY <1>4, <2>1, <2>2 DEF PollRecv
<1>5. CASE FlushLock
  <2>1. /\ IdsInSchedule(scheduled)
              = IdsInSchedule(due') \cup IdsInSchedule(scheduled')
        /\ IdsInSchedule(due) = {}
    BY <1>0, <1>5, SplitIds, NothingScheduledIds
       DEF FlushLock, TypeOK, LockDiscipline
  <2>2. UNCHANGED <<Offered, Waiting, Out>>
    BY <1>5, <2>1 DEF FlushLock, Offered, Waiting, Out
  <2> QED BY <1>5, <2>2 DEF FlushLock, Contract!contractVars
<1>6. CASE FlushSend
  <2> DEFINE x == Head(due[FirstKey(due)]).id
  <2>1. /\ IdsInSchedule(due) = IdsInSchedule(due') \cup {x}
        /\ IdsInSeq(channel') = IdsInSeq(channel) \cup {x}
    BY <1>0, <1>6, UnflushedType, UnflushedIds, AppendIds
       DEF FlushSend, Push, TypeOK
  <2> HIDE DEF x
  <2>2. UNCHANGED <<Offered, Waiting, Out>>
    BY <1>6, <2>1 DEF FlushSend, Offered, Waiting, Out
  <2> QED BY <1>6, <2>2 DEF FlushSend, Contract!contractVars
<1>7. CASE StopGraceful \/ CancelReceive
  <2>1. CASE pc # "flush"
    BY <1>0, <1>7, <2>1, Stutters
       DEF StopGraceful, CancelReceive, DropReceiveFuture, LockDiscipline,
           contractView, placeVars
  <2>2. CASE pc = "flush"
    <3> DEFINE S == IdsInSchedule(due)
    <3>1. Usage \cap LosingCalls # {}
      BY <1>0, <1>7 DEF StopGraceful, CancelReceive, UsageInv, LosingCalls
    <3>2. S \cap (IdsInSchedule(scheduled) \cup IdsInSeq(channel)) = {}
      <4>1. /\ Places["due"] \cap Places["scheduled"] = {}
            /\ Places["due"] \cap Places["channel"] = {}
        BY <1>0, PlaceNames DEF NoDuplicate, PlacesApart
      <4> QED BY <4>1, PlaceIds
    <3>3. IdsInSchedule(due') = {}
      BY <1>7, NothingScheduledIds
         DEF StopGraceful, CancelReceive, DropReceiveFuture
    <3>4. UNCHANGED <<unsent, sending, scheduling, scheduled, channel, held,
                      nacking, requeuing, acked, exhausted, accepted, handed,
                      visible_at, now>>
      BY <1>7 DEF StopGraceful, CancelReceive
    <3>5. S \subseteq Waiting /\ S \cap Out = {}
      BY <1>0, WaitingOutApart DEF Waiting, NoDuplicate
    <3> HIDE DEF S
    <3>6. Waiting' = Waiting \ S /\ Out' = Out \ S /\ Offered' = Offered
      BY <3>2, <3>3, <3>4, <3>5 DEF S, Waiting, Out, Offered
    <3> QED BY <1>0, <3>1, <3>4, <3>5, <3>6, LosesIds
  <2> QED BY <2>1, <2>2
<1>8. CASE DropConsumer
  <2> DEFINE S == IdsInSeq(channel)
  <2>1. Usage \cap LosingCalls # {}
    BY <1>8 DEF DropConsumer, LosingCalls
  <2>2. S \cap (IdsInSchedule(scheduled) \cup IdsInSchedule(due)) = {}
    <3>1. /\ Places["channel"] \cap Places["scheduled"] = {}
          /\ Places["channel"] \cap Places["due"] = {}
      BY <1>0, PlaceNames DEF NoDuplicate, PlacesApart
    <3> QED BY <3>1, PlaceIds
  <2>3. /\ IdsInSeq(channel') = {}
        /\ UNCHANGED <<unsent, sending, scheduling, scheduled, due, held,
                       nacking, requeuing, acked, exhausted, accepted, handed,
                       visible_at, now>>
    BY <1>8, NoIds DEF DropConsumer
  <2>4. S \subseteq Waiting /\ S \cap Out = {}
    BY <1>0, WaitingOutApart DEF Waiting, NoDuplicate
  <2> HIDE DEF S
  <2>5. Waiting' = Waiting \ S /\ Out' = Out \ S /\ Offered' = Offered
    BY <2>2, <2>3, <2>4 DEF S, Waiting, Out, Offered
  <2> QED BY <1>0, <2>1, <2>3, <2>4, <2>5, LosesIds
<1> QED BY <1>1, <1>2, <1>3, <1>4, <1>5, <1>6, <1>7, <1>8
        DEF ConsumerNext, ConsumerStep

\* A step of a delivery.
LEMMA DeliveryStep ==
    Sound /\ DeliveryNext => Contract!Next \/ UNCHANGED Contract!contractVars
<1> SUFFICES ASSUME Sound, DeliveryNext
             PROVE  Contract!Next \/ UNCHANGED Contract!contractVars
  OBVIOUS
<1> USE DEF channelVars, sharedVars, producerVars, consumerVars, deliveryVars,
            environmentVars, historyVars
<1>0. TypeOK /\ LockDiscipline /\ NoDuplicate /\ CountInv /\ UsageInv
  BY DEF Sound, Base
<1>1. ASSUME NEW e \in held \cup nacking \cup requeuing
      PROVE  e \in held => e \notin nacking \cup requeuing
  <2>1. /\ Places["held"] \cap Places["nacking"] = {}
        /\ Places["held"] \cap Places["requeuing"] = {}
    BY <1>0, PlaceNames DEF NoDuplicate, PlacesApart
  <2> QED BY <2>1, PlaceIds DEF IdsInSet
<1>2. ASSUME NEW e \in nacking
      PROVE  e \notin held \cup requeuing
  <2>1. /\ Places["nacking"] \cap Places["held"] = {}
        /\ Places["nacking"] \cap Places["requeuing"] = {}
    BY <1>0, PlaceNames DEF NoDuplicate, PlacesApart
  <2> QED BY <2>1, PlaceIds DEF IdsInSet
\* The delivery or nack e ends: its id is out no more.
<1>3. ASSUME NEW e \in held \cup nacking \cup requeuing,
             held' = held \ {e}, nacking' = nacking \ {e},
             requeuing' = requeuing \ {e}
      PROVE  Out' = Out \ {e.id}
  BY <1>0, <1>3, OutIds DEF Out
<1>4. ASSUME NEW e \in held \cup nacking \cup requeuing,
             held' = held \ {e}, nacking' = nacking \ {e},
             requeuing' = requeuing \ {e}, Usage \cap LosingCalls # {},
             UNCHANGED <<unsent, sending, scheduling, scheduled, due, channel,
                         acked, exhausted, accepted, handed, visible_at, now>>
      PROVE  Contract!Next
  <2>1. e.id \in Out /\ e.id \notin Waiting
    BY <1>0, OutIds
  <2>2. Waiting' = Waiting \ {e.id} /\ Offered' = Offered
    BY <1>4, <2>1 DEF Waiting, Offered
  <2>3. {e.id} \in SUBSET (Waiting \cup Out)
    BY <2>1
  <2>4. Out' = Out \ {e.id}
    BY <1>3, <1>4
  <2> QED BY <1>0, <1>4, <2>2, <2>3, <2>4, LosesIds
<1>5. ASSUME NEW e \in held, Ack(e)
      PROVE  Contract!Next
  <2>1. e.id \in Messages /\ e.id \in Out
    BY <1>0, OutIds
  <2>2. Out' = Out \ {e.id}
    BY <1>1, <1>3, <1>5 DEF Ack
  <2>3. Contract!Ack(e.id)
    BY <1>5, <2>1, <2>2 DEF Ack, Contract!Ack, Offered, Waiting
  <2> QED BY <2>1, <2>3 DEF Contract!Next
<1>6. ASSUME NEW e \in held, Nack(e)
      PROVE  UNCHANGED Contract!contractVars
  <2>1. Out' = Out
    BY <1>6 DEF Nack, Out, IdsInSet
  <2> QED BY <1>6, <2>1 DEF Nack, Contract!contractVars, Offered, Waiting
<1>7. ASSUME NEW e \in held, DropDelivery(e)
      PROVE  Contract!Next
  BY <1>1, <1>4, <1>7 DEF DropDelivery, LosingCalls
<1>8. ASSUME NEW e \in nacking, NackLock(e)
      PROVE  Contract!Next \/ UNCHANGED Contract!contractVars
  <2>1. e \in Envelopes /\ e.id \in Messages /\ e.id \in Out
    BY <1>0, OutIds
  <2>2. CASE /\ AttemptsExhausted(nack_counts'[e.id])
             /\ exhausted' = exhausted \cup {e.id}
             /\ UNCHANGED requeuing
    <3>1. handed[e.id] >= MaxAttempts
      <4>1. /\ e.delivery_count = handed[e.id]
            /\ e.delivery_count = nack_counts[e.id] + 1
            /\ e.delivery_count <= Limit
        BY <1>0 DEF CountInv, ReceivedCounts
      <4>2. nack_counts[e.id] \in 0 .. U32Max /\ handed[e.id] \in Nat
        BY <1>0, <2>1 DEF TypeOK
      <4>3. nack_counts'[e.id] = nack_counts[e.id] + 1
        <5>1. Increment(nack_counts[e.id]) = nack_counts[e.id] + 1
          BY <4>1, <4>2, LimitType, IncrementType, EnvelopeAssumption
        <5>2. nack_counts'[e.id] = Increment(nack_counts[e.id])
          BY <1>0, <1>8, <2>1 DEF NackLock, TypeOK
        <5> QED BY <5>1, <5>2
      <4> QED BY <2>2, <4>1, <4>2, <4>3, LimitType DEF AttemptsExhausted
    <3>2. Out' = Out \ {e.id}
      BY <1>2, <1>3, <1>8, <2>2 DEF NackLock
    <3>3. Contract!GiveUp(e.id)
      BY <1>8, <2>1, <2>2, <3>1, <3>2
         DEF NackLock, Contract!GiveUp, Offered, Waiting
    <3> QED BY <2>1, <3>3 DEF Contract!Next
  <2>3. CASE requeuing' = requeuing \cup {e} /\ UNCHANGED exhausted
    <3>1. Out' = Out
      BY <1>8, <2>3 DEF NackLock, Out, IdsInSet
    <3> QED BY <1>8, <2>3, <3>1
            DEF NackLock, Contract!contractVars, Offered, Waiting
  <2> QED BY <1>8, <2>2, <2>3 DEF NackLock
<1>9. ASSUME NEW e \in requeuing, NackRequeue(e)
      PROVE  Contract!Next
  <2>1. /\ e \in Envelopes /\ e.id \in Messages /\ e.id \in Out
        /\ handed[e.id] < MaxAttempts
    BY <1>0, OutIds DEF CountInv, RequeuingCounts
  <2>2. IdsInSeq(channel') = IdsInSeq(channel) \cup {e.id}
    BY <1>0, <1>9, RedeliveredType, AppendIds DEF NackRequeue, Push, TypeOK
  <2>3. Out' = Out \ {e.id}
    BY <1>1, <1>2, <1>3, <1>9 DEF NackRequeue
  <2>4. Waiting' = Waiting \cup {e.id}
    BY <1>9, <2>2 DEF NackRequeue, Waiting
  <2>5. Contract!Return(e.id)
    BY <1>9, <2>1, <2>3, <2>4 DEF NackRequeue, Contract!Return, Offered
  <2> QED BY <2>1, <2>5 DEF Contract!Next
<1>10. ASSUME NEW e \in requeuing, NackRequeueFails(e)
       PROVE  Contract!Next
  <2>1. Usage \cap LosingCalls # {}
    BY <1>0, <1>10 DEF NackRequeueFails, UsageInv, LosingCalls
  <2> QED BY <1>1, <1>2, <1>4, <1>10, <2>1 DEF NackRequeueFails
<1>11. ASSUME NEW e \in nacking \cup requeuing, CancelNack(e)
       PROVE  Contract!Next
  BY <1>1, <1>4, <1>11 DEF CancelNack, LosingCalls
<1> QED BY <1>5, <1>6, <1>7, <1>8, <1>9, <1>10, <1>11 DEF DeliveryNext

\* The three environment steps.
LEMMA EnvironmentStep ==
    Sound /\ (Shutdown \/ Tick \/ UNCHANGED vars)
        => Contract!Next \/ UNCHANGED Contract!contractVars
<1> USE DEF channelVars, sharedVars, producerVars, consumerVars, deliveryVars,
            environmentVars, historyVars
<1>1. Shutdown => UNCHANGED contractView
  BY DEF Shutdown, contractView, placeVars
<1>2. UNCHANGED vars => UNCHANGED contractView
  BY DEF vars, contractView, placeVars
<1>3. Tick => Contract!Tick
  BY DEF Tick, Contract!Tick, Offered, Waiting, Out
<1> QED BY <1>1, <1>2, <1>3, Stutters DEF Contract!Next

\* The in-memory backend keeps the contract of QueueContract for every set of
\* messages, capacity, limit and mode of use: whatever the tasks, the flushes
\* and the cancelled futures of MemoryQueue do, a message is handed out only
\* when it was accepted and is due, from one place at a time and never beyond
\* the limit, and is let go only where the application dropped what held it.
THEOREM ImplementsContract == Spec => KeepsContract
<1>1. Init => Contract!Init
  BY ContractInit
<1>2. Init => UsageInv
  BY DEF Init, UsageInv
<1>3. Sound /\ [Next]_vars => [Contract!Next]_(Contract!contractVars)
  BY ProducerStep, ReceiveStep, DeliveryStep, EnvironmentStep DEF Next
<1>4. UsageInv /\ [Next]_vars => UsageInv'
  BY UsageNext
<1> QED BY <1>1, <1>2, <1>3, <1>4, Dated, PTL
        DEF Spec, KeepsContract, Contract!Spec, Sound
=============================================================================
