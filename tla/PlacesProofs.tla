---------------------------- MODULE PlacesProofs ----------------------------
(***************************************************************************)
(* MemoryQueue never duplicates a message, and its counters agree, whatever *)
(* the number of messages and producers, the capacity and the usage.       *)
(*                                                                         *)
(* Places: every step of every handler either leaves the places a message  *)
(* can be in alone, or shrinks them, or moves one id from one place to     *)
(* another, or (the flush) splits one place in two.  Together with TypeOK, *)
(* which says what the places hold, NoDuplicate is inductive.  A corollary: *)
(* with a place for each message nobody waits for room.                    *)
(*                                                                         *)
(* Counters: an envelope's delivery_count, the number of times the         *)
(* application received the message, and the nacks that SharedState counts *)
(* agree, and no message is received more often than the limit allows.     *)
(* DeliveryCountHonest speaks of the channel and of deliveries only, and is *)
(* not inductive: CountInv adds what the counters are before a message gets *)
(* to the channel, and that the attempts left are never negative.  A counter *)
(* moves only for one message at a time, and NoDuplicate says that no other *)
(* envelope has its id.                                                    *)
(***************************************************************************)
EXTENDS MemoryQueueProofs

placeVars == <<unsent, sending, scheduling, scheduled, due, channel, held,
               nacking, requeuing, acked, exhausted>>

-----------------------------------------------------------------------------
(* The four kinds of step *)

LEMMA PlaceNames ==
    DOMAIN Places = {"unsent", "sending", "scheduling", "scheduled", "due",
                     "channel", "held", "nacking", "requeuing", "acked",
                     "exhausted"}
BY DEF Places

LEMMA NoIds == IdsInSeq(<<>>) = {} /\ DistinctInSeq(<<>>)
BY DEF IdsInSeq, DistinctInSeq

\* A step that leaves every place alone.
LEMMA SameApart ==
    ASSUME NoDuplicate, UNCHANGED placeVars
    PROVE  NoDuplicate'
BY DEF NoDuplicate, PlacesApart, PlacesDistinct, Places, placeVars

\* A step that only takes ids away.
LEMMA ShrinkApart ==
    ASSUME PlacesApart,
           \A n \in DOMAIN Places : Places'[n] \subseteq Places[n]
    PROVE  PlacesApart'
<1>1. DOMAIN Places' = DOMAIN Places
  BY DEF Places
<1> QED BY <1>1 DEF PlacesApart

\* Sets that are pairwise disjoint stay so when x moves from one to another
\* and the rest only shrink.
LEMMA MoveApart ==
    ASSUME NEW N, NEW P, NEW Q,
           \A p, q \in N : p # q => P[p] \cap P[q] = {},
           NEW a \in N, NEW b \in N, NEW x,
           a # b, x \in P[a], x \notin Q[a],
           Q[b] \subseteq P[b] \cup {x},
           \A p \in N \ {b} : Q[p] \subseteq P[p]
    PROVE  \A p, q \in N : p # q => Q[p] \cap Q[q] = {}
<1>1. \A p \in N \ {b} : x \notin Q[p]
  OBVIOUS
<1> QED BY <1>1

\* A step that moves an id from the place a to the place b.
LEMMA MovePlaces ==
    ASSUME PlacesApart,
           NEW a \in DOMAIN Places, NEW b \in DOMAIN Places \ {a}, NEW x,
           x \in Places[a], x \notin Places'[a],
           Places'[b] \subseteq Places[b] \cup {x},
           \A n \in DOMAIN Places \ {b} : Places'[n] \subseteq Places[n]
    PROVE  PlacesApart' /\ x \notin Places[b]
<1>1. DOMAIN Places' = DOMAIN Places
  BY DEF Places
<1>2. PlacesApart'
  BY <1>1, MoveApart DEF PlacesApart
<1>3. x \notin Places[b]
  BY DEF PlacesApart
<1> QED BY <1>2, <1>3

\* The split of the map into what is due and what is not.
LEMMA SplitPlaces ==
    ASSUME PlacesApart,
           Places'["due"] \cup Places'["scheduled"]
              \subseteq Places["scheduled"],
           Places'["due"] \cap Places'["scheduled"] = {},
           \A n \in DOMAIN Places \ {"due"} : Places'[n] \subseteq Places[n]
    PROVE  PlacesApart'
<1>1. DOMAIN Places' = DOMAIN Places
  BY DEF Places
<1>2. ASSUME NEW n \in DOMAIN Places \ {"due"}
      PROVE  Places'["due"] \cap Places'[n] = {}
  BY <1>2, PlaceNames DEF PlacesApart
<1> QED BY <1>1, <1>2 DEF PlacesApart

\* A receive moves the head of the channel to the application.
LEMMA DeliverApart ==
    ASSUME TypeOK, NoDuplicate, channel # <<>>, Deliver,
           UNCHANGED <<unsent, sending, scheduling, scheduled, due, nacking,
                       requeuing, acked, exhausted>>
    PROVE  NoDuplicate'
<1> DEFINE e == Head(channel)
<1>1. /\ IdsInSeq(channel) = IdsInSeq(channel') \cup {e.id}
      /\ DistinctInSeq(channel') /\ e.id \notin IdsInSeq(channel')
  BY TailIds DEF Deliver, TypeOK, NoDuplicate, PlacesDistinct
<1>2. held' = held \cup {e}
  BY DEF Deliver
<1> HIDE DEF e
<1>3. e.id \in Places["channel"] /\ e.id \notin Places'["channel"]
  BY <1>1 DEF Places
<1>4. Places'["held"] \subseteq Places["held"] \cup {e.id}
  BY <1>2 DEF Places, IdsInSet
<1>5. \A n \in DOMAIN Places \ {"held"} : Places'[n] \subseteq Places[n]
  BY <1>1, <1>2 DEF Places
<1>6. PlacesApart' /\ e.id \notin Places["held"]
  BY <1>3, <1>4, <1>5, PlaceNames, MovePlaces DEF NoDuplicate
<1>7. PlacesDistinct'
  BY <1>1, <1>2, <1>6
     DEF NoDuplicate, PlacesDistinct, Places, IdsInSet, DistinctInSet
<1> QED BY <1>6, <1>7 DEF NoDuplicate

-----------------------------------------------------------------------------
(* The invariant *)

\* At first every message is unsent.
LEMMA ApartInit == Init => NoDuplicate
<1> SUFFICES ASSUME Init PROVE NoDuplicate
  OBVIOUS
<1>1. \A n \in DOMAIN Places \ {"unsent"} : Places[n] = {}
  BY NothingScheduledIds, NoIds DEF Init, Places, IdsInSet
<1>2. PlacesApart
  BY <1>1 DEF PlacesApart
<1>3. PlacesDistinct
  BY NothingScheduledIds, NoIds DEF Init, PlacesDistinct, DistinctInSet
<1> QED BY <1>2, <1>3 DEF NoDuplicate

\* Every step is of one of the four kinds.
LEMMA ApartNext == TypeOK /\ NoDuplicate /\ [Next]_vars => NoDuplicate'
<1> SUFFICES ASSUME TypeOK, NoDuplicate, [Next]_vars PROVE NoDuplicate'
  OBVIOUS
<1> USE DEF NoDuplicate, channelVars, sharedVars, producerVars, consumerVars,
            deliveryVars, environmentVars, historyVars
<1>1. CASE UNCHANGED vars
  BY <1>1, SameApart DEF vars, placeVars
<1>2. ASSUME NEW p \in Producers, NEW q \in Producers, CloneProducer(p, q)
      PROVE  NoDuplicate'
  BY <1>2, SameApart DEF CloneProducer, placeVars
<1>3. ASSUME NEW p \in Producers, DropProducer(p)
      PROVE  NoDuplicate'
  BY <1>3, SameApart DEF DropProducer, placeVars
<1>4. ASSUME NEW p \in Producers, NEW m \in Messages, Send(p, m)
      PROVE  NoDuplicate'
  <2>1. m \in Places["unsent"] /\ m \notin Places'["unsent"]
    BY <1>4 DEF Send, Places
  <2>2. Places'["sending"] \subseteq Places["sending"] \cup {m}
    BY <1>4 DEF Send, Places, NewEnvelope
  <2>3. \A n \in DOMAIN Places \ {"sending"} : Places'[n] \subseteq Places[n]
    BY <1>4 DEF Send, Places
  <2>4. PlacesApart' /\ m \notin Places["sending"]
    BY <2>1, <2>2, <2>3, PlaceNames, MovePlaces
  <2>5. PlacesDistinct'
    BY <1>4, <2>4 DEF Send, Places, PlacesDistinct, NewEnvelope
  <2> QED BY <2>4, <2>5
<1>5. ASSUME NEW p \in Producers, NEW m \in Messages, NEW at \in Times,
             SendAt(p, m, at)
      PROVE  NoDuplicate'
  <2>1. m \in Places["unsent"] /\ m \notin Places'["unsent"]
    BY <1>5 DEF SendAt, Places
  <2>2. Places'["scheduling"] \subseteq Places["scheduling"] \cup {m}
    BY <1>5 DEF SendAt, Places, NewEnvelope
  <2>3. \A n \in DOMAIN Places \ {"scheduling"} :
           Places'[n] \subseteq Places[n]
    BY <1>5 DEF SendAt, Places
  <2>4. PlacesApart' /\ m \notin Places["scheduling"]
    BY <2>1, <2>2, <2>3, PlaceNames, MovePlaces
  <2>5. PlacesDistinct'
    BY <1>5, <2>4 DEF SendAt, Places, PlacesDistinct, NewEnvelope
  <2> QED BY <2>4, <2>5
<1>6. ASSUME NEW s \in sending, SendCompletes(s)
      PROVE  NoDuplicate'
  <2>0. /\ IdsInSeq(channel') = IdsInSeq(channel) \cup {s.env.id}
        /\ s.env.id \notin IdsInSeq(channel) => DistinctInSeq(channel')
    BY <1>6, AppendIds DEF SendCompletes, Push, PlacesDistinct, TypeOK
  <2>1. s.env.id \in Places["sending"] /\ s.env.id \notin Places'["sending"]
    BY <1>6 DEF SendCompletes, Places, PlacesDistinct
  <2>2. Places'["channel"] \subseteq Places["channel"] \cup {s.env.id}
    BY <2>0 DEF Places
  <2>3. \A n \in DOMAIN Places \ {"channel"} : Places'[n] \subseteq Places[n]
    BY <1>6 DEF SendCompletes, Places
  <2>4. PlacesApart' /\ s.env.id \notin Places["channel"]
    BY <2>1, <2>2, <2>3, PlaceNames, MovePlaces
  <2>5. PlacesDistinct'
    BY <1>6, <2>0, <2>4 DEF SendCompletes, Places, PlacesDistinct
  <2> QED BY <2>4, <2>5
<1>7. ASSUME NEW s \in sending, SendFails(s)
      PROVE  NoDuplicate'
  <2>1. \A n \in DOMAIN Places : Places'[n] \subseteq Places[n]
    BY <1>7 DEF SendFails, Places
  <2>2. PlacesDistinct'
    BY <1>7 DEF SendFails, PlacesDistinct
  <2> QED BY <2>1, <2>2, ShrinkApart
<1>8. ASSUME NEW s \in scheduling, SendAtCompletes(s)
      PROVE  NoDuplicate'
  <2>0. /\ IdsInSchedule(scheduled') = IdsInSchedule(scheduled) \cup {s.env.id}
        /\ s.env.id \notin IdsInSchedule(scheduled)
              => DistinctInSchedule(scheduled')
    BY <1>8, ScheduleIds DEF SendAtCompletes, PlacesDistinct, TypeOK
  <2>1. /\ s.env.id \in Places["scheduling"]
        /\ s.env.id \notin Places'["scheduling"]
    BY <1>8 DEF SendAtCompletes, Places, PlacesDistinct
  <2>2. Places'["scheduled"] \subseteq Places["scheduled"] \cup {s.env.id}
    BY <2>0 DEF Places
  <2>3. \A n \in DOMAIN Places \ {"scheduled"} : Places'[n] \subseteq Places[n]
    BY <1>8 DEF SendAtCompletes, Places
  <2>4. PlacesApart' /\ s.env.id \notin Places["scheduled"]
    BY <2>1, <2>2, <2>3, PlaceNames, MovePlaces
  <2>5. PlacesDistinct'
    BY <1>8, <2>0, <2>4 DEF SendAtCompletes, Places, PlacesDistinct
  <2> QED BY <2>4, <2>5
<1>9. ASSUME NEW s \in sending \cup scheduling, CancelSend(s)
      PROVE  NoDuplicate'
  <2>1. \A n \in DOMAIN Places : Places'[n] \subseteq Places[n]
    BY <1>9 DEF CancelSend, Places
  <2>2. PlacesDistinct'
    BY <1>9 DEF CancelSend, PlacesDistinct
  <2> QED BY <2>1, <2>2, ShrinkApart
<1>10. CASE CallReceive
  BY <1>10, SameApart DEF CallReceive, Start, Enter, placeVars
<1>11. CASE CallTryReceive
  BY <1>11, SameApart DEF CallTryReceive, Start, Enter, placeVars
<1>12. CASE CallReceiveGraceful
  BY <1>12, SameApart DEF CallReceiveGraceful, Start, Enter, Return, placeVars
<1>13. CASE PollReceive
  BY <1>13, SameApart DEF PollReceive, Enter, placeVars
<1>14. CASE StopGraceful
  <2>1. \A n \in DOMAIN Places : Places'[n] \subseteq Places[n]
    BY <1>14, NothingScheduledIds DEF StopGraceful, DropReceiveFuture, Places
  <2>2. PlacesDistinct'
    BY <1>14, NothingScheduledIds
       DEF StopGraceful, DropReceiveFuture, PlacesDistinct
  <2> QED BY <2>1, <2>2, ShrinkApart
<1>15. CASE CheckShutdown
  BY <1>15, SameApart DEF CheckShutdown, Enter, Return, placeVars
<1>16. CASE FlushDone
  BY <1>16, SameApart DEF FlushDone, placeVars
<1>17. CASE TryRecv
  <2>1. CASE channel # <<>> /\ Deliver
    BY <2>1, <1>17, DeliverApart DEF TryRecv
  <2>2. CASE channel = <<>>
    BY <1>17, <2>2, SameApart DEF TryRecv, Enter, Return, placeVars
  <2> QED BY <1>17, <2>1, <2>2 DEF TryRecv
<1>18. CASE PollRecv
  <2>1. CASE channel # <<>> /\ Deliver
    BY <2>1, <1>18, DeliverApart DEF PollRecv
  <2>2. CASE channel = <<>>
    BY <1>18, <2>2, SameApart DEF PollRecv, Enter, placeVars
  <2> QED BY <1>18, <2>1, <2>2 DEF PollRecv
<1>19. CASE TimerElapsed
  BY <1>19, SameApart DEF TimerElapsed, placeVars
<1>20. CASE TimerPending
  BY <1>20, SameApart DEF TimerPending, Enter, placeVars
<1>21. CASE PollLiveness
  BY <1>21, SameApart DEF PollLiveness, Enter, Return, placeVars
<1>22. CASE Wake
  BY <1>22, SameApart DEF Wake, Enter, placeVars
<1>23. CASE FlushLock
  <2>1. /\ IdsInSchedule(scheduled)
              = IdsInSchedule(due') \cup IdsInSchedule(scheduled')
        /\ DistinctInSchedule(due') /\ DistinctInSchedule(scheduled')
        /\ IdsInSchedule(due') \cap IdsInSchedule(scheduled') = {}
    BY <1>23, SplitIds DEF FlushLock, PlacesDistinct, TypeOK
  <2>2. /\ Places'["due"] \cup Places'["scheduled"]
              \subseteq Places["scheduled"]
        /\ Places'["due"] \cap Places'["scheduled"] = {}
    BY <2>1 DEF Places
  <2>3. \A n \in DOMAIN Places \ {"due"} : Places'[n] \subseteq Places[n]
    BY <1>23, <2>1 DEF FlushLock, Places
  <2>4. PlacesApart'
    BY <2>2, <2>3, SplitPlaces
  <2>5. PlacesDistinct'
    BY <1>23, <2>1 DEF FlushLock, PlacesDistinct
  <2> QED BY <2>4, <2>5
<1>24. CASE FlushSend
  <2> DEFINE x == Head(due[FirstKey(due)]).id
  <2>0. /\ IdsInSchedule(due) = IdsInSchedule(due') \cup {x}
        /\ DistinctInSchedule(due') /\ x \notin IdsInSchedule(due')
        /\ IdsInSeq(channel') = IdsInSeq(channel) \cup {x}
        /\ x \notin IdsInSeq(channel) => DistinctInSeq(channel')
    BY <1>24, UnflushedType, UnflushedIds, AppendIds
       DEF FlushSend, Push, PlacesDistinct, TypeOK
  <2> HIDE DEF x
  <2>1. x \in Places["due"] /\ x \notin Places'["due"]
    BY <2>0 DEF Places
  <2>2. Places'["channel"] \subseteq Places["channel"] \cup {x}
    BY <2>0 DEF Places
  <2>3. \A n \in DOMAIN Places \ {"channel"} : Places'[n] \subseteq Places[n]
    BY <1>24, <2>0 DEF FlushSend, Places
  <2>4. PlacesApart' /\ x \notin Places["channel"]
    BY <2>1, <2>2, <2>3, PlaceNames, MovePlaces
  <2>5. PlacesDistinct'
    BY <1>24, <2>0, <2>4 DEF FlushSend, Places, PlacesDistinct
  <2> QED BY <2>4, <2>5
<1>25. CASE ReadNextScheduled
  BY <1>25, SameApart DEF ReadNextScheduled, placeVars
<1>26. CASE CancelReceive
  <2>1. \A n \in DOMAIN Places : Places'[n] \subseteq Places[n]
    BY <1>26, NothingScheduledIds DEF CancelReceive, DropReceiveFuture, Places
  <2>2. PlacesDistinct'
    BY <1>26, NothingScheduledIds
       DEF CancelReceive, DropReceiveFuture, PlacesDistinct
  <2> QED BY <2>1, <2>2, ShrinkApart
<1>27. CASE DropConsumer
  <2>1. \A n \in DOMAIN Places : Places'[n] \subseteq Places[n]
    BY <1>27, NoIds DEF DropConsumer, Places
  <2>2. PlacesDistinct'
    BY <1>27, NoIds DEF DropConsumer, PlacesDistinct
  <2> QED BY <2>1, <2>2, ShrinkApart
<1>28. ASSUME NEW e \in held, Ack(e)
      PROVE  NoDuplicate'
  <2>1. e.id \in Places["held"] /\ e.id \notin Places'["held"]
    BY <1>28 DEF Ack, Places, PlacesDistinct, IdsInSet, DistinctInSet
  <2>2. Places'["acked"] \subseteq Places["acked"] \cup {e.id}
    BY <1>28 DEF Ack, Places
  <2>3. \A n \in DOMAIN Places \ {"acked"} : Places'[n] \subseteq Places[n]
    BY <1>28 DEF Ack, Places, IdsInSet
  <2>4. PlacesApart' /\ e.id \notin Places["acked"]
    BY <2>1, <2>2, <2>3, PlaceNames, MovePlaces
  <2>5. PlacesDistinct'
    BY <1>28, <2>4 DEF Ack, Places, PlacesDistinct, IdsInSet, DistinctInSet
  <2> QED BY <2>4, <2>5
<1>29. ASSUME NEW e \in held, Nack(e)
      PROVE  NoDuplicate'
  <2>1. e.id \in Places["held"] /\ e.id \notin Places'["held"]
    BY <1>29 DEF Nack, Places, PlacesDistinct, IdsInSet, DistinctInSet
  <2>2. Places'["nacking"] \subseteq Places["nacking"] \cup {e.id}
    BY <1>29 DEF Nack, Places, IdsInSet
  <2>3. \A n \in DOMAIN Places \ {"nacking"} : Places'[n] \subseteq Places[n]
    BY <1>29 DEF Nack, Places, IdsInSet
  <2>4. PlacesApart' /\ e.id \notin Places["nacking"]
    BY <2>1, <2>2, <2>3, PlaceNames, MovePlaces
  <2>5. PlacesDistinct'
    BY <1>29, <2>4 DEF Nack, Places, PlacesDistinct, IdsInSet, DistinctInSet
  <2> QED BY <2>4, <2>5
<1>30. ASSUME NEW e \in held, DropDelivery(e)
      PROVE  NoDuplicate'
  <2>1. \A n \in DOMAIN Places : Places'[n] \subseteq Places[n]
    BY <1>30 DEF DropDelivery, Places, IdsInSet
  <2>2. PlacesDistinct'
    BY <1>30 DEF DropDelivery, PlacesDistinct, DistinctInSet
  <2> QED BY <2>1, <2>2, ShrinkApart
<1>31. ASSUME NEW e \in nacking, NackLock(e)
      PROVE  NoDuplicate'
  <2>1. e.id \in Places["nacking"] /\ e.id \notin Places'["nacking"]
    BY <1>31 DEF NackLock, Places, PlacesDistinct, IdsInSet, DistinctInSet
  <2>2. CASE exhausted' = exhausted \cup {e.id} /\ UNCHANGED requeuing
    <3>1. Places'["exhausted"] \subseteq Places["exhausted"] \cup {e.id}
      BY <1>31, <2>2 DEF NackLock, Places
    <3>2. \A n \in DOMAIN Places \ {"exhausted"} :
             Places'[n] \subseteq Places[n]
      BY <1>31, <2>2 DEF NackLock, Places, IdsInSet
    <3>3. PlacesApart' /\ e.id \notin Places["exhausted"]
      BY <2>1, <3>1, <3>2, PlaceNames, MovePlaces
    <3>4. PlacesDistinct'
      BY <1>31, <2>2, <3>3
         DEF NackLock, Places, PlacesDistinct, IdsInSet, DistinctInSet
    <3> QED BY <3>3, <3>4
  <2>3. CASE requeuing' = requeuing \cup {e} /\ UNCHANGED exhausted
    <3>1. Places'["requeuing"] \subseteq Places["requeuing"] \cup {e.id}
      BY <1>31, <2>3 DEF NackLock, Places, IdsInSet
    <3>2. \A n \in DOMAIN Places \ {"requeuing"} :
             Places'[n] \subseteq Places[n]
      BY <1>31, <2>3 DEF NackLock, Places, IdsInSet
    <3>3. PlacesApart' /\ e.id \notin Places["requeuing"]
      BY <2>1, <3>1, <3>2, PlaceNames, MovePlaces
    <3>4. PlacesDistinct'
      BY <1>31, <2>3, <3>3
         DEF NackLock, Places, PlacesDistinct, IdsInSet, DistinctInSet
    <3> QED BY <3>3, <3>4
  <2> QED BY <1>31, <2>2, <2>3 DEF NackLock
<1>32. ASSUME NEW e \in requeuing, NackRequeue(e)
      PROVE  NoDuplicate'
  <2>0. /\ IdsInSeq(channel') = IdsInSeq(channel) \cup {e.id}
        /\ e.id \notin IdsInSeq(channel) => DistinctInSeq(channel')
    BY <1>32, RedeliveredType, AppendIds
       DEF NackRequeue, Push, PlacesDistinct, TypeOK
  <2>1. e.id \in Places["requeuing"] /\ e.id \notin Places'["requeuing"]
    BY <1>32 DEF NackRequeue, Places, PlacesDistinct, IdsInSet, DistinctInSet
  <2>2. Places'["channel"] \subseteq Places["channel"] \cup {e.id}
    BY <2>0 DEF Places
  <2>3. \A n \in DOMAIN Places \ {"channel"} : Places'[n] \subseteq Places[n]
    BY <1>32 DEF NackRequeue, Places, IdsInSet
  <2>4. PlacesApart' /\ e.id \notin Places["channel"]
    BY <2>1, <2>2, <2>3, PlaceNames, MovePlaces
  <2>5. PlacesDistinct'
    BY <1>32, <2>0, <2>4
       DEF NackRequeue, Places, PlacesDistinct, IdsInSet, DistinctInSet
  <2> QED BY <2>4, <2>5
<1>33. ASSUME NEW e \in requeuing, NackRequeueFails(e)
      PROVE  NoDuplicate'
  <2>1. \A n \in DOMAIN Places : Places'[n] \subseteq Places[n]
    BY <1>33 DEF NackRequeueFails, Places, IdsInSet
  <2>2. PlacesDistinct'
    BY <1>33 DEF NackRequeueFails, PlacesDistinct, DistinctInSet
  <2> QED BY <2>1, <2>2, ShrinkApart
<1>34. ASSUME NEW e \in nacking \cup requeuing, CancelNack(e)
      PROVE  NoDuplicate'
  <2>1. \A n \in DOMAIN Places : Places'[n] \subseteq Places[n]
    BY <1>34 DEF CancelNack, Places, IdsInSet
  <2>2. PlacesDistinct'
    BY <1>34 DEF CancelNack, PlacesDistinct, DistinctInSet
  <2> QED BY <2>1, <2>2, ShrinkApart
<1>35. CASE Shutdown
  BY <1>35, SameApart DEF Shutdown, placeVars
<1>36. CASE Tick
  BY <1>36, SameApart DEF Tick, placeVars
<1> HIDE DEF NoDuplicate
<1>37. CASE ProducerNext
  BY <1>37, <1>2, <1>3, <1>4, <1>5, <1>6, <1>7, <1>8, <1>9 DEF ProducerNext
<1>38. CASE ConsumerNext
  BY <1>38, <1>10, <1>11, <1>12, <1>13, <1>14, <1>15, <1>16, <1>17, <1>18,
     <1>19, <1>20, <1>21, <1>22, <1>23, <1>24, <1>25, <1>26, <1>27
     DEF ConsumerNext, ConsumerStep, StartCall
<1>39. CASE DeliveryNext
  BY <1>39, <1>28, <1>29, <1>30, <1>31, <1>32, <1>33, <1>34 DEF DeliveryNext
<1> QED BY <1>1, <1>35, <1>36, <1>37, <1>38, <1>39 DEF Next


\* A message is never in two places of the system nor twice in one, through
\* every interleaving of sends, flushes, receives, nacks and cancellations: the
\* backend delivers what it redelivers, and no copy of it.
THEOREM NeverDuplicated == Spec => []NoDuplicate
BY TypeCorrect, ApartInit, ApartNext, PTL DEF Spec

-----------------------------------------------------------------------------
(* Room *)

\* The channel has a place for each message, if one of them is elsewhere.
LEMMA RoomWithout ==
    ASSUME TypeOK, NoDuplicate, IsFiniteSet(Messages),
           Cardinality(Messages) <= Capacity,
           NEW m \in Messages, m \notin IdsInSeq(channel)
    PROVE  HasRoom
<1> DEFINE f == [i \in 1 .. Len(channel) |-> channel[i].id]
           Others == Messages \ {m}
<1>1. /\ Len(channel) \in Nat /\ DOMAIN channel = 1 .. Len(channel)
      /\ \A i \in 1 .. Len(channel) : channel[i] \in Envelopes
  BY LenProperties, ElementOfSeq DEF TypeOK
<1>2. \A i \in 1 .. Len(channel) : channel[i].id \in Others
  BY <1>1 DEF Envelopes, IdsInSeq
<1>3. f \in Injection(1 .. Len(channel), Others)
  <2>1. f \in [1 .. Len(channel) -> Others]
    BY <1>2
  <2>2. \A i, j \in 1 .. Len(channel) : f[i] = f[j] => i = j
    BY <1>1 DEF NoDuplicate, PlacesDistinct, DistinctInSeq
  <2> HIDE DEF f
  <2> QED BY <2>1, <2>2 DEF Injection, IsInjective
<1>4. IsFiniteSet(Others) /\ Cardinality(Others) = Cardinality(Messages) - 1
      /\ Cardinality(Messages) \in Nat
  BY FS_RemoveElement, FS_CardinalityType
<1>5. Cardinality(1 .. Len(channel)) = Len(channel)
  BY <1>1, FS_Interval
<1>6. Cardinality(1 .. Len(channel)) <= Cardinality(Others)
  BY <1>3, <1>4, FS_Injection
<1> QED BY <1>1, <1>4, <1>5, <1>6, QueueAssumption DEF HasRoom

\* A channel with a place for every message never makes a send, a nack or the
\* flush wait for room, whatever calls the application makes and cancels.
THEOREM RoomForAll ==
    ASSUME IsFiniteSet(Messages), Cardinality(Messages) <= Capacity
    PROVE  Spec => []NeverBlocked
<1>1. TypeOK /\ NoDuplicate => NeverBlocked
  <2> SUFFICES ASSUME TypeOK, NoDuplicate,
                      sending # {} \/ requeuing # {} \/ Keys(due) # {}
               PROVE  HasRoom
    BY DEF NeverBlocked
  <2>1. /\ Places["sending"] \cap Places["channel"] = {}
        /\ Places["requeuing"] \cap Places["channel"] = {}
        /\ Places["due"] \cap Places["channel"] = {}
    BY PlaceNames DEF NoDuplicate, PlacesApart
  <2>2. /\ {s.env.id : s \in sending} \cap IdsInSeq(channel) = {}
        /\ IdsInSet(requeuing) \cap IdsInSeq(channel) = {}
        /\ IdsInSchedule(due) \cap IdsInSeq(channel) = {}
    BY <2>1 DEF Places
  <2>3. CASE sending # {}
    <3>1. PICK s \in sending : TRUE
      BY <2>3
    <3>2. s.env.id \in Messages /\ s.env.id \notin IdsInSeq(channel)
      BY <2>2 DEF TypeOK, Envelopes
    <3> QED BY <3>2, RoomWithout
  <2>4. CASE requeuing # {}
    <3>1. PICK e \in requeuing : TRUE
      BY <2>4
    <3>2. e.id \in Messages /\ e.id \notin IdsInSeq(channel)
      BY <2>2 DEF TypeOK, Envelopes, IdsInSet
    <3> QED BY <3>2, RoomWithout
  <2>5. CASE Keys(due) # {}
    <3>1. PICK t \in Times : due[t] # <<>>
      BY <2>5 DEF Keys
    <3>2. due[t] \in Seq(Envelopes)
      BY <3>1 DEF TypeOK, Schedules
    <3>3. 1 \in DOMAIN due[t] /\ due[t][1] \in Envelopes
      BY <3>1, <3>2, LenProperties, ElementOfSeq, EmptySeq
    <3>4. due[t][1].id \in IdsInSeq(due[t])
      BY <3>3 DEF IdsInSeq
    <3>5. due[t][1].id \in IdsInSchedule(due)
      BY <3>4 DEF IdsInSchedule
    <3>6. due[t][1].id \in Messages /\ due[t][1].id \notin IdsInSeq(channel)
      BY <2>2, <3>3, <3>5 DEF Envelopes
    <3> QED BY <3>6, RoomWithout
  <2> QED BY <2>3, <2>4, <2>5
<1> QED BY <1>1, TypeCorrect, NeverDuplicated, PTL

-----------------------------------------------------------------------------
(* The counters *)

\* The envelopes in a sequence, a schedule and a set of send futures.
EnvsInSeq(q) == {q[i] : i \in DOMAIN q}
EnvsInSchedule(s) == UNION {EnvsInSeq(s[t]) : t \in Times}
EnvsInSends(S) == {s.env : s \in S}

\* The envelopes that have never been in the channel.
Fresh == EnvsInSends(sending) \cup EnvsInSends(scheduling)
            \cup EnvsInSchedule(scheduled) \cup EnvsInSchedule(due)

UnsentCounts == \A m \in unsent : handed[m] = 0 /\ nack_counts[m] = 0

FreshCounts ==
    \A e \in Fresh : /\ e.delivery_count = 1
                     /\ handed[e.id] = 0 /\ nack_counts[e.id] = 0

ChannelCounts ==
    \A e \in EnvsInSeq(channel) : /\ e.delivery_count = handed[e.id] + 1
                                  /\ e.delivery_count = nack_counts[e.id] + 1
                                  /\ e.delivery_count <= Limit

ReceivedCounts ==
    \A e \in held \cup nacking : /\ e.delivery_count = handed[e.id]
                                 /\ e.delivery_count = nack_counts[e.id] + 1
                                 /\ e.delivery_count <= Limit

RequeuingCounts ==
    \A e \in requeuing : /\ e.delivery_count = handed[e.id]
                         /\ e.delivery_count = nack_counts[e.id]
                         /\ e.delivery_count < MaxAttempts

CountInv ==
    /\ UnsentCounts /\ FreshCounts /\ ChannelCounts
    /\ ReceivedCounts /\ RequeuingCounts
    /\ AttemptsBounded

-----------------------------------------------------------------------------
(* The envelopes in sequences and schedules *)

LEMMA LimitType ==
    /\ MaxAttempts \in 0 .. U32Max /\ Limit \in 1 .. U32Max
    /\ \A n \in Nat : n < MaxAttempts => n + 1 <= Limit
BY EnvelopeAssumption, QueueAssumption DEF MaxAttempts, Limit

LEMMA NoEnvs == EnvsInSeq(<<>>) = {} /\ EnvsInSchedule(NothingScheduled) = {}
BY DEF EnvsInSeq, EnvsInSchedule, NothingScheduled

LEMMA SeqEnvs ==
    ASSUME NEW q \in Seq(Envelopes)
    PROVE  EnvsInSeq(q) \subseteq Envelopes
BY ElementOfSeq, LenProperties DEF EnvsInSeq

LEMMA AppendEnvs ==
    ASSUME NEW q \in Seq(Envelopes), NEW e \in Envelopes
    PROVE  EnvsInSeq(Append(q, e)) = EnvsInSeq(q) \cup {e}
<1> DEFINE r == Append(q, e)
<1>1. /\ Len(q) \in Nat
      /\ DOMAIN q = 1 .. Len(q) /\ DOMAIN r = 1 .. Len(q) + 1
      /\ \A i \in 1 .. Len(q) : r[i] = q[i]
      /\ r[Len(q) + 1] = e
  BY AppendProperties, LenProperties
<1> HIDE DEF r
<1>2. /\ \A i \in DOMAIN r : i \in DOMAIN q \/ i = Len(q) + 1
      /\ DOMAIN q \subseteq DOMAIN r /\ Len(q) + 1 \in DOMAIN r
  BY <1>1
<1> QED BY <1>1, <1>2 DEF EnvsInSeq, r

LEMMA TailEnvs ==
    ASSUME NEW q \in Seq(Envelopes), q # <<>>
    PROVE  /\ Head(q) \in EnvsInSeq(q)
           /\ EnvsInSeq(Tail(q)) \subseteq EnvsInSeq(q)
<1> DEFINE r == Tail(q)
<1>1. /\ Len(q) \in Nat \ {0}
      /\ Head(q) = q[1]
      /\ r \in Seq(Envelopes)
      /\ Len(r) = Len(q) - 1
      /\ \A i \in 1 .. Len(r) : r[i] = q[i + 1]
  BY HeadTailProperties, EmptySeq
<1>2. DOMAIN q = 1 .. Len(q) /\ DOMAIN r = 1 .. Len(q) - 1
  BY <1>1, LenProperties
<1> HIDE DEF r
<1>3. /\ 1 \in DOMAIN q
      /\ \A i \in DOMAIN r : i + 1 \in DOMAIN q /\ r[i] = q[i + 1]
  BY <1>1, <1>2
<1> QED BY <1>1, <1>3 DEF EnvsInSeq, r

LEMMA ScheduleEnvs ==
    ASSUME NEW s \in Schedules, NEW at \in Times, NEW e \in Envelopes
    PROVE  EnvsInSchedule(Schedule(s, at, e)) = EnvsInSchedule(s) \cup {e}
<1> DEFINE r == Schedule(s, at, e)
<1>1. s[at] \in Seq(Envelopes)
  BY DEF Schedules
<1>2. r[at] = Append(s[at], e) /\ \A t \in Times \ {at} : r[t] = s[t]
  BY DEF Schedule, Schedules
<1> HIDE DEF r
<1>3. EnvsInSeq(r[at]) = EnvsInSeq(s[at]) \cup {e}
  BY <1>1, <1>2, AppendEnvs
<1> QED BY <1>2, <1>3 DEF EnvsInSchedule, r

LEMMA SplitEnvs ==
    ASSUME NEW s \in Schedules, NEW t \in Times
    PROVE  /\ EnvsInSchedule(DueBy(s, t)) \subseteq EnvsInSchedule(s)
           /\ EnvsInSchedule(NotDueBy(s, t)) \subseteq EnvsInSchedule(s)
<1>1. \A u \in Times : /\ DueBy(s, t)[u] \in {s[u], <<>>}
                       /\ NotDueBy(s, t)[u] \in {s[u], <<>>}
  BY DEF DueBy, NotDueBy
<1> QED BY <1>1, NoEnvs DEF EnvsInSchedule

LEMMA UnflushedEnvs ==
    ASSUME NEW d \in Schedules, Keys(d) # {}
    PROVE  /\ Head(d[FirstKey(d)]) \in EnvsInSchedule(d)
           /\ EnvsInSchedule(Unflushed(d)) \subseteq EnvsInSchedule(d)
<1> DEFINE k == FirstKey(d)
           r == Unflushed(d)
<1>1. k \in Times /\ d[k] \in Seq(Envelopes) /\ d[k] # <<>>
  BY UnflushedType
<1>2. r[k] = Tail(d[k]) /\ \A t \in Times \ {k} : r[t] = d[t]
  BY <1>1 DEF Unflushed, Schedules
<1>3. /\ Head(d[k]) \in EnvsInSeq(d[k])
      /\ EnvsInSeq(Tail(d[k])) \subseteq EnvsInSeq(d[k])
  BY <1>1, TailEnvs
<1> HIDE DEF k, r
<1>4. Head(d[k]) \in EnvsInSchedule(d)
  BY <1>1, <1>3 DEF EnvsInSchedule
<1>5. \A t \in Times : EnvsInSeq(r[t]) \subseteq EnvsInSeq(d[t])
  BY <1>2, <1>3
<1>6. EnvsInSchedule(r) \subseteq EnvsInSchedule(d)
  BY <1>5 DEF EnvsInSchedule
<1> QED BY <1>4, <1>6 DEF k, r

\* The envelopes of a place have the ids of the place.
LEMMA EnvIds ==
    /\ Places["unsent"] = unsent
    /\ \A e \in EnvsInSends(sending) : e.id \in Places["sending"]
    /\ \A e \in EnvsInSends(scheduling) : e.id \in Places["scheduling"]
    /\ \A e \in EnvsInSchedule(scheduled) : e.id \in Places["scheduled"]
    /\ \A e \in EnvsInSchedule(due) : e.id \in Places["due"]
    /\ \A e \in EnvsInSeq(channel) : e.id \in Places["channel"]
    /\ \A e \in held : e.id \in Places["held"]
    /\ \A e \in nacking : e.id \in Places["nacking"]
    /\ \A e \in requeuing : e.id \in Places["requeuing"]
BY DEF EnvsInSends, EnvsInSchedule, EnvsInSeq, Places, IdsInSchedule, IdsInSeq,
       IdsInSet

-----------------------------------------------------------------------------
(* The kinds of step *)

\* Every envelope in the system is one.
LEMMA EnvTypes ==
    ASSUME TypeOK
    PROVE  /\ Fresh \subseteq Envelopes
           /\ EnvsInSeq(channel) \subseteq Envelopes
           /\ held \cup nacking \cup requeuing \subseteq Envelopes
           /\ \A e \in Envelopes : /\ e.id \in Messages
                                   /\ e.delivery_count \in 0 .. U32Max
                                   /\ handed[e.id] \in Nat
                                   /\ nack_counts[e.id] \in 0 .. U32Max
<1>1. EnvsInSends(sending) \cup EnvsInSends(scheduling) \subseteq Envelopes
  BY DEF EnvsInSends, TypeOK
<1>2. \A t \in Times : /\ EnvsInSeq(scheduled[t]) \subseteq Envelopes
                       /\ EnvsInSeq(due[t]) \subseteq Envelopes
  BY SeqEnvs DEF TypeOK, Schedules
<1>3. EnvsInSchedule(scheduled) \cup EnvsInSchedule(due) \subseteq Envelopes
  BY <1>2 DEF EnvsInSchedule
<1>4. EnvsInSeq(channel) \subseteq Envelopes
  BY SeqEnvs DEF TypeOK
<1>5. \A e \in Envelopes :
         e.id \in Messages /\ e.delivery_count \in 0 .. U32Max
  BY DEF Envelopes
<1> QED BY <1>1, <1>3, <1>4, <1>5 DEF Fresh, TypeOK

\* A step that counts nothing moves envelopes the way the handlers do: a new
\* one to the futures and the map, a fresh or redelivered one to the channel,
\* a held one to its nack.
LEMMA CountMove ==
    ASSUME TypeOK, CountInv,
           UNCHANGED <<handed, nack_counts>>,
           unsent' \subseteq unsent,
           Fresh' \subseteq Fresh \cup {NewEnvelope(m) : m \in unsent},
           EnvsInSeq(channel') \subseteq EnvsInSeq(channel) \cup Fresh
                                  \cup {Redelivered(e) : e \in requeuing},
           held' \cup nacking' \subseteq held \cup nacking,
           requeuing' \subseteq requeuing
    PROVE  CountInv'
<1>1. UnsentCounts'
  BY DEF CountInv, UnsentCounts
<1>2. FreshCounts'
  <2>1. \A m \in unsent : LET e == NewEnvelope(m) IN
           e.delivery_count = 1 /\ handed[e.id] = 0 /\ nack_counts[e.id] = 0
    BY DEF NewEnvelope, CountInv, UnsentCounts
  <2> QED BY <2>1 DEF CountInv, FreshCounts
<1>3. ChannelCounts'
  <2> SUFFICES ASSUME NEW e \in EnvsInSeq(channel')
               PROVE  /\ e.delivery_count = handed[e.id] + 1
                      /\ e.delivery_count = nack_counts[e.id] + 1
                      /\ e.delivery_count <= Limit
    BY DEF ChannelCounts
  <2>1. CASE e \in EnvsInSeq(channel)
    BY <2>1 DEF CountInv, ChannelCounts
  <2>2. CASE e \in Fresh
    BY <2>2, LimitType DEF CountInv, FreshCounts
  <2>3. CASE \E f \in requeuing : e = Redelivered(f)
    <3>1. PICK f \in requeuing : e = Redelivered(f)
      BY <2>3
    <3>2. /\ f \in Envelopes /\ f.delivery_count \in 0 .. U32Max
          /\ f.delivery_count = handed[f.id]
          /\ f.delivery_count = nack_counts[f.id]
          /\ f.delivery_count < MaxAttempts
      BY EnvTypes DEF CountInv, RequeuingCounts
    <3>3. Increment(f.delivery_count) = f.delivery_count + 1
      BY <3>2, LimitType, IncrementType, EnvelopeAssumption
    <3>4. e.id = f.id /\ e.delivery_count = f.delivery_count + 1
      BY <3>1, <3>2, <3>3, RedeliveredType
    <3>5. f.delivery_count \in Nat /\ f.delivery_count + 1 <= Limit
      BY <3>2, LimitType
    <3> QED BY <3>2, <3>4, <3>5
  <2> QED BY <2>1, <2>2, <2>3
<1>4. ReceivedCounts' /\ RequeuingCounts'
  BY DEF CountInv, ReceivedCounts, RequeuingCounts
<1>5. AttemptsBounded'
  BY DEF CountInv, AttemptsBounded
<1> QED BY <1>1, <1>2, <1>3, <1>4, <1>5 DEF CountInv

\* A step that touches no envelope and no counter.
LEMMA CountSame ==
    ASSUME TypeOK, CountInv, UNCHANGED <<placeVars, handed, nack_counts>>
    PROVE  CountInv'
BY CountMove DEF placeVars, Fresh

\* A receive counts the delivery of the message it takes from the channel.
LEMMA DeliverCounts ==
    ASSUME TypeOK, NoDuplicate, CountInv, channel # <<>>, Deliver,
           UNCHANGED <<unsent, sending, scheduling, scheduled, due, nacking,
                       requeuing, nack_counts>>
    PROVE  CountInv'
<1> DEFINE e == Head(channel)
<1>1. /\ e \in EnvsInSeq(channel)
      /\ EnvsInSeq(channel') \subseteq EnvsInSeq(channel)
      /\ \A f \in EnvsInSeq(channel') : f.id # e.id
  <2>1. e.id \notin IdsInSeq(channel')
    BY TailIds DEF Deliver, TypeOK, NoDuplicate, PlacesDistinct
  <2> QED BY <2>1, TailEnvs DEF Deliver, TypeOK, EnvsInSeq, IdsInSeq
<1>2. held' = held \cup {e} /\ handed' = [handed EXCEPT ![e.id] = @ + 1]
  BY DEF Deliver
<1> HIDE DEF e
<1>3. e.id \in Places["channel"]
  BY <1>1, EnvIds
<1>4. \A n \in DOMAIN Places \ {"channel"} : e.id \notin Places[n]
  BY <1>3, PlaceNames DEF NoDuplicate, PlacesApart
<1>5. /\ e.id \notin unsent
      /\ \A f \in Fresh \cup held \cup nacking \cup requeuing : f.id # e.id
  <2>1. e.id \notin unsent
    BY <1>4, EnvIds, PlaceNames
  <2>2. \A f \in held \cup nacking \cup requeuing : f.id # e.id
    BY <1>4, EnvIds, PlaceNames
  <2>3. \A f \in Fresh : f.id # e.id
    BY <1>4, EnvIds, PlaceNames DEF Fresh
  <2> QED BY <2>1, <2>2, <2>3
<1>6. /\ e.id \in Messages /\ e.delivery_count \in 0 .. U32Max
      /\ handed[e.id] \in Nat /\ handed'[e.id] = handed[e.id] + 1
      /\ \A m \in Messages \ {e.id} : handed'[m] = handed[m]
      /\ \A f \in Envelopes : f.id \in Messages
  BY <1>1, <1>2, EnvTypes DEF TypeOK
<1>7. UnsentCounts'
  BY <1>5, <1>6 DEF TypeOK, CountInv, UnsentCounts
<1>8. FreshCounts'
  <2>1. Fresh' = Fresh
    BY DEF Fresh
  <2> QED BY <2>1, <1>5, <1>6, EnvTypes DEF CountInv, FreshCounts
<1>9. ChannelCounts'
  BY <1>1, <1>6, EnvTypes DEF CountInv, ChannelCounts
<1>10. ReceivedCounts'
  <2>1. /\ e.delivery_count = handed'[e.id]
        /\ e.delivery_count = nack_counts[e.id] + 1
        /\ e.delivery_count <= Limit
    BY <1>1, <1>6 DEF CountInv, ChannelCounts
  <2> QED BY <2>1, <1>2, <1>5, <1>6, EnvTypes DEF CountInv, ReceivedCounts
<1>11. RequeuingCounts'
  BY <1>5, <1>6, EnvTypes DEF CountInv, RequeuingCounts
<1>12. AttemptsBounded'
  <2>1. handed'[e.id] <= Limit
    BY <1>1, <1>6, LimitType DEF CountInv, ChannelCounts
  <2> QED BY <2>1, <1>6 DEF CountInv, AttemptsBounded, Limit
<1> QED BY <1>7, <1>8, <1>9, <1>10, <1>11, <1>12 DEF CountInv

\* A nack counts the attempt of the message it gives up or requeues.
LEMMA NackCounts ==
    ASSUME TypeOK, NoDuplicate, CountInv, NEW e \in nacking, NackLock(e)
    PROVE  CountInv'
<1>1. /\ UNCHANGED <<unsent, sending, scheduling, scheduled, due, channel,
                     held, handed>>
      /\ nacking' = nacking \ {e}
      /\ nack_counts' = [nack_counts EXCEPT ![e.id] = Increment(@)]
  BY DEF NackLock, channelVars, producerVars, consumerVars
<1>2. e.id \in Places["nacking"]
  BY EnvIds
<1>3. \A n \in DOMAIN Places \ {"nacking"} : e.id \notin Places[n]
  BY <1>2, PlaceNames DEF NoDuplicate, PlacesApart
<1>4. /\ e.id \notin unsent
      /\ \A f \in Fresh \cup EnvsInSeq(channel) \cup held \cup nacking'
                     \cup requeuing : f.id # e.id
  <2>1. e.id \notin unsent
    BY <1>3, EnvIds, PlaceNames
  <2>2. \A f \in held \cup requeuing \cup EnvsInSeq(channel) : f.id # e.id
    BY <1>3, EnvIds, PlaceNames
  <2>3. \A f \in Fresh : f.id # e.id
    BY <1>3, EnvIds, PlaceNames DEF Fresh
  <2>4. \A f \in nacking' : f.id # e.id
    BY <1>1 DEF NoDuplicate, PlacesDistinct, DistinctInSet
  <2> QED BY <2>1, <2>2, <2>3, <2>4
<1>5. /\ e \in Envelopes /\ e.id \in Messages
      /\ e.delivery_count \in 0 .. U32Max
      /\ nack_counts[e.id] \in 0 .. U32Max
      /\ \A m \in Messages \ {e.id} : nack_counts'[m] = nack_counts[m]
  BY <1>1, EnvTypes DEF TypeOK
<1>6. /\ e.delivery_count = handed[e.id]
      /\ e.delivery_count = nack_counts[e.id] + 1
      /\ e.delivery_count <= Limit
  BY DEF CountInv, ReceivedCounts
<1>7. nack_counts'[e.id] = e.delivery_count
  <2>1. Increment(nack_counts[e.id]) = nack_counts[e.id] + 1
    BY <1>5, <1>6, IncrementType, EnvelopeAssumption
  <2> QED BY <2>1, <1>1, <1>5, <1>6 DEF TypeOK
<1>8. UnsentCounts'
  BY <1>1, <1>4, <1>5 DEF TypeOK, CountInv, UnsentCounts
<1>9. FreshCounts'
  <2>1. Fresh' = Fresh
    BY <1>1 DEF Fresh
  <2> QED BY <2>1, <1>1, <1>4, <1>5, EnvTypes DEF CountInv, FreshCounts
<1>10. ChannelCounts'
  BY <1>1, <1>4, <1>5, EnvTypes DEF CountInv, ChannelCounts
<1>11. ReceivedCounts'
  BY <1>1, <1>4, <1>5, EnvTypes DEF CountInv, ReceivedCounts
<1>12. RequeuingCounts'
  <2>1. \A f \in requeuing : /\ f.delivery_count = handed[f.id]
                             /\ f.delivery_count = nack_counts'[f.id]
                             /\ f.delivery_count < MaxAttempts
    BY <1>4, <1>5, EnvTypes DEF CountInv, RequeuingCounts
  <2>2. CASE requeuing' = requeuing
    BY <2>1, <2>2, <1>1 DEF RequeuingCounts
  <2>3. CASE /\ ~AttemptsExhausted(nack_counts'[e.id])
             /\ requeuing' = requeuing \cup {e}
    <3>1. e.delivery_count < MaxAttempts
      BY <2>3, <1>5, <1>7, LimitType DEF AttemptsExhausted
    <3> QED BY <2>1, <2>3, <3>1, <1>1, <1>6, <1>7 DEF RequeuingCounts
  <2> QED BY <2>2, <2>3 DEF NackLock
<1>13. AttemptsBounded'
  BY <1>1 DEF CountInv, AttemptsBounded
<1> QED BY <1>8, <1>9, <1>10, <1>11, <1>12, <1>13 DEF CountInv

-----------------------------------------------------------------------------
(* The invariant *)

LEMMA CountInit == Init => CountInv
<1> SUFFICES ASSUME Init PROVE CountInv
  OBVIOUS
<1>1. /\ Fresh = {} /\ EnvsInSeq(channel) = {}
      /\ held \cup nacking \cup requeuing = {}
  BY NoEnvs DEF Init, Fresh, EnvsInSends
<1>2. AttemptsBounded
  BY LimitType DEF Init, AttemptsBounded, Limit
<1> QED BY <1>1, <1>2
        DEF Init, CountInv, UnsentCounts, FreshCounts, ChannelCounts,
            ReceivedCounts, RequeuingCounts

\* Only a receive and a nack count anything.
LEMMA CountNext ==
    TypeOK /\ NoDuplicate /\ CountInv /\ [Next]_vars => CountInv'
<1> SUFFICES ASSUME TypeOK, NoDuplicate, CountInv, [Next]_vars PROVE CountInv'
  OBVIOUS
<1> USE DEF channelVars, sharedVars, producerVars, consumerVars, deliveryVars,
            environmentVars, historyVars
<1>1. CASE UNCHANGED vars
  BY <1>1, CountSame DEF vars, placeVars
<1>2. ASSUME NEW p \in Producers, NEW q \in Producers, CloneProducer(p, q)
      PROVE  CountInv'
  BY <1>2, CountSame DEF CloneProducer, placeVars
<1>3. ASSUME NEW p \in Producers, DropProducer(p)
      PROVE  CountInv'
  BY <1>3, CountSame DEF DropProducer, placeVars
<1>4. ASSUME NEW p \in Producers, NEW m \in Messages, Send(p, m)
      PROVE  CountInv'
  BY <1>4, CountMove DEF Send, EnvsInSends, Fresh
<1>5. ASSUME NEW p \in Producers, NEW m \in Messages, NEW at \in Times,
             SendAt(p, m, at)
      PROVE  CountInv'
  BY <1>5, CountMove DEF SendAt, EnvsInSends, Fresh
<1>6. ASSUME NEW s \in sending, SendCompletes(s)
      PROVE  CountInv'
  <2>1. EnvsInSeq(channel') = EnvsInSeq(channel) \cup {s.env}
    BY <1>6, AppendEnvs DEF SendCompletes, Push, TypeOK
  <2> QED BY <1>6, <2>1, CountMove DEF SendCompletes, EnvsInSends, Fresh
<1>7. ASSUME NEW s \in sending, SendFails(s)
      PROVE  CountInv'
  BY <1>7, CountMove DEF SendFails, EnvsInSends, Fresh
<1>8. ASSUME NEW s \in scheduling, SendAtCompletes(s)
      PROVE  CountInv'
  <2>1. EnvsInSchedule(scheduled') = EnvsInSchedule(scheduled) \cup {s.env}
    BY <1>8, ScheduleEnvs DEF SendAtCompletes, TypeOK
  <2> QED BY <1>8, <2>1, CountMove DEF SendAtCompletes, EnvsInSends, Fresh
<1>9. ASSUME NEW s \in sending \cup scheduling, CancelSend(s)
      PROVE  CountInv'
  BY <1>9, CountMove DEF CancelSend, EnvsInSends, Fresh
<1>10. CASE CallReceive
  BY <1>10, CountSame DEF CallReceive, Start, Enter, placeVars
<1>11. CASE CallTryReceive
  BY <1>11, CountSame DEF CallTryReceive, Start, Enter, placeVars
<1>12. CASE CallReceiveGraceful
  BY <1>12, CountSame DEF CallReceiveGraceful, Start, Enter, Return, placeVars
<1>13. CASE PollReceive
  BY <1>13, CountSame DEF PollReceive, Enter, placeVars
<1>14. CASE StopGraceful
  BY <1>14, NoEnvs, CountMove DEF StopGraceful, DropReceiveFuture, Fresh
<1>15. CASE CheckShutdown
  BY <1>15, CountSame DEF CheckShutdown, Enter, Return, placeVars
<1>16. CASE FlushDone
  BY <1>16, CountSame DEF FlushDone, placeVars
<1>17. CASE TryRecv
  <2>1. CASE channel # <<>> /\ Deliver
    BY <1>17, <2>1, DeliverCounts DEF TryRecv
  <2>2. CASE channel = <<>>
    BY <1>17, <2>2, CountSame DEF TryRecv, Enter, Return, placeVars
  <2> QED BY <1>17, <2>1, <2>2 DEF TryRecv
<1>18. CASE PollRecv
  <2>1. CASE channel # <<>> /\ Deliver
    BY <1>18, <2>1, DeliverCounts DEF PollRecv
  <2>2. CASE channel = <<>>
    BY <1>18, <2>2, CountSame DEF PollRecv, Enter, placeVars
  <2> QED BY <1>18, <2>1, <2>2 DEF PollRecv
<1>19. CASE TimerElapsed
  BY <1>19, CountSame DEF TimerElapsed, placeVars
<1>20. CASE TimerPending
  BY <1>20, CountSame DEF TimerPending, Enter, placeVars
<1>21. CASE PollLiveness
  BY <1>21, CountSame DEF PollLiveness, Enter, Return, placeVars
<1>22. CASE Wake
  BY <1>22, CountSame DEF Wake, Enter, placeVars
<1>23. CASE FlushLock
  <2>1. /\ EnvsInSchedule(due') \subseteq EnvsInSchedule(scheduled)
        /\ EnvsInSchedule(scheduled') \subseteq EnvsInSchedule(scheduled)
    BY <1>23, SplitEnvs DEF FlushLock, TypeOK
  <2> QED BY <1>23, <2>1, CountMove DEF FlushLock, Fresh
<1>24. CASE FlushSend
  <2> DEFINE e == Head(due[FirstKey(due)])
  <2>1. /\ e \in EnvsInSchedule(due)
        /\ EnvsInSchedule(due') \subseteq EnvsInSchedule(due)
        /\ EnvsInSeq(channel') = EnvsInSeq(channel) \cup {e}
    BY <1>24, UnflushedType, UnflushedEnvs, AppendEnvs
       DEF FlushSend, Push, TypeOK
  <2> HIDE DEF e
  <2> QED BY <1>24, <2>1, CountMove DEF FlushSend, Fresh
<1>25. CASE ReadNextScheduled
  BY <1>25, CountSame DEF ReadNextScheduled, placeVars
<1>26. CASE CancelReceive
  BY <1>26, NoEnvs, CountMove DEF CancelReceive, DropReceiveFuture, Fresh
<1>27. CASE DropConsumer
  BY <1>27, NoEnvs, CountMove DEF DropConsumer, Fresh
<1>28. ASSUME NEW e \in held, Ack(e)
       PROVE  CountInv'
  BY <1>28, CountMove DEF Ack, Fresh
<1>29. ASSUME NEW e \in held, Nack(e)
       PROVE  CountInv'
  BY <1>29, CountMove DEF Nack, Fresh
<1>30. ASSUME NEW e \in held, DropDelivery(e)
       PROVE  CountInv'
  BY <1>30, CountMove DEF DropDelivery, Fresh
<1>31. ASSUME NEW e \in nacking, NackLock(e)
       PROVE  CountInv'
  BY <1>31, NackCounts
<1>32. ASSUME NEW e \in requeuing, NackRequeue(e)
       PROVE  CountInv'
  <2>1. EnvsInSeq(channel') = EnvsInSeq(channel) \cup {Redelivered(e)}
    BY <1>32, RedeliveredType, AppendEnvs DEF NackRequeue, Push, TypeOK
  <2> QED BY <1>32, <2>1, CountMove DEF NackRequeue, Fresh
<1>33. ASSUME NEW e \in requeuing, NackRequeueFails(e)
       PROVE  CountInv'
  BY <1>33, CountMove DEF NackRequeueFails, Fresh
<1>34. ASSUME NEW e \in nacking \cup requeuing, CancelNack(e)
       PROVE  CountInv'
  BY <1>34, CountMove DEF CancelNack, Fresh
<1>35. CASE Shutdown
  BY <1>35, CountSame DEF Shutdown, placeVars
<1>36. CASE Tick
  BY <1>36, CountSame DEF Tick, placeVars
<1>37. CASE ProducerNext
  BY <1>37, <1>2, <1>3, <1>4, <1>5, <1>6, <1>7, <1>8, <1>9 DEF ProducerNext
<1>38. CASE ConsumerNext
  BY <1>38, <1>10, <1>11, <1>12, <1>13, <1>14, <1>15, <1>16, <1>17, <1>18,
     <1>19, <1>20, <1>21, <1>22, <1>23, <1>24, <1>25, <1>26, <1>27
     DEF ConsumerNext, ConsumerStep, StartCall
<1>39. CASE DeliveryNext
  BY <1>39, <1>28, <1>29, <1>30, <1>31, <1>32, <1>33, <1>34 DEF DeliveryNext
<1> QED BY <1>1, <1>35, <1>36, <1>37, <1>38, <1>39 DEF Next


\* CountInv is an invariant of every behaviour.
THEOREM Counted == Spec => []CountInv
BY TypeCorrect, NeverDuplicated, CountInit, CountNext, PTL DEF Spec

LEMMA CountHonest == CountInv => DeliveryCountHonest
BY DEF CountInv, ChannelCounts, ReceivedCounts, RequeuingCounts, EnvsInSeq,
       DeliveryCountHonest

\* The delivery_count of every delivery and every envelope in the channel is
\* the number of times the message has been received, and agrees with the nack
\* count that SharedState keeps: no interleaving makes one forget an attempt.
THEOREM CountsHonest == Spec => []DeliveryCountHonest
BY Counted, CountHonest, PTL

\* No message is received more often than the receive limit, whatever the
\* interleaving of nacks and receives and however many messages there are.
THEOREM AttemptsWithinLimit == Spec => []AttemptsBounded
<1>1. CountInv => AttemptsBounded
  BY DEF CountInv
<1> QED BY Counted, <1>1, PTL
-----------------------------------------------------------------------------
(* What the counters say of the messages that are done with *)

accountVars == <<handed, nack_counts, acked, exhausted>>

LEMMA AccountInit == Init => AttemptsAccounted
BY LimitType DEF Init, AttemptsAccounted

\* The steps that touch the counters or settle a message.
LEMMA AccountSteps ==
    [Next]_vars => \/ UNCHANGED accountVars
                   \/ channel # <<>> /\ Deliver
                         /\ UNCHANGED <<nack_counts, acked, exhausted>>
                   \/ \E e \in held : Ack(e)
                   \/ \E e \in nacking : NackLock(e)
<1> SUFFICES ASSUME [Next]_vars, ~UNCHANGED accountVars
             PROVE  \/ channel # <<>> /\ Deliver
                          /\ UNCHANGED <<nack_counts, acked, exhausted>>
                    \/ \E e \in held : Ack(e)
                    \/ \E e \in nacking : NackLock(e)
  OBVIOUS
<1> USE DEF accountVars, channelVars, sharedVars, producerVars, consumerVars,
            deliveryVars, environmentVars, historyVars
<1>1. ~UNCHANGED vars
  BY DEF vars
<1>2. ~ProducerNext
  BY DEF ProducerNext, CloneProducer, DropProducer, Send, SendCompletes,
         SendFails, SendAt, SendAtCompletes, CancelSend
<1>3. ~StartCall
  BY DEF StartCall, CallReceive, CallTryReceive, CallReceiveGraceful, Start
<1>4. CASE ConsumerStep
  BY <1>4 DEF ConsumerStep, PollReceive, StopGraceful, DropReceiveFuture,
              CheckShutdown, FlushDone, TryRecv, PollRecv, TimerElapsed,
              TimerPending, PollLiveness, Wake
<1>5. ~(FlushLock \/ FlushSend \/ ReadNextScheduled \/ CancelReceive
         \/ DropConsumer)
  BY DEF FlushLock, FlushSend, ReadNextScheduled, CancelReceive,
         DropReceiveFuture, DropConsumer
<1>6. CASE DeliveryNext
  BY <1>6 DEF DeliveryNext, Nack, DropDelivery, NackRequeue,
              NackRequeueFails, CancelNack
<1>7. ~(Shutdown \/ Tick)
  BY DEF Shutdown, Tick
<1> QED BY <1>1, <1>2, <1>3, <1>4, <1>5, <1>6, <1>7 DEF Next, ConsumerNext

LEMMA AccountNext ==
    TypeOK /\ NoDuplicate /\ CountInv /\ AttemptsAccounted /\ [Next]_vars
       => AttemptsAccounted'
<1> SUFFICES ASSUME TypeOK, NoDuplicate, CountInv, AttemptsAccounted,
                    [Next]_vars
             PROVE  AttemptsAccounted'
  OBVIOUS
<1>1. CASE UNCHANGED accountVars
  BY <1>1 DEF accountVars, AttemptsAccounted
<1>2. CASE /\ channel # <<>> /\ Deliver
           /\ UNCHANGED <<nack_counts, acked, exhausted>>
  <2> DEFINE h == Head(channel)
  <2>1. h.id \in Places["channel"]
    BY <1>2, TailEnvs, EnvIds DEF TypeOK
  <2>2. h.id \notin acked /\ h.id \notin exhausted
    BY <2>1, PlaceNames DEF NoDuplicate, PlacesApart, Places
  <2>3. \A m \in Messages \ {h.id} : handed'[m] = handed[m]
    BY <1>2 DEF Deliver, TypeOK
  <2> HIDE DEF h
  <2> QED BY <1>2, <2>2, <2>3 DEF AttemptsAccounted
<1>3. ASSUME NEW e \in held, Ack(e)
      PROVE  AttemptsAccounted'
  <2>1. handed[e.id] = nack_counts[e.id] + 1
    BY DEF CountInv, ReceivedCounts
  <2>2. /\ acked' = acked \cup {e.id}
        /\ UNCHANGED <<handed, nack_counts, exhausted>>
    BY <1>3 DEF Ack, sharedVars
  <2> QED BY <2>1, <2>2 DEF AttemptsAccounted
<1>4. ASSUME NEW e \in nacking, NackLock(e)
      PROVE  AttemptsAccounted'
  <2>1. /\ UNCHANGED <<handed, acked>>
        /\ nack_counts' = [nack_counts EXCEPT ![e.id] = Increment(@)]
    BY <1>4 DEF NackLock
  <2>2. e.id \in Places["nacking"]
    BY EnvIds
  <2>3. e.id \notin acked
    BY <2>2, PlaceNames DEF NoDuplicate, PlacesApart, Places
  <2>4. /\ e.id \in Messages
        /\ e.delivery_count \in 0 .. U32Max
        /\ nack_counts[e.id] \in 0 .. U32Max
        /\ handed[e.id] = e.delivery_count
        /\ e.delivery_count = nack_counts[e.id] + 1
        /\ e.delivery_count <= Limit
    BY EnvTypes DEF CountInv, ReceivedCounts
  <2>5. /\ nack_counts'[e.id] = e.delivery_count
        /\ \A m \in Messages \ {e.id} : nack_counts'[m] = nack_counts[m]
    <3>1. Increment(nack_counts[e.id]) = nack_counts[e.id] + 1
      BY <2>4, IncrementType, EnvelopeAssumption
    <3>2. nack_counts \in [Messages -> 0 .. U32Max]
      BY DEF TypeOK
    <3> QED BY <2>1, <2>4, <3>1, <3>2
  <2>6. CASE /\ AttemptsExhausted(nack_counts'[e.id])
             /\ exhausted' = exhausted \cup {e.id}
    <3>1. e.delivery_count = Limit
      BY <2>4, <2>5, <2>6, LimitType, EnvelopeAssumption
         DEF AttemptsExhausted, Limit
    <3> QED BY <2>1, <2>3, <2>4, <2>5, <2>6, <3>1 DEF AttemptsAccounted
  <2>7. CASE /\ ~AttemptsExhausted(nack_counts'[e.id])
             /\ exhausted' = exhausted
    <3>1. e.delivery_count < Limit
      BY <2>4, <2>5, <2>7, LimitType, EnvelopeAssumption
         DEF AttemptsExhausted, Limit
    <3>2. e.id \notin exhausted
      BY <2>2, PlaceNames DEF NoDuplicate, PlacesApart, Places
    <3> QED BY <2>1, <2>3, <2>4, <2>5, <2>7, <3>1, <3>2 DEF AttemptsAccounted
  <2> QED BY <1>4, <2>6, <2>7 DEF NackLock
<1> QED BY <1>1, <1>2, <1>3, <1>4, AccountSteps

\* Of an ack'd message every attempt but the last was nack'd, and a message is
\* given up by the nack of its last attempt, whatever the limit and however
\* many messages leave an entry in nack_counts.
THEOREM AttemptsAccountedFor == Spec => []AttemptsAccounted
BY TypeCorrect, NeverDuplicated, Counted, AccountInit, AccountNext, PTL
   DEF Spec

=============================================================================
