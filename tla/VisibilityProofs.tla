-------------------------- MODULE VisibilityProofs --------------------------
(***************************************************************************)
(* MemoryQueue makes no scheduled message visible before its time, and     *)
(* flushes what is due in the order of its deadlines.  The key of the map  *)
(* a message sits under is its delivery_at; what the flush takes out is    *)
(* due by now; and while the flush holds the mutex no send_at can complete *)
(* and slip a message into the map that is due before what it flushes.     *)
(***************************************************************************)
EXTENDS PlacesProofs

\* The ids that are or were visible, as far as the backend still has them.
Visible == IdsInSeq(channel) \cup IdsInSet(held) \cup IdsInSet(nacking)
              \cup IdsInSet(requeuing)

\* The ids that no send_at has been called for.
Undated == unsent \cup {s.env.id : s \in sending}

\* The map keeps a message under its delivery_at...
KeyIsDeadline ==
    \A t \in Times : \A m \in IdsInSeq(scheduled[t]) : visible_at[m] = t

\* ...the flush takes only what is due...
DueIsPast ==
    \A t \in Times : \A m \in IdsInSeq(due[t]) :
        visible_at[m] = t /\ t <= now

\* ...and leaves nothing in the map that is due before it.
DueFirst == \A t \in Keys(due), u \in Keys(scheduled) : t <= u

VisibilityInv ==
    /\ KeyIsDeadline /\ DueIsPast /\ DueFirst
    /\ \A m \in Undated : visible_at[m] = 0
    /\ \A m \in Visible : visible_at[m] <= now
    /\ \A m \in Messages : handed[m] > 0 => visible_at[m] <= now

-----------------------------------------------------------------------------
(* The map, key by key *)

LEMMA KeyIds ==
    ASSUME NEW s \in Schedules, NEW t \in Times
    PROVE  t \in Keys(s) <=> IdsInSeq(s[t]) # {}
<1>1. s[t] \in Seq(Envelopes)
  BY DEF Schedules
<1>2. CASE s[t] = <<>>
  BY <1>2, NoIds DEF Keys
<1>3. CASE s[t] # <<>>
  BY <1>1, <1>3, TailIds DEF Keys
<1> QED BY <1>2, <1>3

LEMMA NoKeyIds ==
    /\ \A t \in Times : IdsInSeq(NothingScheduled[t]) = {}
    /\ Keys(NothingScheduled) = {}
BY NoIds DEF NothingScheduled, Keys

LEMMA ScheduleKeys ==
    ASSUME NEW s \in Schedules, NEW at \in Times, NEW e \in Envelopes
    PROVE  /\ IdsInSeq(Schedule(s, at, e)[at]) = IdsInSeq(s[at]) \cup {e.id}
           /\ \A t \in Times \ {at} : Schedule(s, at, e)[t] = s[t]
<1>1. s[at] \in Seq(Envelopes)
  BY DEF Schedules
<1> QED BY <1>1, AppendIds DEF Schedule, Schedules

LEMMA UnflushedKeys ==
    ASSUME NEW d \in Schedules, Keys(d) # {}
    PROVE  /\ Head(d[FirstKey(d)]).id \in IdsInSeq(d[FirstKey(d)])
           /\ \A t \in Times :
                 IdsInSeq(Unflushed(d)[t]) \subseteq IdsInSeq(d[t])
<1> DEFINE k == FirstKey(d)
           r == Unflushed(d)
<1>1. k \in Times /\ d[k] \in Seq(Envelopes) /\ d[k] # <<>>
  BY UnflushedType
<1>2. r[k] = Tail(d[k]) /\ \A t \in Times \ {k} : r[t] = d[t]
  BY <1>1 DEF Unflushed, Schedules
<1>3. IdsInSeq(d[k]) = IdsInSeq(Tail(d[k])) \cup {Head(d[k]).id}
  BY <1>1, TailIds
<1> HIDE DEF k, r
<1>4. \A t \in Times : IdsInSeq(r[t]) \subseteq IdsInSeq(d[t])
  BY <1>2, <1>3
<1> QED BY <1>3, <1>4 DEF k, r

-----------------------------------------------------------------------------
(* The kinds of step *)

\* A step that dates and delivers nothing: ids leave the map and the unsent
\* ones, and become visible from there or from the due ones.
LEMMA VisibilityMove ==
    ASSUME TypeOK, TypeOK', VisibilityInv,
           UNCHANGED <<handed, visible_at>>, now <= now',
           Undated' \subseteq Undated,
           Visible' \subseteq Visible \cup Undated \cup IdsInSchedule(due),
           \A t \in Times :
              /\ IdsInSeq(scheduled'[t]) \subseteq IdsInSeq(scheduled[t])
              /\ IdsInSeq(due'[t]) \subseteq IdsInSeq(due[t])
    PROVE  VisibilityInv'
<1>1. /\ now \in Nat /\ now' \in Nat /\ Times \subseteq Nat
      /\ \A m \in Messages : visible_at[m] \in Nat
  BY EnvelopeAssumption DEF TypeOK, Times
<1>2. Visible' \subseteq Messages
  <2>1. /\ held' \cup nacking' \cup requeuing' \subseteq Envelopes
        /\ EnvsInSeq(channel') \subseteq Envelopes
    BY SeqEnvs DEF TypeOK
  <2> QED BY <2>1 DEF Visible, IdsInSeq, IdsInSet, EnvsInSeq, Envelopes
<1>3. KeyIsDeadline'
  BY DEF VisibilityInv, KeyIsDeadline
<1>4. DueIsPast'
  <2> SUFFICES ASSUME NEW t \in Times, NEW m \in IdsInSeq(due'[t])
               PROVE  visible_at[m] = t /\ t <= now'
    BY DEF DueIsPast
  <2>1. visible_at[m] = t /\ t <= now
    BY DEF VisibilityInv, DueIsPast
  <2> QED BY <2>1, <1>1
<1>5. DueFirst'
  <2>1. /\ Keys(due') \subseteq Keys(due)
        /\ Keys(scheduled') \subseteq Keys(scheduled)
    <3>1. \A t \in Times : /\ t \in Keys(due') => t \in Keys(due)
                           /\ t \in Keys(scheduled') => t \in Keys(scheduled)
      BY KeyIds DEF TypeOK
    <3> QED BY <3>1 DEF Keys
  <2> QED BY <2>1 DEF VisibilityInv, DueFirst
<1>6. \A m \in Undated' : visible_at[m] = 0
  BY DEF VisibilityInv
<1>7. ASSUME NEW m \in Visible'
      PROVE  visible_at[m] <= now'
  <2>1. visible_at[m] <= now
    <3>1. CASE m \in Visible
      BY <3>1 DEF VisibilityInv
    <3>2. CASE m \in Undated
      BY <3>2, <1>1 DEF VisibilityInv
    <3>3. CASE m \in IdsInSchedule(due)
      BY <3>3 DEF VisibilityInv, DueIsPast, IdsInSchedule
    <3> QED BY <1>7, <3>1, <3>2, <3>3
  <2> QED BY <2>1, <1>1, <1>2
<1>8. ASSUME NEW m \in Messages, handed[m] > 0
      PROVE  visible_at[m] <= now'
  BY <1>1, <1>8 DEF VisibilityInv
<1> QED BY <1>3, <1>4, <1>5, <1>6, <1>7, <1>8 DEF VisibilityInv

\* A step that leaves messages, dates and the clock alone.
LEMMA VisibilitySame ==
    ASSUME TypeOK, TypeOK', VisibilityInv,
           UNCHANGED <<placeVars, handed, visible_at, now>>
    PROVE  VisibilityInv'
<1>1. now <= now'
  BY EnvelopeAssumption DEF TypeOK, Times
<1> QED BY <1>1, VisibilityMove DEF placeVars, Undated, Visible

\* A receive delivers a visible message.
LEMMA DeliverVisible ==
    ASSUME TypeOK, VisibilityInv, channel # <<>>, Deliver,
           UNCHANGED <<unsent, sending, scheduled, due, nacking, requeuing,
                       visible_at, now>>
    PROVE  VisibilityInv'
<1> DEFINE e == Head(channel)
<1>1. IdsInSeq(channel) = IdsInSeq(channel') \cup {e.id}
  BY TailIds DEF Deliver, TypeOK
<1>2. held' = held \cup {e} /\ handed' = [handed EXCEPT ![e.id] = @ + 1]
  BY DEF Deliver
<1> HIDE DEF e
<1>3. e.id \in Visible /\ Visible' \subseteq Visible
  BY <1>1, <1>2 DEF Visible, IdsInSet
<1>4. \A m \in Messages \ {e.id} : handed'[m] = handed[m]
  BY <1>2 DEF TypeOK
<1>5. \A m \in Messages : handed'[m] > 0 => visible_at[m] <= now
  BY <1>3, <1>4 DEF VisibilityInv
<1> QED BY <1>3, <1>5
        DEF VisibilityInv, KeyIsDeadline, DueIsPast, DueFirst, Undated

\* send_at dates a message that nobody has seen, and enters it under its date,
\* at a time when no flush is under way.
LEMMA SendAtDates ==
    ASSUME TypeOK, LockDiscipline, NoDuplicate, CountInv, VisibilityInv,
           NEW s \in scheduling, SendAtCompletes(s)
    PROVE  VisibilityInv'
<1> DEFINE x == s.env.id
<1>1. /\ s.env \in Envelopes /\ s.at \in Times /\ x \in Messages
      /\ scheduled \in Schedules /\ Times \subseteq Nat
  BY EnvelopeAssumption DEF TypeOK, Envelopes, Times
<1>2. /\ IdsInSeq(scheduled'[s.at]) = IdsInSeq(scheduled[s.at]) \cup {x}
      /\ \A t \in Times \ {s.at} : scheduled'[t] = scheduled[t]
  <2>1. scheduled' = Schedule(scheduled, s.at, s.env)
    BY DEF SendAtCompletes
  <2>2. /\ IdsInSeq(Schedule(scheduled, s.at, s.env)[s.at])
              = IdsInSeq(scheduled[s.at]) \cup {s.env.id}
        /\ \A t \in Times \ {s.at} :
              Schedule(scheduled, s.at, s.env)[t] = scheduled[t]
    BY <1>1, ScheduleKeys
  <2> QED BY <2>1, <2>2
<1>3. /\ visible_at'[x] = s.at
      /\ \A m \in Messages \ {x} : visible_at'[m] = visible_at[m]
  BY <1>1 DEF SendAtCompletes, TypeOK
<1>4. /\ UNCHANGED <<unsent, sending, channel, held, nacking, requeuing, due,
                     now, handed>>
      /\ due = NothingScheduled
  BY DEF SendAtCompletes, LockDiscipline, channelVars, consumerVars,
         deliveryVars, environmentVars
<1>5. handed[x] = 0
  BY DEF CountInv, FreshCounts, Fresh, EnvsInSends
<1> HIDE DEF x
<1>6. x \in Places["scheduling"]
  BY DEF Places, x
<1>7. \A n \in DOMAIN Places \ {"scheduling"} : x \notin Places[n]
  BY <1>6, PlaceNames DEF NoDuplicate, PlacesApart
<1>8. /\ x \notin unsent /\ x \notin {r.env.id : r \in sending}
      /\ x \notin IdsInSchedule(scheduled) /\ x \notin IdsInSeq(channel)
      /\ x \notin IdsInSet(held) /\ x \notin IdsInSet(nacking)
      /\ x \notin IdsInSet(requeuing)
  <2>1. /\ x \notin Places["unsent"] /\ x \notin Places["sending"]
        /\ x \notin Places["scheduled"] /\ x \notin Places["channel"]
        /\ x \notin Places["held"] /\ x \notin Places["nacking"]
        /\ x \notin Places["requeuing"]
    BY <1>7, PlaceNames
  <2> QED BY <2>1 DEF Places
<1>9. /\ \A q \in Seq(Envelopes) : IdsInSeq(q) \subseteq Messages
      /\ Undated \cup Visible \subseteq Messages
  <2>1. \A q \in Seq(Envelopes) : IdsInSeq(q) \subseteq Messages
    <3>1. \A q \in Seq(Envelopes) : EnvsInSeq(q) \subseteq Envelopes
      BY SeqEnvs
    <3> QED BY <3>1 DEF IdsInSeq, EnvsInSeq, Envelopes
  <2>2. /\ held \cup nacking \cup requeuing \subseteq Envelopes
        /\ unsent \subseteq Messages /\ channel \in Seq(Envelopes)
        /\ \A r \in sending : r.env \in Envelopes
        /\ \A e \in Envelopes : e.id \in Messages
    BY DEF TypeOK, Envelopes
  <2>3. Undated \subseteq Messages
    BY <2>2 DEF Undated
  <2>4. Visible \subseteq Messages
    BY <2>1, <2>2 DEF Visible, IdsInSet
  <2> QED BY <2>1, <2>3, <2>4
<1>10. KeyIsDeadline'
  <2>1. ASSUME NEW t \in Times, NEW m \in IdsInSeq(scheduled[t])
        PROVE  visible_at'[m] = t
    <3>1. m # x
      BY <1>8 DEF IdsInSchedule
    <3>2. m \in Messages /\ visible_at[m] = t
      BY <1>1, <1>9 DEF VisibilityInv, KeyIsDeadline, Schedules
    <3> QED BY <3>1, <3>2, <1>3
  <2> QED BY <2>1, <1>2, <1>3 DEF KeyIsDeadline
<1>11. DueIsPast' /\ DueFirst'
  BY <1>4, NoKeyIds DEF DueIsPast, DueFirst
<1>12. \A m \in Undated' : visible_at'[m] = 0
  BY <1>3, <1>4, <1>8, <1>9 DEF VisibilityInv, Undated
<1>13. \A m \in Visible' : visible_at'[m] <= now'
  BY <1>3, <1>4, <1>8, <1>9 DEF VisibilityInv, Visible
<1>14. \A m \in Messages : handed'[m] > 0 => visible_at'[m] <= now'
  BY <1>3, <1>4, <1>5 DEF VisibilityInv
<1> QED BY <1>10, <1>11, <1>12, <1>13, <1>14 DEF VisibilityInv

\* The flush takes what is due by now, and leaves what is due later.
LEMMA FlushLockVisible ==
    ASSUME TypeOK, VisibilityInv, FlushLock
    PROVE  VisibilityInv'
<1>1. /\ due' = DueBy(scheduled, now) /\ scheduled' = NotDueBy(scheduled, now)
      /\ UNCHANGED <<unsent, sending, channel, held, nacking, requeuing, now,
                     handed, visible_at>>
  BY DEF FlushLock, channelVars, producerVars, deliveryVars, environmentVars,
         historyVars
<1>2. now \in Nat /\ Times \subseteq Nat
  BY EnvelopeAssumption DEF TypeOK, Times
<1>3. \A t \in Times :
         \/ t <= now /\ due'[t] = scheduled[t] /\ scheduled'[t] = <<>>
         \/ t > now /\ due'[t] = <<>> /\ scheduled'[t] = scheduled[t]
  BY <1>1, <1>2 DEF DueBy, NotDueBy
<1>4. KeyIsDeadline' /\ DueIsPast'
  BY <1>1, <1>3, NoIds DEF VisibilityInv, KeyIsDeadline, DueIsPast
<1>5. DueFirst'
  <2>1. /\ \A t \in Keys(due') : t \in Nat /\ t <= now
        /\ \A u \in Keys(scheduled') : u \in Nat /\ u > now
    BY <1>2, <1>3 DEF Keys
  <2>2. ASSUME NEW t \in Keys(due'), NEW u \in Keys(scheduled')
        PROVE  t <= u
    BY <2>1, <1>2
  <2> QED BY <2>2 DEF DueFirst
<1> QED BY <1>1, <1>4, <1>5 DEF VisibilityInv, Undated, Visible

-----------------------------------------------------------------------------
(* The invariant *)

LEMMA VisibilityInit == Init => VisibilityInv
<1> SUFFICES ASSUME Init PROVE VisibilityInv
  OBVIOUS
<1>1. /\ Visible = {} /\ \A m \in Messages : visible_at[m] = 0 /\ handed[m] = 0
      /\ Undated = Messages
  BY NoIds DEF Init, Visible, Undated, IdsInSet
<1>2. KeyIsDeadline /\ DueIsPast /\ DueFirst
  BY NoIds, NoKeyIds
     DEF Init, KeyIsDeadline, DueIsPast, DueFirst
<1> QED BY <1>1, <1>2 DEF VisibilityInv

\* The invariants proved so far, which the steps below rest on.
Base == TypeOK /\ LockDiscipline /\ NoDuplicate /\ CountInv

LEMMA VisibilityNext ==
    Base /\ TypeOK' /\ VisibilityInv /\ [Next]_vars => VisibilityInv'
<1> SUFFICES ASSUME Base, TypeOK', VisibilityInv, [Next]_vars
             PROVE  VisibilityInv'
  OBVIOUS
<1> USE DEF Base, channelVars, sharedVars, producerVars, consumerVars,
            deliveryVars, environmentVars, historyVars
<1>0. now <= now
  BY EnvelopeAssumption DEF TypeOK, Times
<1>1. CASE UNCHANGED vars
  BY <1>1, VisibilitySame DEF vars, placeVars
<1>2. ASSUME NEW p \in Producers, NEW q \in Producers, CloneProducer(p, q)
      PROVE  VisibilityInv'
  BY <1>2, VisibilitySame DEF CloneProducer, placeVars
<1>3. ASSUME NEW p \in Producers, DropProducer(p)
      PROVE  VisibilityInv'
  BY <1>3, VisibilitySame DEF DropProducer, placeVars
<1>4. ASSUME NEW p \in Producers, NEW m \in Messages, Send(p, m)
      PROVE  VisibilityInv'
  BY <1>4, <1>0, VisibilityMove DEF Send, NewEnvelope, Undated, Visible
<1>5. ASSUME NEW p \in Producers, NEW m \in Messages, NEW at \in Times,
             SendAt(p, m, at)
      PROVE  VisibilityInv'
  BY <1>5, <1>0, VisibilityMove DEF SendAt, Undated, Visible
<1>6. ASSUME NEW s \in sending, SendCompletes(s)
      PROVE  VisibilityInv'
  <2>1. IdsInSeq(channel') = IdsInSeq(channel) \cup {s.env.id}
    BY <1>6, AppendIds DEF SendCompletes, Push, TypeOK
  <2> QED BY <1>6, <2>1, <1>0, VisibilityMove
     DEF SendCompletes, Undated, Visible
<1>7. ASSUME NEW s \in sending, SendFails(s)
      PROVE  VisibilityInv'
  BY <1>7, <1>0, VisibilityMove DEF SendFails, Undated, Visible
<1>8. ASSUME NEW s \in scheduling, SendAtCompletes(s)
      PROVE  VisibilityInv'
  BY <1>8, SendAtDates
<1>9. ASSUME NEW s \in sending \cup scheduling, CancelSend(s)
      PROVE  VisibilityInv'
  BY <1>9, <1>0, VisibilityMove DEF CancelSend, Undated, Visible
<1>10. CASE CallReceive
  BY <1>10, VisibilitySame DEF CallReceive, Start, Enter, placeVars
<1>11. CASE CallTryReceive
  BY <1>11, VisibilitySame DEF CallTryReceive, Start, Enter, placeVars
<1>12. CASE CallReceiveGraceful
  BY <1>12, VisibilitySame
     DEF CallReceiveGraceful, Start, Enter, Return, placeVars
<1>13. CASE PollReceive
  BY <1>13, VisibilitySame DEF PollReceive, Enter, placeVars
<1>14. CASE StopGraceful
  BY <1>14, NoKeyIds, <1>0, VisibilityMove
     DEF StopGraceful, DropReceiveFuture, Undated, Visible
<1>15. CASE CheckShutdown
  BY <1>15, VisibilitySame DEF CheckShutdown, Enter, Return, placeVars
<1>16. CASE FlushDone
  BY <1>16, VisibilitySame DEF FlushDone, placeVars
<1>17. CASE TryRecv
  <2>1. CASE channel # <<>> /\ Deliver
    BY <1>17, <2>1, DeliverVisible DEF TryRecv
  <2>2. CASE channel = <<>>
    BY <1>17, <2>2, VisibilitySame DEF TryRecv, Enter, Return, placeVars
  <2> QED BY <1>17, <2>1, <2>2 DEF TryRecv
<1>18. CASE PollRecv
  <2>1. CASE channel # <<>> /\ Deliver
    BY <1>18, <2>1, DeliverVisible DEF PollRecv
  <2>2. CASE channel = <<>>
    BY <1>18, <2>2, VisibilitySame DEF PollRecv, Enter, placeVars
  <2> QED BY <1>18, <2>1, <2>2 DEF PollRecv
<1>19. CASE TimerElapsed
  BY <1>19, VisibilitySame DEF TimerElapsed, placeVars
<1>20. CASE TimerPending
  BY <1>20, VisibilitySame DEF TimerPending, Enter, placeVars
<1>21. CASE PollLiveness
  BY <1>21, VisibilitySame DEF PollLiveness, Enter, Return, placeVars
<1>22. CASE Wake
  BY <1>22, VisibilitySame DEF Wake, Enter, placeVars
<1>23. CASE FlushLock
  BY <1>23, FlushLockVisible
<1>24. CASE FlushSend
  <2> DEFINE x == Head(due[FirstKey(due)]).id
  <2>1. /\ x \in IdsInSchedule(due)
        /\ \A t \in Times : IdsInSeq(due'[t]) \subseteq IdsInSeq(due[t])
        /\ IdsInSeq(channel') = IdsInSeq(channel) \cup {x}
    <3>1. /\ due \in Schedules /\ Keys(due) # {} /\ due' = Unflushed(due)
          /\ channel' = Append(channel, Head(due[FirstKey(due)]))
      BY <1>24 DEF FlushSend, Push, TypeOK
    <3>2. x \in IdsInSchedule(due)
      BY <3>1, UnflushedIds
    <3>3. \A t \in Times : IdsInSeq(due'[t]) \subseteq IdsInSeq(due[t])
      BY <3>1, UnflushedKeys
    <3>4. IdsInSeq(channel') = IdsInSeq(channel) \cup {x}
      BY <3>1, UnflushedType, AppendIds DEF TypeOK
    <3> QED BY <3>2, <3>3, <3>4
  <2> HIDE DEF x
  <2> QED BY <1>24, <2>1, <1>0, VisibilityMove DEF FlushSend, Undated, Visible
<1>25. CASE ReadNextScheduled
  BY <1>25, VisibilitySame DEF ReadNextScheduled, placeVars
<1>26. CASE CancelReceive
  BY <1>26, NoKeyIds, <1>0, VisibilityMove
     DEF CancelReceive, DropReceiveFuture, Undated, Visible
<1>27. CASE DropConsumer
  BY <1>27, NoIds, <1>0, VisibilityMove DEF DropConsumer, Undated, Visible
<1>28. ASSUME NEW e \in held, Ack(e)
       PROVE  VisibilityInv'
  BY <1>28, <1>0, VisibilityMove DEF Ack, IdsInSet, Undated, Visible
<1>29. ASSUME NEW e \in held, Nack(e)
       PROVE  VisibilityInv'
  BY <1>29, <1>0, VisibilityMove DEF Nack, IdsInSet, Undated, Visible
<1>30. ASSUME NEW e \in held, DropDelivery(e)
       PROVE  VisibilityInv'
  BY <1>30, <1>0, VisibilityMove DEF DropDelivery, IdsInSet, Undated, Visible
<1>31. ASSUME NEW e \in nacking, NackLock(e)
       PROVE  VisibilityInv'
  BY <1>31, <1>0, VisibilityMove DEF NackLock, IdsInSet, Undated, Visible
<1>32. ASSUME NEW e \in requeuing, NackRequeue(e)
       PROVE  VisibilityInv'
  <2>1. IdsInSeq(channel') = IdsInSeq(channel) \cup {e.id}
    BY <1>32, RedeliveredType, AppendIds DEF NackRequeue, Push, TypeOK
  <2> QED BY <1>32, <2>1, <1>0, VisibilityMove
     DEF NackRequeue, IdsInSet, Undated, Visible
<1>33. ASSUME NEW e \in requeuing, NackRequeueFails(e)
       PROVE  VisibilityInv'
  BY <1>33, <1>0, VisibilityMove
     DEF NackRequeueFails, IdsInSet, Undated, Visible
<1>34. ASSUME NEW e \in nacking \cup requeuing, CancelNack(e)
       PROVE  VisibilityInv'
  BY <1>34, <1>0, VisibilityMove DEF CancelNack, IdsInSet, Undated, Visible
<1>35. CASE Shutdown
  BY <1>35, VisibilitySame DEF Shutdown, placeVars
<1>36. CASE Tick
  <2>1. now <= now'
    BY <1>36, EnvelopeAssumption DEF Tick, TypeOK, Times
  <2> QED BY <1>36, <2>1, VisibilityMove DEF Tick, Undated, Visible
<1>37. CASE ProducerNext
  BY <1>37, <1>2, <1>3, <1>4, <1>5, <1>6, <1>7, <1>8, <1>9 DEF ProducerNext
<1>38. CASE ConsumerNext
  BY <1>38, <1>10, <1>11, <1>12, <1>13, <1>14, <1>15, <1>16, <1>17, <1>18,
     <1>19, <1>20, <1>21, <1>22, <1>23, <1>24, <1>25, <1>26, <1>27
     DEF ConsumerNext, ConsumerStep, StartCall
<1>39. CASE DeliveryNext
  BY <1>39, <1>28, <1>29, <1>30, <1>31, <1>32, <1>33, <1>34 DEF DeliveryNext
<1> QED BY <1>1, <1>35, <1>36, <1>37, <1>38, <1>39 DEF Next

\* VisibilityInv is an invariant of every behaviour.
THEOREM Dated == Spec => [](Base /\ VisibilityInv)
<1>1. Spec => []Base
  BY TypeCorrect, MutexDiscipline, NeverDuplicated, Counted, PTL DEF Base
<1>2. Base => TypeOK
  BY DEF Base
<1> QED BY <1>1, <1>2, VisibilityInit, VisibilityNext, PTL DEF Spec

-----------------------------------------------------------------------------
(* The theorems *)

\* A message sent with send_at is not received, nor can it be, before its time,
\* whichever receive call flushes it and however the calls interleave.
THEOREM NotEarly == Spec => []NeverEarly
<1>1. VisibilityInv => NeverEarly
  BY DEF VisibilityInv, NeverEarly, Visible
<1> QED BY <1>1, Dated, PTL

\* The flush gives the channel what is due earliest, of all that it holds and
\* of all that is still in the map.
THEOREM FlushOrdered == Spec => FlushInDeadlineOrder
<1> DEFINE Ordered ==
             \A m \in IdsInSchedule(due) \ IdsInSchedule(due') :
                m \in IdsInSeq(channel') =>
                   \A k \in IdsInSchedule(due')
                               \cup IdsInSchedule(scheduled') :
                      visible_at[m] <= visible_at[k]
<1>1. Base /\ VisibilityInv /\ [Next]_vars => Ordered
  <2> SUFFICES ASSUME Base, VisibilityInv, [Next]_vars,
                      NEW m \in IdsInSchedule(due),
                      m \notin IdsInSchedule(due'), m \in IdsInSeq(channel'),
                      NEW k \in IdsInSchedule(due')
                                  \cup IdsInSchedule(scheduled')
               PROVE  visible_at[m] <= visible_at[k]
    OBVIOUS
  <2> USE DEF channelVars, sharedVars, producerVars, consumerVars,
              deliveryVars, environmentVars, historyVars
  <2>1. m \notin IdsInSeq(channel)
    BY PlaceNames DEF Base, NoDuplicate, PlacesApart, Places
  <2>2. FlushSend
    <3>1. CASE UNCHANGED vars
      BY <3>1 DEF vars
    <3>2. CASE ProducerNext
      BY <3>2 DEF ProducerNext, CloneProducer, DropProducer, Send, SendAt,
                  SendCompletes, SendFails, SendAtCompletes, CancelSend
    <3>3. CASE StartCall
      BY <3>3 DEF StartCall, CallReceive, CallTryReceive,
                  CallReceiveGraceful, Start
    <3>4. CASE ConsumerStep
      BY <2>1, <3>4 DEF ConsumerStep, PollReceive, StopGraceful,
                        CheckShutdown, FlushDone, TryRecv, PollRecv,
                        TimerElapsed, TimerPending, PollLiveness, Wake
    <3>5. CASE FlushLock \/ ReadNextScheduled \/ CancelReceive
      BY <2>1, <3>5 DEF FlushLock, ReadNextScheduled, CancelReceive
    <3>6. CASE DropConsumer
      BY <3>6 DEF DropConsumer
    <3>7. CASE DeliveryNext
      BY <3>7 DEF DeliveryNext, Ack, Nack, DropDelivery, NackLock,
                  NackRequeue, NackRequeueFails, CancelNack
    <3>8. CASE Shutdown \/ Tick
      BY <3>8 DEF Shutdown, Tick
    <3> QED BY <3>1, <3>2, <3>3, <3>4, <3>5, <3>6, <3>7, <3>8
            DEF Next, ConsumerNext
  <2> DEFINE first == FirstKey(due)
  <2>3. /\ due \in Schedules /\ scheduled \in Schedules
        /\ Keys(due) # {} /\ due' = Unflushed(due) /\ scheduled' = scheduled
    BY <2>2 DEF FlushSend, Base, TypeOK
  <2>4. visible_at[m] = first
    <3>1. m = Head(due[first]).id
      BY <2>3, UnflushedIds
    <3>2. first \in Times /\ m \in IdsInSeq(due[first])
      BY <2>3, <3>1, UnflushedType, UnflushedKeys
    <3> QED BY <3>2 DEF VisibilityInv, DueIsPast
  <2>5. CASE k \in IdsInSchedule(due')
    <3>1. PICK t \in Times : k \in IdsInSeq(due'[t])
      BY <2>5 DEF IdsInSchedule
    <3>2. k \in IdsInSeq(due[t])
      BY <2>3, <3>1, UnflushedKeys
    <3>3. t \in Keys(due) /\ visible_at[k] = t
      BY <2>3, <3>2, KeyIds DEF VisibilityInv, DueIsPast
    <3> QED BY <2>3, <2>4, <3>3, FirstKeyIsLeast
  <2>6. CASE k \in IdsInSchedule(scheduled')
    <3>1. PICK u \in Times : k \in IdsInSeq(scheduled[u])
      BY <2>3, <2>6 DEF IdsInSchedule
    <3>2. u \in Keys(scheduled) /\ visible_at[k] = u
      BY <2>3, <3>1, KeyIds DEF VisibilityInv, KeyIsDeadline
    <3> QED BY <2>3, <2>4, <3>2, FirstKeyIsLeast DEF VisibilityInv, DueFirst
  <2> QED BY <2>5, <2>6
<1>2. Base /\ VisibilityInv /\ [Next]_vars => [Ordered]_vars
  BY <1>1
<1> QED BY <1>2, Dated, PTL DEF Spec, FlushInDeadlineOrder
=============================================================================
