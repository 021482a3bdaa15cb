------------------------- MODULE MemoryQueueProofs -------------------------
(***************************************************************************)
(* Lemmas about the operators of Envelope: what they return, and what they *)
(* do to the ids in a sequence or a schedule.  Theorems about MemoryQueue, *)
(* for every number of messages, producers and ticks, every capacity,      *)
(* every dead letter configuration and every usage.                        *)
(***************************************************************************)
EXTENDS MemoryQueue, FiniteSetTheorems, SequenceTheorems, TLAPS

-----------------------------------------------------------------------------
(* The order of the keys of a schedule *)

\* A nonempty set of ticks has a least element.
LEMMA LeastTick ==
    ASSUME NEW n \in Nat, NEW K \in SUBSET (0 .. n), K # {}
    PROVE  \E t \in K : \A u \in K : t <= u
<1> DEFINE Below(t) == {u \in K : u < t}
           R == StrictSubsetOrdering(K)
           T == {Below(t) : t \in K}
<1>1. IsFiniteSet(K)
  <2>1. IsFiniteSet(0 .. n)
    BY FS_Interval
  <2> QED BY <2>1, FS_Subset
<1>2. IsWellFoundedOn(R, FiniteSubsetsOf(K))
  BY FS_StrictSubsetOrderingWellFounded
<1>3. T \subseteq FiniteSubsetsOf(K) /\ T # {}
  <2>1. \A t \in K : Below(t) \in SUBSET K
    OBVIOUS
  <2>2. \A t \in K : IsFiniteSet(Below(t))
    BY <1>1, <2>1, FS_Subset
  <2> QED BY <2>1, <2>2 DEF FiniteSubsetsOf
<1>4. PICK S \in T : \A B \in T : <<B, S>> \notin R
  <2> HIDE DEF R, T
  <2> QED BY <1>2, <1>3, WFMin
<1>5. PICK t \in K : S = Below(t)
  OBVIOUS
<1>6. ASSUME NEW u \in K, u < t
      PROVE  FALSE
  <2>0. K \subseteq Int
    OBVIOUS
  <2>1. Below(u) \subseteq S /\ u \in S /\ u \notin Below(u)
    <3>1. \A v \in K : v < u => v < t
      BY <1>6, <2>0
    <3>2. ~(u < u)
      BY <2>0
    <3>3. Below(u) \subseteq Below(t)
      BY <3>1
    <3>4. u \in Below(t) /\ u \notin Below(u)
      BY <1>6, <3>2
    <3> QED BY <1>5, <3>3, <3>4
  <2>2. <<Below(u), S>> \in R
    BY <1>5, <2>1 DEF StrictSubsetOrdering
  <2> QED BY <1>4, <2>2
<1> QED BY <1>5, <1>6

\* FirstKey is the least key of a schedule that has one.
LEMMA FirstKeyIsLeast ==
    ASSUME NEW s, Keys(s) # {}
    PROVE  FirstKey(s) \in Keys(s) /\ \A u \in Keys(s) : FirstKey(s) <= u
<1>1. Keys(s) \in SUBSET (0 .. MaxTime) /\ MaxTime \in Nat
  BY EnvelopeAssumption DEF Keys, Times
<1>2. \E t \in Keys(s) : \A u \in Keys(s) : t <= u
  BY <1>1, LeastTick
<1> QED BY <1>2 DEF FirstKey

\* The deadline of the timer is a tick, or the Never beyond all of them.
LEMMA NextScheduledType ==
    ASSUME NEW s
    PROVE  next_scheduled_at(s) \in Times \cup {Never}
BY FirstKeyIsLeast DEF next_scheduled_at, Keys

\* A schedule without keys is the empty map.
LEMMA NoKeys ==
    ASSUME NEW s \in Schedules, Keys(s) = {}
    PROVE  s = NothingScheduled
BY DEF Schedules, Keys, NothingScheduled

-----------------------------------------------------------------------------
(* Types *)

LEMMA NewEnvelopeType ==
    ASSUME NEW m \in Messages
    PROVE  NewEnvelope(m) \in Envelopes
BY EnvelopeAssumption DEF NewEnvelope, Envelopes

LEMMA IncrementType ==
    ASSUME NEW n \in 0 .. U32Max
    PROVE  /\ Increment(n) \in 0 .. U32Max
           /\ n < U32Max => Increment(n) = n + 1
BY EnvelopeAssumption DEF Increment

LEMMA RedeliveredType ==
    ASSUME NEW e \in Envelopes
    PROVE  /\ Redelivered(e) \in Envelopes
           /\ Redelivered(e).id = e.id
           /\ Redelivered(e).delivery_count = Increment(e.delivery_count)
<1>1. e.delivery_count \in 0 .. U32Max /\ e.id \in Messages
  BY DEF Envelopes
<1>2. Increment(e.delivery_count) \in 0 .. U32Max
  BY <1>1, IncrementType
<1> QED BY <1>1, <1>2 DEF Redelivered, Envelopes

LEMMA NothingScheduledType == NothingScheduled \in Schedules
BY DEF NothingScheduled, Schedules

LEMMA ScheduleType ==
    ASSUME NEW s \in Schedules, NEW at \in Times, NEW e \in Envelopes
    PROVE  Schedule(s, at, e) \in Schedules
BY AppendProperties DEF Schedule, Schedules

\* split_off gives two schedules.
LEMMA SplitType ==
    ASSUME NEW s \in Schedules, NEW t \in Times
    PROVE  DueBy(s, t) \in Schedules /\ NotDueBy(s, t) \in Schedules
BY DEF DueBy, NotDueBy, Schedules

\* The turn of the flush loop finds an envelope and leaves a schedule.
LEMMA UnflushedType ==
    ASSUME NEW d \in Schedules, Keys(d) # {}
    PROVE  /\ FirstKey(d) \in Times
           /\ d[FirstKey(d)] \in Seq(Envelopes) /\ d[FirstKey(d)] # <<>>
           /\ Head(d[FirstKey(d)]) \in Envelopes
           /\ Unflushed(d) \in Schedules
<1>1. FirstKey(d) \in Times /\ d[FirstKey(d)] # <<>>
  BY FirstKeyIsLeast DEF Keys
<1>2. d[FirstKey(d)] \in Seq(Envelopes)
  BY <1>1 DEF Schedules
<1>3. /\ Head(d[FirstKey(d)]) \in Envelopes
      /\ Tail(d[FirstKey(d)]) \in Seq(Envelopes)
  BY <1>1, <1>2, HeadTailProperties
<1> QED BY <1>1, <1>2, <1>3 DEF Unflushed, Schedules

-----------------------------------------------------------------------------
(* The ids in sequences *)

\* Append adds one id, and keeps the ids distinct if it is new.
LEMMA AppendIds ==
    ASSUME NEW q \in Seq(Envelopes), NEW e \in Envelopes
    PROVE  /\ IdsInSeq(Append(q, e)) = IdsInSeq(q) \cup {e.id}
           /\ DistinctInSeq(q) /\ e.id \notin IdsInSeq(q)
                 => DistinctInSeq(Append(q, e))
<1> DEFINE r == Append(q, e)
<1>1. /\ Len(q) \in Nat
      /\ DOMAIN q = 1 .. Len(q) /\ DOMAIN r = 1 .. Len(q) + 1
      /\ \A i \in 1 .. Len(q) : r[i] = q[i]
      /\ r[Len(q) + 1] = e
  BY AppendProperties, LenProperties
<1>2. \A i \in 1 .. Len(q) + 1 : i \in 1 .. Len(q) \/ i = Len(q) + 1
  BY <1>1
<1> HIDE DEF r
<1>3. 1 .. Len(q) \subseteq 1 .. Len(q) + 1 /\ Len(q) + 1 \in 1 .. Len(q) + 1
  BY <1>1
<1>4. IdsInSeq(r) = IdsInSeq(q) \cup {e.id}
  BY <1>1, <1>2, <1>3 DEF IdsInSeq
<1>5. ASSUME DistinctInSeq(q), e.id \notin IdsInSeq(q)
      PROVE  DistinctInSeq(r)
  BY <1>1, <1>2, <1>5 DEF DistinctInSeq, IdsInSeq
<1> QED BY <1>4, <1>5 DEF r

\* Tail takes the head's id away, and no other.
LEMMA TailIds ==
    ASSUME NEW q \in Seq(Envelopes), q # <<>>
    PROVE  /\ IdsInSeq(q) = IdsInSeq(Tail(q)) \cup {Head(q).id}
           /\ DistinctInSeq(q) => /\ DistinctInSeq(Tail(q))
                                  /\ Head(q).id \notin IdsInSeq(Tail(q))
<1> DEFINE r == Tail(q)
<1>1. /\ Len(q) \in Nat \ {0}
      /\ Head(q) = q[1]
      /\ r \in Seq(Envelopes)
      /\ Len(r) = Len(q) - 1
      /\ \A i \in 1 .. Len(r) : r[i] = q[i + 1]
  BY HeadTailProperties, EmptySeq
<1>2. DOMAIN q = 1 .. Len(q) /\ DOMAIN r = 1 .. Len(q) - 1
  BY <1>1, LenProperties
<1> HIDE DEF r
<1>3. \A i \in DOMAIN r : i + 1 \in DOMAIN q /\ i + 1 # 1 /\ r[i] = q[i + 1]
  BY <1>1, <1>2
<1>4. \A i \in DOMAIN q : i = 1 \/ (i - 1 \in DOMAIN r /\ r[i - 1] = q[i])
  BY <1>1, <1>2
<1>5. 1 \in DOMAIN q
  BY <1>1, <1>2
<1>6. IdsInSeq(q) = IdsInSeq(r) \cup {Head(q).id}
  <2>1. ASSUME NEW i \in DOMAIN q
        PROVE  q[i].id \in IdsInSeq(r) \cup {Head(q).id}
    <3>1. CASE i = 1
      BY <1>1, <3>1
    <3>2. CASE i - 1 \in DOMAIN r /\ r[i - 1] = q[i]
      BY <3>2 DEF IdsInSeq
    <3> QED BY <1>4, <3>1, <3>2
  <2>2. \A i \in DOMAIN r : r[i].id \in IdsInSeq(q)
    BY <1>3 DEF IdsInSeq
  <2>3. Head(q).id \in IdsInSeq(q)
    BY <1>1, <1>5 DEF IdsInSeq
  <2>4. IdsInSeq(q) \subseteq IdsInSeq(r) \cup {Head(q).id}
    BY <2>1 DEF IdsInSeq
  <2>5. IdsInSeq(r) \subseteq IdsInSeq(q)
    BY <2>2 DEF IdsInSeq
  <2> QED BY <2>3, <2>4, <2>5
<1>7. ASSUME DistinctInSeq(q)
      PROVE  DistinctInSeq(r) /\ Head(q).id \notin IdsInSeq(r)
  <2>1. ASSUME NEW i \in DOMAIN r, NEW j \in DOMAIN r, r[i].id = r[j].id
        PROVE  i = j
    <3>1. i + 1 = j + 1
      BY <1>3, <1>7, <2>1 DEF DistinctInSeq
    <3> QED BY <3>1, <1>1, <1>2
  <2>2. ASSUME NEW i \in DOMAIN r, r[i].id = q[1].id
        PROVE  FALSE
    BY <1>3, <1>5, <1>7, <2>2 DEF DistinctInSeq
  <2> QED BY <1>1, <2>1, <2>2 DEF DistinctInSeq, IdsInSeq
<1> QED BY <1>6, <1>7 DEF r

-----------------------------------------------------------------------------
(* The ids in schedules *)

LEMMA NothingScheduledIds ==
    /\ IdsInSchedule(NothingScheduled) = {}
    /\ DistinctInSchedule(NothingScheduled)
BY DEF IdsInSchedule, IdsInSeq, NothingScheduled, DistinctInSchedule,
       DistinctInSeq

\* Scheduling a new message adds its id.
LEMMA ScheduleIds ==
    ASSUME NEW s \in Schedules, NEW at \in Times, NEW e \in Envelopes
    PROVE  /\ IdsInSchedule(Schedule(s, at, e)) = IdsInSchedule(s) \cup {e.id}
           /\ DistinctInSchedule(s) /\ e.id \notin IdsInSchedule(s)
                 => DistinctInSchedule(Schedule(s, at, e))
<1> DEFINE r == Schedule(s, at, e)
<1>1. s[at] \in Seq(Envelopes)
  BY DEF Schedules
<1>2. r[at] = Append(s[at], e) /\ \A t \in Times \ {at} : r[t] = s[t]
  BY DEF Schedule, Schedules
<1> HIDE DEF r
<1>3. IdsInSeq(r[at]) = IdsInSeq(s[at]) \cup {e.id}
  BY <1>1, <1>2, AppendIds
<1>4. \A t \in Times \ {at} : IdsInSeq(r[t]) = IdsInSeq(s[t])
  BY <1>2
<1>5. IdsInSchedule(r) = IdsInSchedule(s) \cup {e.id}
  BY <1>3, <1>4 DEF IdsInSchedule
<1>6. ASSUME DistinctInSchedule(s), e.id \notin IdsInSchedule(s)
      PROVE  DistinctInSchedule(r)
  <2>1. \A t \in Times : e.id \notin IdsInSeq(s[t])
    BY <1>6 DEF IdsInSchedule
  <2>2. DistinctInSeq(r[at])
    BY <1>1, <1>2, <1>6, <2>1, AppendIds DEF DistinctInSchedule
  <2>3. \A t \in Times : DistinctInSeq(r[t])
    BY <1>2, <1>6, <2>2 DEF DistinctInSchedule
  <2>4. \A t, u \in Times : t # u => IdsInSeq(r[t]) \cap IdsInSeq(r[u]) = {}
    BY <1>3, <1>4, <1>6, <2>1 DEF DistinctInSchedule
  <2> QED BY <2>3, <2>4 DEF DistinctInSchedule
<1> QED BY <1>5, <1>6 DEF r

\* split_off deals the ids out to the two halves.
LEMMA SplitIds ==
    ASSUME NEW s \in Schedules, NEW until \in Times
    PROVE  /\ IdsInSchedule(s) = IdsInSchedule(DueBy(s, until))
                                    \cup IdsInSchedule(NotDueBy(s, until))
           /\ DistinctInSchedule(s) =>
                 /\ DistinctInSchedule(DueBy(s, until))
                 /\ DistinctInSchedule(NotDueBy(s, until))
                 /\ IdsInSchedule(DueBy(s, until))
                       \cap IdsInSchedule(NotDueBy(s, until)) = {}
<1> DEFINE D == DueBy(s, until)
           N == NotDueBy(s, until)
<1>1. \A t \in Times : \/ t < until + 1 /\ D[t] = s[t] /\ N[t] = <<>>
                       \/ t >= until + 1 /\ D[t] = <<>> /\ N[t] = s[t]
  BY EnvelopeAssumption DEF DueBy, NotDueBy, Times
<1>2. \A t \in Times : \/ D[t] = s[t] /\ N[t] = <<>>
                       \/ D[t] = <<>> /\ N[t] = s[t]
  BY <1>1
<1>3. IdsInSeq(<<>>) = {} /\ DistinctInSeq(<<>>)
  BY DEF IdsInSeq, DistinctInSeq
<1> HIDE DEF D, N
<1>4. \A t \in Times :
         \/ IdsInSeq(D[t]) = IdsInSeq(s[t]) /\ IdsInSeq(N[t]) = {}
         \/ IdsInSeq(D[t]) = {} /\ IdsInSeq(N[t]) = IdsInSeq(s[t])
  BY <1>2, <1>3
<1>5. IdsInSchedule(s) = IdsInSchedule(D) \cup IdsInSchedule(N)
  BY <1>4 DEF IdsInSchedule
<1>6. ASSUME DistinctInSchedule(s)
      PROVE  /\ DistinctInSchedule(D) /\ DistinctInSchedule(N)
             /\ IdsInSchedule(D) \cap IdsInSchedule(N) = {}
  <2>1. \A t \in Times : DistinctInSeq(D[t]) /\ DistinctInSeq(N[t])
    BY <1>2, <1>3, <1>6 DEF DistinctInSchedule
  <2>2. \A t, u \in Times : t # u => /\ IdsInSeq(D[t]) \cap IdsInSeq(D[u]) = {}
                                     /\ IdsInSeq(N[t]) \cap IdsInSeq(N[u]) = {}
    BY <1>4, <1>6 DEF DistinctInSchedule
  <2>3. \A t, u \in Times : IdsInSeq(D[t]) \cap IdsInSeq(N[u]) = {}
    BY <1>4, <1>6 DEF DistinctInSchedule
  <2>4. DistinctInSchedule(D) /\ DistinctInSchedule(N)
    BY <2>1, <2>2 DEF DistinctInSchedule
  <2>5. IdsInSchedule(D) \cap IdsInSchedule(N) = {}
    BY <2>3 DEF IdsInSchedule
  <2> QED BY <2>4, <2>5
<1> QED BY <1>5, <1>6 DEF D, N

\* One turn of the flush loop takes the head's id away, and no other.
LEMMA UnflushedIds ==
    ASSUME NEW d \in Schedules, Keys(d) # {}
    PROVE  LET h == Head(d[FirstKey(d)]) IN
           /\ IdsInSchedule(d) = IdsInSchedule(Unflushed(d)) \cup {h.id}
           /\ DistinctInSchedule(d) =>
                 /\ DistinctInSchedule(Unflushed(d))
                 /\ h.id \notin IdsInSchedule(Unflushed(d))
<1> DEFINE k == FirstKey(d)
           h == Head(d[k])
           r == Unflushed(d)
<1>1. k \in Times /\ d[k] \in Seq(Envelopes) /\ d[k] # <<>>
  BY UnflushedType
<1>2. r[k] = Tail(d[k]) /\ \A t \in Times \ {k} : r[t] = d[t]
  BY <1>1 DEF Unflushed, Schedules
<1>3. /\ IdsInSeq(d[k]) = IdsInSeq(Tail(d[k])) \cup {h.id}
      /\ DistinctInSeq(d[k]) => /\ DistinctInSeq(Tail(d[k]))
                                /\ h.id \notin IdsInSeq(Tail(d[k]))
  BY <1>1, TailIds
<1> HIDE DEF k, h, r
<1>4. IdsInSeq(d[k]) = IdsInSeq(r[k]) \cup {h.id}
  BY <1>2, <1>3
<1>5. \A t \in Times \ {k} : IdsInSeq(r[t]) = IdsInSeq(d[t])
  BY <1>2
<1>6. IdsInSchedule(d) = IdsInSchedule(r) \cup {h.id}
  BY <1>1, <1>4, <1>5 DEF IdsInSchedule
<1>7. ASSUME DistinctInSchedule(d)
      PROVE  DistinctInSchedule(r) /\ h.id \notin IdsInSchedule(r)
  <2>1. DistinctInSeq(r[k]) /\ h.id \notin IdsInSeq(r[k])
    BY <1>1, <1>2, <1>3, <1>7 DEF DistinctInSchedule
  <2>2. \A t \in Times : DistinctInSeq(r[t])
    BY <1>2, <1>7, <2>1 DEF DistinctInSchedule
  <2>3. \A t, u \in Times : t # u => IdsInSeq(r[t]) \cap IdsInSeq(r[u]) = {}
    BY <1>4, <1>5, <1>7 DEF DistinctInSchedule
  <2>4. \A t \in Times : h.id \notin IdsInSeq(r[t])
    BY <1>1, <1>4, <1>5, <1>7, <2>1 DEF DistinctInSchedule
  <2>5. DistinctInSchedule(r)
    BY <2>2, <2>3 DEF DistinctInSchedule
  <2>6. h.id \notin IdsInSchedule(r)
    BY <2>4 DEF IdsInSchedule
  <2> QED BY <2>5, <2>6
<1> QED BY <1>6, <1>7 DEF k, h, r

-----------------------------------------------------------------------------
(* Type correctness *)

\* A send that waits for room keeps the channel within its capacity.
LEMMA PushType ==
    ASSUME channel \in Seq(Envelopes), HasRoom,
           NEW e \in Envelopes, Push(e)
    PROVE  channel' \in Seq(Envelopes) /\ Len(channel') <= Capacity
<1>1. Len(channel) \in Nat /\ Capacity \in Nat
  BY QueueAssumption, LenProperties
<1>2. Append(channel, e) \in Seq(Envelopes)
      /\ Len(Append(channel, e)) = Len(channel) + 1
  BY AppendProperties
<1> QED BY <1>1, <1>2 DEF Push, HasRoom

\* A receive takes an envelope from the head of the channel.
LEMMA DeliverType ==
    ASSUME TypeOK, channel # <<>>, Deliver
    PROVE  /\ channel' \in Seq(Envelopes) /\ Len(channel') <= Capacity
           /\ Head(channel) \in Envelopes
           /\ held' \subseteq Envelopes
           /\ handed' \in [Messages -> Nat]
           /\ pc' = "idle" /\ result' = "delivery" /\ wake_at' = Never
<1>1. Len(channel) \in Nat /\ Capacity \in Nat
  BY QueueAssumption, LenProperties DEF TypeOK
<1>2. /\ Head(channel) \in Envelopes
      /\ Tail(channel) \in Seq(Envelopes)
      /\ Len(Tail(channel)) = Len(channel) - 1
  BY HeadTailProperties DEF TypeOK
<1>3. Head(channel).id \in Messages
  BY <1>2 DEF Envelopes
<1> QED BY <1>1, <1>2, <1>3 DEF TypeOK, Deliver, Return

\* Init establishes the type invariant.
LEMMA TypeInit == Init => TypeOK
<1> SUFFICES ASSUME Init PROVE TypeOK
  OBVIOUS
<1>1. channel \in Seq(Envelopes) /\ Len(channel) <= Capacity
  BY QueueAssumption, EmptySeq DEF Init
<1>2. scheduled \in Schedules /\ due \in Schedules /\ dlq \in Seq(Envelopes)
  BY NothingScheduledType, EmptySeq DEF Init
<1>3. 0 \in 0 .. U32Max /\ 0 \in Times
  BY EnvelopeAssumption DEF Times
<1> QED BY <1>1, <1>2, <1>3
        DEF Init, TypeOK, ConsumerStates, ReceiveCalls, Results

\* No step leaves the types.
LEMMA TypeNext == TypeOK /\ [Next]_vars => TypeOK'
<1> SUFFICES ASSUME TypeOK, [Next]_vars PROVE TypeOK'
  OBVIOUS
<1> USE DEF TypeOK, channelVars, sharedVars, producerVars, consumerVars,
            deliveryVars, environmentVars, historyVars, ConsumerStates,
            ReceiveCalls, Results
<1>1. CASE UNCHANGED vars
  BY <1>1 DEF vars
<1>2. ASSUME NEW p \in Producers, NEW q \in Producers, CloneProducer(p, q)
      PROVE  TypeOK'
  BY <1>2 DEF CloneProducer
<1>3. ASSUME NEW p \in Producers, DropProducer(p)
      PROVE  TypeOK'
  BY <1>3 DEF DropProducer
<1>4. ASSUME NEW p \in Producers, NEW m \in Messages, Send(p, m)
      PROVE  TypeOK'
  BY <1>4, NewEnvelopeType DEF Send
<1>5. ASSUME NEW p \in Producers, NEW m \in Messages, NEW at \in Times,
             SendAt(p, m, at)
      PROVE  TypeOK'
  BY <1>5, NewEnvelopeType DEF SendAt
<1>6. ASSUME NEW s \in sending, SendCompletes(s)
      PROVE  TypeOK'
  <2>1. s.env \in Envelopes /\ s.env.id \in Messages
    BY DEF Envelopes
  <2>2. channel' \in Seq(Envelopes) /\ Len(channel') <= Capacity
    BY <1>6, <2>1, PushType DEF SendCompletes
  <2> QED BY <1>6, <2>1, <2>2 DEF SendCompletes
<1>7. ASSUME NEW s \in sending, SendFails(s)
      PROVE  TypeOK'
  BY <1>7 DEF SendFails
<1>8. ASSUME NEW s \in scheduling, SendAtCompletes(s)
      PROVE  TypeOK'
  <2>1. s.env \in Envelopes /\ s.env.id \in Messages /\ s.at \in Times
    BY DEF Envelopes
  <2>2. scheduled' \in Schedules
    BY <1>8, <2>1, ScheduleType DEF SendAtCompletes
  <2> QED BY <1>8, <2>1, <2>2 DEF SendAtCompletes
<1>9. ASSUME NEW s \in sending \cup scheduling, CancelSend(s)
      PROVE  TypeOK'
  BY <1>9 DEF CancelSend
<1>10. CASE CallReceive
  BY <1>10 DEF CallReceive, Start, Enter
<1>11. CASE CallTryReceive
  BY <1>11 DEF CallTryReceive, Start, Enter
<1>12. CASE CallReceiveGraceful
  BY <1>12 DEF CallReceiveGraceful, Start, Enter, Return
<1>13. CASE PollReceive
  BY <1>13 DEF PollReceive, Enter
<1>14. CASE StopGraceful
  BY <1>14, NothingScheduledType
     DEF StopGraceful, DropReceiveFuture, LockAfterDrop, Return
<1>15. CASE CheckShutdown
  BY <1>15 DEF CheckShutdown, Enter, Return
<1>16. CASE FlushDone
  BY <1>16 DEF FlushDone
<1>17. CASE TryRecv
  <2>1. CASE channel # <<>> /\ Deliver
    BY <1>17, <2>1, DeliverType DEF TryRecv
  <2>2. CASE channel = <<>>
    BY <1>17, <2>2 DEF TryRecv, Enter, Return
  <2> QED BY <1>17, <2>1, <2>2 DEF TryRecv
<1>18. CASE PollRecv
  <2>1. CASE channel # <<>> /\ Deliver
    BY <1>18, <2>1, DeliverType DEF PollRecv
  <2>2. CASE channel = <<>>
    BY <1>18, <2>2 DEF PollRecv, Enter
  <2> QED BY <1>18, <2>1, <2>2 DEF PollRecv
<1>19. CASE TimerElapsed
  BY <1>19 DEF TimerElapsed
<1>20. CASE TimerPending
  BY <1>20 DEF TimerPending, Enter
<1>21. CASE PollLiveness
  BY <1>21 DEF PollLiveness, Enter, Return
<1>22. CASE Wake
  BY <1>22 DEF Wake, Enter
<1>23. CASE FlushLock
  <2>1. due' \in Schedules /\ scheduled' \in Schedules
    BY <1>23, SplitType DEF FlushLock
  <2> QED BY <1>23, <2>1 DEF FlushLock
<1>24. CASE FlushSend
  <2>1. Head(due[FirstKey(due)]) \in Envelopes /\ due' \in Schedules
    BY <1>24, UnflushedType DEF FlushSend
  <2>2. channel' \in Seq(Envelopes) /\ Len(channel') <= Capacity
    BY <1>24, <2>1, PushType DEF FlushSend
  <2> QED BY <1>24, <2>1, <2>2 DEF FlushSend
<1>25. CASE ReadNextScheduled
  BY <1>25, NextScheduledType DEF ReadNextScheduled
<1>26. CASE CancelReceive
  BY <1>26, NothingScheduledType
     DEF CancelReceive, DropReceiveFuture, LockAfterDrop, Return
<1>27. CASE DropConsumer
  <2>1. <<>> \in Seq(Envelopes) /\ Len(<<>>) <= Capacity
    BY EmptySeq, QueueAssumption
  <2> QED BY <1>27, <2>1 DEF DropConsumer
<1>28. ASSUME NEW e \in held, Ack(e)
       PROVE  TypeOK'
  <2>1. e.id \in Messages
    BY DEF Envelopes
  <2> QED BY <1>28, <2>1 DEF Ack
<1>29. ASSUME NEW e \in held, Nack(e)
       PROVE  TypeOK'
  BY <1>29 DEF Nack
<1>30. ASSUME NEW e \in held, DropDelivery(e)
       PROVE  TypeOK'
  BY <1>30 DEF DropDelivery
<1>31. ASSUME NEW e \in nacking, NackLock(e)
       PROVE  TypeOK'
  <2>1. e \in Envelopes /\ e.id \in Messages
    BY DEF Envelopes
  <2>2. nack_counts' \in [Messages -> 0 .. U32Max]
    <3>1. Increment(nack_counts[e.id]) \in 0 .. U32Max
      BY <2>1, IncrementType
    <3>2. nack_counts' = [nack_counts EXCEPT
                             ![e.id] = Increment(nack_counts[e.id])]
      BY <1>31 DEF NackLock
    <3> QED BY <2>1, <3>1, <3>2
  <2>3. dlq' \in Seq(Envelopes)
    <3>1. Append(dlq, Redelivered(e)) \in Seq(Envelopes)
      BY <2>1, RedeliveredType, AppendProperties
    <3>2. dlq' = dlq \/ dlq' = Append(dlq, Redelivered(e))
      BY <1>31 DEF NackLock, DeadLetter
    <3> QED BY <3>1, <3>2
  <2> QED BY <1>31, <2>1, <2>2, <2>3 DEF NackLock
<1>32. ASSUME NEW e \in requeuing, NackRequeue(e)
       PROVE  TypeOK'
  <2>1. Redelivered(e) \in Envelopes
    BY RedeliveredType
  <2>2. channel' \in Seq(Envelopes) /\ Len(channel') <= Capacity
    BY <1>32, <2>1, PushType DEF NackRequeue
  <2> QED BY <1>32, <2>1, <2>2 DEF NackRequeue
<1>33. ASSUME NEW e \in requeuing, NackRequeueFails(e)
       PROVE  TypeOK'
  BY <1>33 DEF NackRequeueFails
<1>34. ASSUME NEW e \in nacking \cup requeuing, CancelNack(e)
       PROVE  TypeOK'
  BY <1>34 DEF CancelNack
<1>35. CASE Shutdown
  BY <1>35 DEF Shutdown
<1>36. CASE Tick
  BY <1>36, EnvelopeAssumption DEF Tick, Times
<1> HIDE DEF TypeOK
<1>37. CASE ProducerNext
  BY <1>37, <1>2, <1>3, <1>4, <1>5, <1>6, <1>7, <1>8, <1>9 DEF ProducerNext
<1>38. CASE ConsumerNext
  BY <1>38, <1>10, <1>11, <1>12, <1>13, <1>14, <1>15, <1>16, <1>17, <1>18,
     <1>19, <1>20, <1>21, <1>22, <1>23, <1>24, <1>25, <1>26, <1>27
     DEF ConsumerNext, ConsumerStep, StartCall
<1>39. CASE DeliveryNext
  BY <1>39, <1>28, <1>29, <1>30, <1>31, <1>32, <1>33, <1>34 DEF DeliveryNext
<1> QED BY <1>1, <1>35, <1>36, <1>37, <1>38, <1>39 DEF Next

\* Every variable keeps its type, and no path that sends on the channel, the
\* producers', the flush loop's or nack's, fills it beyond its capacity.
THEOREM TypeCorrect == Spec => []TypeOK
BY TypeInit, TypeNext, PTL DEF Spec

-----------------------------------------------------------------------------
(* The mutex *)

\* Init establishes the lock discipline.
LEMMA LockInit == Init => LockDiscipline
BY DEF Init, LockDiscipline

\* No step breaks the lock discipline; it is inductive given the types.
LEMMA LockNext == TypeOK /\ LockDiscipline /\ [Next]_vars => LockDiscipline'
<1> SUFFICES ASSUME TypeOK, LockDiscipline, [Next]_vars PROVE LockDiscipline'
  OBVIOUS
<1> USE DEF LockDiscipline, channelVars, sharedVars, producerVars,
            consumerVars, deliveryVars, environmentVars, historyVars
<1>1. CASE UNCHANGED vars
  BY <1>1 DEF vars
<1>2. ASSUME NEW p \in Producers, NEW q \in Producers, CloneProducer(p, q)
      PROVE  LockDiscipline'
  BY <1>2 DEF CloneProducer
<1>3. ASSUME NEW p \in Producers, DropProducer(p)
      PROVE  LockDiscipline'
  BY <1>3 DEF DropProducer
<1>4. ASSUME NEW p \in Producers, NEW m \in Messages, Send(p, m)
      PROVE  LockDiscipline'
  BY <1>4 DEF Send
<1>5. ASSUME NEW p \in Producers, NEW m \in Messages, NEW at \in Times,
             SendAt(p, m, at)
      PROVE  LockDiscipline'
  BY <1>5 DEF SendAt
<1>6. ASSUME NEW s \in sending, SendCompletes(s)
      PROVE  LockDiscipline'
  BY <1>6 DEF SendCompletes
<1>7. ASSUME NEW s \in sending, SendFails(s)
      PROVE  LockDiscipline'
  BY <1>7 DEF SendFails
<1>8. ASSUME NEW s \in scheduling, SendAtCompletes(s)
      PROVE  LockDiscipline'
  BY <1>8 DEF SendAtCompletes
<1>9. ASSUME NEW s \in sending \cup scheduling, CancelSend(s)
      PROVE  LockDiscipline'
  BY <1>9 DEF CancelSend
<1>10. CASE CallReceive
  BY <1>10 DEF CallReceive, Start, Enter
<1>11. CASE CallTryReceive
  BY <1>11 DEF CallTryReceive, Start, Enter
<1>12. CASE CallReceiveGraceful
  BY <1>12 DEF CallReceiveGraceful, Start, Enter, Return
<1>13. CASE PollReceive
  BY <1>13 DEF PollReceive, Enter
<1>14. CASE StopGraceful
  BY <1>14 DEF StopGraceful, DropReceiveFuture, LockAfterDrop, Return
<1>15. CASE CheckShutdown
  BY <1>15 DEF CheckShutdown, Enter, Return
<1>16. CASE FlushDone
  BY <1>16, NoKeys DEF FlushDone, TypeOK
<1>17. CASE TryRecv
  BY <1>17 DEF TryRecv, Deliver, Enter, Return
<1>18. CASE PollRecv
  BY <1>18 DEF PollRecv, Deliver, Enter, Return
<1>19. CASE TimerElapsed
  BY <1>19 DEF TimerElapsed
<1>20. CASE TimerPending
  BY <1>20 DEF TimerPending, Enter
<1>21. CASE PollLiveness
  BY <1>21 DEF PollLiveness, Enter, Return
<1>22. CASE Wake
  BY <1>22 DEF Wake, Enter
<1>23. CASE FlushLock
  BY <1>23 DEF FlushLock
<1>24. CASE FlushSend
  BY <1>24 DEF FlushSend
<1>25. CASE ReadNextScheduled
  BY <1>25 DEF ReadNextScheduled
<1>26. CASE CancelReceive
  BY <1>26 DEF CancelReceive, DropReceiveFuture, LockAfterDrop, Return
<1>27. CASE DropConsumer
  BY <1>27 DEF DropConsumer
<1>28. ASSUME NEW e \in held, Ack(e)
       PROVE  LockDiscipline'
  BY <1>28 DEF Ack
<1>29. ASSUME NEW e \in held, Nack(e)
       PROVE  LockDiscipline'
  BY <1>29 DEF Nack
<1>30. ASSUME NEW e \in held, DropDelivery(e)
       PROVE  LockDiscipline'
  BY <1>30 DEF DropDelivery
<1>31. ASSUME NEW e \in nacking, NackLock(e)
       PROVE  LockDiscipline'
  BY <1>31 DEF NackLock
<1>32. ASSUME NEW e \in requeuing, NackRequeue(e)
       PROVE  LockDiscipline'
  BY <1>32 DEF NackRequeue
<1>33. ASSUME NEW e \in requeuing, NackRequeueFails(e)
       PROVE  LockDiscipline'
  BY <1>33 DEF NackRequeueFails
<1>34. ASSUME NEW e \in nacking \cup requeuing, CancelNack(e)
       PROVE  LockDiscipline'
  BY <1>34 DEF CancelNack
<1>35. CASE Shutdown
  BY <1>35 DEF Shutdown
<1>36. CASE Tick
  BY <1>36 DEF Tick
<1> HIDE DEF LockDiscipline
<1>37. CASE ProducerNext
  BY <1>37, <1>2, <1>3, <1>4, <1>5, <1>6, <1>7, <1>8, <1>9 DEF ProducerNext
<1>38. CASE ConsumerNext
  BY <1>38, <1>10, <1>11, <1>12, <1>13, <1>14, <1>15, <1>16, <1>17, <1>18,
     <1>19, <1>20, <1>21, <1>22, <1>23, <1>24, <1>25, <1>26, <1>27
     DEF ConsumerNext, ConsumerStep, StartCall
<1>39. CASE DeliveryNext
  BY <1>39, <1>28, <1>29, <1>30, <1>31, <1>32, <1>33, <1>34 DEF DeliveryNext
<1> QED BY <1>1, <1>35, <1>36, <1>37, <1>38, <1>39 DEF Next

\* The consumer holds the mutex exactly while it flushes, a nack exactly while
\* it requeues, never both: no cancelled call leaves the mutex locked.
THEOREM MutexDiscipline == Spec => []LockDiscipline
BY TypeCorrect, LockInit, LockNext, PTL DEF Spec

-----------------------------------------------------------------------------
(* The last producer *)

\* A send in flight borrows its handle, so that no send outlives the handles.
ProducersInv ==
    /\ \A s \in sending \cup scheduling : s.by \in producers
    /\ result = "ConnectionLost" => producers = {}

LEMMA ProducersNext == ProducersInv /\ [Next]_vars => ProducersInv'
<1> SUFFICES ASSUME ProducersInv, [Next]_vars PROVE ProducersInv'
  OBVIOUS
<1> USE DEF ProducersInv, channelVars, sharedVars, producerVars, consumerVars,
            deliveryVars, environmentVars, historyVars
<1>1. CASE UNCHANGED vars
  BY <1>1 DEF vars
<1>2. CASE ProducerNext
  <2>1. ASSUME NEW p \in Producers, NEW q \in Producers, CloneProducer(p, q)
        PROVE  ProducersInv'
    BY <2>1 DEF CloneProducer
  <2>2. ASSUME NEW p \in Producers, DropProducer(p)
        PROVE  ProducersInv'
    BY <2>2 DEF DropProducer, Busy
  <2>3. ASSUME NEW p \in Producers, NEW m \in Messages,
               Send(p, m) \/ \E at \in Times : SendAt(p, m, at)
        PROVE  ProducersInv'
    BY <2>3 DEF Send, SendAt
  <2>4. ASSUME NEW s \in sending, SendCompletes(s) \/ SendFails(s)
        PROVE  ProducersInv'
    BY <2>4 DEF SendCompletes, SendFails
  <2>5. ASSUME NEW s \in scheduling, SendAtCompletes(s)
        PROVE  ProducersInv'
    BY <2>5 DEF SendAtCompletes
  <2>6. ASSUME NEW s \in sending \cup scheduling, CancelSend(s)
        PROVE  ProducersInv'
    BY <2>6 DEF CancelSend
  <2> QED BY <1>2, <2>1, <2>2, <2>3, <2>4, <2>5, <2>6 DEF ProducerNext
<1>3. CASE StartCall
  BY <1>3 DEF StartCall, CallReceive, CallTryReceive, CallReceiveGraceful,
              Start, Enter, Return
<1>4. CASE PollLiveness
  BY <1>4 DEF PollLiveness, NoProducer, Enter, Return
<1>5. CASE TryRecv \/ PollRecv
  BY <1>5 DEF TryRecv, PollRecv, Deliver, Enter, Return
<1>6. CASE PollReceive \/ StopGraceful \/ CheckShutdown \/ FlushDone
           \/ TimerElapsed \/ TimerPending \/ Wake
  BY <1>6 DEF PollReceive, StopGraceful, CheckShutdown, FlushDone,
              TimerElapsed, TimerPending, Wake, Enter, Return
<1>7. CASE FlushLock \/ FlushSend \/ ReadNextScheduled \/ CancelReceive
           \/ DropConsumer
  BY <1>7 DEF FlushLock, FlushSend, ReadNextScheduled, CancelReceive,
              DropConsumer, Return
<1>8. CASE DeliveryNext
  BY <1>8 DEF DeliveryNext, Ack, Nack, DropDelivery, NackLock, NackRequeue,
              NackRequeueFails, CancelNack
<1>9. CASE Shutdown \/ Tick
  BY <1>9 DEF Shutdown, Tick
<1> QED BY <1>1, <1>2, <1>3, <1>4, <1>5, <1>6, <1>7, <1>8, <1>9
        DEF Next, ConsumerNext, ConsumerStep

\* A consumer that is told ConnectionLost is not told so too early: no producer
\* is left, no send is in flight, and no clone can be made any more.
THEOREM LostIsFinal == Spec => []ConnectionLostIsFinal
<1>1. Init => ProducersInv
  BY DEF Init, ProducersInv
<1>2. ProducersInv => ConnectionLostIsFinal
  BY DEF ProducersInv, ConnectionLostIsFinal
<1> QED BY <1>1, <1>2, ProducersNext, PTL DEF Spec
=============================================================================
