----------------------------- MODULE ApiProofs -----------------------------
(***************************************************************************)
(* Theorems about QueueApi, for every set of messages, every size of a     *)
(* batch, every limit, and backends that override any of send_at,          *)
(* try_receive, shutdown_handle and receive_graceful.                      *)
(***************************************************************************)
EXTENDS QueueApi, FiniteSetTheorems, SequenceTheorems, TLAPS

\* The backend: where the messages are, and how often they were received.
BackendInv ==
    /\ unsent \subseteq Messages /\ offered \subseteq Messages
    /\ accepted \subseteq Messages
    /\ attempts \in [Messages -> Nat] /\ not_before \in [Messages -> Nat]
    /\ now \in Nat
    /\ unsent \cap offered = {} /\ (unsent \cup offered) \cap accepted = {}
    /\ waiting \cup out \subseteq accepted /\ waiting \cap out = {}
    /\ \A m \in Messages \ accepted : attempts[m] = 0

\* Nothing on the way to the backend hides a method that matters.
ReachInv == {"send_at", "try_receive", "shutdown_handle"} \subseteq reach

-----------------------------------------------------------------------------
(* Every step is one of the contract *)

LEMMA BackendInit == Init => BackendInv /\ ReachInv
BY DEF Init, Backend!Init, BackendInv, ReachInv, ProducerMethods, ConsumerMethods

LEMMA LetGoStep ==
    ASSUME BackendInv, NEW S, LetGo(S)
    PROVE  Backend!Next \/ UNCHANGED contractVars
BY DEF LetGo, Backend!Next, Backend!Lose, BackendInv

\* What is done to the backend while no producer's call goes on.
LEMMA ConsumersShare ==
    ASSUME BackendInv, ConsumerNext
    PROVE  /\ Backend!Next \/ UNCHANGED contractVars
           /\ UNCHANGED <<sendVars, unsent, offered, accepted, not_before, now>>
           /\ UNCHANGED <<overrides, reach, shutdown>>
<1> USE DEF contractVars, handleVars, sendVars, receiveVars
<1>1. ASSUME NEW S, LetGo(S)
      PROVE  UNCHANGED <<unsent, offered, accepted, not_before, now>>
  BY <1>1 DEF LetGo, Backend!Lose
<1>2. CASE CallReceive \/ CallTryReceive \/ \E n \in 0 .. MaxBatch : CallReceiveBatch(n)
  BY <1>2 DEF CallReceive, CallTryReceive, CallReceiveBatch, Start
<1>3. CASE \E c \in GracefulCalls : CallGraceful(c)
  BY <1>1, <1>3, LetGoStep DEF CallGraceful, Start, EndCall
<1>4. CASE \E method \in {"messages", "into_stream"} : OpenStream(method)
  BY <1>4 DEF OpenStream
<1>5. ASSUME NEW m \in Messages, ReceiveDone(m) \/ PollHit(m)
      PROVE  /\ Backend!Hand(m)
             /\ UNCHANGED <<sendVars, unsent, offered, accepted, not_before, now>>
             /\ UNCHANGED <<overrides, reach, shutdown>>
  BY <1>5 DEF ReceiveDone, PollHit, Collect, Backend!Hand
<1>6. CASE GracefulStop \/ PollMiss \/ ReceiveFails \/ PollFails \/ Cancel
  BY <1>1, <1>6, LetGoStep
     DEF GracefulStop, PollMiss, ReceiveFails, PollFails, Cancel, Leave, EndCall
<1>7. CASE DropStream \/ DropConsumer
  BY <1>1, <1>7, LetGoStep DEF DropStream, DropConsumer
<1>8. ASSUME NEW m \in Messages, Ack(m) \/ Nack(m)
      PROVE  /\ Backend!Next
             /\ UNCHANGED <<sendVars, unsent, offered, accepted, not_before, now>>
             /\ UNCHANGED <<overrides, reach, shutdown>>
  <2>1. \/ Backend!Ack(m) \/ Backend!Return(m) \/ Backend!GiveUp(m)
        \/ Backend!Lose({m})
    BY <1>8 DEF Ack, Nack
  <2>2. Backend!Next
    BY <2>1 DEF Backend!Next
  <2>3. UNCHANGED <<unsent, offered, accepted, not_before, now>>
    BY <2>1 DEF Backend!Ack, Backend!Return, Backend!GiveUp, Backend!Lose
  <2> QED BY <1>8, <2>2, <2>3 DEF Ack, Nack, Settled
<1>9. ASSUME NEW m \in Messages, Backend!Hand(m)
      PROVE  Backend!Next
  BY <1>9 DEF Backend!Next
<1> QED BY <1>2, <1>3, <1>4, <1>5, <1>6, <1>7, <1>8, <1>9
        DEF ConsumerNext, ConsumerStep

\* The steps that leave both ends of the queue alone.
Handles ==
    \/ \E S \in Products, dynamic \in BOOLEAN : Build(S, dynamic)
    \/ \E h \in Halves : Wrap(h) \/ IntoDyn(h)
    \/ Shutdown
    \/ DropProducer
    \/ UNCHANGED vars

LEMMA HandlesShare ==
    ASSUME Handles
    PROVE  UNCHANGED <<contractVars, sendVars>> /\ overrides' = overrides
BY DEF Handles, Build, Wrap, IntoDyn, Shutdown, DropProducer, vars, handleVars

\* A message that send_batch sends can be any of those it was given.
LEMMA BatchType ==
    ASSUME NEW msgs \in Batches
    PROVE  msgs \in Seq(Messages) /\ Range(msgs) \subseteq Messages
<1>1. PICK n \in 0 .. MaxBatch : msgs \in [1 .. n -> Messages]
  BY DEF Batches
<1>2. n \in Nat
  BY ApiAssumption
<1> QED BY <1>1, <1>2 DEF Range

LEMMA UpcomingGiven ==
    ASSUME given \in Seq(Messages), ids \in Seq(Messages), Len(ids) < Len(given)
    PROVE  /\ Upcoming \in Range(given) /\ Upcoming \in Messages
           /\ Len(ids) + 1 \in DOMAIN given
<1>1. Len(ids) \in Nat /\ Len(given) \in Nat /\ DOMAIN given = 1 .. Len(given)
  BY LenProperties
<1>2. Len(ids) + 1 \in DOMAIN given
  BY <1>1
<1>3. given[Len(ids) + 1] \in Messages
  BY <1>1, <1>2, ElementOfSeq
<1> QED BY <1>2, <1>3 DEF Upcoming, Range

ProducerStep ==
    \/ \E msgs \in Batches : SendBatch(msgs)
    \/ BatchSends \/ BatchUnanswered \/ BatchFails \/ BatchDone \/ CancelBatch
    \/ \E m \in Messages : \/ \E at \in 1 .. MaxTime : SendAt(m, at)
                           \/ SendAtCompletes(m)
                           \/ SendAtFails(m)

LEMMA ProducersShare ==
    ASSUME ProducerStep
    PROVE  /\ UNCHANGED <<handleVars, shutdown, receiveVars>>
           /\ out' = out /\ attempts' = attempts /\ now' = now
           /\ waiting \subseteq waiting'
BY DEF ProducerStep, SendBatch, BatchSends, BatchUnanswered, BatchFails, BatchDone,
       CancelBatch, EndBatch, SendAt, SendAtCompletes, SendAtFails,
       Backend!Offer, Backend!Accept, Backend!Refuse

LEMMA ProducerContract ==
    ASSUME BackendInv, given \in Seq(Messages), ids \in Seq(Messages),
           wanted \in [Messages -> 0 .. MaxTime], ProducerStep
    PROVE  Backend!Next
<1>1. ASSUME NEW msgs \in Batches, SendBatch(msgs)
      PROVE  Backend!Next
  BY <1>1, BatchType DEF SendBatch, Backend!Next
<1>2. CASE BatchSends \/ BatchUnanswered
  BY <1>2, UpcomingGiven, ApiAssumption DEF BatchSends, BatchUnanswered, Backend!Next
<1>3. CASE BatchFails \/ BatchDone \/ CancelBatch
  <2>1. Backend!Refuse(Unprocessed) /\ Unprocessed \in SUBSET Messages
    BY <1>3 DEF BatchFails, BatchDone, CancelBatch, EndBatch, Unprocessed, BackendInv
  <2> QED BY <2>1 DEF Backend!Next
<1>4. ASSUME NEW m \in Messages, NEW at \in 1 .. MaxTime, SendAt(m, at)
      PROVE  Backend!Next
  BY <1>4 DEF SendAt, Backend!Next
<1>5. ASSUME NEW m \in Messages, SendAtCompletes(m) \/ SendAtFails(m)
      PROVE  Backend!Next
  <2>1. 0 \in 0 .. MaxTime /\ wanted[m] \in 0 .. MaxTime
    BY ApiAssumption
  <2> QED BY <1>5, <2>1 DEF SendAtCompletes, SendAtFails, Backend!Next
<1> QED BY <1>1, <1>2, <1>3, <1>4, <1>5 DEF ProducerStep

LEMMA NextKinds ==
    Next \/ UNCHANGED vars <=> Handles \/ ProducerStep \/ ConsumerNext \/ Tick
BY DEF Next, ProducerNext, Handles, ProducerStep

\* What the backend keeps, each step of the contract keeps.
LEMMA BackendNext ==
    ASSUME BackendInv, Backend!Next \/ UNCHANGED contractVars
    PROVE  BackendInv'
<1> USE DEF BackendInv
<1>1. CASE UNCHANGED contractVars
  BY <1>1 DEF contractVars
<1>2. ASSUME NEW S \in SUBSET Messages,
             Backend!Offer(S) \/ Backend!Refuse(S) \/ Backend!Lose(S)
      PROVE  BackendInv'
  BY <1>2 DEF Backend!Offer, Backend!Refuse, Backend!Lose
<1>3. ASSUME NEW m \in Messages, NEW at \in 0 .. MaxTime, Backend!Accept(m, at)
      PROVE  BackendInv'
  BY <1>3, ApiAssumption DEF Backend!Accept
<1>4. ASSUME NEW m \in Messages, Backend!Hand(m)
      PROVE  BackendInv'
  BY <1>4 DEF Backend!Hand, Backend!Visible
<1>5. ASSUME NEW m \in Messages, Backend!Ack(m) \/ Backend!Return(m) \/ Backend!GiveUp(m)
      PROVE  BackendInv'
  BY <1>5 DEF Backend!Ack, Backend!Return, Backend!GiveUp
<1>6. CASE Backend!Tick
  BY <1>6 DEF Backend!Tick
<1> QED BY <1>1, <1>2, <1>3, <1>4, <1>5, <1>6 DEF Backend!Next

-----------------------------------------------------------------------------
(* Type correctness, and what reaches the backend *)

LEMMA ReachNext == ReachInv /\ [Next]_vars => ReachInv'
<1> SUFFICES ASSUME ReachInv, [Next]_vars PROVE ReachInv'
  OBVIOUS
<1> USE DEF ReachInv
\* No wrapper hides any of the three methods.
<1>1. ASSUME NEW S \in SUBSET Halves, NEW W \in {Delegated, Erased}
      PROVE  {"send_at", "try_receive", "shutdown_handle"} \subseteq Through(S, W)
  BY <1>1 DEF Through, Methods, Delegated, Erased, Halves, DelegatedProducer,
              DelegatedConsumer, ErasedProducer, ErasedConsumer,
              ProducerMethods, ConsumerMethods
<1>2. ASSUME NEW S \in Products, NEW dynamic \in BOOLEAN, Build(S, dynamic)
      PROVE  ReachInv'
  BY <1>1, <1>2 DEF Build, Products, Halves
<1>3. ASSUME NEW h \in Halves, Wrap(h) \/ IntoDyn(h)
      PROVE  ReachInv'
  BY <1>1, <1>3 DEF Wrap, IntoDyn
<1>4. CASE Shutdown \/ DropProducer \/ UNCHANGED vars \/ Tick
  BY <1>4 DEF Shutdown, DropProducer, vars, handleVars, Tick
<1>5. CASE ProducerStep
  BY <1>5, ProducersShare DEF handleVars
<1>6. CASE ConsumerNext
  BY <1>6 DEF ConsumerNext, ConsumerStep, CallReceive, CallTryReceive,
              CallReceiveBatch, CallGraceful, Start, OpenStream, ReceiveDone,
              PollHit, Collect, GracefulStop, PollMiss, ReceiveFails, PollFails,
              Cancel, Leave, DropStream, DropConsumer, Ack, Nack, Settled,
              handleVars
<1> QED BY <1>2, <1>3, <1>4, <1>5, <1>6, NextKinds DEF Handles

\* receive_batch stops before its Vec is longer than it was asked to be.
LEMMA VecType ==
    ASSUME TypeOK, NEW m \in Messages
    PROVE  /\ Vec(m) \in Seq(Messages) /\ Range(Vec(m)) \subseteq Messages
           /\ ~Full(Vec(m)) => call = "receive_batch" /\ Len(Vec(m)) < MaxBatch
<1>1. Vec(m) \in Seq(Messages) /\ Len(Vec(m)) \in Nat
  BY AppendProperties, LenProperties DEF Vec, TypeOK
<1>2. \A i \in DOMAIN Vec(m) : Vec(m)[i] \in Messages
  BY <1>1, ElementOfSeq, LenProperties
<1>3. ~Full(Vec(m)) => call = "receive_batch" /\ Len(Vec(m)) < max
  BY <1>1 DEF Full, TypeOK
<1>4. max <= MaxBatch
  BY ApiAssumption DEF TypeOK
<1> QED BY <1>1, <1>2, <1>3, <1>4, ApiAssumption DEF Range, TypeOK

LEMMA BatchElements ==
    ASSUME TypeOK
    PROVE  Range(batch) \subseteq Messages
<1>1. \A i \in DOMAIN batch : batch[i] \in Messages
  BY ElementOfSeq, LenProperties DEF TypeOK
<1> QED BY <1>1 DEF Range

LEMMA ReceiveType == TypeOK /\ ConsumerNext => TypeOK'
<1> SUFFICES ASSUME TypeOK, ConsumerNext PROVE TypeOK'
  OBVIOUS
<1> USE DEF contractVars, handleVars, sendVars, receiveVars, TypeOK
<1>0. /\ 0 \in 0 .. MaxBatch /\ <<>> \in Seq(Messages)
      /\ halves \ {"consumer"} \subseteq Halves
  BY ApiAssumption, EmptySeq
<1>1. CASE \/ CallReceive \/ CallTryReceive
           \/ \E n \in 0 .. MaxBatch : CallReceiveBatch(n)
  <2>1. CASE CallReceive \/ CallTryReceive
    BY <2>1 DEF CallReceive, CallTryReceive, Start
  <2>2. CASE \E n \in 0 .. MaxBatch : CallReceiveBatch(n)
    BY <2>2 DEF CallReceiveBatch, Start
  <2> QED BY <1>1, <2>1, <2>2
<1>2. ASSUME NEW c \in GracefulCalls, CallGraceful(c)
      PROVE  TypeOK'
  <2>1. CASE StopsAtOnce
    BY <1>0, <1>2, <2>1 DEF CallGraceful, Start, EndCall, Return, EndStream
  <2>2. CASE ~StopsAtOnce
    BY <1>2, <2>2 DEF CallGraceful, Start
  <2> QED BY <2>1, <2>2
<1>3. ASSUME NEW method \in {"messages", "into_stream"}, OpenStream(method)
      PROVE  TypeOK'
  BY <1>3 DEF OpenStream
<1>4. ASSUME NEW m \in Messages, ReceiveDone(m) \/ PollHit(m)
      PROVE  TypeOK'
  <2>1. Collect(m)
    BY <1>4 DEF ReceiveDone, PollHit
  <2>2. CASE Full(Vec(m))
    BY <1>0, <2>1, <2>2, VecType DEF Collect, Return
  <2>3. CASE ~Full(Vec(m))
    BY <2>1, <2>3, VecType DEF Collect
  <2> QED BY <2>2, <2>3
<1>5. CASE GracefulStop \/ PollMiss \/ ReceiveFails \/ PollFails \/ Cancel
  BY <1>0, <1>5, BatchElements
     DEF GracefulStop, PollMiss, ReceiveFails, PollFails, Cancel, Leave, EndCall,
         Return, EndStream
<1>6. CASE DropStream \/ DropConsumer
  <2>1. CASE DropStream
    BY <1>0, <2>1 DEF DropStream, Return, EndStream
  <2>2. CASE DropConsumer
    BY <1>0, <2>2 DEF DropConsumer
  <2> QED BY <1>6, <2>1, <2>2
<1>7. ASSUME NEW m \in Messages, Ack(m) \/ Nack(m)
      PROVE  TypeOK'
  BY <1>7 DEF Ack, Nack, Settled
<1> QED BY <1>1, <1>2, <1>3, <1>4, <1>5, <1>6, <1>7 DEF ConsumerNext, ConsumerStep

LEMMA SendType == TypeOK /\ ProducerStep => TypeOK'
<1> SUFFICES ASSUME TypeOK, ProducerStep PROVE TypeOK'
  OBVIOUS
<1> USE DEF TypeOK
<1>1. UNCHANGED <<handleVars, shutdown, receiveVars>>
  BY ProducersShare
<1> DEFINE SendOK == /\ given \in Seq(Messages) /\ ids \in Seq(Messages)
                     /\ send_state \in {"idle", "running", "doomed"}
                     /\ wanted \in [Messages -> 0 .. MaxTime]
<1>2. ASSUME NEW msgs \in Batches, SendBatch(msgs)
      PROVE  SendOK'
  BY <1>2, BatchType DEF SendBatch
<1>3. ASSUME BatchSends \/ BatchUnanswered
      PROVE  SendOK'
  <2>1. Upcoming \in Messages
    BY <1>3, UpcomingGiven DEF BatchSends, BatchUnanswered
  <2>2. Append(ids, Upcoming) \in Seq(Messages)
    BY <2>1, AppendProperties
  <2> QED BY <1>3, <2>2 DEF BatchSends, BatchUnanswered
<1>4. ASSUME BatchFails \/ BatchDone \/ CancelBatch
      PROVE  SendOK'
  BY <1>4, EmptySeq DEF BatchFails, BatchDone, CancelBatch, EndBatch
<1>5. ASSUME NEW m \in Messages, NEW at \in 1 .. MaxTime, SendAt(m, at)
      PROVE  SendOK'
  BY <1>5, ApiAssumption DEF SendAt
<1>6. ASSUME NEW m \in Messages, SendAtCompletes(m) \/ SendAtFails(m)
      PROVE  SendOK'
  BY <1>6 DEF SendAtCompletes, SendAtFails, sendVars
<1>7. SendOK'
  BY <1>2, <1>3, <1>4, <1>5, <1>6 DEF ProducerStep
<1> QED BY <1>1, <1>7 DEF handleVars, receiveVars

LEMMA TypeNext == TypeOK /\ [Next]_vars => TypeOK'
<1> SUFFICES ASSUME TypeOK, [Next]_vars PROVE TypeOK'
  OBVIOUS
<1> USE DEF TypeOK
<1>1. ASSUME NEW S, NEW W
      PROVE  Through(S, W) \subseteq reach
  BY DEF Through
<1> USE DEF contractVars, handleVars, sendVars, receiveVars
<1>2. CASE Handles
  <2>1. ASSUME NEW S \in Products, NEW dynamic \in BOOLEAN, Build(S, dynamic)
        PROVE  TypeOK'
    BY <1>1, <2>1 DEF Build, Products, Halves
  <2>2. ASSUME NEW h \in Halves, Wrap(h) \/ IntoDyn(h)
        PROVE  TypeOK'
    BY <1>1, <2>2 DEF Wrap, IntoDyn
  <2>3. CASE Shutdown \/ DropProducer \/ UNCHANGED vars
    BY <2>3 DEF Shutdown, DropProducer, vars
  <2> QED BY <1>2, <2>1, <2>2, <2>3 DEF Handles
<1>3. CASE Tick
  BY <1>3 DEF Tick
<1> QED BY <1>2, <1>3, NextKinds, ReceiveType, SendType

LEMMA TypeInit == Init => TypeOK
<1>1. <<>> \in Seq(Messages) /\ 0 \in 0 .. MaxTime /\ 0 \in 0 .. MaxBatch /\ 0 \in Nat
  BY ApiAssumption, EmptySeq
<1> QED BY <1>1 DEF Init, TypeOK

-----------------------------------------------------------------------------
(* What the producer has in its calls *)

\* How many messages of the batch the backend has.
Done == IF send_state = "doomed" THEN Len(ids) + 1 ELSE Len(ids)

\* The messages of a batch are accepted one after the other, and none of them
\* was scheduled.
GivenInv ==
    /\ \A m \in unsent \cup Range(given) : wanted[m] = 0
    /\ Range(given) \cap unsent = {}
    /\ \A i, j \in DOMAIN given : given[i] = given[j] => i = j
    /\ send_state = "idle" => given = <<>> /\ ids = <<>>
    /\ Done <= Len(given)
    /\ \A i \in 1 .. Len(ids) : ids[i] = given[i]
    /\ \A i \in DOMAIN given : given[i] \in IF i <= Done THEN accepted ELSE offered

SendInv == TypeOK /\ BackendInv /\ GivenInv

\* A new batch.
LEMMA GivenAtOnce ==
    ASSUME SendInv, NEW msgs \in Batches, SendBatch(msgs)
    PROVE  GivenInv'
<1>1. msgs \in Seq(Messages) /\ Len(msgs) \in Nat /\ DOMAIN msgs = 1 .. Len(msgs)
  BY BatchType, LenProperties
<1>2. /\ given = <<>> /\ ids = <<>> /\ ids' = <<>> /\ given' = msgs
      /\ send_state' = "running" /\ UNCHANGED <<wanted, accepted>>
      /\ unsent' = unsent \ Range(msgs) /\ offered' = offered \cup Range(msgs)
      /\ Range(msgs) \subseteq unsent
  BY DEF SendBatch, Sending, SendInv, GivenInv, Backend!Offer
<1>3. \A i, j \in DOMAIN msgs : msgs[i] = msgs[j] => i = j
  BY DEF Batches
<1>4. \A i \in DOMAIN msgs : msgs[i] \in Range(msgs)
  BY DEF Range
<1> QED BY <1>1, <1>2, <1>3, <1>4 DEF GivenInv, SendInv, Done

\* One message more is accepted.
LEMMA GivenOneByOne ==
    ASSUME SendInv, BatchSends \/ BatchUnanswered
    PROVE  GivenInv'
<1> USE DEF SendInv, TypeOK, GivenInv
<1>1. /\ Len(ids) \in Nat /\ Len(given) \in Nat /\ DOMAIN given = 1 .. Len(given)
      /\ send_state = "running" /\ Len(ids) < Len(given)
      /\ UNCHANGED <<given, unsent, wanted>>
      /\ offered' = offered \ {Upcoming} /\ accepted' = accepted \cup {Upcoming}
  BY LenProperties DEF BatchSends, BatchUnanswered, Backend!Accept
<1>2. Upcoming = given[Len(ids) + 1] /\ Upcoming \in Messages
  BY <1>1, UpcomingGiven DEF Upcoming
<1>3. /\ Done = Len(ids) /\ Done' = Len(ids) + 1 /\ send_state' # "idle"
      /\ Len(ids') \in Nat
      /\ \A i \in 1 .. Len(ids') : ids'[i] = given[i]
  <2>1. CASE BatchSends
    BY <1>1, <1>2, <2>1, AppendProperties DEF BatchSends, Done
  <2>2. CASE BatchUnanswered
    BY <1>1, <2>2 DEF BatchUnanswered, Done
  <2> QED BY <2>1, <2>2
<1>4. ASSUME NEW i \in DOMAIN given
      PROVE  given[i] \in IF i <= Done' THEN accepted' ELSE offered'
  <2>0. i \in Nat /\ Len(ids) + 1 \in DOMAIN given
    BY <1>1
  <2>1. CASE i <= Len(ids)
    <3>1. given[i] \in accepted
      BY <1>3, <2>1
    <3> QED BY <1>1, <1>3, <2>0, <2>1, <3>1
  <2>2. CASE i = Len(ids) + 1
    BY <1>1, <1>2, <1>3, <2>2
  <2>3. CASE i > Len(ids) + 1
    <3>1. given[i] \in offered /\ given[i] # Upcoming
      BY <1>1, <1>2, <1>3, <2>0, <2>3
    <3> QED BY <1>1, <1>3, <2>0, <2>3, <3>1
  <2> QED BY <1>1, <2>0, <2>1, <2>2, <2>3
<1> QED BY <1>1, <1>3, <1>4

LEMMA GivenNext == SendInv /\ [Next]_vars => GivenInv'
<1> SUFFICES ASSUME SendInv, [Next]_vars PROVE GivenInv'
  OBVIOUS
<1>0. TypeOK /\ BackendInv /\ GivenInv
  BY DEF SendInv
<1>1. CASE UNCHANGED <<sendVars, unsent, offered, accepted>>
  BY <1>0, <1>1 DEF GivenInv, Done, sendVars
<1>2. CASE Handles \/ Tick
  BY <1>1, <1>2, HandlesShare DEF Tick, Backend!Tick, contractVars
<1>3. CASE ConsumerNext
  BY <1>0, <1>1, <1>3, ConsumersShare
<1>4. ASSUME NEW msgs \in Batches, SendBatch(msgs)
      PROVE  GivenInv'
  BY <1>4, GivenAtOnce
<1>5. CASE BatchSends \/ BatchUnanswered
  BY <1>5, GivenOneByOne
<1>6. CASE BatchFails \/ BatchDone \/ CancelBatch
  <2>1. /\ given' = <<>> /\ ids' = <<>> /\ send_state' = "idle"
        /\ UNCHANGED <<unsent, wanted>>
    BY <1>6 DEF BatchFails, BatchDone, CancelBatch, EndBatch, Backend!Refuse
  <2> QED BY <1>0, <2>1 DEF GivenInv, Done, Range
\* A scheduled message is in no batch.
<1>7. ASSUME NEW m \in Messages, m \notin Range(given),
             UNCHANGED <<given, ids, send_state>>, unsent' \subseteq unsent,
             \A x \in unsent' \cup Range(given) : wanted'[x] = wanted[x],
             accepted \subseteq accepted', offered \ {m} \subseteq offered'
      PROVE  GivenInv'
  <2>1. \A i \in DOMAIN given : given[i] # m
    BY <1>7 DEF Range
  <2> QED BY <1>0, <1>7, <2>1 DEF GivenInv, Done
<1>8. ASSUME NEW m \in Messages, NEW at \in 1 .. MaxTime, SendAt(m, at)
      PROVE  GivenInv'
  <2>1. m \in unsent /\ unsent' = unsent \ {m} /\ offered' = offered \cup {m}
        /\ wanted' = [wanted EXCEPT ![m] = at]
        /\ UNCHANGED <<given, ids, send_state, accepted>>
    BY <1>8 DEF SendAt, Backend!Offer
  <2>2. m \notin Range(given)
    BY <1>0, <2>1 DEF GivenInv
  <2>3. \A x \in unsent' \cup Range(given) : wanted'[x] = wanted[x]
    BY <1>0, <2>1, <2>2 DEF TypeOK
  <2> QED BY <1>7, <2>1, <2>2, <2>3
<1>9. ASSUME NEW m \in Messages, SendAtCompletes(m) \/ SendAtFails(m)
      PROVE  GivenInv'
  <2>1. m \notin Range(given)
    BY <1>0, <1>9 DEF GivenInv, SendAtCompletes, SendAtFails
  <2> QED BY <1>7, <1>9, <2>1
          DEF SendAtCompletes, SendAtFails, Backend!Accept, Backend!Refuse, sendVars
<1> QED BY <1>2, <1>3, <1>4, <1>5, <1>6, <1>8, <1>9, NextKinds DEF ProducerStep

\* Every step of the API is one of the contract or leaves the backend alone.
LEMMA BackendStep ==
    ASSUME TypeOK, BackendInv, [Next]_vars
    PROVE  Backend!Next \/ UNCHANGED contractVars
<1>1. CASE Handles
  BY <1>1, HandlesShare
<1>2. CASE ProducerStep
  BY <1>2, ProducerContract DEF TypeOK
<1>3. CASE ConsumerNext
  BY <1>3, ConsumersShare
<1>4. CASE Tick
  BY <1>4 DEF Tick, Backend!Next
<1> QED BY <1>1, <1>2, <1>3, <1>4, NextKinds

LEMMA SendInit == Init => GivenInv
<1> SUFFICES ASSUME Init PROVE GivenInv
  OBVIOUS
<1>1. given = <<>> /\ ids = <<>> /\ send_state = "idle" /\ Range(given) = {}
  BY DEF Init, Range
<1>2. \A m \in unsent : wanted[m] = 0
  BY DEF Init, Backend!Init
<1> QED BY <1>1, <1>2 DEF GivenInv, Done

\* What all the theorems below rest on.
LEMMA Common == Spec => [](SendInv /\ ReachInv)
<1>1. Init => SendInv /\ ReachInv
  BY TypeInit, BackendInit, SendInit DEF SendInv
<1>2. SendInv /\ ReachInv /\ [Next]_vars => SendInv' /\ ReachInv'
  BY TypeNext, BackendStep, BackendNext, GivenNext, ReachNext DEF SendInv
<1> QED BY <1>1, <1>2, PTL DEF Spec

\* The locals of every call, the handles and the counters have their types.
THEOREM ApiTypeCorrect == Spec => []TypeOK
<1>1. SendInv => TypeOK
  BY DEF SendInv
<1> QED BY <1>1, Common, PTL

-----------------------------------------------------------------------------
(* send_batch and send_at *)

LEMMA IdsAreFirst ==
    ASSUME SendInv
    PROVE  /\ ids = SubSeq(given, 1, Len(ids))
           /\ Len(ids) = Len(given) => ids = given
<1> USE DEF SendInv, TypeOK, GivenInv
<1>1. /\ Len(ids) \in Nat /\ Len(given) \in Nat /\ Len(ids) <= Len(given)
      /\ DOMAIN given = 1 .. Len(given)
  BY LenProperties DEF Done
<1>2. \A i \in 1 .. Len(ids) : given[i] \in Messages
  BY <1>1, ElementOfSeq
<1>3. /\ SubSeq(given, 1, Len(ids)) \in Seq(Messages)
      /\ Len(SubSeq(given, 1, Len(ids))) = Len(ids)
      /\ \A i \in 1 .. Len(ids) : SubSeq(given, 1, Len(ids))[i] = given[i]
  BY <1>1, <1>2, SubSeqProperties
<1>4. ids = SubSeq(given, 1, Len(ids))
  BY <1>3, SeqEqual
<1>5. ASSUME Len(ids) = Len(given)
      PROVE  ids = given
  BY <1>5, SeqEqual
<1> QED BY <1>4, <1>5

\* send_batch sends its messages in their order, returns the ids of those the
\* backend took, and lets the others go, also when it fails or is dropped.
THEOREM BatchesArePrefixes == Spec => BatchPrefix
<1> DEFINE sent == Range(given) \cap accepted
<1>1. ASSUME SendInv, Next, Sending, ~Sending'
      PROVE  /\ ids = SubSeq(given, 1, Len(ids))
             /\ Range(ids) \subseteq sent
             /\ \A i \in Len(ids) + 2 .. Len(given) : given[i] \notin sent
             /\ BatchDone => ids = given
             /\ Range(given) \cap offered' = {}
  <2>0. /\ Len(ids) \in Nat /\ Len(given) \in Nat /\ DOMAIN given = 1 .. Len(given)
        /\ DOMAIN ids = 1 .. Len(ids)
        /\ Done \in {Len(ids), Len(ids) + 1} /\ Done <= Len(given)
    BY <1>1, LenProperties DEF SendInv, TypeOK, GivenInv, Done
  <2>1. EndBatch
    <3>1. ~ UNCHANGED send_state /\ send_state' = "idle"
      BY <1>1 DEF Sending, SendInv, TypeOK
    <3>2. ~(Handles \/ Tick \/ ConsumerNext)
      BY <1>1, <3>1, HandlesShare, ConsumersShare DEF Tick, sendVars, SendInv
    <3>3. ProducerStep
      BY <1>1, <3>2, NextKinds
    <3> QED BY <3>1, <3>3
            DEF ProducerStep, SendBatch, BatchSends, BatchUnanswered, BatchFails,
                BatchDone, CancelBatch, SendAt, SendAtCompletes, SendAtFails, sendVars
  <2>2. Range(given) \cap offered' = {}
    BY <2>1 DEF EndBatch, Backend!Refuse, Unprocessed
  <2>3. Range(ids) \subseteq sent
    <3>1. ASSUME NEW i \in 1 .. Len(ids)
          PROVE  ids[i] \in sent
      <4>1. i \in DOMAIN given /\ i <= Done /\ ids[i] = given[i]
        BY <1>1, <2>0 DEF SendInv, GivenInv
      <4> QED BY <1>1, <4>1 DEF SendInv, GivenInv, Range
    <3> QED BY <2>0, <3>1 DEF Range
  <2>4. ASSUME NEW i \in Len(ids) + 2 .. Len(given)
        PROVE  given[i] \notin sent
    <3>1. i \in DOMAIN given /\ ~(i <= Done)
      BY <2>0
    <3>2. given[i] \in offered
      BY <1>1, <3>1 DEF SendInv, GivenInv
    <3> QED BY <1>1, <3>2 DEF SendInv, BackendInv
  <2> QED BY <1>1, <2>2, <2>3, <2>4, IdsAreFirst DEF BatchDone
<1>2. SendInv /\ [Next]_vars =>
         [Sending /\ ~Sending' =>
             LET s == Range(given) \cap accepted IN
             /\ ids = SubSeq(given, 1, Len(ids))
             /\ Range(ids) \subseteq s
             /\ \A i \in Len(ids) + 2 .. Len(given) : given[i] \notin s
             /\ BatchDone => ids = given
             /\ Range(given) \cap offered' = {}]_vars
  BY <1>1
<1> QED BY <1>2, Common, PTL DEF Spec, BatchPrefix

\* What waits is visible when it should be, and what was received was due.
ScheduleInv ==
    "send_at" \in overrides =>
        /\ \A m \in waiting \cup out : wanted[m] <= not_before[m]
        /\ \A m \in Messages : attempts[m] > 0 => wanted[m] <= now

LEMMA ConsumersReceive ==
    ASSUME BackendInv, ConsumerNext
    PROVE  /\ waiting' \cup out' \subseteq waiting \cup out
           /\ \A m \in Messages :
                 attempts'[m] > 0 =>
                    attempts[m] > 0 \/ (m \in waiting /\ not_before[m] <= now)
<1>1. /\ Backend!Next \/ UNCHANGED contractVars
      /\ UNCHANGED <<unsent, offered, accepted, not_before, now>>
  BY ConsumersShare
<1>2. CASE UNCHANGED contractVars
  BY <1>2 DEF contractVars
<1>3. ASSUME NEW S \in SUBSET Messages,
             Backend!Offer(S) \/ Backend!Refuse(S) \/ Backend!Lose(S)
      PROVE  /\ waiting' \cup out' \subseteq waiting \cup out
             /\ attempts' = attempts
  BY <1>3 DEF Backend!Offer, Backend!Refuse, Backend!Lose
<1>4. ASSUME NEW m \in Messages, NEW at \in 0 .. MaxTime, Backend!Accept(m, at)
      PROVE  FALSE
  BY <1>1, <1>4 DEF Backend!Accept, BackendInv
<1>5. ASSUME NEW m \in Messages, Backend!Hand(m)
      PROVE  /\ waiting' \cup out' \subseteq waiting \cup out
             /\ \A x \in Messages :
                   attempts'[x] > 0 =>
                      attempts[x] > 0 \/ (x \in waiting /\ not_before[x] <= now)
  BY <1>5 DEF Backend!Hand, Backend!Visible, BackendInv
<1>6. ASSUME NEW m \in Messages, Backend!Ack(m) \/ Backend!Return(m) \/ Backend!GiveUp(m)
      PROVE  /\ waiting' \cup out' \subseteq waiting \cup out
             /\ attempts' = attempts
  BY <1>6 DEF Backend!Ack, Backend!Return, Backend!GiveUp
<1>7. ~Backend!Tick
  BY <1>1 DEF Backend!Tick, BackendInv
<1> QED BY <1>1, <1>2, <1>3, <1>4, <1>5, <1>6, <1>7 DEF Backend!Next

LEMMA ScheduleNext == SendInv /\ ReachInv /\ ScheduleInv /\ [Next]_vars => ScheduleInv'
<1> SUFFICES ASSUME SendInv, ReachInv, ScheduleInv, [Next]_vars,
                    "send_at" \in overrides'
             PROVE  /\ \A m \in waiting' \cup out' : wanted'[m] <= not_before'[m]
                    /\ \A m \in Messages : attempts'[m] > 0 => wanted'[m] <= now'
  BY DEF ScheduleInv
<1> DEFINE Goal == /\ \A m \in waiting' \cup out' : wanted'[m] <= not_before'[m]
                   /\ \A m \in Messages : attempts'[m] > 0 => wanted'[m] <= now'
<1>0. /\ TypeOK /\ BackendInv /\ GivenInv
      /\ waiting \cup out \subseteq Messages
      /\ wanted \in [Messages -> Nat]
  <2>1. 0 .. MaxTime \subseteq Nat
    BY ApiAssumption
  <2> QED BY <2>1 DEF SendInv, TypeOK, BackendInv
<1>1. "send_at" \in overrides
  BY HandlesShare, ConsumersShare, ProducersShare, NextKinds, <1>0
     DEF handleVars, Tick
<1>2. /\ \A m \in waiting \cup out : wanted[m] <= not_before[m]
      /\ \A m \in Messages : attempts[m] > 0 => wanted[m] <= now
  BY <1>1 DEF ScheduleInv
<1>3. ASSUME Handles
      PROVE  Goal
  BY <1>2, <1>3, HandlesShare DEF contractVars, sendVars
<1>4. ASSUME Tick
      PROVE  Goal
  BY <1>0, <1>2, <1>4 DEF Tick, Backend!Tick, sendVars, BackendInv
<1>5. ASSUME ConsumerNext
      PROVE  Goal
  <2>1. /\ UNCHANGED <<wanted, not_before, now>>
        /\ waiting' \cup out' \subseteq waiting \cup out
        /\ \A m \in Messages :
              attempts'[m] > 0 =>
                 attempts[m] > 0 \/ (m \in waiting /\ not_before[m] <= now)
    BY <1>0, <1>5, ConsumersShare, ConsumersReceive DEF sendVars
  <2> QED BY <1>0, <1>2, <2>1 DEF BackendInv
\* A message is accepted with the deadline it was given.
<1>6. ASSUME NEW m \in Messages, NEW at, Backend!Accept(m, at),
             wanted[m] <= at, UNCHANGED wanted
      PROVE  Goal
  <2>1. /\ waiting' = waiting \cup {m} /\ UNCHANGED <<out, attempts, now>>
        /\ not_before' = [not_before EXCEPT ![m] = at]
    BY <1>6 DEF Backend!Accept
  <2> QED BY <1>0, <1>2, <1>6, <2>1 DEF BackendInv
<1>7. ASSUME UNCHANGED <<waiting, out, attempts, not_before, now>>,
             \A m \in accepted : wanted'[m] = wanted[m]
      PROVE  Goal
  <2>1. \A m \in Messages : attempts[m] > 0 => m \in accepted
    BY <1>0 DEF BackendInv
  <2> QED BY <1>0, <1>2, <1>7, <2>1 DEF BackendInv
<1>8. ASSUME \/ \E msgs \in Batches : SendBatch(msgs)
             \/ BatchFails \/ BatchDone \/ CancelBatch
      PROVE  Goal
  BY <1>7, <1>8 DEF SendBatch, BatchFails, BatchDone, CancelBatch, EndBatch,
                    Backend!Offer, Backend!Refuse
<1>9. ASSUME BatchSends \/ BatchUnanswered
      PROVE  Goal
  <2>1. Upcoming \in Messages /\ Upcoming \in Range(given)
    BY <1>0, <1>9, UpcomingGiven DEF TypeOK, BatchSends, BatchUnanswered
  <2>2. wanted[Upcoming] <= 0
    BY <1>0, <2>1 DEF GivenInv
  <2> QED BY <1>6, <1>9, <2>1, <2>2 DEF BatchSends, BatchUnanswered
<1>10. ASSUME NEW m \in Messages, NEW at \in 1 .. MaxTime, SendAt(m, at)
       PROVE  Goal
  <2>1. m \notin accepted
    BY <1>0, <1>10 DEF SendAt, Backend!Offer, BackendInv
  <2> QED BY <1>0, <1>7, <1>10, <2>1 DEF SendAt, Backend!Offer, BackendInv
<1>11. ASSUME NEW m \in Messages, SendAtCompletes(m)
       PROVE  Goal
  <2>1. Native("send_at")
    BY <1>1 DEF Native, ReachInv
  <2>2. wanted[m] <= wanted[m]
    BY <1>0
  <2> QED BY <1>6, <1>11, <2>1, <2>2 DEF SendAtCompletes, sendVars
<1>12. ASSUME NEW m \in Messages, SendAtFails(m)
       PROVE  Goal
  BY <1>7, <1>12 DEF SendAtFails, Backend!Refuse, sendVars
<1> QED BY <1>3, <1>4, <1>5, <1>8, <1>9, <1>10, <1>11, <1>12, NextKinds
        DEF ProducerStep

\* No wrapper and no way of calling makes a message that was scheduled on a
\* backend that schedules visible before its time.
THEOREM SchedulesHonoured == Spec => []ScheduleHonoured
<1>1. Init => ScheduleInv
  BY DEF Init, Backend!Init, ScheduleInv
<1>2. ScheduleInv => ScheduleHonoured
  BY DEF ScheduleInv, ScheduleHonoured
<1> QED BY <1>1, <1>2, ScheduleNext, Common, PTL DEF Spec

-----------------------------------------------------------------------------
(* The consumer's calls *)

\* The locals of a call are empty outside it, and only receive_batch polls with
\* something in its Vec.
CallInv ==
    /\ pc \in {"unbuilt", "idle"} => call = "none"
    /\ pc = "poll" => call \in {"try_receive", "receive_batch"}
    /\ stream # "none" => call \in {"none", "next"}
    /\ batch # <<>> => pc = "poll" /\ call = "receive_batch"
    /\ pc = "poll" /\ call = "receive_batch" => batch # <<>> /\ Len(batch) < max

\* A received message is either in the application's hands or in the Vec.
HandsInv ==
    /\ owned \cup Range(batch) \subseteq out
    /\ owned \cap Range(batch) = {}

ReceiveInv == SendInv /\ CallInv /\ HandsInv

LEMMA NoRange == Range(<<>>) = {}
BY DEF Range

\* The Vec with one more delivery.
LEMMA VecRange ==
    ASSUME TypeOK, NEW m \in Messages
    PROVE  /\ Range(Vec(m)) = Range(batch) \cup {m}
           /\ Len(Vec(m)) = Len(batch) + 1 /\ Vec(m) # <<>>
<1>1. /\ Len(Vec(m)) = Len(batch) + 1 /\ Len(batch) \in Nat
      /\ Vec(m) \in Seq(Messages)
      /\ \A i \in 1 .. Len(batch) : Vec(m)[i] = batch[i]
      /\ Vec(m)[Len(batch) + 1] = m
  BY AppendProperties, LenProperties DEF Vec, TypeOK
<1>2. DOMAIN batch = 1 .. Len(batch) /\ DOMAIN Vec(m) = 1 .. Len(batch) + 1
  BY <1>1, LenProperties DEF TypeOK
<1>3. Len(Vec(m)) # 0
  BY <1>1
<1>4. Vec(m) # <<>>
  BY <1>3
<1>5. ASSUME NEW x
      PROVE  x \in Range(Vec(m)) <=> x \in Range(batch) \/ x = m
  <2>1. \A i \in DOMAIN Vec(m) : i \in DOMAIN batch \/ i = Len(batch) + 1
    BY <1>1, <1>2
  <2>2. Len(batch) + 1 \in DOMAIN Vec(m) /\ DOMAIN batch \subseteq DOMAIN Vec(m)
    BY <1>1, <1>2
  <2> QED BY <1>1, <1>2, <2>1, <2>2 DEF Range
<1> QED BY <1>1, <1>4, <1>5

LEMMA CallNext == TypeOK /\ CallInv /\ [Next]_vars => CallInv'
<1> SUFFICES ASSUME TypeOK, CallInv, [Next]_vars PROVE CallInv'
  OBVIOUS
<1> USE DEF CallInv, receiveVars
<1>0. max \in Nat
  BY ApiAssumption DEF TypeOK
<1>1. CASE Handles
  BY <1>1 DEF Handles, Build, Wrap, IntoDyn, Shutdown, DropProducer, vars
<1>2. CASE ProducerStep \/ Tick
  BY <1>2, ProducersShare DEF Tick
<1>3. CASE \/ CallReceive \/ CallTryReceive
           \/ \E n \in 0 .. MaxBatch : CallReceiveBatch(n)
           \/ \E method \in {"messages", "into_stream"} : OpenStream(method)
  <2>1. CASE CallReceive \/ CallTryReceive
    BY <2>1 DEF CallReceive, CallTryReceive, Start
  <2>2. ASSUME NEW n \in 0 .. MaxBatch, CallReceiveBatch(n)
        PROVE  CallInv'
    BY <2>2 DEF CallReceiveBatch, Start
  <2>3. ASSUME NEW method \in {"messages", "into_stream"}, OpenStream(method)
        PROVE  CallInv'
    BY <2>3 DEF OpenStream
  <2> QED BY <1>3, <2>1, <2>2, <2>3
<1>4. ASSUME NEW c \in GracefulCalls, CallGraceful(c)
      PROVE  CallInv'
  <2>1. CASE StopsAtOnce
    BY <1>4, <2>1 DEF CallGraceful, EndCall, Return
  <2>2. CASE ~StopsAtOnce
    BY <1>4, <2>2 DEF CallGraceful, Start, GracefulCalls
  <2> QED BY <2>1, <2>2
<1>5. ASSUME NEW m \in Messages, ReceiveDone(m) \/ PollHit(m)
      PROVE  CallInv'
  <2>1. Collect(m) /\ pc \in {"receive", "poll"}
    BY <1>5 DEF ReceiveDone, PollHit
  <2>2. CASE Full(Vec(m))
    BY <2>1, <2>2 DEF Collect, Return
  <2>3. CASE ~Full(Vec(m))
    <3>1. /\ pc' = "poll" /\ batch' = Vec(m) /\ call' = "receive_batch"
          /\ UNCHANGED <<max, stream>> /\ stream = "none" /\ Len(Vec(m)) < max
      <4>1. call = "receive_batch" /\ Len(Vec(m)) < max
        <5>1. Len(Vec(m)) \in Nat
          BY VecType, LenProperties
        <5> QED BY <1>0, <2>3, <5>1 DEF Full
      <4> QED BY <2>1, <2>3, <4>1 DEF Collect
    <3> QED BY <3>1, VecRange
  <2> QED BY <2>2, <2>3
<1>6. CASE GracefulStop \/ PollMiss \/ ReceiveFails \/ PollFails \/ Cancel
  BY <1>6 DEF GracefulStop, PollMiss, ReceiveFails, PollFails, Cancel, Leave,
              EndCall, Return
<1>7. CASE DropStream \/ DropConsumer
  BY <1>7 DEF DropStream, DropConsumer, Return
<1>8. ASSUME NEW m \in Messages, Ack(m) \/ Nack(m)
      PROVE  CallInv'
  BY <1>8 DEF Ack, Nack, Settled
<1> QED BY <1>1, <1>2, <1>3, <1>4, <1>5, <1>6, <1>7, <1>8, NextKinds
        DEF ConsumerNext, ConsumerStep

LEMMA LetGoOut ==
    ASSUME NEW S, LetGo(S)
    PROVE  out \ S \subseteq out' /\ out' \subseteq out
BY DEF LetGo, Backend!Lose, contractVars

\* What a step of the consumer does to the deliveries: nothing; one more is
\* received; those of a Vec are returned, or dropped with it; one is settled.
Nothing   == out' = out /\ owned' = owned /\ batch' = batch
Received(m) ==
    /\ ReceiveDone(m) \/ PollHit(m)
    /\ m \notin out /\ out' = out \cup {m}
    /\ \/ owned' = owned \cup Range(Vec(m)) /\ batch' = <<>>
       \/ owned' = owned /\ batch' = Vec(m)
VecReturned == PollMiss /\ out' = out /\ owned' = owned \cup Range(batch) /\ batch' = <<>>
VecDropped  ==
    /\ PollFails \/ Cancel
    /\ out \ Range(batch) \subseteq out' /\ out' \subseteq out
    /\ owned' = owned /\ batch' = <<>>
SettledOne(m) ==
    m \in owned /\ out' = out \ {m} /\ owned' = owned \ {m} /\ batch' = batch

LEMMA DeliveryKinds ==
    ASSUME ReceiveInv, ConsumerNext
    PROVE  \/ Nothing \/ VecReturned \/ VecDropped
           \/ \E m \in Messages : Received(m) \/ SettledOne(m)
<1>0. /\ TypeOK /\ BackendInv /\ CallInv /\ waiting \cap out = {}
      /\ waiting \cup out \subseteq Messages
  BY DEF ReceiveInv, SendInv, BackendInv
<1>1. CASE \/ CallReceive \/ CallTryReceive
           \/ \E n \in 0 .. MaxBatch : CallReceiveBatch(n)
           \/ \E method \in {"messages", "into_stream"} : OpenStream(method)
  BY <1>1 DEF CallReceive, CallTryReceive, CallReceiveBatch, Start, OpenStream,
              Nothing, contractVars
\* Letting go of what waits changes no delivery.
<1>2. ASSUME NEW S \in SUBSET waiting, LetGo(S)
      PROVE  out' = out
  BY <1>0, <1>2, LetGoOut
<1>3. ASSUME NEW c, NEW S \in SUBSET waiting, EndCall(c, S)
      PROVE  out' = out /\ batch' = <<>>
  <2>1. CASE halves' = halves
    BY <1>2, <1>3, <2>1 DEF EndCall, Return
  <2>2. CASE halves' # halves
    <3>1. LetGo(waiting)
      BY <1>3, <2>2 DEF EndCall
    <3> QED BY <1>2, <1>3, <3>1 DEF EndCall, Return
  <2> QED BY <2>1, <2>2
<1>4. ASSUME NEW c \in GracefulCalls, CallGraceful(c)
      PROVE  Nothing
  <2>1. batch = <<>> /\ owned' = owned
    BY <1>0, <1>4 DEF CallGraceful, Start, CallInv
  <2>2. CASE StopsAtOnce
    <3>1. EndCall(c, {})
      BY <1>4, <2>2 DEF CallGraceful
    <3>2. out' = out /\ batch' = <<>>
      BY <1>3, <3>1
    <3> QED BY <2>1, <3>2 DEF Nothing
  <2>3. CASE ~StopsAtOnce
    BY <1>4, <2>1, <2>3 DEF CallGraceful, Start, Nothing, contractVars
  <2> QED BY <2>2, <2>3
<1>5. ASSUME NEW m \in Messages, ReceiveDone(m) \/ PollHit(m)
      PROVE  Received(m)
  <2>1. Collect(m)
    BY <1>5 DEF ReceiveDone, PollHit
  <2>2. m \notin out /\ out' = out \cup {m}
    BY <1>0, <2>1 DEF Collect, Backend!Hand, Backend!Visible
  <2>3. \/ owned' = owned \cup Range(Vec(m)) /\ batch' = <<>>
        \/ owned' = owned /\ batch' = Vec(m)
    BY <2>1 DEF Collect, Return
  <2> QED BY <1>5, <2>2, <2>3 DEF Received
<1>6. CASE GracefulStop \/ ReceiveFails
  <2>1. EndCall(call, waiting) \/ EndCall(call, {})
    BY <1>6 DEF GracefulStop, ReceiveFails, Leave
  <2>2. out' = out /\ batch' = <<>>
    BY <1>3, <2>1
  <2>3. batch = <<>> /\ owned' = owned
    BY <1>0, <1>6 DEF GracefulStop, ReceiveFails, CallInv
  <2> QED BY <2>2, <2>3 DEF Nothing
<1>7. CASE PollMiss
  <2>1. EndCall(call, waiting) \/ EndCall(call, {})
    BY <1>7 DEF PollMiss, Leave
  <2>2. out' = out /\ batch' = <<>>
    BY <1>3, <2>1
  <2> QED BY <1>7, <2>2 DEF PollMiss, VecReturned
<1>8. CASE PollFails \/ Cancel
  <2>1. PICK S \in SUBSET (waiting \cup Range(batch)) : EndCall(call, S)
    BY <1>8 DEF PollFails, Cancel, Leave
  <2>2. LetGo(S) \/ LetGo(waiting)
    BY <2>1 DEF EndCall
  <2>3. out \ Range(batch) \subseteq out' /\ out' \subseteq out
    BY <1>0, <2>2, LetGoOut
  <2> QED BY <1>8, <2>1, <2>3 DEF PollFails, Cancel, EndCall, Return, VecDropped
<1>9. CASE DropStream
  <2>1. LetGo(waiting) \/ LetGo({})
    BY <1>9 DEF DropStream
  <2>2. out' = out
    BY <1>2, <2>1
  <2>3. batch = <<>> /\ batch' = <<>> /\ owned' = owned
    BY <1>0, <1>9 DEF DropStream, Return, CallInv
  <2> QED BY <2>2, <2>3 DEF Nothing
<1>10. CASE DropConsumer
  BY <1>2, <1>10 DEF DropConsumer, receiveVars, Nothing
<1>11. ASSUME NEW m \in Messages, Ack(m) \/ Nack(m)
       PROVE  SettledOne(m)
  BY <1>11 DEF Ack, Nack, Settled, SettledOne, Backend!Ack, Backend!Return,
               Backend!GiveUp, Backend!Lose
<1> QED BY <1>1, <1>4, <1>5, <1>6, <1>7, <1>8, <1>9, <1>10, <1>11
        DEF ConsumerNext, ConsumerStep

LEMMA OthersKeepHands ==
    ASSUME Handles \/ ProducerStep \/ Tick
    PROVE  Nothing
BY HandlesShare, ProducersShare
   DEF Handles, Build, Wrap, IntoDyn, Shutdown, DropProducer, vars, Tick,
       Backend!Tick, contractVars, receiveVars, Nothing

LEMMA HandsNext == ReceiveInv /\ [Next]_vars => HandsInv'
<1> SUFFICES ASSUME ReceiveInv, [Next]_vars PROVE HandsInv'
  OBVIOUS
<1>0. TypeOK /\ HandsInv
  BY DEF ReceiveInv, SendInv
<1>1. CASE Nothing
  BY <1>0, <1>1 DEF Nothing, HandsInv
<1>2. CASE VecReturned \/ VecDropped
  BY <1>0, <1>2, NoRange DEF VecReturned, VecDropped, HandsInv
<1>3. ASSUME NEW m \in Messages, Received(m)
      PROVE  HandsInv'
  BY <1>0, <1>3, VecRange, NoRange DEF Received, HandsInv
<1>4. ASSUME NEW m \in Messages, SettledOne(m)
      PROVE  HandsInv'
  BY <1>0, <1>4 DEF SettledOne, HandsInv
<1> QED BY <1>1, <1>2, <1>3, <1>4, DeliveryKinds, OthersKeepHands, NextKinds

LEMMA Consuming == Spec => []ReceiveInv
<1>1. Init => CallInv /\ HandsInv
  BY NoRange DEF Init, CallInv, HandsInv
<1>2. ReceiveInv /\ [Next]_vars => CallInv' /\ HandsInv'
  BY CallNext, HandsNext DEF ReceiveInv, SendInv
<1> QED BY <1>1, <1>2, Common, PTL DEF Spec, ReceiveInv

-----------------------------------------------------------------------------
(* receive_batch *)

\* A Vec holds no more messages than its length says.
LEMMA RangeSize ==
    ASSUME NEW S, NEW s \in Seq(S)
    PROVE  IsFiniteSet(Range(s)) /\ Cardinality(Range(s)) <= Len(s)
<1>1. Len(s) \in Nat /\ s \in [1 .. Len(s) -> S] /\ DOMAIN s = 1 .. Len(s)
  BY LenProperties
<1>2. IsFiniteSet(1 .. Len(s)) /\ Cardinality(1 .. Len(s)) = Len(s)
  BY <1>1, FS_Interval
<1>3. s \in Surjection(1 .. Len(s), Range(s))
  BY <1>1 DEF Surjection, Range
<1> QED BY <1>2, <1>3, FS_Surjection

LEMMA Returned ==
    ASSUME NEW S, NEW s \in Seq(S), NEW R \in SUBSET Range(s)
    PROVE  Cardinality(R) \in Nat /\ Cardinality(R) <= Len(s)
<1>1. IsFiniteSet(Range(s)) /\ Cardinality(Range(s)) <= Len(s) /\ Len(s) \in Nat
  BY RangeSize, LenProperties
<1>2. IsFiniteSet(R) /\ Cardinality(R) <= Cardinality(Range(s))
  BY <1>1, FS_Subset
<1> QED BY <1>1, <1>2, FS_CardinalityType

\* A receive_batch returns between one and max deliveries, receive_batch(0) one,
\* and every other call at most one.
THEOREM BatchesBounded == Spec => BatchBounds
<1> DEFINE returned == owned' \ owned
           Bound == IF call = "receive_batch" /\ max > 1 THEN max ELSE 1
           Bounded == /\ returned # {} => Cardinality(returned) <= Bound
                      /\ PollMiss /\ call = "receive_batch" => returned # {}
<1>1. ASSUME ReceiveInv, [Next]_vars
      PROVE  Bounded
  <2>0. /\ TypeOK /\ CallInv /\ HandsInv /\ max \in Nat /\ Bound \in Nat
        /\ batch \in Seq(Messages) /\ Len(batch) \in Nat
    <3>1. 0 .. MaxBatch \subseteq Nat
      BY ApiAssumption
    <3> QED BY <1>1, <3>1, LenProperties DEF ReceiveInv, SendInv, TypeOK
  <2>1. ASSUME owned' \subseteq owned, ~PollMiss
        PROVE  Bounded
    BY <2>1
  <2>2. CASE PollMiss
    <3>1. owned' = owned \cup Range(batch)
      BY <2>2 DEF PollMiss
    <3>2. returned = Range(batch)
      BY <2>0, <3>1 DEF HandsInv
    <3>3. returned # {} => batch # <<>>
      BY <3>2, NoRange
    <3>4. Cardinality(returned) \in Nat /\ Cardinality(returned) <= Len(batch)
      BY <2>0, <3>2, Returned
    <3>5. returned # {} => Cardinality(returned) <= Bound
      <4>1. ASSUME batch # <<>>
            PROVE  call = "receive_batch" /\ Len(batch) < max
        BY <2>0, <4>1 DEF CallInv
      <4> QED BY <2>0, <3>3, <3>4, <4>1
    <3>6. call = "receive_batch" => returned # {}
      <4>1. ASSUME call = "receive_batch"
            PROVE  1 \in DOMAIN batch
        <5>1. batch # <<>>
          BY <2>0, <2>2, <4>1 DEF CallInv, PollMiss
        <5> QED BY <2>0, <5>1, LenProperties
      <4> QED BY <3>2, <4>1 DEF Range
    <3> QED BY <3>5, <3>6
  <2>3. ASSUME NEW m \in Messages, Received(m), ~PollMiss
        PROVE  Bounded
    <3>1. returned \subseteq Range(Vec(m))
      BY <2>3 DEF Received
    <3>2. Vec(m) \in Seq(Messages) /\ Len(Vec(m)) = Len(batch) + 1
      BY <2>0, VecType, VecRange
    <3>3. Cardinality(returned) \in Nat /\ Cardinality(returned) <= Len(batch) + 1
      BY <3>1, <3>2, Returned
    <3>4. CASE batch = <<>>
      BY <2>0, <2>3, <3>3, <3>4
    <3>5. CASE batch # <<>>
      <4>1. call = "receive_batch" /\ Len(batch) < max /\ Len(batch) # 0
        BY <2>0, <3>5, EmptySeq DEF CallInv
      <4> QED BY <2>0, <2>3, <3>3, <4>1
    <3> QED BY <3>4, <3>5
  <2>4. Handles \/ ProducerStep \/ Tick \/ Nothing \/ VecDropped
           \/ (\E m \in Messages : SettledOne(m)) => owned' \subseteq owned
    BY OthersKeepHands DEF Nothing, VecDropped, SettledOne
  <2> QED BY <1>1, <2>1, <2>2, <2>3, <2>4, DeliveryKinds, NextKinds DEF VecReturned
<1>2. ReceiveInv /\ [Next]_vars =>
         [LET r == owned' \ owned IN
             /\ r # {} =>
                   Cardinality(r) <=
                       (IF call = "receive_batch" /\ max > 1 THEN max ELSE 1)
             /\ PollMiss /\ call = "receive_batch" => r # {}]_vars
  BY <1>1
<1> QED BY <1>2, Consuming, PTL DEF Spec, BatchBounds

\* A delivery is let go of unsettled only with the Vec of a receive_batch that
\* fails or is dropped.
THEOREM StrandedAreExplained == Spec => StrandedExplained
<1> DEFINE Explained == \/ Stranded' \subseteq Stranded
                        \/ call = "receive_batch" /\ pc = "poll" /\ (PollFails \/ Cancel)
<1>1. ASSUME ReceiveInv, ReceiveInv', [Next]_vars
      PROVE  Explained
  <2>0. TypeOK /\ CallInv /\ CallInv' /\ HandsInv
    BY <1>1 DEF ReceiveInv, SendInv
  <2>1. Stranded = out \ (owned \cup Range(batch))
    BY <2>0, NoRange DEF Stranded, CallInv
  <2>2. Stranded' = out' \ (owned' \cup Range(batch'))
    BY <2>0, NoRange DEF Stranded, CallInv
  <2> HIDE DEF Explained
  <2>3. Nothing \/ VecReturned => Explained
    BY <2>1, <2>2, NoRange DEF Nothing, VecReturned, Explained
  <2>4. ASSUME NEW m \in Messages, Received(m) \/ SettledOne(m)
        PROVE  Explained
    BY <2>0, <2>1, <2>2, <2>4, VecRange, NoRange DEF Received, SettledOne, Explained
  <2>5. ASSUME VecDropped
        PROVE  Explained
    <3>1. CASE batch = <<>>
      BY <2>1, <2>2, <2>5, <3>1, NoRange DEF VecDropped, Explained
    <3>2. CASE batch # <<>>
      BY <2>0, <2>5, <3>2 DEF VecDropped, CallInv, Explained
    <3> QED BY <3>1, <3>2
  <2> QED BY <1>1, <2>3, <2>4, <2>5, DeliveryKinds, OthersKeepHands, NextKinds
<1>2. ReceiveInv /\ ReceiveInv' /\ [Next]_vars =>
         [\/ Stranded' \subseteq Stranded
          \/ call = "receive_batch" /\ pc = "poll" /\ (PollFails \/ Cancel)]_vars
  BY <1>1
<1> QED BY <1>2, Consuming, PTL DEF Spec, StrandedExplained

-----------------------------------------------------------------------------
(* Shutdown *)

\* After the one late delivery no call is left that could have another.
ShutdownInv ==
    "shutdown_handle" \in overrides =>
        /\ late <= 1
        /\ late > 0 => shutdown /\ call \notin GracefulCalls

LEMMA ShutdownNext ==
    TypeOK /\ ReachInv /\ ShutdownInv /\ [Next]_vars => ShutdownInv'
<1> SUFFICES ASSUME TypeOK, ReachInv, ShutdownInv, [Next]_vars,
                    "shutdown_handle" \in overrides'
             PROVE  /\ late' <= 1
                    /\ late' > 0 => shutdown' /\ call' \notin GracefulCalls
  BY DEF ShutdownInv
<1> USE DEF handleVars, receiveVars
<1> DEFINE Goal == /\ late' <= 1
                   /\ late' > 0 => shutdown' /\ call' \notin GracefulCalls
<1>0. late \in Nat /\ {"none", "receive", "try_receive", "receive_batch"}
                         \cap GracefulCalls = {}
  BY DEF TypeOK, GracefulCalls
<1>1. ASSUME UNCHANGED <<overrides, late>>, shutdown => shutdown',
             call' = call \/ call' \notin GracefulCalls
      PROVE  Goal
  BY <1>1 DEF ShutdownInv
<1>2. ASSUME Handles \/ ProducerStep \/ Tick
      PROVE  Goal
  <2>1. CASE Handles
    <3>1. UNCHANGED <<overrides, late, call>>
      BY <2>1 DEF Handles, Build, Wrap, IntoDyn, Shutdown, DropProducer, vars
    <3>2. shutdown' = shutdown \/ shutdown' = TRUE
      BY <2>1 DEF Handles, Build, Wrap, IntoDyn, Shutdown, DropProducer, vars
    <3> QED BY <1>1, <3>1, <3>2
  <2>2. CASE ProducerStep \/ Tick
    <3>1. UNCHANGED <<overrides, late, call, shutdown>>
      BY <2>2, ProducersShare DEF Tick
    <3> QED BY <1>1, <3>1
  <2> QED BY <1>2, <2>1, <2>2
<1>3. ASSUME NEW c \in GracefulCalls, CallGraceful(c)
      PROVE  Goal
  <2>1. UNCHANGED <<overrides, late, shutdown, reach>>
    BY <1>3 DEF CallGraceful, Start
  <2>2. CASE StopsAtOnce
    <3>1. call' = "none"
      BY <1>3, <2>2 DEF CallGraceful, EndCall, Return
    <3> QED BY <1>0, <1>1, <2>1, <3>1
  <2>3. CASE ~StopsAtOnce
    <3>1. ~shutdown
      BY <2>1, <2>3 DEF StopsAtOnce, Signalled, Native, ReachInv
    <3> QED BY <1>0, <2>1, <3>1 DEF ShutdownInv
  <2> QED BY <2>2, <2>3
<1>4. ASSUME NEW m \in Messages, ReceiveDone(m) \/ PollHit(m)
      PROVE  Goal
  <2>1. Collect(m) /\ UNCHANGED <<overrides, shutdown>>
    BY <1>4 DEF ReceiveDone, PollHit, Collect
  <2>2. CASE call \in GracefulCalls /\ shutdown
    <3>1. late' = late + 1 /\ late = 0
      BY <1>0, <2>1, <2>2 DEF Collect, ShutdownInv
    <3>2. call' = "none"
      BY <1>0, <2>1, <2>2 DEF Collect, Full, Return
    <3> QED BY <1>0, <2>1, <2>2, <3>1, <3>2
  <2>3. CASE ~(call \in GracefulCalls /\ shutdown)
    <3>1. late' = late /\ call' \in {call, "none"}
      BY <2>1, <2>3 DEF Collect, Return
    <3> QED BY <1>0, <1>1, <2>1, <3>1
  <2> QED BY <2>2, <2>3
<1>5. ASSUME ConsumerNext,
             ~ \E c \in GracefulCalls : CallGraceful(c),
             ~ \E m \in Messages : ReceiveDone(m) \/ PollHit(m)
      PROVE  Goal
  <2>1. UNCHANGED <<overrides, late, shutdown>>
        /\ call' \in {call, "none", "receive", "try_receive", "receive_batch"}
    BY <1>5 DEF ConsumerNext, ConsumerStep, CallReceive, CallTryReceive,
                CallReceiveBatch, Start, OpenStream, GracefulStop, PollMiss,
                ReceiveFails, PollFails, Cancel, Leave, EndCall, Return,
                DropStream, DropConsumer, Ack, Nack, Settled
  <2> QED BY <1>0, <1>1, <2>1
<1> QED BY <1>2, <1>3, <1>4, <1>5, NextKinds

\* After shutdown one delivery at most comes from the calls that honour it, in
\* whatever the consumer is wrapped.
THEOREM ShutdownHonoured == Spec => []AtMostOneAfterShutdown
<1>1. Init => ShutdownInv
  BY DEF Init, ShutdownInv
<1>2. ShutdownInv => AtMostOneAfterShutdown
  BY DEF ShutdownInv, AtMostOneAfterShutdown
<1>3. SendInv => TypeOK
  BY DEF SendInv
<1> QED BY <1>1, <1>2, <1>3, ShutdownNext, Common, PTL DEF Spec

-----------------------------------------------------------------------------
(* What is lost *)

\* No step but one that lets go of something takes a message out of the queue or
\* out of a delivery unsettled.
LEMMA LoseOnly ==
    ASSUME \/ \E m : \/ Backend!Hand(m) \/ Backend!Ack(m) \/ Backend!Return(m)
                     \/ Backend!GiveUp(m)
           \/ UNCHANGED contractVars \/ Backend!Tick
           \/ waiting \subseteq waiting' /\ out' = out
    PROVE  Vanished = {}
<1>1. ASSUME NEW m, \/ Backend!Hand(m) \/ Backend!Ack(m) \/ Backend!Return(m)
                    \/ Backend!GiveUp(m)
      PROVE  Vanished = {}
  BY <1>1 DEF Backend!Hand, Backend!Ack, Backend!Return, Backend!GiveUp, Vanished
<1>2. CASE UNCHANGED contractVars \/ Backend!Tick
  BY <1>2 DEF contractVars, Backend!Tick, Vanished
<1>3. CASE waiting \subseteq waiting' /\ out' = out
  BY <1>3 DEF Vanished
<1> QED BY <1>1, <1>2, <1>3

LEMMA LetGoLoses ==
    ASSUME NEW S, LetGo(S)
    PROVE  Vanished \subseteq S
<1>1. CASE UNCHANGED contractVars
  BY <1>1, LoseOnly
<1>2. CASE \E L \in SUBSET S : Backend!Lose(L)
  BY <1>2 DEF Backend!Lose, Vanished
<1> QED BY <1>1, <1>2 DEF LetGo

\* The stream owned the consumer and is over: the consumer is dropped.
OwnedStreamEnds == stream = "into_stream" /\ stream' = "none"

\* A call that ends loses what it kept, or was the last of a stream that owned
\* the consumer, and the queue of that consumer can be lost.
LEMMA EndLoses ==
    ASSUME NEW c, NEW S, EndCall(c, S)
    PROVE  Vanished \subseteq S \/ (Vanished \subseteq waiting /\ OwnedStreamEnds)
<1>1. CASE halves' = halves
  <2>1. LetGo(S)
    BY <1>1 DEF EndCall
  <2> QED BY <2>1, LetGoLoses
<1>2. CASE halves' # halves
  <2>1. LetGo(waiting) /\ OwnedStreamEnds
    BY <1>2 DEF EndCall, EndStream, OwnedStreamEnds
  <2> QED BY <2>1, LetGoLoses
<1> QED BY <1>1, <1>2

\* Both halves of VanishedExplained, as one step must satisfy them.
LossesAllowed ==
    /\ waiting \cap Vanished # {} => QueuedLossExplained
    /\ \A m \in out \cap Vanished : ReceivedLossExplained(m)

\* A step that loses only what is in the queue, for a reason that is listed.
LEMMA QueuedAllowed ==
    ASSUME BackendInv, Vanished \subseteq waiting,
           Vanished = {} \/ QueuedLossExplained
    PROVE  LossesAllowed
BY DEF BackendInv, LossesAllowed

\* The ends of calls: what is lost, and why it may be.
LEMMA CallsLose ==
    ASSUME ReceiveInv, ReachInv,
           \/ \E c \in GracefulCalls : CallGraceful(c)
           \/ GracefulStop \/ PollMiss \/ ReceiveFails \/ PollFails \/ Cancel
    PROVE  LossesAllowed
<1>0. BackendInv /\ CallInv /\ HandsInv
  BY DEF ReceiveInv, SendInv
<1>1. OwnedStreamEnds => QueuedLossExplained
  BY DEF OwnedStreamEnds, QueuedLossExplained
<1>2. ASSUME NEW c, EndCall(c, {})
      PROVE  LossesAllowed
  <2>1. Vanished \subseteq {} \/ (Vanished \subseteq waiting /\ OwnedStreamEnds)
    BY <1>2, EndLoses
  <2> QED BY <1>0, <1>1, <2>1, QueuedAllowed
<1>3. ASSUME NEW c, EndCall(c, waiting), QueuedLossExplained
      PROVE  LossesAllowed
  <2>1. Vanished \subseteq waiting
    BY <1>3, EndLoses
  <2> QED BY <1>0, <1>3, <2>1, QueuedAllowed
<1>4. ASSUME NEW c \in GracefulCalls, CallGraceful(c)
      PROVE  LossesAllowed
  <2>1. CASE StopsAtOnce
    BY <1>2, <1>4, <2>1 DEF CallGraceful
  <2>2. CASE ~StopsAtOnce
    <3>1. UNCHANGED contractVars
      BY <1>4, <2>2 DEF CallGraceful
    <3>2. Vanished = {}
      BY <3>1, LoseOnly
    <3> QED BY <1>0, <3>2, QueuedAllowed
  <2> QED BY <2>1, <2>2
<1>5. CASE GracefulStop
  BY <1>3, <1>5 DEF GracefulStop, Leave, QueuedLossExplained
\* No wrapper hides the backend's own try_receive.
<1>6. CASE PollMiss
  <2>1. CASE Native("try_receive")
    BY <1>2, <1>6, <2>1 DEF PollMiss, Leave
  <2>2. CASE ~Native("try_receive")
    <3>1. "try_receive" \notin overrides
      BY <2>2 DEF Native, ReachInv
    <3>2. QueuedLossExplained
      BY <1>6, <3>1 DEF PollMiss, QueuedLossExplained
    <3> QED BY <1>3, <1>6, <2>2, <3>2 DEF PollMiss, Leave
  <2> QED BY <2>1, <2>2
<1>7. CASE ReceiveFails
  BY <1>2, <1>7 DEF ReceiveFails, Leave
\* A poll is of no stream, so that only the Vec is at stake.
<1>8. CASE PollFails
  <2>1. EndCall(call, Range(batch)) /\ stream = "none"
    BY <1>0, <1>8 DEF PollFails, Leave, CallInv
  <2>2. Vanished \subseteq Range(batch)
    BY <2>1, EndLoses DEF OwnedStreamEnds
  <2> QED BY <1>0, <1>8, <2>2
          DEF LossesAllowed, ReceivedLossExplained, HandsInv, BackendInv
<1>9. CASE Cancel
  <2>1. Vanished \subseteq waiting \cup Range(batch)
    BY <1>9, EndLoses DEF Cancel, Leave
  <2>2. QueuedLossExplained
    BY <1>9 DEF Cancel, QueuedLossExplained
  <2> QED BY <1>0, <1>9, <2>1, <2>2
          DEF LossesAllowed, ReceivedLossExplained, HandsInv, BackendInv
<1> QED BY <1>4, <1>5, <1>6, <1>7, <1>8, <1>9

\* The drop of a stream or of the consumer, and a nack that finds none.
LEMMA DropsLose ==
    ASSUME ReceiveInv, \/ DropStream \/ DropConsumer
                       \/ \E m \in Messages : Ack(m) \/ Nack(m)
    PROVE  LossesAllowed
<1>0. BackendInv /\ HandsInv
  BY DEF ReceiveInv, SendInv
<1>1. CASE DropStream
  <2>1. CASE pc = "receive" \/ halves' # halves
    <3>1. LetGo(waiting)
      BY <1>1, <2>1 DEF DropStream
    <3>2. QueuedLossExplained
      BY <1>1, <2>1 DEF DropStream, EndStream, QueuedLossExplained
    <3> QED BY <1>0, <3>1, <3>2, LetGoLoses, QueuedAllowed
  <2>2. CASE ~(pc = "receive" \/ halves' # halves)
    <3>1. LetGo({})
      BY <1>1, <2>2 DEF DropStream
    <3> QED BY <1>0, <3>1, LetGoLoses, QueuedAllowed
  <2> QED BY <2>1, <2>2
<1>2. CASE DropConsumer
  <2>1. LetGo(waiting) /\ QueuedLossExplained
    BY <1>2 DEF DropConsumer, QueuedLossExplained
  <2> QED BY <1>0, <2>1, LetGoLoses, QueuedAllowed
<1>3. ASSUME NEW m \in Messages, Ack(m) \/ Nack(m)
      PROVE  LossesAllowed
  <2>1. CASE Backend!Ack(m) \/ Backend!Return(m) \/ Backend!GiveUp(m)
    <3>1. Vanished = {}
      BY <2>1, LoseOnly
    <3> QED BY <1>0, <3>1, QueuedAllowed
  <2>2. CASE Nack(m) /\ "consumer" \notin halves /\ Backend!Lose({m})
    <3>1. Vanished \subseteq {m} /\ m \in out
      BY <1>0, <2>2 DEF Nack, Settled, HandsInv, Backend!Lose, Vanished
    <3>2. ReceivedLossExplained(m)
      BY <2>2 DEF ReceivedLossExplained
    <3> QED BY <1>0, <3>1, <3>2 DEF LossesAllowed, BackendInv
  <2> QED BY <1>3, <2>1, <2>2 DEF Ack, Nack
<1> QED BY <1>1, <1>2, <1>3

\* A message is lost only where a future, a stream or the consumer that had it is
\* let go of: for every backend, through any wrappers and batches of any size.
THEOREM LossesListed == Spec => VanishedExplained
<1>1. ASSUME ReceiveInv, ReachInv, Next
      PROVE  LossesAllowed
  <2>0. BackendInv
    BY <1>1 DEF ReceiveInv, SendInv
  <2>1. CASE Handles \/ ProducerStep \/ Tick
    <3>1. Vanished = {}
      BY <2>1, HandlesShare, ProducersShare, LoseOnly DEF Tick
    <3> QED BY <2>0, <3>1, QueuedAllowed
  <2>2. CASE \/ CallReceive \/ CallTryReceive
             \/ \E n \in 0 .. MaxBatch : CallReceiveBatch(n)
             \/ \E method \in {"messages", "into_stream"} : OpenStream(method)
    <3>1. Vanished = {}
      BY <2>2, LoseOnly DEF CallReceive, CallTryReceive, CallReceiveBatch, OpenStream
    <3> QED BY <2>0, <3>1, QueuedAllowed
  <2>3. ASSUME NEW m \in Messages, ReceiveDone(m) \/ PollHit(m)
        PROVE  LossesAllowed
    <3>1. Vanished = {}
      BY <2>3, LoseOnly DEF ReceiveDone, PollHit, Collect
    <3> QED BY <2>0, <3>1, QueuedAllowed
  <2> QED BY <1>1, <2>1, <2>2, <2>3, CallsLose, DropsLose, NextKinds
          DEF ConsumerNext, ConsumerStep
<1>2. ReceiveInv /\ ReachInv /\ [Next]_vars =>
         [/\ waiting \cap Vanished # {} => QueuedLossExplained
          /\ \A m \in out \cap Vanished : ReceivedLossExplained(m)]_vars
  BY <1>1 DEF LossesAllowed
<1> QED BY <1>2, Common, Consuming, PTL DEF Spec, VanishedExplained

-----------------------------------------------------------------------------
(* Progress.  To the provers an ENABLED is a formula they know nothing of: that
   GracefulStop is enabled where its guard holds is a hypothesis.  Its definition
   says so: each primed variable has one conjunct that gives it a value, and
   "shutdown_handle" is never hidden by a wrapper (ReachInv). *)

\* What a step does to a graceful call that waits: nothing, or it ends the call.
LEMMA GracefulFlow ==
    ASSUME [Next]_vars, pc = "receive", call \in GracefulCalls
    PROVE  /\ shutdown => shutdown'
           /\ UNCHANGED overrides
           /\ UNCHANGED <<pc, call>> \/ pc' = "idle"
<1>1. CASE Shutdown
  BY <1>1 DEF Shutdown, handleVars, receiveVars
<1>2. CASE (Handles /\ ~Shutdown) \/ ProducerStep \/ Tick
  <2>1. CASE Handles /\ ~Shutdown
    <3>1. UNCHANGED <<shutdown, overrides, pc, call>>
      BY <2>1 DEF Handles, Build, Wrap, IntoDyn, DropProducer, vars, handleVars,
                  receiveVars
    <3> QED BY <3>1
  <2> QED BY <1>2, <2>1, ProducersShare DEF Tick, handleVars, receiveVars
<1>3. CASE ConsumerNext
  <2>1. UNCHANGED <<overrides, shutdown>>
    <3>1. CASE \E m \in Messages : ReceiveDone(m) \/ PollHit(m) \/ Ack(m) \/ Nack(m)
      BY <3>1 DEF ReceiveDone, PollHit, Collect, Ack, Nack, Settled, handleVars
    <3> QED BY <1>3, <3>1
            DEF ConsumerNext, ConsumerStep, CallReceive, CallTryReceive,
                CallReceiveBatch, CallGraceful, Start, OpenStream, GracefulStop,
                PollMiss, ReceiveFails, PollFails, Cancel, Leave, DropStream,
                DropConsumer, handleVars
  \* The call takes one delivery and returns with it.
  <2>2. ASSUME NEW m \in Messages, ReceiveDone(m) \/ PollHit(m)
        PROVE  pc' = "idle"
    <3>1. Full(Vec(m))
      BY DEF Full, GracefulCalls
    <3> QED BY <2>2, <3>1 DEF ReceiveDone, PollHit, Collect, Return
  <2>3. CASE GracefulStop \/ PollMiss \/ ReceiveFails \/ PollFails \/ Cancel
                \/ DropStream
    BY <2>3 DEF GracefulStop, PollMiss, ReceiveFails, PollFails, Cancel, Leave,
                EndCall, DropStream, Return
  <2>4. ~ \/ CallReceive \/ CallTryReceive
          \/ \E n \in 0 .. MaxBatch : CallReceiveBatch(n)
          \/ \E c \in GracefulCalls : CallGraceful(c)
          \/ \E method \in {"messages", "into_stream"} : OpenStream(method)
          \/ DropConsumer
    BY DEF CallReceive, CallTryReceive, CallReceiveBatch, CallGraceful, Start,
           OpenStream, DropConsumer
  <2>5. ASSUME NEW m \in Messages, Ack(m) \/ Nack(m)
        PROVE  UNCHANGED <<pc, call>>
    BY <2>5 DEF Ack, Nack, Settled
  <2> QED BY <1>3, <2>1, <2>2, <2>3, <2>4, <2>5 DEF ConsumerNext, ConsumerStep
<1> QED BY <1>1, <1>2, <1>3, NextKinds

\* The step that ends the call can be taken when its guard holds.
StopEnabled ==
    shutdown /\ pc = "receive" /\ call \in GracefulCalls
             /\ "shutdown_handle" \in overrides
        => ENABLED <<GracefulStop>>_vars

\* A receive_graceful or a stream that waits returns once shutdown is called,
\* through any wrappers, however many messages there are and however large the
\* batches: whatever else happens to the call, it keeps waiting or has ended.
THEOREM GracefulCallsStop == FairSpec /\ []StopEnabled => GracefulStops
<1> DEFINE P == shutdown /\ pc = "receive" /\ call \in GracefulCalls
                   /\ "shutdown_handle" \in overrides
           Q == pc = "idle"
<1>1. P /\ [Next]_vars => P' \/ Q'
  BY GracefulFlow
<1>2. P /\ <<GracefulStop>>_vars => Q'
  BY DEF GracefulStop, Leave, EndCall, Return
<1>3. P /\ StopEnabled => ENABLED <<GracefulStop>>_vars
  BY DEF StopEnabled
<1>4. FairSpec /\ []StopEnabled => (P ~> Q)
  <2> HIDE DEF P, Q
  <2> QED BY <1>1, <1>2, <1>3, PTL DEF FairSpec, Fairness, Spec
<1> QED BY <1>4 DEF GracefulStops
=============================================================================
