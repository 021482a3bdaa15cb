--------------------------- MODULE LivenessProofs ---------------------------
(***************************************************************************)
(* What MemoryQueue does eventually, and what it never gets out of.        *)
(*                                                                         *)
(* A receive call steps through the states of pc in an order without       *)
(* cycles until it returns, parks or, on an elapsed timer, starts again.   *)
(* Each liveness theorem follows that order: in each state, no step leads  *)
(* anywhere but on (CallFlow), and a fair step that leads on is enabled.   *)
(* The second half is NeverStalls, which TLC checks: to the provers an     *)
(* ENABLED is a formula they know nothing of, so the theorems have         *)
(* []NeverStalls as a hypothesis beside the fairness of FairSpec.          *)
(***************************************************************************)
EXTENDS MemoryQueueProofs, WellFoundedInduction

-----------------------------------------------------------------------------
(* The two deadlocks *)

LEMMA DeadlockNext ==
    [Next]_vars =>
       /\ NackDeadlock => \/ NackDeadlock'
                          \/ DropConsumer
                          \/ \E e \in requeuing : CancelNack(e)
       /\ FlushDeadlock => \/ FlushDeadlock'
                           \/ StopGraceful \/ CancelReceive
<1> DEFINE N == \/ NackDeadlock'
                \/ DropConsumer
                \/ \E e \in requeuing : CancelNack(e)
           F == FlushDeadlock' \/ StopGraceful \/ CancelReceive
           G == (NackDeadlock => N) /\ (FlushDeadlock => F)
<1> SUFFICES ASSUME [Next]_vars PROVE G
  OBVIOUS
<1> USE DEF NackDeadlock, FlushDeadlock, HasRoom, channelVars, sharedVars,
            producerVars, consumerVars, deliveryVars, environmentVars,
            historyVars
<1>1. CASE UNCHANGED vars
  BY <1>1 DEF vars
<1>2. CASE ProducerNext
  BY <1>2 DEF ProducerNext, CloneProducer, DropProducer, Send, SendCompletes,
              SendFails, SendAt, SendAtCompletes, CancelSend
<1>3. CASE StartCall
  BY <1>3 DEF StartCall, CallReceive, CallTryReceive, CallReceiveGraceful,
              Start, Enter, Return
<1>4. CASE ConsumerStep
  <2>1. CASE StopGraceful
    BY <2>1 DEF StopGraceful, DropReceiveFuture, LockAfterDrop, Return
  <2>2. CASE PollReceive \/ CheckShutdown \/ FlushDone
    BY <2>2 DEF PollReceive, CheckShutdown, FlushDone, Enter, Return
  <2>3. CASE TryRecv \/ PollRecv \/ TimerElapsed \/ TimerPending
                \/ PollLiveness \/ Wake
    BY <2>3 DEF TryRecv, PollRecv, TimerElapsed, TimerPending, PollLiveness,
                Wake
  <2> QED BY <1>4, <2>1, <2>2, <2>3 DEF ConsumerStep
<1>5. CASE FlushLock \/ FlushSend \/ ReadNextScheduled \/ DropConsumer
  BY <1>5 DEF FlushLock, FlushSend, ReadNextScheduled, DropConsumer
<1>6. CASE CancelReceive
  BY <1>6 DEF CancelReceive, DropReceiveFuture, LockAfterDrop, Return
<1>7. CASE DeliveryNext
  <2>1. ASSUME NEW e \in held, Ack(e) \/ Nack(e) \/ DropDelivery(e)
        PROVE  G
    BY <2>1 DEF Ack, Nack, DropDelivery
  <2>2. ASSUME NEW e \in nacking, NackLock(e)
        PROVE  G
    BY <2>2 DEF NackLock
  <2>3. ASSUME NEW e \in requeuing, NackRequeue(e) \/ NackRequeueFails(e)
        PROVE  G
    BY <2>3 DEF NackRequeue, NackRequeueFails
  <2>4. ASSUME NEW e \in nacking \cup requeuing, CancelNack(e)
        PROVE  G
    BY <2>4 DEF CancelNack
  <2> QED BY <1>7, <2>1, <2>2, <2>3, <2>4 DEF DeliveryNext
<1>8. CASE Shutdown \/ Tick
  BY <1>8 DEF Shutdown, Tick
<1> QED BY <1>1, <1>2, <1>3, <1>4, <1>5, <1>6, <1>7, <1>8
        DEF Next, ConsumerNext

\* A nack that waits for room in a full channel with the mutex, and a flush that
\* waits for room, wait for ever unless the application drops what waits or the
\* consumer: no other task of the queue can help, whatever the capacity.
THEOREM DeadlocksAreFinal == Spec => DeadlocksStay
BY DeadlockNext, PTL DEF Spec, DeadlocksStay

-----------------------------------------------------------------------------
(* The flow of a receive call *)

\* A call stays the same call, and only its own steps move it.
LEMMA CallFlow ==
    ASSUME [Next]_vars, pc # "idle"
    PROVE  /\ call' = call
           /\ shutdown => shutdown'
           /\ producers = {} => producers' = {}
           /\ \/ UNCHANGED <<pc, wake_at>>
              \/ ConsumerStep \/ FlushLock \/ ReadNextScheduled
              \/ CancelReceive
<1> DEFINE G == /\ call' = call
                /\ shutdown => shutdown'
                /\ producers = {} => producers' = {}
                /\ \/ UNCHANGED <<pc, wake_at>>
                   \/ ConsumerStep \/ FlushLock \/ ReadNextScheduled
                   \/ CancelReceive
<1> USE DEF channelVars, sharedVars, producerVars, consumerVars, deliveryVars,
            environmentVars, historyVars
<1>1. CASE UNCHANGED vars
  BY <1>1 DEF vars
<1>2. CASE ProducerNext
  BY <1>2 DEF ProducerNext, CloneProducer, DropProducer, Send, SendCompletes,
              SendFails, SendAt, SendAtCompletes, CancelSend
<1>3. ~StartCall
  BY DEF StartCall, CallReceive, CallTryReceive, CallReceiveGraceful, Start
<1>4. CASE ConsumerStep
  <2>1. UNCHANGED <<call, producers, shutdown>>
    BY <1>4 DEF ConsumerStep, PollReceive, StopGraceful, CheckShutdown,
                FlushDone, TryRecv, PollRecv, TimerElapsed, TimerPending,
                PollLiveness, Wake
  <2> QED BY <1>4, <2>1
<1>5. CASE FlushLock \/ FlushSend \/ ReadNextScheduled \/ CancelReceive
  BY <1>5 DEF FlushLock, FlushSend, ReadNextScheduled, CancelReceive
<1>6. ~DropConsumer
  BY DEF DropConsumer
<1>7. CASE DeliveryNext
  BY <1>7 DEF DeliveryNext, Ack, Nack, DropDelivery, NackLock, NackRequeue,
              NackRequeueFails, CancelNack
<1>8. CASE Shutdown \/ Tick
  BY <1>8 DEF Shutdown, Tick
<1> QED BY <1>1, <1>2, <1>3, <1>4, <1>5, <1>6, <1>7, <1>8
        DEF Next, ConsumerNext

\* The fairness of FairSpec that the consumer's own progress rests on.
LEMMA FairConsumer ==
    FairSpec => /\ Spec
                /\ WF_vars(ConsumerStep)
                /\ SF_vars(FlushLock)
                /\ SF_vars(ReadNextScheduled)
                /\ WF_vars(StartCall)
BY PTL DEF FairSpec, RuntimeFairness, ApplicationFairness

-----------------------------------------------------------------------------
(* receive_graceful after shutdown *)

\* A receive_graceful that has been told to stop is in state s.
Stopping(s) == shutdown /\ call = "receive_graceful" /\ pc = s

\* Where it can go from there, if it does not return.
StopFlow == {<<"lock_flush", "flush">>, <<"flush", "try_recv">>,
             <<"try_recv", "lock_next">>, <<"lock_next", "poll_recv">>,
             <<"poll_recv", "poll_timer">>, <<"poll_timer", "check">>,
             <<"poll_timer", "poll_liveness">>, <<"poll_liveness", "parked">>}

StopsOrGoesOn(s) ==
    Stopping("idle") \/ \E t \in ConsumerStates : <<s, t>> \in StopFlow /\ Stopping(t)

LEMMA StoppingMoves ==
    ASSUME NEW s \in ConsumerStates \ {"idle"}, Stopping(s), ConsumerStep
    PROVE  StopsOrGoesOn(s)'
<1> USE DEF Stopping, StopsOrGoesOn, StopFlow, ConsumerStates
<1>1. UNCHANGED <<call, shutdown>>
  BY DEF ConsumerStep, PollReceive, StopGraceful, CheckShutdown, FlushDone,
         TryRecv, PollRecv, TimerElapsed, TimerPending, PollLiveness, Wake,
         environmentVars
<1>2. CASE pc' = "idle"
  BY <1>1, <1>2
<1>3. CASE TryRecv \/ PollRecv
  BY <1>1, <1>2, <1>3 DEF TryRecv, PollRecv, Deliver, Enter, Return
<1>4. CASE PollReceive \/ StopGraceful \/ CheckShutdown \/ FlushDone \/ Wake
  BY <1>1, <1>2, <1>4
     DEF PollReceive, StopGraceful, CheckShutdown, FlushDone, Wake, Return
<1>5. CASE TimerElapsed \/ TimerPending \/ PollLiveness
  BY <1>1, <1>2, <1>5 DEF TimerElapsed, TimerPending, PollLiveness, Enter, Return
<1> QED BY <1>3, <1>4, <1>5 DEF ConsumerStep

LEMMA StoppingStays ==
    ASSUME NEW s \in ConsumerStates \ {"idle"}, Stopping(s), [Next]_vars
    PROVE  Stopping(s)' \/ StopsOrGoesOn(s)'
<1>1. CASE UNCHANGED pc
  BY <1>1, CallFlow DEF Stopping
<1>2. CASE ConsumerStep
  BY <1>2, StoppingMoves
<1>3. CASE FlushLock \/ ReadNextScheduled \/ CancelReceive
  BY <1>3, CallFlow
     DEF FlushLock, ReadNextScheduled, CancelReceive, Return, Stopping, StopsOrGoesOn, StopFlow,
         ConsumerStates
<1> QED BY <1>1, <1>2, <1>3, CallFlow DEF Stopping

\* After shutdown a receive_graceful returns from wherever it is, for every
\* usage, although the mutex and the channel may never be free again.
THEOREM GracefulReturns ==
    FairSpec /\ []NeverStalls => GracefulTerminates
<1> DEFINE Stop == shutdown /\ call = "receive_graceful" /\ pc # "idle"
<1>1. ASSUME [Next]_vars
      PROVE  /\ Stopping("check") => Stopping("check")' \/ Stopping("idle")'
             /\ Stopping("parked") => Stopping("parked")' \/ Stopping("idle")'
             /\ Stopping("poll_shutdown") => Stopping("poll_shutdown")' \/ Stopping("idle")'
             /\ Stopping("poll_liveness") => Stopping("poll_liveness")' \/ Stopping("parked")' \/ Stopping("idle")'
             /\ Stopping("poll_timer") => Stopping("poll_timer")' \/ Stopping("check")' \/ Stopping("poll_liveness")' \/ Stopping("idle")'
             /\ Stopping("poll_recv") => Stopping("poll_recv")' \/ Stopping("poll_timer")' \/ Stopping("idle")'
             /\ Stopping("lock_next") => Stopping("lock_next")' \/ Stopping("poll_recv")' \/ Stopping("idle")'
             /\ Stopping("try_recv") => Stopping("try_recv")' \/ Stopping("lock_next")' \/ Stopping("idle")'
             /\ Stopping("flush") => Stopping("flush")' \/ Stopping("try_recv")' \/ Stopping("idle")'
             /\ Stopping("lock_flush") => Stopping("lock_flush")' \/ Stopping("flush")' \/ Stopping("idle")'
  BY <1>1, StoppingStays DEF StopsOrGoesOn, StopFlow, ConsumerStates
<1>2. ASSUME <<ConsumerStep>>_vars
      PROVE  /\ Stopping("check") => Stopping("idle")'
             /\ Stopping("parked") => Stopping("idle")'
             /\ Stopping("poll_shutdown") => Stopping("idle")'
             /\ Stopping("poll_liveness") => Stopping("parked")' \/ Stopping("idle")'
             /\ Stopping("poll_timer") => Stopping("check")' \/ Stopping("poll_liveness")' \/ Stopping("idle")'
             /\ Stopping("poll_recv") => Stopping("poll_timer")' \/ Stopping("idle")'
             /\ Stopping("lock_next") => Stopping("poll_recv")' \/ Stopping("idle")'
             /\ Stopping("try_recv") => Stopping("lock_next")' \/ Stopping("idle")'
             /\ Stopping("flush") => Stopping("try_recv")' \/ Stopping("idle")'
             /\ Stopping("lock_flush") => Stopping("flush")' \/ Stopping("idle")'
  BY <1>2, StoppingMoves DEF StopsOrGoesOn, StopFlow, ConsumerStates
<1>3. TypeOK /\ Stop => \/ Stopping("check")
      \/ Stopping("parked")
      \/ Stopping("poll_shutdown")
      \/ Stopping("poll_liveness")
      \/ Stopping("poll_timer")
      \/ Stopping("poll_recv")
      \/ Stopping("lock_next")
      \/ Stopping("try_recv")
      \/ Stopping("flush")
      \/ Stopping("lock_flush")
  BY DEF TypeOK, ConsumerStates, Stopping
<1>4. Stopping("idle") => pc = "idle"
  BY DEF Stopping
<1>5. /\ Stop /\ NeverStalls => ENABLED <<ConsumerStep>>_vars
      /\ Stopping("check") => Stop
      /\ Stopping("parked") => Stop
      /\ Stopping("poll_shutdown") => Stop
      /\ Stopping("poll_liveness") => Stop
      /\ Stopping("poll_timer") => Stop
      /\ Stopping("poll_recv") => Stop
      /\ Stopping("lock_next") => Stop
      /\ Stopping("try_recv") => Stop
      /\ Stopping("flush") => Stop
      /\ Stopping("lock_flush") => Stop
  BY DEF NeverStalls, Stopping
<1>6. FairSpec /\ []NeverStalls => (Stop ~> pc = "idle")
  <2> HIDE DEF Stop
  <2> QED BY <1>1, <1>2, <1>3, <1>4, <1>5, TypeCorrect, FairConsumer, PTL DEF Spec
<1> QED BY <1>6 DEF GracefulTerminates

-----------------------------------------------------------------------------
(* An application that neither schedules nor nacks *)

PlainUse == Usage \cap {"send_at", "nack"} = {}

\* Then there is nothing to flush, no timer and nobody who keeps the mutex.
QuietInv ==
    /\ scheduling = {} /\ nacking = {} /\ requeuing = {}
    /\ scheduled = NothingScheduled /\ due = NothingScheduled
    /\ wake_at = Never

LEMMA NothingToFlush ==
    /\ Keys(NothingScheduled) = {}
    /\ next_scheduled_at(NothingScheduled) = Never
    /\ \A t : /\ DueBy(NothingScheduled, t) = NothingScheduled
              /\ NotDueBy(NothingScheduled, t) = NothingScheduled
BY DEF Keys, next_scheduled_at, DueBy, NotDueBy, NothingScheduled

LEMMA QuietNext ==
    ASSUME PlainUse, QuietInv, [Next]_vars
    PROVE  QuietInv'
<1> USE DEF QuietInv, channelVars, sharedVars, producerVars, consumerVars,
            deliveryVars, environmentVars, historyVars
<1>1. CASE UNCHANGED vars
  BY <1>1 DEF vars
<1>2. CASE ProducerNext
  BY <1>2 DEF ProducerNext, CloneProducer, DropProducer, Send, SendCompletes,
              SendFails, SendAt, SendAtCompletes, CancelSend, PlainUse
<1>3. CASE StartCall
  BY <1>3 DEF StartCall, CallReceive, CallTryReceive, CallReceiveGraceful,
              Start, Enter, Return
<1>4. CASE ConsumerStep
  BY <1>4 DEF ConsumerStep, PollReceive, StopGraceful, DropReceiveFuture,
              CheckShutdown, FlushDone, TryRecv, PollRecv, TimerElapsed,
              TimerPending, PollLiveness, Wake, Deliver, Enter, Return
<1>5. CASE FlushLock \/ FlushSend \/ ReadNextScheduled
  BY <1>5, NothingToFlush DEF FlushLock, FlushSend, ReadNextScheduled
<1>6. CASE CancelReceive \/ DropConsumer
  BY <1>6 DEF CancelReceive, DropReceiveFuture, Return, DropConsumer
<1>7. CASE DeliveryNext
  BY <1>7 DEF DeliveryNext, Ack, Nack, DropDelivery, PlainUse
<1>8. CASE Shutdown \/ Tick
  BY <1>8 DEF Shutdown, Tick
<1> QED BY <1>1, <1>2, <1>3, <1>4, <1>5, <1>6, <1>7, <1>8
        DEF Next, ConsumerNext

\* What the progress of a receive call rests on.
CallInv == TypeOK /\ LockDiscipline /\ QuietInv

LEMMA QuietCalls ==
    ASSUME PlainUse
    PROVE  Spec => []CallInv
<1>1. Init => QuietInv
  BY DEF Init, QuietInv
<1>2. QuietInv /\ [Next]_vars => QuietInv'
  BY QuietNext
<1>3. TypeOK /\ LockDiscipline /\ QuietInv => CallInv
  BY DEF CallInv
<1> QED BY <1>1, <1>2, <1>3, TypeCorrect, MutexDiscipline, PTL DEF Spec

\* The next step of a call is always enabled, once it has left idle.
LEMMA QuietEnabled ==
    ASSUME CallInv, NeverStalls
    PROVE  /\ pc \in ConsumerStates \ {"idle", "lock_flush", "lock_next", "parked"}
                 => ENABLED <<ConsumerStep>>_vars
           /\ pc = "parked" /\ (channel # <<>> \/ producers = {})
                 => ENABLED <<ConsumerStep>>_vars
           /\ pc = "lock_flush" => ENABLED <<FlushLock>>_vars
           /\ pc = "lock_next" => ENABLED <<ReadNextScheduled>>_vars
BY NothingToFlush
   DEF CallInv, QuietInv, LockDiscipline, TypeOK, NeverStalls, ConsumerStates

\* Where such a call can go, if it does not return: the timer never elapses.
PlainFlow == {<<"poll_shutdown", "check">>, <<"check", "lock_flush">>,
              <<"lock_flush", "flush">>, <<"flush", "try_recv">>,
              <<"try_recv", "lock_next">>, <<"lock_next", "poll_recv">>,
              <<"poll_recv", "poll_timer">>, <<"poll_timer", "poll_liveness">>,
              <<"poll_liveness", "parked">>, <<"parked", "poll_recv">>}

LEMMA PlainMoves ==
    ASSUME CallInv, ConsumerStep \/ FlushLock \/ ReadNextScheduled
    PROVE  /\ UNCHANGED producers
           /\ pc' = "idle" \/ <<pc, pc'>> \in PlainFlow
           /\ pc = "poll_liveness" /\ producers = {} => pc' = "idle"
           /\ pc # "idle" /\ pc' # pc
<1> USE DEF PlainFlow, producerVars
<1>1. CASE PollReceive \/ CheckShutdown \/ FlushDone \/ PollLiveness \/ Wake
  BY <1>1 DEF PollReceive, CheckShutdown, FlushDone, PollLiveness, NoProducer,
              Wake, Enter, Return
<1>2. CASE StopGraceful
  BY <1>2 DEF StopGraceful, AwaitPoints, Return
<1>3. CASE TryRecv \/ PollRecv
  BY <1>3 DEF TryRecv, PollRecv, Deliver, Enter, Return
<1>4. ~TimerElapsed
  BY EnvelopeAssumption
     DEF TimerElapsed, CallInv, QuietInv, TypeOK, Never, Times
<1>5. CASE TimerPending
  BY <1>5 DEF TimerPending, Enter
<1>6. CASE FlushLock \/ ReadNextScheduled
  BY <1>6 DEF FlushLock, ReadNextScheduled
<1> QED BY <1>1, <1>2, <1>3, <1>4, <1>5, <1>6 DEF ConsumerStep

-----------------------------------------------------------------------------
(* A receive call after the last producer *)

Orphaned(s) == producers = {} /\ pc = s

\* A receive that waits when the last producer goes away returns, if nothing is
\* scheduled or nack'd.  (With a nack it may not: it can be in a NackDeadlock.)
THEOREM ReceiveEnds ==
    ASSUME PlainUse
    PROVE  FairSpec /\ []NeverStalls => ReceiveEndsWithProducers
<1> DEFINE Wait == producers = {} /\ call = "receive" /\ pc # "idle"
           Steps == ConsumerStep \/ FlushLock \/ ReadNextScheduled
<1>1. ASSUME CallInv, Steps
      PROVE  /\ Orphaned("poll_shutdown") => Orphaned("check")' \/ Orphaned("idle")'
             /\ Orphaned("check") => Orphaned("lock_flush")' \/ Orphaned("idle")'
             /\ Orphaned("lock_flush") => Orphaned("flush")' \/ Orphaned("idle")'
             /\ Orphaned("flush") => Orphaned("try_recv")' \/ Orphaned("idle")'
             /\ Orphaned("try_recv") => Orphaned("lock_next")' \/ Orphaned("idle")'
             /\ Orphaned("lock_next") => Orphaned("poll_recv")' \/ Orphaned("idle")'
             /\ Orphaned("parked") => Orphaned("poll_recv")' \/ Orphaned("idle")'
             /\ Orphaned("poll_recv") => Orphaned("poll_timer")' \/ Orphaned("idle")'
             /\ Orphaned("poll_timer") => Orphaned("poll_liveness")' \/ Orphaned("idle")'
             /\ Orphaned("poll_liveness") => Orphaned("idle")'
  BY <1>1, PlainMoves DEF Orphaned, PlainFlow
<1>2. ASSUME CallInv, [Next]_vars
      PROVE  /\ Orphaned("poll_shutdown") => Orphaned("poll_shutdown")' \/ Orphaned("check")' \/ Orphaned("idle")'
             /\ Orphaned("check") => Orphaned("check")' \/ Orphaned("lock_flush")' \/ Orphaned("idle")'
             /\ Orphaned("lock_flush") => Orphaned("lock_flush")' \/ Orphaned("flush")' \/ Orphaned("idle")'
             /\ Orphaned("flush") => Orphaned("flush")' \/ Orphaned("try_recv")' \/ Orphaned("idle")'
             /\ Orphaned("try_recv") => Orphaned("try_recv")' \/ Orphaned("lock_next")' \/ Orphaned("idle")'
             /\ Orphaned("lock_next") => Orphaned("lock_next")' \/ Orphaned("poll_recv")' \/ Orphaned("idle")'
             /\ Orphaned("parked") => Orphaned("parked")' \/ Orphaned("poll_recv")' \/ Orphaned("idle")'
             /\ Orphaned("poll_recv") => Orphaned("poll_recv")' \/ Orphaned("poll_timer")' \/ Orphaned("idle")'
             /\ Orphaned("poll_timer") => Orphaned("poll_timer")' \/ Orphaned("poll_liveness")' \/ Orphaned("idle")'
             /\ Orphaned("poll_liveness") => Orphaned("poll_liveness")' \/ Orphaned("idle")'
  <2>1. CASE UNCHANGED pc
    BY <2>1, <1>2, CallFlow DEF Orphaned
  <2>2. CASE Steps
    BY <2>2, <1>2, <1>1
  <2>3. CASE CancelReceive
    BY <2>3 DEF CancelReceive, Return, producerVars, Orphaned
  <2> QED BY <2>1, <2>2, <2>3, <1>2, CallFlow DEF Orphaned
<1>3. ASSUME CallInv, NeverStalls
      PROVE  /\ Orphaned("poll_shutdown") => ENABLED <<ConsumerStep>>_vars
             /\ Orphaned("check") => ENABLED <<ConsumerStep>>_vars
             /\ Orphaned("lock_flush") => ENABLED <<FlushLock>>_vars
             /\ Orphaned("flush") => ENABLED <<ConsumerStep>>_vars
             /\ Orphaned("try_recv") => ENABLED <<ConsumerStep>>_vars
             /\ Orphaned("lock_next") => ENABLED <<ReadNextScheduled>>_vars
             /\ Orphaned("parked") => ENABLED <<ConsumerStep>>_vars
             /\ Orphaned("poll_recv") => ENABLED <<ConsumerStep>>_vars
             /\ Orphaned("poll_timer") => ENABLED <<ConsumerStep>>_vars
             /\ Orphaned("poll_liveness") => ENABLED <<ConsumerStep>>_vars
  BY <1>3, QuietEnabled DEF Orphaned, ConsumerStates
<1>4. /\ <<ConsumerStep>>_vars => Steps
      /\ <<FlushLock>>_vars => Steps
      /\ <<ReadNextScheduled>>_vars => Steps
  OBVIOUS
<1>5. CallInv /\ Wait => \/ Orphaned("poll_shutdown")
      \/ Orphaned("check")
      \/ Orphaned("lock_flush")
      \/ Orphaned("flush")
      \/ Orphaned("try_recv")
      \/ Orphaned("lock_next")
      \/ Orphaned("parked")
      \/ Orphaned("poll_recv")
      \/ Orphaned("poll_timer")
      \/ Orphaned("poll_liveness")
  BY DEF CallInv, TypeOK, ConsumerStates, Orphaned
<1>6. Orphaned("idle") => pc = "idle"
  BY DEF Orphaned
<1>7. FairSpec /\ []NeverStalls => (Wait ~> pc = "idle")
  <2> HIDE DEF Wait, Steps
  <2> QED BY <1>1, <1>2, <1>3, <1>4, <1>5, <1>6, QuietCalls, FairConsumer, PTL
          DEF Spec
<1> QED BY <1>7 DEF ReceiveEndsWithProducers

-----------------------------------------------------------------------------
(* The channel is a queue *)

\* An application that goes on receiving what it sends.
Receiving ==
    /\ PlainUse
    /\ Usage \cap {"cancel_receive", "drop_consumer", "shutdown"} = {}
    /\ Usage \cap ReceiveCalls # {}

OpenInv == rx_open /\ ~shutdown

LEMMA OpenNext ==
    ASSUME Receiving, [Next]_vars
    PROVE  UNCHANGED <<rx_open, shutdown>>
<1> USE DEF channelVars, environmentVars
<1>1. CASE UNCHANGED vars
  BY <1>1 DEF vars
<1>2. CASE ProducerNext
  BY <1>2 DEF ProducerNext, CloneProducer, DropProducer, Send, SendCompletes,
              SendFails, SendAt, SendAtCompletes, CancelSend
<1>3. CASE StartCall
  BY <1>3 DEF StartCall, CallReceive, CallTryReceive, CallReceiveGraceful, Start
<1>4. CASE ConsumerStep
  BY <1>4 DEF ConsumerStep, PollReceive, StopGraceful, CheckShutdown, FlushDone,
              TryRecv, PollRecv, TimerElapsed, TimerPending, PollLiveness, Wake
<1>5. CASE FlushLock \/ FlushSend \/ ReadNextScheduled \/ CancelReceive
  BY <1>5 DEF FlushLock, FlushSend, ReadNextScheduled, CancelReceive
<1>6. CASE DeliveryNext
  BY <1>6 DEF DeliveryNext, Ack, Nack, DropDelivery, NackLock, NackRequeue,
              NackRequeueFails, CancelNack
<1>7. ~DropConsumer /\ ~Shutdown
  BY DEF Receiving, DropConsumer, Shutdown
<1>8. CASE Tick
  BY <1>8 DEF Tick
<1> QED BY <1>1, <1>2, <1>3, <1>4, <1>5, <1>6, <1>7, <1>8
        DEF Next, ConsumerNext

\* The channel changes only at its ends.
LEMMA ChannelFlow ==
    ASSUME Receiving, CallInv, [Next]_vars
    PROVE  \/ UNCHANGED channel
           \/ \E e \in Envelopes : channel' = Append(channel, e)
           \/ channel # <<>> /\ Deliver
<1> DEFINE G == \/ UNCHANGED channel
                \/ \E e \in Envelopes : channel' = Append(channel, e)
                \/ channel # <<>> /\ Deliver
<1> USE DEF channelVars
<1>1. CASE UNCHANGED vars
  BY <1>1 DEF vars
<1>2. CASE ProducerNext
  <2>1. ASSUME NEW s \in sending, SendCompletes(s)
        PROVE  G
    BY <2>1 DEF SendCompletes, Push, CallInv, TypeOK
  <2> QED BY <1>2, <2>1
          DEF ProducerNext, CloneProducer, DropProducer, Send, SendFails,
              SendAt, SendAtCompletes, CancelSend
<1>3. CASE StartCall
  BY <1>3 DEF StartCall, CallReceive, CallTryReceive, CallReceiveGraceful, Start
<1>4. CASE ConsumerStep
  BY <1>4 DEF ConsumerStep, PollReceive, StopGraceful, CheckShutdown, FlushDone,
              TryRecv, PollRecv, TimerElapsed, TimerPending, PollLiveness, Wake
<1>5. CASE FlushLock \/ ReadNextScheduled \/ CancelReceive
  BY <1>5 DEF FlushLock, ReadNextScheduled, CancelReceive
<1>6. ~FlushSend /\ ~DropConsumer
  BY NothingToFlush DEF FlushSend, CallInv, QuietInv, DropConsumer, Receiving
<1>7. CASE DeliveryNext
  BY <1>7 DEF DeliveryNext, Ack, Nack, DropDelivery, CallInv, QuietInv
<1>8. CASE Shutdown \/ Tick
  BY <1>8 DEF Shutdown, Tick
<1> QED BY <1>1, <1>2, <1>3, <1>4, <1>5, <1>6, <1>7, <1>8
        DEF Next, ConsumerNext

\* The message at position k is received or has moved up.
Moves(m, k) == m \in IdsInSet(held) \/ Queued(m, k - 1)

LEMMA DeliverMoves ==
    ASSUME TypeOK, NEW m \in Messages, NEW k \in 1 .. Capacity, Queued(m, k),
           Deliver
    PROVE  Moves(m, k)'
<1>1. /\ channel \in Seq(Envelopes) /\ channel # <<>>
      /\ k \in 1 .. Len(channel)
      /\ channel' = Tail(channel) /\ Head(channel) \in held'
  BY DEF TypeOK, Queued, Deliver
<1>2. CASE k = 1
  BY <1>1, <1>2 DEF Queued, Moves, IdsInSet
<1>3. CASE k # 1
  <2>1. /\ k - 1 \in 1 .. Len(Tail(channel))
        /\ Tail(channel)[k - 1] = channel[k]
    BY <1>1, <1>3
  <2> QED BY <1>1, <2>1 DEF Queued, Moves
<1> QED BY <1>2, <1>3

LEMMA QueuedMoves ==
    ASSUME Receiving, CallInv, [Next]_vars, NEW m \in Messages,
           NEW k \in 1 .. Capacity, Queued(m, k)
    PROVE  Queued(m, k)' \/ Moves(m, k)'
<1>1. CASE UNCHANGED channel
  BY <1>1 DEF Queued
<1>2. ASSUME NEW e \in Envelopes, channel' = Append(channel, e)
      PROVE  Queued(m, k)'
  BY <1>2, AppendProperties DEF Queued, CallInv, TypeOK
<1>3. CASE Deliver
  BY <1>3, DeliverMoves DEF CallInv
<1> QED BY <1>1, <1>2, <1>3, ChannelFlow

\* What the progress of the queue rests on.
QueueInv == CallInv /\ OpenInv

LEMMA OpenCalls ==
    ASSUME Receiving
    PROVE  Spec => []QueueInv
<1>1. Init => OpenInv
  BY DEF Init, OpenInv
<1>2. OpenInv /\ [Next]_vars => OpenInv'
  BY OpenNext DEF OpenInv
<1>3. PlainUse
  BY DEF Receiving
<1>4. Spec => []CallInv
  BY <1>3, QuietCalls
<1>5. CallInv /\ OpenInv => QueueInv
  BY DEF QueueInv
<1> QED BY <1>1, <1>2, <1>4, <1>5, PTL DEF Spec

\* No step of a call ends it without a message, if there is one, but the step
\* that finds no producer left.
LEMMA QueueSteps ==
    ASSUME QueueInv, channel # <<>>,
           ConsumerStep \/ FlushLock \/ ReadNextScheduled
    PROVE  \/ Deliver
           \/ <<pc, pc'>> \in PlainFlow /\ pc # "try_recv" /\ pc # "poll_recv"
           \/ pc = "poll_liveness" /\ pc' = "idle"
<1> USE DEF PlainFlow, QueueInv, OpenInv
<1>1. CASE PollReceive \/ CheckShutdown \/ FlushDone \/ PollLiveness \/ Wake
  BY <1>1 DEF PollReceive, CheckShutdown, FlushDone, PollLiveness, Wake, Enter,
              Return
<1>2. ~StopGraceful
  BY DEF StopGraceful
<1>3. CASE TryRecv \/ PollRecv
  BY <1>3 DEF TryRecv, PollRecv
<1>4. ~TimerElapsed
  BY EnvelopeAssumption
     DEF TimerElapsed, CallInv, QuietInv, TypeOK, Never, Times
<1>5. CASE TimerPending
  BY <1>5 DEF TimerPending, Enter
<1>6. CASE FlushLock \/ ReadNextScheduled
  BY <1>6 DEF FlushLock, ReadNextScheduled
<1> QED BY <1>1, <1>2, <1>3, <1>4, <1>5, <1>6 DEF ConsumerStep

LEMMA QueueStarts ==
    ASSUME QueueInv, StartCall
    PROVE  pc = "idle" /\ pc' \in {"check", "lock_flush", "poll_shutdown"}
BY DEF QueueInv, OpenInv, StartCall, CallReceive, CallTryReceive,
       CallReceiveGraceful, Start, Enter

\* Apart from the steps of its call, nothing moves an idle consumer but a start,
\* if it is not dropped.
LEMMA IdleStays ==
    ASSUME Receiving, [Next]_vars, pc = "idle"
    PROVE  UNCHANGED pc \/ StartCall
<1> USE DEF consumerVars
<1>1. CASE UNCHANGED vars
  BY <1>1 DEF vars
<1>2. CASE ProducerNext
  BY <1>2 DEF ProducerNext, CloneProducer, DropProducer, Send, SendCompletes,
              SendFails, SendAt, SendAtCompletes, CancelSend
<1>3. ~ConsumerStep
  BY DEF ConsumerStep, PollReceive, StopGraceful, AwaitPoints, CheckShutdown,
         FlushDone, TryRecv, PollRecv, TimerElapsed, TimerPending, PollLiveness,
         Wake
<1>4. ~(FlushLock \/ FlushSend \/ ReadNextScheduled \/ CancelReceive)
  BY DEF FlushLock, FlushSend, ReadNextScheduled, CancelReceive, Receiving
<1>5. ~DropConsumer
  BY DEF Receiving, DropConsumer
<1>6. CASE DeliveryNext
  BY <1>6 DEF DeliveryNext, Ack, Nack, DropDelivery, NackLock, NackRequeue,
              NackRequeueFails, CancelNack
<1>7. CASE Shutdown \/ Tick
  BY <1>7 DEF Shutdown, Tick
<1> QED BY <1>1, <1>2, <1>3, <1>4, <1>5, <1>6, <1>7 DEF Next, ConsumerNext

\* The message is at position k and the consumer in state s.
QueuedIn(m, k, s) == Queued(m, k) /\ pc = s

\* In a fair run, a message at position k is received or moves up.
LEMMA PositionMoves ==
    ASSUME Receiving, NEW m \in Messages, NEW k \in 1 .. Capacity
    PROVE  FairSpec /\ []NeverStalls
              => (Queued(m, k) ~> m \in IdsInSet(held) \/ Queued(m, k - 1))
<1> DEFINE P == Queued(m, k)
           Q == m \in IdsInSet(held) \/ Queued(m, k - 1)
           On(s) == QueuedIn(m, k, s)
           Steps == ConsumerStep \/ FlushLock \/ ReadNextScheduled
<1>1. ASSUME QueueInv, [Next]_vars, Steps \/ StartCall
      PROVE  /\ On("poll_timer") => On("poll_liveness")' \/ Q'
             /\ On("poll_liveness") => On("parked")' \/ On("idle")' \/ Q'
             /\ On("idle") => On("poll_shutdown")' \/ On("check")' \/ On("lock_flush")' \/ Q'
             /\ On("poll_shutdown") => On("check")' \/ Q'
             /\ On("check") => On("lock_flush")' \/ Q'
             /\ On("lock_flush") => On("flush")' \/ Q'
             /\ On("flush") => On("try_recv")' \/ Q'
             /\ On("try_recv") => Q'
             /\ On("lock_next") => On("poll_recv")' \/ Q'
             /\ On("parked") => On("poll_recv")' \/ Q'
             /\ On("poll_recv") => Q'
  <2>1. SUFFICES ASSUME P, ~Q'
        PROVE  /\ pc = "poll_timer" => pc' \in {"poll_liveness"}
               /\ pc = "poll_liveness" => pc' \in {"parked", "idle"}
               /\ pc = "idle" => pc' \in {"poll_shutdown", "check", "lock_flush"}
               /\ pc = "poll_shutdown" => pc' \in {"check"}
               /\ pc = "check" => pc' \in {"lock_flush"}
               /\ pc = "lock_flush" => pc' \in {"flush"}
               /\ pc = "flush" => pc' \in {"try_recv"}
               /\ pc = "try_recv" => pc' \in {}
               /\ pc = "lock_next" => pc' \in {"poll_recv"}
               /\ pc = "parked" => pc' \in {"poll_recv"}
               /\ pc = "poll_recv" => pc' \in {}
    BY <1>1, QueuedMoves DEF QueuedIn, Moves, QueueInv
  <2>2. channel # <<>> /\ ~Deliver
    <3>1. ~Deliver
      BY <2>1, <1>1, DeliverMoves DEF Moves, QueueInv, CallInv
    <3>2. channel # <<>>
      BY <2>1 DEF Queued
    <3> QED BY <3>1, <3>2
  <2>3. CASE Steps
    BY <2>2, <2>3, <1>1, QueueSteps DEF PlainFlow
  <2>4. CASE StartCall
    BY <2>4, <1>1, QueueStarts
  <2> QED BY <1>1, <2>3, <2>4
<1>2. ASSUME QueueInv, [Next]_vars
      PROVE  /\ On("poll_timer") => On("poll_timer")' \/ On("poll_liveness")' \/ Q'
             /\ On("poll_liveness") => On("poll_liveness")' \/ On("parked")' \/ On("idle")' \/ Q'
             /\ On("idle") => On("idle")' \/ On("poll_shutdown")' \/ On("check")' \/ On("lock_flush")' \/ Q'
             /\ On("poll_shutdown") => On("poll_shutdown")' \/ On("check")' \/ Q'
             /\ On("check") => On("check")' \/ On("lock_flush")' \/ Q'
             /\ On("lock_flush") => On("lock_flush")' \/ On("flush")' \/ Q'
             /\ On("flush") => On("flush")' \/ On("try_recv")' \/ Q'
             /\ On("try_recv") => On("try_recv")' \/ Q'
             /\ On("lock_next") => On("lock_next")' \/ On("poll_recv")' \/ Q'
             /\ On("parked") => On("parked")' \/ On("poll_recv")' \/ Q'
             /\ On("poll_recv") => On("poll_recv")' \/ Q'
  <2>1. CASE UNCHANGED pc
    BY <2>1, <1>2, QueuedMoves DEF QueuedIn, Moves, QueueInv
  <2>2. CASE Steps \/ StartCall
    BY <2>2, <1>2, <1>1
  <2>3. ~CancelReceive
    BY DEF CancelReceive, Receiving
  <2>4. UNCHANGED pc \/ Steps \/ StartCall
    BY <2>3, <1>2, CallFlow, IdleStays
  <2> QED BY <2>1, <2>2, <2>4
<1>3. ASSUME QueueInv, NeverStalls
      PROVE  /\ On("poll_timer") => ENABLED <<ConsumerStep>>_vars
             /\ On("poll_liveness") => ENABLED <<ConsumerStep>>_vars
             /\ On("idle") => ENABLED <<StartCall>>_vars
             /\ On("poll_shutdown") => ENABLED <<ConsumerStep>>_vars
             /\ On("check") => ENABLED <<ConsumerStep>>_vars
             /\ On("lock_flush") => ENABLED <<FlushLock>>_vars
             /\ On("flush") => ENABLED <<ConsumerStep>>_vars
             /\ On("try_recv") => ENABLED <<ConsumerStep>>_vars
             /\ On("lock_next") => ENABLED <<ReadNextScheduled>>_vars
             /\ On("parked") => ENABLED <<ConsumerStep>>_vars
             /\ On("poll_recv") => ENABLED <<ConsumerStep>>_vars
  BY <1>3, QuietEnabled
     DEF QueuedIn, Queued, ConsumerStates, QueueInv, OpenInv, NeverStalls, Receiving
<1>4. QueueInv /\ P => \/ On("poll_timer")
      \/ On("poll_liveness")
      \/ On("idle")
      \/ On("poll_shutdown")
      \/ On("check")
      \/ On("lock_flush")
      \/ On("flush")
      \/ On("try_recv")
      \/ On("lock_next")
      \/ On("parked")
      \/ On("poll_recv")
  BY DEF QueueInv, CallInv, TypeOK, ConsumerStates, QueuedIn
<1>5. /\ <<ConsumerStep>>_vars => Steps
      /\ <<FlushLock>>_vars => Steps
      /\ <<ReadNextScheduled>>_vars => Steps
  OBVIOUS
<1>6. FairSpec /\ []NeverStalls => (P ~> Q)
  <2> HIDE DEF P, Q, On, Steps
  <2> QED BY <1>1, <1>2, <1>3, <1>4, <1>5, OpenCalls, FairConsumer, PTL DEF Spec
<1> QED BY <1>6

\* Each message in the channel is received or moves up by one, for every number
\* of producers and messages, whatever the capacity, if nothing is scheduled or
\* nack'd and the application goes on receiving.
THEOREM QueueMoves ==
    ASSUME Receiving
    PROVE  FairSpec /\ []NeverStalls => QueueMovesOn
BY PositionMoves DEF QueueMovesOn

-----------------------------------------------------------------------------
(* From the moves to the receipt: an induction on the position *)

LEMMA NatSetInduction ==
    ASSUME NEW N \in SUBSET Nat, 0 \in N, \A n \in N : n + 1 \in N
    PROVE  N = Nat
<1> SUFFICES ASSUME N # Nat PROVE FALSE
  OBVIOUS
<1> DEFINE T == Nat \ N
           R == {z \in Nat \X Nat : z[1] < z[2]}
<1>1. IsWellFoundedOn(R, Nat)
  <2>1. OpToRel(<, Nat) = R
    BY Zenon DEF OpToRel
  <2> QED BY <2>1, NatLessThanWellFounded, Zenon
<1>2. T \subseteq Nat /\ T # {}
  OBVIOUS
<1>3. PICK x \in T : \A y \in T : <<y, x>> \notin R
  <2> HIDE DEF T, R
  <2> QED BY <1>1, <1>2, WFMin, Zenon
<1>4. x # 0 /\ x - 1 \notin N
  <2>1. x - 1 \in N => (x - 1) + 1 \in N
    OBVIOUS
  <2> QED BY <2>1
<1>5. x - 1 \in T /\ <<x - 1, x>> \in R
  BY <1>4
<1> QED BY <1>3, <1>5

\* What is accepted is in the channel until it is received, if nothing is scheduled.
Received == {m \in Messages : handed[m] > 0}

AcceptedInv ==
    /\ accepted \subseteq IdsInSeq(channel) \cup Received
    /\ IdsInSet(held) \subseteq Received

LEMMA DeliverReceives ==
    ASSUME TypeOK, AcceptedInv, channel # <<>>, Deliver
    PROVE  /\ IdsInSeq(channel) \cup Received \subseteq IdsInSeq(channel') \cup Received'
           /\ IdsInSet(held') \subseteq Received'
<1>1. /\ channel \in Seq(Envelopes) /\ handed \in [Messages -> Nat]
      /\ Head(channel) \in Envelopes /\ Head(channel).id \in Messages
  <2>1. channel \in Seq(Envelopes) /\ handed \in [Messages -> Nat]
    BY DEF TypeOK
  <2>2. Head(channel) \in Envelopes
    BY <2>1, HeadTailProperties
  <2> QED BY <2>1, <2>2 DEF Envelopes
<1>2. Received' = Received \cup {Head(channel).id}
  BY <1>1 DEF Received, Deliver
<1>3. IdsInSeq(channel) = IdsInSeq(channel') \cup {Head(channel).id}
  BY <1>1, TailIds DEF Deliver
<1>4. IdsInSet(held') = IdsInSet(held) \cup {Head(channel).id}
  BY DEF Deliver, IdsInSet
<1> QED BY <1>2, <1>3, <1>4 DEF AcceptedInv

LEMMA AcceptedNext ==
    ASSUME Receiving, CallInv, AcceptedInv, [Next]_vars
    PROVE  AcceptedInv'
<1> USE DEF channelVars, deliveryVars, historyVars
<1>1. ASSUME UNCHANGED <<channel, accepted, handed>>, held' \subseteq held
      PROVE  AcceptedInv'
  BY <1>1 DEF AcceptedInv, Received, IdsInSet
<1>2. CASE UNCHANGED vars
  BY <1>1, <1>2 DEF vars
<1>3. CASE ProducerNext
  <2>1. ASSUME NEW s \in sending, SendCompletes(s)
        PROVE  AcceptedInv'
    <3>1. channel \in Seq(Envelopes) /\ s.env \in Envelopes
      BY <2>1 DEF CallInv, TypeOK
    <3>2. IdsInSeq(channel') = IdsInSeq(channel) \cup {s.env.id}
      BY <2>1, <3>1, AppendIds DEF SendCompletes, Push
    <3>3. accepted' = accepted \cup {s.env.id} /\ UNCHANGED <<handed, held>>
      BY <2>1 DEF SendCompletes
    <3> QED BY <3>2, <3>3 DEF AcceptedInv, Received
  <2> QED BY <1>1, <1>3, <2>1
          DEF ProducerNext, CloneProducer, DropProducer, Send, SendFails,
              SendAt, SendAtCompletes, CancelSend, CallInv, QuietInv
<1>4. CASE StartCall
  BY <1>1, <1>4 DEF StartCall, CallReceive, CallTryReceive, CallReceiveGraceful,
                    Start
<1>5. CASE ConsumerStep
  <2>1. CASE TryRecv \/ PollRecv
    <3>1. CASE channel # <<>> /\ Deliver
      <4>1. accepted' = accepted
        BY <2>1 DEF TryRecv, PollRecv
      <4> QED BY <3>1, <4>1, DeliverReceives DEF AcceptedInv, CallInv
    <3>2. CASE ~(channel # <<>> /\ Deliver)
      BY <1>1, <2>1, <3>2 DEF TryRecv, PollRecv
    <3> QED BY <3>1, <3>2
  <2> QED BY <1>1, <1>5, <2>1
          DEF ConsumerStep, PollReceive, StopGraceful, CheckShutdown, FlushDone,
              TimerElapsed, TimerPending, PollLiveness, Wake
<1>6. CASE FlushLock \/ ReadNextScheduled \/ CancelReceive
  BY <1>1, <1>6 DEF FlushLock, ReadNextScheduled, CancelReceive
<1>7. ~FlushSend /\ ~DropConsumer
  BY NothingToFlush DEF FlushSend, CallInv, QuietInv, DropConsumer, Receiving
<1>8. CASE DeliveryNext
  BY <1>1, <1>8
     DEF DeliveryNext, Ack, Nack, DropDelivery, CallInv, QuietInv, PlainUse,
         Receiving
<1>9. CASE Shutdown \/ Tick
  BY <1>1, <1>9 DEF Shutdown, Tick
<1> QED BY <1>2, <1>3, <1>4, <1>5, <1>6, <1>7, <1>8, <1>9
        DEF Next, ConsumerNext

LEMMA AcceptedCalls ==
    ASSUME Receiving
    PROVE  Spec => [](CallInv /\ AcceptedInv)
<1>1. Init => AcceptedInv
  BY DEF Init, AcceptedInv, IdsInSet
<1>2. CallInv /\ AcceptedInv /\ [Next]_vars => AcceptedInv'
  BY AcceptedNext
<1>3. Spec => []CallInv
  BY QuietCalls DEF Receiving
<1> QED BY <1>1, <1>2, <1>3, PTL DEF Spec

\* The message is at one of the first n positions of the channel.
QueuedUpTo(m, n) == \E k \in 1 .. n : Queued(m, k)

\* What the induction is about: from there the message is received.
ReceivedFrom(m, n) ==
    FairSpec /\ []NeverStalls => (QueuedUpTo(m, n) ~> handed[m] > 0)

LEMMA ReceivedFromNone ==
    ASSUME NEW m \in Messages
    PROVE  ReceivedFrom(m, 0)
<1>1. ~QueuedUpTo(m, 0)
  BY DEF QueuedUpTo
<1>2. FairSpec /\ []NeverStalls => (QueuedUpTo(m, 0) ~> handed[m] > 0)
  BY <1>1, PTL
<1> QED BY <1>2 DEF ReceivedFrom

LEMMA ReceivedFromNext ==
    ASSUME Receiving, NEW m \in Messages, NEW k \in 1 .. Capacity
    PROVE  ReceivedFrom(m, k - 1) => ReceivedFrom(m, k)
<1> DEFINE P == QueuedUpTo(m, k - 1)
           Q == QueuedUpTo(m, k)
           K == Queued(m, k)
           H == m \in IdsInSet(held)
           J == Queued(m, k - 1)
           G == handed[m] > 0
<1>0. k \in Nat \ {0}
  BY QueueAssumption
<1>1. Q => P \/ K
  BY <1>0 DEF QueuedUpTo
<1>2. TypeOK /\ J => P
  BY <1>0 DEF QueuedUpTo, Queued, TypeOK
<1>3. AcceptedInv /\ H => G
  BY DEF AcceptedInv, Received
<1>4. FairSpec /\ []NeverStalls => (K ~> H \/ J)
  BY PositionMoves
<1>5. CallInv => TypeOK
  BY DEF CallInv
<1>6. (FairSpec /\ []NeverStalls => (P ~> G))
         => (FairSpec /\ []NeverStalls => (Q ~> G))
  <2> HIDE DEF P, Q, K, H, J, G
  <2> QED BY <1>1, <1>2, <1>3, <1>4, <1>5, AcceptedCalls, PTL DEF FairSpec
<1> QED BY <1>6 DEF ReceivedFrom

LEMMA ReceivedFromAll ==
    ASSUME Receiving, NEW m \in Messages
    PROVE  ReceivedFrom(m, Capacity)
              => (FairSpec /\ []NeverStalls => (m \in accepted ~> handed[m] > 0))
<1> DEFINE A == m \in accepted
           P == QueuedUpTo(m, Capacity)
           G == handed[m] > 0
<1>1. ASSUME CallInv, AcceptedInv, A, ~G
      PROVE  P
  <2>1. channel \in Seq(Envelopes) /\ Len(channel) \in Nat /\ Len(channel) <= Capacity
    BY <1>1, LenProperties DEF CallInv, TypeOK
  <2>2. PICK k \in DOMAIN channel : channel[k].id = m
    BY <1>1 DEF AcceptedInv, Received, IdsInSeq
  <2>3. k \in 1 .. Capacity
    BY <2>1, <2>2, QueueAssumption
  <2> QED BY <2>2, <2>3 DEF QueuedUpTo, Queued
<1>2. (FairSpec /\ []NeverStalls => (P ~> G))
         => (FairSpec /\ []NeverStalls => (A ~> G))
  <2> HIDE DEF A, P, G
  <2> QED BY <1>1, AcceptedCalls, PTL DEF FairSpec
<1> QED BY <1>2 DEF ReceivedFrom

\* The separation axiom of set theory for ReceivedFrom.  In every behaviour such
\* a set exists, but TLA+ has no {x \in X : F} for a temporal F.
ReceivedFromSet ==
    \E S : \A m \in Messages, n \in Nat : <<m, n>> \in S <=> ReceivedFrom(m, n)

\* Every accepted message is received, for every number of producers and messages
\* and every capacity, if nothing is scheduled or nack'd and the application
\* goes on receiving.
THEOREM AcceptedAreReceived ==
    ASSUME Receiving, ReceivedFromSet
    PROVE  FairSpec /\ []NeverStalls => AcceptedIsReceived
<1> PICK S : \A m \in Messages, n \in Nat : <<m, n>> \in S <=> ReceivedFrom(m, n)
  BY DEF ReceivedFromSet
<1>1. ASSUME NEW m \in Messages
      PROVE  ReceivedFrom(m, Capacity)
  <2> DEFINE N == {n \in Nat : n <= Capacity => <<m, n>> \in S}
  <2>1. 0 \in N
    BY ReceivedFromNone
  <2>2. ASSUME NEW n \in N
        PROVE  n + 1 \in N
    <3>1. SUFFICES ASSUME n + 1 <= Capacity
          PROVE  <<m, n + 1>> \in S
      BY QueueAssumption
    <3>2. /\ n + 1 \in 1 .. Capacity /\ (n + 1) - 1 = n
          /\ n \in Nat /\ n + 1 \in Nat /\ n <= Capacity
      BY <3>1, QueueAssumption
    <3>3. ReceivedFrom(m, n)
      BY <3>2
    <3> DEFINE k == n + 1
    <3>4. k \in 1 .. Capacity /\ k - 1 = n
      BY <3>2
    <3> HIDE DEF k
    <3>5. ReceivedFrom(m, k - 1) => ReceivedFrom(m, k)
      BY <3>4, ReceivedFromNext
    <3>6. ReceivedFrom(m, k)
      BY <3>3, <3>4, <3>5
    <3> QED BY <3>2, <3>6 DEF k
  <2>3. N = Nat
    <3> HIDE DEF N
    <3>1. N \in SUBSET Nat
      BY DEF N
    <3> QED BY <2>1, <2>2, <3>1, NatSetInduction
  <2>4. Capacity \in Nat /\ Capacity <= Capacity
    BY QueueAssumption
  <2>5. \A n \in Nat : n <= Capacity => ReceivedFrom(m, n)
    BY <2>3
  <2> HIDE DEF N
  <2> QED BY <2>4, <2>5, Zenon
<1>2. ASSUME NEW m \in Messages
      PROVE  FairSpec /\ []NeverStalls => (m \in accepted ~> handed[m] > 0)
  BY <1>1, ReceivedFromAll
<1> QED BY <1>2 DEF AcceptedIsReceived

=============================================================================
