--------------------------- MODULE QueueContract ---------------------------
(***************************************************************************)
(* What a backend promises to those who use it through the traits          *)
(* QueueProducer and QueueConsumer and through a Delivery: where each      *)
(* message can be, and how it may get from one place to the next.  Nothing *)
(* is said of channels, locks and tasks: MemoryContract shows that the     *)
(* in-memory backend keeps this contract, and QueueApi builds the default  *)
(* methods of the traits on it.                                            *)
(***************************************************************************)
EXTENDS Naturals, FiniteSets

CONSTANTS
    Messages,     \* the messages an application sends
    MaxTime,      \* the last tick of the clock (bounds the model)
    MaxAttempts,  \* DlqConfig::max_receive_count
    MayLose       \* does the application drop what holds a message?

VARIABLES
    unsent,      \* no send was called
    offered,     \* a send or send_at is in progress
    waiting,     \* the backend has it and will hand it out
    out,         \* in a Delivery that is not settled
    acked,       \* its delivery was ack'd
    exhausted,   \* given up after its last attempt
    accepted,    \* a send or send_at returned Ok, or will
    attempts,    \* how often it was received
    not_before,  \* the time before which it is not handed out
    now

contractVars == <<unsent, offered, waiting, out, acked, exhausted, accepted,
                  attempts, not_before, now>>

Init ==
    /\ unsent = Messages
    /\ offered = {} /\ waiting = {} /\ out = {}
    /\ acked = {} /\ exhausted = {} /\ accepted = {}
    /\ attempts = [m \in Messages |-> 0]
    /\ not_before = [m \in Messages |-> 0]
    /\ now = 0

-----------------------------------------------------------------------------
(* The producer's side *)

\* send, send_batch and send_at take the messages.
Offer(S) ==
    /\ S \subseteq unsent
    /\ unsent' = unsent \ S
    /\ offered' = offered \cup S
    /\ UNCHANGED <<waiting, out, acked, exhausted, accepted, attempts,
                   not_before, now>>

\* The backend takes message m, to be visible from time `at` on.
Accept(m, at) ==
    /\ m \in offered
    /\ offered' = offered \ {m}
    /\ waiting' = waiting \cup {m}
    /\ accepted' = accepted \cup {m}
    /\ not_before' = [not_before EXCEPT ![m] = at]
    /\ UNCHANGED <<unsent, out, acked, exhausted, attempts, now>>

\* The call fails, or its future is dropped.
Refuse(S) ==
    /\ S \subseteq offered
    /\ offered' = offered \ S
    /\ UNCHANGED <<unsent, waiting, out, acked, exhausted, accepted, attempts,
                   not_before, now>>

-----------------------------------------------------------------------------
(* The consumer's side *)

\* A limit of 0 still gives one attempt: it is looked at after a nack.
AttemptsLeft(m) == attempts[m] < IF MaxAttempts = 0 THEN 1 ELSE MaxAttempts

Visible(m) == m \in waiting /\ not_before[m] <= now

\* A receive call returns the message.
Hand(m) ==
    /\ Visible(m)
    /\ AttemptsLeft(m)
    /\ waiting' = waiting \ {m}
    /\ out' = out \cup {m}
    /\ attempts' = [attempts EXCEPT ![m] = @ + 1]
    /\ UNCHANGED <<unsent, offered, acked, exhausted, accepted, not_before, now>>

Ack(m) ==
    /\ m \in out
    /\ out' = out \ {m}
    /\ acked' = acked \cup {m}
    /\ UNCHANGED <<unsent, offered, waiting, exhausted, accepted, attempts,
                   not_before, now>>

\* A nack below the limit gives the message back...
Return(m) ==
    /\ m \in out
    /\ attempts[m] < MaxAttempts
    /\ out' = out \ {m}
    /\ waiting' = waiting \cup {m}
    /\ UNCHANGED <<unsent, offered, acked, exhausted, accepted, attempts,
                   not_before, now>>

\* ...and one that reaches it gives the message up.
GiveUp(m) ==
    /\ m \in out
    /\ attempts[m] >= MaxAttempts
    /\ out' = out \ {m}
    /\ exhausted' = exhausted \cup {m}
    /\ UNCHANGED <<unsent, offered, waiting, acked, accepted, attempts,
                   not_before, now>>

\* What holds the messages is dropped: a Delivery, a future, the consumer.
Lose(S) ==
    /\ MayLose
    /\ S \subseteq waiting \cup out
    /\ waiting' = waiting \ S
    /\ out' = out \ S
    /\ UNCHANGED <<unsent, offered, acked, exhausted, accepted, attempts,
                   not_before, now>>

Tick ==
    /\ now < MaxTime
    /\ now' = now + 1
    /\ UNCHANGED <<unsent, offered, waiting, out, acked, exhausted, accepted,
                   attempts, not_before>>

-----------------------------------------------------------------------------

Next ==
    \/ \E S \in SUBSET Messages : Offer(S) \/ Refuse(S) \/ Lose(S)
    \/ \E m \in Messages, at \in 0 .. MaxTime : Accept(m, at)
    \/ \E m \in Messages : Hand(m) \/ Ack(m) \/ Return(m) \/ GiveUp(m)
    \/ Tick

Spec == Init /\ [][Next]_contractVars
=============================================================================
