--------------------------- MODULE MemoryContract ---------------------------
(***************************************************************************)
(* The in-memory backend keeps the contract of QueueContract: every step   *)
(* of MemoryQueue is one of the contract or changes nothing the contract   *)
(* speaks of, under the mapping below.  A message waits while it is in the *)
(* map of scheduled messages, in a flush or in the channel, and is out     *)
(* until the nack that returns it has put it back into the channel.        *)
(***************************************************************************)
EXTENDS MemoryQueue

Offered == {s.env.id : s \in sending \cup scheduling}

Waiting == IdsInSchedule(scheduled) \cup IdsInSchedule(due) \cup IdsInSeq(channel)

Out == IdsInSet(held) \cup IdsInSet(nacking) \cup IdsInSet(requeuing)

\* The calls with which an application can lose a message.
LosingCalls == {"drop_delivery", "cancel_nack", "drop_consumer",
                "cancel_receive", "receive_graceful"}

Contract == INSTANCE QueueContract
                WITH offered    <- Offered,
                     waiting    <- Waiting,
                     out        <- Out,
                     attempts   <- handed,
                     not_before <- visible_at,
                     MayLose    <- Usage \cap LosingCalls # {}

\* The in-memory backend implements the contract: it hands out only what was
\* accepted and is due, in one place at a time and never beyond the limit, and
\* lets go of a message only where the application dropped what held it.
KeepsContract == Contract!Spec
=============================================================================
