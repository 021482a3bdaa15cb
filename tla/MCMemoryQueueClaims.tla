------------------------ MODULE MCMemoryQueueClaims ------------------------
(***************************************************************************)
(* Statements that the repository's documentation and tests make about the *)
(* queue and that the in-memory backend does not keep.  Each is checked by *)
(* a run of its own, whose counterexample shows the steps.                 *)
(***************************************************************************)
EXTENDS MCMemoryQueue

\* "DLQ means nothing silently disappears" (README.md:54): what reaches its
\* receive limit is in the dead letter channel.
DeadLettersKept == DlqConfigured => exhausted \subseteq IdsInSeq(dlq)

\* "all sent messags must arrive" before the ConnectionLost that ends a stream
\* once the producer is dropped (tests.rs:246).
NothingSentIsLeft ==
    [][pc # "idle" /\ pc' = "idle" /\ result' = "ConnectionLost"
       => channel = <<>>]_vars

\* try_receive "Does not block" (traits/consumer.rs:71): it returns, whether or
\* not there is a message.
TryReceiveReturns ==
    (call = "try_receive" /\ pc # "idle") ~> pc = "idle"
=============================================================================
