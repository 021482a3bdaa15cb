---------------------------- MODULE MCQueueApi ----------------------------
(***************************************************************************)
(* Instances of QueueApi for TLC.                                          *)
(***************************************************************************)
EXTENDS QueueApi, TLC

CONSTANTS m1, m2

TwoMessages == {m1, m2}

\* A backend that has only what the traits require, and the in-memory one.
BareAndMemory ==
    {{}, {"send_at", "try_receive", "shutdown_handle", "receive_graceful"}}
=============================================================================
