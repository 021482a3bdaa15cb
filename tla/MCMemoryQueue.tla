--------------------------- MODULE MCMemoryQueue ---------------------------
(***************************************************************************)
(* Instances of MemoryQueue for TLC.                                       *)
(***************************************************************************)
EXTENDS MemoryContract, TLC

CONSTANTS m1, m2, m3, p1, p2

OneMessage    == {m1}
TwoMessages   == {m1, m2}
ThreeMessages == {m1, m2, m3}
OneProducer   == {p1}
TwoProducers  == {p1, p2}

\* Sound for invariants and action properties only.
Symmetry ==
    Permutations(Messages) \cup Permutations(Producers)

\* Every call of the API, and every future dropped where it waits.
AllCalls ==
    {"send", "send_at", "receive", "try_receive", "receive_graceful",
     "ack", "nack", "drop_delivery", "cancel_send", "cancel_receive",
     "cancel_nack", "clone_producer", "drop_producer", "drop_consumer",
     "shutdown"}
=============================================================================
