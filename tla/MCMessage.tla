----------------------------- MODULE MCMessage -----------------------------
(***************************************************************************)
(* An instance of Message for TLC: one key and one value of each kind.     *)
(***************************************************************************)
EXTENDS Message

SomeKeys   == {"", "bq-custom", "content-type", "x-key"}
SomeBad    == {"", "bq-custom"}
SomeValues == {"", "json", "v"}
=============================================================================
