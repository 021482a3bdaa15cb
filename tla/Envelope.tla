------------------------------ MODULE Envelope ------------------------------
(***************************************************************************)
(* The data of the in-memory backend (crates/buqueue-memory): the envelope *)
(* that travels through the channel and the time-ordered map of messages   *)
(* that are scheduled but not yet due.  Everything here is a pure operator; *)
(* the steps that use them are in MemoryQueue.                              *)
(*                                                                         *)
(* Abstractions.  An envelope's payload, headers, routing key and first    *)
(* delivery time never change and are never looked at by the backend: the  *)
(* id stands for them.  The id is a fresh UUID per send, so a message is   *)
(* identified with its id.  A chrono timestamp is a tick 0..MaxTime.        *)
(***************************************************************************)
EXTENDS Naturals, Sequences, FiniteSets

CONSTANTS
    Messages,   \* the messages an application sends, one UUID each
    MaxTime,    \* the last tick of the clock (bounds the model)
    U32Max      \* u32::MAX; counters wrap beyond it

ASSUME EnvelopeAssumption ==
    /\ MaxTime \in Nat
    /\ U32Max \in Nat \ {0}

Times == 0 .. MaxTime

\* The result of next_scheduled_at when nothing is scheduled: no clock of the
\* model reaches it, as the code's std::future::pending() never resolves.
Never == MaxTime + 1

Envelopes == [id : Messages, delivery_count : 0 .. U32Max]

\* Both send and send_at start the count at 1.
NewEnvelope(m) == [id |-> m, delivery_count |-> 1]

\* `+= 1` on a u32, wrapping as a release build does.
Increment(n) == (n + 1) % (U32Max + 1)

\* Seeded fault: a nack that forgets to count the attempt.
Redelivered_Uncounted(e) == e

\* The copy a nack sends on, with the attempt counted.
Redelivered(e) == [e EXCEPT !.delivery_count = Increment(@)]

-----------------------------------------------------------------------------
(* SharedState::scheduled, a BTreeMap<DateTime, Vec<Envelope>>.  A key that is
   absent from the map is a time with an empty vector. *)

Schedules == [Times -> Seq(Envelopes)]

NothingScheduled == [t \in Times |-> <<>>]

\* The keys of the map.
Keys(s) == {t \in Times : s[t] # <<>>}

\* `entry(at).or_insert_with(Vec::new).push(e)`
Schedule(s, at, e) == [s EXCEPT ![at] = Append(@, e)]

\* Seeded fault: the latest key first, as an unordered map might give it.
FirstKey_Unordered(s) == CHOOSE t \in Keys(s) : \A u \in Keys(s) : u <= t

\* BTreeMap iterates over its keys in ascending order.
FirstKey(s) == CHOOSE t \in Keys(s) : \A u \in Keys(s) : t <= u

\* The earliest scheduled time, if any.
next_scheduled_at(s) == IF Keys(s) = {} THEN Never ELSE FirstKey(s)

\* Seeded faults: split_off one tick too late, and one tick too early.
DueBy_Early(s, now) == [t \in Times |-> IF t <= now + 1 THEN s[t] ELSE <<>>]
DueBy_Late(s, now)  == [t \in Times |-> IF t < now THEN s[t] ELSE <<>>]

\* What flush_due_scheduled takes out of the map at time `now`: the keys
\* before the split point now + 1.
DueBy(s, now) == [t \in Times |-> IF t < now + 1 THEN s[t] ELSE <<>>]

\* Seeded fault: the split point itself falls between the two halves.
NotDueBy_Gap(s, now) == [t \in Times |-> IF t > now + 1 THEN s[t] ELSE <<>>]

\* What `split_off(now + 1ns)` leaves in the map: the keys from there on.
NotDueBy(s, now) == [t \in Times |-> IF t >= now + 1 THEN s[t] ELSE <<>>]

\* Seeded fault: the flush loop keeps the envelope it has just sent.
Unflushed_Kept(d) == d

\* The due envelopes left after the flush loop has sent the first of them.
Unflushed(d) == [d EXCEPT ![FirstKey(d)] = Tail(@)]

-----------------------------------------------------------------------------
\* The ids in a sequence, a schedule and a set of envelopes.
IdsInSeq(q) == {q[i].id : i \in DOMAIN q}
IdsInSchedule(s) == UNION {IdsInSeq(s[t]) : t \in Times}
IdsInSet(S) == {e.id : e \in S}

\* No id occurs twice in them.
DistinctInSeq(q) == \A i, j \in DOMAIN q : q[i].id = q[j].id => i = j
DistinctInSchedule(s) ==
    /\ \A t \in Times : DistinctInSeq(s[t])
    /\ \A t, u \in Times : t # u => IdsInSeq(s[t]) \cap IdsInSeq(s[u]) = {}
DistinctInSet(S) == \A d, e \in S : d.id = e.id => d = e
=============================================================================
