------------------------- MODULE ContiguousDelivery -------------------------
(***************************************************************************)
(* What the recovery boundary promises its consumer (include/efe/          *)
(* recovery_engine.hpp, docs/ARCHITECTURE.md "No gap or duplicate reaches  *)
(* downstream state"): whatever datagrams arrive, in whatever order, the   *)
(* consumer is handed the messages of the feed one after the other from    *)
(* FirstExpected on, in batches, each with the payload the exchange sent.  *)
(***************************************************************************)
EXTENDS Integers, Sequences

CONSTANTS
    FirstExpected,  \* the sequence number the engine is constructed with
    MaxSequence,    \* numeric_limits<Sequence>::max()
    Feed            \* Feed[s] is the payload the exchange gave sequence s

VARIABLE released   \* the messages handed downstream so far

\* The messages of the feed with the sequence numbers a..b.
Batch(a, b) == [i \in 1..(b - a + 1) |->
                   [sequence |-> a + i - 1, payload |-> Feed[a + i - 1]]]

Init == released = <<>>

\* One Result: the next n messages of the feed.
Release ==
    LET next == FirstExpected + Len(released)
    IN  \E n \in 1..(MaxSequence - next + 1) :
            released' = released \o Batch(next, next + n - 1)

Spec == Init /\ [][Release]_released
=============================================================================
