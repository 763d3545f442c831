--------------------------- MODULE FlatOrderIndex ---------------------------
(***************************************************************************)
(* FlatOrderIndex (include/efe/flat_order_index.hpp): the open-addressing  *)
(* table, with linear probing and tombstones, that finds an order's slot   *)
(* by its id.  A loop that probes until a condition holds is written as    *)
(* the choice of the first position, in probe order, where it holds.       *)
(***************************************************************************)
EXTENDS Integers, FiniteSets

CONSTANTS
    Capacity,  \* entries_.size()
    Keys,      \* the order ids
    Values,    \* the slot indices
    Absent     \* nullopt; also the value of a call that returned false

ASSUME IndexAssumption ==
    /\ Capacity \in Nat \ {0}
    /\ Absent \notin Values

Position == 0..(Capacity - 1)

VARIABLES
    entries,  \* entries_
    size,     \* size_
    home,     \* home[k] is hash(k) & mask_: any function, it never changes
    call,     \* the last call
    answer    \* what it returned

vars == <<entries, size, home, call, answer>>

\* The number of steps from the home of k to position p, wrapping at the end.
Distance(k, p) ==
    IF p >= home[k] THEN p - home[k] ELSE p + Capacity - home[k]

\* The member of S that probing for k meets first.
First(k, S) == CHOOSE p \in S : \A q \in S : Distance(k, p) <= Distance(k, q)

In(state) == {p \in Position : entries[p].state = state}

\* Broken on purpose: does not look at the state of the entry.
HoldingAnyState(k) == {p \in Position : entries[p].key = k}

Holding(k) == {p \in In("Occupied") : entries[p].key = k}

\* Broken on purpose: a tombstone ends the search like an empty entry.
ProbeEndsAtTombstone(k) ==
    LET stops == In("Empty") \cup In("Tombstone") \cup Holding(k)
    IN  IF stops = {} THEN {} ELSE {First(k, stops)} \cap Holding(k)

\* Where the loop of find() and of erase() ends with the key in hand, if it
\* does: it gives up at an empty entry, and after Capacity probes.
Probe(k) ==
    LET stops == In("Empty") \cup Holding(k)
    IN  IF stops = {} THEN {} ELSE {First(k, stops)} \cap Holding(k)

\* What find() returns.
Lookup(k) ==
    LET found == Probe(k)
    IN  IF found = {} THEN Absent ELSE entries[CHOOSE p \in found : TRUE].value

HasRoom == size * 10 < Capacity * 7

\* Where insert() puts a new key: the first tombstone passed on the way to an
\* empty entry, else that empty entry, else nowhere.
Targets(k) ==
    LET end == IF In("Empty") = {} THEN Capacity
               ELSE Distance(k, First(k, In("Empty")))
        passed == {p \in In("Tombstone") : Distance(k, p) < end}
    IN  IF passed # {} THEN {First(k, passed)}
        ELSE IF In("Empty") # {} THEN {First(k, In("Empty"))} ELSE {}

Returned(op, key, value) == call' = <<op, key>> /\ answer' = value

-----------------------------------------------------------------------------
Init ==
    /\ entries = [p \in Position |->
                     [key |-> Absent, value |-> Absent, state |-> "Empty"]]
    /\ size = 0
    /\ home \in [Keys -> Position]
    /\ call = <<>> /\ answer = Absent

Find(k) == Returned("find", k, Lookup(k)) /\ UNCHANGED <<entries, size, home>>

\* insert() that returns false.
Refuse(k) ==
    /\ ~HasRoom \/ Probe(k) # {} \/ Targets(k) = {}
    /\ Returned("insert", k, Absent)
    /\ UNCHANGED <<entries, size, home>>

\* Broken on purpose: a tombstone that is filled again does not count.
InsertReuseUncounted(k, v) ==
    /\ HasRoom
    /\ Probe(k) = {}
    /\ \E p \in Targets(k) :
           /\ entries' = [entries EXCEPT
                             ![p] = [key |-> k, value |-> v, state |-> "Occupied"]]
           /\ size' = IF entries[p].state = "Empty" THEN size + 1 ELSE size
    /\ Returned("insert", k, v)
    /\ UNCHANGED home

Insert(k, v) ==
    /\ HasRoom
    /\ Probe(k) = {}
    /\ \E p \in Targets(k) :
           entries' = [entries EXCEPT
                          ![p] = [key |-> k, value |-> v, state |-> "Occupied"]]
    /\ size' = size + 1
    /\ Returned("insert", k, v)
    /\ UNCHANGED home

\* Broken on purpose: an erased entry becomes empty.
VacatedEmpty(entry) == [entry EXCEPT !.state = "Empty"]

Vacated(entry) == [entry EXCEPT !.state = "Tombstone"]

Erase(k) ==
    /\ Probe(k) # {}
    /\ \E p \in Probe(k) : entries' = [entries EXCEPT ![p] = Vacated(@)]
    /\ size' = size - 1
    /\ Returned("erase", k, Lookup(k))
    /\ UNCHANGED home

\* Broken on purpose: size_ is decremented whether or not the key was there.
EraseMissingCounts(k) ==
    /\ Probe(k) = {}
    /\ size' = size - 1
    /\ Returned("erase", k, Absent)
    /\ UNCHANGED <<entries, home>>

\* erase() that returns false.
EraseMissing(k) ==
    /\ Probe(k) = {}
    /\ Returned("erase", k, Absent)
    /\ UNCHANGED <<entries, size, home>>

Next ==
    \E k \in Keys :
        \/ Find(k) \/ Refuse(k) \/ Erase(k) \/ EraseMissing(k)
        \/ \E v \in Values : Insert(k, v)

Spec == Init /\ [][Next]_vars

-----------------------------------------------------------------------------
(* Properties.                                                             *)

\* entries_ and size_ stay within their types.
TypeOK ==
    /\ entries \in [Position -> [key : Keys \cup {Absent}, value : Values \cup {Absent},
                                 state : {"Empty", "Occupied", "Tombstone"}]]
    /\ size \in Nat
    /\ home \in [Keys -> Position]

\* Probing for a key that is in the table is never cut short: between its
\* home and its entry there is no empty entry, although erasures left holes
\* there and later insertions filled some of them.
PathsUnbroken ==
    \A p \in In("Occupied") : \A q \in In("Empty") :
        Distance(entries[p].key, p) < Distance(entries[p].key, q)

\* No key is in the table twice, although insert() fills a tombstone it met
\* before it has seen the rest of the probe path.
KeysUnique == \A k \in Keys : \A p, q \in Holding(k) : p = q

\* size_ counts the occupied entries, whether an insertion took an empty entry,
\* a tombstone on the way or, after the loop, one in a table without empty ones.
SizeExact == size = Cardinality(In("Occupied"))

\* The largest number of keys insert() lets in.
LoadLimit == CHOOSE n \in 0..Capacity : n * 10 >= Capacity * 7 /\ (n - 1) * 10 < Capacity * 7

\* What the table holds, wherever it is.
Contents ==
    [k \in {entries[p].key : p \in In("Occupied")} |->
        entries[CHOOSE p \in Holding(k) : TRUE].value]

\* The table is a map: what it holds changes as a map does, and every call
\* answers as a map answers, however tombstones and collisions lie.
Map == INSTANCE BoundedMap WITH
           map <- Contents, Limit <- LoadLimit

ImplementsMap == Map!Spec
=============================================================================
