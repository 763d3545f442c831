----------------------------- MODULE BoundedMap -----------------------------
(***************************************************************************)
(* What OrderBook takes its index for: a map from order ids to slots that  *)
(* refuses an insertion when the key is there or when it holds Limit keys. *)
(***************************************************************************)
EXTENDS Integers, FiniteSets

CONSTANTS Keys, Values, Limit, Absent

VARIABLES
    map,    \* key -> value, for the keys that are in
    call,   \* the last call
    answer  \* what it returned

vars == <<map, call, answer>>

Returned(op, key, value) == call' = <<op, key>> /\ answer' = value

At(m, k) == IF k \in DOMAIN m THEN m[k] ELSE Absent
With(m, k, v) == [i \in DOMAIN m \cup {k} |-> IF i = k THEN v ELSE m[i]]
Without(m, k) == [i \in DOMAIN m \ {k} |-> m[i]]
Fits(m, k) == k \notin DOMAIN m /\ Cardinality(DOMAIN m) < Limit

Init == map = [k \in {} |-> Absent] /\ call = <<>> /\ answer = Absent

Find(k) == Returned("find", k, At(map, k)) /\ UNCHANGED map

Insert(k, v) ==
    \/ Returned("insert", k, v) /\ Fits(map, k) /\ map' = With(map, k, v)
    \/ Returned("insert", k, Absent) /\ ~Fits(map, k) /\ UNCHANGED map

Erase(k) == Returned("erase", k, At(map, k)) /\ map' = Without(map, k)

Next == \E k \in Keys : Find(k) \/ Erase(k) \/ \E v \in Values : Insert(k, v)

Spec == Init /\ [][Next]_vars
=============================================================================
