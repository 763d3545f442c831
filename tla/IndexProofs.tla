---------------------------- MODULE IndexProofs ----------------------------
(***************************************************************************)
(* Proofs that FlatOrderIndex keeps its invariants and implements          *)
(* BoundedMap, for every capacity, every set of keys and every hash        *)
(* function.                                                               *)
(***************************************************************************)
EXTENDS FlatOrderIndex, NaturalLemmas, FiniteSetTheorems, FunctionTheorems, TLAPS

\* An occupied entry holds a key and a slot.
Keyed == \A p \in In("Occupied") : entries[p].key \in Keys /\ entries[p].value \in Values

IInv == TypeOK /\ Keyed /\ PathsUnbroken /\ KeysUnique /\ SizeExact

-----------------------------------------------------------------------------
(* Probing.                                                                *)

\* The distance from a key's home counts the steps of a probing loop, which
\* makes at most Capacity of them.
LEMMA DistanceType ==
    ASSUME TypeOK, NEW k \in Keys, NEW p \in Position
    PROVE  Distance(k, p) \in 0..(Capacity - 1)
<1>1. home[k] \in Position
  BY DEF TypeOK
<1> QED
  BY <1>1, IndexAssumption DEF Distance, Position

\* A probing loop visits no position twice.
LEMMA DistanceInjective ==
    ASSUME TypeOK, NEW k \in Keys, NEW p \in Position, NEW q \in Position,
           Distance(k, p) = Distance(k, q)
    PROVE  p = q
<1>1. home[k] \in Position
  BY DEF TypeOK
<1> QED
  BY <1>1, IndexAssumption DEF Distance, Position

\* First is the first position of a set that a probing loop meets.
LEMMA FirstIsFirst ==
    ASSUME TypeOK, NEW k \in Keys, NEW S, S \subseteq Position, S # {}
    PROVE  /\ First(k, S) \in S
           /\ \A q \in S : Distance(k, First(k, S)) <= Distance(k, q)
<1> DEFINE D == {Distance(k, p) : p \in S}
<1>1. D \subseteq Nat /\ D # {}
  BY DistanceType, IndexAssumption
<1>2. PICK d \in D : \A e \in D : d <= e
  BY <1>1, LeastElement
<1>3. PICK p \in S : d = Distance(k, p)
  OBVIOUS
<1>4. \A q \in S : Distance(k, p) <= Distance(k, q)
  BY <1>2, <1>3
<1> QED
  BY <1>4 DEF First

\* find() and erase() find a key exactly where it is held.
LEMMA ProbeIsHolding ==
    ASSUME IInv, NEW k \in Keys
    PROVE  Probe(k) = Holding(k)
<1> DEFINE stops == In("Empty") \cup Holding(k)
<1>1. Probe(k) \subseteq Holding(k)
  BY DEF Probe
<1>2. ASSUME NEW h \in Holding(k)
      PROVE  h \in Probe(k)
  <2>1. stops \subseteq Position /\ stops # {}
    BY <1>2 DEF In, Holding
  <2>2. /\ First(k, stops) \in stops
        /\ Distance(k, First(k, stops)) <= Distance(k, h)
    BY <2>1, <1>2, FirstIsFirst DEF IInv
  <2>3. h \in Position /\ h \in In("Occupied") /\ entries[h].key = k
    BY <1>2 DEF Holding, In
  <2>4. First(k, stops) \notin In("Empty")
    <3>1. SUFFICES ASSUME First(k, stops) \in In("Empty")
                   PROVE  FALSE
      OBVIOUS
    <3>2. Distance(k, h) < Distance(k, First(k, stops))
      BY <3>1, <2>3 DEF IInv, PathsUnbroken
    <3>3. Distance(k, h) \in Int /\ Distance(k, First(k, stops)) \in Int
      BY <2>1, <2>2, <2>3, DistanceType DEF IInv
    <3> QED
      BY <3>2, <3>3, <2>2
  <2>5. First(k, stops) = h
    BY <2>2, <2>4, <1>2 DEF IInv, KeysUnique
  <2> QED
    BY <2>1, <2>5, <1>2 DEF Probe
<1> QED
  BY <1>1, <1>2

\* insert() puts a key where no other is, and with no empty entry before it
\* on the key's probe path.
LEMMA TargetIsReachable ==
    ASSUME TypeOK, NEW k \in Keys, NEW t \in Targets(k)
    PROVE  /\ t \in Position
           /\ t \notin In("Occupied")
           /\ \A q \in In("Empty") : q # t => Distance(k, t) < Distance(k, q)
<1> DEFINE empty == In("Empty")
           end == IF empty = {} THEN Capacity ELSE Distance(k, First(k, empty))
           passed == {p \in In("Tombstone") : Distance(k, p) < end}
<1>1. empty \subseteq Position /\ passed \subseteq Position
  BY DEF In
<1>2. empty # {} => /\ First(k, empty) \in empty
                    /\ \A q \in empty : Distance(k, First(k, empty)) <= Distance(k, q)
  BY <1>1, FirstIsFirst
<1>3. \A p \in Position : Distance(k, p) \in Int
  BY DistanceType
<1>4. CASE passed # {}
  <2>1. t = First(k, passed)
    BY <1>4 DEF Targets
  <2>2. t \in passed
    BY <2>1, <1>1, <1>4, FirstIsFirst
  <2>3. t \in Position /\ t \notin In("Occupied")
    BY <2>2 DEF In
  <2>4. ASSUME NEW q \in empty
        PROVE  Distance(k, t) < Distance(k, q)
    <3>1. Distance(k, t) < Distance(k, First(k, empty))
      BY <2>2, <2>4
    <3>2. Distance(k, First(k, empty)) <= Distance(k, q)
      BY <1>2, <2>4
    <3>3. First(k, empty) \in Position /\ q \in Position
      BY <1>1, <1>2, <2>4
    <3> HIDE DEF empty, passed, end
    <3> QED
      BY <3>1, <3>2, <3>3, <2>3, <1>3
  <2> QED
    BY <2>3, <2>4
<1>5. CASE passed = {}
  <2>1. empty # {} /\ t = First(k, empty)
    BY <1>5 DEF Targets
  <2>2. t \in Position /\ t \notin In("Occupied")
    BY <2>1, <1>1, <1>2 DEF In
  <2>3. ASSUME NEW q \in empty, q # t
        PROVE  Distance(k, t) < Distance(k, q)
    <3>1. Distance(k, t) <= Distance(k, q)
      BY <1>2, <2>1, <2>3
    <3>2. q \in Position
      BY <1>1, <2>3
    <3>3. Distance(k, t) # Distance(k, q)
      BY <3>2, <2>2, <2>3, DistanceInjective
    <3> HIDE DEF empty
    <3> QED
      BY <3>1, <3>2, <3>3, <2>2, <1>3
  <2> QED
    BY <2>2, <2>3
<1> QED
  BY <1>4, <1>5

-----------------------------------------------------------------------------
(* The invariant.                                                          *)

\* The occupied entries are finitely many, so that counting them makes sense.
LEMMA OccupiedIsFinite == IsFiniteSet(In("Occupied"))
<1>1. IsFiniteSet(Position)
  BY IndexAssumption, FS_Interval DEF Position
<1> QED
  BY <1>1, FS_Subset DEF In

\* The empty table of the constructor satisfies the invariant.
LEMMA InitInv == Init => IInv
<1> SUFFICES ASSUME Init
             PROVE  IInv
  OBVIOUS
<1>1. TypeOK
  BY DEF Init, TypeOK
<1>2. In("Occupied") = {}
  BY DEF Init, In
<1>3. Keyed /\ PathsUnbroken /\ KeysUnique
  BY <1>2 DEF Keyed, PathsUnbroken, KeysUnique, Holding
<1>4. SizeExact
  <2>1. size = 0 /\ Cardinality(In("Occupied")) = 0
    BY <1>2, FS_EmptySet DEF Init
  <2> QED
    BY <2>1 DEF SizeExact
<1> QED
  BY <1>1, <1>3, <1>4 DEF IInv

\* A call that leaves entries_ and size_ alone preserves the invariant.
LEMMA NoChangeInv == IInv /\ UNCHANGED <<entries, size, home>> => IInv'
BY DEF IInv, TypeOK, Keyed, PathsUnbroken, KeysUnique, SizeExact, In, Holding, Distance

\* insert() preserves the invariant.
LEMMA InsertInv ==
    ASSUME IInv, NEW k \in Keys, NEW v \in Values, Insert(k, v)
    PROVE  IInv'
<1>1. PICK t \in Targets(k) :
          entries' = [entries EXCEPT
                         ![t] = [key |-> k, value |-> v, state |-> "Occupied"]]
  BY DEF Insert
<1>2. /\ t \in Position
      /\ t \notin In("Occupied")
      /\ \A q \in In("Empty") : q # t => Distance(k, t) < Distance(k, q)
  BY TargetIsReachable DEF IInv
<1>3. size' = size + 1 /\ home' = home /\ HasRoom
  BY DEF Insert
<1>4. Holding(k) = {}
  BY ProbeIsHolding DEF Insert
<1>5. TypeOK'
  BY <1>1, <1>2, <1>3 DEF IInv, TypeOK
<1>6. /\ entries'[t] = [key |-> k, value |-> v, state |-> "Occupied"]
      /\ \A p \in Position : p # t => entries'[p] = entries[p]
  BY <1>1, <1>2 DEF IInv, TypeOK
<1>7. In("Occupied")' = In("Occupied") \cup {t}
  BY <1>6, <1>2 DEF In
<1>8. In("Empty")' = In("Empty") \ {t}
  BY <1>6, <1>2 DEF In
<1>9. \A j, p : Distance(j, p)' = Distance(j, p)
  BY <1>3 DEF Distance
<1>10. Keyed'
  BY <1>6, <1>7 DEF IInv, Keyed, In
<1>11. PathsUnbroken'
  <2> SUFFICES ASSUME NEW p \in In("Occupied")', NEW q \in In("Empty")'
               PROVE  Distance(entries'[p].key, p) < Distance(entries'[p].key, q)
    BY <1>9 DEF PathsUnbroken
  <2>1. CASE p = t
    BY <2>1, <1>2, <1>6, <1>8
  <2>2. CASE p # t
    <3>1. p \in In("Occupied") /\ q \in In("Empty") /\ entries'[p] = entries[p]
      BY <2>2, <1>6, <1>7, <1>8 DEF In
    <3> QED
      BY <3>1 DEF IInv, PathsUnbroken
  <2> QED
    BY <2>1, <2>2
<1>12. KeysUnique'
  <2> SUFFICES ASSUME NEW j \in Keys, NEW p \in Holding(j)', NEW q \in Holding(j)'
               PROVE  p = q
    BY DEF KeysUnique
  <2>1. \A r \in Holding(j)' : r \in In("Occupied") \cup {t} /\ entries'[r].key = j
    BY <1>7 DEF Holding
  <2>2. \A r \in Holding(j)' : r # t => r \in Holding(j)
    BY <2>1, <1>6 DEF Holding, In
  <2>3. CASE j = k
    BY <2>2, <2>3, <1>4
  <2>4. CASE j # k
    BY <2>1, <2>2, <2>4, <1>6 DEF IInv, KeysUnique
  <2> QED
    BY <2>3, <2>4
<1>13. SizeExact'
  <2>1. Cardinality(In("Occupied") \cup {t}) = Cardinality(In("Occupied")) + 1
    BY <1>2, OccupiedIsFinite, FS_AddElement
  <2>2. size' = Cardinality(In("Occupied")')
    BY <2>1, <1>3, <1>7 DEF IInv, SizeExact
  <2> QED
    BY <2>2 DEF SizeExact
<1> QED
  BY <1>5, <1>10, <1>11, <1>12, <1>13 DEF IInv

\* erase() preserves the invariant: the tombstone keeps the paths unbroken.
LEMMA EraseInv ==
    ASSUME IInv, NEW k \in Keys, Erase(k)
    PROVE  IInv'
<1>1. PICK t \in Probe(k) : entries' = [entries EXCEPT ![t] = Vacated(@)]
  BY DEF Erase
<1>2. t \in Position /\ t \in In("Occupied")
  BY ProbeIsHolding DEF Holding, In
<1>3. size' = size - 1 /\ home' = home
  BY DEF Erase
<1>4. /\ entries'[t] = [entries[t] EXCEPT !.state = "Tombstone"]
      /\ \A p \in Position : p # t => entries'[p] = entries[p]
  BY <1>1, <1>2 DEF IInv, TypeOK, Vacated
<1>5. In("Occupied")' = In("Occupied") \ {t}
  BY <1>4, <1>2 DEF In, IInv, TypeOK
<1>6. In("Empty")' = In("Empty")
  BY <1>4, <1>2 DEF In, IInv, TypeOK
<1>7. SizeExact' /\ size' \in Nat
  <2>1. /\ Cardinality(In("Occupied") \ {t}) = Cardinality(In("Occupied")) - 1
        /\ Cardinality(In("Occupied") \ {t}) \in Nat
    BY <1>2, OccupiedIsFinite, FS_RemoveElement, FS_CardinalityType
  <2>2. size' = Cardinality(In("Occupied")') /\ size' \in Nat
    BY <2>1, <1>3, <1>5 DEF IInv, SizeExact
  <2> QED
    BY <2>2 DEF SizeExact
<1>8. TypeOK'
  BY <1>1, <1>2, <1>3, <1>7 DEF IInv, TypeOK, Vacated
<1>9. \A p \in In("Occupied")' : p \in In("Occupied") /\ entries'[p] = entries[p]
  BY <1>4, <1>5 DEF In
<1>10. Keyed'
  BY <1>9 DEF IInv, Keyed
<1>11. PathsUnbroken'
  BY <1>3, <1>6, <1>9 DEF IInv, PathsUnbroken, Distance
<1>12. KeysUnique'
  BY <1>9 DEF IInv, KeysUnique, Holding
<1> QED
  BY <1>7, <1>8, <1>10, <1>11, <1>12 DEF IInv

\* Every call preserves the invariant.
LEMMA NextInv == IInv /\ [Next]_vars => IInv'
<1> SUFFICES ASSUME IInv, [Next]_vars
             PROVE  IInv'
  OBVIOUS
<1>1. CASE UNCHANGED vars
  BY <1>1, NoChangeInv DEF vars
<1>2. ASSUME NEW k \in Keys, Find(k) \/ Refuse(k) \/ EraseMissing(k)
      PROVE  IInv'
  BY <1>2, NoChangeInv DEF Find, Refuse, EraseMissing
<1>3. ASSUME NEW k \in Keys, Erase(k)
      PROVE  IInv'
  BY <1>3, EraseInv
<1>4. ASSUME NEW k \in Keys, NEW v \in Values, Insert(k, v)
      PROVE  IInv'
  BY <1>4, InsertInv
<1> QED
  BY <1>1, <1>2, <1>3, <1>4 DEF Next

\* The inductive invariant: types, keyed entries, unbroken probe paths, unique
\* keys and an exact size_, after every sequence of calls.
THEOREM IndexInvariance == Spec => []IInv
BY InitInv, NextInv, PTL DEF Spec

\* entries_ and size_ stay within their types.
THEOREM IndexTypeCorrect == Spec => []TypeOK
<1>1. IInv => TypeOK
  BY DEF IInv
<1> QED
  BY <1>1, IndexInvariance, PTL

\* No empty entry ever lies between the home of a key and its entry, whatever
\* the hash function and however erase() and insert() alternate.
THEOREM PathsStayUnbroken == Spec => []PathsUnbroken
<1>1. IInv => PathsUnbroken
  BY DEF IInv
<1> QED
  BY <1>1, IndexInvariance, PTL

\* insert() never stores a key that is already in the table.
THEOREM KeysStayUnique == Spec => []KeysUnique
<1>1. IInv => KeysUnique
  BY DEF IInv
<1> QED
  BY <1>1, IndexInvariance, PTL

\* size_ is the number of occupied entries.
THEOREM SizeStaysExact == Spec => []SizeExact
<1>1. IInv => SizeExact
  BY DEF IInv
<1> QED
  BY <1>1, IndexInvariance, PTL

-----------------------------------------------------------------------------
(* The table implements BoundedMap.                                        *)

Held == {k \in Keys : Holding(k) # {}}

\* find() shows the value of the entry that holds the key, and nothing else.
LookupShown ==
    \A k \in Keys :
        /\ k \in Held => Lookup(k) \in Values
        /\ k \notin Held => Lookup(k) = Absent
        /\ \A p \in Holding(k) : Lookup(k) = entries[p].value

ContentsShown == Contents = [k \in Held |-> Lookup(k)]

\* What find() shows follows from the entries that hold a key.
LEMMA InvLookup == IInv => LookupShown
<1> SUFFICES ASSUME IInv, NEW k \in Keys
             PROVE  /\ k \in Held => Lookup(k) \in Values
                    /\ k \notin Held => Lookup(k) = Absent
                    /\ \A p \in Holding(k) : Lookup(k) = entries[p].value
  BY DEF LookupShown
<1>1. Probe(k) = Holding(k)
  BY ProbeIsHolding
<1>2. k \notin Held => Lookup(k) = Absent
  BY <1>1 DEF Held, Lookup
<1>3. ASSUME NEW p \in Holding(k)
      PROVE  Lookup(k) = entries[p].value /\ entries[p].value \in Values
  <2>1. (CHOOSE q \in Holding(k) : TRUE) = p
    BY DEF IInv, KeysUnique
  <2> QED
    BY <1>1, <2>1 DEF Lookup, IInv, Keyed, Holding
<1> QED
  BY <1>2, <1>3 DEF Held

\* find() shows exactly what the table holds.
LEMMA InvContents == IInv => ContentsShown
<1> SUFFICES ASSUME IInv
             PROVE  Contents = [k \in Held |-> Lookup(k)]
  BY DEF ContentsShown
<1>1. {entries[p].key : p \in In("Occupied")} = Held
  BY DEF IInv, Keyed, Held, Holding
<1>2. ASSUME NEW k \in Held
      PROVE  entries[CHOOSE p \in Holding(k) : TRUE].value = Lookup(k)
  <2>1. k \in Keys /\ (CHOOSE p \in Holding(k) : TRUE) \in Holding(k)
    BY DEF Held
  <2> QED
    BY <2>1, InvLookup DEF LookupShown
<1> QED
  BY <1>1, <1>2 DEF Contents

\* The number of keys in the map is size_.
LEMMA HeldCount == IInv => Cardinality(Held) = size
<1> SUFFICES ASSUME IInv
             PROVE  Cardinality(Held) = size
  OBVIOUS
<1> DEFINE Occupied == In("Occupied")
           f == [p \in Occupied |-> entries[p].key]
<1>1. f \in [Occupied -> Held]
  BY DEF IInv, Keyed, Held, Holding
<1>2. \A a, b \in Occupied : f[a] = f[b] => a = b
  BY DEF IInv, Keyed, KeysUnique, Holding
<1>3. \A k \in Held : \E p \in Occupied : f[p] = k
  BY DEF Held, Holding
<1> HIDE DEF f
<1>4. ExistsBijection(Occupied, Held)
  BY <1>1, <1>2, <1>3, Fun_IsBij DEF ExistsBijection
<1>5. Cardinality(Held) = Cardinality(Occupied)
  BY <1>4, OccupiedIsFinite, FS_Bijection
<1> QED
  BY <1>5 DEF IInv, SizeExact

\* The load check of insert() is a bound on the number of keys.
LEMMA RoomIsLimit == IInv => (HasRoom <=> size < LoadLimit)
<1> SUFFICES ASSUME IInv
             PROVE  HasRoom <=> size < LoadLimit
  OBVIOUS
<1> DEFINE T == {n \in 0..Capacity : n * 10 >= Capacity * 7}
<1>1. Capacity \in Nat \ {0} /\ size \in Nat
  BY IndexAssumption DEF IInv, TypeOK
<1>2. T \subseteq Nat /\ Capacity \in T
  BY <1>1
<1>3. PICK n \in T : \A y \in T : n <= y
  BY <1>2, LeastElement
<1>4. (n - 1) * 10 < Capacity * 7
  <2>1. n - 1 \notin T
    BY <1>1, <1>3
  <2>2. CASE n = 0
    BY <1>1, <2>2
  <2>3. CASE n # 0
    BY <1>1, <2>1, <2>3
  <2> QED
    BY <2>2, <2>3
<1>5. /\ LoadLimit \in 0..Capacity
      /\ LoadLimit * 10 >= Capacity * 7
      /\ (LoadLimit - 1) * 10 < Capacity * 7
  BY <1>3, <1>4 DEF LoadLimit
<1> QED
  BY <1>1, <1>5 DEF HasRoom

\* insert() finds no place only in a table that is full, hence over the limit.
LEMMA NoTargetNoRoom ==
    ASSUME IInv, NEW k \in Keys, Targets(k) = {}
    PROVE  ~HasRoom
<1>1. In("Empty") = {} /\ {p \in In("Tombstone") : Distance(k, p) < Capacity} = {}
  BY DEF Targets
<1>2. \A p \in Position : Distance(k, p) < Capacity
  BY DistanceType, IndexAssumption DEF IInv
<1>3. In("Tombstone") = {}
  BY <1>1, <1>2 DEF In
<1>4. In("Occupied") = Position
  BY <1>1, <1>3 DEF In, IInv, TypeOK
<1>5. Cardinality(Position) = Capacity
  BY FS_Interval, IndexAssumption DEF Position
<1>6. size = Capacity
  BY <1>4, <1>5 DEF IInv, SizeExact
<1> QED
  BY <1>6, IndexAssumption DEF HasRoom

\* There is a slot index if the table holds a key.
LEMMA HeldHasValue ==
    ASSUME IInv, size # 0
    PROVE  Values # {}
<1>1. In("Occupied") # {}
  BY FS_EmptySet DEF IInv, SizeExact
<1> QED
  BY <1>1 DEF IInv, Keyed

\* BoundedMap counts keys as this module does.
LEMMA SameCardinality == \A S : Map!Cardinality(S) = Cardinality(S)
BY DEF Map!Cardinality, Cardinality

\* The table and the map agree on what a call sees.
LEMMA MapView ==
    ASSUME IInv, NEW k \in Keys
    PROVE  /\ DOMAIN Contents = Held
           /\ Lookup(k) = IF k \in DOMAIN Contents THEN Contents[k] ELSE Absent
           /\ Map!Cardinality(DOMAIN Contents) < LoadLimit <=> HasRoom
<1>1. LookupShown /\ ContentsShown
  BY InvLookup, InvContents
<1>2. DOMAIN Contents = Held
  BY <1>1 DEF ContentsShown
<1>3. Lookup(k) = IF k \in Held THEN Contents[k] ELSE Absent
  BY <1>1 DEF ContentsShown, LookupShown
<1> QED
  BY <1>2, <1>3, HeldCount, RoomIsLimit, SameCardinality

\* A call that leaves the table alone shows the same map.
LEMMA NoChangeContents == UNCHANGED entries => UNCHANGED Contents
BY DEF Contents, In, Holding

\* insert() that stores the key adds it to the map.
LEMMA InsertContents ==
    ASSUME IInv, IInv', NEW k \in Keys, NEW v \in Values, Insert(k, v)
    PROVE  /\ k \notin Held
           /\ Contents' = [i \in Held \cup {k} |-> IF i = k THEN v ELSE Contents[i]]
<1>1. PICK t \in Targets(k) :
          entries' = [entries EXCEPT
                         ![t] = [key |-> k, value |-> v, state |-> "Occupied"]]
  BY DEF Insert
<1>2. t \in Position /\ t \notin In("Occupied")
  BY TargetIsReachable DEF IInv
<1>3. Holding(k) = {}
  BY ProbeIsHolding DEF Insert
<1>4. /\ entries'[t] = [key |-> k, value |-> v, state |-> "Occupied"]
      /\ \A p \in Position : p # t => entries'[p] = entries[p]
  BY <1>1, <1>2 DEF IInv, TypeOK
<1>5. t \in Holding(k)'
  BY <1>2, <1>4 DEF Holding, In
<1>6. \A i \in Keys \ {k} : Holding(i)' = Holding(i)
  BY <1>2, <1>4 DEF Holding, In
<1>7. Held' = Held \cup {k}
  BY <1>5, <1>6 DEF Held
<1>8. /\ LookupShown /\ LookupShown'
      /\ ContentsShown /\ ContentsShown'
  BY InvLookup, InvContents, PTL
<1>9. Lookup(k)' = v
  BY <1>4, <1>5, <1>8 DEF LookupShown
<1>10. ASSUME NEW i \in Held, i # k
       PROVE  Lookup(i)' = Contents[i]
  <2>1. PICK p \in Holding(i) : TRUE
    BY DEF Held
  <2>2. p \in Holding(i)' /\ entries'[p] = entries[p]
    BY <1>2, <1>4, <1>6, <1>10 DEF Held, Holding, In
  <2>3. Lookup(i)' = entries'[p].value /\ Lookup(i) = entries[p].value
    BY <1>8, <2>1, <2>2 DEF LookupShown, Held
  <2> QED
    BY <1>8, <2>2, <2>3 DEF ContentsShown
<1> QED
  BY <1>3, <1>7, <1>8, <1>9, <1>10 DEF ContentsShown, Held

\* erase() of a key that is there removes it from the map.
LEMMA EraseContents ==
    ASSUME IInv, IInv', NEW k \in Keys, Erase(k)
    PROVE  Contents' = [i \in Held \ {k} |-> Contents[i]]
<1>1. PICK t \in Probe(k) : entries' = [entries EXCEPT ![t] = Vacated(@)]
  BY DEF Erase
<1>2. t \in Holding(k) /\ t \in Position
  BY ProbeIsHolding DEF Holding, In
<1>3. /\ entries'[t] = [entries[t] EXCEPT !.state = "Tombstone"]
      /\ \A p \in Position : p # t => entries'[p] = entries[p]
  BY <1>1, <1>2 DEF IInv, TypeOK, Vacated
<1>4. t \notin In("Occupied")'
  BY <1>2, <1>3 DEF In, IInv, TypeOK
<1>5. Holding(k)' = {}
  BY <1>2, <1>3, <1>4 DEF IInv, KeysUnique, Holding, In
<1>6. \A i \in Keys \ {k} : Holding(i)' = Holding(i)
  BY <1>2, <1>3, <1>4 DEF Holding, In
<1>7. Held' = Held \ {k}
  BY <1>5, <1>6 DEF Held
<1>8. /\ LookupShown /\ LookupShown'
      /\ ContentsShown /\ ContentsShown'
  BY InvLookup, InvContents, PTL
<1>9. ASSUME NEW i \in Held \ {k}
      PROVE  Lookup(i)' = Contents[i]
  <2>1. PICK p \in Holding(i) : TRUE
    BY DEF Held
  <2>2. p \in Holding(i)' /\ entries'[p] = entries[p]
    BY <1>2, <1>3, <1>6 DEF Held, Holding, In
  <2>3. Lookup(i)' = entries'[p].value /\ Lookup(i) = entries[p].value
    BY <1>8, <2>1, <2>2 DEF LookupShown, Held
  <2> QED
    BY <1>8, <2>2, <2>3 DEF ContentsShown
<1> QED
  BY <1>7, <1>8, <1>9 DEF ContentsShown

\* Every call on the table is a call on the map with the same answer.
LEMMA StepIsMapStep ==
    ASSUME IInv, IInv', NEW k \in Keys,
           Find(k) \/ Refuse(k) \/ Erase(k) \/ EraseMissing(k)
               \/ \E v \in Values : Insert(k, v)
    PROVE  Map!Next
<1>1. /\ DOMAIN Contents = Held
      /\ Lookup(k) = IF k \in DOMAIN Contents THEN Contents[k] ELSE Absent
      /\ Map!Cardinality(DOMAIN Contents) < LoadLimit <=> HasRoom
  BY MapView
<1>2. Probe(k) = {} <=> k \notin Held
  BY ProbeIsHolding DEF Held
<1>3. CASE Find(k)
  <2>1. Map!Find(k)
    BY <1>1, <1>3, NoChangeContents DEF Find, Returned, Map!Find, Map!Returned, Map!At
  <2> QED
    BY <2>1 DEF Map!Next
<1>4. CASE Refuse(k)
  <2>1. UNCHANGED Contents /\ call' = <<"insert", k>> /\ answer' = Absent
    BY <1>4, NoChangeContents DEF Refuse, Returned
  <2>2. ~(k \notin Held /\ HasRoom)
    BY <1>2, <1>4, NoTargetNoRoom DEF Refuse
  <2>3. size # 0
    <3>1. CASE ~HasRoom
      BY <3>1, IndexAssumption DEF HasRoom
    <3>2. CASE k \in Held
      <4>1. In("Occupied") # {}
        BY <3>2 DEF Held, Holding
      <4> QED
        BY <4>1, OccupiedIsFinite, FS_EmptySet DEF IInv, SizeExact
    <3> QED
      BY <2>2, <3>1, <3>2
  <2>4. PICK v \in Values : TRUE
    BY <2>3, HeldHasValue
  <2>5. Map!Insert(k, v)
    BY <1>1, <2>1, <2>2 DEF Map!Insert, Map!Returned, Map!Fits, Map!With
  <2> QED
    BY <2>5 DEF Map!Next
<1>5. CASE Erase(k)
  <2>1. Contents' = [i \in Held \ {k} |-> Contents[i]]
    BY <1>5, EraseContents
  <2>2. Map!Erase(k)
    BY <1>1, <1>5, <2>1
    DEF Erase, Returned, Map!Erase, Map!Returned, Map!At, Map!Without
  <2> QED
    BY <2>2 DEF Map!Next
<1>6. CASE EraseMissing(k)
  <2>1. UNCHANGED Contents /\ k \notin Held
    BY <1>2, <1>6, NoChangeContents DEF EraseMissing
  <2>2. Contents' = [i \in Held \ {k} |-> Contents[i]]
    <3>1. Contents = [i \in Held |-> Lookup(i)]
      BY InvContents DEF ContentsShown
    <3> QED
      BY <2>1, <3>1
  <2>3. Map!Erase(k)
    BY <1>1, <1>6, <2>1, <2>2
    DEF EraseMissing, Returned, Map!Erase, Map!Returned, Map!At, Map!Without
  <2> QED
    BY <2>3 DEF Map!Next
<1>7. ASSUME NEW v \in Values, Insert(k, v)
      PROVE  Map!Next
  <2>1. /\ k \notin Held
        /\ Contents' = [i \in Held \cup {k} |-> IF i = k THEN v ELSE Contents[i]]
    BY <1>7, InsertContents
  <2>2. HasRoom /\ call' = <<"insert", k>> /\ answer' = v
    BY <1>7 DEF Insert, Returned
  <2>3. Map!Insert(k, v)
    BY <1>1, <2>1, <2>2 DEF Map!Insert, Map!Returned, Map!Fits, Map!With
  <2> QED
    BY <2>3 DEF Map!Next
<1> QED
  BY <1>3, <1>4, <1>5, <1>6, <1>7

\* The hash table is a bounded map: whatever the hash function, find() shows
\* exactly what was inserted and not erased, and insert() refuses exactly a
\* key that is there and a key over the load limit.
THEOREM TableIsMap == Spec => ImplementsMap
<1>1. Init => Map!Init
  <2> SUFFICES ASSUME Init
               PROVE  Map!Init
    OBVIOUS
  <2>1. Held = {}
    BY DEF Init, Held, Holding, In
  <2>2. Contents = [k \in {} |-> Absent]
    <3>1. Contents = [k \in Held |-> Lookup(k)]
      BY InitInv, InvContents DEF ContentsShown
    <3> QED
      BY <2>1, <3>1
  <2> QED
    BY <2>2 DEF Init, Map!Init
<1>2. IInv /\ IInv' /\ [Next]_vars => [Map!Next]_(Map!vars)
  <2> SUFFICES ASSUME IInv, IInv', [Next]_vars
               PROVE  Map!Next \/ UNCHANGED Map!vars
    OBVIOUS
  <2>1. CASE UNCHANGED vars
    BY <2>1, NoChangeContents DEF vars, Map!vars
  <2>2. CASE Next
    BY <2>2, StepIsMapStep DEF Next
  <2> QED
    BY <2>1, <2>2
<1> QED
  BY <1>1, <1>2, IndexInvariance, PTL DEF Spec, ImplementsMap, Map!Spec
=============================================================================
