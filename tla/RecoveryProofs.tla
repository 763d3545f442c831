--------------------------- MODULE RecoveryProofs ---------------------------
(***************************************************************************)
(* Proofs that RecoveryEngine keeps its invariants and implements          *)
(* ContiguousDelivery, for every width of the sequence numbers, every      *)
(* first_expected, every request limit and every feed.                     *)
(***************************************************************************)
EXTENDS RecoveryEngine, NaturalLemmas, SequenceTheorems, TLAPS

Batch(a, b) == Delivery!Batch(a, b)

\* The first sequence number that has not been handed downstream.
Base == FirstExpected + Len(released)

\* What is released is the feed from FirstExpected on, and the Result under
\* construction continues it up to expected_.
IReleased ==
    /\ FirstExpected <= expected
    /\ Base <= expected
    /\ released = Batch(FirstExpected, Base - 1)
    /\ pc = "idle" => Base = expected
    /\ pc \in {"loop", "drain"} => result.ready = Batch(Base, expected - 1)

\* What is buffered is the feed's, and lies beyond expected_ (while drain()
\* runs, expected_ itself may be buffered).
IPending ==
    \A s \in DOMAIN pending :
        /\ pending[s] = Feed[s]
        /\ pc \in {"idle", "loop"} => s > expected
        /\ pc = "drain" => s >= expected

\* What was looked at is behind expected_ or buffered.
IReceived ==
    pc # "failed" => \A s \in received : s < expected \/ s \in DOMAIN pending

\* What last_requested_first_ and last_requested_last_ remember: the widest
\* request made for the present hole.
IRequested ==
    /\ RequestsEncodable
    /\ lastRequestedFirst # 0 =>
           /\ lastRequestedFirst <= lastRequestedLast
           /\ [first |-> lastRequestedFirst,
               count |-> lastRequestedLast - lastRequestedFirst + 1] \in requested
    /\ \A q \in requested :
           /\ q.first # 0
           /\ q.first <= expected
           /\ q.first = expected =>
                  /\ lastRequestedFirst = expected
                  /\ q.first + q.count - 1 <= lastRequestedLast

\* The hole in front of the buffered messages is the one remembered, as far
\* as one request reaches.
IHole ==
    pc = "idle" /\ DOMAIN pending # {} =>
        /\ lastRequestedFirst = expected
        /\ \/ lastRequestedLast + 1 >= FirstBuffered
           \/ lastRequestedLast + 1 = expected + MaxRequest

\* The Result under construction has no request yet.
IResult == pc \in {"loop", "drain"} => result.request = NoRequest

IInv == TypeOK /\ IResult /\ IReleased /\ IPending /\ IReceived /\ IRequested /\ IHole

-----------------------------------------------------------------------------
(* Lemmas.                                                                 *)

\* FirstBuffered is the key of pending_.begin().
LEMMA FirstBufferedIsFirst ==
    ASSUME DOMAIN pending \subseteq Sequence, DOMAIN pending # {}
    PROVE  /\ FirstBuffered \in DOMAIN pending
           /\ FirstBuffered \in Sequence
           /\ \A t \in DOMAIN pending : FirstBuffered <= t
<1>1. DOMAIN pending \subseteq Nat
  BY RecoveryAssumption DEF Sequence
<1>2. \E s \in DOMAIN pending : \A t \in DOMAIN pending : s <= t
  BY <1>1, LeastElement
<1> QED
  BY <1>2 DEF FirstBuffered

\* A batch of the feed is a sequence of messages of the expected length.
LEMMA BatchType ==
    ASSUME NEW a \in Sequence, NEW b \in Int, a - 1 <= b, b <= MaxSequence
    PROVE  /\ Batch(a, b) \in Seq(Messages)
           /\ Len(Batch(a, b)) = b - a + 1
           /\ \A i \in 1..(b - a + 1) :
                  Batch(a, b)[i] = Message(a + i - 1, Feed[a + i - 1])
<1>1. \A i \in 1..(b - a + 1) : a + i - 1 \in Sequence
  BY RecoveryAssumption DEF Sequence
<1>2. \A i \in 1..(b - a + 1) :
          [sequence |-> a + i - 1, payload |-> Feed[a + i - 1]] \in Messages
  BY <1>1, RecoveryAssumption DEF Messages
<1>3. b - a + 1 \in Nat
  BY RecoveryAssumption DEF Sequence
<1> QED
  BY <1>2, <1>3 DEF Batch, Delivery!Batch, Message

\* Pushing the next message of the feed lengthens a batch by one.
LEMMA BatchAppend ==
    ASSUME NEW a \in Sequence, NEW b \in Int, a - 1 <= b, b < MaxSequence
    PROVE  Append(Batch(a, b), Message(b + 1, Feed[b + 1])) = Batch(a, b + 1)
<1> DEFINE m == Message(b + 1, Feed[b + 1])
<1>1. m \in Messages
  BY RecoveryAssumption DEF Message, Messages, Sequence
<1>2. /\ Batch(a, b) \in Seq(Messages)
      /\ Batch(a, b + 1) \in Seq(Messages)
      /\ Len(Batch(a, b)) = b - a + 1
      /\ Len(Batch(a, b + 1)) = b - a + 2
  <2>0. /\ b + 1 \in Int /\ a - 1 <= b + 1 /\ b + 1 <= MaxSequence
        /\ b <= MaxSequence /\ (b + 1) - a + 1 = b - a + 2
    BY RecoveryAssumption DEF Sequence
  <2>1. Batch(a, b) \in Seq(Messages) /\ Len(Batch(a, b)) = b - a + 1
    BY <2>0, BatchType
  <2>2. /\ Batch(a, b + 1) \in Seq(Messages)
        /\ Len(Batch(a, b + 1)) = (b + 1) - a + 1
    BY <2>0, BatchType
  <2> QED
    BY <2>0, <2>1, <2>2
<1>3. \A i \in 1..(b - a + 1) : Batch(a, b)[i] = Batch(a, b + 1)[i]
  BY BatchType, RecoveryAssumption DEF Sequence
<1>4. Batch(a, b + 1)[b - a + 2] = m
  BY BatchType, RecoveryAssumption DEF Sequence
<1> HIDE DEF m
<1>5. /\ Append(Batch(a, b), m) \in Seq(Messages)
      /\ Len(Append(Batch(a, b), m)) = b - a + 2
      /\ \A i \in 1..(b - a + 1) : Append(Batch(a, b), m)[i] = Batch(a, b)[i]
      /\ Append(Batch(a, b), m)[b - a + 2] = m
  <2>1. b - a + 1 + 1 = b - a + 2
    BY RecoveryAssumption DEF Sequence
  <2> QED
    BY <1>1, <1>2, <2>1, AppendProperties
<1>6. \A i \in 1..(b - a + 2) : Append(Batch(a, b), m)[i] = Batch(a, b + 1)[i]
  <2> TAKE i \in 1..(b - a + 2)
  <2>1. i \in 1..(b - a + 1) \/ i = b - a + 2
    BY RecoveryAssumption DEF Sequence
  <2> QED
    BY <2>1, <1>3, <1>4, <1>5
<1>7. Append(Batch(a, b), m) = Batch(a, b + 1)
  BY <1>2, <1>5, <1>6, SeqEqual
<1> QED
  BY <1>7 DEF m

\* Two adjacent batches of the feed make one.
LEMMA BatchConcat ==
    ASSUME NEW a \in Sequence, NEW b \in Int, NEW c \in Int,
           a - 1 <= b, b <= c, c <= MaxSequence, b < MaxSequence
    PROVE  Batch(a, b) \o Batch(b + 1, c) = Batch(a, c)
<1>0. a \in Nat /\ MaxSequence \in Nat /\ b + 1 \in Sequence
  BY RecoveryAssumption DEF Sequence
<1>1. /\ Batch(a, b) \in Seq(Messages)
      /\ Batch(b + 1, c) \in Seq(Messages)
      /\ Batch(a, c) \in Seq(Messages)
      /\ Len(Batch(a, b)) = b - a + 1
      /\ Len(Batch(b + 1, c)) = c - b
      /\ Len(Batch(a, c)) = c - a + 1
  <2>1. /\ a - 1 <= c /\ b <= MaxSequence
        /\ (b + 1) - 1 <= c /\ c - (b + 1) + 1 = c - b
    BY <1>0
  <2>2. Batch(a, b) \in Seq(Messages) /\ Len(Batch(a, b)) = b - a + 1
    BY <2>1, BatchType
  <2>3. Batch(a, c) \in Seq(Messages) /\ Len(Batch(a, c)) = c - a + 1
    BY <2>1, BatchType
  <2>4. /\ Batch(b + 1, c) \in Seq(Messages)
        /\ Len(Batch(b + 1, c)) = c - (b + 1) + 1
    BY <2>1, <1>0, BatchType
  <2> QED
    BY <2>1, <2>2, <2>3, <2>4
<1> DEFINE w == Batch(a, b) \o Batch(b + 1, c)
<1>2. /\ w \in Seq(Messages)
      /\ Len(w) = c - a + 1
      /\ \A i \in 1..(c - a + 1) :
             w[i] = IF i <= b - a + 1 THEN Batch(a, b)[i]
                                      ELSE Batch(b + 1, c)[i - (b - a + 1)]
  <2> DEFINE x == Batch(a, b)
             y == Batch(b + 1, c)
  <2>1. (b - a + 1) + (c - b) = c - a + 1
    BY <1>0
  <2>2. /\ x \o y \in Seq(Messages)
        /\ Len(x \o y) = Len(x) + Len(y)
        /\ \A i \in 1..(Len(x) + Len(y)) :
               (x \o y)[i] = IF i <= Len(x) THEN x[i] ELSE y[i - Len(x)]
    <3>1. x \in Seq(Messages) /\ y \in Seq(Messages)
      BY <1>1
    <3> HIDE DEF x, y
    <3> QED
      BY <3>1, ConcatProperties
  <2> QED
    BY <1>1, <2>1, <2>2 DEF w
<1> HIDE DEF w
<1>3. \A i \in 1..(c - a + 1) : w[i] = Batch(a, c)[i]
  <2> TAKE i \in 1..(c - a + 1)
  <2>1. Batch(a, c)[i] = Message(a + i - 1, Feed[a + i - 1])
    <3>1. a - 1 <= c
      BY <1>0
    <3> QED
      BY <3>1, BatchType
  <2>2. CASE i <= b - a + 1
    <3>1. b <= MaxSequence /\ i \in 1..(b - a + 1)
      BY <1>0, <2>2
    <3>2. Batch(a, b)[i] = Message(a + i - 1, Feed[a + i - 1])
      BY <3>1, BatchType
    <3> QED
      BY <2>1, <2>2, <3>2, <1>2
  <2>3. CASE i > b - a + 1
    <3>1. i - (b - a + 1) \in 1..(c - (b + 1) + 1)
      BY <2>3, <1>0
    <3>2. Batch(b + 1, c)[i - (b - a + 1)] =
              Message((b + 1) + (i - (b - a + 1)) - 1,
                      Feed[(b + 1) + (i - (b - a + 1)) - 1])
      BY <3>1, <1>0, BatchType
    <3>3. (b + 1) + (i - (b - a + 1)) - 1 = a + i - 1
      BY <1>0
    <3> QED
      BY <2>1, <2>3, <3>2, <3>3, <1>0, <1>2
  <2> QED
    BY <2>2, <2>3, <1>0
<1> QED
  BY <1>1, <1>2, <1>3, SeqEqual DEF w

-----------------------------------------------------------------------------
(* maybe_request.                                                          *)

\* maybe_request keeps the memory of the requests made exact, changes nothing
\* of the Result but its request, and leaves the hole up to observed_next
\* asked for as far as one request reaches.
LEMMA MaybeRequestMemory ==
    ASSUME TypeOK, IRequested, FirstExpected <= expected,
           NEW observedNext \in Sequence, NEW r \in Result,
           MaybeRequest(observedNext, r), UNCHANGED expected
    PROVE  /\ result' \in Result
           /\ lastRequestedFirst' \in Sequence
           /\ lastRequestedLast' \in Sequence
           /\ requested' \subseteq Request
           /\ IRequested'
           /\ observedNext > expected =>
                  /\ lastRequestedFirst' = expected
                  /\ \/ lastRequestedLast' + 1 >= observedNext
                     \/ lastRequestedLast' + 1 = expected + MaxRequest
           /\ \/ UNCHANGED <<lastRequestedFirst, lastRequestedLast>>
              \/ /\ lastRequestedFirst # expected \/ observedNext - 1 > lastRequestedLast
                 /\ lastRequestedFirst' = expected
                 /\ lastRequestedLast' + 1 <= expected + MaxRequest
                 /\ \/ lastRequestedLast' + 1 = observedNext
                    \/ lastRequestedLast' + 1 = expected + MaxRequest
<1> DEFINE count == RequestCount(observedNext)
           request == [first |-> expected, count |-> count]
<1>0. /\ MaxSequence \in Nat /\ MaxRequest \in Nat /\ MaxRequest > 0
      /\ expected \in Nat /\ expected > 0 /\ observedNext \in Nat
      /\ observedNext <= MaxSequence
      /\ lastRequestedFirst \in Nat /\ lastRequestedLast \in Nat
      /\ requested \subseteq Request
  BY RecoveryAssumption DEF TypeOK, Sequence
<1>1. CASE observedNext <= expected \/ AlreadyRequested(observedNext)
  <2>1. /\ result' = r
        /\ UNCHANGED <<lastRequestedFirst, lastRequestedLast, requested>>
    BY <1>1 DEF MaybeRequest
  <2>2. IRequested'
    BY <2>1 DEF IRequested, RequestsEncodable
  <2> QED
    BY <1>0, <1>1, <2>1, <2>2 DEF TypeOK, AlreadyRequested
<1>2. CASE ~(observedNext <= expected \/ AlreadyRequested(observedNext))
  <2>1. /\ count \in Nat /\ count >= 1 /\ count <= MaxRequest
        /\ expected + count <= observedNext
        /\ count = observedNext - expected \/ count = MaxRequest
    BY <1>0, <1>2 DEF RequestCount
  <2>2. /\ result' = [r EXCEPT !.request = request]
        /\ lastRequestedFirst' = expected
        /\ lastRequestedLast' = expected + count - 1
        /\ requested' = requested \cup {request}
    BY <1>2 DEF MaybeRequest
  <2> HIDE DEF count
  <2>3. request \in Request
    BY <2>1, <1>0 DEF Request, TypeOK
  <2>4. result' \in Result
    BY <2>2, <2>3 DEF Result
  <2>5. lastRequestedFirst' \in Sequence /\ lastRequestedLast' \in Sequence
    BY <2>1, <2>2, <1>0 DEF Sequence
  <2>6. requested' \subseteq Request
    BY <2>2, <2>3, <1>0
  <2>7. RequestsEncodable'
    BY <2>1, <2>2, <1>0 DEF RequestsEncodable, IRequested
  <2>8. [first |-> lastRequestedFirst',
         count |-> lastRequestedLast' - lastRequestedFirst' + 1] \in requested'
    <3>1. (expected + count - 1) - expected + 1 = count
      BY <2>1, <1>0
    <3> QED
      BY <3>1, <2>2
  <2>9. \A q \in requested' :
           /\ q.first # 0
           /\ q.first <= expected'
           /\ q.first = expected' =>
                  /\ lastRequestedFirst' = expected'
                  /\ q.first + q.count - 1 <= lastRequestedLast'
    <3> SUFFICES ASSUME NEW q \in requested'
                 PROVE  /\ q.first # 0
                        /\ q.first <= expected
                        /\ q.first = expected => q.first + q.count - 1 <= expected + count - 1
      BY <2>2
    <3>1. CASE q = request
      BY <3>1, <2>1, <1>0
    <3>2. CASE q \in requested
      <4>1. q.first \in Nat /\ q.count \in Nat
        BY <3>2, <1>0 DEF Request, Sequence
      <4>2. /\ q.first # 0 /\ q.first <= expected
            /\ q.first = expected =>
                  /\ lastRequestedFirst = expected
                  /\ q.first + q.count - 1 <= lastRequestedLast
                  /\ q.count <= MaxRequest
        BY <3>2, <1>0, <4>1 DEF IRequested, RequestsEncodable
      <4>3. lastRequestedFirst = expected => lastRequestedLast < observedNext - 1
        BY <1>2, <1>0 DEF AlreadyRequested
      <4> QED
        BY <4>1, <4>2, <4>3, <2>1, <1>0
    <3> QED
      BY <3>1, <3>2, <2>2
  <2>10. IRequested'
    <3>1. lastRequestedFirst' <= lastRequestedLast'
      BY <2>1, <2>2, <1>0
    <3> QED
      BY <2>7, <2>8, <2>9, <3>1 DEF IRequested
  <2>11. /\ lastRequestedLast' + 1 <= expected + MaxRequest
         /\ \/ lastRequestedLast' + 1 = observedNext
            \/ lastRequestedLast' + 1 = expected + MaxRequest
    BY <2>1, <2>2, <1>0
  <2>12. lastRequestedFirst # expected \/ observedNext - 1 > lastRequestedLast
    BY <1>2, <1>0 DEF AlreadyRequested
  <2> QED
    BY <2>2, <2>4, <2>5, <2>6, <2>10, <2>11, <2>12, <1>0
<1> QED
  BY <1>1, <1>2

-----------------------------------------------------------------------------
(* The invariant is inductive.                                             *)

\* Facts about the constants and the types, in the form the steps use them.
LEMMA Numbers ==
    ASSUME TypeOK
    PROVE  /\ MaxSequence \in Nat /\ MaxRequest \in Nat /\ MaxBatch \in Nat
           /\ FirstExpected \in Nat /\ FirstExpected > 0
           /\ expected \in Nat /\ expected <= MaxSequence
           /\ lastRequestedFirst \in Nat /\ lastRequestedLast \in Nat
           /\ packet.first \in Nat /\ packet.count \in Nat /\ cursor \in Nat
           /\ Len(released) \in Nat
<1>1. packet.first \in Nat /\ packet.count \in Nat
  BY RecoveryAssumption
  DEF TypeOK, DataPacket, ControlPacket, NoPacket, Sequence
<1> QED
  BY <1>1, RecoveryAssumption, LenProperties DEF TypeOK, Sequence

\* The engine is constructed in a state that satisfies the invariant.
LEMMA InitInv == Init => IInv
<1> SUFFICES ASSUME Init PROVE IInv
  OBVIOUS
<1>0. /\ MaxSequence \in Nat /\ FirstExpected \in Sequence /\ FirstExpected \in Nat
      /\ FirstExpected > 0 /\ 0 \in Sequence
  BY RecoveryAssumption DEF Sequence
<1>1. released = <<>> /\ Len(released) = 0 /\ released \in Seq(Messages)
  BY DEF Init
<1>2. EmptyResult \in Result
  BY DEF EmptyResult, Result
<1>3. TypeOK
  BY <1>0, <1>1, <1>2 DEF Init, TypeOK, NoPacket
<1>4. IReleased
  <2>1. /\ FirstExpected - 1 \in Int /\ FirstExpected - 1 <= MaxSequence
        /\ (FirstExpected - 1) - FirstExpected + 1 = 0
    BY <1>0 DEF Sequence
  <2>2. /\ Batch(FirstExpected, FirstExpected - 1) \in Seq(Messages)
        /\ Len(Batch(FirstExpected, FirstExpected - 1)) = 0
    BY <2>1, <1>0, BatchType
  <2>3. Batch(FirstExpected, FirstExpected - 1) = <<>>
    BY <2>2, EmptySeq
  <2> QED
    BY <1>0, <1>1, <2>3 DEF Init, IReleased, Base
<1>5. IResult /\ IPending /\ IReceived /\ IRequested /\ IHole
  BY DEF Init, IResult, IPending, IReceived, IRequested, RequestsEncodable, IHole
<1> QED
  BY <1>3, <1>4, <1>5 DEF IInv

\* A step that leaves the engine and its history alone and enters neither the
\* loop nor drain() keeps the invariant.
LEMMA RejectSessionInv ==
    ASSUME IInv, NEW p \in DataPacket \cup ControlPacket, RejectSession(p)
    PROVE  IInv'
<1>1. TypeOK'
  BY DEF IInv, TypeOK, RejectSession, Fail, engine, history
<1>2. IResult' /\ IReleased' /\ IPending' /\ IReceived' /\ IHole'
  BY DEF IInv, IResult, IReleased, Base, IPending, IReceived, IHole, RejectSession,
         Fail, engine, history
<1>3. IRequested'
  BY DEF IInv, IRequested, RequestsEncodable, RejectSession, engine, history
<1> QED
  BY <1>1, <1>2, <1>3 DEF IInv

\* The early return for a heartbeat or an end of session.
LEMMA IngestControlInv ==
    ASSUME IInv, NEW p \in ControlPacket, IngestControl(p)
    PROVE  IInv'
<1> USE DEF IInv
<1> DEFINE r == [EmptyResult EXCEPT !.end_of_session = (p.kind = "end_of_session")]
<1>0. /\ pc = "idle" /\ pc' = "idle" /\ MaybeRequest(p.first, r)
      /\ UNCHANGED <<expected, pending, packet, cursor, released, received>>
  BY DEF IngestControl
<1>1. p.first \in Sequence /\ r \in Result
  <2> DEFINE eos == (p.kind = "end_of_session")
  <2>1. eos \in BOOLEAN
    OBVIOUS
  <2>2. r = [EmptyResult EXCEPT !.end_of_session = eos]
    OBVIOUS
  <2> HIDE DEF eos, r
  <2>3. r \in Result
    <3>1. EmptyResult \in Result
      BY DEF EmptyResult, Result
    <3> QED
      BY <2>1, <2>2, <3>1 DEF Result
  <2> QED
    BY <2>3 DEF ControlPacket
<1> HIDE DEF r
<1>2. FirstExpected <= expected
  BY DEF IReleased
<1>3. /\ result' \in Result
      /\ lastRequestedFirst' \in Sequence
      /\ lastRequestedLast' \in Sequence
      /\ requested' \subseteq Request
      /\ IRequested'
      /\ \/ UNCHANGED <<lastRequestedFirst, lastRequestedLast>>
         \/ /\ lastRequestedFirst # expected \/ p.first - 1 > lastRequestedLast
            /\ lastRequestedFirst' = expected
            /\ lastRequestedLast' + 1 <= expected + MaxRequest
            /\ \/ lastRequestedLast' + 1 = p.first
               \/ lastRequestedLast' + 1 = expected + MaxRequest
  BY <1>0, <1>1, <1>2, MaybeRequestMemory
<1>4. TypeOK'
  BY <1>0, <1>3 DEF TypeOK, IngestControl, AdoptSession, ControlPacket
<1>5. IResult' /\ IReleased' /\ IPending' /\ IReceived'
  BY <1>0 DEF IResult, IReleased, Base, IPending, IReceived
<1>6. IHole'
  <2> SUFFICES ASSUME DOMAIN pending # {}
               PROVE  /\ lastRequestedFirst' = expected
                      /\ \/ lastRequestedLast' + 1 >= FirstBuffered
                         \/ lastRequestedLast' + 1 = expected + MaxRequest
    BY <1>0 DEF IHole, FirstBuffered
  <2>1. /\ lastRequestedFirst = expected
        /\ \/ lastRequestedLast + 1 >= FirstBuffered
           \/ lastRequestedLast + 1 = expected + MaxRequest
    BY <1>0 DEF IHole
  <2>2. FirstBuffered \in Nat
    BY FirstBufferedIsFirst, RecoveryAssumption DEF TypeOK, Sequence
  <2>3. p.first \in Nat
    BY <1>1, RecoveryAssumption DEF Sequence
  <2> QED
    BY <1>3, <2>1, <2>2, <2>3, Numbers
<1> QED
  BY <1>3, <1>4, <1>5, <1>6

\* The call of ingest enters its loop.
LEMMA BeginDataInv ==
    ASSUME IInv, NEW p \in DataPacket, BeginData(p)
    PROVE  IInv'
<1> USE DEF IInv
<1>0. /\ pc = "idle" /\ pc' = "loop" /\ packet' = p /\ cursor' = 0
      /\ result' = EmptyResult
      /\ UNCHANGED <<expected, pending, lastRequestedFirst, lastRequestedLast,
                     outcome, released, received, requested>>
  BY DEF BeginData, history
<1>1. TypeOK'
  <2>1. EmptyResult \in Result
    BY DEF EmptyResult, Result
  <2>2. p.count \in Nat /\ p.session \in Sessions
    BY RecoveryAssumption DEF DataPacket
  <2> QED
    BY <1>0, <2>1, <2>2 DEF TypeOK, BeginData, AdoptSession
<1>2. IReleased'
  <2>1. Base = expected
    BY <1>0 DEF IReleased
  <2>2. /\ expected - 1 \in Int /\ expected - 1 <= MaxSequence
        /\ expected - 1 - expected + 1 = 0
    BY Numbers
  <2>3. /\ Batch(expected, expected - 1) \in Seq(Messages)
        /\ Len(Batch(expected, expected - 1)) = 0
    BY <2>2, BatchType DEF TypeOK
  <2>4. Batch(expected, expected - 1) = <<>>
    BY <2>3, EmptySeq
  <2> QED
    BY <1>0, <2>1, <2>4 DEF IReleased, Base, EmptyResult
<1>3. IResult' /\ IPending' /\ IReceived' /\ IHole'
  BY <1>0 DEF IResult, EmptyResult, IPending, IReceived, IHole
<1>4. IRequested'
  BY <1>0 DEF IRequested, RequestsEncodable
<1> QED
  BY <1>1, <1>2, <1>3, <1>4

\* What the three ways through the loop's body have in common.
LEMMA CurrentInSequence ==
    ASSUME TypeOK, NextMessage
    PROVE  Current \in Sequence /\ cursor' \in 0..packet.count
<1>1. packet \in DataPacket
  BY Numbers DEF TypeOK, NextMessage, ControlPacket, NoPacket
<1>2. packet.first + packet.count - 1 <= MaxSequence
  BY <1>1 DEF DataPacket
<1>3. cursor < packet.count /\ cursor' = cursor + 1
  BY DEF NextMessage
<1>4. packet.first + cursor \in 0..MaxSequence
  <2>1. /\ packet.first \in Nat /\ packet.count \in Nat
        /\ cursor \in Nat /\ MaxSequence \in Nat
    BY Numbers
  <2> QED
    BY <1>2, <1>3, <2>1
<1>5. cursor + 1 \in 0..packet.count
  BY <1>3, Numbers
<1> QED
  BY <1>3, <1>4, <1>5 DEF Current, Sequence

\* A stale message changes nothing but the flag of the Result.
LEMMA SkipStaleInv ==
    ASSUME IInv, SkipStale
    PROVE  IInv'
<1> USE DEF IInv
<1>0. /\ NextMessage /\ Current \in Sequence /\ Current < expected
      /\ pc = "loop" /\ pc' = "loop" /\ received' = received \cup {Current}
      /\ result' = [result EXCEPT !.duplicate_or_stale = TRUE]
      /\ UNCHANGED <<expected, pending, session, lastRequestedFirst,
                     lastRequestedLast, packet, outcome, released, requested>>
  BY CurrentInSequence DEF SkipStale, NextMessage, engine
<1>1. TypeOK'
  <2>1. result' \in Result
    BY <1>0 DEF TypeOK, Result
  <2> QED
    BY <1>0, <2>1, CurrentInSequence DEF TypeOK
<1>2. IResult' /\ IReleased'
  <2>1. result'.ready = result.ready /\ result'.request = result.request
    BY <1>0 DEF TypeOK, Result
  <2> QED
    BY <1>0, <2>1 DEF IResult, IReleased, Base
<1>3. IPending' /\ IReceived' /\ IHole'
  BY <1>0 DEF IPending, IReceived, IHole
<1>4. IRequested'
  BY <1>0 DEF IRequested, RequestsEncodable
<1> QED
  BY <1>1, <1>2, <1>3, <1>4

\* A message from beyond the hole is buffered with its own payload.
LEMMA BufferFutureInv ==
    ASSUME IInv, BufferFuture
    PROVE  IInv'
<1> USE DEF IInv
<1>0. /\ NextMessage /\ Current \in Sequence /\ Current > expected
      /\ pc = "loop" /\ pc' = "loop" /\ received' = received \cup {Current}
      /\ TryEmplace(Current, Feed[Current])
      /\ UNCHANGED <<expected, session, lastRequestedFirst, lastRequestedLast,
                     packet, result, outcome, released, requested>>
  BY CurrentInSequence DEF BufferFuture, NextMessage
<1>1. /\ DOMAIN pending' = DOMAIN pending \cup {Current}
      /\ \A s \in DOMAIN pending : pending'[s] = pending[s]
      /\ Current \notin DOMAIN pending => pending'[Current] = Feed[Current]
      /\ pending' \in [DOMAIN pending' -> Payloads]
  <2>1. Feed[Current] \in Payloads
    BY <1>0, RecoveryAssumption
  <2>2. CASE Current \in DOMAIN pending
    BY <1>0, <2>2 DEF TryEmplace, TypeOK
  <2>3. CASE Current \notin DOMAIN pending
    <3>1. pending' = [t \in DOMAIN pending \cup {Current} |->
                        IF t = Current THEN Feed[Current] ELSE pending[t]]
      BY <1>0, <2>3 DEF TryEmplace
    <3> QED
      BY <2>1, <2>3, <3>1 DEF TypeOK
  <2> QED
    BY <2>2, <2>3
<1>2. TypeOK'
  BY <1>0, <1>1, CurrentInSequence DEF TypeOK
<1>3. IResult' /\ IReleased' /\ IHole'
  BY <1>0 DEF IResult, IReleased, Base, IHole
<1>4. IPending'
  BY <1>0, <1>1 DEF IPending
<1>5. IReceived'
  BY <1>0, <1>1 DEF IReceived
<1>6. IRequested'
  BY <1>0 DEF IRequested, RequestsEncodable
<1> QED
  BY <1>2, <1>3, <1>4, <1>5, <1>6

\* Where the Result under construction starts.
LEMMA BaseInRange ==
    ASSUME TypeOK, IReleased
    PROVE  /\ Base \in Sequence /\ Base \in Nat
           /\ FirstExpected <= Base /\ Base <= expected
<1>1. /\ FirstExpected \in Nat /\ Len(released) \in Nat
      /\ expected \in Nat /\ expected <= MaxSequence /\ MaxSequence \in Nat
  BY Numbers
<1>2. Base <= expected
  BY DEF IReleased
<1> QED
  BY <1>1, <1>2 DEF Base, Sequence

\* Pushing message expected_ onto the Result continues the feed.
LEMMA PushExtends ==
    ASSUME IInv, pc \in {"loop", "drain"}, Push(expected, Feed[expected])
    PROVE  /\ result' \in Result
           /\ result'.ready = Batch(Base, expected)
           /\ result'.request = result.request
<1> USE DEF IInv
<1> DEFINE m == Message(expected, Feed[expected])
<1>1. m \in Messages
  BY RecoveryAssumption DEF TypeOK, Message, Messages
<1>2. result \in Result /\ result' = [result EXCEPT !.ready = Append(@, m)]
  BY DEF TypeOK, Push
<1>3. /\ result' \in Result /\ result'.ready = Append(result.ready, m)
      /\ result'.request = result.request
  <2> HIDE DEF m
  <2>1. Append(result.ready, m) \in Seq(Messages)
    BY <1>1, <1>2, AppendProperties DEF Result
  <2> QED
    BY <1>2, <2>1 DEF Result
<1>4. Base \in Sequence /\ Base - 1 <= expected - 1 /\ expected - 1 \in Int
      /\ expected - 1 < MaxSequence /\ expected - 1 + 1 = expected
  BY Numbers, BaseInRange
<1>5. Append(Batch(Base, expected - 1),
             Message(expected - 1 + 1, Feed[expected - 1 + 1]))
          = Batch(Base, expected - 1 + 1)
  <2> HIDE DEF IInv
  <2> QED
    BY <1>4, BatchAppend
<1>6. Append(Batch(Base, expected - 1), m) = Batch(Base, expected)
  BY <1>4, <1>5
<1> QED
  BY <1>3, <1>6 DEF IReleased

\* The expected message is released; at the last sequence number it is lost
\* with the Result when ingest throws.
LEMMA ReleaseExpectedInv ==
    ASSUME IInv, ReleaseExpected
    PROVE  IInv'
<1> USE DEF IInv
<1>0. /\ NextMessage /\ Current \in Sequence /\ Current = expected
      /\ pc = "loop" /\ received' = received \cup {expected}
      /\ Push(expected, Feed[expected])
      /\ UNCHANGED <<pending, session, lastRequestedFirst, lastRequestedLast,
                     packet, released, requested>>
  BY CurrentInSequence DEF ReleaseExpected, IsExpected, NextMessage
<1>1. /\ result' \in Result /\ result'.ready = Batch(Base, expected)
      /\ result'.request = result.request
  BY <1>0, PushExtends
<1>2. \/ pc' = "failed" /\ outcome' = "exhausted" /\ UNCHANGED expected
      \/ /\ expected # MaxSequence /\ expected' = expected + 1
         /\ pc' = "drain" /\ UNCHANGED outcome
  BY DEF ReleaseExpected, Exhausted, Fail
<1>3. expected' \in Sequence /\ expected <= expected'
  BY <1>2, Numbers DEF Sequence
<1>4. TypeOK'
  BY <1>0, <1>1, <1>2, <1>3, CurrentInSequence DEF TypeOK
<1>5. IReleased'
  BY <1>0, <1>1, <1>2, Numbers DEF IReleased, Base
<1>6. IPending'
  <2> SUFFICES ASSUME NEW s \in DOMAIN pending
               PROVE  /\ pending[s] = Feed[s]
                      /\ pc' = "drain" => s >= expected'
    BY <1>0, <1>2 DEF IPending
  <2>1. s \in Nat /\ s > expected /\ pending[s] = Feed[s]
    BY <1>0, RecoveryAssumption DEF IPending, TypeOK, Sequence
  <2> QED
    BY <1>2, <2>1, Numbers
<1>7. IReceived'
  <2> SUFFICES ASSUME pc' # "failed", NEW s \in received \cup {expected}
               PROVE  s < expected' \/ s \in DOMAIN pending
    BY <1>0 DEF IReceived
  <2>1. s \in Nat /\ (s < expected \/ s = expected \/ s \in DOMAIN pending)
    BY <1>0, Numbers DEF IReceived, TypeOK, Sequence
  <2> QED
    BY <1>2, <2>1, Numbers
<1>8. IRequested'
  <2>1. \A q \in requested : q.first \in Nat /\ q.first <= expected
    BY RecoveryAssumption DEF IRequested, TypeOK, Request, Sequence
  <2>2. \A q \in requested : q.first <= expected' /\
                 (q.first = expected' => q.first = expected)
    BY <1>2, <2>1, Numbers
  <2>3. \A q \in requested : q.first = expected' => expected' = expected
    BY <2>2
  <2> QED
    BY <1>0, <2>2, <2>3 DEF IRequested, RequestsEncodable
<1>9. IHole' /\ IResult'
  BY <1>0, <1>1, <1>2 DEF IHole, IResult
<1> QED
  BY <1>4, <1>5, <1>6, <1>7, <1>8, <1>9

\* drain() releases one buffered message.
LEMMA DrainOneInv ==
    ASSUME IInv, DrainOne
    PROVE  IInv'
<1> USE DEF IInv
<1>0. /\ pc = "drain" /\ expected \in DOMAIN pending
      /\ pending[expected] = Feed[expected]
      /\ Push(expected, Feed[expected])
      /\ pending' = [t \in DOMAIN pending \ {expected} |-> pending[t]]
      /\ UNCHANGED <<session, lastRequestedFirst, lastRequestedLast,
                     packet, cursor, released, received, requested>>
  BY DEF DrainOne, IPending, Without, history
<1>1. /\ result' \in Result /\ result'.ready = Batch(Base, expected)
      /\ result'.request = result.request
  BY <1>0, PushExtends
<1>2. \/ /\ pc' = "failed" /\ outcome' \in {"exhausted", "undefined"}
         /\ UNCHANGED expected
      \/ /\ expected # MaxSequence /\ expected' = expected + 1
         /\ pc' = "drain" /\ UNCHANGED outcome
  BY DEF DrainOne, Exhausted, Fail
<1>3. expected' \in Sequence /\ expected <= expected'
  BY <1>2, Numbers DEF Sequence
<1>4. TypeOK'
  BY <1>0, <1>1, <1>2, <1>3 DEF TypeOK
<1>5. IReleased'
  BY <1>0, <1>1, <1>2, Numbers DEF IReleased, Base
<1>6. IPending'
  <2> SUFFICES ASSUME NEW s \in DOMAIN pending \ {expected}
               PROVE  /\ pending[s] = Feed[s]
                      /\ pc' = "drain" => s >= expected'
    BY <1>0, <1>2 DEF IPending
  <2>1. s \in Nat /\ s >= expected /\ pending[s] = Feed[s]
    BY <1>0, RecoveryAssumption DEF IPending, TypeOK, Sequence
  <2> QED
    BY <1>2, <2>1, Numbers
<1>7. IReceived'
  <2> SUFFICES ASSUME pc' # "failed", NEW s \in received
               PROVE  s < expected' \/ s \in DOMAIN pending'
    BY <1>0 DEF IReceived
  <2>1. s \in Nat /\ (s < expected \/ s \in DOMAIN pending)
    BY <1>0, Numbers DEF IReceived, TypeOK, Sequence
  <2> QED
    BY <1>0, <1>2, <2>1, Numbers
<1>8. IRequested'
  <2>1. \A q \in requested : q.first \in Nat /\ q.first <= expected
    BY RecoveryAssumption DEF IRequested, TypeOK, Request, Sequence
  <2>2. \A q \in requested : q.first <= expected' /\
                 (q.first = expected' => q.first = expected)
    BY <1>2, <2>1, Numbers
  <2>3. \A q \in requested : q.first = expected' => expected' = expected
    BY <2>2
  <2> QED
    BY <1>0, <2>2, <2>3 DEF IRequested, RequestsEncodable
<1>9. IHole' /\ IResult'
  BY <1>0, <1>1, <1>2 DEF IHole, IResult
<1> QED
  BY <1>4, <1>5, <1>6, <1>7, <1>8, <1>9

\* The end of drain(): only requests that lie behind expected_ are forgotten.
LEMMA EndDrainInv ==
    ASSUME IInv, EndDrain
    PROVE  IInv'
<1> USE DEF IInv
<1>0. /\ pc = "drain" /\ pc' = "loop" /\ expected \notin DOMAIN pending
      /\ UNCHANGED <<expected, pending, session, packet, cursor, result,
                     outcome, released, received, requested>>
  BY DEF EndDrain, DrainDone, history
<1>1. \/ UNCHANGED <<lastRequestedFirst, lastRequestedLast>>
      \/ /\ lastRequestedLast < expected
         /\ lastRequestedFirst' = 0 /\ lastRequestedLast' = 0
  BY DEF EndDrain
<1>2. TypeOK'
  BY <1>0, <1>1, Numbers DEF TypeOK, Sequence
<1>3. IResult' /\ IReleased' /\ IReceived' /\ IHole'
  BY <1>0 DEF IResult, IReleased, Base, IReceived, IHole
<1>4. IPending'
  <2> SUFFICES ASSUME NEW s \in DOMAIN pending
               PROVE  pending[s] = Feed[s] /\ s > expected
    BY <1>0 DEF IPending
  <2>1. s \in Nat /\ s >= expected /\ pending[s] = Feed[s]
    BY <1>0, RecoveryAssumption DEF IPending, TypeOK, Sequence
  <2> QED
    BY <1>0, <2>1, Numbers
<1>5. IRequested'
  <2>1. CASE UNCHANGED <<lastRequestedFirst, lastRequestedLast>>
    BY <1>0, <2>1 DEF IRequested, RequestsEncodable
  <2>2. CASE /\ lastRequestedLast < expected
             /\ lastRequestedFirst' = 0 /\ lastRequestedLast' = 0
    <3>1. \A q \in requested : q.first # expected
      <4> SUFFICES ASSUME NEW q \in requested, q.first = expected PROVE FALSE
        OBVIOUS
      <4>1. q.count \in Nat /\ q.count >= 1
        BY DEF TypeOK, Request, IRequested, RequestsEncodable
      <4>2. q.first + q.count - 1 <= lastRequestedLast
        BY DEF IRequested
      <4> QED
        BY <2>2, <4>1, <4>2, Numbers
    <3> QED
      BY <1>0, <2>2, <3>1 DEF IRequested, RequestsEncodable
  <2> QED
    BY <1>1, <2>1, <2>2
<1> QED
  BY <1>2, <1>3, <1>4, <1>5

\* The end of ingest: the Result goes downstream, and the first hole has been
\* asked for.
LEMMA ReturnInv ==
    ASSUME IInv, Return
    PROVE  IInv'
<1> USE DEF IInv
<1>0. /\ pc = "loop" /\ pc' = "idle" /\ packet' = NoPacket /\ cursor' = 0
      /\ outcome' = "returned" /\ released' = released \o result.ready
      /\ UNCHANGED <<expected, pending, session, received>>
      /\ result \in Result
  BY DEF Return, TypeOK
<1>1. FirstExpected <= expected
  BY DEF IReleased
<1>2. /\ result' \in Result
      /\ lastRequestedFirst' \in Sequence
      /\ lastRequestedLast' \in Sequence
      /\ requested' \subseteq Request
      /\ IRequested'
      /\ DOMAIN pending # {} =>
            /\ lastRequestedFirst' = expected
            /\ \/ lastRequestedLast' + 1 >= FirstBuffered
               \/ lastRequestedLast' + 1 = expected + MaxRequest
  <2>1. CASE DOMAIN pending # {}
    <3>1. /\ FirstBuffered \in Sequence /\ FirstBuffered > expected
      BY <1>0, <2>1, FirstBufferedIsFirst DEF TypeOK, IPending
    <3>2. MaybeRequest(FirstBuffered, result)
      BY <2>1 DEF Return
    <3> QED
      BY <1>0, <1>1, <3>1, <3>2, MaybeRequestMemory
  <2>2. CASE DOMAIN pending = {}
    <3>1. UNCHANGED <<result, lastRequestedFirst, lastRequestedLast, requested>>
      BY <2>2 DEF Return
    <3> QED
      BY <1>0, <2>2, <3>1 DEF TypeOK, IRequested, RequestsEncodable
  <2> QED
    BY <2>1, <2>2
<1>3. IReleased' /\ released' \in Seq(Messages)
  <2>1. /\ FirstExpected \in Sequence /\ Base - 1 \in Int /\ expected - 1 \in Int
        /\ FirstExpected - 1 <= Base - 1 /\ Base - 1 <= expected - 1
        /\ expected - 1 <= MaxSequence /\ Base - 1 < MaxSequence
        /\ Base - 1 + 1 = Base /\ FirstExpected - 1 <= expected - 1
        /\ expected - 1 - FirstExpected + 1 = expected - FirstExpected
        /\ FirstExpected + (expected - FirstExpected) = expected
    <3>1. /\ FirstExpected \in Nat /\ Base \in Nat /\ expected \in Nat
          /\ MaxSequence \in Nat /\ FirstExpected <= Base /\ Base <= expected
          /\ expected <= MaxSequence /\ expected > 0
      BY <1>1, Numbers, BaseInRange
    <3>2. FirstExpected \in Sequence
      BY RecoveryAssumption
    <3> QED
      BY <3>1, <3>2
  <2>2. Batch(FirstExpected, Base - 1) \o Batch(Base - 1 + 1, expected - 1)
            = Batch(FirstExpected, expected - 1)
    <3> HIDE DEF IInv
    <3> QED
      BY <2>1, BatchConcat
  <2>3. released' = Batch(FirstExpected, expected - 1)
    BY <1>0, <2>1, <2>2 DEF IReleased
  <2>4. released' \in Seq(Messages) /\ Len(released') = expected - FirstExpected
    BY <2>1, <2>3, BatchType
  <2>5. Base' = expected
    BY <2>1, <2>4 DEF Base
  <2> QED
    <3>1. expected' = expected /\ pc' = "idle" /\ expected \in Nat
      BY <1>0, Numbers
    <3>2. released' = Batch(FirstExpected, Base' - 1)
      BY <2>3, <2>5
    <3>3. FirstExpected <= expected' /\ Base' <= expected' /\ Base' = expected'
      BY <1>1, <2>5, <3>1
    <3> QED
      BY <2>4, <3>1, <3>2, <3>3 DEF IReleased, Batch, Delivery!Batch
<1>4. TypeOK'
  BY <1>0, <1>2, <1>3 DEF TypeOK, NoPacket
<1>5. IResult' /\ IPending' /\ IReceived'
  BY <1>0 DEF IResult, IPending, IReceived
<1>6. IHole'
  BY <1>0, <1>2 DEF IHole, FirstBuffered
<1> QED
  BY <1>2, <1>3, <1>4, <1>5, <1>6

\* IInv is an invariant of the engine.
THEOREM Invariance == Spec => []IInv
<1>1. IInv /\ [Next]_vars => IInv'
  <2> SUFFICES ASSUME IInv, [Next]_vars PROVE IInv'
    OBVIOUS
  <2>1. CASE Call
    BY <2>1, RejectSessionInv, IngestControlInv, BeginDataInv DEF Call
  <2>2. CASE Step
    BY <2>2, SkipStaleInv, BufferFutureInv, ReleaseExpectedInv, DrainOneInv,
       EndDrainInv, ReturnInv DEF Step
  <2>3. CASE UNCHANGED vars
    BY <2>3 DEF vars, engine, call, history, IInv, TypeOK, IResult, IReleased,
       Base, IPending, IReceived, IRequested, RequestsEncodable, IHole, FirstBuffered
  <2> QED
    BY <2>1, <2>2, <2>3 DEF Next, Ended
<1> QED
  BY <1>1, InitInv, PTL DEF Spec

-----------------------------------------------------------------------------
(* What the invariant gives.                                               *)

\* expected_ and the memory of the requests never leave the range of the
\* sequence numbers, and every Result is well formed.
THEOREM TypeCorrect == Spec => []TypeOK
<1>1. IInv => TypeOK
  BY DEF IInv
<1> QED
  BY <1>1, Invariance, PTL

\* drain() stops in front of a hole only, whatever arrived before.
THEOREM NothingIsHeldBack == Spec => []NothingHeldBack
<1>1. IInv => NothingHeldBack
  BY DEF IInv, IPending, NothingHeldBack
<1> QED
  BY <1>1, Invariance, PTL

\* ingest drops no message: it is downstream, buffered, or too old.
THEOREM NothingIsLost == Spec => []NothingLost
<1>1. IInv => NothingLost
  <2> SUFFICES ASSUME IInv, pc = "idle", NEW s \in received,
                      ~(s < FirstExpected), s \notin DOMAIN pending
               PROVE  \E i \in 1..Len(released) : released[i].sequence = s
    BY DEF NothingLost
  <2>1. s < expected /\ s \in Nat
    BY RecoveryAssumption DEF IInv, IReceived, TypeOK, Sequence
  <2>2. Base = expected /\ released = Batch(FirstExpected, Base - 1)
    BY DEF IInv, IReleased
  <2> DEFINE i == s - FirstExpected + 1
  <2>3. /\ i \in 1..Len(released) /\ i \in 1..(Base - 1 - FirstExpected + 1)
        /\ FirstExpected + i - 1 = s
        /\ Base - 1 \in Int /\ FirstExpected - 1 <= Base - 1
        /\ Base - 1 <= MaxSequence
    <3>1. /\ FirstExpected \in Nat /\ Len(released) \in Nat /\ expected \in Nat
          /\ expected <= MaxSequence /\ MaxSequence \in Nat
      BY Numbers DEF IInv
    <3>2. expected = FirstExpected + Len(released)
      BY <2>2 DEF Base
    <3> QED
      BY <2>1, <2>2, <3>1, <3>2
  <2>4. released[i] = Message(FirstExpected + i - 1, Feed[FirstExpected + i - 1])
    <3> HIDE DEF i
    <3> QED
      BY <2>2, <2>3, BatchType, RecoveryAssumption
  <2> QED
    BY <2>3, <2>4 DEF Message
<1> QED
  BY <1>1, Invariance, PTL

\* No Result leaves buffered messages behind a hole that was never asked for.
THEOREM HoleIsRequested == Spec => []HoleRequested
<1>1. IInv => HoleRequested
  <2> SUFFICES ASSUME IInv, pc = "idle", DOMAIN pending # {}
               PROVE  \E q \in requested :
                         /\ q.first = expected
                         /\ q.count = MaxRequest \/ q.first + q.count >= FirstBuffered
    BY DEF HoleRequested
  <2>1. /\ lastRequestedFirst = expected
        /\ \/ lastRequestedLast + 1 >= FirstBuffered
           \/ lastRequestedLast + 1 = expected + MaxRequest
    BY DEF IInv, IHole
  <2>2. expected # 0
    BY Numbers DEF IInv, IReleased
  <2>3. [first |-> expected, count |-> lastRequestedLast - expected + 1] \in requested
    BY <2>1, <2>2 DEF IInv, IRequested
  <2>4. FirstBuffered \in Nat
    BY FirstBufferedIsFirst, RecoveryAssumption DEF IInv, TypeOK, Sequence
  <2>5. /\ expected + (lastRequestedLast - expected + 1) = lastRequestedLast + 1
        /\ lastRequestedLast + 1 = expected + MaxRequest =>
               lastRequestedLast - expected + 1 = MaxRequest
    BY Numbers DEF IInv
  <2> QED
    BY <2>1, <2>3, <2>5
<1> QED
  BY <1>1, Invariance, PTL

\* encode_request never throws on a request of the engine.
THEOREM RequestsAreEncodable == Spec => []RequestsEncodable
<1>1. IInv => RequestsEncodable
  BY DEF IInv, IRequested
<1> QED
  BY <1>1, Invariance, PTL

\* maybe_request: a request it returns is new, or as long as requests get.
LEMMA MaybeRequestIsNew ==
    ASSUME IInv, NEW observedNext \in Sequence, NEW r \in Result,
           r.request = NoRequest, MaybeRequest(observedNext, r),
           result'.request # NoRequest
    PROVE  \/ result'.request \notin requested
           \/ result'.request.count = MaxRequest
<1> DEFINE count == RequestCount(observedNext)
           request == [first |-> expected, count |-> count]
<1>0. /\ expected \in Nat /\ observedNext \in Nat /\ lastRequestedLast \in Nat
      /\ MaxRequest \in Nat
  BY Numbers, RecoveryAssumption DEF IInv, Sequence
<1>1. /\ ~(observedNext <= expected) /\ ~AlreadyRequested(observedNext)
      /\ result' = [r EXCEPT !.request = request]
  BY DEF MaybeRequest
<1>2. result'.request = request
  BY <1>1 DEF Result
<1>3. count = observedNext - expected \/ count = MaxRequest
  BY DEF RequestCount
<1>4. ASSUME request \in requested, count = observedNext - expected PROVE FALSE
  <2>1. /\ lastRequestedFirst = expected
        /\ expected + count - 1 <= lastRequestedLast
    BY <1>4 DEF IInv, IRequested
  <2>2. expected + count - 1 = observedNext - 1
    BY <1>0, <1>4
  <2> QED
    BY <1>1, <2>1, <2>2 DEF AlreadyRequested
<1> QED
  BY <1>2, <1>3, <1>4

\* The engine never makes the same request twice, save for a hole larger than
\* one request can name.
THEOREM NoRequestIsRepeated == Spec => NoRepeatedRequest
<1> DEFINE A == pc' = "idle" /\ result'.request # NoRequest =>
                    \/ result'.request \notin requested
                    \/ result'.request.count = MaxRequest
<1>1. IInv /\ [Next]_vars => [A]_vars
  <2> SUFFICES ASSUME IInv, Next, pc' = "idle", result'.request # NoRequest
               PROVE  \/ result'.request \notin requested
                      \/ result'.request.count = MaxRequest
                      \/ UNCHANGED vars
    OBVIOUS
  <2>1. CASE \E p \in ControlPacket : IngestControl(p)
    <3>1. PICK p \in ControlPacket : IngestControl(p)
      BY <2>1
    <3> DEFINE eos == (p.kind = "end_of_session")
               r == [EmptyResult EXCEPT !.end_of_session = eos]
    <3>2. eos \in BOOLEAN
      OBVIOUS
    <3>3. MaybeRequest(p.first, r) /\ p.first \in Sequence
      BY <3>1 DEF IngestControl, ControlPacket
    <3> HIDE DEF eos
    <3>4. r \in Result /\ r.request = NoRequest
      <4>1. EmptyResult \in Result /\ EmptyResult.request = NoRequest
        BY DEF EmptyResult, Result
      <4> QED
        BY <3>2, <4>1 DEF Result
    <3> HIDE DEF r
    <3> QED
      BY <3>3, <3>4, MaybeRequestIsNew
  <2>2. CASE Return
    <3>1. result \in Result /\ result.request = NoRequest
      BY <2>2 DEF Return, IInv, TypeOK, IResult
    <3>2. CASE DOMAIN pending # {}
      <4>1. MaybeRequest(FirstBuffered, result) /\ FirstBuffered \in Sequence
        BY <2>2, <3>2, FirstBufferedIsFirst DEF Return, IInv, TypeOK
      <4> QED
        BY <3>1, <4>1, MaybeRequestIsNew
    <3>3. CASE DOMAIN pending = {}
      BY <2>2, <3>1, <3>3 DEF Return
    <3> QED
      BY <3>2, <3>3
  <2>3. CASE Ended
    BY <2>3 DEF Ended
  <2> QED
    BY <2>1, <2>2, <2>3
    DEF Next, Call, Step, RejectSession, BeginData, Fail, SkipStale,
        BufferFuture, ReleaseExpected, DrainOne, EndDrain, NextMessage, DrainDone
<1> QED
  BY <1>1, Invariance, PTL DEF Spec, NoRepeatedRequest

\* A Result that ingest returns is nothing or the next batch of the feed.
LEMMA ReturnReleases ==
    ASSUME IInv, Return
    PROVE  Delivery!Release \/ UNCHANGED released
<1>1. /\ released' = released \o result.ready
      /\ result.ready = Batch(Base, expected - 1)
  BY DEF Return, IInv, IReleased
<1>2. /\ Base \in Nat /\ expected \in Nat /\ Base <= expected
      /\ expected <= MaxSequence /\ MaxSequence \in Nat
  BY BaseInRange, Numbers DEF IInv
<1>3. CASE Base = expected
  <2>1. /\ Batch(Base, expected - 1) \in Seq(Messages)
        /\ Len(Batch(Base, expected - 1)) = expected - 1 - Base + 1
    <3>1. /\ Base \in Sequence /\ expected - 1 \in Int
          /\ Base - 1 <= expected - 1 /\ expected - 1 <= MaxSequence
      BY <1>2, BaseInRange DEF IInv
    <3> QED
      BY <3>1, BatchType
  <2>2. Batch(Base, expected - 1) = <<>>
    BY <1>2, <1>3, <2>1, EmptySeq
  <2> QED
    BY <1>1, <2>2, ConcatEmptySeq DEF IInv, TypeOK
<1>4. CASE Base < expected
  <2> DEFINE n == expected - Base
  <2>1. n \in 1..(MaxSequence - Base + 1) /\ Base + n - 1 = expected - 1
    BY <1>2, <1>4
  <2>2. released' = released \o Delivery!Batch(Base, Base + n - 1)
    BY <1>1, <2>1 DEF Batch
  <2> QED
    BY <2>1, <2>2 DEF Delivery!Release, Base
<1> QED
  BY <1>2, <1>3, <1>4

\* The Results of ingest are the feed, contiguous, in order and unaltered.
THEOREM DeliversTheFeed == Spec => ImplementsDelivery
<1>1. Init => Delivery!Init
  BY DEF Init, Delivery!Init
<1>2. IInv /\ [Next]_vars => [Delivery!Release]_released
  <2> SUFFICES ASSUME IInv, Return PROVE Delivery!Release \/ UNCHANGED released
    BY DEF Next, Call, Step, Ended, RejectSession, IngestControl, BeginData,
           SkipStale, BufferFuture, ReleaseExpected, DrainOne, EndDrain,
           vars, history
  <2> QED
    BY ReturnReleases
<1> QED
  BY <1>1, <1>2, Invariance, PTL DEF Spec, ImplementsDelivery, Delivery!Spec
=============================================================================
