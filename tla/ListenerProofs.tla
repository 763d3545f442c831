--------------------------- MODULE ListenerProofs ---------------------------
(***************************************************************************)
(* Proofs about the loop of listen in its environment: RecoveryEngine's    *)
(* invariant carries over to the loop, and with what is known of the       *)
(* network it gives the safety properties of FeedListener, for a session   *)
(* of any length, packets and requests of any size, and any loss,          *)
(* duplication and reordering.                                             *)
(***************************************************************************)
EXTENDS FeedListener, RecoveryProofs

\* A data packet of the session that carries only what has been published.
Past(p) ==
    /\ p \in DataPacket
    /\ p.first + p.count - 1 <= published

\* What the exchange has sent, what the server answers and what the engine
\* keeps of it are of the past.
IPublished ==
    /\ published \in Nat /\ published <= Total
    /\ closed => published = Total
    /\ \A p \in sent \cup replies : Past(p)
    /\ pc = "loop" \/ pc = "drain" => packet.first + packet.count - 1 <= published
    /\ \A s \in DOMAIN pending : s <= published
    /\ expected <= published + 1

\* So are the requests on their way.
IAsked ==
    \A q \in rerequests : q \in Request /\ q.first + q.count - 1 <= published

\* The loop is left between two calls of ingest only, and by the end of the
\* session only; it knows then what it has missed.
IEnd ==
    /\ listening \in BOOLEAN
    /\ pc = "loop" \/ pc = "drain" => listening /\ ~result.end_of_session
    /\ EndsKnowingly

LInv == IInv /\ IPublished /\ IAsked /\ IEnd

-----------------------------------------------------------------------------
(* Lemmas.                                                                 *)

\* The constants and the numbers of a state.
LEMMA ListenerNumbers ==
    ASSUME LInv
    PROVE  /\ Total \in Nat /\ Total < MaxSequence /\ FirstExpected = 1
           /\ MaxSequence \in Nat /\ MaxBatch \in Nat /\ MaxRequest \in Nat
           /\ published \in Nat /\ published <= Total
           /\ expected \in Nat /\ expected <= published + 1
           /\ packet.first \in Nat /\ packet.count \in Nat /\ cursor \in Nat
           /\ TheSession \in Sessions
<1>1. TheSession \in Sessions
  BY ListenerAssumption DEF TheSession
<1> QED
  BY <1>1, Numbers, ListenerAssumption DEF LInv, IInv, IPublished

\* A packet of messages that exist is one parse_downstream returns.
LEMMA DataIsPast ==
    ASSUME LInv, NEW first \in Sequence, NEW n \in 1..MaxBatch,
           first + n - 1 <= MaxSequence
    PROVE  Data(first, n) \in DataPacket
BY ListenerNumbers DEF Data, DataPacket

\* A step that leaves the engine alone keeps its invariant.
LEMMA EngineIdleInv ==
    ASSUME IInv, UNCHANGED vars
    PROVE  IInv'
BY DEF vars, engine, call, history, IInv, TypeOK, IResult, IReleased,
   Base, IPending, IReceived, IRequested, RequestsEncodable, IHole, FirstBuffered

\* maybe_request asks for nothing from observed_next on, and leaves the rest
\* of the Result alone.
LEMMA MaybeRequestPast ==
    ASSUME IInv, NEW observedNext \in Sequence, NEW r \in Result,
           r.request = NoRequest, MaybeRequest(observedNext, r)
    PROVE  /\ result'.end_of_session = r.end_of_session
           /\ \A q \in {result'.request} \ {NoRequest} :
                  q \in Request /\ q.first + q.count <= observedNext
           /\ requested \subseteq requested'
<1> DEFINE count == RequestCount(observedNext)
           request == [first |-> expected, count |-> count]
<1>0. /\ expected \in Nat /\ expected \in Sequence /\ observedNext \in Nat
      /\ MaxRequest \in Nat
  BY Numbers, RecoveryAssumption DEF IInv, TypeOK, Sequence
<1>1. CASE observedNext <= expected \/ AlreadyRequested(observedNext)
  BY <1>1 DEF MaybeRequest
<1>2. CASE ~(observedNext <= expected \/ AlreadyRequested(observedNext))
  <2>1. count \in Nat /\ expected + count <= observedNext
    BY <1>0, <1>2 DEF RequestCount
  <2>2. /\ result' = [r EXCEPT !.request = request]
        /\ requested' = requested \cup {request}
    BY <1>2 DEF MaybeRequest
  <2> HIDE DEF count
  <2>3. request \in Request /\ request.first + request.count <= observedNext
    BY <2>1, <1>0 DEF Request
  <2> HIDE DEF request
  <2>4. result'.request = request /\ result'.end_of_session = r.end_of_session
    BY <2>2 DEF Result
  <2> QED
    BY <2>2, <2>3, <2>4
<1> QED
  BY <1>1, <1>2

\* EndsKnowingly outlives every step that leaves released and listening alone.
LEMMA KnowledgeStays ==
    ASSUME EndsKnowingly, requested \subseteq requested',
           UNCHANGED <<released, listening>>
    PROVE  EndsKnowingly'
BY DEF EndsKnowingly

-----------------------------------------------------------------------------
(* The invariant is inductive.                                             *)

\* The loop starts in a state that satisfies the invariant.
LEMMA ListenerInit == LInit => LInv
<1> SUFFICES ASSUME LInit PROVE LInv
  OBVIOUS
<1>1. IInv
  BY InitInv DEF LInit
<1>2. /\ pc = "idle" /\ DOMAIN pending = {} /\ expected = 1
  BY ListenerAssumption DEF LInit, Init
<1>3. IPublished /\ IAsked /\ IEnd
  BY <1>2, ListenerAssumption DEF LInit, IPublished, IAsked, IEnd, EndsKnowingly
<1> QED
  BY <1>1, <1>3 DEF LInv

\* The exchange sends the next messages.
LEMMA PublishInv ==
    ASSUME LInv, Publish
    PROVE  LInv'
<1>1. PICK n \in 1..MaxBatch :
          /\ published + n <= Total
          /\ published' = published + n
          /\ sent' = sent \cup {Data(published + 1, n)}
          /\ UNCHANGED <<vars, closed, rerequests, replies, listening>>
  BY DEF Publish
<1>2. /\ n \in Nat /\ n >= 1 /\ published' \in Nat /\ published <= published'
      /\ published' <= Total /\ expected <= published' + 1
      /\ published + 1 \in Sequence /\ published + 1 + n - 1 <= MaxSequence
      /\ published + 1 + n - 1 = published'
  BY <1>1, ListenerNumbers DEF Sequence
<1>3. /\ IInv' /\ UNCHANGED <<pc, packet, pending, expected, released, requested, result>>
  BY <1>1, EngineIdleInv DEF LInv, vars, engine, call, history
<1>4. \A p \in sent' \cup replies' : Past(p)'
  <2> SUFFICES ASSUME NEW p \in sent \cup {Data(published + 1, n)} \cup replies
               PROVE  p \in DataPacket /\ p.first + p.count - 1 <= published'
    BY <1>1 DEF Past
  <2>1. CASE p = Data(published + 1, n)
    <3>1. p \in DataPacket
      BY <1>2, <2>1, DataIsPast
    <3> QED
      BY <1>2, <2>1, <3>1 DEF Data
  <2>2. CASE p \in sent \cup replies
    <3>1. p \in DataPacket /\ p.first + p.count - 1 <= published
      BY <2>2 DEF LInv, IPublished, Past
    <3>2. p.first \in Nat /\ p.count \in Nat
      BY <3>1, RecoveryAssumption DEF DataPacket, Sequence
    <3> QED
      BY <1>2, <3>1, <3>2, ListenerNumbers
  <2> QED
    BY <2>1, <2>2
<1>5. \A s \in DOMAIN pending : s <= published'
  <2> SUFFICES ASSUME NEW s \in DOMAIN pending PROVE s <= published'
    OBVIOUS
  <2>1. s \in Nat /\ s <= published
    BY RecoveryAssumption DEF LInv, IInv, TypeOK, IPublished, Sequence
  <2> QED
    BY <1>2, <2>1, ListenerNumbers
<1>6. closed => published = Total
  BY DEF LInv, IPublished
<1>7. IPublished'
  <2>1. closed' => published' = Total
    BY <1>1, <1>2, <1>6, ListenerNumbers
  <2>2. pc' = "loop" \/ pc' = "drain" => packet'.first + packet'.count - 1 <= published'
    <3>1. pc = "loop" \/ pc = "drain" => packet.first + packet.count - 1 <= published
      BY DEF LInv, IPublished
    <3> QED
      BY <1>2, <1>3, <3>1, ListenerNumbers
  <2> QED
    BY <1>2, <1>3, <1>4, <1>5, <2>1, <2>2 DEF IPublished
<1>8. IAsked'
  <2> SUFFICES ASSUME NEW q \in rerequests
               PROVE  q \in Request /\ q.first + q.count - 1 <= published'
    BY <1>1 DEF IAsked
  <2>1. q \in Request /\ q.first + q.count - 1 <= published
    BY DEF LInv, IAsked
  <2>2. q.first \in Nat /\ q.count \in Nat
    BY <2>1, RecoveryAssumption DEF Request, Sequence
  <2> QED
    BY <1>2, <2>1, <2>2, ListenerNumbers
<1>9. IEnd'
  BY <1>1, <1>3, KnowledgeStays DEF LInv, IEnd
<1> QED
  BY <1>3, <1>7, <1>8, <1>9 DEF LInv

\* The session is over.
LEMMA CloseInv ==
    ASSUME LInv, Close
    PROVE  LInv'
<1>1. /\ published = Total
      /\ UNCHANGED <<vars, published, sent, rerequests, replies, listening>>
  BY DEF Close
<1>2. IInv' /\ UNCHANGED <<pc, packet, pending, expected, released, requested, result>>
  BY <1>1, EngineIdleInv DEF LInv, vars, engine, call, history
<1>3. IPublished' /\ IAsked'
  BY <1>1, <1>2 DEF LInv, IPublished, Past, IAsked
<1>4. IEnd'
  BY <1>1, <1>2, KnowledgeStays DEF LInv, IEnd
<1> QED
  BY <1>2, <1>3, <1>4 DEF LInv

\* The server retransmits messages that were asked for, hence published.
LEMMA ServeInv ==
    ASSUME LInv, Serve
    PROVE  LInv'
<1>1. PICK q \in rerequests, n \in 1..MaxBatch :
          /\ n <= q.count
          /\ rerequests' = rerequests \ {q}
          /\ replies' = replies \cup {Data(q.first, n)}
          /\ UNCHANGED <<vars, published, sent, closed, listening>>
  BY DEF Serve
<1>2. IInv' /\ UNCHANGED <<pc, packet, pending, expected, released, requested, result>>
  BY <1>1, EngineIdleInv DEF LInv, vars, engine, call, history
<1>3. /\ q.first \in Sequence /\ q.first \in Nat /\ q.count \in Nat
      /\ q.first + q.count - 1 <= published
  BY RecoveryAssumption DEF LInv, IAsked, Request, Sequence
<1>4. q.first + n - 1 <= published /\ q.first + n - 1 <= MaxSequence
  BY <1>1, <1>3, ListenerNumbers
<1>5. Data(q.first, n) \in DataPacket
  BY <1>3, <1>4, DataIsPast
<1>6. Past(Data(q.first, n))
  BY <1>4, <1>5 DEF Past, Data
<1>7. IPublished' /\ IAsked'
  BY <1>1, <1>2, <1>6 DEF LInv, IPublished, Past, IAsked
<1>8. IEnd'
  BY <1>1, <1>2, KnowledgeStays DEF LInv, IEnd
<1> QED
  BY <1>2, <1>7, <1>8 DEF LInv

\* The loop is handed a data packet, of the multicast or of the server.
LEMMA HearInv ==
    ASSUME LInv, NEW p \in sent \cup replies, Hear(p),
           UNCHANGED <<published, sent, closed>>, replies' \subseteq replies
    PROVE  LInv'
<1>1. /\ p \in DataPacket /\ p.first + p.count - 1 <= published
  BY DEF LInv, IPublished, Past
<1>2. /\ listening /\ BeginData(p) /\ packet' = p /\ result' = EmptyResult
      /\ UNCHANGED <<listening, rerequests, expected, pending, released, requested>>
  BY DEF Hear, BeginData, history
<1>3. IInv'
  BY <1>1, <1>2, BeginDataInv DEF LInv
<1>4. IPublished' /\ IAsked'
  BY <1>1, <1>2 DEF LInv, IPublished, Past, IAsked
<1>5. EndsKnowingly'
  BY <1>2, KnowledgeStays DEF LInv, IEnd
<1>6. IEnd'
  BY <1>2, <1>5 DEF LInv, IEnd, EmptyResult
<1> QED
  BY <1>3, <1>4, <1>6 DEF LInv

\* What Respond sends is of the past when the Result's request is.
LEMMA RespondAsked ==
    ASSUME LInv, Respond, UNCHANGED published,
           \A q \in {result'.request} \ {NoRequest} :
               q \in Request /\ q.first + q.count - 1 <= published
    PROVE  IAsked'
BY DEF LInv, IAsked, Respond

\* A heartbeat, in time or late, or the end of the session.  A request it
\* brings about ends in front of the sequence number it names; when it ends
\* the loop, the hole up to there has been asked for.
LEMMA HearControlInv ==
    ASSUME LInv, NEW kind \in {"heartbeat", "end_of_session"},
           NEW first \in Nat, first <= published + 1,
           kind = "end_of_session" => first = Total + 1,
           HearControl(kind, first)
    PROVE  LInv'
<1> DEFINE p == Control(kind, first)
           eos == (kind = "end_of_session")
           r == [EmptyResult EXCEPT !.end_of_session = eos]
<1>0. first \in Sequence
  BY ListenerNumbers DEF Sequence
<1>1. p \in ControlPacket /\ p.first = first /\ p.kind = kind
  BY <1>0, ListenerNumbers DEF Control, ControlPacket
<1>2. /\ listening /\ IngestControl(p) /\ Respond
      /\ UNCHANGED <<published, sent, closed, replies>>
  BY DEF HearControl
<1>3. IInv'
  BY <1>1, <1>2, IngestControlInv DEF LInv
<1>4. /\ pc = "idle" /\ pc' = "idle" /\ MaybeRequest(first, r)
      /\ UNCHANGED <<expected, pending, packet, released>>
  BY <1>1, <1>2 DEF IngestControl
<1>5. r \in Result /\ r.request = NoRequest /\ r.end_of_session = eos
  <2>1. eos \in BOOLEAN
    OBVIOUS
  <2>2. EmptyResult \in Result /\ EmptyResult.request = NoRequest
    BY DEF EmptyResult, Result
  <2> HIDE DEF eos
  <2> QED
    BY <2>1, <2>2 DEF Result
<1> HIDE DEF r, p
<1>6. /\ result'.end_of_session = eos
      /\ \A q \in {result'.request} \ {NoRequest} :
             q \in Request /\ q.first + q.count <= first
  BY <1>0, <1>4, <1>5, MaybeRequestPast DEF LInv
<1>7. IPublished'
  BY <1>2, <1>4 DEF LInv, IPublished, Past
<1>8. IAsked'
  <2>1. \A q \in {result'.request} \ {NoRequest} :
            q \in Request /\ q.first + q.count - 1 <= published
    <3> SUFFICES ASSUME NEW q \in {result'.request} \ {NoRequest}
                 PROVE  q \in Request /\ q.first + q.count - 1 <= published
      OBVIOUS
    <3>1. q \in Request /\ q.first + q.count <= first
      BY <1>6
    <3>2. q.first \in Nat /\ q.count \in Nat
      BY <3>1, RecoveryAssumption DEF Request, Sequence
    <3> QED
      BY <3>1, <3>2, ListenerNumbers
  <2> QED
    BY <1>2, <2>1, RespondAsked
<1>9. listening' = ~eos
  BY <1>2, <1>6 DEF Respond
<1>10. EndsKnowingly'
  <2> SUFFICES ASSUME eos, Len(released) < Total
               PROVE  \E q \in requested' : q.first = Len(released) + 1
    BY <1>4, <1>9 DEF EndsKnowingly
  <2>1. first = Total + 1
    OBVIOUS
  <2>2. /\ expected = Len(released) + 1 /\ expected # 0 /\ first > expected
    <3>1. expected = 1 + Len(released) /\ Len(released) \in Nat
      BY <1>4, ListenerNumbers, Numbers DEF LInv, IInv, IReleased, Base
    <3> QED
      BY <2>1, <3>1, ListenerNumbers
  <2>3. lastRequestedFirst' = expected /\ IRequested'
    <3>1. TypeOK /\ IRequested /\ FirstExpected <= expected
      BY DEF LInv, IInv, IReleased
    <3> QED
      BY <1>0, <1>4, <1>5, <2>2, <3>1, MaybeRequestMemory
  <2>4. [first |-> lastRequestedFirst',
         count |-> lastRequestedLast' - lastRequestedFirst' + 1] \in requested'
    BY <2>2, <2>3 DEF IRequested
  <2> QED
    BY <2>2, <2>3, <2>4
<1>11. IEnd'
  <2>1. listening' \in BOOLEAN
    BY <1>9
  <2> QED
    BY <1>4, <1>10, <2>1 DEF IEnd
<1> QED
  BY <1>3, <1>7, <1>8, <1>11 DEF LInv

\* What an iteration of the loops of ingest has to keep for the listener.
LEMMA WorkKeeps ==
    ASSUME LInv, IInv', UNCHANGED <<network, listening>>,
           pc = "loop" \/ pc = "drain", UNCHANGED <<packet, released, requested>>,
           \A s \in DOMAIN pending' : s <= published,
           expected' <= published + 1,
           result'.end_of_session = result.end_of_session
    PROVE  LInv'
<1>1. IPublished' /\ IAsked'
  BY DEF LInv, IPublished, Past, IAsked, network
<1>2. EndsKnowingly'
  BY KnowledgeStays DEF LInv, IEnd
<1>3. IEnd'
  BY <1>2 DEF LInv, IEnd
<1> QED
  BY <1>1, <1>3 DEF LInv

\* The message at hand has been published.
LEMMA CurrentIsPast ==
    ASSUME LInv, NextMessage
    PROVE  Current \in Nat /\ Current <= published
<1>1. packet.first + packet.count - 1 <= published /\ cursor < packet.count
  BY DEF LInv, IPublished, NextMessage
<1> QED
  BY <1>1, ListenerNumbers DEF Current

\* An iteration of the loop of ingest or of drain().
LEMMA WorkInv ==
    ASSUME LInv, Work
    PROVE  LInv'
<1>0. /\ UNCHANGED <<network, listening>>
      /\ \A s \in DOMAIN pending : s <= published
      /\ result \in Result /\ IInv
  BY DEF Work, LInv, IPublished, IInv, TypeOK
<1>1. CASE SkipStale
  <2>1. /\ UNCHANGED <<packet, released, requested, pending, expected>>
        /\ pc = "loop" /\ result' = [result EXCEPT !.duplicate_or_stale = TRUE]
    BY <1>1 DEF SkipStale, NextMessage, engine
  <2>2. result'.end_of_session = result.end_of_session
    BY <1>0, <2>1 DEF Result
  <2> QED
    BY <1>0, <1>1, <2>1, <2>2, SkipStaleInv, WorkKeeps, ListenerNumbers
<1>2. CASE BufferFuture
  <2>1. /\ UNCHANGED <<packet, released, requested, expected, result>>
        /\ pc = "loop" /\ NextMessage /\ TryEmplace(Current, Feed[Current])
    BY <1>2 DEF BufferFuture, NextMessage
  <2>2. DOMAIN pending' \subseteq DOMAIN pending \cup {Current}
    BY <2>1 DEF TryEmplace
  <2>3. \A s \in DOMAIN pending' : s <= published
    BY <1>0, <2>1, <2>2, CurrentIsPast
  <2> QED
    BY <1>0, <1>2, <2>1, <2>3, BufferFutureInv, WorkKeeps, ListenerNumbers
<1>3. CASE ReleaseExpected
  <2>1. /\ UNCHANGED <<packet, released, requested, pending>>
        /\ pc = "loop" /\ NextMessage /\ Current = expected
        /\ expected' = expected \/ expected' = expected + 1
        /\ Push(Current, Feed[Current])
    BY <1>3 DEF ReleaseExpected, NextMessage, IsExpected
  <2>2. expected' <= published + 1
    BY <2>1, CurrentIsPast, ListenerNumbers
  <2>3. result'.end_of_session = result.end_of_session
    BY <1>0, <2>1 DEF Push, Result
  <2> QED
    BY <1>0, <1>3, <2>1, <2>2, <2>3, ReleaseExpectedInv, WorkKeeps
<1>4. CASE DrainOne
  <2>1. /\ UNCHANGED <<packet, released, requested>>
        /\ pc = "drain" /\ expected \in DOMAIN pending
        /\ pending' = Without(pending, expected)
        /\ expected' = expected \/ expected' = expected + 1
        /\ Push(expected, pending[expected])
    BY <1>4 DEF DrainOne, history
  <2>2. expected' <= published + 1
    BY <1>0, <2>1, ListenerNumbers
  <2>3. \A s \in DOMAIN pending' : s <= published
    BY <1>0, <2>1 DEF Without
  <2>4. result'.end_of_session = result.end_of_session
    BY <1>0, <2>1 DEF Push, Result
  <2> QED
    BY <1>0, <1>4, <2>1, <2>2, <2>3, <2>4, DrainOneInv, WorkKeeps
<1>5. CASE EndDrain
  <2>1. /\ UNCHANGED <<packet, released, requested, pending, expected, result>>
        /\ pc = "drain"
    BY <1>5 DEF EndDrain, DrainDone, history
  <2> QED
    BY <1>0, <1>5, <2>1, EndDrainInv, WorkKeeps, ListenerNumbers
<1> QED
  BY <1>1, <1>2, <1>3, <1>4, <1>5 DEF Work

\* ingest returns to the loop: the hole asked for ends in front of a message
\* that has arrived, and a data packet does not end the loop.
LEMMA FinishInv ==
    ASSUME LInv, Finish
    PROVE  LInv'
<1>1. /\ Return /\ Respond /\ UNCHANGED <<published, sent, closed, replies>>
      /\ pc = "loop" /\ pc' = "idle" /\ UNCHANGED <<expected, pending>>
  BY DEF Finish, Return
<1>2. IInv'
  BY <1>1, ReturnInv DEF LInv
<1>3. /\ result \in Result /\ result.request = NoRequest
      /\ listening /\ ~result.end_of_session
  BY <1>1 DEF LInv, IInv, TypeOK, IResult, IEnd
<1>4. /\ result'.end_of_session = result.end_of_session
      /\ \A q \in {result'.request} \ {NoRequest} :
             q \in Request /\ q.first + q.count - 1 <= published
  <2>1. CASE DOMAIN pending # {}
    <3>1. /\ MaybeRequest(FirstBuffered, result) /\ FirstBuffered \in Sequence
          /\ FirstBuffered \in DOMAIN pending
      BY <1>1, <2>1, FirstBufferedIsFirst DEF Return, LInv, IInv, TypeOK
    <3>2. FirstBuffered <= published /\ FirstBuffered \in Nat
      BY <3>1, RecoveryAssumption DEF LInv, IPublished, Sequence
    <3>3. /\ result'.end_of_session = result.end_of_session
          /\ \A q \in {result'.request} \ {NoRequest} :
                 q \in Request /\ q.first + q.count <= FirstBuffered
      BY <1>3, <3>1, MaybeRequestPast DEF LInv
    <3>4. \A q \in Request : q.first \in Nat /\ q.count \in Nat
      BY RecoveryAssumption DEF Request, Sequence
    <3> QED
      BY <3>2, <3>3, <3>4, ListenerNumbers
  <2>2. CASE DOMAIN pending = {}
    BY <1>1, <1>3, <2>2 DEF Return
  <2> QED
    BY <2>1, <2>2
<1>5. IPublished'
  BY <1>1 DEF LInv, IPublished, Past
<1>6. IAsked'
  BY <1>1, <1>4, RespondAsked
<1>7. listening' = TRUE
  BY <1>1, <1>3, <1>4 DEF Respond
<1>8. IEnd'
  BY <1>1, <1>7 DEF IEnd, EndsKnowingly
<1> QED
  BY <1>2, <1>5, <1>6, <1>8 DEF LInv

-----------------------------------------------------------------------------
(* Theorems.                                                               *)

\* LInv is an invariant of listen in its environment.
THEOREM ListenerInvariance == LSpec => []LInv
<1>1. LInv /\ [LNext]_lvars => LInv'
  <2> SUFFICES ASSUME LInv, [LNext]_lvars PROVE LInv'
    OBVIOUS
  <2>1. CASE Publish \/ Close \/ Serve
    BY <2>1, PublishInv, CloseInv, ServeInv
  <2>2. CASE HearData \/ HearReply
    BY <2>2, HearInv DEF HearData, HearReply
  <2>3. CASE HearLateHeartbeat
    <3>1. PICK s \in 1..published : HearControl("heartbeat", s)
      BY <2>3 DEF HearLateHeartbeat
    <3>2. s \in Nat /\ s <= published + 1
      BY ListenerNumbers
    <3> QED
      BY <3>1, <3>2, HearControlInv
  <2>4. CASE HearHeartbeat
    <3>1. published + 1 \in Nat /\ published + 1 <= published + 1
      BY ListenerNumbers
    <3> QED
      BY <2>4, <3>1, HearControlInv DEF HearHeartbeat
  <2>5. CASE HearEnd
    <3>1. Total + 1 \in Nat /\ Total + 1 <= published + 1
      BY <2>5, ListenerNumbers DEF HearEnd, LInv, IPublished
    <3> QED
      BY <2>5, <3>1, HearControlInv DEF HearEnd
  <2>6. CASE Work \/ Finish
    BY <2>6, WorkInv, FinishInv
  <2>7. CASE UNCHANGED lvars
    <3>1. UNCHANGED <<vars, published, sent, closed, rerequests, replies, listening>>
      BY <2>7 DEF lvars, network
    <3>2. IInv' /\ UNCHANGED <<pc, packet, pending, expected, released, requested, result>>
      BY <3>1, EngineIdleInv DEF LInv, vars, engine, call, history
    <3> QED
      BY <3>1, <3>2 DEF LInv, IPublished, Past, IAsked, IEnd, EndsKnowingly
  <2> QED
    BY <2>1, <2>2, <2>3, <2>4, <2>5, <2>6, <2>7 DEF LNext, Over
<1> QED
  BY <1>1, ListenerInit, PTL DEF LSpec

\* listen never asks the rerequest server for a message that the exchange has
\* not sent.
THEOREM ListenerAsksForThePast == LSpec => []AsksForThePast
<1>1. LInv => AsksForThePast
  BY DEF LInv, IAsked, AsksForThePast
<1> QED
  BY <1>1, ListenerInvariance, PTL

\* listen never ends short of the session's last message without having asked
\* for the first one it misses.
THEOREM ListenerEndsKnowingly == LSpec => []EndsKnowingly
<1>1. LInv => EndsKnowingly
  BY DEF LInv, IEnd
<1> QED
  BY <1>1, ListenerInvariance, PTL

\* In the loop, too, what is applied is the feed, contiguous and in order.
THEOREM ListenerDeliversTheFeed == LSpec => ImplementsDelivery
<1>1. LInit => Delivery!Init
  BY DEF LInit, Init, Delivery!Init
<1>2. LInv /\ [LNext]_lvars => [Delivery!Release]_released
  <2> SUFFICES ASSUME LInv, [LNext]_lvars PROVE [Delivery!Release]_released
    OBVIOUS
  <2>1. CASE Finish
    BY <2>1, ReturnReleases DEF Finish, LInv
  <2>2. CASE Work
    BY <2>2 DEF Work, SkipStale, BufferFuture, ReleaseExpected, DrainOne,
                EndDrain, history
  <2>3. CASE HearData \/ HearReply \/ HearLateHeartbeat \/ HearHeartbeat \/ HearEnd
    BY <2>3 DEF HearData, HearReply, HearLateHeartbeat, HearHeartbeat, HearEnd,
                Hear, HearControl, BeginData, IngestControl, history
  <2>4. CASE Publish \/ Close \/ Serve \/ UNCHANGED lvars
    BY <2>4 DEF Publish, Close, Serve, lvars, vars, history
  <2> QED
    BY <2>1, <2>2, <2>3, <2>4 DEF LNext, Over
<1> QED
  BY <1>1, <1>2, ListenerInvariance, PTL DEF LSpec, ImplementsDelivery, Delivery!Spec
=============================================================================
