--------------------------- MODULE RecoveryEngine ---------------------------
(***************************************************************************)
(* RecoveryEngine::ingest (src/recovery_engine.cpp): the sequencer that    *)
(* turns MoldUDP64 packets, which UDP may lose, duplicate and reorder,     *)
(* into one contiguous stream, and that asks for what is missing.          *)
(*                                                                         *)
(* A call of ingest is a chain of steps of one thread, one per iteration   *)
(* of its two loops; pc says where the call is.  The caller decides which  *)
(* packet comes next, so every packet is possible whenever pc = "idle".    *)
(* A DecodeError reaches main (src/main.cpp), which ends the program:      *)
(* pc = "failed".  The Result under construction is lost with it.          *)
(***************************************************************************)
EXTENDS Integers, Sequences

CONSTANTS
    FirstExpected,  \* constructor argument first_expected
    MaxSequence,    \* numeric_limits<Sequence>::max()
    MaxRequest,     \* 0xFFFE, the largest count a rerequest can carry
    MaxBatch,       \* bound: the most messages in a packet of the model
    Sessions,       \* the session names packets carry
    NoSession,      \* session_ == nullopt
    NoRequest,      \* Result::request == nullopt
    Payloads,       \* the payloads messages carry
    Feed            \* Feed[s] is the payload the exchange gave sequence s

Sequence == 0..MaxSequence

ASSUME RecoveryAssumption ==
    /\ MaxSequence \in Nat
    /\ FirstExpected \in Sequence \ {0}
    /\ MaxRequest \in Nat \ {0}
    /\ MaxBatch \in Nat
    /\ NoRequest \notin [first : Sequence, count : Nat]
    /\ NoSession \notin Sessions
    /\ Feed \in [Sequence -> Payloads]

VARIABLES
    expected,            \* expected_
    pending,             \* pending_: sequence -> payload
    session,             \* session_
    lastRequestedFirst,  \* last_requested_first_
    lastRequestedLast,   \* last_requested_last_
    pc,                  \* where the thread is in ingest
    packet,              \* the argument of the call in progress
    cursor,              \* the messages of packet already handled
    result,              \* the Result under construction, then returned
    outcome,             \* how ingest last ended
    released,            \* history: every message of every Result returned
    received,            \* history: sequence numbers ingest has looked at
    requested            \* history: every request of every Result returned

engine == <<expected, pending, session, lastRequestedFirst, lastRequestedLast>>
call == <<pc, packet, cursor, result, outcome>>
history == <<released, received, requested>>
vars == <<engine, call, history>>

-----------------------------------------------------------------------------
(* What MoldUdp64::parse_downstream returns: see src/moldudp64.cpp:43 for  *)
(* the bound on the last sequence number of a data packet.                 *)

DataPacket ==
    {p \in [session : Sessions, kind : {"data"},
            first : Sequence, count : 1..MaxBatch] :
        p.first + p.count - 1 <= MaxSequence}

ControlPacket ==
    [session : Sessions, kind : {"heartbeat", "end_of_session"},
     first : Sequence, count : {0}]

NoPacket == [session |-> NoSession, kind |-> "none", first |-> 0, count |-> 0]

Message(s, payload) == [sequence |-> s, payload |-> payload]

EmptyResult == [ready |-> <<>>, request |-> NoRequest,
                duplicate_or_stale |-> FALSE, end_of_session |-> FALSE]

-----------------------------------------------------------------------------
(* maybe_request.  The two guards and the request it builds.               *)

\* Broken on purpose: forgets that the hole has been asked for already.
AlreadyRequestedForgetful(observedNext) == FALSE

\* Broken on purpose: compares the last sequence asked for only, so that a
\* request made for an earlier hole hides the present one.
AlreadyRequestedAnyHole(observedNext) == lastRequestedLast >= observedNext - 1

AlreadyRequested(observedNext) ==
    /\ lastRequestedFirst = expected
    /\ lastRequestedLast >= observedNext - 1

\* Broken on purpose: the std::min against 0xFFFE is missing.
RequestCountUncapped(observedNext) == observedNext - expected

\* Broken on purpose: last_missing counted as observed_next.
RequestCountInclusive(observedNext) ==
    IF observedNext - expected < MaxRequest THEN observedNext - expected + 1
                                            ELSE MaxRequest

RequestCount(observedNext) ==
    IF observedNext - expected <= MaxRequest THEN observedNext - expected
                                             ELSE MaxRequest

MaybeRequest(observedNext, r) ==
    IF observedNext <= expected \/ AlreadyRequested(observedNext)
    THEN /\ result' = r
         /\ UNCHANGED <<lastRequestedFirst, lastRequestedLast, requested>>
    ELSE LET count == RequestCount(observedNext)
             request == [first |-> expected, count |-> count]
         IN  /\ result' = [r EXCEPT !.request = request]
             /\ lastRequestedFirst' = expected
             /\ lastRequestedLast' = expected + count - 1
             /\ requested' = requested \cup {request}

-----------------------------------------------------------------------------
Init ==
    /\ expected = FirstExpected
    /\ pending = [s \in {} |-> 0]
    /\ session = NoSession
    /\ lastRequestedFirst = 0
    /\ lastRequestedLast = 0
    /\ pc = "idle"
    /\ packet = NoPacket
    /\ cursor = 0
    /\ result = EmptyResult
    /\ outcome = "none"
    /\ released = <<>>
    /\ received = {}
    /\ requested = {}

\* session_ is taken from the first packet, whatever it is.
AdoptSession(p) ==
    /\ session \in {NoSession, p.session}
    /\ session' = p.session

Fail(why) == pc' = "failed" /\ outcome' = why

\* ingest of a packet of another session: throws before touching anything.
RejectSession(p) ==
    /\ pc = "idle"
    /\ session \notin {NoSession, p.session}
    /\ Fail("session")
    /\ UNCHANGED <<engine, packet, cursor, result, history>>

\* ingest of a heartbeat or an end-of-session packet: the early return.
IngestControl(p) ==
    /\ pc = "idle"
    /\ AdoptSession(p)
    /\ MaybeRequest(p.first, [EmptyResult EXCEPT
                        !.end_of_session = (p.kind = "end_of_session")])
    /\ outcome' = "returned"
    /\ UNCHANGED <<expected, pending, pc, packet, cursor, released, received>>

\* ingest of a data packet: enters the loop over packet.messages.
BeginData(p) ==
    /\ pc = "idle"
    /\ AdoptSession(p)
    /\ packet' = p
    /\ cursor' = 0
    /\ result' = EmptyResult
    /\ pc' = "loop"
    /\ UNCHANGED <<expected, pending, lastRequestedFirst, lastRequestedLast,
                   outcome, history>>

\* message.sequence of the iteration at hand.
Current == packet.first + cursor

\* Broken on purpose: a stale message is looked at again and again.
NextMessageStuck ==
    /\ pc = "loop"
    /\ cursor < packet.count
    /\ cursor' = IF Current < expected THEN cursor ELSE cursor + 1
    /\ received' = received \cup {Current}

NextMessage ==
    /\ pc = "loop"
    /\ cursor < packet.count
    /\ cursor' = cursor + 1
    /\ received' = received \cup {Current}

SkipStale ==
    /\ NextMessage
    /\ Current < expected
    /\ result' = [result EXCEPT !.duplicate_or_stale = TRUE]
    /\ UNCHANGED <<engine, pc, packet, outcome, released, requested>>

\* Broken on purpose: room for a single buffered message.
TryEmplaceOneSlot(s, payload) == pending' = [t \in {s} |-> payload]

\* pending_.try_emplace: an entry that is already there stays.
TryEmplace(s, payload) ==
    pending' = IF s \in DOMAIN pending THEN pending
               ELSE [t \in DOMAIN pending \cup {s} |->
                        IF t = s THEN payload ELSE pending[t]]

BufferFuture ==
    /\ NextMessage
    /\ Current > expected
    /\ TryEmplace(Current, Feed[Current])
    /\ UNCHANGED <<expected, session, lastRequestedFirst, lastRequestedLast,
                   pc, packet, result, outcome, released, requested>>

Push(s, payload) ==
    result' = [result EXCEPT !.ready = Append(@, Message(s, payload))]

\* Broken on purpose: the limit of the sequence numbers is not noticed.
NeverExhausted == FALSE

Exhausted == expected = MaxSequence

\* Broken on purpose: a message from beyond the hole is let through.
IsExpectedOrLater == Current >= expected

IsExpected == Current = expected

\* The expected message: pushed, counted, and drain() is entered.
ReleaseExpected ==
    /\ NextMessage
    /\ IsExpected
    /\ Push(Current, Feed[Current])
    /\ \/ /\ Exhausted
          /\ Fail("exhausted")
          /\ UNCHANGED expected
       \/ /\ ~Exhausted
          /\ expected' = expected + 1
          /\ pc' = "drain"
          /\ UNCHANGED outcome
    /\ UNCHANGED <<pending, session, lastRequestedFirst, lastRequestedLast,
                   packet, released, requested>>

Without(f, s) == [t \in DOMAIN f \ {s} |-> f[t]]

\* One iteration of the loop of drain().  At the last sequence number the
\* code erases the iterator it has just erased: undefined behaviour, after
\* which the DecodeError may or may not be thrown.
DrainOne ==
    /\ pc = "drain"
    /\ expected \in DOMAIN pending
    /\ Push(expected, pending[expected])
    /\ pending' = Without(pending, expected)
    /\ \/ /\ Exhausted
          /\ \E why \in {"exhausted", "undefined"} : Fail(why)
          /\ UNCHANGED expected
       \/ /\ ~Exhausted
          /\ expected' = expected + 1
          /\ UNCHANGED <<pc, outcome>>
    /\ UNCHANGED <<session, lastRequestedFirst, lastRequestedLast,
                   packet, cursor, history>>

\* Broken on purpose: leaves the loop although the next message is there.
DrainDoneEarly == pc = "drain"

DrainDone == pc = "drain" /\ expected \notin DOMAIN pending

\* The end of drain(): requests that have been served are forgotten.
EndDrain ==
    /\ DrainDone
    /\ LET served == lastRequestedLast < expected
       IN  /\ lastRequestedFirst' = IF served THEN 0 ELSE lastRequestedFirst
           /\ lastRequestedLast' = IF served THEN 0 ELSE lastRequestedLast
    /\ pc' = "loop"
    /\ UNCHANGED <<expected, pending, session, packet, cursor, result,
                   outcome, history>>

\* pending_.begin()->first.
FirstBuffered ==
    CHOOSE s \in DOMAIN pending : \A t \in DOMAIN pending : s <= t

\* The end of ingest: the request for the hole in front of pending_, return.
Return ==
    /\ pc = "loop"
    /\ cursor = packet.count
    /\ IF DOMAIN pending # {}
       THEN MaybeRequest(FirstBuffered, result)
       ELSE /\ result' = result
            /\ UNCHANGED <<lastRequestedFirst, lastRequestedLast, requested>>
    /\ released' = released \o result.ready
    /\ pc' = "idle"
    /\ packet' = NoPacket
    /\ cursor' = 0
    /\ outcome' = "returned"
    /\ UNCHANGED <<expected, pending, session, received>>

Call ==
    \/ \E p \in DataPacket \cup ControlPacket : RejectSession(p)
    \/ \E p \in ControlPacket : IngestControl(p)
    \/ \E p \in DataPacket : BeginData(p)

Step == SkipStale \/ BufferFuture \/ ReleaseExpected
        \/ DrainOne \/ EndDrain \/ Return

\* The program has ended.
Ended == pc = "failed" /\ UNCHANGED vars

Next == Call \/ Step \/ Ended

\* A call that has begun runs on; nobody is obliged to make another one.
Spec == Init /\ [][Next]_vars /\ WF_vars(Step)

-----------------------------------------------------------------------------
(* Properties.                                                             *)

Messages == [sequence : Sequence, payload : Payloads]

Request == [first : Sequence, count : Nat]

Result == [ready : Seq(Messages), request : Request \cup {NoRequest},
           duplicate_or_stale : BOOLEAN, end_of_session : BOOLEAN]

\* The members of RecoveryEngine and the locals of ingest stay within their
\* C++ types; in particular expected_ never steps past the largest sequence
\* number (src/recovery_engine.cpp:29, :56).
TypeOK ==
    /\ expected \in Sequence
    /\ DOMAIN pending \subseteq Sequence
    /\ pending \in [DOMAIN pending -> Payloads]
    /\ session \in Sessions \cup {NoSession}
    /\ lastRequestedFirst \in Sequence
    /\ lastRequestedLast \in Sequence
    /\ pc \in {"idle", "loop", "drain", "failed"}
    /\ packet \in DataPacket \cup ControlPacket \cup {NoPacket}
    /\ cursor \in 0..packet.count
    /\ result \in Result
    /\ outcome \in {"none", "returned", "session", "exhausted", "undefined"}
    /\ released \in Seq(Messages)
    /\ received \subseteq Sequence
    /\ requested \subseteq Request

\* The engine implements ContiguousDelivery: the Results of ingest, one after
\* the other, are the feed from FirstExpected on, without a gap, a duplicate
\* or a swap, each message with its own payload, however packets are lost,
\* repeated and reordered.
Delivery == INSTANCE ContiguousDelivery

ImplementsDelivery == Delivery!Spec

\* When ingest has returned, no buffered message could have been released:
\* drain() stops only in front of a hole, and nothing stale is kept.
NothingHeldBack == pc = "idle" => \A s \in DOMAIN pending : s > expected

\* When ingest has returned, every message it ever looked at has been handed
\* downstream or is buffered, unless it preceded FirstExpected.
NothingLost ==
    pc = "idle" =>
        \A s \in received :
            \/ s < FirstExpected
            \/ s \in DOMAIN pending
            \/ \E i \in 1..Len(released) : released[i].sequence = s

\* When ingest has returned with messages buffered, the hole in front of them
\* has been asked for, as far as one request can reach (maybe_request at
\* src/recovery_engine.cpp:64): no Result leaves a hole nobody knows of.
HoleRequested ==
    pc = "idle" /\ DOMAIN pending # {} =>
        \E q \in requested :
            /\ q.first = expected
            /\ q.count = MaxRequest \/ q.first + q.count >= FirstBuffered

\* encode_request (src/moldudp64.cpp:63) accepts every request: its count is
\* neither 0 nor the end-of-session marker, and no request reaches past the
\* largest sequence number.
RequestsEncodable ==
    \A q \in requested : /\ q.count \in 1..MaxRequest
                         /\ q.first + q.count - 1 <= MaxSequence

\* maybe_request never repeats itself (src/recovery_engine.cpp:13): over the
\* whole life of the engine one and the same request is made once, unless the
\* hole is larger than one request can name.
NoRepeatedRequest ==
    [][pc' = "idle" /\ result'.request # NoRequest =>
           \/ result'.request \notin requested
           \/ result'.request.count = MaxRequest]_vars

\* ingest comes to an end: neither of its loops runs for ever.
IngestTerminates == pc \in {"loop", "drain"} ~> pc \in {"idle", "failed"}

\* docs/recovery.md:38, "Sequence overflow is rejected rather than wrapped":
\* at the last sequence number ingest throws a DecodeError and does nothing
\* undefined.
OverflowRejected == outcome # "undefined"

\* docs/recovery.md:5, "A partial retransmission moves the expected sequence
\* forward and triggers a new request for whatever is still missing": a Result
\* that releases part of the range last asked for carries a request.
PartialRetransmissionRequests ==
    pc = "idle" /\ result.ready # <<>> /\ expected <= lastRequestedLast =>
        result.request # NoRequest
=============================================================================
