---------------------------- MODULE FeedListener ----------------------------
(***************************************************************************)
(* The loop of listen (src/main.cpp:131) at work: the RecoveryEngine, the  *)
(* exchange that multicasts one session, the network between them and the  *)
(* rerequest server that answers what the loop sends with send_unicast.    *)
(*                                                                         *)
(* The multicast channel keeps every data packet for ever and delivers any *)
(* of them at any time: a packet is lost by never being delivered, and may *)
(* be delivered late and more than once.  The exchange, the network and    *)
(* the server are not code of this repository.                             *)
(***************************************************************************)
EXTENDS RecoveryEngine

CONSTANT
    Total       \* the number of messages of the session

ASSUME ListenerAssumption ==
    /\ Total \in Nat
    /\ FirstExpected = 1
    /\ Total < MaxSequence
    /\ Sessions # {}

VARIABLES
    published,   \* messages the exchange has multicast
    sent,        \* the data packets they went out in
    closed,      \* the exchange has ended the session
    rerequests,  \* requests on their way to the rerequest server
    replies,     \* retransmissions on their way to the listener
    listening    \* FALSE after the break of the loop

network == <<published, sent, closed, rerequests, replies>>
lvars == <<vars, network, listening>>

TheSession == CHOOSE s \in Sessions : TRUE

Data(first, count) == [session |-> TheSession, kind |-> "data",
                       first |-> first, count |-> count]

Control(kind, first) == [session |-> TheSession, kind |-> kind,
                         first |-> first, count |-> 0]

LInit ==
    /\ Init
    /\ published = 0
    /\ sent = {}
    /\ closed = FALSE
    /\ rerequests = {}
    /\ replies = {}
    /\ listening = TRUE

-----------------------------------------------------------------------------
(* The exchange and the rerequest server.                                  *)

Publish ==
    \E n \in 1..MaxBatch :
        /\ published + n <= Total
        /\ published' = published + n
        /\ sent' = sent \cup {Data(published + 1, n)}
        /\ UNCHANGED <<vars, closed, rerequests, replies, listening>>

Close ==
    /\ published = Total
    /\ ~closed
    /\ closed' = TRUE
    /\ UNCHANGED <<vars, published, sent, rerequests, replies, listening>>

\* The server answers with one packet, from the first message asked for on:
\* what does not fit into it is not retransmitted.
Serve ==
    \E q \in rerequests :
        \E n \in 1..MaxBatch :
            /\ n <= q.count
            /\ rerequests' = rerequests \ {q}
            /\ replies' = replies \cup {Data(q.first, n)}
            /\ UNCHANGED <<vars, published, sent, closed, listening>>

-----------------------------------------------------------------------------
(* The body of the loop: receive, parse_downstream, ingest, and what the   *)
(* loop does with the Result.  Its only thread is inside ingest while pc   *)
(* is not "idle".                                                          *)

\* Broken on purpose: the Result's request is never sent.
RespondSilently ==
    /\ listening' = ~result'.end_of_session
    /\ UNCHANGED rerequests

\* The rest of the body: the request is sent, the session may be over.
Respond ==
    /\ listening' = ~result'.end_of_session
    /\ rerequests' = rerequests \cup ({result'.request} \ {NoRequest})

Hear(p) ==
    /\ listening
    /\ BeginData(p)
    /\ UNCHANGED <<listening, rerequests>>

HearData ==
    \E p \in sent : Hear(p) /\ UNCHANGED <<published, sent, closed, replies>>

HearReply ==
    \E p \in replies :
        /\ Hear(p)
        /\ replies' = replies \ {p}
        /\ UNCHANGED <<published, sent, closed>>

HearControl(kind, first) ==
    /\ listening
    /\ IngestControl(Control(kind, first))
    /\ Respond
    /\ UNCHANGED <<published, sent, closed, replies>>

\* A heartbeat names the next sequence number at the time it was sent.
HearLateHeartbeat ==
    \E s \in 1..published : HearControl("heartbeat", s)

HearHeartbeat == HearControl("heartbeat", published + 1)

HearEnd == closed /\ HearControl("end_of_session", Total + 1)

Work ==
    /\ SkipStale \/ BufferFuture \/ ReleaseExpected \/ DrainOne \/ EndDrain
    /\ UNCHANGED <<network, listening>>

Finish == Return /\ Respond /\ UNCHANGED <<published, sent, closed, replies>>

\* listen has returned.
Over == ~listening /\ UNCHANGED lvars

LNext ==
    \/ Publish \/ Close \/ Serve
    \/ HearData \/ HearReply \/ HearLateHeartbeat \/ HearHeartbeat \/ HearEnd
    \/ Work \/ Finish \/ Over

\* The loop goes on; the exchange sends everything; of its heartbeats, sent
\* again and again, one gets through; the server answers, and of the answers
\* none is lost.  Nothing is assumed of the data packets of the multicast.
LFairness ==
    /\ WF_lvars(Work \/ Finish)
    /\ WF_lvars(Publish)
    /\ WF_lvars(Serve)
    /\ SF_lvars(HearReply)
    /\ SF_lvars(HearHeartbeat)

LSpec == LInit /\ [][LNext]_lvars /\ LFairness

-----------------------------------------------------------------------------
(* Properties.                                                             *)

\* The loop asks only for messages the exchange has already sent (the range
\* of maybe_request ends before the packet that revealed the hole), however
\* late that packet and the answers to earlier requests arrive.
AsksForThePast ==
    \A q \in rerequests : q.first + q.count - 1 <= published

\* The end of the session never hides a hole: when the loop ends short of the
\* last message, ingest has returned a request for the first one missing
\* (src/recovery_engine.cpp:44 runs before end_of_session is reported).
EndsKnowingly ==
    ~listening /\ Len(released) < Total =>
        \E q \in requested : q.first = Len(released) + 1

\* Whatever the multicast loses, the loop applies the whole feed unless an end
\* of session stops it, provided heartbeats and answers get through: a hole is
\* noticed, asked for, and asked for again when an answer fills it in part.
CatchesUp == <>(Len(released) = Total \/ ~listening)

\* docs/ARCHITECTURE.md:46, "Ordered live input and recovered input must
\* converge to the same hash": the book whose hash listen prints at the end of
\* the session (src/main.cpp:144) has seen every message of the session.
ConvergesAtEnd == ~listening => Len(released) = Total
=============================================================================
