----------------------------- MODULE LiveReplay -----------------------------
(***************************************************************************)
(* listen and replay of main.cpp, around one capture.  listen appends a    *)
(* datagram to the capture and then processes it; replay processes what it *)
(* reads back.  The two differ: listen asks for missing messages, which    *)
(* may throw, stops at the end of the session, and has the larger book.    *)
(*                                                                         *)
(* A processing state is what the two programs hold in memory.  The book   *)
(* is its set of live order ids; the recovery engine is as in module       *)
(* RecoveryEngine, one datagram at a time and far from the last sequence.  *)
(***************************************************************************)
EXTENDS CaptureReplay, FiniteSetsExt

CONSTANTS
    Feed,          \* what the messages 1, 2, ... of the session do to the book
    Datagrams,     \* bound: the datagrams receive() may return
    LiveOrders,    \* OrderBook(2'000'000) of listen
    ReplayOrders   \* OrderBook(1'000'000) of replay

ASSUME LiveAssumption ==
    /\ {LiveOrders, ReplayOrders} \subseteq Nat
    /\ \A d \in Datagrams :
           d.kind \in {"data", "heartbeat", "end", "malformed"} /\ d.size \in 0..MaxSize

VARIABLES
    datagrams,  \* history: the datagrams that were captured
    lives,      \* history: listen before its first datagram and after each one
    replay      \* the processing state of replay

liveVars == <<datagrams, lives>>
allVars == <<vars, liveVars, replay>>

live == Last(lives)

Total == Len(Feed)

Start == [session |-> "none", expected |-> 1, pending |-> {}, asked |-> <<0, 0>>,
          applied |-> 0, book |-> {}, peak |-> 0, status |-> "running"]

Malformed == [kind |-> "malformed", session |-> "none", first |-> 0, count |-> 0, size |-> 0]

-----------------------------------------------------------------------------
(* What is done with a datagram.                                           *)

\* maybe_request(): the state that remembers the request for what is missing
\* before first.
Ask(st, first) ==
    IF first <= st.expected \/ (st.asked[1] = st.expected /\ first - 1 <= st.asked[2])
    THEN st ELSE [st EXCEPT !.asked = <<st.expected, first - 1>>]

\* RecoveryEngine::ingest of a data packet: buffer, drain, ask.
IngestData(st, d) ==
    LET held == st.pending \cup {s \in d.first..(d.first + d.count - 1) : s >= st.expected}
        next == Min({n \in st.expected..(Total + 1) : n \notin held})
        left == {s \in held : s > next}
        drained == [st EXCEPT !.expected = next, !.pending = left,
                              !.asked = IF next > st.expected /\ @[2] < next
                                        THEN <<0, 0>> ELSE @]
    IN  IF left = {} THEN drained ELSE Ask(drained, Min(left))

\* parse_downstream and ingest; both throw before they change anything else
\* than the session.
Ingest(st, d) ==
    LET known == [st EXCEPT !.session = d.session]
    IN  CASE d.kind = "malformed" -> [st EXCEPT !.status = "failed"]
          [] d.kind # "malformed" /\ st.session \notin {"none", d.session} ->
                 [st EXCEPT !.status = "failed"]
          [] OTHER -> IF d.kind = "data" THEN IngestData(known, d) ELSE Ask(known, d.first)

Asks(st, d) == LET then == Ingest(st, d) IN then.asked \notin {st.asked, <<0, 0>>}

\* Broken on purpose: the last slot of the arena is never given out.
BookAfterSpare(book, m, capacity) ==
    CASE m.op = "add" /\ Cardinality(book) + 1 < capacity -> book \cup {m.id}
      [] m.op = "delete" -> book \ {m.id}
      [] OTHER -> book

\* OrderBook::apply, as to which orders are live: an add is rejected when the
\* id is live or the arena full.
BookAfter(book, m, capacity) ==
    CASE m.op = "add" /\ Cardinality(book) < capacity -> book \cup {m.id}
      [] m.op = "delete" -> book \ {m.id}
      [] OTHER -> book

\* One turn of the loop over ready: decode_book_event may throw.
ApplyOne(st, m, capacity) ==
    IF st.status # "running" THEN st
    ELSE IF m.op = "undecodable" THEN [st EXCEPT !.status = "failed"]
    ELSE LET book == BookAfter(st.book, m, capacity)
         IN  [st EXCEPT !.applied = @ + 1, !.book = book,
                        !.peak = Max({@, Cardinality(book)})]

\* The loop over the messages that ingest released.
Apply(before, st, capacity) ==
    FoldLeft(LAMBDA acc, m : ApplyOne(acc, m, capacity), st,
             SubSeq(Feed, before.expected, st.expected - 1))

\* The callback of replay.
Replayed(st, d) ==
    LET then == Ingest(st, d)
    IN  IF then.status = "failed" THEN then ELSE Apply(st, then, ReplayOrders)

\* One turn of the loop of listen: the request is sent, or that throws, before
\* a message is applied; the end of the session ends the loop.
Processed(st, d) ==
    LET then == Ingest(st, d)
        done == Apply(st, then, LiveOrders)
    IN  IF then.status = "failed" THEN {then}
        ELSE {IF d.kind = "end" THEN [done EXCEPT !.status = "ended"] ELSE done}
             \cup (IF Asks(st, d) THEN {[then EXCEPT !.status = "unsent"]} ELSE {})

-----------------------------------------------------------------------------
(* The two programs.                                                       *)

LInit ==
    /\ Init
    /\ datagrams = <<>>
    /\ lives = <<Start>>
    /\ replay = Start

\* The constructor of the writer, the clock, the two ends of the file: the
\* processing states stay.
Listen == (Open \/ Tick \/ WriteLength \/ Close \/ Crash) /\ UNCHANGED <<liveVars, replay>>

\* receive() returns d; listen captures it first.
Receive(d) ==
    /\ live.status = "running"
    /\ WriteTimestamp(d.size)
    /\ datagrams' = IF TooLarge(d.size) THEN datagrams ELSE Append(datagrams, d)
    /\ UNCHANGED <<lives, replay>>

\* The record is complete; the rest of the turn of the loop.
Process ==
    /\ WritePayload
    /\ \E st \in Processed(live, Last(datagrams)) : lives' = Append(lives, st)
    /\ UNCHANGED <<datagrams, replay>>

\* replay between two calls of its callback; its exception ends the program.
Read ==
    /\ replay.status = "running"
    /\ StartReplay \/ EndOfFile \/ ReadTimestamp \/ ReadLength \/ GiveUp
    /\ UNCHANGED <<liveVars, replay>>

\* The datagram whose bytes these are.
DatagramOf(cells) == IF cells = <<>> THEN Malformed ELSE datagrams[cells[1].is]

Callback ==
    /\ replay.status = "running"
    /\ ReadPayload
    /\ replay' = IF replayed' = replayed THEN replay
                 ELSE Replayed(replay, DatagramOf(Last(replayed').cells))
    /\ UNCHANGED liveVars

\* Both programs have ended.
Over == /\ reader \in {"done", "threw"} \/ replay.status = "failed"
        /\ UNCHANGED allVars

Next == Listen \/ (\E d \in Datagrams : Receive(d)) \/ Process \/ Read \/ Callback \/ Over

Spec == LInit /\ [][Next]_allVars

-----------------------------------------------------------------------------
(* Properties.                                                             *)

\* docs/ARCHITECTURE.md:17, "replay follows the same path as live traffic":
\* after every record of a capture, torn or closed, replay is in the state
\* listen was in after that datagram, if listen lived to process it (an empty
\* record is whole before that).  It waits for the same message, has
\* handed the same messages to the book, and fails where listen failed.  Its
\* book is the same if listen's never held more than replay's can.  Where
\* listen died sending a request replay goes on, and is only ahead.
ReplayFollowsLive ==
    Len(replayed) < Len(lives) =>
        LET then == lives[Len(replayed) + 1] IN
        /\ \A f \in {"session", "expected", "pending", "asked"} : replay[f] = then[f]
        /\ replay.applied >= then.applied
        /\ then.status # "unsent" =>
               /\ replay.applied = then.applied
               /\ (replay.status = "failed") = (then.status = "failed")
               /\ then.peak <= ReplayOrders => replay.book = then.book
=============================================================================
