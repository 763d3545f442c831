---------------------------- MODULE MoldFraming ----------------------------
(***************************************************************************)
(* MoldUdp64::parse_downstream (src/moldudp64.cpp): a datagram is taken    *)
(* apart into messages, block by block.  A datagram is its header, which   *)
(* may be cut short, and the bytes after it.  A block is a length of two   *)
(* bytes, big-endian, and so many bytes of payload; a byte has Radix       *)
(* values, 256 in the code.                                                *)
(***************************************************************************)
EXTENDS Integers, Sequences, SequencesExt

CONSTANTS
    Radix,         \* the values of a byte
    EndCount,      \* 0xFFFF, the count that ends the session
    MaxSequence,   \* numeric_limits<Sequence>::max()
    FirstNumbers,  \* bound: the first sequence numbers headers carry
    MaxBody        \* bound: the bytes after the header

ASSUME FramingAssumption ==
    /\ Radix \in Nat \ {0, 1}
    /\ EndCount \in Nat \ {0}
    /\ FirstNumbers \subseteq 0..MaxSequence

Byte == 0..(Radix - 1)

Datagrams == [short : BOOLEAN, first : FirstNumbers, count : 0..EndCount,
              body : BoundedSeq(Byte, MaxBody)]

VARIABLES
    datagram,  \* the argument d
    offset,    \* offset, counted from the end of the header
    messages,  \* out.messages
    outcome    \* "parsing", then what is returned, or "rejected"

vars == <<datagram, offset, messages, outcome>>

Init ==
    /\ datagram \in Datagrams
    /\ offset = 0
    /\ messages = <<>>
    /\ outcome = "begin"

End(how) == outcome' = how /\ UNCHANGED <<datagram, offset, messages>>

RejectShort == outcome = "begin" /\ datagram.short /\ End("rejected")

ControlOutcome(kind) == IF datagram.body = <<>> THEN kind ELSE "rejected"

Control ==
    /\ outcome = "begin"
    /\ ~datagram.short
    /\ \/ datagram.count = 0 /\ End(ControlOutcome("heartbeat"))
       \/ datagram.count = EndCount /\ End(ControlOutcome("end_of_session"))

\* Broken on purpose: the test without the - 1U.
RangeOverflowsTight == datagram.first > MaxSequence - datagram.count

\* The last message would have a sequence number that does not exist.
RangeOverflows == datagram.first > MaxSequence - (datagram.count - 1)

BeginBlocks ==
    /\ outcome = "begin"
    /\ ~datagram.short
    /\ datagram.count \notin {0, EndCount}
    /\ End(IF RangeOverflows THEN "rejected" ELSE "parsing")

\* require_bytes.
Has(from, width) == /\ from <= Len(datagram.body)
                    /\ width <= Len(datagram.body) - from

\* read_u16_be.
Length(from) == datagram.body[from + 1] * Radix + datagram.body[from + 2]

MoreBlocks == Len(messages) < datagram.count

ReadBlock ==
    /\ outcome = "parsing"
    /\ MoreBlocks
    /\ IF Has(offset, 2) /\ Has(offset + 2, Length(offset))
       THEN LET next == offset + 2 + Length(offset)
                message == [sequence |-> datagram.first + Len(messages),
                            payload |-> SubSeq(datagram.body, offset + 3, next)]
            IN  /\ messages' = Append(messages, message)
                /\ offset' = next
                /\ UNCHANGED <<datagram, outcome>>
       ELSE End("rejected")

\* Broken on purpose: ignores bytes behind the last block.
AtEndLax == TRUE

AtEnd == offset = Len(datagram.body)

Finish ==
    /\ outcome = "parsing"
    /\ Len(messages) = datagram.count
    /\ End(IF AtEnd THEN "data" ELSE "rejected")

Over == outcome \notin {"begin", "parsing"} /\ UNCHANGED vars

Next == RejectShort \/ Control \/ BeginBlocks \/ ReadBlock \/ Finish \/ Over

Spec == Init /\ [][Next]_vars

-----------------------------------------------------------------------------
(* The other direction, and what it takes to be a packet.                  *)

Block(payload) == <<Len(payload) \div Radix, Len(payload) % Radix>> \o payload

\* mold_packet of src/main.cpp: the body made of the payloads.
Body(payloads) == FlattenSeq([i \in 1..Len(payloads) |-> Block(payloads[i])])

\* Every body of n blocks that fits into the bound.
Bodies(n) ==
    {body \in {Body(payloads) : payloads \in
                  [1..n -> BoundedSeq(Byte, IF MaxBody < 2 * n THEN 0 ELSE MaxBody - 2 * n)]} :
        Len(body) <= MaxBody}

AllBodies == [n \in 1..(EndCount - 1) |-> Bodies(n)]

WellFormed(d) ==
    /\ ~d.short
    /\ IF d.count \in {0, EndCount} THEN d.body = <<>>
       ELSE d.body \in AllBodies[d.count] /\ d.first + d.count - 1 <= MaxSequence

-----------------------------------------------------------------------------
(* Properties.                                                             *)

\* parse_downstream accepts exactly the well-formed datagrams: every truncation,
\* every surplus byte, every wrong count or length is refused, and nothing else.
AcceptsExactlyPackets ==
    outcome \notin {"begin", "parsing"} => (outcome # "rejected" <=> WellFormed(datagram))

\* What comes out is what a sender put in: framing the messages again gives the
\* same bytes, and their sequence numbers are consecutive from the header's on,
\* without leaving the range of a sequence number.
RoundTrip ==
    outcome = "data" =>
        /\ Body([i \in 1..Len(messages) |-> messages[i].payload]) = datagram.body
        /\ \A i \in 1..Len(messages) : /\ messages[i].sequence = datagram.first + i - 1
                                       /\ messages[i].sequence <= MaxSequence
=============================================================================
