---------------------------- MODULE ItchDecoder ----------------------------
(***************************************************************************)
(* The ITCH decoders (src/itch_decoder.cpp): ItchDecoder, which reads      *)
(* messages through the views that the protocol compiler generates from    *)
(* schemas/itch50.efe, and ReferenceItchDecoder, whose offsets are written *)
(* by hand.  The compiler runs first, at build time; the decoders use what *)
(* it has generated.                                                       *)
(*                                                                         *)
(* A number is the sequence of its bytes, the most significant one first,  *)
(* which is what the big-endian readers of byte_reader.hpp make of them.   *)
(***************************************************************************)
EXTENDS ProtocolCompiler, ItchSchema

CONSTANT MaxLength  \* bound: the length of a message

VARIABLES
    input,      \* the message being decoded
    decoded,    \* what ItchDecoder::decode_book_event has made of it
    reference   \* what ReferenceItchDecoder has

vars == <<parser, input, decoded, reference>>

Nullopt == [outcome |-> "nullopt", event |-> <<>>]
Threw == [outcome |-> "threw", event |-> <<>>]
Pending == [outcome |-> "pending", event |-> <<>>]

-----------------------------------------------------------------------------
(* byte_reader.hpp and types.hpp.  A read that throws yields no bytes.     *)

Read(bytes, offset, width) ==
    IF offset + width <= Len(bytes) THEN SubSeq(bytes, offset + 1, offset + width)
    ELSE <<>>

\* An event one of whose reads has thrown is none.
Decoded(event) ==
    IF \E k \in DOMAIN event : event[k] = <<>> THEN Threw
    ELSE [outcome |-> "event", event |-> event]

Byte(of, part, is) == [of |-> of, part |-> part, is |-> is]

Space == Byte("space", 1, "any")

FromPadded(s) ==
    IF s = <<>> THEN <<>>
    ELSE [i \in 1..8 |-> IF i <= Len(s) THEN s[i] ELSE Space]

SideFromChar(c) ==
    IF c # <<>> /\ c[1].is = "B" THEN <<"Buy">>
    ELSE IF c # <<>> /\ c[1].is = "S" THEN <<"Sell">>
    ELSE <<>>

TypeOf(bytes) == bytes[1].is

-----------------------------------------------------------------------------
(* The events: meta is the locate code, the tracking number and the time.  *)

AddEvent(meta, id, symbol, side, shares, price) ==
    Decoded([kind |-> <<"add">>, locate |-> meta[1], tracking |-> meta[2],
             timestamp |-> meta[3], id |-> id, symbol |-> FromPadded(symbol),
             side |-> SideFromChar(side), quantity |-> shares, price |-> price])

\* price has no bytes when there is none; printable is a flag.
ExecuteEvent(meta, id, shares, match, hasPrice, price, printable) ==
    Decoded([kind |-> <<"execute">>, locate |-> meta[1], tracking |-> meta[2],
             timestamp |-> meta[3], id |-> id, shares |-> shares, match |-> match,
             has_price |-> <<hasPrice>>, price |-> price, printable |-> <<printable>>])

CancelEvent(meta, id, shares) ==
    Decoded([kind |-> <<"cancel">>, locate |-> meta[1], tracking |-> meta[2],
             timestamp |-> meta[3], id |-> id, shares |-> shares])

DeleteEvent(meta, id) ==
    Decoded([kind |-> <<"delete">>, locate |-> meta[1], tracking |-> meta[2],
             timestamp |-> meta[3], id |-> id])

ReplaceEvent(meta, id, newId, shares, price) ==
    Decoded([kind |-> <<"replace">>, locate |-> meta[1], tracking |-> meta[2],
             timestamp |-> meta[3], id |-> id, new_id |-> newId,
             quantity |-> shares, price |-> price])

-----------------------------------------------------------------------------
(* ItchDecoder, over the generated views.                                  *)

\* Broken on purpose: the length of a message that makes no event is not looked at.
ValidatesBookOnly(bytes) ==
    bytes # <<>> /\ \E m \in ToSet(messages) :
                        /\ m.type = TypeOf(bytes)
                        /\ m.type \in {"A", "F", "E", "C", "X", "D", "U"} => Len(bytes) = m.size

\* validate(): message_size() knows the type, and the length is that.
Validates(bytes) ==
    bytes # <<>> /\ \E m \in ToSet(messages) :
                        m.type = TypeOf(bytes) /\ Len(bytes) = m.size

View(bytes) == CHOOSE m \in ToSet(messages) : m.type = TypeOf(bytes)

\* The accessor of the view of that name.
Get(bytes, name) ==
    LET f == CHOOSE f \in ToSet(View(bytes).fields) : f.name = name
    IN  Read(bytes, f.offset, f.width)

NoPrice == <<"0">>

DecodeBookEvent(bytes) ==
    LET get(name) == Get(bytes, name)
        meta == <<get("stock_locate"), get("tracking_number"), get("timestamp")>>
        type == TypeOf(bytes)
    IN  IF ~Validates(bytes) THEN Threw
        ELSE CASE type \in {"A", "F"} ->
                    AddEvent(meta, get("order_reference"), get("stock"), get("side"),
                             get("shares"), get("price"))
               [] type = "E" ->
                    ExecuteEvent(meta, get("order_reference"), get("executed_shares"),
                                 get("match_number"), FALSE, NoPrice, TRUE)
               [] type = "C" ->
                    ExecuteEvent(meta, get("order_reference"), get("executed_shares"),
                                 get("match_number"), TRUE, get("execution_price"),
                                 get("printable")[1].is = "Y")
               [] type = "X" ->
                    CancelEvent(meta, get("order_reference"), get("canceled_shares"))
               [] type = "D" -> DeleteEvent(meta, get("order_reference"))
               [] type = "U" ->
                    ReplaceEvent(meta, get("original_order_reference"),
                                 get("new_order_reference"), get("shares"), get("price"))
               [] OTHER -> Nullopt

-----------------------------------------------------------------------------
(* ReferenceItchDecoder.                                                   *)

\* Broken on purpose: an add with attribution taken for one without.
ExactSizeUnattributed ==
    [A |-> 36, F |-> 36, E |-> 31, C |-> 36, X |-> 23, D |-> 19, U |-> 35]

\* The sizes require_exact() is called with.
ExactSize == [A |-> 36, F |-> 40, E |-> 31, C |-> 36, X |-> 23, D |-> 19, U |-> 35]

ReferenceDecode(b) ==
    LET meta == <<Read(b, 1, 2), Read(b, 3, 2), Read(b, 5, 6)>>
        type == TypeOf(b)
    IN  IF b = <<>> THEN Threw
        ELSE IF type \notin DOMAIN ExactSize THEN Nullopt
        ELSE IF Len(b) # ExactSize[type] THEN Threw
        ELSE CASE type \in {"A", "F"} ->
                    AddEvent(meta, Read(b, 11, 8), Read(b, 24, 8), Read(b, 19, 1),
                             Read(b, 20, 4), Read(b, 32, 4))
               [] type = "E" ->
                    ExecuteEvent(meta, Read(b, 11, 8), Read(b, 19, 4), Read(b, 23, 8),
                                 FALSE, NoPrice, TRUE)
               [] type = "C" ->
                    ExecuteEvent(meta, Read(b, 11, 8), Read(b, 19, 4), Read(b, 23, 8),
                                 TRUE, Read(b, 32, 4), b[32].is = "Y")
               [] type = "X" -> CancelEvent(meta, Read(b, 11, 8), Read(b, 19, 4))
               [] type = "D" -> DeleteEvent(meta, Read(b, 11, 8))
               [] type = "U" ->
                    ReplaceEvent(meta, Read(b, 11, 8), Read(b, 19, 8), Read(b, 27, 4),
                                 Read(b, 31, 4))

-----------------------------------------------------------------------------
(* The messages: what the wire may carry, and what main.cpp builds for     *)
(* demo and make-sample-capture.                                           *)

\* A message of that type and length.  Of its other bytes two matter: the one
\* that is a side in some types, and the one that is a flag in another.
Wire(type, length, side, flag) ==
    [i \in 1..length |->
        Byte("wire", i - 1, CASE i = 1 -> type
                              [] i = 20 -> side
                              [] i = 32 -> flag
                              [] OTHER -> "any")]

MessageTypes == {Itch50.messages[i].type.text : i \in DOMAIN Itch50.messages}

WireMessages ==
    {Wire(type, length, side, flag) :
        type \in MessageTypes \cup {"Z"}, length \in 0..MaxLength,
        side \in {"B", "S", "any"}, flag \in {"Y", "any"}}

\* put_u16 to put_u64 and put_ascii: width bytes at offset, the first one first.
Put(b, offset, width, of) ==
    [i \in DOMAIN b |-> IF i \in (offset + 1)..(offset + width)
                        THEN Byte(of, i - offset, "any") ELSE b[i]]

PutChar(b, offset, of, is) == [b EXCEPT ![offset + 1] = Byte(of, 1, is)]

Zeros(size) == [i \in 1..size |-> Byte("zero", 1, "any")]

MetaPut(b) == Put(Put(Put(b, 1, 2, "locate"), 3, 2, "tracking"), 5, 6, "timestamp")

\* Broken on purpose: the quantity one byte too far.
AddMsgShifted(side) ==
    LET b == Put(MetaPut(PutChar(Zeros(36), 0, "type", "A")), 11, 8, "id")
    IN  Put(Put(Put(PutChar(b, 19, "side", side), 21, 4, "qty"), 24, 8, "symbol"),
            32, 4, "price")

AddMsg(side) ==
    LET b == Put(MetaPut(PutChar(Zeros(36), 0, "type", "A")), 11, 8, "id")
    IN  Put(Put(Put(PutChar(b, 19, "side", side), 20, 4, "qty"), 24, 8, "symbol"),
            32, 4, "price")

CancelMsg ==
    Put(Put(MetaPut(PutChar(Zeros(23), 0, "type", "X")), 11, 8, "id"), 19, 4, "qty")

SampleMessages == {AddMsg("B"), CancelMsg}

-----------------------------------------------------------------------------
Init ==
    /\ CompilerInit
    /\ input = <<>>
    /\ decoded = Pending
    /\ reference = Pending

Compile == Parse /\ UNCHANGED <<input, decoded, reference>>

Decode(bytes) ==
    /\ pc = "generated"
    /\ protocolName = Itch50.name
    /\ decoded = Pending
    /\ input' = bytes
    /\ decoded' = DecodeBookEvent(bytes)
    /\ reference' = ReferenceDecode(bytes)
    /\ UNCHANGED parser

\* The compiler has ended, or the message is decoded.
Done == pc \in {"generated", "rejected", "unwritable"} /\ UNCHANGED vars

Next == Compile \/ (\E b \in WireMessages \cup SampleMessages : Decode(b)) \/ Done

Spec == Init /\ [][Next]_vars

-----------------------------------------------------------------------------
(* Properties.                                                             *)

\* On the messages that change the book the two decoders are one: at every
\* length, right or wrong, and for every side they throw together or return
\* the same event, each field from the same bytes.  Of the other messages
\* neither makes an event.
DecodersAgree ==
    decoded # Pending =>
        IF input # <<>> /\ TypeOf(input) \in DOMAIN ExactSize
        THEN decoded = reference
        ELSE decoded.outcome # "event" /\ reference.outcome # "event"

\* tests/test_itch.cpp:41, the sizes of the ITCH 5.0 messages.
Itch50Size ==
    [S |-> 12, R |-> 39, H |-> 25, Y |-> 20, L |-> 26, V |-> 35, W |-> 12, K |-> 28,
     J |-> 35, h |-> 21, A |-> 36, F |-> 40, E |-> 31, C |-> 36, X |-> 23, D |-> 19,
     U |-> 35, P |-> 44, Q |-> 40, B |-> 19, I |-> 50, N |-> 20, O |-> 48]

\* docs/ARCHITECTURE.md, "Unknown or malformed ITCH messages do not mutate the
\* book": ItchDecoder throws unless the type is one of the schema and the
\* length exactly the one ITCH gives it, and then throws for a bad side only.
RefusesMalformed ==
    decoded # Pending =>
        LET wellFormed == /\ input # <<>>
                          /\ TypeOf(input) \in DOMAIN Itch50Size
                          /\ Len(input) = Itch50Size[TypeOf(input)]
        IN  IF ~wellFormed THEN decoded = Threw
            ELSE decoded = Threw <=> /\ TypeOf(input) \in {"A", "F"}
                                     /\ input[20].is \notin {"B", "S"}

\* The field of the sample that was put in under that name.
Whole(of, width) == [i \in 1..width |-> Byte(of, i, "any")]

\* The messages demo and make-sample-capture build by hand (main.cpp:37, :41)
\* come out of the decoder as the fields that were put in.
SampleDecodes ==
    LET meta == <<Whole("locate", 2), Whole("tracking", 2), Whole("timestamp", 6)>>
    IN  /\ decoded # Pending /\ input = AddMsg("B") =>
               decoded = AddEvent(meta, Whole("id", 8), Whole("symbol", 8),
                                  <<Byte("side", 1, "B")>>, Whole("qty", 4), Whole("price", 4))
        /\ decoded # Pending /\ input = CancelMsg =>
               decoded = CancelEvent(meta, Whole("id", 8), Whole("qty", 4))
=============================================================================
