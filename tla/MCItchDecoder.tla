---- MODULE MCItchDecoder ----
EXTENDS ItchDecoder

Field(name, type, width) == [name |-> name, type |-> type, width |-> width]
Decl(name, type, fields) == [name |-> name, type |-> type, fields |-> fields]
Type(text, length) == [text |-> text, length |-> length]

\* Widths at both ends of what std::stoul takes, and one that makes the size
\* of the message wrap around.
MCFields == {Field(n, t, 0) : n \in {"f", "g"}, t \in {"u8", "u48_be", "nope"}}
            \cup {Field(n, "ascii", w) : n \in {"f", "g"}, w \in {0, 3, Word - 1, Word}}

MCTypes == {Type("A", 1), Type("B", 1), Type("", 0), Type("AB", 2)}

Empty == <<>>
OneByte == <<Field("f", "u8", 0)>>

\* One message with up to two fields, and two messages that may clash.
MCSchemas ==
    {[name |-> "p", messages |-> <<Decl("m", t, fs)>>] :
        t \in MCTypes, fs \in UNION {[1..n -> MCFields] : n \in 0..2}}
    \cup
    {[name |-> "p", messages |-> <<Decl(n1, t1, f1), Decl(n2, t2, f2)>>] :
        n1 \in {"m"}, n2 \in {"m", "n"}, t1 \in MCTypes, t2 \in MCTypes,
        f1 \in {Empty, OneByte}, f2 \in {Empty, OneByte}}
    \cup {[name |-> "p", messages |-> <<>>], Itch50}

\* Schemas with one token put in, left out or put in place of another, and
\* schemas cut short.
Edited(s) ==
    LET known == (ToSet(s) \ {Mark("End")})
                 \cup {Mark("Invalid"), Token("Number", "", 2), Ident("x")}
    IN  {Append(SubSeq(s, 1, i), Mark("End")) : i \in 0..(Len(s) - 1)}
        \cup {RemoveAt(s, i) : i \in 1..(Len(s) - 1)}
        \cup {ReplaceAt(s, i, t) : i \in 1..(Len(s) - 1), t \in known}
        \cup {InsertAt(s, i, t) : i \in 1..Len(s), t \in known}

MCBase == Render("p", <<Decl("m", Type("A", 1), <<Field("f", "ascii", 3), Field("g", "u8", 0)>>),
                        Decl("n", Type("B", 1), <<>>)>>)

MCSources == {Render(s.name, s.messages) : s \in MCSchemas} \cup Edited(MCBase)
====
