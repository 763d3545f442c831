-------------------------- MODULE ProtocolCompiler --------------------------
(***************************************************************************)
(* efe_protocolc (tools/protocolc/main.cpp): the parser that turns a       *)
(* schema into message layouts, and the views the header declares for      *)
(* them.  One step per call of expect(); pc says which token it is for.    *)
(*                                                                         *)
(* A schema is the sequence of its tokens.  Where Lexer::next() throws,    *)
(* the sequence has an "Invalid" token.  The value of a Number token is    *)
(* its number, that of a String token its length.                          *)
(***************************************************************************)
EXTENDS Integers, Sequences, SequencesExt, FiniteSets

CONSTANTS
    Word,     \* numeric_limits<std::size_t>::max() + 1
    Schemas,  \* bound: schemas as a writer means them, see Render
    Sources   \* bound: the token sequences the compiler is run on

ASSUME CompilerAssumption == Word \in Nat /\ Word > 8

VARIABLES
    tokens,        \* the input
    at,            \* current_ is tokens[at]
    pc,            \* what the parser expects next, or how it has ended
    protocolName,  \* p.name
    messages,      \* p.messages
    message,       \* m, the message being parsed
    field          \* f, the field being parsed

parser == <<tokens, at, pc, protocolName, messages, message, field>>

Token(kind, text, value) == [kind |-> kind, text |-> text, value |-> value]

\* Field{} and Message{}: the type byte is implicit.
NoField == [name |-> "", type |-> "", width |-> 0, offset |-> 0]
NoMessage == [name |-> "", type |-> "", fields |-> <<>>, size |-> 1]

\* type_width.
TypeWidth ==
    [u8 |-> 1, char |-> 1, u16_be |-> 2, u32_be |-> 4, price4 |-> 4,
     u48_be |-> 6, u64_be |-> 8, price8 |-> 8]

Supported == DOMAIN TypeWidth

CompilerInit ==
    /\ tokens \in Sources
    /\ at = 1
    /\ pc = IF Head(tokens).kind = "Invalid" THEN "rejected" ELSE "protocol"
    /\ protocolName = ""
    /\ messages = <<>>
    /\ message = NoMessage
    /\ field = NoField

-----------------------------------------------------------------------------
(* Parser::parse.                                                          *)

Current == tokens[at]

\* expect(kind), and the test ok of what it returns: fail() ends the program.
\* expect() has lexed the token after it by then.
Expect(from, kind, ok, next) ==
    /\ pc = from
    /\ IF Current.kind = kind /\ tokens[at + 1].kind # "Invalid" /\ ok
       THEN pc' = next /\ at' = at + 1
       ELSE pc' = "rejected" /\ at' = at
    /\ UNCHANGED tokens

ProtocolKeyword ==
    /\ Expect("protocol", "Ident", Current.text = "protocol", "protocol name")
    /\ UNCHANGED <<protocolName, messages, message, field>>

ProtocolName ==
    /\ Expect("protocol name", "Ident", TRUE, "protocol end")
    /\ protocolName' = Current.text
    /\ UNCHANGED <<messages, message, field>>

ProtocolEnd ==
    /\ Expect("protocol end", "Semicolon", TRUE, "messages")
    /\ UNCHANGED <<protocolName, messages, message, field>>

MessageKeyword ==
    /\ Current.kind # "End"
    /\ Expect("messages", "Ident", Current.text = "message", "message name")
    /\ UNCHANGED <<protocolName, messages, message, field>>

MessageName ==
    /\ Expect("message name", "Ident", TRUE, "message type")
    /\ message' = [NoMessage EXCEPT !.name = Current.text]
    /\ UNCHANGED <<protocolName, messages, field>>

Types == {messages[i].type : i \in DOMAIN messages}
Names == {messages[i].name : i \in DOMAIN messages}
FieldNames == {message.fields[i].name : i \in DOMAIN message.fields}

\* Broken on purpose: message names are not looked at.
FreshMessageByType == Current.text \notin Types

\* The insertions into message_types and message_names.
FreshMessage == Current.text \notin Types /\ message.name \notin Names

MessageType ==
    /\ Expect("message type", "String", Current.value = 1 /\ FreshMessage, "message open")
    /\ message' = [message EXCEPT !.type = Current.text]
    /\ UNCHANGED <<protocolName, messages, field>>

MessageOpen ==
    /\ Expect("message open", "LBrace", TRUE, "fields")
    /\ UNCHANGED <<protocolName, messages, message, field>>

MessageClose ==
    /\ Current.kind = "RBrace"
    /\ Expect("fields", "RBrace", TRUE, "messages")
    /\ messages' = Append(messages, message)
    /\ message' = NoMessage
    /\ UNCHANGED <<protocolName, field>>

FieldName ==
    /\ Current.kind # "RBrace"
    /\ Expect("fields", "Ident", Current.text \notin FieldNames, "field colon")
    /\ field' = [NoField EXCEPT !.name = Current.text]
    /\ UNCHANGED <<protocolName, messages, message>>

FieldColon ==
    /\ Expect("field colon", "Colon", TRUE, "field type")
    /\ UNCHANGED <<protocolName, messages, message, field>>

FieldType ==
    /\ Expect("field type", "Ident", Current.text \in Supported \cup {"ascii"},
              IF Current.text = "ascii" THEN "width open" ELSE "field end")
    /\ field' = [field EXCEPT !.type = Current.text,
                              !.width = IF Current.text \in Supported
                                        THEN TypeWidth[Current.text] ELSE 0]
    /\ UNCHANGED <<protocolName, messages, message>>

WidthOpen ==
    /\ Expect("width open", "LBracket", TRUE, "width")
    /\ UNCHANGED <<protocolName, messages, message, field>>

\* std::stoul throws when the number does not fit.
Width ==
    /\ Expect("width", "Number", Current.value < Word, "width close")
    /\ field' = [field EXCEPT !.width = Current.value]
    /\ UNCHANGED <<protocolName, messages, message>>

WidthClose ==
    /\ Expect("width close", "RBracket", field.width # 0, "field end")
    /\ UNCHANGED <<protocolName, messages, message, field>>

\* Broken on purpose: the offset of the end of the field.
PlaceBehind(m, f) ==
    [m EXCEPT !.size = (m.size + f.width) % Word,
              !.fields = Append(@, [f EXCEPT !.offset = (m.size + f.width) % Word])]

\* The field goes behind those before it; std::size_t wraps around.
Place(m, f) ==
    [m EXCEPT !.size = (m.size + f.width) % Word,
              !.fields = Append(@, [f EXCEPT !.offset = m.size])]

FieldEnd ==
    /\ Expect("field end", "Semicolon", TRUE, "fields")
    /\ message' = Place(message, field)
    /\ field' = NoField
    /\ UNCHANGED <<protocolName, messages>>

\* The end of parse(), and emit(): the header, unless it cannot be written.
Emit ==
    /\ pc = "messages"
    /\ Current.kind = "End"
    /\ pc' \in {"generated", "unwritable"}
    /\ UNCHANGED <<tokens, at, protocolName, messages, message, field>>

Parse ==
    \/ ProtocolKeyword \/ ProtocolName \/ ProtocolEnd
    \/ MessageKeyword \/ MessageName \/ MessageType \/ MessageOpen \/ MessageClose
    \/ FieldName \/ FieldColon \/ FieldType \/ WidthOpen \/ Width \/ WidthClose
    \/ FieldEnd \/ Emit

-----------------------------------------------------------------------------
(* What a schema means.                                                    *)

Ident(text) == Token("Ident", text, 0)
Mark(kind) == Token(kind, "", 0)

RenderField(f) ==
    <<Ident(f.name), Mark("Colon"), Ident(f.type)>>
    \o (IF f.type = "ascii"
        THEN <<Mark("LBracket"), Token("Number", "", f.width), Mark("RBracket")>>
        ELSE <<>>)
    \o <<Mark("Semicolon")>>

RenderMessage(m) ==
    <<Ident("message"), Ident(m.name), Token("String", m.type.text, m.type.length),
      Mark("LBrace")>>
    \o FlattenSeq([i \in DOMAIN m.fields |-> RenderField(m.fields[i])])
    \o <<Mark("RBrace")>>

\* The tokens that declare the messages ms.
Render(name, ms) ==
    <<Ident("protocol"), Ident(name), Mark("Semicolon")>>
    \o FlattenSeq([i \in DOMAIN ms |-> RenderMessage(ms[i])])
    \o <<Mark("End")>>

Distinct(s) == Cardinality(ToSet(s)) = Len(s)

ValidField(f) ==
    IF f.type = "ascii" THEN f.width \in 1..(Word - 1) ELSE f.type \in Supported

\* The rules for declarations, docs/protocol-compiler.md:9.
Declarable(ms) ==
    /\ Distinct([i \in DOMAIN ms |-> ms[i].name])
    /\ Distinct([i \in DOMAIN ms |-> ms[i].type.text])
    /\ \A i \in DOMAIN ms :
           /\ ms[i].type.length = 1
           /\ Distinct([j \in DOMAIN ms[i].fields |-> ms[i].fields[j].name])
           /\ \A j \in DOMAIN ms[i].fields : ValidField(ms[i].fields[j])

\* The declarations that the parser has understood.
Declared ==
    [i \in DOMAIN messages |->
        [name |-> messages[i].name,
         type |-> [text |-> messages[i].type, length |-> 1],
         fields |-> messages[i].fields]]

WidthOf(f) == IF f.type = "ascii" THEN f.width ELSE TypeWidth[f.type]

\* The size of the message is a std::size_t.
Fits(m) ==
    1 + FoldLeft(LAMBDA sum, f : sum + WidthOf(f), 0, m.fields) < Word

\* docs/protocol-compiler.md:46 adds that layouts must be valid.
Valid(ms) == Declarable(ms) /\ \A i \in DOMAIN ms : Fits(ms[i])

ValidSources == {Render(s.name, s.messages) : s \in {s \in Schemas : Valid(s.messages)}}

\* Every byte behind the type byte belongs to exactly one field, and no field
\* reaches outside.
Tiled(m) ==
    /\ \A f \in ToSet(m.fields) : f.offset + f.width <= m.size
    /\ \A b \in 1..(m.size - 1) :
           Cardinality({f \in ToSet(m.fields) :
                            b \in f.offset..(f.offset + f.width - 1)}) = 1

-----------------------------------------------------------------------------
(* Properties.                                                             *)

\* The compiler refuses no valid schema, and it generates a header for a
\* sequence of tokens only if it declares, from its first token to its last,
\* messages that docs/protocol-compiler.md:9 allows; what it has understood is
\* what the schema says.  Nothing is claimed of a schema that obeys these rules
\* but has a message too large for std::size_t: see RejectsInvalidLayouts.
CompilesWhatIsDeclared ==
    /\ pc = "generated" => Declarable(Declared) /\ tokens = Render(protocolName, Declared)
    /\ pc = "rejected" => tokens \notin ValidSources

\* The layout of a message that fits is sound: a view whose constructor has
\* accepted a span of encoded_size bytes has no accessor that throws or that
\* reads a byte of another field.
LayoutSound ==
    pc = "generated" => \A m \in ToSet(messages) : Fits(m) => Tiled(m)

\* What docs/protocol-compiler.md:46 says: "Compilation rejects [...] invalid
\* layouts."  The running offset of main.cpp:142 wraps around untested.
RejectsInvalidLayouts == pc = "generated" => \A m \in ToSet(messages) : Tiled(m)
=============================================================================
