# TLA+ verification of market-wire

market-wire receives a Nasdaq-style market data feed over UDP multicast
(MoldUDP64 framing), puts the messages back into sequence, asks for the ones
that are missing, decodes them (ITCH 5.0) and keeps limit order books up to
date.  This directory holds TLA+ modules translated from its C++ sources, TLC
configurations that check them on small instances, and proofs checked by TLAPS.
`PROJECT.json` relates every definition to source lines, and lists the runs, the
mutations that show each property can fail, the hazards and the theorems.

    tlc -config MCRecovery.cfg MCRecovery      # model-check one run
    tlapm RecoveryProofs.tla                   # check the proofs of one module

## 1. The system

| part | source | state | operations | talks to |
|---|---|---|---|---|
| UDP receiver | `src/udp_receiver.cpp` | socket, wake pipe, `stop_requested_` | `receive`, `request_stop`, `send_unicast` | kernel; other threads stop it |
| MoldUDP64 framing | `src/moldudp64.cpp` | none | `parse_downstream`, `encode_request` | receiver, recovery |
| gap recovery | `src/recovery_engine.cpp` | `expected_`, `pending_`, `session_`, `last_requested_*` | `ingest` (`drain`, `maybe_request`) | packets in, messages and requests out |
| ITCH decoder | `src/itch_decoder.cpp`, generated code | none | `decode_book_event`, of the generated and of the reference decoder | recovery, book |
| order book | `src/order_book.cpp` | slots, free list, index, levels of each symbol | `add`, `execute`, `cancel`, `erase`, `replace`, queries, `state_hash` | index |
| order index | `include/efe/flat_order_index.hpp` | `entries_`, `size_` | `find`, `insert`, `erase` | book |
| listen loop | `src/main.cpp` | none of its own | one iteration: receive, capture, parse, ingest, send request, apply, end at end of session | everything above |
| capture, replay | `src/capture.cpp`, `src/replay.cpp`, `replay` of `src/main.cpp` | a file; an engine and a book of its own | `write`, `next`, `run` | listen, recovery, book |
| protocol compiler | `tools/protocolc/main.cpp`, `schemas/itch50.efe` | a parse | layouts of messages | decoder |
| metrics | `src/metrics.cpp` | counters | formatting | benchmark |

There is one processing thread.  Concurrency exists in two places: between that
thread and those that call `request_stop`, and between the program and the
exchange, the network and the rerequest server.  What is hard to get right, part
by part (the full list, with lines, is `hazards` in `PROJECT.json`):

* recovery: loss, repetition and reordering; the memory of the last request,
  which must neither suppress a request that is needed nor repeat one; the limit
  of a request (0xFFFE) and of a sequence number; end of session with a hole open;
* order book: slots and index entries through failures half way; links and
  totals through every kind of removal and requeueing; the limit of a quantity;
* index: tombstones on probe paths, in front of keys and everywhere;
* receiver: a stop that arrives between any two steps of `receive`;
* framing: lengths and counts from the wire that do not fit the datagram;
* capture: a crash that leaves part of a record; a datagram that is captured and
  then fails to be processed, part way;
* protocol compiler and decoders: declarations that repeat or break off, offsets
  computed in one place and written by hand in another, lengths off by one.

## 2. The modules

Each definition that models code keeps the name of the code where TLA+ allows.
An operator whose comment says *broken on purpose* is not used by the
specification: it is the mutation named in `PROJECT.json` under `mutants`.

**RecoveryEngine** models `ingest` as the steps of one thread (`pc`): adopting or
rejecting the session, the early return for heartbeats and end of session, one
step per message of the packet (`SkipStale`, `BufferFuture`, `ReleaseExpected`),
one per iteration of `drain` (`DrainOne`, `EndDrain`), and `Return` with its
request.  Between calls any packet of any session may be the next one, which is
what an unreliable network amounts to.  Three history variables record what was
released, looked at and asked for.  A `DecodeError` leads to `pc = "failed"`,
since `main` ends the program.  Double erasure in `drain` at the last sequence
number is undefined behaviour: afterwards the outcome is either the exception or
`"undefined"`.  A packet is a range of sequence numbers; `Feed` gives each number
its payload, and `pending_` really stores payloads.
**ContiguousDelivery** is what the engine promises: the feed from
`first_expected` on, each Result appending a contiguous run of it.

**FeedListener** extends RecoveryEngine with the loop of `listen`, the exchange,
the multicast, the rerequest server and the end of the session, which the exchange
may or may not send.  A data packet, once sent, may be delivered at any time,
repeatedly or never.  The server answers a request with one packet that may hold
fewer messages than asked for.

**OrderBook** models the arena book.  Its members are one record; each private
helper is an operator from record to record, and `add`, `execute`, `cancel`,
`erase` and `replace` compose them in the order of the code, early returns and
rollbacks included; `AddThrows` and `ReplaceThrows` are the paths taken when a
map node cannot be allocated.  An event is received in one step and applied in
the next, so that the specification can speak of the event that was applied.
**BookEvents** holds orders and events.  **PriceTimeBook** is the book without
arena, links, cached totals and hash table: a set of orders and a queue of ids
per level.  It says which events must be refused and how queues change.
`StateHash` is the sequence of values that `state_hash` mixes; the mixing of two
64-bit words is left out, so a collision of the hash itself is outside the model.

**FlatOrderIndex** models the open-addressing table.  The hash is any function
from keys to positions, chosen in the initial state.  A probing loop is the
choice of the first position, in probe order, at which it stops.  **BoundedMap**
is the map it implements.  OrderBook uses the index as such a map.

**UdpReceiver** models the life of the receiver: the constructor, in which each
system call may fail and the handler closes the socket; `receive` with a step per
test and system call; any number of threads in `request_stop` (the atomic
exchange, then the write to the pipe); interruptions and failures of `poll`;
`send_unicast`; the loop of `listen` around them, and the destructor, which the
owner calls when no thread is inside `request_stop`.  The flag is read and written
with relaxed ordering; the model gives it sequential consistency, since the
pipe's write and poll order it on the platforms the code is built for.

**MoldFraming** models `parse_downstream` with a step per test and per block, on
every datagram of a bounded size.  A byte has few values and a length is still two
of them, so that lengths that reach beyond the datagram, need the high byte, or
stop short of its end all occur.  `WellFormed` says what a packet is without
parsing: its body is the concatenation of so many blocks, as `mold_packet` of
`main.cpp` makes them.

**CaptureReplay** models `CaptureWriter` with a step per field, a crash that
leaves any prefix of the file, `CaptureReader::next` with a step per read, and the
loop of `ReplayEngine::run` with the errors of its modes.  A file is a sequence of
cells, two for each field, so that it can end inside a field.

**LiveReplay** puts the two programs around that file.  `listen` captures a
datagram and then processes it: parse, ingest, send the request if there is one,
apply what was released, stop at the end of the session; `replay` does the same
with what it reads, without sending, without stopping, and with a smaller book.
Both end at the first exception: a malformed, empty or foreign datagram, a message
that cannot be decoded half way through those released, and, in `listen`, a send
that fails before anything is applied.  One datagram is one step; ingest is that of
RecoveryEngine in closed form, and the book is the set of its live orders, which
is what its capacity depends on.

**ProtocolCompiler** models the parser of `efe_protocolc` over sequences of
tokens, a step per call of `expect`, with the tests of names, types and widths and
the layout it accumulates in a `std::size_t` that wraps.  `Render` and `Valid` say
independently which token sequences are schemas: `Declarable` has the rules for
declarations, `Valid` also asks that every message fits a `std::size_t`.  **ItchSchema** is
`schemas/itch50.efe` as data.  **ItchDecoder** runs the compiler on it and decodes
messages through the sizes, offsets and widths that come out; next to it stands
the reference decoder with its own offsets.  A byte knows where it comes from, so
two events are equal only if every field was read from the same bytes.

`MC*.tla` give constants and symmetry sets their values.

## 3. The runs

| run | instance | states | what it shows |
|---|---|---|---|
| `recovery` | sequences 0..5, packets of up to 3 messages, requests of up to 2, two sessions | 144 k | `TypeOK`, `NothingHeldBack`, `NothingLost`, `HoleRequested`, `RequestsEncodable`, `NoRepeatedRequest`, `IngestTerminates`, and the refinement `ImplementsDelivery` |
| `recovery_overflow` | the same | violated | finding 1 |
| `recovery_partial` | the same | violated | finding 2 |
| `listener` | a session of 3 messages, requests of up to 2 | 282 k | `AsksForThePast`, `EndsKnowingly`, `CatchesUp` |
| `listener_hash` | the same | violated | finding 3 |
| `book` | 3 slots, 4 ids and id 0, 2 symbols, 2 prices, quantities up to 3; three orders only on one side of one symbol | 411 k | `ArenaPartitioned`, `TopOfBook`, `QueuesSound`, `TotalsExact`, `FailureChangesNothing`, `HashFollowsBook`, refinement of PriceTimeBook |
| `index` | 4 entries, 4 keys, 2 values, every hash function | 265 k | `PathsUnbroken`, `KeysUnique`, `SizeExact`, refinement of BoundedMap (`ImplementsMap`) |
| `receiver` | 2 stopping threads, 4 datagrams, a socket that buffers 2 | 3 k | `WakeIsNoDatagram`, `NeverBlocksInRecv`, `DescriptorsOwned`, `StopEndsLoop` |
| `framing` | every body of up to 7 bytes of 3 values, every count up to 4, first numbers 0 and at the end of the range | 312 k | `AcceptsExactlyPackets`, `RoundTrip` |
| `capture` | 3 records out of 9 datagrams of up to 3 bytes, of which 2 are allowed, 2 clock values, books of 3 and of 2 orders | 865 k | `ReplaysTheCapture`, `TornRecordOnly`, `ClosedCaptureReplays`, `ReplayFollowsLive` |
| `codec` | 2001 token sequences, 24 message types and every length up to 51 | 31 k | `CompilesWhatIsDeclared`, `LayoutSound`, `DecodersAgree`, `RefusesMalformed`, `SampleDecodes` |
| `codec_layout` | the same | violated | finding 4 |

Why the bounds are enough to meet the interesting cases:

* `recovery`: with sequence numbers 1..5 there is room for two holes at once, for
  a buffered run behind each, for a hole larger than one request (2), and for the
  last sequence number to be reached directly and by draining.  Two sessions
  suffice for a change of session.
* `listener`: three messages allow a hole before, between and after delivered
  messages, a partial answer, and a hole larger than a request.
* `book`: the arena is full after three adds, and a fourth id is left to be
  refused or to replace one of the three; slots are reused in every order.  Three
  orders in a queue make a removal from the middle happen, and exceed the limit of
  3 shares.  Two symbols and two prices make levels and books appear and vanish
  independently.  `MCBound` stops at a third order unless all three are on one
  side of one symbol, where they share a queue or a list of levels; such states
  are checked, and not left.
* `index`: capacity 4 admits 3 keys (the load test `3*10 >= 4*7` refuses the
  fourth), with every pattern of collisions and, after enough erasures, no empty
  entry left.  The real capacity is a power of two of at least 16; no argument
  depends on that, and the proofs hold for every capacity.
* `framing`: seven bytes hold three blocks with one byte of payload, or one block
  whose length needs its high byte.  The count 4 stands for 0xFFFF, and the first
  numbers 3, 4 and 5 of a largest 5 are on both sides of the overflow test.
* `capture`: three records give a torn first, middle and last one; sizes 0, the
  largest, and one more occur, and equal as well as increasing timestamps.  The
  session has four messages, the last of them undecodable, so that listen fails
  after applying part of what a datagram released; the datagrams overlap, leave
  holes, belong to another session, end the session or are malformed, and three
  orders fit listen's book but not replay's.
* `codec`: the schemas have up to two messages of up to two fields, enough for
  every clash of names and types; widths are 0, 3, and the largest a word of 64
  values holds and one more, so that the layout wraps; every token of a valid
  schema is also left out, replaced, preceded by another, and made the last one.
  The longest message has 50 bytes, so 51 is one more than any length that is right.

Order ids and values are symmetric in the safety runs; runs with liveness
properties use no symmetry.

### Fairness

* RecoveryEngine: weak fairness of the steps of a call.  A call that has begun is
  executed to its end; nobody has to make another one.
* FeedListener: the loop goes on, the exchange sends the whole session, and the
  server answers.  Of the network: of the heartbeats, which are sent over and
  over, some are received (strong fairness, because the loop is not always
  waiting), and an answer that is on its way is received.  Nothing is assumed of
  multicast data packets, not even that one of them arrives.  The code has no
  timer and never repeats a request, so `CatchesUp` does not hold if answers may
  be lost.
* UdpReceiver: both threads are scheduled, and signals do not interrupt every
  single `poll` (strong fairness of `poll`'s return).

## 4. Findings

1. `recovery_overflow`: `drain` erases the same iterator twice at the largest
   sequence number (`src/recovery_engine.cpp:26`, `:28`), undefined behaviour
   where `docs/recovery.md:38` promises that overflow is rejected.
2. `recovery_partial`: when a heartbeat or an end-of-session packet revealed a hole
   (`src/recovery_engine.cpp:43`) and nothing is buffered, a partial
   retransmission triggers no new request (`src/recovery_engine.cpp:64`), contrary to `docs/recovery.md:5`.  `CatchesUp` shows that the next heartbeat
   repairs it.
3. `listener_hash`: `listen` ends at the first end-of-session packet with messages
   still missing (`src/main.cpp:144`) and prints the hash of that book, contrary
   to `docs/ARCHITECTURE.md:46`.  `EndsKnowingly` shows that `ingest`
   has at least returned a request for the missing messages.
4. `codec_layout`: `efe_protocolc` adds up the size of a message without a test
   (`tools/protocolc/main.cpp:142`); a message too large for `std::size_t` gets a
   header with a size that has wrapped around, although
   `docs/protocol-compiler.md:46` lists invalid layouts among what is rejected.
   `CompilesWhatIsDeclared` therefore claims nothing of such schemas, and
   `LayoutSound` speaks of the messages that fit.

## 5. The proofs

`RecoveryProofs` proves, for every first sequence number greater than 0, every
largest sequence number, request limit, packet size, set of sessions and feed
(`RecoveryAssumption`), all safety properties of the `recovery` run:
`TypeCorrect`, `NothingIsHeldBack`, `NothingIsLost`, `HoleIsRequested`,
`RequestsAreEncodable`, `NoRequestIsRepeated` and the refinement
`DeliversTheFeed`.

None of the properties is inductive.  They follow from `IInv`, whose conjuncts
say, at every step of a call and not only when it has returned:

* `IReleased`: what was released is the feed from `FirstExpected` on, and what the
  Result under construction holds continues it up to `expected - 1`;
* `IResult`: the Result under construction has no request yet;
* `IPending`: buffered messages carry the payload of their number, and lie beyond
  `expected`, except that inside `drain` the next one may be `expected` itself;
* `IReceived`: every message looked at is before `expected` or buffered;
* `IRequested`: requests are encodable, start at or before `expected`, and one
  that starts at `expected` is the one `last_requested_*` remembers, which is
  what makes the memory of a single request enough to avoid repetition;
* `IHole`: when `ingest` has returned, the hole in front of the buffer is requested.

`Invariance` is proved by one lemma per action.  The first buffered message
exists by the least-element principle for sets of natural numbers
(`LeastElement` of `NaturalLemmas`, from the well-foundedness of `<`); that consecutive batches of
the feed concatenate to a batch is `BatchAppend` and `BatchConcat`.

`ListenerProofs` carries this over to the loop of `listen` in its environment, for
a session of any length, packets and requests of any size, and any loss,
duplication and reordering: `ListenerAsksForThePast`, `ListenerEndsKnowingly` and,
again, contiguous delivery (`ListenerDeliversTheFeed`).  The invariant `LInv` adds
to `IInv` that packets under way, answers, buffered messages and requests speak
only of messages the exchange has published (`IPublished`, `IAsked`), which makes
the first property inductive, and that the loop is left between two calls of
`ingest` with the request for what it misses already recorded (`IEnd`).

`IndexProofs` proves, for every capacity, every set of keys and of values and
every hash function (`IndexAssumption`), all properties of the run
`index`: `IndexTypeCorrect`, `PathsStayUnbroken`, `KeysStayUnique`,
`SizeStaysExact` and the refinement `TableIsMap`.  The properties depend on each
other: `insert` keeps keys unique only because probing finds a key that is there,
which is what unbroken paths are for, and `size_` stays a natural number under
`erase` only because it counts the occupied entries.  So `IInv` is their
conjunction, together with `Keyed` (an occupied entry holds a key and a value).
The argument:

* the distance from a key's home is injective on positions, and `First` has the
  least one (`DistanceInjective`, `FirstIsFirst`);
* hence a probing loop ends at the entry that holds the key if there is one
  (`ProbeIsHolding`), and `insert` chooses an entry that is not occupied and lies
  before every other empty one (`TargetIsReachable`);
* `InsertInv` and `EraseInv` show that both keep `IInv`;
* the keys that are held correspond one to one to the occupied entries
  (`HeldCount`), so `size_` is the size of the map and the load test is a limit on
  it (`RoomIsLimit`); every call is then a call of the map with the same answer
  (`StepIsMapStep`).  A call of `insert` that finds no place at all is one that
  the load test has refused already (`NoTargetNoRoom`).

`ReceiverProofs` proves, for every set of stopping threads, every size of the
socket's buffer and any number of datagrams (`ReceiverAssumption`), the safety
properties of the run `receiver`: `ReceiverTypeCorrect` (with the one byte in the
pipe), `WakeIsNeverADatagram`, `RecvNeverBlocks` and `DescriptorsAreOwned`.  The
inductive invariant adds what makes them hold between the steps of two threads:
`IStop` (before the flag is up no thread has got anywhere; one thread at most is
about to write, and then the pipe is empty), `IPolled` (what `poll` reported still
holds when `receive` acts on it, because nobody else takes datagrams and nobody
reads the pipe) and `INothing` (`receive` comes back without a datagram only when
the flag is up).

Only model-checked: termination of `ingest`, `CatchesUp` and `StopEndsLoop`
(liveness is out of the prover's reach), and everything about the book,
framing, capture and the codec.

## 6. Not modelled

* `metrics.cpp`: percentiles for the benchmark, nothing the feed depends on.
* Option parsing and output of `main.cpp`: tests of single arguments, and text.
* The characters the lexer of the protocol compiler reads, and the C++ text it
  emits: a schema is its tokens, a view is its size, offsets and widths.  Two
  things that can go wrong there are outside the model: a message type that is an
  apostrophe or a backslash, and a name that is a C++ keyword.
* The arithmetic of the state hash, and the hash function of the index (any
  function is allowed).
* The bound in the comment at `include/efe/flat_order_index.hpp:36`, "keep <=70%
  load": the test comes before the insertion, and a table of 16 takes a twelfth
  key.  No property claims the 70%; the limit of the bounded map in
  `ImplementsMap` is the one the code has, and OrderBook, whose index is at least
  twice as large as its arena, does not reach it.
* A book of more orders than replay's has room for (`src/main.cpp:79` against
  `:134`): `ReplayFollowsLive` says nothing of the two books then.
* The memory that `pending_` may take, and lost answers of the rerequest server:
  the code sets no limit and has no timer, so there is nothing to check against.

Not proved: the book's invariants and replay after a crash, whose statements need
induction over sequences and chains of links.
