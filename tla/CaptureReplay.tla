--------------------------- MODULE CaptureReplay ---------------------------
(***************************************************************************)
(* The capture that listen writes (src/capture.cpp) and the replay of it   *)
(* (src/replay.cpp), with a crash of the writer anywhere in between.       *)
(*                                                                         *)
(* A file is a sequence of cells.  A field of several bytes is two cells,  *)
(* so that a file can end inside of it; a payload has a cell per byte.     *)
(* CaptureWriter never flushes: of what it wrote, a crash leaves any       *)
(* prefix, and its destructor leaves all.  LiveReplay composes the actions *)
(* below with the programs that call them.                                 *)
(***************************************************************************)
EXTENDS Integers, Sequences, SequencesExt

CONSTANTS
    MaxDatagram,  \* kMaxCaptureDatagramSize
    MaxSize,      \* bound: the size of a datagram receive() returns
    MaxRecords,   \* bound: records written
    MaxClock      \* bound: the clock, in nanoseconds

ASSUME CaptureAssumption ==
    {MaxDatagram, MaxSize, MaxRecords, MaxClock} \subseteq Nat

VARIABLES
    file,      \* the file's cells
    clock,     \* steady_clock since the epoch of listen
    written,   \* history: the records write() accepted
    writer,    \* "opening", "ready", "length", "payload", "closed", "crashed", "threw"
    reader,    \* "waiting", "timestamp", "length", "payload", "done", "threw"
    position,  \* cells read
    current,   \* the CaptureRecord that next() is filling in
    mode,      \* o.mode; Realtime reads as MaxSpeed does
    prev,      \* timestamp of the record before, -1 if there is none
    replayed   \* the records handed to the callback

vars == <<file, clock, written, writer,
          reader, position, current, mode, prev, replayed>>

NoRecord == [ns |-> 0, size |-> 0]

Field(name, value) == <<[of |-> name, part |-> 1, is |-> value],
                        [of |-> name, part |-> 2, is |-> value]>>
Magic == Field("magic", 0)

\* The bytes of the n-th datagram: they differ from those of every other.
Payload(n, size) == [i \in 1..size |-> [of |-> "payload", part |-> i, is |-> n]]

Init ==
    /\ file = <<>>
    /\ clock = 0
    /\ written = <<>>
    /\ writer = "opening"
    /\ reader = "waiting"
    /\ position = 0
    /\ current = NoRecord
    /\ mode \in {"MaxSpeed", "Scaled", "Step"}
    /\ prev = -1
    /\ replayed = <<>>

readerVars == <<reader, position, current, mode, prev, replayed>>
writerVars == <<file, clock, written, writer>>

-----------------------------------------------------------------------------
(* The writer.                                                             *)

Put(cells, next) == /\ file' = file \o cells
                    /\ writer' = next
                    /\ UNCHANGED readerVars

Open == /\ writer = "opening"
        /\ Put(Magic, "ready")
        /\ UNCHANGED <<clock, written>>

Tick == /\ writer = "ready"
        /\ clock < MaxClock
        /\ clock' = clock + 1
        /\ UNCHANGED <<file, written, writer, readerVars>>

TooLarge(size) == size > MaxDatagram

\* write(): refuses a datagram that is too large before it writes anything.
WriteTimestamp(size) ==
    /\ writer = "ready"
    /\ Len(written) < MaxRecords
    /\ \/ /\ TooLarge(size)
          /\ Put(<<>>, "threw")
          /\ UNCHANGED written
       \/ /\ ~TooLarge(size)
          /\ Put(Field("timestamp", clock), "length")
          /\ written' = Append(written, [ns |-> clock, size |-> size])
    /\ UNCHANGED clock

\* Broken on purpose: a narrower integer, that wraps at the largest size.
DeclaredNarrow(size) == size % MaxDatagram

Declared(size) == size

WriteLength ==
    /\ writer = "length"
    /\ Put(Field("length", Declared(Last(written).size)), "payload")
    /\ UNCHANGED <<clock, written>>

WritePayload ==
    /\ writer = "payload"
    /\ Put(Payload(Len(written), Last(written).size), "ready")
    /\ UNCHANGED <<clock, written>>

\* The loop of listen has ended, or an exception unwinds it: the destructor
\* of the stream writes out what it buffers.
Close == /\ writer \in {"ready", "threw"}
         /\ Put(<<>>, "closed")
         /\ UNCHANGED <<clock, written>>

\* The program dies, or the file system has no room for what is written.
Crash == /\ writer \notin {"closed", "crashed"}
         /\ writer' = "crashed"
         /\ \E n \in 0..Len(file) : file' = SubSeq(file, 1, n)
         /\ UNCHANGED <<clock, written, readerVars>>

-----------------------------------------------------------------------------
(* The reader, under ReplayEngine::run.                                    *)

\* in_.read(n) finds its bytes.
Have(n) == position + n <= Len(file)

Take(n, next) == position' = position + n /\ reader' = next

Threw == reader' = "threw" /\ UNCHANGED <<position, current, mode, prev, replayed, writerVars>>

StartReplay ==
    /\ reader = "waiting"
    /\ writer \in {"closed", "crashed"}
    /\ IF Have(2) /\ SubSeq(file, 1, 2) = Magic
       THEN Take(2, "timestamp") /\ UNCHANGED <<current, mode, prev, replayed, writerVars>>
       ELSE Threw

\* next() at the end of the file: the loop ends.
EndOfFile ==
    /\ reader = "timestamp"
    /\ position = Len(file)
    /\ reader' = "done"
    /\ UNCHANGED <<position, current, mode, prev, replayed, writerVars>>

ReadTimestamp ==
    /\ reader = "timestamp"
    /\ position < Len(file)
    /\ IF Have(2)
       THEN /\ Take(2, "length")
            /\ current' = [current EXCEPT !.ns = file[position + 1].is]
            /\ UNCHANGED <<mode, prev, replayed, writerVars>>
       ELSE Threw

\* Broken on purpose: the limit excludes the largest datagram.
TooLongStrict(size) == size >= MaxDatagram

TooLong(size) == size > MaxDatagram

ReadLength ==
    /\ reader = "length"
    /\ IF Have(2) /\ ~TooLong(file[position + 1].is)
       THEN /\ Take(2, "payload")
            /\ current' = [current EXCEPT !.size = file[position + 1].is]
            /\ UNCHANGED <<mode, prev, replayed, writerVars>>
       ELSE Threw

\* Broken on purpose: two records of the same nanosecond are refused.
BackwardsStrict == current.ns <= prev

Backwards == current.ns < prev

\* next() returns, run() looks at the timestamp and calls back.
ReadPayload ==
    /\ reader = "payload"
    /\ IF Have(current.size) /\ ~Backwards
       THEN /\ Take(current.size, "timestamp")
            /\ prev' = current.ns
            /\ replayed' = Append(replayed,
                   [ns |-> current.ns, cells |-> SubSeq(file, position + 1,
                                                  position + current.size)])
            /\ UNCHANGED <<current, mode, writerVars>>
       ELSE Threw

\* run() gives up between two packets: nobody presses ENTER any more, or the
\* scaled delay is too long to be slept.
GiveUp ==
    /\ reader = "payload"
    /\ Have(current.size)
    /\ \/ mode = "Step"
       \/ mode = "Scaled" /\ prev # -1 /\ current.ns > prev
    /\ Threw

-----------------------------------------------------------------------------
(* Properties.                                                             *)

\* The cells a record takes in the file.
Image(n, r) == Field("timestamp", r.ns) \o Field("length", r.size)
               \o Payload(n, r.size)

\* The file that the first n records make.
FileOf(n) == Magic \o FlattenSeq([i \in 1..n |-> Image(i, written[i])])

\* Whatever a crash left of the file, replay hands on only records that were
\* captured, byte for byte, in the order of the capture and without a gap.
ReplaysTheCapture ==
    /\ Len(replayed) <= Len(written)
    /\ \A i \in 1..Len(replayed) :
           replayed[i] = [ns |-> written[i].ns, cells |-> Payload(i, written[i].size)]

\* A torn record costs nothing but itself: replay, when it ends or fails,
\* has handed on every record that is wholly in the file.
TornRecordOnly ==
    reader \in {"done", "threw"} /\ mode = "MaxSpeed" =>
        \A n \in 1..Len(written) : Len(FileOf(n)) <= Len(file) => Len(replayed) >= n

\* Of a capture that was closed, the one included that an oversized datagram
\* cut short, the reader refuses no record, and replay ends having read all.
ClosedCaptureReplays ==
    writer = "closed" /\ mode = "MaxSpeed" =>
        /\ reader # "threw"
        /\ reader = "done" => Len(replayed) = Len(written)
=============================================================================
