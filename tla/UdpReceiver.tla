---------------------------- MODULE UdpReceiver ----------------------------
(***************************************************************************)
(* UdpMulticastReceiver (src/udp_receiver.cpp) under the loop of listen    *)
(* (src/main.cpp:137), from constructor to destructor: one thread polls    *)
(* the socket and the read end of a pipe, any number of threads call       *)
(* request_stop().  The socket, the pipe and the signals that interrupt    *)
(* poll() are the kernel's.                                                *)
(***************************************************************************)
EXTENDS Integers, Sequences

CONSTANTS
    Stoppers,     \* the threads that call request_stop(), once each
    SocketRoom,   \* datagrams the socket buffers before the kernel drops them
    MaxArrivals   \* bound: datagrams that arrive

ASSUME ReceiverAssumption == SocketRoom \in Nat \ {0} /\ MaxArrivals \in Nat

VARIABLES
    open,           \* the descriptors of the receiver that are open
    stopRequested,  \* stop_requested_
    wake,           \* bytes in the wake pipe; nobody ever reads them
    stopper,        \* where each thread is in request_stop()
    socket,         \* the datagrams the kernel holds for fd_
    arrivals,       \* how many have arrived
    pc,             \* where the listening thread is
    revents,        \* what the last poll() reported as readable
    value           \* what the last receive() returned

vars == <<open, stopRequested, wake, stopper, socket, arrivals, pc, revents, value>>

\* Of a datagram only its being empty matters here; Nothing is the {} that
\* receive() returns without a datagram.
Datagram == {"filled", "empty"}
Nothing == "nothing"

\* fd_, wake_read_fd_, wake_write_fd_.
Descriptors == {"socket", "wake_read", "wake_write"}

Init ==
    /\ open = {}
    /\ stopRequested = FALSE
    /\ wake = 0
    /\ stopper = [t \in Stoppers |-> "idle"]
    /\ socket = <<>>
    /\ arrivals = 0
    /\ pc = "socket"
    /\ revents = {}
    /\ value = Nothing

-----------------------------------------------------------------------------
(* The kernel.                                                             *)

Arrive(d) ==
    /\ pc \notin {"socket", "configure", "unbuilt", "destroyed"}
    /\ arrivals < MaxArrivals
    /\ arrivals' = arrivals + 1
    /\ socket' = IF Len(socket) < SocketRoom THEN Append(socket, d) ELSE socket
    /\ UNCHANGED <<open, stopRequested, wake, stopper, pc, revents, value>>

-----------------------------------------------------------------------------
(* request_stop(), of a receiver that is built and not yet destroyed.      *)

Alive == pc \notin {"socket", "configure", "pipe", "unbuilt", "destroyed"}

\* Broken on purpose: every caller writes to the pipe.
ExchangeAlwaysWrites(t) ==
    /\ Alive
    /\ stopper[t] = "idle"
    /\ stopRequested' = TRUE
    /\ stopper' = [stopper EXCEPT ![t] = "write"]
    /\ UNCHANGED <<open, wake, socket, arrivals, pc, revents, value>>

\* Broken on purpose: the byte first, the flag after it.
WriteThenExchange(t) ==
    /\ Alive
    /\ \/ /\ stopper[t] = "idle" /\ wake = 0
          /\ wake' = 1 /\ UNCHANGED stopRequested
       \/ /\ stopper[t] = "done"
          /\ stopRequested' = TRUE /\ UNCHANGED wake
    /\ stopper' = [stopper EXCEPT ![t] = "done"]
    /\ UNCHANGED <<open, socket, arrivals, pc, revents, value>>

\* stop_requested_.exchange(true): only the first caller goes on.
Exchange(t) ==
    /\ Alive
    /\ stopper[t] = "idle"
    /\ stopRequested' = TRUE
    /\ stopper' = [stopper EXCEPT ![t] = IF stopRequested THEN "done" ELSE "write"]
    /\ UNCHANGED <<open, wake, socket, arrivals, pc, revents, value>>

\* Broken on purpose: the flag alone is set.
WriteNothing(t) ==
    /\ stopper[t] = "write"
    /\ stopper' = [stopper EXCEPT ![t] = "done"]
    /\ UNCHANGED <<open, stopRequested, wake, socket, arrivals, pc, revents, value>>

Write(t) ==
    /\ stopper[t] = "write"
    /\ wake' = wake + 1
    /\ stopper' = [stopper EXCEPT ![t] = "done"]
    /\ UNCHANGED <<open, stopRequested, socket, arrivals, pc, revents, value>>

-----------------------------------------------------------------------------
(* receive() and the loop around it.                                       *)

Outside == <<open, stopRequested, wake, stopper, arrivals>>

Return(v) == pc' = "loop" /\ value' = v

\* The test on entry.
Enter ==
    /\ pc = "receive"
    /\ \/ stopRequested /\ Return(Nothing)
       \/ ~stopRequested /\ pc' = "poll" /\ UNCHANGED value
    /\ UNCHANGED <<Outside, socket, revents>>

\* Broken on purpose: poll() with a timeout that nobody looks at.
PollTimesOut ==
    /\ pc = "poll"
    /\ revents' = (IF socket # <<>> THEN {"socket"} ELSE {})
                  \cup (IF wake > 0 THEN {"wake"} ELSE {})
    /\ pc' = "polled"
    /\ UNCHANGED <<Outside, socket, value>>

\* poll() blocks until one of the descriptors is readable.
Poll ==
    /\ pc = "poll"
    /\ revents' = (IF socket # <<>> THEN {"socket"} ELSE {})
                  \cup (IF wake > 0 THEN {"wake"} ELSE {})
    /\ revents' # {}
    /\ pc' = "polled"
    /\ UNCHANGED <<Outside, socket, value>>

\* poll() fails with EINTR: receive() starts again.
Interrupt ==
    /\ pc = "poll"
    /\ pc' = "receive"
    /\ UNCHANGED <<Outside, socket, revents, value>>

\* poll() fails otherwise.
PollFails ==
    /\ pc = "poll"
    /\ pc' = "failed" /\ value' = "error"
    /\ UNCHANGED <<Outside, socket, revents>>

\* The test after poll().
Woken == "wake" \in revents \/ stopRequested

AfterPoll ==
    /\ pc = "polled"
    /\ \/ Woken /\ Return(Nothing)
       \/ ~Woken /\ pc' = "recv" /\ UNCHANGED value
    /\ UNCHANGED <<Outside, socket, revents>>

Recv ==
    /\ pc = "recv"
    /\ socket # <<>>
    /\ socket' = Tail(socket)
    /\ Return(Head(socket))
    /\ UNCHANGED <<Outside, revents>>

\* recv() fails: an error unless the program is stopping.
RecvFails ==
    /\ pc = "recv"
    /\ \/ stopRequested /\ Return(Nothing)
       \/ ~stopRequested /\ pc' = "failed" /\ value' = "error"
    /\ UNCHANGED <<Outside, socket, revents>>

\* The loop of listen: breaks, or hands the datagram to parse_downstream,
\* which throws if there are no bytes.  A filled datagram may be malformed, it
\* may end the session, and it may make the loop send a request.
Loop ==
    /\ pc = "loop"
    /\ \/ value = "filled" /\ pc' \in {"receive", "send", "stopped", "failed"}
       \/ value # "filled" /\ pc' = IF stopRequested THEN "stopped" ELSE "failed"
    /\ UNCHANGED <<Outside, socket, revents, value>>

\* send_unicast(): throws for a host that is no address or a datagram that is
\* not sent whole; otherwise the turn of the loop ends as it would have.
SendUnicast ==
    /\ pc = "send"
    /\ pc' \in {"receive", "stopped", "failed"}
    /\ UNCHANGED <<Outside, socket, revents, value>>

-----------------------------------------------------------------------------
(* Constructor and destructor.                                             *)

Rest == <<stopRequested, wake, stopper, arrivals, revents, value>>

\* Broken on purpose: the exception leaves the candidate open.
UnwindKeeps == pc' = "unbuilt" /\ UNCHANGED open

\* The handler of the constructor: the destructor will not run.
Unwind == pc' = "unbuilt" /\ open' = {}

OpenSocket ==
    /\ pc = "socket"
    /\ \/ pc' = "configure" /\ open' = {"socket"}
       \/ pc' = "unbuilt" /\ UNCHANGED open
    /\ UNCHANGED <<Rest, socket>>

\* SO_REUSEADDR, bind, the two addresses and the membership: each may fail.
Configure ==
    /\ pc = "configure"
    /\ \/ pc' = "pipe" /\ UNCHANGED open
       \/ Unwind
    /\ UNCHANGED <<Rest, socket>>

\* Datagrams are already arriving.
OpenPipe ==
    /\ pc = "pipe"
    /\ \/ pc' = "receive" /\ open' = Descriptors
       \/ Unwind
    /\ UNCHANGED <<Rest, socket>>

\* The owner destroys the receiver when listen is over and no thread is in
\* request_stop().
Destroy ==
    /\ pc \in {"stopped", "failed"}
    /\ \A t \in Stoppers : stopper[t] # "write"
    /\ pc' = "destroyed"
    /\ open' = {}
    /\ socket' = <<>>
    /\ UNCHANGED Rest

Ended == pc \in {"unbuilt", "destroyed"} /\ UNCHANGED vars

Listener == Enter \/ Poll \/ AfterPoll \/ Recv \/ Loop \/ SendUnicast

Next ==
    \/ \E d \in Datagram : Arrive(d)
    \/ \E t \in Stoppers : Exchange(t) \/ Write(t)
    \/ Listener \/ Interrupt \/ PollFails \/ RecvFails
    \/ OpenSocket \/ Configure \/ OpenPipe \/ Destroy \/ Ended

\* Both kinds of thread are scheduled; signals do not interrupt poll() for
\* ever, each time before it can return.
Fairness ==
    /\ WF_vars(Enter \/ AfterPoll \/ Recv \/ Loop \/ SendUnicast)
    /\ SF_vars(Poll)
    /\ \A t \in Stoppers : WF_vars(Write(t))

Spec == Init /\ [][Next]_vars /\ Fairness

-----------------------------------------------------------------------------
(* Properties.                                                             *)

\* The pipe holds at most the one byte of the first request_stop(), so that
\* write() cannot block however many threads stop the receiver
\* (src/udp_receiver.cpp:79), and everything else has its type.
TypeOK ==
    /\ open \subseteq Descriptors
    /\ stopRequested \in BOOLEAN
    /\ wake \in 0..1
    /\ stopper \in [Stoppers -> {"idle", "write", "done"}]
    /\ socket \in Seq(Datagram) /\ Len(socket) <= SocketRoom
    /\ arrivals \in 0..MaxArrivals
    /\ pc \in {"socket", "configure", "pipe", "unbuilt", "receive", "poll", "polled",
              "recv", "loop", "send", "stopped", "failed", "destroyed"}
    /\ revents \subseteq {"socket", "wake"}
    /\ value \in Datagram \cup {Nothing, "error"}

\* Stopping is clean: the loop never takes a wake-up for an empty datagram
\* and hands it to parse_downstream, because the flag is set before the byte
\* is written (src/udp_receiver.cpp:79, :82; src/main.cpp:139).
WakeIsNoDatagram == pc = "failed" => value # Nothing

\* recv() is called only when there is a datagram for it: the thread never
\* blocks in recv(), where request_stop() could not reach it.
NeverBlocksInRecv == pc = "recv" => socket # <<>>

\* Whichever call of the constructor fails, and however the loop ends, nothing
\* stays open; until then receive(), send_unicast() and request_stop() find
\* their descriptors open (src/udp_receiver.cpp:47, :53).
DescriptorsOwned ==
    /\ pc \in {"unbuilt", "destroyed"} => open = {}
    /\ Alive => open = Descriptors
    /\ (\E t \in Stoppers : stopper[t] = "write") => Alive

\* A stop request ends the loop, wherever the listening thread is when it
\* comes, and although no datagram may ever arrive again.
StopEndsLoop == stopRequested ~> pc \in {"stopped", "failed", "destroyed"}
=============================================================================
