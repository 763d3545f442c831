--------------------------- MODULE ReceiverProofs ---------------------------
(***************************************************************************)
(* Proofs that UdpReceiver keeps its invariants for every set of stopping  *)
(* threads, every size of the socket's buffer and any number of arrivals.  *)
(***************************************************************************)
EXTENDS UdpReceiver, TLAPS

\* The flag goes up before anything else happens in request_stop(), and one
\* thread at most is about to write.
IStop ==
    /\ ~stopRequested => wake = 0 /\ \A t \in Stoppers : stopper[t] = "idle"
    /\ \A t \in Stoppers : stopper[t] = "write" => wake = 0
    /\ \A t, u \in Stoppers : stopper[t] = "write" /\ stopper[u] = "write" => t = u

\* What poll() reported still holds when receive() acts on it: only this
\* thread takes datagrams, and nobody reads the pipe.
IPolled ==
    /\ pc = "polled" => /\ revents # {}
                        /\ "socket" \in revents => socket # <<>>
                        /\ "wake" \in revents => wake > 0
    /\ NeverBlocksInRecv

\* receive() comes back without a datagram only when the flag is up.
INothing ==
    /\ pc = "loop" /\ value = Nothing => stopRequested
    /\ pc = "send" => value # Nothing
    /\ WakeIsNoDatagram

\* Before socket() there is nothing to close.
IOpen == (pc = "socket" => open = {}) /\ DescriptorsOwned

IInv == TypeOK /\ IStop /\ IPolled /\ INothing /\ IOpen

-----------------------------------------------------------------------------
\* The receiver before its constructor satisfies the invariant.
LEMMA InitIInv == Init => IInv
  <1> SUFFICES ASSUME Init PROVE IInv OBVIOUS
  <1>1. TypeOK
    <2>1. socket \in Seq(Datagram) /\ Len(socket) <= SocketRoom
      BY ReceiverAssumption DEF Init
    <2>2. wake \in 0..1 /\ arrivals \in 0..MaxArrivals
      BY ReceiverAssumption DEF Init
    <2>3. stopper \in [Stoppers -> {"idle", "write", "done"}]
      BY DEF Init
    <2> QED BY <2>1, <2>2, <2>3 DEF Init, TypeOK
  <1>2. IStop /\ IPolled /\ INothing
    BY DEF Init, IStop, IPolled, NeverBlocksInRecv, INothing, WakeIsNoDatagram
  <1>3. IOpen
    BY DEF Init, IOpen, DescriptorsOwned, Alive
  <1> QED BY <1>1, <1>2, <1>3 DEF IInv

\* Every step keeps the members' types; the pipe never holds two bytes,
\* because only the thread that put the flag up writes.
LEMMA TypeStep == ASSUME IInv, [Next]_vars PROVE TypeOK'
  <1> USE ReceiverAssumption
  <1> USE DEF TypeOK, Datagram, Descriptors
  <1>0. TypeOK BY DEF IInv
  <1>1. CASE \E d \in Datagram : Arrive(d)
    <2>1. PICK d \in Datagram : Arrive(d) BY <1>1
    <2>2. socket' \in Seq(Datagram) /\ Len(socket') <= SocketRoom
      BY <1>0, <2>1 DEF Arrive
    <2> QED BY <1>0, <2>1, <2>2 DEF Arrive
  <1>2. CASE \E t \in Stoppers : Exchange(t)
    BY <1>0, <1>2 DEF Exchange
  <1>3. CASE \E t \in Stoppers : Write(t)
    BY <1>0, <1>3 DEF Write, IInv, IStop
  <1>4. CASE Recv
    <2>1. /\ socket' \in Seq(Datagram) /\ Len(socket') <= SocketRoom
          /\ Head(socket) \in Datagram
      BY <1>0, <1>4 DEF Recv
    <2> QED BY <1>0, <1>4, <2>1 DEF Recv, Return, Outside
  <1>5. CASE Enter \/ Interrupt \/ AfterPoll \/ RecvFails \/ PollFails
    BY <1>0, <1>5 DEF Enter, Interrupt, AfterPoll, RecvFails, PollFails, Return, Outside, Nothing
  <1>6. CASE Poll \/ Loop \/ SendUnicast
    BY <1>0, <1>6 DEF Poll, Loop, SendUnicast, Outside
  <1>7. CASE OpenSocket \/ Configure \/ OpenPipe
    BY <1>0, <1>7 DEF OpenSocket, Configure, OpenPipe, Unwind, Rest
  <1>8. CASE Destroy
    BY <1>0, <1>8 DEF Destroy, Rest
  <1>9. CASE Ended \/ UNCHANGED vars
    BY <1>0, <1>9 DEF Ended, vars
  <1> QED BY <1>1, <1>2, <1>3, <1>4, <1>5, <1>6, <1>7, <1>8, <1>9 DEF Next, Listener

\* Only request_stop() touches the flag and the pipe.
LEMMA StopStep == ASSUME IInv, [Next]_vars PROVE IStop'
  <1>0. TypeOK /\ IStop BY DEF IInv
  <1>1. CASE \E t \in Stoppers : Exchange(t)
    BY <1>0, <1>1 DEF TypeOK, IStop, Exchange
  <1>2. CASE \E t \in Stoppers : Write(t)
    BY <1>0, <1>2 DEF TypeOK, IStop, Write
  <1>3. CASE UNCHANGED <<stopRequested, wake, stopper>>
    BY <1>0, <1>3 DEF IStop
  <1> QED
    BY <1>1, <1>2, <1>3
    DEF Next, Listener, Arrive, Enter, Poll, AfterPoll, Recv, Loop, SendUnicast, Interrupt,
        PollFails, RecvFails, OpenSocket, Configure, OpenPipe, Destroy, Ended, Outside, Rest, vars

\* Arrivals and stoppers only add to what poll() saw.
LEMMA PolledStep == ASSUME IInv, [Next]_vars PROVE IPolled'
  <1> USE DEF IPolled, NeverBlocksInRecv
  <1>0. TypeOK /\ IStop /\ IPolled BY DEF IInv
  <1>1. CASE \E d \in Datagram : Arrive(d)
    <2>1. PICK d \in Datagram : Arrive(d) BY <1>1
    <2>2. socket # <<>> => socket' # <<>>
      BY <1>0, <2>1 DEF Arrive, TypeOK
    <2> QED BY <1>0, <2>1, <2>2 DEF Arrive
  <1>2. CASE \E t \in Stoppers : Exchange(t)
    BY <1>0, <1>2 DEF Exchange
  <1>3. CASE \E t \in Stoppers : Write(t)
    BY <1>0, <1>3 DEF Write, TypeOK
  <1>4. CASE AfterPoll
    BY <1>0, <1>4 DEF AfterPoll, Woken, Return, Outside, TypeOK
  <1>5. CASE Poll
    BY <1>0, <1>5 DEF Poll, Outside
  <1>6. CASE Enter \/ Recv \/ Loop \/ SendUnicast \/ Interrupt \/ PollFails \/ RecvFails
    BY <1>0, <1>6
    DEF Enter, Recv, Loop, SendUnicast, Interrupt, PollFails, RecvFails, Return
  <1>7. CASE OpenSocket \/ Configure \/ OpenPipe \/ Destroy
    BY <1>0, <1>7 DEF OpenSocket, Configure, OpenPipe, Destroy, Unwind
  <1>8. CASE Ended \/ UNCHANGED vars
    BY <1>0, <1>8 DEF Ended, vars
  <1> QED BY <1>1, <1>2, <1>3, <1>4, <1>5, <1>6, <1>7, <1>8 DEF Next, Listener

\* The byte in the pipe is behind the flag, so a wake-up is seen as one.
LEMMA NothingStep == ASSUME IInv, [Next]_vars PROVE INothing'
  <1> USE DEF INothing, WakeIsNoDatagram, Nothing
  <1>0. TypeOK /\ IStop /\ IPolled /\ INothing BY DEF IInv
  <1>1. CASE AfterPoll
    <2>1. pc = "polled" /\ "wake" \in revents => stopRequested
      BY <1>0 DEF IPolled, IStop, TypeOK
    <2> QED BY <1>0, <1>1, <2>1 DEF AfterPoll, Woken, Return, Outside
  <1>2. CASE Recv
    <2>1. Head(socket) \in Datagram
      BY <1>0, <1>2 DEF Recv, TypeOK
    <2> QED BY <1>0, <1>2, <2>1 DEF Recv, Return, Outside, Datagram
  <1>3. CASE Enter \/ Poll \/ Loop \/ SendUnicast \/ Interrupt \/ PollFails \/ RecvFails
    BY <1>0, <1>3
    DEF Enter, Poll, Loop, SendUnicast, Interrupt, PollFails, RecvFails, Return, Outside, TypeOK
  <1>4. CASE OpenSocket \/ Configure \/ OpenPipe \/ Destroy
    BY <1>0, <1>4 DEF OpenSocket, Configure, OpenPipe, Destroy, Unwind, Rest
  <1>5. CASE (\E d \in Datagram : Arrive(d)) \/ (\E t \in Stoppers : Exchange(t) \/ Write(t))
    BY <1>0, <1>5 DEF Arrive, Exchange, Write
  <1>6. CASE Ended \/ UNCHANGED vars
    BY <1>0, <1>6 DEF Ended, vars
  <1> QED BY <1>1, <1>2, <1>3, <1>4, <1>5, <1>6 DEF Next, Listener

\* Descriptors are opened by the constructor alone, and closed by its handler
\* or by the destructor, never by both.
LEMMA OpenStep == ASSUME IInv, [Next]_vars PROVE IOpen'
  <1> USE DEF IOpen, DescriptorsOwned, Alive
  <1>0. TypeOK /\ IStop /\ IOpen BY DEF IInv
  <1>1. CASE \E t \in Stoppers : Exchange(t) \/ Write(t)
    BY <1>0, <1>1 DEF Exchange, Write, TypeOK
  <1>2. CASE OpenSocket \/ Configure \/ OpenPipe
    BY <1>0, <1>2 DEF OpenSocket, Configure, OpenPipe, Unwind, Rest
  <1>3. CASE Destroy
    BY <1>0, <1>3 DEF Destroy, Rest
  <1>4. CASE Listener \/ Interrupt \/ PollFails \/ RecvFails
    BY <1>0, <1>4
    DEF Listener, Enter, Poll, AfterPoll, Recv, Loop, SendUnicast, Interrupt, PollFails,
        RecvFails, Return, Outside
  <1>5. CASE (\E d \in Datagram : Arrive(d)) \/ Ended \/ UNCHANGED vars
    BY <1>0, <1>5 DEF Arrive, Ended, vars
  <1> QED BY <1>1, <1>2, <1>3, <1>4, <1>5 DEF Next

\* The invariant of the receiver, from constructor to destructor.
THEOREM ReceiverInvariance == Spec => []IInv
  <1>1. IInv /\ [Next]_vars => IInv'
    BY TypeStep, StopStep, PolledStep, NothingStep, OpenStep DEF IInv
  <1> QED BY InitIInv, <1>1, PTL DEF Spec

\* request_stop() by any number of threads puts one byte at most into the
\* pipe (src/udp_receiver.cpp:79), so its write() cannot block.
THEOREM ReceiverTypeCorrect == Spec => []TypeOK
  <1>1. IInv => TypeOK BY DEF IInv
  <1> QED BY ReceiverInvariance, <1>1, PTL

\* The loop of listen takes no wake-up for an empty datagram, however the
\* steps of receive() and of request_stop() interleave (src/main.cpp:139).
THEOREM WakeIsNeverADatagram == Spec => []WakeIsNoDatagram
  <1>1. IInv => WakeIsNoDatagram BY DEF IInv, INothing
  <1> QED BY ReceiverInvariance, <1>1, PTL

\* recv() always has a datagram to return (src/udp_receiver.cpp:69).
THEOREM RecvNeverBlocks == Spec => []NeverBlocksInRecv
  <1>1. IInv => NeverBlocksInRecv BY DEF IInv, IPolled
  <1> QED BY ReceiverInvariance, <1>1, PTL

\* No descriptor leaks and none is used closed (src/udp_receiver.cpp:47, :53).
THEOREM DescriptorsAreOwned == Spec => []DescriptorsOwned
  <1>1. IInv => DescriptorsOwned BY DEF IInv, IOpen
  <1> QED BY ReceiverInvariance, <1>1, PTL
=============================================================================
