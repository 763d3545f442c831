---------------------------- MODULE MCLiveReplay ----------------------------
(* A session of three messages, and the datagrams that may arrive of it.    *)
EXTENDS LiveReplay

Do(op, id) == [op |-> op, id |-> id]
MCFeed == <<Do("add", "a"), Do("add", "b"), Do("add", "c"), Do("undecodable", "d")>>

Datagram(kind, session, first, count, size) ==
    [kind |-> kind, session |-> session, first |-> first, count |-> count, size |-> size]
MCDatagrams ==
    {Datagram("data", "s", 1, 1, 1), Datagram("data", "s", 1, 2, 2),
     Datagram("data", "s", 2, 2, 2), Datagram("data", "s", 3, 2, 2),
     Datagram("data", "t", 2, 1, 1), Datagram("heartbeat", "s", 3, 0, 1),
     Datagram("end", "s", 5, 0, 1),
     Datagram("malformed", "s", 0, 0, 0), Datagram("malformed", "s", 0, 0, 3)}
=============================================================================
