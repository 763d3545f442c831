--------------------------- MODULE PriceTimeBook ---------------------------
(***************************************************************************)
(* What an order book with price-time priority does, without an arena,     *)
(* links, an index or cached totals (the reference model of                *)
(* tests/test_order_book.cpp plays the same part): a set of live orders,   *)
(* and at each price of each side of each symbol the queue of their ids.   *)
(* An event that cannot be honoured changes nothing.                       *)
(***************************************************************************)
EXTENDS BookEvents, Sequences, FiniteSets, Functions, FiniteSetsExt, SequencesExt

CONSTANT MaxOrders

VARIABLES
    orders,  \* order id -> order, for the live orders
    queues,  \* <<symbol, side, price>> -> order ids, where there are any
    event,   \* the event to be answered, or NoEvent
    answer   \* the answer to the event before it

vars == <<orders, queues, event, answer>>

Depth(key) ==
    MapThenSumSet(LAMBDA id : orders[id].quantity,
                  {id \in DOMAIN orders : LevelOf(orders[id]) = key})

\* The queues after order id has left its level, if it was there, and after
\* order new, if there is one, has joined the end of its own.
Requeued(id, new) ==
    LET without == [k \in DOMAIN queues |-> RemoveFirst(queues[k], id)]
        joined == [k \in DOMAIN queues \cup {LevelOf(o) : o \in new} |->
                      (IF k \in DOMAIN queues THEN without[k] ELSE <<>>) \o
                      SetToSeq({o.id : o \in {o \in new : LevelOf(o) = k}})]
    IN  Restrict(joined, {k \in DOMAIN joined : joined[k] # <<>>})

Init ==
    /\ orders = [i \in {} |-> 0]
    /\ queues = [k \in {} |-> <<>>]
    /\ event = NoEvent
    /\ answer = "accepted"

Refuse(how) == answer' = how /\ UNCHANGED <<orders, queues>>

Put(id, order) ==
    /\ orders' = [i \in (DOMAIN orders \ {id}) \cup {order.id} |->
                      IF i = order.id THEN order ELSE orders[i]]
    /\ queues' = Requeued(id, {order})
    /\ answer' = "accepted"

CanAdd(order) ==
    /\ order.id # ZeroId /\ order.quantity # 0 /\ order.id \notin DOMAIN orders
    /\ Cardinality(DOMAIN orders) < MaxOrders
    /\ Depth(LevelOf(order)) + order.quantity <= MaxQuantity

Add(order) == IF CanAdd(order) THEN Put(order.id, order) ELSE Refuse("rejected")

Delete(id) ==
    /\ orders' = Restrict(orders, DOMAIN orders \ {id})
    /\ queues' = Requeued(id, {})
    /\ answer' = "accepted"

Reduce(id, shares) ==
    IF id \notin DOMAIN orders THEN Refuse("rejected")
    ELSE IF shares \notin 1..orders[id].quantity THEN Refuse("rejected")
    ELSE IF shares = orders[id].quantity THEN Delete(id)
    ELSE /\ orders' = [orders EXCEPT ![id].quantity = @ - shares]
         /\ answer' = "accepted"
         /\ UNCHANGED queues

Erase(id) == IF id \in DOMAIN orders THEN Delete(id) ELSE Refuse("rejected")

\* The new order must fit its level once the old one has left it.
Replace(id, newId, n, price) ==
    LET old == orders[id]
        new == [old EXCEPT !.id = newId, !.quantity = n, !.price = price]
        leaving == IF old.price = price THEN old.quantity ELSE 0
    IN  IF id \notin DOMAIN orders \/ newId = ZeroId \/ n = 0 \/ newId \in DOMAIN orders
        THEN Refuse("rejected")
        ELSE IF Depth(LevelOf(new)) - leaving + n > MaxQuantity
        THEN Refuse("rejected")
        ELSE Put(id, new)

Receive ==
    /\ event = NoEvent
    /\ event' \in MarketEvent
    /\ UNCHANGED <<orders, queues, answer>>

Answer ==
    /\ event # NoEvent
    /\ event' = NoEvent
    /\ \/ event.type = "add" /\ Add(event.order)
       \/ event.type \in {"execute", "cancel"} /\ Reduce(event.id, event.shares)
       \/ event.type = "delete" /\ Erase(event.id)
       \/ /\ event.type = "replace"
          /\ Replace(event.id, event.new_id, event.quantity, event.price)
       \/ event.type \in {"add", "replace"} /\ Refuse("threw")

Next == Receive \/ Answer

Spec == Init /\ [][Next]_vars
=============================================================================
