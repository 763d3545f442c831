----------------------------- MODULE OrderBook -----------------------------
(***************************************************************************)
(* OrderBook (src/order_book.cpp, include/efe/order_book.hpp): limit order *)
(* books of several symbols over one arena of order slots.  A free slot is *)
(* on the free list through next_free; a live one is on the FIFO list of   *)
(* its price level through prev and next; the index finds it by order id.  *)
(*                                                                         *)
(* The members are the fields of one record, b, and each private helper is *)
(* an operator from such a record to the next, composed as the code does.  *)
(* The index is a map with the load limit of FlatOrderIndex; that the open *)
(* addressing table is such a map is the subject of FlatOrderIndex.tla.    *)
(***************************************************************************)
EXTENDS BookEvents, Sequences, FiniteSets, Functions, FiniteSetsExt, SequencesExt

CONSTANTS
    MaxOrders,  \* constructor argument max_orders
    Invalid,    \* kInvalidSlot
    NoSymbol    \* the symbol of a default-constructed Order

ASSUME OrderBookAssumption ==
    /\ MaxOrders \in Nat \ {0}
    /\ NoSymbol \notin Symbols
    /\ Invalid \notin 0..(MaxOrders - 1)

VARIABLES
    book,   \* the members of OrderBook
    event,  \* the argument of the call of apply() to come, or NoEvent
    answer  \* what the last call did: "accepted", "rejected" or "threw"

vars == <<book, event, answer>>

SlotIndex == 0..(MaxOrders - 1)

\* Order{}, Slot{} and PriceLevel{}.
NoOrder == [id |-> ZeroId, symbol |-> NoSymbol, side |-> "Buy",
            price |-> 0, quantity |-> 0]
NoSlot == [order |-> NoOrder, prev |-> Invalid, next |-> Invalid,
           next_free |-> Invalid, alive |-> FALSE]
NoLevel == [total_quantity |-> 0, head |-> Invalid, tail |-> Invalid]

-----------------------------------------------------------------------------
(* The arena.                                                              *)

AllocateSlot(b) ==
    LET slot == b.free_head
    IN  [b EXCEPT !.free_head = b.slots[slot].next_free,
                  !.slots[slot].next_free = Invalid,
                  !.slots[slot].alive = TRUE]

\* Broken on purpose: the slot is not put back.
ReleaseSlotLeak(b, slot) == [b EXCEPT !.slots[slot] = NoSlot]

ReleaseSlot(b, slot) ==
    [b EXCEPT !.slots[slot] = [NoSlot EXCEPT !.next_free = b.free_head],
              !.free_head = slot]

-----------------------------------------------------------------------------
(* The index: insert is refused at 70% load (flat_order_index.hpp:36).     *)

BitCeil(n) == CHOOSE p \in {2^k : k \in 0..n} :
                  p >= n /\ \A q \in {2^k : k \in 0..n} : q >= n => p <= q

IndexCapacity == BitCeil(IF MaxOrders < 8 THEN 16 ELSE 2 * MaxOrders)

Live(b, id) == id \in DOMAIN b.index

CanInsert(b, id) ==
    /\ Cardinality(DOMAIN b.index) * 10 < IndexCapacity * 7
    /\ ~Live(b, id)

IndexInsert(b, id, slot) ==
    [b EXCEPT !.index = [i \in DOMAIN @ \cup {id} |-> IF i = id THEN slot ELSE @[i]]]

IndexErase(b, id) == [b EXCEPT !.index = Restrict(@, DOMAIN @ \ {id})]

-----------------------------------------------------------------------------
(* Price levels.                                                           *)

\* books_[symbol]: creates the symbol's book when there is none.
OpenBook(b, symbol) == [b EXCEPT !.symbols = @ \cup {symbol}]

\* levels.try_emplace(price).
OpenLevel(b, key) ==
    [b EXCEPT !.levels = [k \in DOMAIN @ \cup {key} |->
                              IF k \in DOMAIN @ THEN @[k] ELSE NoLevel]]

EraseLevel(b, key) == [b EXCEPT !.levels = Restrict(@, DOMAIN @ \ {key})]

\* Broken on purpose: the book of a symbol without orders stays.
EraseEmptyBookNever(b, symbol) == b

EraseEmptyBook(b, symbol) ==
    IF \E k \in DOMAIN b.levels : k[1] = symbol THEN b
    ELSE [b EXCEPT !.symbols = @ \ {symbol}]

\* total_quantity wraps like the unsigned integer it is.
AddTotal(b, key, n) ==
    [b EXCEPT !.levels[key].total_quantity = (@ + n) % (MaxQuantity + 1)]

LinkAtTail(b, key, slot) ==
    LET tail == b.levels[key].tail
    IN  [b EXCEPT
            !.slots = [s \in SlotIndex |->
                CASE s = slot -> [@[s] EXCEPT !.prev = tail, !.next = Invalid]
                  [] s = tail -> [@[s] EXCEPT !.next = slot]
                  [] OTHER -> @[s]],
            !.levels[key].head = IF tail = Invalid THEN slot ELSE @,
            !.levels[key].tail = slot]

\* Broken on purpose: forgets the back link of the successor.
UnlinkForward(b, key, slot) ==
    LET prev == b.slots[slot].prev
        next == b.slots[slot].next
    IN  [b EXCEPT
            !.slots = [s \in SlotIndex |->
                CASE s = slot -> [@[s] EXCEPT !.prev = Invalid, !.next = Invalid]
                  [] s = prev -> [@[s] EXCEPT !.next = next]
                  [] OTHER -> @[s]],
            !.levels[key].head = IF prev = Invalid THEN next ELSE @,
            !.levels[key].tail = IF next = Invalid THEN prev ELSE @]

Unlink(b, key, slot) ==
    LET prev == b.slots[slot].prev
        next == b.slots[slot].next
    IN  [b EXCEPT
            !.slots = [s \in SlotIndex |->
                CASE s = slot -> [@[s] EXCEPT !.prev = Invalid, !.next = Invalid]
                  [] s = prev -> [@[s] EXCEPT !.next = next]
                  [] s = next -> [@[s] EXCEPT !.prev = prev]
                  [] OTHER -> @[s]],
            !.levels[key].head = IF prev = Invalid THEN next ELSE @,
            !.levels[key].tail = IF next = Invalid THEN prev ELSE @]

EraseEmptyLevel(b, order) ==
    LET key == LevelOf(order)
        b1 == IF key \in DOMAIN b.levels /\ b.levels[key].head = Invalid
              THEN EraseLevel(b, key) ELSE b
    IN  EraseEmptyBook(b1, order.symbol)

RemoveOrder(b, id) ==
    LET slot == b.index[id]
        order == b.slots[slot].order
        b1 == AddTotal(b, LevelOf(order), -order.quantity)
        b2 == Unlink(b1, LevelOf(order), slot)
    IN  EraseEmptyLevel(ReleaseSlot(IndexErase(b2, id), slot), order)

-----------------------------------------------------------------------------
Init ==
    /\ book = [slots |-> [s \in SlotIndex |-> [NoSlot EXCEPT !.next_free =
                              IF s + 1 < MaxOrders THEN s + 1 ELSE Invalid]],
               free_head |-> 0,
               index |-> [i \in {} |-> Invalid],
               symbols |-> {},
               levels |-> [k \in {} |-> NoLevel]]
    /\ event = NoEvent
    /\ answer = "accepted"

Done(b, how) == book' = b /\ answer' = how /\ event' = NoEvent
Accept(b) == Done(b, "accepted")
Reject(b) == Done(b, "rejected")
Throw(b) == Done(b, "threw")

\* Broken on purpose: the limit of Quantity is not looked at.
OverflowsNever(b, key, n) == FALSE

\* There is no room for n more shares at the level (order_book.cpp:87, :163).
Overflows(b, key, n) == MaxQuantity - b.levels[key].total_quantity < n

AddRefused(order) ==
    order.id = ZeroId \/ order.quantity = 0 \/ Live(book, order.id)
    \/ book.free_head = Invalid

\* The slot and the index entry add() takes before it turns to the levels.
Placed(order) ==
    LET slot == book.free_head
        b1 == [AllocateSlot(book) EXCEPT !.slots[slot].order = order]
    IN  IF CanInsert(b1, order.id) THEN IndexInsert(b1, order.id, slot)
        ELSE ReleaseSlot(b1, slot)

\* Broken on purpose: the slot is not given back.
UndoLeak(b, id, slot) == IndexErase(b, id)

\* index_.erase and release_slot on the way out of a failed add().
Undo(b, id, slot) == ReleaseSlot(IndexErase(b, id), slot)

Add(order) ==
    LET slot == book.free_head
        key == LevelOf(order)
        b1 == Placed(order)
        b2 == OpenLevel(OpenBook(b1, order.symbol), key)
        b3 == IF key \in DOMAIN b1.levels THEN b2 ELSE EraseLevel(b2, key)
    IN  IF AddRefused(order) THEN Reject(book)
        ELSE IF ~Live(b1, order.id) THEN Reject(b1)
        ELSE IF Overflows(b2, key, order.quantity)
        THEN Reject(Undo(EraseEmptyBook(b3, order.symbol), order.id, slot))
        ELSE Accept(LinkAtTail(AddTotal(b2, key, order.quantity), key, slot))

\* bad_alloc from books_[symbol] or from try_emplace, and the catch block.
AddThrows(order) ==
    LET slot == book.free_head
        b1 == Placed(order)
    IN  /\ ~AddRefused(order)
        /\ Live(b1, order.id)
        /\ LevelOf(order) \notin DOMAIN book.levels
        /\ \E b2 \in {OpenBook(b1, order.symbol)}
                     \cup (IF order.symbol \in book.symbols THEN {} ELSE {b1}) :
               Throw(EraseEmptyBook(Undo(b2, order.id, slot), order.symbol))

ReduceRefused(id, shares) ==
    \/ ~Live(book, id)
    \/ shares = 0
    \/ shares > book.slots[book.index[id]].order.quantity

\* execute() and cancel() take shares away from an order alike.
Reduce(id, shares) ==
    LET slot == book.index[id]
        order == book.slots[slot].order
        b1 == AddTotal(book, LevelOf(order), -shares)
        b2 == [b1 EXCEPT !.slots[slot].order.quantity = @ - shares]
    IN  IF ReduceRefused(id, shares) THEN Reject(book)
        ELSE IF shares = order.quantity THEN Accept(RemoveOrder(b2, id))
        ELSE Accept(b2)

Execute(id, shares) == Reduce(id, shares)

Cancel(id, shares) == Reduce(id, shares)

Erase(id) == IF Live(book, id) THEN Accept(RemoveOrder(book, id)) ELSE Reject(book)

-----------------------------------------------------------------------------
(* replace(): the slot stays, the order gets a new id and quantity and     *)
(* goes to the end of the queue of its old or of its new price.            *)

ReplaceRefused(id, newId, n) ==
    ~Live(book, id) \/ newId = ZeroId \/ n = 0 \/ Live(book, newId)

\* Broken on purpose: keeps its place in the queue.
RequeueInPlace(b, key, slot) == b

Requeue(b, key, slot) == LinkAtTail(Unlink(b, key, slot), key, slot)

ReplaceSamePrice(id, newId, n) ==
    LET slot == book.index[id]
        old == book.slots[slot].order
        key == LevelOf(old)
        total == book.levels[key].total_quantity - old.quantity + n
        b1 == Requeue(IndexInsert(book, newId, slot), key, slot)
        b2 == [b1 EXCEPT !.levels[key].total_quantity = total,
                         !.slots[slot].order.id = newId,
                         !.slots[slot].order.quantity = n]
    IN  IF total > MaxQuantity \/ ~CanInsert(book, newId) THEN Reject(book)
        ELSE Accept(IndexErase(b2, id))

ReplaceNewPrice(id, newId, n, price) ==
    LET slot == book.index[id]
        old == book.slots[slot].order
        oldKey == LevelOf(old)
        newKey == <<old.symbol, old.side, price>>
        b1 == OpenLevel(book, newKey)
        b2 == AddTotal(Unlink(IndexInsert(b1, newId, slot), oldKey, slot),
                       oldKey, -old.quantity)
        b3 == [b2 EXCEPT !.slots[slot].order.id = newId,
                         !.slots[slot].order.quantity = n,
                         !.slots[slot].order.price = price]
        b4 == IndexErase(LinkAtTail(AddTotal(b3, newKey, n), newKey, slot), id)
    IN  IF Overflows(b1, newKey, n) \/ ~CanInsert(book, newId)
        THEN Reject(IF newKey \in DOMAIN book.levels THEN b1 ELSE EraseLevel(b1, newKey))
        ELSE Accept(IF b4.levels[oldKey].head = Invalid
                    THEN EraseLevel(b4, oldKey) ELSE b4)

Replace(id, newId, n, price) ==
    IF ReplaceRefused(id, newId, n) THEN Reject(book)
    ELSE IF book.slots[book.index[id]].order.price = price
    THEN ReplaceSamePrice(id, newId, n)
    ELSE ReplaceNewPrice(id, newId, n, price)

\* bad_alloc from try_emplace of the new level: nothing has changed yet.
ReplaceThrows(id, newId, n, price) ==
    /\ ~ReplaceRefused(id, newId, n)
    /\ LET old == book.slots[book.index[id]].order
       IN  <<old.symbol, old.side, price>> \notin DOMAIN book.levels
    /\ Throw(book)

\* The caller has decoded an event.
Receive(e) == event = NoEvent /\ event' = e /\ UNCHANGED <<book, answer>>

\* apply(): the visitor over the five kinds of event.
Apply ==
    \/ event.type = "add" /\ Add(event.order)
    \/ event.type = "add" /\ AddThrows(event.order)
    \/ event.type = "execute" /\ Execute(event.id, event.shares)
    \/ event.type = "cancel" /\ Cancel(event.id, event.shares)
    \/ event.type = "delete" /\ Erase(event.id)
    \/ /\ event.type = "replace"
       /\ \/ Replace(event.id, event.new_id, event.quantity, event.price)
          \/ ReplaceThrows(event.id, event.new_id, event.quantity, event.price)

Next == (\E e \in MarketEvent : Receive(e)) \/ Apply

Spec == Init /\ [][Next]_vars

-----------------------------------------------------------------------------
(* What callers see: find, best_bid, best_ask, bid_levels, ask_levels.     *)

\* The slot a walk from slot first reaches after i links.
Walk(first, links) ==
    LET at[i \in 0..MaxOrders] ==
            IF i = 0 THEN first
            ELSE IF at[i - 1] = Invalid THEN Invalid ELSE links[at[i - 1]]
    IN  at

\* The slots of the walk, in order.
Chain(first, links) ==
    LET at == Walk(first, links)
        n == Cardinality({i \in 0..MaxOrders : at[i] # Invalid})
    IN  [i \in 1..n |-> at[i - 1]]

Queue(b, key) == Chain(b.levels[key].head, [s \in SlotIndex |-> b.slots[s].next])

FreeList(b) == Chain(b.free_head, [s \in SlotIndex |-> b.slots[s].next_free])

\* fifo_order_ids of a LevelSnapshot.
FifoOrderIds(b, key) ==
    LET queue == Queue(b, key) IN [i \in DOMAIN queue |-> b.slots[queue[i]].order.id]

PricesOf(b, symbol, side) ==
    {k[3] : k \in {k \in DOMAIN b.levels : k[1] = symbol /\ k[2] = side}}

\* The first key of bids, and of asks; there must be one.
BestBid(b, symbol) == Max(PricesOf(b, symbol, "Buy"))
BestAsk(b, symbol) == Min(PricesOf(b, symbol, "Sell"))

Orders(b) == [id \in DOMAIN b.index |-> b.slots[b.index[id]].order]

\* What state_hash() mixes, value by value; the mixing itself is not modelled.
\* The maps iterate over their keys in order; std::map<Symbol> has some order.
Ascending(prices) == SetToSortSeq(prices, LAMBDA p, q : p < q)

\* Broken on purpose: which order is where in the queue is left out.
HashLevelTotals(b, key) ==
    <<key[3], b.levels[key].total_quantity, Len(Queue(b, key)), Invalid>>

HashLevel(b, key) ==
    LET queue == Queue(b, key)
        order(i) == b.slots[queue[i]].order
    IN  <<key[3], b.levels[key].total_quantity>>
        \o FlattenSeq([i \in DOMAIN queue |-> <<order(i).id, order(i).quantity>>])
        \o <<Invalid>>

HashLevels(b, symbol, side) ==
    LET up == Ascending(PricesOf(b, symbol, side))
        prices == IF side = "Buy" THEN Reverse(up) ELSE up
    IN  <<IF side = "Buy" THEN 0 ELSE 1, Len(prices)>>
        \o FlattenSeq([i \in DOMAIN prices |-> HashLevel(b, <<symbol, side, prices[i]>>)])

StateHash(b) ==
    LET symbols == SelectSeq(SetToSeq(Symbols), LAMBDA s : s \in b.symbols)
    IN  <<Len(symbols)>>
        \o FlattenSeq([i \in DOMAIN symbols |->
               <<symbols[i]>> \o HashLevels(b, symbols[i], "Buy")
                              \o HashLevels(b, symbols[i], "Sell")])

-----------------------------------------------------------------------------
(* Properties.                                                             *)

\* The arena never leaks and never hands out a slot twice: the free list and
\* the index between them hold every slot exactly once, whatever sequence of
\* adds, removals, failures and rollbacks came before.
ArenaPartitioned ==
    LET free == FreeList(book)
    IN  /\ IsInjective(free)
        /\ IsInjective(book.index)
        /\ Range(free) \cap Range(book.index) = {}
        /\ Range(free) \cup Range(book.index) = SlotIndex
        /\ \A s \in SlotIndex : book.slots[s].alive <=> s \in Range(book.index)

\* Every live order is on the queue of its own level and on no other, walking
\* the queue backwards meets the same orders, and the index finds each of
\* them under its own id.
QueuesSound ==
    /\ \A id \in DOMAIN book.index : book.slots[book.index[id]].order.id = id
    /\ \A k \in DOMAIN book.levels :
           LET queue == Queue(book, k)
               back == Chain(book.levels[k].tail, [s \in SlotIndex |-> book.slots[s].prev])
           IN  /\ Len(back) = Len(queue)
               /\ \A i \in 1..Len(queue) : back[Len(queue) + 1 - i] = queue[i]
               /\ Range(queue) = {s \in Range(book.index) :
                                      LevelOf(book.slots[s].order) = k}

\* The cached total of a level is the sum of its orders: no event, and no
\* wrap-around at the largest Quantity, makes them drift apart.
TotalsExact ==
    \A k \in DOMAIN book.levels :
        book.levels[k].total_quantity =
            MapThenSumSet(LAMBDA s : book.slots[s].order.quantity,
                          Range(Queue(book, k)))

\* best_bid and best_ask are the best prices of live orders, and exist when
\* there is such an order: no empty level and no empty book is left behind.
TopOfBook ==
    \A symbol \in Symbols, side \in Side :
        LET live == {o.price : o \in {o \in Range(Orders(book)) :
                                          o.symbol = symbol /\ o.side = side}}
        IN  /\ live # {} <=> PricesOf(book, symbol, side) # {}
            /\ live # {} => IF side = "Buy" THEN BestBid(book, symbol) = Max(live)
                                            ELSE BestAsk(book, symbol) = Min(live)
            /\ symbol \in book.symbols <=>
                   \E k \in DOMAIN book.levels : k[1] = symbol

\* An event that is refused, or that runs out of memory half way, leaves the
\* book as it was, free list included.
FailureChangesNothing == [][event' = NoEvent /\ answer' # "accepted" => book' = book]_vars

\* state_hash() follows the book a caller sees: an event that changes an order
\* or its place in a queue changes what is hashed (tests/test_order_book.cpp:62
\* tries one), and an event that is refused, or undone, leaves it.
HashFollowsBook ==
    [][StateHash(book') = StateHash(book) <=>
           /\ Orders(book') = Orders(book)
           /\ DOMAIN book'.levels = DOMAIN book.levels
           /\ \A k \in DOMAIN book.levels :
                  FifoOrderIds(book', k) = FifoOrderIds(book, k)]_vars

\* The arena book implements PriceTimeBook: every event is answered as the
\* plain book answers it and leaves the same orders in the same queues.
Plain == INSTANCE PriceTimeBook WITH
             orders <- Orders(book),
             queues <- [k \in DOMAIN book.levels |-> FifoOrderIds(book, k)]

ImplementsPriceTime == Plain!Spec
=============================================================================
