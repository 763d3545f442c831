----------------------------- MODULE BookEvents -----------------------------
(***************************************************************************)
(* The orders and the events of the book (include/efe/types.hpp, events.   *)
(* hpp), without the fields the book never reads.                          *)
(***************************************************************************)
EXTENDS Integers

CONSTANTS
    MaxQuantity,  \* numeric_limits<Quantity>::max()
    OrderIds,     \* the order ids events carry
    ZeroId,       \* order id 0, which no order may have
    Symbols,
    Prices,
    Shares        \* bound: the quantities events carry

ASSUME BookEventsAssumption ==
    /\ MaxQuantity \in Nat \ {0}
    /\ Prices \subseteq Nat
    /\ Shares \subseteq 0..MaxQuantity

Quantity == 0..MaxQuantity
Side == {"Buy", "Sell"}
Order == [id : OrderIds, symbol : Symbols, side : Side,
          price : Prices, quantity : Quantity]

\* The price level an order belongs to.
LevelKey == Symbols \X Side \X Prices
LevelOf(order) == <<order.symbol, order.side, order.price>>

\* MarketEvent, the variant of the five events.
MarketEvent ==
    [type : {"add"}, order : {o \in Order : o.quantity \in Shares}]
    \cup [type : {"execute", "cancel"}, id : OrderIds, shares : Shares]
    \cup [type : {"delete"}, id : OrderIds]
    \cup [type : {"replace"}, id : OrderIds, new_id : OrderIds,
          quantity : Shares, price : Prices]

NoEvent == [type |-> "none"]
=============================================================================
