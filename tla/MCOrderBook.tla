---- MODULE MCOrderBook ----
EXTENDS OrderBook, TLC

\* Order ids other than 0 are told apart and never compared otherwise.
MCSymmetry == Permutations(OrderIds \ {ZeroId}) \cup Permutations(Symbols)

\* Bound: up to two orders are any two, three are on one side of one symbol.
MCBound ==
    LET held == {book.slots[book.index[i]].order : i \in DOMAIN book.index}
    IN  Cardinality(held) <= 2 \/ \A o, p \in held : o.symbol = p.symbol /\ o.side = p.side
====
