----------------------------- MODULE MCPerpDex -----------------------------
(***************************************************************************)
(* Operations for PerpDex: orders that rest and are cancelled, orders that *)
(* open, add to, reduce and flip a position, changes of margin.            *)
(***************************************************************************)
EXTENDS PerpDex, TLC

Symmetry == Permutations(Threads)

Place(m, type, side, price, size, leverage, post, reduce) ==
  [op |-> "PlaceOrder", market |-> m, type |-> type, side |-> side, price |-> price,
   size |-> size, leverage |-> leverage, post_only |-> post, reduce_only |-> reduce]
Cancel(m, ids) == [op |-> "CancelOrder", market |-> m, order_ids |-> ids]
CancelAll(m) == [op |-> "CancelAll", market |-> m]
SetLeverage(l) == [op |-> "SetLeverage", market |-> 1, leverage |-> l]
AdjustMarginOf(m, n) == [op |-> "AdjustMargin", market |-> m, amount |-> n]
AdjustMargin(n) == AdjustMarginOf(1, n)

\* Orders rest when they are post-only, wait for a stop, or do not cross.
Rest(m) == Place(m, "Limit", "Long", 2, 1, 2, TRUE, FALSE)
Stop == Place(1, "StopLimit", "Short", 2, 1, 2, FALSE, FALSE)

BookBatches == {<<Rest(1)>>, <<Rest(1), Rest(2)>>, <<Stop, Cancel(1, <<1, 2>>)>>,
                <<CancelAll(1)>>, <<CancelAll(2), Rest(2)>>}
CancelBatches == {<<Rest(1)>>, <<Rest(2)>>, <<CancelAll(0)>>}

Trade(type, side, price, size) == Place(1, type, side, price, size, 2, FALSE, FALSE)
Trades == {Trade("Market", s, 3, n) : s \in {"Long", "Short"}, n \in {1, 3}}
            \cup {Trade("Limit", "Long", 5, 2), Trade("Limit", "Short", 1, 2),
                  Trade("Limit", "Long", 1, 1)}
Singles == Trades \cup {Place(1, "Market", "Short", 3, 2, 1, FALSE, TRUE),
                        Place(1, "Market", "Long", 3, 1, 0, FALSE, FALSE),
                        SetLeverage(101), SetLeverage(3), AdjustMargin(4)}
TradeBatches == {<<o>> : o \in Singles} \cup {<<AdjustMargin(4), o>> : o \in Trades}
                  \cup {<<Trade("Market", "Long", 3, 1), Trade("Market", "Short", 3, 3)>>,
                        <<Trade("Limit", "Long", 5, 2), AdjustMargin(1)>>}

\* Orders that are clamped, that overflow the position, and one of which the
\* notional wraps; a market order of price 0 needs no margin.
WideBatches == {<<Trade("Market", s, 0, n)>> : s \in {"Long", "Short"}, n \in {4, 9}}
                 \cup {<<Trade("Limit", "Long", 130, 2)>>, <<Trade("Market", "Long", 3, 1)>>,
                       <<Place(1, "Market", "Short", 0, 9, 1, FALSE, TRUE)>>}

CONSTANTS u1, u2

\* Two users, whose resting orders come and go in two markets; and one who
\* trades in one of them, small orders or large ones.
BookWorkload == [users |-> {u1, u2}, batches |-> BookBatches, maxNonce |-> 2, maxOrderId |-> 3]
TradeWorkload == [users |-> {u1}, batches |-> TradeBatches, maxNonce |-> 4, maxOrderId |-> 6]
WideWorkload == [users |-> {u1}, batches |-> WideBatches, maxNonce |-> 4, maxOrderId |-> 6]
MCWorkloads == {BookWorkload, TradeWorkload, WideWorkload}
CancelWorkloads == {[users |-> {u1}, batches |-> CancelBatches, maxNonce |-> 3, maxOrderId |-> 3]}

\* Two positions, and their margins in one transaction.
MarginBatches == {<<Trade("Market", "Long", 3, 1)>>, <<Place(2, "Market", "Long", 3, 1, 2, FALSE, FALSE)>>,
                  <<AdjustMarginOf(1, 4), AdjustMarginOf(2, 2)>>}
MarginWorkloads == {[users |-> {u1}, batches |-> MarginBatches, maxNonce |-> 4, maxOrderId |-> 4]}

MCMarkPrice == [m \in Markets |-> 3]
=============================================================================
