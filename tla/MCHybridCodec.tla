--------------------------- MODULE MCHybridCodec ---------------------------
(***************************************************************************)
(* Transactions of up to two operations, one or two of each kind.          *)
(***************************************************************************)
EXTENDS HybridCodec

Place(type, side, post, expires) ==
  [op |-> "PlaceOrder", market |-> 1, type |-> type, side |-> side, price |-> 2, size |-> 3,
   leverage |-> 5, post_only |-> post, reduce_only |-> ~post, expires_at |-> expires]

MCOperations ==
  {Place("Limit", "Long", TRUE, <<>>), Place("StopMarket", "Short", FALSE, <<7>>),
   [op |-> "CancelOrder", market |-> 1, order_ids |-> <<>>],
   [op |-> "CancelOrder", market |-> 2, order_ids |-> <<4, 6>>],
   [op |-> "CancelAll", market |-> <<>>], [op |-> "CancelAll", market |-> <<2>>],
   [op |-> "SetLeverage", market |-> 1, leverage |-> 4],
   [op |-> "AdjustMargin", market |-> 2, amount |-> 1]}

OperationLists == {<<>>} \cup {<<o>> : o \in MCOperations} \cup {<<o, p>> : o, p \in MCOperations}

MCTransactions ==
  {[user |-> 9, nonce |-> 5, gas_limit |-> 6, gas_price |-> 1300, operations |-> l] : l \in OperationLists}

\* An operation of no known type; an order of no known type; counts of cancelled
\* orders that are too long, that wrap to nothing, and whose end wraps.
UnknownOperation == <<Field(1, 5)>>
UnknownOrderType == <<Field(1, 0), Field(8, 1), Field(1, 4), Field(80, 0)>>
CancelOrders(count) == <<Field(1, 1), Field(8, 1), Field(8, count), Field(8, 3)>>
MCTrailers ==
  {<<>>, UnknownOperation, UnknownOrderType, CancelOrders(2), CancelOrders(128), CancelOrders(127)}
=============================================================================
