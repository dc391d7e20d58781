------------------------------ MODULE PerpDex ------------------------------
(***************************************************************************)
(* The Perp DEX: its executor (perpdex/executor.rs) and its in-memory      *)
(* storage (perpdex/storage.rs), shared by threads.                        *)
(*                                                                         *)
(* execute() reads the storage and returns a write set.  Whoever calls it  *)
(* applies the write set with set() and delete(); no code does this yet,   *)
(* so that the caller is external here: it runs one transaction of a user  *)
(* at a time, and is free to apply a Deleted with either operation.  An    *)
(* operation reads only locations of its own user (and market states,      *)
(* which nothing writes): it is one step.  set() and delete() lock the     *)
(* order index and the data one after the other: two steps.                *)
(*                                                                         *)
(* Sizes of positions are i128, all other amounts U256.  Where the code    *)
(* clamps or may overflow, so does the model; an i128 addition that does   *)
(* not fit wraps, as in a release build (a debug build panics).            *)
(***************************************************************************)
EXTENDS Integers, Sequences, FiniteSets, SequencesExt

CONSTANTS
  Users,
  Markets,             \* market ids
  Threads,
  Workloads,           \* records [users, batches, maxNonce, maxOrderId]: who sends
                       \* which lists of operations; no transaction starts
                       \* beyond the two bounds
  InitialBalance,      \* what with_balances gives to every user, in USDC
  MarkPrice,           \* market -> mark_price of its MarketState
  PricePrecision,      \* PRICE_PRECISION
  I128Max, U256Max     \* the largest i128, the largest U256

U256 == 0 .. U256Max
I128 == -(I128Max + 1) .. I128Max

\* Operation; market 0 of a CancelAll is None.
Operations ==
  [op : {"PlaceOrder"}, market : Markets, type : {"Limit", "Market", "StopLimit", "StopMarket"},
   side : {"Long", "Short"}, price : U256, size : U256, leverage : Nat, post_only : BOOLEAN,
   reduce_only : BOOLEAN]
  \cup [op : {"CancelOrder"}, market : Markets, order_ids : Seq(Nat)]
  \cup [op : {"CancelAll"}, market : Markets \cup {0}]
  \cup [op : {"SetLeverage"}, market : Markets, leverage : Nat]
  \cup [op : {"AdjustMargin"}, market : Markets, amount : U256]

ASSUME MarketsAssumption ==
  /\ Users # {} /\ IsFiniteSet(Markets) /\ 0 \notin Markets
  /\ I128Max \in Nat \ {0} /\ U256Max \in Nat /\ U256Max > I128Max
  /\ MarkPrice \in [Markets -> U256] /\ PricePrecision \in U256 \ {0} /\ InitialBalance \in U256
ASSUME WorkloadsAssumption ==
  \A w \in Workloads :
    /\ w.users \subseteq Users /\ w.maxNonce \in Nat /\ w.maxOrderId \in Nat
    /\ \A b \in w.batches : b \in Seq(Operations)

VARIABLES
  workload,            \* the transactions that are sent
  data,                \* InMemoryStorage.data
  user_orders,         \* InMemoryStorage.user_orders
  next_order_id,       \* PerpDexExecutor.next_order_id
  pc, user, ops,       \* where a thread is, whose transaction, what is left of it
  write_set,           \* the WriteSet of the execution
  filled,              \* history: market -> the fill, with its sign, that was reported
                       \* (OperationResult) by the last operation to write the position
  reported,            \* history: the sums of these, of all applied transactions
  overflowed           \* history: the positions that a fill was too large for

storage == <<data, user_orders>>
locals == <<pc, user, ops, write_set>>
history == <<filled, reported, overflowed>>
dexVars == <<workload, storage, next_order_id, locals, history>>

\* PerpDexLocation; the only asset is USDC.
Balance(u) == <<"Balance", u>>
Position(u, m) == <<"Position", u, m>>
Order(u, m, id) == <<"Order", u, m, id>>
UserNonce(u) == <<"UserNonce", u>>

\* PerpDexValue::Deleted, which only orders can be.
Deleted == [deleted |-> TRUE]
IsOrder(l) == l[1] = "Order"

Write(l, v) == [loc |-> l, val |-> v]
IsDeletion(w) == IsOrder(w.loc) /\ w.val = Deleted

\* InMemoryStorage::get, with the executor's defaults for a missing value.
Get(l, default) == IF l \in DOMAIN data THEN data[l] ELSE default
NoPosition == [none |-> TRUE]
BalanceOf(u) == Get(Balance(u), 0)
NonceOf(u) == Get(UserNonce(u), 0)
PositionOf(u, m) == Get(Position(u, m), NoPosition)

DexInit ==
  /\ workload \in Workloads
  /\ data = [l \in {Balance(u) : u \in Users} |-> InitialBalance]
  /\ user_orders = [u \in Users |-> [m \in Markets |-> <<>>]]
  /\ next_order_id = 1
  /\ pc = [th \in Threads |-> "idle"]
  /\ user = [th \in Threads |-> CHOOSE u \in Users : TRUE]
  /\ ops = [th \in Threads |-> <<>>]
  /\ write_set = [th \in Threads |-> <<>>]
  /\ filled = [th \in Threads |-> [m \in Markets |-> 0]]
  /\ reported = [u \in Users |-> [m \in Markets |-> 0]]
  /\ overflowed = {}

-----------------------------------------------------------------------------
(* Margins and positions *)

Abs(n) == IF n < 0 THEN -n ELSE n
Signum(n) == IF n > 0 THEN 1 ELSE IF n < 0 THEN -1 ELSE 0
Direction(side) == IF side = "Long" THEN 1 ELSE -1
ValidLeverage(leverage) == leverage \in 1 .. 100

WrapU256(n) == n % (U256Max + 1)
WrapI128(n) == ((n + I128Max + 1) % (2 * (I128Max + 1))) - (I128Max + 1)

\* i128::abs, which has no answer for the smallest number.
AbsI128(n) == IF n = -(I128Max + 1) THEN n ELSE Abs(n)

\* try_into().unwrap_or(i128::MAX), with a sign.
SizeDelta(side, size) == Direction(side) * (IF size > I128Max THEN I128Max ELSE size)

Notional(price, size) == WrapU256(price * size) \div PricePrecision
CalculateRequiredMargin(price, size, leverage) == Notional(price, size) \div leverage

IsReducing(order, position) == position # 0 /\ (order > 0) # (position > 0)

\* Mutant: the average is taken over the old size.
EntryPriceOldSize(pos, delta, price) ==
  LET size     == WrapI128(pos.size + delta)
      notional == WrapU256(Notional(pos.entry, Abs(pos.size)) + Notional(price, Abs(delta)))
  IN CASE Signum(pos.size) = Signum(delta) -> WrapU256(notional * PricePrecision) \div Abs(pos.size)
       [] Signum(pos.size) # Signum(delta) /\ AbsI128(size) < AbsI128(pos.size) -> pos.entry
       [] OTHER -> price

\* The average when a fill adds to the position, the old price when it closes
\* a part of it, the price of the fill when it flips it.
EntryPrice(pos, delta, price) ==
  LET size     == WrapI128(pos.size + delta)
      notional == WrapU256(Notional(pos.entry, Abs(pos.size)) + Notional(price, Abs(delta)))
  IN CASE Signum(pos.size) = Signum(delta) /\ size # 0 -> WrapU256(notional * PricePrecision) \div Abs(size)
       [] Signum(pos.size) = Signum(delta) /\ size = 0 -> 0
       [] Signum(pos.size) # Signum(delta) /\ AbsI128(size) < AbsI128(pos.size) -> pos.entry
       [] OTHER -> price

\* Mutant: the size of the fill is taken without its sign.
UpdatePositionUnsigned(pos, side, size, price, leverage) ==
  LET delta == Abs(SizeDelta(side, size))
      sum   == WrapI128(pos.size + delta)
      entry == EntryPrice(pos, delta, price)
  IN IF pos = NoPosition
       THEN [size |-> delta, entry |-> price, leverage |-> leverage,
             margin |-> CalculateRequiredMargin(price, size, leverage)]
       ELSE [size |-> sum, entry |-> entry, leverage |-> leverage,
             margin |-> CalculateRequiredMargin(entry, Abs(sum), leverage)]

\* After a fill of some size.
UpdatePosition(pos, side, size, price, leverage) ==
  LET delta == SizeDelta(side, size)
      sum   == WrapI128(pos.size + delta)
      entry == EntryPrice(pos, delta, price)
  IN IF pos = NoPosition
       THEN [size |-> delta, entry |-> price, leverage |-> leverage,
             margin |-> CalculateRequiredMargin(price, size, leverage)]
       ELSE [size |-> sum, entry |-> entry, leverage |-> leverage,
             margin |-> CalculateRequiredMargin(entry, Abs(sum), leverage)]

\* A fill is clamped, or wraps the size.
TooLarge(pos, side, size) ==
  size > I128Max \/ (pos # NoPosition /\ pos.size + SizeDelta(side, size) \notin I128)

-----------------------------------------------------------------------------
(* The operations: each yields its writes and its fill, or fails *)

Failed == [ok |-> FALSE]
Done(writes) == [ok |-> TRUE, writes |-> writes, market |-> 0, filled |-> 0, overflow |-> FALSE]
\* ... of an operation that writes the position in a market.
DoneAt(m, filled_size, overflow, writes) ==
  [ok |-> TRUE, writes |-> writes, market |-> m, filled |-> filled_size, overflow |-> overflow]

\* Of a market's state, an order looks only at the mark price.
ReadMarket(m) == MarkPrice[m]

\* execute_market_order, execute_limit_order: does the order fill at once?
Fills(o) ==
  \/ o.type = "Market"
  \/ /\ o.type = "Limit" /\ ~o.post_only
     /\ IF o.side = "Long" THEN ReadMarket(o.market) <= o.price ELSE ReadMarket(o.market) >= o.price

ReduceOnlyViolation(o, pos) ==
  o.reduce_only /\ (pos = NoPosition \/ ~IsReducing(SizeDelta(o.side, o.size), pos.size))

FillPrice(o) == IF o.type = "Market" THEN ReadMarket(o.market) ELSE o.price

\* A fill is always complete; an order that does not fill rests in the book.
ExecutePlaceOrder(u, o) ==
  LET balance  == BalanceOf(u)
      pos      == PositionOf(u, o.market)
      required == CalculateRequiredMargin(o.price, o.size, o.leverage)
      size     == IF Fills(o) THEN o.size ELSE 0
      rest     == o.size - size
      order    == IF rest > 0 THEN <<Write(Order(u, o.market, next_order_id), [size |-> rest])>> ELSE <<>>
  IN IF \/ ~ValidLeverage(o.leverage)
        \/ balance < required
        \/ Fills(o) /\ ReduceOnlyViolation(o, pos)
     THEN Failed
     ELSE IF size = 0
     THEN Done(order)
     ELSE DoneAt(o.market, Direction(o.side) * size, TooLarge(pos, o.side, size),
            order \o <<Write(Position(u, o.market),
                             UpdatePosition(pos, o.side, size, FillPrice(o), o.leverage)),
                       Write(Balance(u), balance - required)>>)

ExecuteCancelOrder(u, o) ==
  Done([i \in DOMAIN o.order_ids |-> Write(Order(u, o.market, o.order_ids[i]), Deleted)])

\* Mutant: the market of the filter is forgotten.
ExecuteCancelAllAnywhere(u, o) ==
  LET ids == IF o.market = 0 THEN FlattenSeq(SetToSeq({user_orders[u][m] : m \in Markets}))
                             ELSE user_orders[u][o.market]
  IN Done([i \in DOMAIN ids |-> Write(Order(u, 0, ids[i]), Deleted)])

\* market 0 is None: the orders of all markets, looked for in market 0.
ExecuteCancelAll(u, o) ==
  LET ids == IF o.market = 0 THEN FlattenSeq(SetToSeq({user_orders[u][m] : m \in Markets}))
                             ELSE user_orders[u][o.market]
  IN Done([i \in DOMAIN ids |-> Write(Order(u, o.market, ids[i]), Deleted)])

\* The leverage is checked, and written nowhere.
ExecuteSetLeverage(u, o) == IF ValidLeverage(o.leverage) THEN Done(<<>>) ELSE Failed

\* Mutant: the balance is not checked.
ExecuteAdjustMarginUnchecked(u, o) ==
  LET balance == BalanceOf(u)
      pos     == PositionOf(u, o.market)
  IN IF pos = NoPosition
       THEN Failed
       ELSE DoneAt(o.market, 0, FALSE,
              <<Write(Position(u, o.market), [pos EXCEPT !.margin = WrapU256(@ + o.amount)]),
                Write(Balance(u), balance - o.amount)>>)

ExecuteAdjustMargin(u, o) ==
  LET balance == BalanceOf(u)
      pos     == PositionOf(u, o.market)
  IN IF o.amount > balance \/ pos = NoPosition
       THEN Failed
       ELSE DoneAt(o.market, 0, FALSE,
              <<Write(Position(u, o.market), [pos EXCEPT !.margin = WrapU256(@ + o.amount)]),
                Write(Balance(u), balance - o.amount)>>)

ExecuteOperation(u, o) ==
  CASE o.op = "PlaceOrder"   -> ExecutePlaceOrder(u, o)
    [] o.op = "CancelOrder"  -> ExecuteCancelOrder(u, o)
    [] o.op = "CancelAll"    -> ExecuteCancelAll(u, o)
    [] o.op = "SetLeverage"  -> ExecuteSetLeverage(u, o)
    [] o.op = "AdjustMargin" -> ExecuteAdjustMargin(u, o)

-----------------------------------------------------------------------------
(* PerpDexExecutor::execute *)

Goto(th, l) == pc' = [pc EXCEPT ![th] = l]

\* Verify the nonce.  The caller has no other transaction of this user at work.
Execute(th, u, batch, nonce) ==
  /\ pc[th] = "idle"
  /\ \A o \in Threads : pc[o] # "idle" => user[o] # u
  /\ nonce = NonceOf(u)
  /\ nonce < workload.maxNonce /\ next_order_id <= workload.maxOrderId
  /\ user' = [user EXCEPT ![th] = u]
  /\ ops' = [ops EXCEPT ![th] = batch]
  /\ Goto(th, "operations")
  /\ UNCHANGED <<workload, storage, next_order_id, write_set, history>>

NonceMismatch(th, u, nonce) ==
  /\ pc[th] = "idle"
  /\ nonce # NonceOf(u)
  /\ UNCHANGED dexVars

\* Mutant: the counter is only read.
GenerateOrderIdStale(r, o) == next_order_id' = next_order_id

\* generate_order_id: an order takes an id whether it rests or not.
GenerateOrderId(r, o) ==
  next_order_id' = IF r.ok /\ o.op = "PlaceOrder" THEN next_order_id + 1 ELSE next_order_id

\* One operation; an error drops everything the transaction would have written.
Operate(th) ==
  /\ pc[th] = "operations" /\ ops[th] # <<>>
  /\ LET o == Head(ops[th])
         r == ExecuteOperation(user[th], o)
     IN /\ GenerateOrderId(r, o)
        /\ IF r.ok
             THEN /\ ops' = [ops EXCEPT ![th] = Tail(@)]
                  /\ write_set' = [write_set EXCEPT ![th] = @ \o r.writes]
                  /\ filled' = [filled EXCEPT ![th] =
                                 [m \in Markets |-> IF m = r.market THEN r.filled ELSE @[m]]]
                  /\ overflowed' = IF r.overflow THEN overflowed \cup {<<user[th], r.market>>} ELSE overflowed
                  /\ pc' = pc
             ELSE /\ Goto(th, "idle")
                  /\ ops' = [ops EXCEPT ![th] = <<>>]
                  /\ write_set' = [write_set EXCEPT ![th] = <<>>]
                  /\ filled' = [filled EXCEPT ![th] = [m \in Markets |-> 0]]
                  /\ overflowed' = overflowed
  /\ UNCHANGED <<workload, storage, user, reported>>

\* No operation is left: the nonce is the last write.
UpdateNonce(th) ==
  /\ pc[th] = "operations" /\ ops[th] = <<>>
  /\ Goto(th, "apply")
  /\ write_set' = [write_set EXCEPT ![th] =
                    Append(@, Write(UserNonce(user[th]), NonceOf(user[th]) + 1))]
  /\ UNCHANGED <<workload, storage, next_order_id, user, ops, history>>

-----------------------------------------------------------------------------
(* InMemoryStorage::set and delete, as the caller applies the write set *)

\* After a write: the next one, or the transaction is applied.
Applied(th) ==
  /\ write_set' = [write_set EXCEPT ![th] = Tail(@)]
  /\ IF Len(write_set[th]) = 1
       THEN /\ Goto(th, "idle")
            /\ filled' = [filled EXCEPT ![th] = [m \in Markets |-> 0]]
            /\ reported' = [reported EXCEPT ![user[th]] =
                              [m \in Markets |-> @[m] + filled[th][m]]]
       ELSE Goto(th, "apply") /\ UNCHANGED <<filled, reported>>
  /\ UNCHANGED <<workload, next_order_id, user, ops, overflowed>>

\* The index entry of an order's user and market; there is no market 0, and
\* nothing is changed there.
IdsAt(l) == IF l[3] \in Markets THEN user_orders[l[2]][l[3]] ELSE <<>>
SetIdsAt(l, ids) ==
  user_orders' = [user_orders EXCEPT ![l[2]] = [m \in Markets |-> IF m = l[3] THEN ids ELSE @[m]]]

\* set of an order: the index first.
AddOrderIndex(th) ==
  /\ pc[th] = "apply"
  /\ LET w == Head(write_set[th])
     IN /\ IsOrder(w.loc) /\ ~IsDeletion(w)
        /\ SetIdsAt(w.loc, Append(IdsAt(w.loc), w.loc[4]))
  /\ Goto(th, "insert")
  /\ UNCHANGED <<workload, data, next_order_id, user, ops, write_set, history>>

\* ... then, as for any other location or a Deleted, the data.
InsertData(th) ==
  /\ LET w == Head(write_set[th])
     IN /\ \/ pc[th] = "insert"
           \/ pc[th] = "apply" /\ (IsOrder(w.loc) => IsDeletion(w))
        /\ data' = [l \in DOMAIN data \cup {w.loc} |-> IF l = w.loc THEN w.val ELSE data[l]]
  /\ Applied(th)
  /\ UNCHANGED user_orders

\* Mutant: the whole list is dropped.
RemoveOrderIndexAll(th) ==
  /\ pc[th] = "apply"
  /\ LET w == Head(write_set[th])
     IN /\ IsDeletion(w)
        /\ SetIdsAt(w.loc, <<>>)
  /\ Goto(th, "remove")
  /\ UNCHANGED <<workload, data, next_order_id, user, ops, write_set, history>>

\* Vec::retain of the ids other than one.
Retain(ids, id) ==
  LET kept[n \in 0 .. Len(ids)] ==
        IF n = 0 THEN <<>> ELSE IF ids[n] = id THEN kept[n - 1] ELSE Append(kept[n - 1], ids[n])
  IN kept[Len(ids)]

\* delete of an order: the index first, then the data.
RemoveOrderIndex(th) ==
  /\ pc[th] = "apply"
  /\ LET w == Head(write_set[th])
     IN /\ IsDeletion(w)
        /\ SetIdsAt(w.loc, Retain(IdsAt(w.loc), w.loc[4]))
  /\ Goto(th, "remove")
  /\ UNCHANGED <<workload, data, next_order_id, user, ops, write_set, history>>

RemoveData(th) ==
  /\ pc[th] = "remove"
  /\ LET w == Head(write_set[th])
     IN data' = [l \in DOMAIN data \ {w.loc} |-> data[l]]
  /\ Applied(th)
  /\ UNCHANGED user_orders

DexNext ==
  \E th \in Threads :
    \/ \E u \in workload.users, nonce \in 0 .. workload.maxNonce :
         NonceMismatch(th, u, nonce) \/ \E batch \in workload.batches : Execute(th, u, batch, nonce)
    \/ Operate(th) \/ UpdateNonce(th)
    \/ AddOrderIndex(th) \/ InsertData(th) \/ RemoveOrderIndex(th) \/ RemoveData(th)

DexSpec == DexInit /\ [][DexNext]_dexVars

-----------------------------------------------------------------------------
(* Properties *)

Applying(l) == \E th \in Threads : pc[th] \in {"insert", "remove"} /\ Head(write_set[th]).loc = l
Live(l) == IsOrder(l) /\ l \in DOMAIN data /\ data[l] # Deleted

\* U256 subtractions of the executor do not wrap: no balance is overdrawn,
\* although the operations of a batch do not see each other's writes.
NeverOverdrawn ==
  /\ \A u \in Users : BalanceOf(u) >= 0
  /\ \A th \in Threads : \A i \in DOMAIN write_set[th] :
       write_set[th][i].loc[1] = "Balance" => write_set[th][i].val >= 0

\* The orders in the book and on their way to it.
OrdersAndPending ==
  {l \in DOMAIN data : Live(l)} \cup
  {w.loc : w \in UNION {{v \in Range(write_set[th]) : IsOrder(v.loc) /\ ~IsDeletion(v)} : th \in Threads}}

\* One executor serves all threads and users: no two orders, in the book or in
\* a write set that is still to be applied, share an id.
OrderIdsAreUnique ==
  \A k, l \in OrdersAndPending : k[4] = l[4] => k = l

\* The index and the data are changed under two locks.  Nevertheless, every
\* order in the book that nobody is working on is in the index of its user and
\* market, once: this is what CancelAll finds.
IndexFindsOrders ==
  \A l \in DOMAIN data : Live(l) /\ ~Applying(l) =>
    LET ids == user_orders[l[2]][l[3]]
    IN \E i \in DOMAIN ids : \A j \in DOMAIN ids : ids[j] = l[4] <=> j = i

\* Thread th executes a CancelAll of market m in this step.
CancelsAll(th, m) ==
  /\ pc[th] = "operations" /\ ops[th] # <<>>
  /\ Head(ops[th]) = [op |-> "CancelAll", market |-> m]
  /\ ops'[th] = Tail(ops[th])

\* Whatever was placed and cancelled before, by set or by delete, a CancelAll of
\* one market puts into its write set the deletion of every order that its user
\* has in that market: nothing is left there when it has been applied.
CancelAllEmptiesMarket ==
  [][\A th \in Threads, m \in Markets : CancelsAll(th, m) =>
       \A l \in DOMAIN data : Live(l) /\ l[2] = user[th] /\ l[3] = m =>
         \E w \in Range(write_set'[th]) : w.loc = l /\ IsDeletion(w)]_dexVars

\* types.rs:52-56, "Cancel all orders", "None = all markets": the same for a
\* CancelAll without a market.
CancelAllEmptiesAllMarkets ==
  [][\A th \in Threads : CancelsAll(th, 0) =>
       \A l \in DOMAIN data : Live(l) /\ l[2] = user[th] =>
         \E w \in Range(write_set'[th]) : w.loc = l /\ IsDeletion(w)]_dexVars

\* A user's position is the sum of the fills that were reported to the user
\* (OrderPlaced.filled_size), whatever was opened, closed or flipped between: of
\* each transaction, the fill of the last operation that writes the position (an
\* AdjustMargin fills nothing), as operations do not see the writes of those
\* before them.  Only where a fill was too large for the i128 is it another.
PositionIsLastFills ==
  \A u \in Users : (\A th \in Threads : pc[th] # "idle" => user[th] # u) =>
    \A m \in Markets : <<u, m>> \notin overflowed =>
      reported[u][m] = IF PositionOf(u, m) = NoPosition THEN 0 ELSE PositionOf(u, m).size

\* The prices at which orders of this module's transactions can fill.
FillPrices == UNION {{FillPrice(b[i]) : i \in {j \in DOMAIN b : b[j].op = "PlaceOrder"}} : b \in workload.batches}

\* Averaging, its rounding and the U256 products that wrap never lift the entry
\* price above the highest price that anything was filled at, unless the size
\* itself has overflowed: then a large notional is divided by a small size.
EntryPriceIsBounded ==
  \A u \in Users, m \in Markets : PositionOf(u, m) # NoPosition /\ <<u, m>> \notin overflowed =>
    \E p \in FillPrices : PositionOf(u, m).entry <= p

\* What the write set of a thread leaves at a location, when it has been applied.
After(th, l, default) ==
  LET at == {i \in DOMAIN write_set[th] : write_set[th][i].loc = l}
  IN IF at = {} THEN Get(l, default) ELSE write_set[th][Max(at)].val
BalanceAfter(th) == After(th, Balance(user[th]), 0)

\* Thread th executes an operation in this step, which does not fail.
Executes(th) == pc[th] = "operations" /\ ops[th] # <<>> /\ pc'[th] = "operations"

\* executor.rs:437, "Deduct from balance" (and 603): operations deduct from the
\* balance only, so that none leaves more of it than those before it have left.
DeductionsStay ==
  [][\A th \in Threads : Executes(th) => BalanceAfter(th)' <= BalanceAfter(th)]_dexVars
=============================================================================
