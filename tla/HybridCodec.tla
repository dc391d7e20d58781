---------------------------- MODULE HybridCodec ----------------------------
(***************************************************************************)
(* Perp DEX transactions as the input of Ethereum transactions             *)
(* (hybrid.rs): encode_perpdex_tx, decode_perpdex_tx, decode_operations.   *)
(*                                                                         *)
(* Bytes are modelled as fields, each with its width and its value, and    *)
(* the decoder moves by byte offsets, one operation per step.  What it is  *)
(* given is an encoded transaction, cut off after any number of bytes, or  *)
(* followed by fields of somebody else's encoding.                         *)
(*                                                                         *)
(* Positions are usize of 64 bits and wrap, as in the release build; in a  *)
(* debug build the wrap of DecodeCancelOrder is a panic of its own.        *)
(***************************************************************************)
EXTENDS Integers, Sequences, SequencesExt

CONSTANTS
  Transactions,        \* what is encoded: user, nonce, gas_limit, gas_price, operations
  Fees,                \* max_fee_per_gas of the Ethereum transaction around it
  Trailers,            \* sequences of fields that may follow the last operation
  U64Range             \* 2^64: eight bytes hold the numbers below

VARIABLES
  tx, trailer, fee,    \* what the input is made of
  cut,                 \* the length of the input, in bytes
  state,               \* where the decoder is, or how it ended
  offset,              \* of decode_operations: bytes after the header
  operations,          \* decoded so far
  decoded              \* header fields of the decoded transaction

codecVars == <<tx, trailer, fee, cut, state, offset, operations, decoded>>

-----------------------------------------------------------------------------
(* encode_perpdex_tx *)

Field(width, val) == [width |-> width, val |-> val]

HeaderLen == 44
OrderTypes == <<"Limit", "Market", "StopLimit", "StopMarket">>
Sides == <<"Long", "Short">>

\* An Option is a sequence of at most one value, and 0 as a number if it is empty.
UnwrapOr0(option) == IF option = <<>> THEN 0 ELSE option[1]
Flag(b) == IF b THEN 1 ELSE 0
ByteOf(v, names) == (CHOOSE i \in DOMAIN names : names[i] = v) - 1

EncodeOperation(o) ==
  CASE o.op = "PlaceOrder"   -> <<Field(1, 0), Field(8, o.market), Field(1, ByteOf(o.type, OrderTypes)),
                                  Field(1, ByteOf(o.side, Sides)), Field(32, o.price), Field(32, o.size),
                                  Field(1, o.leverage), Field(1, Flag(o.post_only)),
                                  Field(1, Flag(o.reduce_only)), Field(8, UnwrapOr0(o.expires_at))>>
    [] o.op = "CancelOrder"  -> <<Field(1, 1), Field(8, o.market), Field(8, Len(o.order_ids))>>
                                  \o [i \in DOMAIN o.order_ids |-> Field(8, o.order_ids[i])]
    [] o.op = "CancelAll"    -> <<Field(1, 2), Field(8, UnwrapOr0(o.market))>>
    [] o.op = "SetLeverage"  -> <<Field(1, 3), Field(8, o.market), Field(1, o.leverage)>>
    [] o.op = "AdjustMargin" -> <<Field(1, 4), Field(8, o.market), Field(32, o.amount)>>

\* Of the gas price only the last eight bytes are kept.
EncodeHeader(t) ==
  <<Field(20, t.user), Field(8, t.nonce), Field(8, t.gas_limit), Field(8, t.gas_price % U64Range)>>

Encode(t) ==
  EncodeHeader(t) \o FlattenSeq([i \in DOMAIN t.operations |-> EncodeOperation(t.operations[i])])

\* The Rust types of what is encoded; 0 stands for None, and is nobody's id or time.
Options == {<<>>} \cup [{1} -> Nat \ {0}]
Operations ==
  [op : {"PlaceOrder"}, market : Nat, type : {"Limit", "Market", "StopLimit", "StopMarket"},
   side : {"Long", "Short"}, price : Nat, size : Nat, leverage : Nat,
   post_only : BOOLEAN, reduce_only : BOOLEAN, expires_at : Options]
    \cup [op : {"CancelOrder"}, market : Nat, order_ids : Seq(Nat)]
    \cup [op : {"CancelAll"}, market : Options]
    \cup [op : {"SetLeverage"}, market : Nat, leverage : Nat]
    \cup [op : {"AdjustMargin"}, market : Nat, amount : Nat]

FieldSet == [width : Nat \ {0}, val : Nat]

\* The byte at which each of a sequence of fields ends.
Ends(fields) ==
  LET e[i \in 0 .. Len(fields)] == IF i = 0 THEN 0 ELSE e[i - 1] + fields[i].width
  IN e
Width(fields) == Ends(fields)[Len(fields)]

\* isize::MAX: no slice and no Vec has more bytes.
IsizeMax == (U64Range \div 2) - 1

\* A CancelOrder that announces more ids than there are bytes behind it.
AnnouncesTooMany(f) ==
  /\ Len(f) >= 3 /\ f[1].width = 1 /\ f[2].width = 8 /\ f[3].width = 8
  /\ f[1].val = 1 /\ 17 + 8 * f[3].val > Width(f)

\* A trailer does not go on with a well-formed operation: its type is unknown, or
\* it is an order of an unknown type, or it lacks the ids it announces.
IsForeign(f) ==
  \/ f = <<>>
  \/ f[1].width = 1 /\ f[1].val \notin 0 .. 4
  \/ /\ Len(f) >= 3 /\ f[1].width = 1 /\ f[2].width = 8
     /\ f[1].val = 0 /\ f[3].val \notin 0 .. 3
  \/ AnnouncesTooMany(f)

ASSUME TransactionsAssumption ==
  Transactions \subseteq [user : Nat, nonce : Nat, gas_limit : Nat, gas_price : Nat,
                          operations : Seq(Operations)]
ASSUME TrailersAssumption == \A f \in Trailers : f \in Seq(FieldSet) /\ IsForeign(f)
ASSUME U64Assumption == U64Range \in Nat \ {0}
ASSUME InputAssumption ==
  \A t \in Transactions, f \in Trailers : Width(Encode(t) \o f) <= IsizeMax

-----------------------------------------------------------------------------
(* The input of the decoder *)

Fields == Encode(tx) \o trailer

\* The value of the field that starts at a byte of the input, or at a byte of
\* the operations.
Input(at) == LET e == Ends(Fields)
             IN Fields[CHOOSE i \in DOMAIN Fields : e[i - 1] = at].val
Data(at) == Input(HeaderLen + at)
DataLen == cut - HeaderLen

CodecInit ==
  /\ tx \in Transactions /\ trailer \in Trailers /\ fee \in Fees
  /\ cut \in 0 .. Width(Fields)
  /\ state = "header"
  /\ offset = 0 /\ operations = <<>> /\ decoded = <<>>

-----------------------------------------------------------------------------
(* decode_perpdex_tx and decode_operations *)

Finish(s) ==
  /\ state' = s
  /\ UNCHANGED <<tx, trailer, fee, cut, offset, operations, decoded>>

Reject == Finish("InvalidFormat")

\* The header; the gas price is the fee of the Ethereum transaction.
DecodeHeader ==
  /\ state = "header"
  /\ IF cut < HeaderLen
       THEN Finish("InvalidLength")
       ELSE /\ decoded' = [user |-> Input(0), nonce |-> Input(20), gas_limit |-> Input(28),
                           gas_price |-> fee]
            /\ state' = "operations"
            /\ UNCHANGED <<tx, trailer, fee, cut, offset, operations>>

DecodeEnd ==
  /\ state = "operations" /\ offset >= DataLen
  /\ Finish("Ok")

\* The next operation has type n.
IsNext(n) == state = "operations" /\ offset < DataLen /\ Data(offset) = n

\* Are there n bytes after the byte with the type?
Has(n) == offset + 1 + n <= DataLen

\* Push an operation whose parameters were n bytes.
Push(o, n) ==
  /\ operations' = Append(operations, o)
  /\ offset' = offset + 1 + n
  /\ UNCHANGED <<tx, trailer, fee, cut, state, decoded>>

\* Mutant: 0 is not taken for None.
OptionOfSome(raw) == <<raw>>

OptionOf(raw) == IF raw = 0 THEN <<>> ELSE <<raw>>

DecodePlaceOrder ==
  LET p == offset + 1
  IN /\ IsNext(0)
     /\ IF Has(89) /\ Data(p + 8) \in 0 .. 3
          THEN Push([op |-> "PlaceOrder", market |-> Data(p), type |-> OrderTypes[Data(p + 8) + 1],
                     side |-> IF Data(p + 9) = 0 THEN "Long" ELSE "Short",
                     price |-> Data(p + 10), size |-> Data(p + 42), leverage |-> Data(p + 74),
                     post_only |-> Data(p + 75) # 0, reduce_only |-> Data(p + 76) # 0,
                     expires_at |-> OptionOf(Data(p + 77))], 85)
          ELSE Reject

\* Arithmetic of usize.
Usize(n) == n % U64Range

\* The check in front of the ids: their bytes are counted in usize, and so is where
\* they end.
PassesCheck(count) == Usize(offset + 17 + Usize(8 * count)) <= DataLen

\* A count whose bytes wrap past the check fails in Vec::with_capacity.
DecodeCancelOrder ==
  LET p == offset + 1
      count == Data(p + 8)
  IN /\ IsNext(1)
     /\ \/ /\ ~(Has(16) /\ PassesCheck(count))
           /\ Reject
        \/ /\ Has(16) /\ PassesCheck(count) /\ 8 * count > IsizeMax
           /\ Finish("panic")
        \/ /\ Has(16) /\ PassesCheck(count) /\ 8 * count <= IsizeMax
           /\ Push([op |-> "CancelOrder", market |-> Data(p),
                    order_ids |-> [i \in 1 .. count |-> Data(p + 8 + 8 * i)]], 16 + 8 * count)

DecodeCancelAll ==
  /\ IsNext(2)
  /\ IF Has(8) THEN Push([op |-> "CancelAll", market |-> OptionOf(Data(offset + 1))], 8)
               ELSE Reject

DecodeSetLeverage ==
  /\ IsNext(3)
  /\ IF Has(9)
       THEN Push([op |-> "SetLeverage", market |-> Data(offset + 1), leverage |-> Data(offset + 9)], 9)
       ELSE Reject

\* Mutant: the market is forgotten in the check.
DecodeAdjustMarginShort ==
  /\ IsNext(4)
  /\ IF Has(32)
       THEN Push([op |-> "AdjustMargin", market |-> Data(offset + 1), amount |-> Data(offset + 9)], 40)
       ELSE Reject

DecodeAdjustMargin ==
  /\ IsNext(4)
  /\ IF Has(40)
       THEN Push([op |-> "AdjustMargin", market |-> Data(offset + 1), amount |-> Data(offset + 9)], 40)
       ELSE Reject

DecodeUnknown ==
  /\ state = "operations" /\ offset < DataLen /\ Data(offset) \notin 0 .. 4
  /\ Reject

CodecNext ==
  \/ DecodeHeader \/ DecodeEnd \/ DecodeUnknown
  \/ DecodePlaceOrder \/ DecodeCancelOrder \/ DecodeCancelAll
  \/ DecodeSetLeverage \/ DecodeAdjustMargin

CodecSpec == CodecInit /\ [][CodecNext]_codecVars

-----------------------------------------------------------------------------
(* Properties *)

\* Wherever the input is cut off, and whatever the checks of decode_operations
\* let pass, no byte after its end is read (which panics).  The only panic left is
\* that of with_capacity, and it takes a foreign CancelOrder that announces more
\* ids than an address space holds: the encoding of a transaction never ends so.
ReadsInBounds ==
  /\ state \in {"operations", "Ok"} => offset <= DataLen
  /\ state = "panic" => AnnouncesTooMany(trailer) /\ 8 * trailer[3].val > IsizeMax

\* Whatever decoding accepts is what was encoded: the header, and exactly the
\* operations that end within the input.  A cut inside of an operation, or a
\* foreign field, is never decoded as something else.
DecodesWhatWasEncoded ==
  state = "Ok" =>
    /\ decoded = [user |-> tx.user, nonce |-> tx.nonce, gas_limit |-> tx.gas_limit, gas_price |-> fee]
    /\ IsPrefix(operations, tx.operations)
    /\ Width(Encode([tx EXCEPT !.operations = operations])) = cut

\* hybrid.rs:390, "test_encode_decode_simple_order": a whole transaction that
\* was encoded by encode_perpdex_tx is not rejected.
AcceptsWhatWasEncoded ==
  trailer = <<>> /\ cut = Width(Fields) => state \notin {"InvalidLength", "InvalidFormat"}
=============================================================================
