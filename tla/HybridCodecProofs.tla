-------------------------- MODULE HybridCodecProofs --------------------------
(***************************************************************************)
(* decode inverts encode: for all transactions, of any number of           *)
(* operations, cut off after any byte or followed by foreign fields.       *)
(***************************************************************************)
EXTENDS HybridCodec, TLAPS, NaturalsInduction, WellFoundedInduction

-----------------------------------------------------------------------------
(* Recursion over the numbers up to n *)

\* A nonempty set of natural numbers has a least element.
LEMMA LeastNumber ==
  ASSUME NEW S \in SUBSET Nat, S # {}
  PROVE  \E m \in S : \A n \in S : ~(n < m)
<1>1. PICK m \in S : \A n \in S : ~(<<n, m>> \in OpToRel(<, Nat))
  BY NatLessThanWellFounded, WFMin
<1> QED
  BY <1>1 DEF OpToRel

\* The function that starts with z and goes on with the given steps, within V.
Steps(V, n, step) == \A k \in 1 .. n, v \in V : step[k][v] \in V
Iterates(f, V, z, n, step) ==
  f \in [0 .. n -> V] /\ f[0] = z /\ \A k \in 1 .. n : f[k] = step[k][f[k - 1]]

\* A recursive definition whose steps stay within a set defines a function.
LEMMA Recursion ==
  ASSUME NEW V, NEW z \in V, NEW n \in Nat, NEW step, Steps(V, n, step)
  PROVE  \E f : Iterates(f, V, z, n, step)
<1> USE DEF Steps, Iterates
<1> DEFINE Eq(f, m) == f \in [0 .. m -> V] /\ f[0] = z /\ \A k \in 1 .. m : f[k] = step[k][f[k - 1]]
           Bad == {m \in 0 .. n : ~\E f : Eq(f, m)}
<1>1. CASE Bad = {}
  <2>1. n \in 0 .. n
    OBVIOUS
  <2> QED
    BY <1>1, <2>1
<1>2. CASE Bad # {}
  <2>0. Bad \in SUBSET Nat
    OBVIOUS
  <2>1. PICK m \in Bad : \A k \in Bad : ~(k < m)
    BY <1>2, <2>0, LeastNumber
  <2>2. CASE m = 0
    <3> DEFINE f == [k \in 0 .. 0 |-> z]
    <3>1. Eq(f, 0)
      OBVIOUS
    <3> QED
      BY <2>1, <2>2, <3>1
  <2>3. CASE m # 0
    <3>1. m \in Nat /\ m <= n /\ m - 1 \in 0 .. n /\ m - 1 < m
      BY <2>1, <2>3
    <3>2. PICK f : Eq(f, m - 1)
      BY <2>1, <3>1
    <3> DEFINE g == [k \in 0 .. m |-> IF k = m THEN step[m][f[m - 1]] ELSE f[k]]
    <3>3. f[m - 1] \in V /\ step[m][f[m - 1]] \in V
      BY <2>3, <3>1, <3>2
    <3>4. g \in [0 .. m -> V]
      BY <3>1, <3>2, <3>3
    <3>5. ASSUME NEW k \in 1 .. m PROVE g[k] = step[k][g[k - 1]]
      <4>1. CASE k = m
        BY <2>3, <3>1, <4>1
      <4>2. CASE k # m
        <5>1. k \in 1 .. m - 1 /\ k - 1 \in 0 .. m - 1
          BY <3>1, <4>2
        <5>2. f[k] = step[k][f[k - 1]]
          BY <3>2, <5>1
        <5>3. g[k] = f[k] /\ g[k - 1] = f[k - 1]
          BY <3>1, <4>2, <5>1
        <5> QED
          BY <5>2, <5>3
      <4> QED
        BY <4>1, <4>2
    <3>6. g[0] = z
      BY <2>3, <3>1, <3>2
    <3>7. Eq(g, m)
      BY <3>4, <3>5, <3>6
    <3> QED
      BY <2>1, <3>7
  <2> QED
    BY <2>2, <2>3
<1> QED
  BY <1>1, <1>2

-----------------------------------------------------------------------------
(* Fields and where they end *)

\* The recursive definition of Ends: each field ends its width after the one before.
LEMMA EndsFacts ==
  ASSUME NEW s \in Seq(FieldSet)
  PROVE  /\ Ends(s) \in [0 .. Len(s) -> Nat]
         /\ Ends(s)[0] = 0
         /\ \A i \in 1 .. Len(s) : Ends(s)[i] = Ends(s)[i - 1] + s[i].width
<1> DEFINE n == Len(s)
           Eq(f) == f = [i \in 0 .. n |-> IF i = 0 THEN 0 ELSE f[i - 1] + s[i].width]
           step == [i \in 1 .. n |-> [v \in Nat |-> v + s[i].width]]
<1>0. n \in Nat /\ \A i \in 1 .. n : s[i].width \in Nat \ {0}
  <2>1. n \in Nat /\ \A i \in 1 .. n : s[i] \in FieldSet
    OBVIOUS
  <2> QED
    BY <2>1 DEF FieldSet
<1>1. Ends(s) = CHOOSE f : Eq(f)
  BY DEF Ends
<1> HIDE DEF n
<1>2. \A k \in 1 .. n, v \in Nat : step[k][v] \in Nat /\ step[k][v] = v + s[k].width
  BY <1>0
<1> HIDE DEF step
<1>3. Steps(Nat, n, step)
  BY <1>2 DEF Steps
<1>4. PICK f : Iterates(f, Nat, 0, n, step)
  BY <1>0, <1>3, Recursion
<1>5. Eq(f)
  <2>1. ASSUME NEW k \in 1 .. n PROVE f[k] = f[k - 1] + s[k].width
    <3>1. f[k - 1] \in Nat
      BY <1>0, <1>4 DEF Iterates
    <3> QED
      BY <1>2, <1>4, <3>1 DEF Iterates
  <2> QED
    BY <1>0, <1>4, <2>1 DEF Iterates
<1>6. Eq(Ends(s))
  BY <1>1, <1>5
<1>7. \A k \in 0 .. n : Ends(s)[k] \in Nat
  <2> DEFINE Bad == {k \in 0 .. n : Ends(s)[k] \notin Nat}
  <2> SUFFICES ASSUME Bad # {} PROVE FALSE
    OBVIOUS
  <2>0. Bad \in SUBSET Nat
    BY <1>0
  <2>1. PICK m \in Bad : \A k \in Bad : ~(k < m)
    BY <2>0, LeastNumber
  <2>2. Ends(s)[m] = IF m = 0 THEN 0 ELSE Ends(s)[m - 1] + s[m].width
    BY <1>6, <2>1
  <2>3. m # 0 /\ m - 1 \in 0 .. n /\ m - 1 < m /\ m \in 1 .. n
    BY <1>0, <2>1, <2>2
  <2>4. Ends(s)[m - 1] \in Nat
    BY <2>1, <2>3
  <2> QED
    BY <1>0, <2>1, <2>2, <2>3, <2>4
<1>8. Ends(s) \in [0 .. n -> Nat]
  BY <1>6, <1>7
<1>9. Ends(s)[0] = 0 /\ \A i \in 1 .. n : Ends(s)[i] = Ends(s)[i - 1] + s[i].width
  BY <1>0, <1>6
<1> QED
  BY <1>8, <1>9 DEF n

\* No two fields end at the same byte.
LEMMA EndsGrow ==
  ASSUME NEW s \in Seq(FieldSet), NEW i \in 0 .. Len(s), NEW j \in 0 .. Len(s), i < j
  PROVE  Ends(s)[i] < Ends(s)[j]
<1> DEFINE Bad == {k \in 0 .. Len(s) : i < k /\ ~(Ends(s)[i] < Ends(s)[k])}
<1> SUFFICES ASSUME Bad # {} PROVE FALSE
  OBVIOUS
<1>0. Bad \in SUBSET Nat
  OBVIOUS
<1>1. PICK m \in Bad : \A k \in Bad : ~(k < m)
  BY <1>0, LeastNumber
<1>2. m \in 1 .. Len(s) /\ m - 1 \in 0 .. Len(s) /\ i <= m - 1
  BY <1>1
<1>3. Ends(s)[m] = Ends(s)[m - 1] + s[m].width /\ s[m].width \in Nat \ {0}
      /\ Ends(s)[m] \in Nat /\ Ends(s)[m - 1] \in Nat /\ Ends(s)[i] \in Nat
  <2>1. s[m] \in FieldSet
    BY <1>2
  <2> QED
    BY <1>2, <2>1, EndsFacts DEF FieldSet
<1>4. m - 1 \notin Bad
  BY <1>1, <1>2
<1>5. Ends(s)[i] <= Ends(s)[m - 1]
  BY <1>2, <1>3, <1>4
<1> QED
  BY <1>1, <1>3, <1>5

\* What ends where in a concatenation.
LEMMA EndsConcat ==
  ASSUME NEW p \in Seq(FieldSet), NEW q \in Seq(FieldSet)
  PROVE  /\ p \o q \in Seq(FieldSet)
         /\ \A i \in 0 .. Len(p) : Ends(p \o q)[i] = Ends(p)[i]
         /\ \A i \in 0 .. Len(q) : Ends(p \o q)[Len(p) + i] = Width(p) + Ends(q)[i]
         /\ Width(p \o q) = Width(p) + Width(q)
<1> DEFINE s == p \o q
<1>0. s \in Seq(FieldSet) /\ Len(s) = Len(p) + Len(q) /\ Len(p) \in Nat /\ Len(q) \in Nat
      /\ (\A i \in 1 .. Len(p) : s[i] = p[i]) /\ (\A i \in 1 .. Len(q) : s[Len(p) + i] = q[i])
  OBVIOUS
<1> HIDE DEF s
<1>1. \A i \in 0 .. Len(p) : Ends(s)[i] = Ends(p)[i]
  <2> DEFINE Bad == {k \in 0 .. Len(p) : Ends(s)[k] # Ends(p)[k]}
  <2> SUFFICES ASSUME Bad # {} PROVE FALSE
    OBVIOUS
  <2>0. Bad \in SUBSET Nat
    BY <1>0
  <2>1. PICK m \in Bad : \A k \in Bad : ~(k < m)
    BY <2>0, LeastNumber
  <2>2. m # 0
    BY <1>0, <2>1, EndsFacts
  <2>3. m \in 1 .. Len(p) /\ m \in 1 .. Len(s) /\ m - 1 \in 0 .. Len(p) /\ m - 1 < m
    BY <1>0, <2>1, <2>2
  <2>4. Ends(s)[m - 1] = Ends(p)[m - 1]
    BY <2>1, <2>3
  <2>5. Ends(s)[m] = Ends(s)[m - 1] + s[m].width /\ Ends(p)[m] = Ends(p)[m - 1] + p[m].width /\ s[m] = p[m]
    BY <1>0, <2>3, EndsFacts
  <2> QED
    BY <2>1, <2>4, <2>5
<1>2. \A i \in 0 .. Len(q) : Ends(s)[Len(p) + i] = Width(p) + Ends(q)[i]
  <2> DEFINE Bad == {k \in 0 .. Len(q) : Ends(s)[Len(p) + k] # Width(p) + Ends(q)[k]}
  <2> SUFFICES ASSUME Bad # {} PROVE FALSE
    OBVIOUS
  <2>0. Bad \in SUBSET Nat
    BY <1>0
  <2>1. PICK m \in Bad : \A k \in Bad : ~(k < m)
    BY <2>0, LeastNumber
  <2>2. Width(p) \in Nat /\ Ends(s)[Len(p)] = Width(p)
    BY <1>0, <1>1, EndsFacts DEF Width
  <2>3. m # 0
    BY <1>0, <2>1, <2>2, EndsFacts
  <2>4. m \in 1 .. Len(q) /\ Len(p) + m \in 1 .. Len(s) /\ m - 1 \in 0 .. Len(q) /\ m - 1 < m
        /\ (Len(p) + m) - 1 = Len(p) + (m - 1)
    BY <1>0, <2>1, <2>3
  <2>5. Ends(s)[Len(p) + (m - 1)] = Width(p) + Ends(q)[m - 1]
    BY <2>1, <2>4
  <2>6. /\ Ends(s)[Len(p) + m] = Ends(s)[Len(p) + (m - 1)] + s[Len(p) + m].width
        /\ Ends(q)[m] = Ends(q)[m - 1] + q[m].width /\ s[Len(p) + m] = q[m]
        /\ Ends(q)[m - 1] \in Nat /\ q[m].width \in Nat
    <3>1. q[m] \in FieldSet
      BY <2>4
    <3> QED
      BY <1>0, <2>4, <3>1, EndsFacts DEF FieldSet
  <2> QED
    BY <2>1, <2>2, <2>5, <2>6, SMTT(30)
<1>3. Width(s) = Width(p) + Width(q)
  BY <1>0, <1>2 DEF Width
<1> QED
  BY <1>0, <1>1, <1>2, <1>3 DEF s

-----------------------------------------------------------------------------
(* Flattening, operation by operation *)

\* The first k of the given sequences.
FirstOf(s, k) == [i \in 1 .. k |-> s[i]]

\* What FlattenSeq makes of the first sequences, of the first and one more, and of all.
LEMMA FlattenStep ==
  ASSUME NEW s \in Seq(Seq(FieldSet))
  PROVE  /\ FlattenSeq(FirstOf(s, 0)) = <<>>
         /\ \A k \in 0 .. Len(s) : FlattenSeq(FirstOf(s, k)) \in Seq(FieldSet)
         /\ \A k \in 1 .. Len(s) : FlattenSeq(FirstOf(s, k)) = FlattenSeq(FirstOf(s, k - 1)) \o s[k]
<1> DEFINE V == Seq(FieldSet)
           n == Len(s)
           step == [i \in 1 .. n |-> [v \in V |-> v \o s[i]]]
<1>0. n \in Nat /\ \A i \in 1 .. n : s[i] \in V
  OBVIOUS
<1>1. <<>> \in V /\ \A v, w \in V : v \o w \in V /\ <<>> \o w = w
  OBVIOUS
<1> HIDE DEF n, V
<1>2. \A k \in 1 .. n, v \in V : step[k][v] \in V /\ step[k][v] = v \o s[k]
  BY <1>0, <1>1
<1> HIDE DEF step
<1>3. Steps(V, n, step)
  BY <1>2 DEF Steps
<1>4. PICK g : Iterates(g, V, <<>>, n, step)
  BY <1>0, <1>1, <1>3, Recursion
<1>5. \A k \in 0 .. n : g[k] \in V
  BY <1>4 DEF Iterates
<1>6. \A k \in 1 .. n : g[k] = g[k - 1] \o s[k]
  <2> SUFFICES ASSUME NEW k \in 1 .. n PROVE g[k] = g[k - 1] \o s[k]
    OBVIOUS
  <2>1. g[k - 1] \in V
    BY <1>0, <1>5
  <2> QED
    BY <1>2, <1>4, <2>1 DEF Iterates
<1>7. g[0] = <<>>
  BY <1>4 DEF Iterates
<1>8. FlattenSeq(FirstOf(s, 0)) = <<>>
  BY DEF FlattenSeq, FirstOf
<1>9. ASSUME NEW m \in 1 .. n PROVE FlattenSeq(FirstOf(s, m)) = g[m]
  <2> DEFINE c == FirstOf(s, m)
             Eq(f) == f = [i \in 1 .. Len(c) |-> IF i = 1 THEN c[i] ELSE f[i - 1] \o c[i]]
             fl == CHOOSE f : Eq(f)
             h == [i \in 1 .. m |-> g[i]]
  <2>0. m \in Nat /\ m # 0 /\ \A i \in 1 .. m : i \in 1 .. n
    BY <1>0
  <2>1. c \in Seq(V) /\ Len(c) = m /\ \A i \in 1 .. m : c[i] = s[i]
    BY <1>0, <2>0 DEF FirstOf
  <2>2. FlattenSeq(c) = fl[m]
    BY <2>0, <2>1 DEF FlattenSeq
  <2>3. Eq(h)
    <3>1. ASSUME NEW i \in 1 .. m PROVE h[i] = IF i = 1 THEN c[i] ELSE h[i - 1] \o c[i]
      <4>1. CASE i = 1
        <5>0. 1 \in 1 .. n /\ 1 - 1 = 0
          BY <2>0, <4>1
        <5>1. g[1] = g[0] \o s[1] /\ s[1] \in V
          BY <1>0, <1>6, <5>0
        <5> QED
          BY <1>1, <1>7, <2>1, <4>1, <5>1
      <4>2. CASE i # 1
        <5>1. i - 1 \in 1 .. m /\ i \in 1 .. n
          BY <2>0, <4>2
        <5> QED
          BY <1>6, <2>1, <4>2, <5>1
      <4> QED
        BY <4>1, <4>2
    <3> QED
      BY <2>1, <3>1
  <2>4. Eq(fl)
    BY <2>3
  <2> HIDE DEF fl, c
  <2>5. \A i \in 1 .. m : fl[i] = g[i]
    <3> DEFINE Bad == {i \in 1 .. m : fl[i] # g[i]}
    <3> SUFFICES ASSUME Bad # {} PROVE FALSE
      OBVIOUS
    <3>0. Bad \in SUBSET Nat
      BY <2>0
    <3>1. PICK i \in Bad : \A k \in Bad : ~(k < i)
      BY <3>0, LeastNumber
    <3>2. fl[i] = IF i = 1 THEN c[i] ELSE fl[i - 1] \o c[i]
      BY <2>1, <2>4, <3>1
    <3>3. h[i] = IF i = 1 THEN c[i] ELSE h[i - 1] \o c[i]
      BY <2>1, <2>3, <3>1
    <3>4. CASE i = 1
      BY <3>1, <3>2, <3>3, <3>4
    <3>5. CASE i # 1
      <4>1. i - 1 \in 1 .. m /\ i - 1 < i
        BY <2>0, <3>1, <3>5
      <4>2. fl[i - 1] = g[i - 1]
        BY <3>1, <4>1
      <4> QED
        BY <3>1, <3>2, <3>3, <3>5, <4>1, <4>2
    <3> QED
      BY <3>4, <3>5
  <2> QED
    BY <2>0, <2>2, <2>5 DEF c
<1>10. \A k \in 0 .. n : FlattenSeq(FirstOf(s, k)) = g[k]
  <2> SUFFICES ASSUME NEW k \in 0 .. n PROVE FlattenSeq(FirstOf(s, k)) = g[k]
    OBVIOUS
  <2>1. k = 0 \/ k \in 1 .. n
    BY <1>0
  <2> QED
    BY <1>7, <1>8, <1>9, <2>1
<1>11. \A k \in 0 .. n : FlattenSeq(FirstOf(s, k)) \in V
  BY <1>5, <1>10
<1>12. ASSUME NEW k \in 1 .. n
       PROVE  FlattenSeq(FirstOf(s, k)) = FlattenSeq(FirstOf(s, k - 1)) \o s[k]
  <2>1. k \in 0 .. n /\ k - 1 \in 0 .. n
    BY <1>0
  <2> QED
    BY <1>6, <1>10, <2>1
<1> QED
  BY <1>8, <1>11, <1>12 DEF n, V

-----------------------------------------------------------------------------
(* The encoding *)

TransactionSet ==
  [user : Nat, nonce : Nat, gas_limit : Nat, gas_price : Nat, operations : Seq(Operations)]

\* What an operation is encoded as, one case for each of its kinds.
LEMMA PlaceOrderFields ==
  ASSUME NEW o \in Operations, o.op = "PlaceOrder"
  PROVE  /\ EncodeOperation(o) =
              <<Field(1, 0), Field(8, o.market), Field(1, ByteOf(o.type, OrderTypes)),
                Field(1, ByteOf(o.side, Sides)), Field(32, o.price), Field(32, o.size),
                Field(1, o.leverage), Field(1, Flag(o.post_only)),
                Field(1, Flag(o.reduce_only)), Field(8, UnwrapOr0(o.expires_at))>>
         /\ o = [op |-> "PlaceOrder", market |-> o.market, type |-> o.type, side |-> o.side,
                 price |-> o.price, size |-> o.size, leverage |-> o.leverage,
                 post_only |-> o.post_only, reduce_only |-> o.reduce_only, expires_at |-> o.expires_at]
         /\ o.market \in Nat /\ o.price \in Nat /\ o.size \in Nat /\ o.leverage \in Nat
         /\ o.post_only \in BOOLEAN /\ o.reduce_only \in BOOLEAN /\ o.expires_at \in Options
         /\ o.type \in {"Limit", "Market", "StopLimit", "StopMarket"} /\ o.side \in {"Long", "Short"}
  BY DEF Operations, EncodeOperation

LEMMA CancelOrderFields ==
  ASSUME NEW o \in Operations, o.op = "CancelOrder"
  PROVE  /\ EncodeOperation(o) = <<Field(1, 1), Field(8, o.market), Field(8, Len(o.order_ids))>>
                                   \o [i \in DOMAIN o.order_ids |-> Field(8, o.order_ids[i])]
         /\ o = [op |-> "CancelOrder", market |-> o.market, order_ids |-> o.order_ids]
         /\ o.market \in Nat /\ o.order_ids \in Seq(Nat)
  BY DEF Operations, EncodeOperation

LEMMA CancelAllFields ==
  ASSUME NEW o \in Operations, o.op = "CancelAll"
  PROVE  /\ EncodeOperation(o) = <<Field(1, 2), Field(8, UnwrapOr0(o.market))>>
         /\ o = [op |-> "CancelAll", market |-> o.market]
         /\ o.market \in Options
  BY DEF Operations, EncodeOperation

LEMMA SetLeverageFields ==
  ASSUME NEW o \in Operations, o.op = "SetLeverage"
  PROVE  /\ EncodeOperation(o) = <<Field(1, 3), Field(8, o.market), Field(1, o.leverage)>>
         /\ o = [op |-> "SetLeverage", market |-> o.market, leverage |-> o.leverage]
         /\ o.market \in Nat /\ o.leverage \in Nat
  BY DEF Operations, EncodeOperation

LEMMA AdjustMarginFields ==
  ASSUME NEW o \in Operations, o.op = "AdjustMargin"
  PROVE  /\ EncodeOperation(o) = <<Field(1, 4), Field(8, o.market), Field(32, o.amount)>>
         /\ o = [op |-> "AdjustMargin", market |-> o.market, amount |-> o.amount]
         /\ o.market \in Nat /\ o.amount \in Nat
  BY DEF Operations, EncodeOperation

\* There are no other kinds.
LEMMA OperationKinds ==
  ASSUME NEW o \in Operations
  PROVE  o.op \in {"PlaceOrder", "CancelOrder", "CancelAll", "SetLeverage", "AdjustMargin"}
  BY DEF Operations

\* The numbers that stand for types, sides, flags and options.
LEMMA Codes ==
  /\ ByteOf("Limit", OrderTypes) = 0 /\ ByteOf("Market", OrderTypes) = 1
  /\ ByteOf("StopLimit", OrderTypes) = 2 /\ ByteOf("StopMarket", OrderTypes) = 3
  /\ ByteOf("Long", Sides) = 0 /\ ByteOf("Short", Sides) = 1
  /\ \A b \in BOOLEAN : Flag(b) \in Nat /\ (Flag(b) # 0) = b
  /\ \A x \in Options : UnwrapOr0(x) \in Nat /\ OptionOf(UnwrapOr0(x)) = x
<1>1. /\ ByteOf("Limit", OrderTypes) = 0 /\ ByteOf("Market", OrderTypes) = 1
      /\ ByteOf("StopLimit", OrderTypes) = 2 /\ ByteOf("StopMarket", OrderTypes) = 3
  <2>1. DOMAIN OrderTypes = 1 .. 4 /\ OrderTypes[1] = "Limit" /\ OrderTypes[2] = "Market"
        /\ OrderTypes[3] = "StopLimit" /\ OrderTypes[4] = "StopMarket"
    BY DEF OrderTypes
  <2>2. /\ (CHOOSE i \in DOMAIN OrderTypes : OrderTypes[i] = "Limit") = 1
        /\ (CHOOSE i \in DOMAIN OrderTypes : OrderTypes[i] = "Market") = 2
        /\ (CHOOSE i \in DOMAIN OrderTypes : OrderTypes[i] = "StopLimit") = 3
        /\ (CHOOSE i \in DOMAIN OrderTypes : OrderTypes[i] = "StopMarket") = 4
    BY <2>1
  <2> QED
    BY <2>2 DEF ByteOf
<1>2. ByteOf("Long", Sides) = 0 /\ ByteOf("Short", Sides) = 1
  <2>1. DOMAIN Sides = 1 .. 2 /\ Sides[1] = "Long" /\ Sides[2] = "Short"
    BY DEF Sides
  <2>2. /\ (CHOOSE i \in DOMAIN Sides : Sides[i] = "Long") = 1
        /\ (CHOOSE i \in DOMAIN Sides : Sides[i] = "Short") = 2
    BY <2>1
  <2> QED
    BY <2>2 DEF ByteOf
<1>3. \A b \in BOOLEAN : Flag(b) \in Nat /\ (Flag(b) # 0) = b
  BY DEF Flag
<1>4. ASSUME NEW x \in Options PROVE UnwrapOr0(x) \in Nat /\ OptionOf(UnwrapOr0(x)) = x
  <2>1. CASE x = <<>>
    BY <2>1 DEF UnwrapOr0, OptionOf
  <2>2. CASE x # <<>>
    <3>1. x \in [{1} -> Nat \ {0}]
      BY <2>2 DEF Options
    <3>2. x = <<x[1]>> /\ x[1] \in Nat \ {0}
      <4>1. x[1] \in Nat \ {0}
        BY <3>1
      <4>2. <<x[1]>> = [i \in 1 .. 1 |-> x[1]] /\ 1 .. 1 = {1}
        OBVIOUS
      <4>3. x = [i \in {1} |-> x[1]]
        BY <3>1
      <4> QED
        BY <4>1, <4>2, <4>3
    <3> QED
      BY <2>2, <3>2 DEF UnwrapOr0, OptionOf
  <2> QED
    BY <2>1, <2>2
<1> QED
  BY <1>1, <1>2, <1>3, <1>4

\* A field is what it is made of.
LEMMA FieldFacts ==
  ASSUME NEW w \in Nat \ {0}, NEW v \in Nat
  PROVE  Field(w, v) \in FieldSet /\ Field(w, v).width = w /\ Field(w, v).val = v
  BY DEF Field, FieldSet

\* An operation is encoded as fields.
LEMMA EncodedFields ==
  ASSUME NEW o \in Operations
  PROVE  EncodeOperation(o) \in Seq(FieldSet)
<1>0. \A w \in Nat \ {0}, v \in Nat : Field(w, v) \in FieldSet
  BY FieldFacts
<1>1. CASE o.op = "PlaceOrder"
  <2>1. ByteOf(o.type, OrderTypes) \in Nat /\ ByteOf(o.side, Sides) \in Nat
        /\ Flag(o.post_only) \in Nat /\ Flag(o.reduce_only) \in Nat /\ UnwrapOr0(o.expires_at) \in Nat
    BY <1>1, PlaceOrderFields, Codes
  <2>0. o.market \in Nat /\ o.price \in Nat /\ o.size \in Nat /\ o.leverage \in Nat
    BY <1>1, PlaceOrderFields
  <2>2. /\ Field(1, 0) \in FieldSet /\ Field(8, o.market) \in FieldSet
        /\ Field(1, ByteOf(o.type, OrderTypes)) \in FieldSet /\ Field(1, ByteOf(o.side, Sides)) \in FieldSet
        /\ Field(32, o.price) \in FieldSet /\ Field(32, o.size) \in FieldSet
        /\ Field(1, o.leverage) \in FieldSet /\ Field(1, Flag(o.post_only)) \in FieldSet
        /\ Field(1, Flag(o.reduce_only)) \in FieldSet /\ Field(8, UnwrapOr0(o.expires_at)) \in FieldSet
    BY <1>0, <2>0, <2>1
  <2>3. <<Field(1, 0), Field(8, o.market), Field(1, ByteOf(o.type, OrderTypes)),
          Field(1, ByteOf(o.side, Sides)), Field(32, o.price), Field(32, o.size),
          Field(1, o.leverage), Field(1, Flag(o.post_only)),
          Field(1, Flag(o.reduce_only)), Field(8, UnwrapOr0(o.expires_at))>> \in Seq(FieldSet)
    BY <2>2
  <2> QED
    BY <1>1, <2>3, PlaceOrderFields
<1>2. CASE o.op = "CancelOrder"
  <2> DEFINE ids == [i \in DOMAIN o.order_ids |-> Field(8, o.order_ids[i])]
  <2>00. o.order_ids \in Seq(Nat) /\ o.market \in Nat
    BY <1>2, CancelOrderFields
  <2>0. o.order_ids \in Seq(Nat) /\ Len(o.order_ids) \in Nat /\ DOMAIN o.order_ids = 1 .. Len(o.order_ids)
        /\ \A i \in 1 .. Len(o.order_ids) : o.order_ids[i] \in Nat
    BY <2>00
  <2>1. ids \in Seq(FieldSet)
    <3>1. \A i \in 1 .. Len(o.order_ids) : Field(8, o.order_ids[i]) \in FieldSet
      BY <1>0, <2>0
    <3> QED
      BY <2>0, <3>1
  <2>2. <<Field(1, 1), Field(8, o.market), Field(8, Len(o.order_ids))>> \in Seq(FieldSet)
    <3>1. Field(1, 1) \in FieldSet /\ Field(8, o.market) \in FieldSet /\ Field(8, Len(o.order_ids)) \in FieldSet
      BY <1>0, <2>00, <2>0
    <3> QED
      BY <3>1
  <2>3. EncodeOperation(o) = <<Field(1, 1), Field(8, o.market), Field(8, Len(o.order_ids))>> \o ids
    BY <1>2, CancelOrderFields
  <2> HIDE DEF ids
  <2> QED
    BY <2>1, <2>2, <2>3
<1>3. CASE o.op = "CancelAll"
  <2>1. UnwrapOr0(o.market) \in Nat
    BY <1>3, CancelAllFields, Codes
  <2>2. Field(1, 2) \in FieldSet /\ Field(8, UnwrapOr0(o.market)) \in FieldSet
    BY <1>0, <2>1
  <2>3. <<Field(1, 2), Field(8, UnwrapOr0(o.market))>> \in Seq(FieldSet)
    BY <2>2
  <2> QED
    BY <1>3, <2>3, CancelAllFields
<1>4. CASE o.op = "SetLeverage"
  <2>2. Field(1, 3) \in FieldSet /\ Field(8, o.market) \in FieldSet /\ Field(1, o.leverage) \in FieldSet
    BY <1>0, <1>4, SetLeverageFields
  <2>3. <<Field(1, 3), Field(8, o.market), Field(1, o.leverage)>> \in Seq(FieldSet)
    BY <2>2
  <2> QED
    BY <1>4, <2>3, SetLeverageFields
<1>5. CASE o.op = "AdjustMargin"
  <2>2. Field(1, 4) \in FieldSet /\ Field(8, o.market) \in FieldSet /\ Field(32, o.amount) \in FieldSet
    BY <1>0, <1>5, AdjustMarginFields, SMTT(30)
  <2>3. <<Field(1, 4), Field(8, o.market), Field(32, o.amount)>> \in Seq(FieldSet)
    BY <2>2
  <2> QED
    BY <1>5, <2>3, AdjustMarginFields
<1> QED
  BY <1>1, <1>2, <1>3, <1>4, <1>5, OperationKinds

\* The header, which takes as many bytes as HeaderLen says.
LEMMA HeaderFields ==
  ASSUME NEW t \in TransactionSet
  PROVE  /\ EncodeHeader(t) \in Seq(FieldSet) /\ Len(EncodeHeader(t)) = 4
         /\ EncodeHeader(t)[1].val = t.user /\ EncodeHeader(t)[2].val = t.nonce
         /\ EncodeHeader(t)[3].val = t.gas_limit
         /\ Ends(EncodeHeader(t))[0] = 0 /\ Ends(EncodeHeader(t))[1] = 20
         /\ Ends(EncodeHeader(t))[2] = 28 /\ Width(EncodeHeader(t)) = HeaderLen
<1> DEFINE h == EncodeHeader(t)
           price == t.gas_price % U64Range
<1>0. t.user \in Nat /\ t.nonce \in Nat /\ t.gas_limit \in Nat /\ t.gas_price \in Nat
  BY DEF TransactionSet
<1>1. price \in Nat
  BY <1>0, U64Assumption
<1>2. h = <<Field(20, t.user), Field(8, t.nonce), Field(8, t.gas_limit), Field(8, price)>>
  BY DEF EncodeHeader
<1> HIDE DEF price
<1>3. /\ Field(20, t.user) \in FieldSet /\ Field(8, t.nonce) \in FieldSet
      /\ Field(8, t.gas_limit) \in FieldSet /\ Field(8, price) \in FieldSet
      /\ Field(20, t.user).width = 20 /\ Field(8, t.nonce).width = 8
      /\ Field(8, t.gas_limit).width = 8 /\ Field(8, price).width = 8
      /\ Field(20, t.user).val = t.user /\ Field(8, t.nonce).val = t.nonce
      /\ Field(8, t.gas_limit).val = t.gas_limit
  BY <1>0, <1>1, FieldFacts
<1>4. h \in Seq(FieldSet) /\ Len(h) = 4
  BY <1>2, <1>3
<1>5. /\ h[1].val = t.user /\ h[2].val = t.nonce /\ h[3].val = t.gas_limit
      /\ h[1].width = 20 /\ h[2].width = 8 /\ h[3].width = 8 /\ h[4].width = 8
  BY <1>2, <1>3
<1> HIDE DEF h
<1>6. /\ Ends(h)[0] = 0 /\ Ends(h)[1] = 20 /\ Ends(h)[2] = 28 /\ Ends(h)[3] = 36 /\ Ends(h)[4] = 44
  <2>1. Ends(h)[0] = 0 /\ \A i \in 1 .. 4 : Ends(h)[i] = Ends(h)[i - 1] + h[i].width
    BY <1>4, EndsFacts
  <2>2. Ends(h)[1] = Ends(h)[0] + 20 /\ Ends(h)[2] = Ends(h)[1] + 8
        /\ Ends(h)[3] = Ends(h)[2] + 8 /\ Ends(h)[4] = Ends(h)[3] + 8
    BY <1>5, <2>1
  <2> QED
    BY <2>1, <2>2
<1> QED
  BY <1>4, <1>5, <1>6 DEF h, Width, HeaderLen

-----------------------------------------------------------------------------
(* A transaction up to one of its operations *)

Prefix(t, k) == [t EXCEPT !.operations = FirstOf(t.operations, k)]

LEMMA Associates ==
  ASSUME NEW p \in Seq(FieldSet), NEW q \in Seq(FieldSet), NEW r \in Seq(FieldSet)
  PROVE  (p \o q) \o r = p \o (q \o r) /\ p \o <<>> = p /\ <<>> \in Seq(FieldSet) /\ q \o r \in Seq(FieldSet)
  OBVIOUS

\* The encoding of a transaction goes on, operation by operation, to its end.
LEMMA EncodedPrefix ==
  ASSUME NEW t \in TransactionSet
  PROVE  /\ Encode(Prefix(t, 0)) = EncodeHeader(t)
         /\ Encode(Prefix(t, Len(t.operations))) = Encode(t)
         /\ \A k \in 0 .. Len(t.operations) : Encode(Prefix(t, k)) \in Seq(FieldSet)
         /\ \A k \in 1 .. Len(t.operations) :
              Encode(Prefix(t, k)) = Encode(Prefix(t, k - 1)) \o EncodeOperation(t.operations[k])
<1> DEFINE ops == t.operations
           n == Len(ops)
           s == [i \in 1 .. n |-> EncodeOperation(ops[i])]
           h == EncodeHeader(t)
<1>0. ops \in Seq(Operations) /\ n \in Nat /\ \A i \in 1 .. n : ops[i] \in Operations
  <2>1. ops \in Seq(Operations)
    BY DEF TransactionSet
  <2> QED
    BY <2>1
<1>1. s \in Seq(Seq(FieldSet)) /\ Len(s) = n /\ \A i \in 1 .. n : s[i] = EncodeOperation(ops[i])
  <2>1. \A i \in 1 .. n : EncodeOperation(ops[i]) \in Seq(FieldSet)
    BY <1>0, EncodedFields
  <2> QED
    BY <1>0, <2>1
<1>2. h \in Seq(FieldSet)
  BY HeaderFields
<1>3. ASSUME NEW k \in 0 .. n PROVE Encode(Prefix(t, k)) = h \o FlattenSeq(FirstOf(s, k))
  <2> DEFINE u == Prefix(t, k)
  <2>1. u.operations = FirstOf(ops, k) /\ u.user = t.user /\ u.nonce = t.nonce
        /\ u.gas_limit = t.gas_limit /\ u.gas_price = t.gas_price
    BY DEF TransactionSet, Prefix
  <2>2. EncodeHeader(u) = h
    BY <2>1 DEF EncodeHeader
  <2>3. [i \in DOMAIN u.operations |-> EncodeOperation(u.operations[i])] = FirstOf(s, k)
    BY <1>0, <1>1, <2>1 DEF FirstOf
  <2> QED
    BY <2>2, <2>3 DEF Encode
<1>4. Encode(t) = h \o FlattenSeq(FirstOf(s, n))
  <2>1. [i \in DOMAIN t.operations |-> EncodeOperation(t.operations[i])] = FirstOf(s, n)
    BY <1>0, <1>1 DEF FirstOf
  <2> QED
    BY <2>1 DEF Encode
<1> HIDE DEF s, h, n
<1>5. /\ FlattenSeq(FirstOf(s, 0)) = <<>>
      /\ \A k \in 0 .. n : FlattenSeq(FirstOf(s, k)) \in Seq(FieldSet)
      /\ \A k \in 1 .. n : FlattenSeq(FirstOf(s, k)) = FlattenSeq(FirstOf(s, k - 1)) \o s[k]
  BY <1>1, FlattenStep
<1>6. Encode(Prefix(t, 0)) = h
  <2>1. 0 \in 0 .. n
    BY <1>0
  <2> QED
    BY <1>2, <1>3, <1>5, <2>1
<1>7. Encode(Prefix(t, n)) = Encode(t)
  BY <1>0, <1>3, <1>4, SMTT(30)
<1>8. \A k \in 0 .. n : Encode(Prefix(t, k)) \in Seq(FieldSet)
  <2>1. \A v, w \in Seq(FieldSet) : v \o w \in Seq(FieldSet)
    OBVIOUS
  <2> QED
    BY <1>2, <1>3, <1>5, <2>1
<1>9. ASSUME NEW k \in 1 .. n
      PROVE  Encode(Prefix(t, k)) = Encode(Prefix(t, k - 1)) \o EncodeOperation(ops[k])
  <2> DEFINE q == FlattenSeq(FirstOf(s, k - 1))
             e == EncodeOperation(ops[k])
  <2>1. k \in 0 .. n /\ k - 1 \in 0 .. n
    BY <1>0
  <2>2. q \in Seq(FieldSet) /\ e \in Seq(FieldSet)
    BY <1>0, <1>5, <2>1, EncodedFields
  <2>3. Encode(Prefix(t, k)) = h \o (q \o e)
    BY <1>1, <1>3, <1>5, <2>1
  <2>4. Encode(Prefix(t, k - 1)) = h \o q
    BY <1>3, <2>1
  <2> HIDE DEF q, e
  <2>5. Encode(Prefix(t, k)) = Encode(Prefix(t, k - 1)) \o e
    <3>1. (h \o q) \o e = h \o (q \o e)
      BY <1>2, <2>2, Associates, SMTT(30)
    <3> QED
      BY <2>3, <2>4, <3>1
  <2> QED
    BY <2>5 DEF e
<1> QED
  BY <1>6, <1>7, <1>8, <1>9 DEF h, n

\* What comes first is followed by the rest.
LEMMA EncodedRest ==
  ASSUME NEW t \in TransactionSet, NEW k \in 0 .. Len(t.operations)
  PROVE  \E r \in Seq(FieldSet) : Encode(t) = Encode(Prefix(t, k)) \o r
<1> DEFINE n == Len(t.operations)
           Good(j) == \E r \in Seq(FieldSet) : Encode(t) = Encode(Prefix(t, n - j)) \o r
           Bad == {j \in 0 .. n : ~Good(j)}
<1>0. n \in Nat
  <2>1. t.operations \in Seq(Operations)
    BY DEF TransactionSet
  <2> QED
    BY <2>1
<1>1. Bad = {}
  <2> SUFFICES ASSUME Bad # {} PROVE FALSE
    OBVIOUS
  <2>0. Bad \in SUBSET Nat
    BY <1>0
  <2>1. PICK m \in Bad : \A j \in Bad : ~(j < m)
    BY <2>0, LeastNumber
  <2>2. CASE m = 0
    <3>1. n - m = n /\ n \in 0 .. n
      BY <1>0, <2>2
    <3>2. Encode(t) \in Seq(FieldSet) /\ Encode(t) = Encode(Prefix(t, n - m))
      BY <3>1, EncodedPrefix
    <3>3. <<>> \in Seq(FieldSet) /\ Encode(t) = Encode(Prefix(t, n - m)) \o <<>>
      BY <3>2, Associates
    <3> QED
      BY <2>1, <3>3
  <2>3. CASE m # 0
    <3> DEFINE i == n - m
    <3>1. m - 1 \in 0 .. n /\ m - 1 < m /\ i \in 0 .. n /\ i + 1 \in 1 .. n /\ n - (m - 1) = i + 1 /\ (i + 1) - 1 = i
      BY <1>0, <2>1, <2>3
    <3> HIDE DEF i
    <3>2. PICK r \in Seq(FieldSet) : Encode(t) = Encode(Prefix(t, i + 1)) \o r
      BY <2>1, <3>1
    <3> DEFINE p == Encode(Prefix(t, i))
               e == EncodeOperation(t.operations[i + 1])
    <3>3. p \in Seq(FieldSet) /\ Encode(Prefix(t, i + 1)) = p \o e
      BY <3>1, EncodedPrefix
    <3>4. e \in Seq(FieldSet)
      <4>1. t.operations \in Seq(Operations)
        BY DEF TransactionSet
      <4>2. t.operations[i + 1] \in Operations
        BY <3>1, <4>1
      <4> QED
        BY <4>2, EncodedFields
    <3> HIDE DEF p, e
    <3>5. Encode(t) = p \o (e \o r) /\ e \o r \in Seq(FieldSet)
      <4>1. (p \o e) \o r = p \o (e \o r) /\ e \o r \in Seq(FieldSet)
        BY <3>3, <3>4, Associates, SMTT(30)
      <4> QED
        BY <3>2, <3>3, <4>1
    <3>6. Good(m)
      BY <3>5 DEF p, i
    <3> QED
      BY <2>1, <3>6
  <2> QED
    BY <2>2, <2>3
<1>2. n - k \in 0 .. n /\ n - (n - k) = k
  BY <1>0
<1> QED
  BY <1>1, <1>2

-----------------------------------------------------------------------------
(* Reading the input *)

\* The field that starts where a given field starts is that field.
LEMMA Starts ==
  ASSUME NEW s \in Seq(FieldSet), NEW i \in 1 .. Len(s)
  PROVE  (CHOOSE j \in DOMAIN s : Ends(s)[j - 1] = Ends(s)[i - 1]) = i
<1>1. DOMAIN s = 1 .. Len(s) /\ Len(s) \in Nat
  OBVIOUS
<1>2. ASSUME NEW j \in 1 .. Len(s), Ends(s)[j - 1] = Ends(s)[i - 1] PROVE j = i
  <2>1. i - 1 \in 0 .. Len(s) /\ j - 1 \in 0 .. Len(s)
    BY <1>1
  <2>2. Ends(s)[i - 1] \in Nat
    BY <2>1, EndsFacts
  <2>3. ~(i - 1 < j - 1) /\ ~(j - 1 < i - 1)
    BY <1>2, <2>1, <2>2, EndsGrow
  <2> QED
    BY <2>3
<1> QED
  BY <1>1, <1>2

\* What is read where a field of a part of the input starts.
LEMMA InputAt ==
  ASSUME NEW p \in Seq(FieldSet), NEW e \in Seq(FieldSet), NEW r \in Seq(FieldSet),
         Fields = (p \o e) \o r, NEW m \in 1 .. Len(e)
  PROVE  Input(Width(p) + Ends(e)[m - 1]) = e[m].val
<1> DEFINE s == Fields
           i == Len(p) + m
<1>0. p \o e \in Seq(FieldSet) /\ s \in Seq(FieldSet)
  BY EndsConcat
<1>1. /\ Len(p) \in Nat /\ Len(e) \in Nat /\ Len(p \o e) = Len(p) + Len(e)
      /\ m - 1 \in 0 .. Len(e) /\ i - 1 = Len(p) + (m - 1)
      /\ i \in 1 .. Len(s) /\ i - 1 \in 0 .. Len(p \o e) /\ s[i] = e[m]
  OBVIOUS
<1>2. Ends(s)[i - 1] = Ends(p \o e)[i - 1]
  <2>1. \A k \in 0 .. Len(p \o e) : Ends((p \o e) \o r)[k] = Ends(p \o e)[k]
    BY <1>0, EndsConcat
  <2> QED
    BY <1>1, <2>1
<1>3. Ends(p \o e)[i - 1] = Width(p) + Ends(e)[m - 1]
  <2>1. \A k \in 0 .. Len(e) : Ends(p \o e)[Len(p) + k] = Width(p) + Ends(e)[k]
    BY EndsConcat
  <2> QED
    BY <1>1, <2>1
<1>4. (CHOOSE j \in DOMAIN s : Ends(s)[j - 1] = Ends(s)[i - 1]) = i
  BY <1>0, <1>1, Starts
<1> QED
  BY <1>1, <1>2, <1>3, <1>4 DEF Input

-----------------------------------------------------------------------------
(* Reading an operation *)

\* The decoder is in front of the encoding of an operation.
InFrontOf(o) ==
  /\ offset \in Nat
  /\ \A m \in 1 .. Len(EncodeOperation(o)) :
       Data(offset + Ends(EncodeOperation(o))[m - 1]) = EncodeOperation(o)[m].val

LEMMA DataAt ==
  ASSUME NEW p \in Seq(FieldSet), NEW o \in Operations, NEW r \in Seq(FieldSet),
         Fields = (p \o EncodeOperation(o)) \o r, offset \in Nat, HeaderLen + offset = Width(p)
  PROVE  InFrontOf(o)
<1> DEFINE e == EncodeOperation(o)
<1>1. e \in Seq(FieldSet)
  BY EncodedFields
<1>2. ASSUME NEW m \in 1 .. Len(e) PROVE Data(offset + Ends(e)[m - 1]) = e[m].val
  <2>1. Ends(e)[m - 1] \in Nat
    <3>1. m - 1 \in 0 .. Len(e)
      BY <1>1
    <3> QED
      BY <1>1, <3>1, EndsFacts
  <2>2. HeaderLen + (offset + Ends(e)[m - 1]) = Width(p) + Ends(e)[m - 1]
    BY <2>1 DEF HeaderLen
  <2>3. Input(Width(p) + Ends(e)[m - 1]) = e[m].val
    BY <1>1, InputAt
  <2> QED
    BY <2>2, <2>3 DEF Data
<1> QED
  BY <1>2 DEF InFrontOf

LEMMA ReadPlaceOrder ==
  ASSUME NEW o \in Operations, o.op = "PlaceOrder", InFrontOf(o)
  PROVE  /\ Width(EncodeOperation(o)) = 86
         /\ Data(offset) = 0 /\ Data(offset + 1) = o.market
         /\ Data(offset + 9) = ByteOf(o.type, OrderTypes) /\ Data(offset + 10) = ByteOf(o.side, Sides)
         /\ Data(offset + 11) = o.price /\ Data(offset + 43) = o.size
         /\ Data(offset + 75) = o.leverage /\ Data(offset + 76) = Flag(o.post_only)
         /\ Data(offset + 77) = Flag(o.reduce_only) /\ Data(offset + 78) = UnwrapOr0(o.expires_at)
<1> DEFINE e == EncodeOperation(o)
<1>1. e = <<Field(1, 0), Field(8, o.market), Field(1, ByteOf(o.type, OrderTypes)),
            Field(1, ByteOf(o.side, Sides)), Field(32, o.price), Field(32, o.size),
            Field(1, o.leverage), Field(1, Flag(o.post_only)),
            Field(1, Flag(o.reduce_only)), Field(8, UnwrapOr0(o.expires_at))>>
  BY PlaceOrderFields
<1>2. e \in Seq(FieldSet)
  BY EncodedFields
<1>3. Len(e) = 10
  BY <1>1
<1>5. /\ e[1].width = 1 /\ e[2].width = 8 /\ e[3].width = 1 /\ e[4].width = 1 /\ e[5].width = 32
      /\ e[6].width = 32 /\ e[7].width = 1 /\ e[8].width = 1 /\ e[9].width = 1 /\ e[10].width = 8
  BY <1>1 DEF Field
<1>6. /\ e[1].val = 0 /\ e[2].val = o.market /\ e[3].val = ByteOf(o.type, OrderTypes)
      /\ e[4].val = ByteOf(o.side, Sides) /\ e[5].val = o.price /\ e[6].val = o.size
      /\ e[7].val = o.leverage /\ e[8].val = Flag(o.post_only) /\ e[9].val = Flag(o.reduce_only)
      /\ e[10].val = UnwrapOr0(o.expires_at)
  BY <1>1 DEF Field
<1>7. offset \in Nat /\ \A m \in 1 .. 10 : Data(offset + Ends(e)[m - 1]) = e[m].val
  BY <1>3 DEF InFrontOf
<1> HIDE DEF e
<1>8. Ends(e)[0] = 0 /\ \A i \in 1 .. 10 : Ends(e)[i] = Ends(e)[i - 1] + e[i].width
  BY <1>2, <1>3, EndsFacts
<1>9. /\ Ends(e)[1] = 1 /\ Ends(e)[2] = 9 /\ Ends(e)[3] = 10 /\ Ends(e)[4] = 11 /\ Ends(e)[5] = 43
      /\ Ends(e)[6] = 75 /\ Ends(e)[7] = 76 /\ Ends(e)[8] = 77 /\ Ends(e)[9] = 78 /\ Ends(e)[10] = 86
  <2>1. /\ Ends(e)[1] = Ends(e)[0] + 1 /\ Ends(e)[2] = Ends(e)[1] + 8 /\ Ends(e)[3] = Ends(e)[2] + 1
        /\ Ends(e)[4] = Ends(e)[3] + 1 /\ Ends(e)[5] = Ends(e)[4] + 32 /\ Ends(e)[6] = Ends(e)[5] + 32
        /\ Ends(e)[7] = Ends(e)[6] + 1 /\ Ends(e)[8] = Ends(e)[7] + 1 /\ Ends(e)[9] = Ends(e)[8] + 1
        /\ Ends(e)[10] = Ends(e)[9] + 8
    BY <1>5, <1>8
  <2> QED
    BY <1>8, <2>1
<1>10. /\ Data(offset + Ends(e)[0]) = e[1].val /\ Data(offset + Ends(e)[1]) = e[2].val
       /\ Data(offset + Ends(e)[2]) = e[3].val /\ Data(offset + Ends(e)[3]) = e[4].val
       /\ Data(offset + Ends(e)[4]) = e[5].val /\ Data(offset + Ends(e)[5]) = e[6].val
       /\ Data(offset + Ends(e)[6]) = e[7].val /\ Data(offset + Ends(e)[7]) = e[8].val
       /\ Data(offset + Ends(e)[8]) = e[9].val /\ Data(offset + Ends(e)[9]) = e[10].val
  BY <1>7
<1>11. offset + 0 = offset
  BY <1>7
<1>12. Width(e) = 86
  BY <1>3, <1>9 DEF Width
<1> QED
  BY <1>6, <1>8, <1>9, <1>10, <1>11, <1>12 DEF e

LEMMA ReadThree ==
  ASSUME NEW o \in Operations, InFrontOf(o), NEW w \in Nat,
         Len(EncodeOperation(o)) = 3, EncodeOperation(o)[1].width = 1,
         EncodeOperation(o)[2].width = 8, EncodeOperation(o)[3].width = w
  PROVE  /\ Width(EncodeOperation(o)) = 9 + w
         /\ Data(offset) = EncodeOperation(o)[1].val /\ Data(offset + 1) = EncodeOperation(o)[2].val
         /\ Data(offset + 9) = EncodeOperation(o)[3].val
<1> DEFINE e == EncodeOperation(o)
<1>1. e \in Seq(FieldSet)
  BY EncodedFields
<1>2. offset \in Nat /\ \A m \in 1 .. 3 : Data(offset + Ends(e)[m - 1]) = e[m].val
  BY DEF InFrontOf
<1> HIDE DEF e
<1>3. Ends(e)[0] = 0 /\ \A i \in 1 .. 3 : Ends(e)[i] = Ends(e)[i - 1] + e[i].width
  BY <1>1, EndsFacts DEF e
<1>4. Ends(e)[1] = 1 /\ Ends(e)[2] = 9 /\ Ends(e)[3] = 9 + w
  <2>1. Ends(e)[1] = Ends(e)[0] + 1 /\ Ends(e)[2] = Ends(e)[1] + 8 /\ Ends(e)[3] = Ends(e)[2] + w
    BY <1>3 DEF e
  <2> QED
    BY <1>3, <2>1
<1>5. Data(offset + Ends(e)[0]) = e[1].val /\ Data(offset + Ends(e)[1]) = e[2].val
      /\ Data(offset + Ends(e)[2]) = e[3].val
  BY <1>2
<1>6. offset + 0 = offset
  BY <1>2
<1>7. Width(e) = 9 + w
  BY <1>4 DEF Width, e
<1> QED
  BY <1>3, <1>4, <1>5, <1>6, <1>7 DEF e

LEMMA ReadSetLeverage ==
  ASSUME NEW o \in Operations, o.op = "SetLeverage", InFrontOf(o)
  PROVE  /\ Width(EncodeOperation(o)) = 10
         /\ Data(offset) = 3 /\ Data(offset + 1) = o.market /\ Data(offset + 9) = o.leverage
<1> DEFINE e == EncodeOperation(o)
<1>1. e = <<Field(1, 3), Field(8, o.market), Field(1, o.leverage)>>
  BY SetLeverageFields
<1>2. /\ Len(e) = 3 /\ e[1].width = 1 /\ e[2].width = 8 /\ e[3].width = 1
      /\ e[1].val = 3 /\ e[2].val = o.market /\ e[3].val = o.leverage
  BY <1>1 DEF Field
<1> HIDE DEF e
<1> QED
  BY <1>2, ReadThree DEF e

LEMMA ReadAdjustMargin ==
  ASSUME NEW o \in Operations, o.op = "AdjustMargin", InFrontOf(o)
  PROVE  /\ Width(EncodeOperation(o)) = 41
         /\ Data(offset) = 4 /\ Data(offset + 1) = o.market /\ Data(offset + 9) = o.amount
<1> DEFINE e == EncodeOperation(o)
<1>1. e = <<Field(1, 4), Field(8, o.market), Field(32, o.amount)>>
  BY AdjustMarginFields
<1>2. /\ Len(e) = 3 /\ e[1].width = 1 /\ e[2].width = 8 /\ e[3].width = 32
      /\ e[1].val = 4 /\ e[2].val = o.market /\ e[3].val = o.amount
  BY <1>1 DEF Field
<1> HIDE DEF e
<1> QED
  BY <1>2, ReadThree DEF e

LEMMA ReadCancelAll ==
  ASSUME NEW o \in Operations, o.op = "CancelAll", InFrontOf(o)
  PROVE  /\ Width(EncodeOperation(o)) = 9
         /\ Data(offset) = 2 /\ Data(offset + 1) = UnwrapOr0(o.market)
<1> DEFINE e == EncodeOperation(o)
<1>1. e = <<Field(1, 2), Field(8, UnwrapOr0(o.market))>>
  BY CancelAllFields
<1>2. /\ Len(e) = 2 /\ e[1].width = 1 /\ e[2].width = 8 /\ e[1].val = 2 /\ e[2].val = UnwrapOr0(o.market)
  BY <1>1 DEF Field
<1>3. e \in Seq(FieldSet)
  BY EncodedFields
<1>4. offset \in Nat /\ \A m \in 1 .. 2 : Data(offset + Ends(e)[m - 1]) = e[m].val
  BY <1>2 DEF InFrontOf
<1> HIDE DEF e
<1>5. Ends(e)[0] = 0 /\ \A i \in 1 .. 2 : Ends(e)[i] = Ends(e)[i - 1] + e[i].width
  BY <1>2, <1>3, EndsFacts
<1>6. Ends(e)[1] = 1 /\ Ends(e)[2] = 9
  <2>1. Ends(e)[1] = Ends(e)[0] + 1 /\ Ends(e)[2] = Ends(e)[1] + 8
    BY <1>2, <1>5
  <2> QED
    BY <1>5, <2>1
<1>7. Data(offset + Ends(e)[0]) = e[1].val /\ Data(offset + Ends(e)[1]) = e[2].val
  BY <1>4
<1>8. offset + 0 = offset
  BY <1>4
<1>9. Width(e) = 9
  BY <1>2, <1>6 DEF Width
<1> QED
  BY <1>2, <1>5, <1>6, <1>7, <1>8, <1>9 DEF e

LEMMA ReadCancelOrder ==
  ASSUME NEW o \in Operations, o.op = "CancelOrder", InFrontOf(o)
  PROVE  /\ Width(EncodeOperation(o)) = 17 + 8 * Len(o.order_ids)
         /\ Data(offset) = 1 /\ Data(offset + 1) = o.market /\ Data(offset + 9) = Len(o.order_ids)
         /\ \A i \in 1 .. Len(o.order_ids) : Data(offset + 9 + 8 * i) = o.order_ids[i]
<1> DEFINE e == EncodeOperation(o)
           n == Len(o.order_ids)
           ids == [i \in DOMAIN o.order_ids |-> Field(8, o.order_ids[i])]
           h == <<Field(1, 1), Field(8, o.market), Field(8, n)>>
<1>0. o.order_ids \in Seq(Nat)
  BY CancelOrderFields
<1>1. n \in Nat /\ DOMAIN o.order_ids = 1 .. n
  BY <1>0
<1>2. e = h \o ids
  BY CancelOrderFields
<1>3. /\ Len(h) = 3 /\ h[1].width = 1 /\ h[2].width = 8 /\ h[3].width = 8
      /\ h[1].val = 1 /\ h[2].val = o.market /\ h[3].val = n
  BY DEF Field
<1>4. \A i \in 1 .. n : ids[i].width = 8 /\ ids[i].val = o.order_ids[i]
  BY <1>1 DEF Field
<1>5. ids \in Seq(FieldSet) /\ Len(ids) = n
  <2>1. \A i \in 1 .. n : Field(8, o.order_ids[i]) \in FieldSet
    BY <1>0, FieldFacts
  <2> QED
    BY <1>1, <2>1
<1>6. h \in Seq(FieldSet)
  <2>1. o.market \in Nat
    BY CancelOrderFields
  <2>2. Field(1, 1) \in FieldSet /\ Field(8, o.market) \in FieldSet /\ Field(8, n) \in FieldSet
    BY <1>1, <2>1, FieldFacts
  <2> QED
    BY <2>2
<1>7. e \in Seq(FieldSet)
  BY EncodedFields
<1> HIDE DEF h, ids
<1>8. Len(e) = 3 + n /\ e[1] = h[1] /\ e[2] = h[2] /\ e[3] = h[3] /\ \A i \in 1 .. n : e[3 + i] = ids[i]
  <2> HIDE DEF e, n
  <2>1. Len(h \o ids) = Len(h) + Len(ids) /\ (\A i \in 1 .. Len(h) : (h \o ids)[i] = h[i])
        /\ \A i \in 1 .. Len(ids) : (h \o ids)[Len(h) + i] = ids[i]
    BY <1>5, <1>6
  <2> QED
    BY <1>1, <1>2, <1>3, <1>5, <2>1
<1>9. offset \in Nat /\ \A m \in 1 .. 3 + n : Data(offset + Ends(e)[m - 1]) = e[m].val
  BY <1>8 DEF InFrontOf
<1> HIDE DEF e, n
<1>10. Ends(e)[0] = 0 /\ \A i \in 1 .. 3 + n : Ends(e)[i] = Ends(e)[i - 1] + e[i].width
  BY <1>7, <1>8, EndsFacts
<1>11. Ends(e)[1] = 1 /\ Ends(e)[2] = 9 /\ Ends(e)[3] = 17
  <2>1. 1 \in 1 .. 3 + n /\ 2 \in 1 .. 3 + n /\ 3 \in 1 .. 3 + n
    BY <1>1
  <2>2. Ends(e)[1] = Ends(e)[0] + 1 /\ Ends(e)[2] = Ends(e)[1] + 8 /\ Ends(e)[3] = Ends(e)[2] + 8
    BY <1>3, <1>8, <1>10, <2>1
  <2> QED
    BY <1>10, <2>2
<1>12. \A i \in 0 .. n : Ends(e)[3 + i] = 17 + 8 * i
  <2> DEFINE Bad == {i \in 0 .. n : Ends(e)[3 + i] # 17 + 8 * i}
  <2> SUFFICES ASSUME Bad # {} PROVE FALSE
    OBVIOUS
  <2>0. Bad \in SUBSET Nat
    BY <1>1
  <2>1. PICK m \in Bad : \A k \in Bad : ~(k < m)
    BY <2>0, LeastNumber
  <2>2. m # 0
    BY <1>11, <2>1
  <2>3. m \in 1 .. n /\ 3 + m \in 1 .. 3 + n /\ m - 1 \in 0 .. n /\ m - 1 < m /\ (3 + m) - 1 = 3 + (m - 1)
    BY <1>1, <2>1, <2>2
  <2>4. Ends(e)[3 + (m - 1)] = 17 + 8 * (m - 1)
    BY <2>1, <2>3
  <2>5. Ends(e)[3 + m] = Ends(e)[3 + (m - 1)] + 8
    BY <1>4, <1>8, <1>10, <2>3
  <2>6. 17 + 8 * (m - 1) + 8 = 17 + 8 * m
    BY <2>3
  <2> QED
    BY <2>1, <2>4, <2>5, <2>6
<1>13. Data(offset) = 1 /\ Data(offset + 1) = o.market /\ Data(offset + 9) = n
  <2>1. 1 \in 1 .. 3 + n /\ 2 \in 1 .. 3 + n /\ 3 \in 1 .. 3 + n
    BY <1>1
  <2>2. Data(offset + Ends(e)[0]) = e[1].val /\ Data(offset + Ends(e)[1]) = e[2].val
        /\ Data(offset + Ends(e)[2]) = e[3].val
    BY <1>9, <2>1
  <2>3. offset + 0 = offset
    BY <1>9
  <2> QED
    BY <1>3, <1>8, <1>10, <1>11, <2>2, <2>3
<1>14. ASSUME NEW i \in 1 .. n PROVE Data(offset + 9 + 8 * i) = o.order_ids[i]
  <2>1. 3 + i \in 1 .. 3 + n /\ i - 1 \in 0 .. n /\ (3 + i) - 1 = 3 + (i - 1)
    BY <1>1
  <2>2. Ends(e)[3 + (i - 1)] = 17 + 8 * (i - 1)
    BY <1>12, <2>1
  <2>3. Data(offset + (17 + 8 * (i - 1))) = e[3 + i].val
    BY <1>9, <2>1, <2>2
  <2>4. offset + (17 + 8 * (i - 1)) = offset + 9 + 8 * i
    BY <1>1, <1>9
  <2> QED
    BY <1>4, <1>8, <2>3, <2>4
<1>15. Width(e) = 17 + 8 * n
  <2>1. n \in 0 .. n
    BY <1>1
  <2> QED
    BY <1>8, <1>12, <2>1 DEF Width
<1> QED
  BY <1>13, <1>14, <1>15 DEF e, n

-----------------------------------------------------------------------------
(* The inductive invariant *)

\* The first k operations are decoded, and the decoder is where they end.
Decoded(k) ==
  /\ operations = FirstOf(tx.operations, k)
  /\ HeaderLen + offset = Width(Encode(Prefix(tx, k)))

CInv ==
  /\ tx \in TransactionSet /\ trailer \in Trailers
  /\ cut \in Nat /\ cut <= Width(Fields) /\ Width(Fields) <= IsizeMax
  /\ state = "header" => offset = 0 /\ operations = <<>>
  /\ state \in {"operations", "Ok"} =>
       /\ offset \in Nat /\ HeaderLen + offset <= cut
       /\ decoded = [user |-> tx.user, nonce |-> tx.nonce, gas_limit |-> tx.gas_limit, gas_price |-> fee]
       /\ \E k \in 0 .. Len(tx.operations) : Decoded(k)
  /\ state = "Ok" => offset >= DataLen
  /\ state = "panic" => AnnouncesTooMany(trailer) /\ 8 * trailer[3].val > IsizeMax

\* What is no longer than a slice or a Vec can be does not wrap.
LEMMA NoWrap ==
  ASSUME NEW x \in Nat, x <= IsizeMax, NEW y \in Nat, y <= IsizeMax
  PROVE  Usize(x + Usize(y)) = x + y
<1> DEFINE u == U64Range
           h == u \div 2
<1>1. u \in Nat /\ u > 0 /\ h \in Nat /\ 2 * h <= u
  BY U64Assumption
<1>2. x <= h - 1 /\ y <= h - 1
  BY DEF IsizeMax
<1> HIDE DEF u, h
<1>3. x + y \in Nat /\ x + y < u /\ y < u
  BY <1>1, <1>2
<1>4. \A z \in Nat : z < u => z % u = z
  BY <1>1
<1> QED
  BY <1>3, <1>4 DEF Usize, u

\* A width is a number.
LEMMA WidthNat == ASSUME NEW s \in Seq(FieldSet) PROVE Width(s) \in Nat
<1>1. Len(s) \in 0 .. Len(s)
  OBVIOUS
<1> QED
  BY <1>1, EndsFacts DEF Width

\* The fields of the whole input.
LEMMA InputFields ==
  ASSUME tx \in TransactionSet, trailer \in Trailers
  PROVE  /\ Encode(tx) \in Seq(FieldSet) /\ trailer \in Seq(FieldSet) /\ Fields \in Seq(FieldSet)
         /\ Len(tx.operations) \in Nat /\ tx.operations \in Seq(Operations)
         /\ Width(Fields) \in Nat /\ Width(Encode(tx)) \in Nat /\ Width(trailer) \in Nat
         /\ Width(Fields) = Width(Encode(tx)) + Width(trailer)
<1>1. tx.operations \in Seq(Operations)
  BY DEF TransactionSet
<1>2. Len(tx.operations) \in Nat /\ Len(tx.operations) \in 0 .. Len(tx.operations)
  BY <1>1
<1>3. Encode(tx) \in Seq(FieldSet)
  BY <1>2, EncodedPrefix
<1>4. trailer \in Seq(FieldSet)
  BY TrailersAssumption
<1>5. Fields \in Seq(FieldSet) /\ Width(Fields) = Width(Encode(tx)) + Width(trailer)
  BY <1>3, <1>4, EndsConcat DEF Fields
<1>6. Width(Fields) \in Nat /\ Width(Encode(tx)) \in Nat /\ Width(trailer) \in Nat
  BY <1>3, <1>4, <1>5, WidthNat
<1> QED
  BY <1>1, <1>2, <1>3, <1>4, <1>5, <1>6

\* In front of an operation of the transaction.
LEMMA AtOperation ==
  ASSUME tx \in TransactionSet, trailer \in Trailers, offset \in Nat,
         NEW k \in 0 .. Len(tx.operations), k # Len(tx.operations), Decoded(k)
  PROVE  /\ k + 1 \in 1 .. Len(tx.operations) /\ tx.operations[k + 1] \in Operations
         /\ InFrontOf(tx.operations[k + 1])
         /\ Width(Encode(Prefix(tx, k + 1))) = HeaderLen + offset + Width(EncodeOperation(tx.operations[k + 1]))
         /\ Width(Encode(Prefix(tx, k + 1))) <= Width(Fields)
<1> DEFINE p == Encode(Prefix(tx, k))
           o == tx.operations[k + 1]
           e == EncodeOperation(o)
<1>1. /\ k + 1 \in 1 .. Len(tx.operations) /\ k + 1 \in 0 .. Len(tx.operations) /\ (k + 1) - 1 = k
      /\ o \in Operations
  <2> DEFINE ops == tx.operations
  <2>1. ops \in Seq(Operations) /\ Len(ops) \in Nat
    BY InputFields
  <2>2. k \in 0 .. Len(ops) /\ k # Len(ops)
    OBVIOUS
  <2> HIDE DEF ops
  <2>3. k + 1 \in 1 .. Len(ops) /\ k + 1 \in 0 .. Len(ops) /\ (k + 1) - 1 = k
    BY <2>1, <2>2
  <2>4. ops[k + 1] \in Operations
    BY <2>1, <2>3
  <2> QED
    BY <2>3, <2>4 DEF ops
<1>2. p \in Seq(FieldSet) /\ Encode(Prefix(tx, k + 1)) = p \o e
  BY <1>1, EncodedPrefix
<1>3. e \in Seq(FieldSet)
  BY <1>1, EncodedFields
<1>4. PICK r \in Seq(FieldSet) : Encode(tx) = Encode(Prefix(tx, k + 1)) \o r
  BY <1>1, EncodedRest
<1> HIDE DEF p, e, o
<1>5. Fields = (p \o e) \o (r \o trailer) /\ r \o trailer \in Seq(FieldSet)
  <2>1. p \o e \in Seq(FieldSet) /\ trailer \in Seq(FieldSet)
    BY <1>2, <1>3, InputFields, EndsConcat
  <2>2. ((p \o e) \o r) \o trailer = (p \o e) \o (r \o trailer) /\ r \o trailer \in Seq(FieldSet)
    <3> DEFINE pe == p \o e
    <3> HIDE DEF pe
    <3>1. pe \in Seq(FieldSet)
      BY <2>1 DEF pe
    <3>2. (pe \o r) \o trailer = pe \o (r \o trailer) /\ r \o trailer \in Seq(FieldSet)
      <4>1. \A x, y, z \in Seq(FieldSet) : (x \o y) \o z = x \o (y \o z) /\ y \o z \in Seq(FieldSet)
        BY Associates, SMTT(30)
      <4> QED
        BY <2>1, <3>1, <4>1, Zenon
    <3> QED
      BY <3>2 DEF pe
  <2> QED
    BY <1>2, <1>4, <2>2 DEF Fields
<1>6. HeaderLen + offset = Width(p)
  BY DEF Decoded, p
<1>7. InFrontOf(o)
  BY <1>1, <1>2, <1>5, <1>6, DataAt DEF e
<1>8. Width(p \o e) = Width(p) + Width(e)
  BY <1>2, <1>3, EndsConcat
<1>9. Width(p \o e) <= Width(Fields)
  <2> DEFINE pe == p \o e
             q == r \o trailer
  <2> HIDE DEF pe, q
  <2>1. pe \in Seq(FieldSet) /\ q \in Seq(FieldSet) /\ Fields = pe \o q
    BY <1>2, <1>3, <1>5, EndsConcat DEF pe, q
  <2>2. Width(Fields) = Width(pe) + Width(q)
    BY <2>1, EndsConcat
  <2>3. Width(pe) \in Nat /\ Width(q) \in Nat
    BY <2>1, WidthNat
  <2> QED
    BY <2>2, <2>3 DEF pe
<1> QED
  BY <1>1, <1>2, <1>6, <1>7, <1>8, <1>9 DEF e, o

\* Behind the last operation of the transaction: what is there is foreign.
LEMMA AtTrailer ==
  ASSUME tx \in TransactionSet, trailer \in Trailers, offset \in Nat,
         cut \in Nat, cut <= Width(Fields), offset < DataLen, Decoded(Len(tx.operations))
  PROVE  /\ \/ Data(offset) \notin 0 .. 4
            \/ Data(offset) = 0 /\ Data(offset + 9) \notin 0 .. 3
            \/ Data(offset) = 1 /\ AnnouncesTooMany(trailer) /\ Data(offset + 9) = trailer[3].val
         /\ DataLen <= offset + Width(trailer)
<1> DEFINE p == Encode(tx)
           e == trailer
<1>1. p \in Seq(FieldSet) /\ e \in Seq(FieldSet) /\ <<>> \in Seq(FieldSet)
  BY InputFields
<1>2. Fields = (p \o e) \o <<>>
  <2>1. p \o e \in Seq(FieldSet)
    BY <1>1, EndsConcat
  <2> QED
    BY <2>1 DEF Fields
<1>3. HeaderLen + offset = Width(p)
  BY EncodedPrefix DEF Decoded
<1>4. e # <<>>
  <2> SUFFICES ASSUME e = <<>> PROVE FALSE
    OBVIOUS
  <2>1. Len(e) = 0
    OBVIOUS
  <2>2. Width(e) = 0
    BY <1>1, <2>1, EndsFacts DEF Width
  <2>3. Width(Fields) = Width(p) /\ Width(p) \in Nat
    BY <2>2, InputFields
  <2> QED
    BY <1>3, <2>3 DEF DataLen, HeaderLen
<1>5. Len(e) \in Nat /\ Len(e) >= 1
  BY <1>1, <1>4
<1> HIDE DEF p, e
<1>6. Ends(e)[0] = 0 /\ (\A i \in 1 .. Len(e) : Ends(e)[i] = Ends(e)[i - 1] + e[i].width)
  BY <1>1, EndsFacts
<1>7. Data(offset) = e[1].val
  <2>0. 1 \in 1 .. Len(e) /\ 1 - 1 = 0
    BY <1>5
  <2>1. Input(Width(p) + Ends(e)[1 - 1]) = e[1].val
    BY <1>1, <1>2, <2>0, InputAt
  <2>2. Width(p) + 0 = HeaderLen + offset
    BY <1>3 DEF HeaderLen
  <2> QED
    BY <1>6, <2>0, <2>1, <2>2 DEF Data
<1>8. ASSUME Len(e) >= 3, e[1].width = 1, e[2].width = 8 PROVE Data(offset + 9) = e[3].val
  <2>0. 1 \in 1 .. Len(e) /\ 2 \in 1 .. Len(e) /\ 3 \in 1 .. Len(e) /\ 3 - 1 = 2 /\ 2 - 1 = 1 /\ 1 - 1 = 0
    BY <1>5, <1>8
  <2>1. Ends(e)[1] = Ends(e)[0] + 1 /\ Ends(e)[2] = Ends(e)[1] + 8
    BY <1>6, <1>8, <2>0
  <2>2. Ends(e)[2] = 9
    BY <1>6, <2>1
  <2>3. Input(Width(p) + Ends(e)[2]) = e[3].val
    BY <1>1, <1>2, <2>0, InputAt, ZenonT(40)
  <2>4. Width(p) + 9 = HeaderLen + (offset + 9)
    BY <1>3 DEF HeaderLen
  <2> QED
    BY <2>2, <2>3, <2>4 DEF Data
<1>9. IsForeign(e)
  BY TrailersAssumption DEF e
<1>10. \/ Data(offset) \notin 0 .. 4
       \/ Data(offset) = 0 /\ Data(offset + 9) \notin 0 .. 3
       \/ Data(offset) = 1 /\ AnnouncesTooMany(e) /\ Data(offset + 9) = e[3].val
  <2>1. ASSUME AnnouncesTooMany(e)
        PROVE  Len(e) >= 3 /\ e[1].width = 1 /\ e[2].width = 8 /\ e[1].val = 1
    BY <2>1 DEF AnnouncesTooMany
  <2> QED
    BY <1>4, <1>7, <1>8, <1>9, <2>1 DEF IsForeign
<1>11. DataLen <= offset + Width(e)
  <2>1. Width(Fields) = Width(p) + Width(e) /\ Width(p) \in Nat /\ Width(e) \in Nat
    BY InputFields DEF p, e
  <2> QED
    BY <1>3, <2>1 DEF DataLen, HeaderLen
<1> QED
  BY <1>10, <1>11 DEF e

\* Pushing the next operation of the transaction.
LEMMA PushNext ==
  ASSUME CInv, state = "operations", NEW k \in 0 .. Len(tx.operations), k # Len(tx.operations), Decoded(k),
         NEW n \in Nat, 1 + n = Width(EncodeOperation(tx.operations[k + 1])), Has(n),
         Push(tx.operations[k + 1], n)
  PROVE  CInv'
<1> DEFINE ops == tx.operations
<1>0. tx \in TransactionSet /\ trailer \in Trailers /\ offset \in Nat /\ cut \in Nat
  BY DEF CInv
<1>1. /\ k + 1 \in 1 .. Len(ops) /\ ops \in Seq(Operations) /\ Len(ops) \in Nat
      /\ Width(Encode(Prefix(tx, k + 1))) = HeaderLen + offset + (1 + n)
  BY <1>0, AtOperation, InputFields
<1>2. UNCHANGED <<tx, trailer, fee, cut, state, decoded>> /\ offset' = offset + 1 + n
      /\ operations' = Append(operations, ops[k + 1])
  BY DEF Push
<1>3. operations' = FirstOf(ops, k + 1)
  <2>1. operations = FirstOf(ops, k)
    BY DEF Decoded
  <2>2. FirstOf(ops, k) \in Seq(Operations) /\ Len(FirstOf(ops, k)) = k
    <3>1. k \in Nat /\ \A i \in 1 .. k : ops[i] \in Operations
      BY <1>1
    <3> QED
      BY <3>1 DEF FirstOf
  <2>3. Append(FirstOf(ops, k), ops[k + 1]) = FirstOf(ops, k + 1)
    BY <1>1, <2>2 DEF FirstOf
  <2> QED
    BY <1>2, <2>1, <2>3
<1>4. Decoded(k + 1)'
  BY <1>0, <1>1, <1>2, <1>3 DEF Decoded, HeaderLen, Encode, EncodeHeader, Prefix
<1>5. offset' \in Nat /\ HeaderLen + offset' <= cut
  BY <1>0, <1>2 DEF Has, DataLen, HeaderLen
<1>6. k + 1 \in 0 .. Len(ops)
  BY <1>1
<1>7. Width(Fields)' = Width(Fields)
  BY <1>2 DEF Fields
<1> QED
  BY <1>2, <1>4, <1>5, <1>6, <1>7 DEF CInv

-----------------------------------------------------------------------------
(* The theorems *)

LEMMA CodecInitInv == CodecInit => CInv
<1> SUFFICES ASSUME CodecInit PROVE CInv
  OBVIOUS
<1>1. tx \in TransactionSet /\ trailer \in Trailers
  BY TransactionsAssumption DEF CodecInit, TransactionSet
<1>2. Width(Fields) \in Nat /\ Width(Fields) <= IsizeMax
  BY <1>1, InputFields, InputAssumption DEF CodecInit, Fields
<1> QED
  BY <1>1, <1>2 DEF CodecInit, CInv

\* The header is read as it was written, and takes HeaderLen bytes.
LEMMA HeaderRead ==
  ASSUME tx \in TransactionSet, trailer \in Trailers
  PROVE  /\ Input(0) = tx.user /\ Input(20) = tx.nonce /\ Input(28) = tx.gas_limit
         /\ Width(Encode(Prefix(tx, 0))) = HeaderLen
<1> DEFINE h == EncodeHeader(tx)
<1>1. 0 \in 0 .. Len(tx.operations)
  BY InputFields
<1>2. Encode(Prefix(tx, 0)) = h
  BY EncodedPrefix
<1>3. PICK r \in Seq(FieldSet) : Encode(tx) = h \o r
  BY <1>1, <1>2, EncodedRest
<1>4. /\ h \in Seq(FieldSet) /\ Len(h) = 4
      /\ h[1].val = tx.user /\ h[2].val = tx.nonce /\ h[3].val = tx.gas_limit
      /\ Ends(h)[0] = 0 /\ Ends(h)[1] = 20 /\ Ends(h)[2] = 28 /\ Width(h) = HeaderLen
  BY HeaderFields
<1> HIDE DEF h
<1> DEFINE q == r \o trailer
<1>5. <<>> \in Seq(FieldSet) /\ trailer \in Seq(FieldSet)
  BY InputFields
<1>6. Fields = (<<>> \o h) \o q /\ q \in Seq(FieldSet)
  <2>1. \A x, y, z \in Seq(FieldSet) : (x \o y) \o z = x \o (y \o z) /\ y \o z \in Seq(FieldSet)
    BY Associates, SMTT(30)
  <2>2. (h \o r) \o trailer = h \o (r \o trailer) /\ r \o trailer \in Seq(FieldSet)
    BY <1>4, <1>5, <2>1, Zenon
  <2>3. <<>> \o h = h
    BY <1>4
  <2> QED
    BY <1>3, <2>2, <2>3 DEF Fields
<1> HIDE DEF q
<1>7. Width(<<>>) = 0
  BY <1>5, EndsFacts DEF Width
<1>8. \A m \in 1 .. 4 : Input(Width(<<>>) + Ends(h)[m - 1]) = h[m].val
  <2> SUFFICES ASSUME NEW m \in 1 .. 4 PROVE Input(Width(<<>>) + Ends(h)[m - 1]) = h[m].val
    OBVIOUS
  <2> DEFINE z == <<>>
  <2>1. z \in Seq(FieldSet) /\ Fields = (z \o h) \o q
    BY <1>5, <1>6
  <2> HIDE DEF z
  <2>2. m \in 1 .. Len(h)
    BY <1>4
  <2>3. Input(Width(z) + Ends(h)[m - 1]) = h[m].val
    BY <1>4, <1>6, <2>1, <2>2, InputAt
  <2> QED
    BY <2>3 DEF z
<1>9. 1 \in 1 .. 4 /\ 2 \in 1 .. 4 /\ 3 \in 1 .. 4 /\ 1 - 1 = 0 /\ 2 - 1 = 1 /\ 3 - 1 = 2
      /\ 0 + 0 = 0 /\ 0 + 20 = 20 /\ 0 + 28 = 28
  OBVIOUS
<1>10. Input(0) = h[1].val /\ Input(20) = h[2].val /\ Input(28) = h[3].val
  <2>1. Input(Width(<<>>) + Ends(h)[1 - 1]) = h[1].val
    BY <1>8, <1>9
  <2>2. Input(Width(<<>>) + Ends(h)[2 - 1]) = h[2].val
    BY <1>8, <1>9
  <2>3. Input(Width(<<>>) + Ends(h)[3 - 1]) = h[3].val
    BY <1>8, <1>9
  <2> QED
    BY <1>4, <1>7, <1>9, <2>1, <2>2, <2>3
<1> QED
  BY <1>2, <1>4, <1>10

\* Rejecting an input keeps the invariant, and so do ending within it and the panic
\* of an oversized count.
LEMMA FinishInv ==
  ASSUME CInv, NEW s, Finish(s),
         \/ s \in {"InvalidLength", "InvalidFormat"}
         \/ s = "Ok" /\ state = "operations" /\ offset >= DataLen
         \/ s = "panic" /\ AnnouncesTooMany(trailer) /\ 8 * trailer[3].val > IsizeMax
  PROVE  CInv'
  BY DEF CInv, Finish, Decoded, Fields, DataLen, AnnouncesTooMany

LEMMA DecodeHeaderInv ==
  ASSUME CInv, DecodeHeader
  PROVE  CInv'
<1>0. tx \in TransactionSet /\ trailer \in Trailers /\ cut \in Nat /\ offset = 0 /\ operations = <<>>
  BY DEF CInv, DecodeHeader
<1>1. CASE cut < HeaderLen
  BY <1>1, FinishInv DEF DecodeHeader
<1>2. CASE ~(cut < HeaderLen)
  <2>1. /\ decoded' = [user |-> tx.user, nonce |-> tx.nonce, gas_limit |-> tx.gas_limit, gas_price |-> fee]
        /\ state' = "operations" /\ UNCHANGED <<tx, trailer, fee, cut, offset, operations>>
    BY <1>0, <1>2, HeaderRead DEF DecodeHeader
  <2>2. FirstOf(tx.operations, 0) = <<>>
    BY DEF FirstOf
  <2>3. HeaderLen + 0 = Width(Encode(Prefix(tx, 0)))
    BY <1>0, HeaderRead DEF HeaderLen
  <2>4. Decoded(0)'
    BY <1>0, <2>1, <2>2, <2>3 DEF Decoded
  <2>5. 0 \in 0 .. Len(tx.operations)
    BY <1>0, InputFields
  <2>6. Width(Fields)' = Width(Fields)
    BY <2>1 DEF Fields
  <2>7. (HeaderLen + offset <= cut)'
    BY <1>0, <1>2, <2>1 DEF HeaderLen
  <2> QED
    BY <1>0, <2>1, <2>4, <2>5, <2>6, <2>7 DEF CInv
<1> QED
  BY <1>1, <1>2

\* Behind a count that was read, the end of ids that a Vec can hold is counted right.
LEMMA CountedRight ==
  ASSUME offset \in Nat, cut \in Nat, cut <= Width(Fields), Width(Fields) \in Nat,
         Width(Fields) <= IsizeMax, Has(16), NEW c \in Nat, 8 * c <= IsizeMax
  PROVE  Usize(offset + 17 + Usize(8 * c)) = offset + 17 + 8 * c
<1>1. IsizeMax \in Int
  BY U64Assumption DEF IsizeMax
<1>2. offset + 17 \in Nat /\ offset + 17 <= IsizeMax /\ 8 * c \in Nat
  BY <1>1 DEF Has, DataLen, HeaderLen
<1> QED
  BY <1>2, NoWrap

\* Whatever is decoded as an operation is the next operation of the transaction.
LEMMA DecodeOperationInv ==
  ASSUME CInv, DecodePlaceOrder \/ DecodeCancelOrder \/ DecodeCancelAll \/ DecodeSetLeverage \/ DecodeAdjustMargin
  PROVE  CInv'
<1>0. /\ tx \in TransactionSet /\ trailer \in Trailers
      /\ cut \in Nat /\ cut <= Width(Fields) /\ Width(Fields) <= IsizeMax
      /\ state = "operations" /\ offset \in Nat /\ offset < DataLen
  BY DEF CInv, DecodePlaceOrder, DecodeCancelOrder, DecodeCancelAll, DecodeSetLeverage, DecodeAdjustMargin, IsNext
<1>1. PICK k \in 0 .. Len(tx.operations) : Decoded(k)
  BY <1>0 DEF CInv
<1>2. CASE Reject
  BY <1>2, FinishInv DEF Reject
<1>3. CASE k = Len(tx.operations)
  <2>1. /\ \/ Data(offset) \notin 0 .. 4
           \/ Data(offset) = 0 /\ Data(offset + 9) \notin 0 .. 3
           \/ Data(offset) = 1 /\ AnnouncesTooMany(trailer) /\ Data(offset + 9) = trailer[3].val
        /\ DataLen <= offset + Width(trailer)
    BY <1>0, <1>1, <1>3, AtTrailer
  <2>2. offset + 1 + 8 = offset + 9
    BY <1>0
  <2>3. CASE Data(offset) = 1 /\ AnnouncesTooMany(trailer) /\ Data(offset + 9) = trailer[3].val
    <3> DEFINE c == trailer[3].val
    <3>1. DecodeCancelOrder
      BY <2>3 DEF DecodePlaceOrder, DecodeCancelAll, DecodeSetLeverage, DecodeAdjustMargin, IsNext
    <3>2. c \in Nat /\ 17 + 8 * c > Width(trailer) /\ Width(trailer) \in Nat
      <4>1. trailer \in Seq(FieldSet) /\ Width(trailer) \in Nat
        BY <1>0, InputFields
      <4>2. Len(trailer) >= 3 /\ 17 + 8 * c > Width(trailer)
        BY <2>3 DEF AnnouncesTooMany
      <4>3. trailer[3] \in FieldSet
        BY <4>1, <4>2
      <4> QED
        BY <4>1, <4>2, <4>3 DEF FieldSet
    <3> HIDE DEF c
    <3>3. \/ ~(Has(16) /\ PassesCheck(c)) /\ Reject
          \/ Has(16) /\ PassesCheck(c) /\ 8 * c > IsizeMax /\ Finish("panic")
          \/ Has(16) /\ PassesCheck(c) /\ 8 * c <= IsizeMax
      BY <2>2, <2>3, <3>1 DEF DecodeCancelOrder, c
    <3>4. CASE Has(16) /\ PassesCheck(c) /\ 8 * c <= IsizeMax
      <4>1. Usize(offset + 17 + Usize(8 * c)) = offset + 17 + 8 * c
        BY <1>0, <3>2, <3>4, InputFields, CountedRight
      <4>2. offset + 17 + 8 * c <= DataLen
        BY <3>4, <4>1 DEF PassesCheck
      <4> QED
        BY <1>0, <2>1, <3>2, <4>2 DEF DataLen, HeaderLen
    <3>5. CASE 8 * c > IsizeMax /\ Finish("panic")
      BY <2>3, <3>5, FinishInv DEF c
    <3> QED
      BY <1>2, <3>3, <3>4, <3>5
  <2>4. CASE Data(offset) \notin 0 .. 4 \/ (Data(offset) = 0 /\ Data(offset + 9) \notin 0 .. 3)
    <3>1. Reject
      BY <2>2, <2>4
      DEF DecodePlaceOrder, DecodeCancelOrder, DecodeCancelAll, DecodeSetLeverage, DecodeAdjustMargin, IsNext
    <3> QED
      BY <1>2, <3>1
  <2> QED
    BY <2>1, <2>3, <2>4
<1>4. CASE k # Len(tx.operations) /\ ~Reject
  <2> DEFINE o == tx.operations[k + 1]
  <2>1. k + 1 \in 1 .. Len(tx.operations) /\ o \in Operations /\ InFrontOf(o)
    BY <1>0, <1>1, <1>4, AtOperation
  <2>2. ASSUME NEW n \in Nat, 1 + n = Width(EncodeOperation(o)), Has(n), Push(o, n) PROVE CInv'
    BY <1>0, <1>1, <1>4, <2>2, PushNext
  <2> HIDE DEF o
  <2>3. CASE o.op = "PlaceOrder"
    <3>1. /\ Width(EncodeOperation(o)) = 86
          /\ Data(offset) = 0 /\ Data(offset + 1) = o.market
          /\ Data(offset + 9) = ByteOf(o.type, OrderTypes) /\ Data(offset + 10) = ByteOf(o.side, Sides)
          /\ Data(offset + 11) = o.price /\ Data(offset + 43) = o.size
          /\ Data(offset + 75) = o.leverage /\ Data(offset + 76) = Flag(o.post_only)
          /\ Data(offset + 77) = Flag(o.reduce_only) /\ Data(offset + 78) = UnwrapOr0(o.expires_at)
      BY <2>1, <2>3, ReadPlaceOrder
    <3>2. DecodePlaceOrder
      BY <3>1 DEF DecodeCancelOrder, DecodeCancelAll, DecodeSetLeverage, DecodeAdjustMargin, IsNext
    <3>3. /\ offset + 1 + 8 = offset + 9 /\ offset + 1 + 9 = offset + 10 /\ offset + 1 + 10 = offset + 11
          /\ offset + 1 + 42 = offset + 43 /\ offset + 1 + 74 = offset + 75 /\ offset + 1 + 75 = offset + 76
          /\ offset + 1 + 76 = offset + 77 /\ offset + 1 + 77 = offset + 78
      BY <1>0
    <3>4. Has(89) /\
          Push([op |-> "PlaceOrder", market |-> o.market, type |-> OrderTypes[ByteOf(o.type, OrderTypes) + 1],
                side |-> IF ByteOf(o.side, Sides) = 0 THEN "Long" ELSE "Short",
                price |-> o.price, size |-> o.size, leverage |-> o.leverage,
                post_only |-> Flag(o.post_only) # 0, reduce_only |-> Flag(o.reduce_only) # 0,
                expires_at |-> OptionOf(UnwrapOr0(o.expires_at))], 85)
      BY <1>4, <3>1, <3>2, <3>3 DEF DecodePlaceOrder
    <3>5. /\ o.post_only \in BOOLEAN /\ o.reduce_only \in BOOLEAN /\ o.expires_at \in Options
          /\ o.type \in {"Limit", "Market", "StopLimit", "StopMarket"} /\ o.side \in {"Long", "Short"}
      BY <2>1, <2>3, PlaceOrderFields
    <3>6. OrderTypes[ByteOf(o.type, OrderTypes) + 1] = o.type
      BY <3>5, Codes DEF OrderTypes
    <3>7. (IF ByteOf(o.side, Sides) = 0 THEN "Long" ELSE "Short") = o.side
      BY <3>5, Codes
    <3>8. (Flag(o.post_only) # 0) = o.post_only /\ (Flag(o.reduce_only) # 0) = o.reduce_only
          /\ OptionOf(UnwrapOr0(o.expires_at)) = o.expires_at
      BY <3>5, Codes, Zenon
    <3>9. Push(o, 85)
      <4>1. o = [op |-> "PlaceOrder", market |-> o.market, type |-> o.type, side |-> o.side,
                 price |-> o.price, size |-> o.size, leverage |-> o.leverage,
                 post_only |-> o.post_only, reduce_only |-> o.reduce_only, expires_at |-> o.expires_at]
        BY <2>1, <2>3, PlaceOrderFields
      <4> QED
        BY <3>4, <3>6, <3>7, <3>8, <4>1
    <3>10. Has(85) /\ 1 + 85 = 86
      BY <1>0, <3>4 DEF Has, DataLen, HeaderLen
    <3> QED
      BY <2>2, <3>1, <3>9, <3>10
  <2>4. CASE o.op = "CancelOrder"
    <3> DEFINE n == Len(o.order_ids)
    <3>1. /\ Width(EncodeOperation(o)) = 17 + 8 * n
          /\ Data(offset) = 1 /\ Data(offset + 1) = o.market /\ Data(offset + 9) = n
          /\ \A i \in 1 .. n : Data(offset + 9 + 8 * i) = o.order_ids[i]
      BY <2>1, <2>4, ReadCancelOrder
    <3>2. DecodeCancelOrder
      BY <3>1 DEF DecodePlaceOrder, DecodeCancelAll, DecodeSetLeverage, DecodeAdjustMargin, IsNext
    <3>3. offset + 1 + 8 = offset + 9
      BY <1>0
    <3>4. o.order_ids \in Seq(Nat) /\ n \in Nat
      <4>1. o.order_ids \in Seq(Nat)
        BY <2>1, <2>4, CancelOrderFields
      <4> QED
        BY <4>1
    <3>5. /\ Has(16) /\ PassesCheck(n)
          /\ 8 * n <= IsizeMax =>
               Push([op |-> "CancelOrder", market |-> o.market,
                     order_ids |-> [i \in 1 .. n |-> Data(offset + 9 + 8 * i)]], 16 + 8 * n)
      <4> HIDE DEF n
      <4>1. ~(8 * n > IsizeMax /\ 8 * n <= IsizeMax)
        BY <3>4, U64Assumption DEF IsizeMax
      <4> QED
        BY <1>4, <3>1, <3>2, <3>3, <4>1 DEF DecodeCancelOrder
    <3>10. 8 * n <= IsizeMax
      <4>1. HeaderLen + offset + (17 + 8 * n) <= Width(Fields) /\ Width(Fields) \in Nat
        BY <1>0, <1>1, <1>4, <3>1, AtOperation, InputFields DEF o
      <4> HIDE DEF n
      <4>2. IsizeMax \in Int
        BY U64Assumption DEF IsizeMax
      <4> QED
        BY <1>0, <3>4, <4>1, <4>2 DEF HeaderLen
    <3>11. Has(16 + 8 * n)
      <4> HIDE DEF n
      <4>1. Usize(offset + 17 + Usize(8 * n)) = offset + 17 + 8 * n
        BY <1>0, <3>4, <3>5, <3>10, InputFields, CountedRight
      <4>2. offset + 17 + 8 * n <= DataLen
        BY <3>5, <4>1 DEF PassesCheck
      <4>3. offset + 17 + 8 * n = offset + 1 + (16 + 8 * n)
        BY <1>0, <3>4
      <4> QED
        BY <4>2, <4>3 DEF Has
    <3>6. [i \in 1 .. n |-> Data(offset + 9 + 8 * i)] = o.order_ids
      <4>1. o.order_ids = [i \in 1 .. n |-> o.order_ids[i]]
        BY <3>4
      <4> QED
        BY <3>1, <4>1, Zenon
    <3>7. o = [op |-> "CancelOrder", market |-> o.market, order_ids |-> o.order_ids]
      BY <2>1, <2>4, CancelOrderFields
    <3>8. Push(o, 16 + 8 * n)
      BY <3>5, <3>6, <3>7, <3>10
    <3>9. 16 + 8 * n \in Nat /\ 1 + (16 + 8 * n) = 17 + 8 * n
      BY <3>4
    <3> QED
      BY <2>2, <3>1, <3>8, <3>9, <3>11
  <2>5. CASE o.op = "CancelAll"
    <3>1. Width(EncodeOperation(o)) = 9 /\ Data(offset) = 2 /\ Data(offset + 1) = UnwrapOr0(o.market)
      BY <2>1, <2>5, ReadCancelAll
    <3>2. DecodeCancelAll
      BY <3>1 DEF DecodePlaceOrder, DecodeCancelOrder, DecodeSetLeverage, DecodeAdjustMargin, IsNext
    <3>3. OptionOf(UnwrapOr0(o.market)) = o.market /\ o = [op |-> "CancelAll", market |-> o.market]
      BY <2>1, <2>5, CancelAllFields, Codes
    <3>4. Has(8) /\ Push(o, 8)
      BY <1>4, <3>1, <3>2, <3>3 DEF DecodeCancelAll
    <3>5. 1 + 8 = 9
      OBVIOUS
    <3> QED
      BY <2>2, <3>1, <3>4, <3>5
  <2>6. CASE o.op = "SetLeverage"
    <3>1. Width(EncodeOperation(o)) = 10
          /\ Data(offset) = 3 /\ Data(offset + 1) = o.market /\ Data(offset + 9) = o.leverage
      BY <2>1, <2>6, ReadSetLeverage
    <3>2. DecodeSetLeverage
      BY <3>1 DEF DecodePlaceOrder, DecodeCancelOrder, DecodeCancelAll, DecodeAdjustMargin, IsNext
    <3>3. o = [op |-> "SetLeverage", market |-> o.market, leverage |-> o.leverage]
      BY <2>1, <2>6, SetLeverageFields
    <3>4. Has(9) /\ Push(o, 9)
      BY <1>4, <3>1, <3>2, <3>3 DEF DecodeSetLeverage
    <3>5. 1 + 9 = 10
      OBVIOUS
    <3> QED
      BY <2>2, <3>1, <3>4, <3>5
  <2>7. CASE o.op = "AdjustMargin"
    <3>1. Width(EncodeOperation(o)) = 41
          /\ Data(offset) = 4 /\ Data(offset + 1) = o.market /\ Data(offset + 9) = o.amount
      BY <2>1, <2>7, ReadAdjustMargin
    <3>2. DecodeAdjustMargin
      BY <3>1 DEF DecodePlaceOrder, DecodeCancelOrder, DecodeCancelAll, DecodeSetLeverage, IsNext
    <3>3. o = [op |-> "AdjustMargin", market |-> o.market, amount |-> o.amount]
      BY <2>1, <2>7, AdjustMarginFields
    <3>4. Has(40) /\ Push(o, 40)
      BY <1>4, <3>1, <3>2, <3>3 DEF DecodeAdjustMargin
    <3>5. 1 + 40 = 41
      OBVIOUS
    <3> QED
      BY <2>2, <3>1, <3>4, <3>5
  <2> QED
    BY <2>1, <2>3, <2>4, <2>5, <2>6, <2>7, OperationKinds
<1> QED
  BY <1>2, <1>3, <1>4

\* The decoder is always between two operations of what was encoded.
THEOREM CodecInvariance == CodecSpec => []CInv
<1>1. CInv /\ [CodecNext]_codecVars => CInv'
  <2> SUFFICES ASSUME CInv, [CodecNext]_codecVars PROVE CInv'
    OBVIOUS
  <2>1. CASE DecodeHeader
    BY <2>1, DecodeHeaderInv
  <2>2. CASE DecodeEnd
    BY <2>2, FinishInv DEF DecodeEnd
  <2>3. CASE DecodeUnknown
    BY <2>3, FinishInv DEF DecodeUnknown, Reject
  <2>4. CASE DecodePlaceOrder \/ DecodeCancelOrder \/ DecodeCancelAll \/ DecodeSetLeverage \/ DecodeAdjustMargin
    BY <2>4, DecodeOperationInv
  <2>5. CASE UNCHANGED codecVars
    BY <2>5 DEF codecVars, CInv, Decoded, Fields, DataLen, AnnouncesTooMany
  <2> QED
    BY <2>1, <2>2, <2>3, <2>4, <2>5 DEF CodecNext
<1> QED
  BY <1>1, CodecInitInv, PTL DEF CodecSpec

\* ReadsInBounds: whatever is encoded, wherever the input ends, and whatever count a
\* foreign CancelOrder announces, wrapped or not, no slice of decode_operations
\* reaches behind the end of the input, and an encoded transaction never panics.
THEOREM ReadsInBoundsHolds == CodecSpec => []ReadsInBounds
<1>1. CInv => ReadsInBounds
  BY DEF CInv, ReadsInBounds, DataLen, HeaderLen
<1> QED
  BY <1>1, CodecInvariance, PTL

\* DecodesWhatWasEncoded: decoding inverts encoding, for transactions of any
\* number of operations, also of any number of cancelled orders, and a cut input
\* or a foreign field is never taken for an operation.
THEOREM DecodesWhatWasEncodedHolds == CodecSpec => []DecodesWhatWasEncoded
<1>1. CInv => DecodesWhatWasEncoded
  <2> SUFFICES ASSUME CInv, state = "Ok" PROVE DecodesWhatWasEncoded
    BY DEF DecodesWhatWasEncoded
  <2>1. PICK k \in 0 .. Len(tx.operations) : Decoded(k)
    BY DEF CInv
  <2>2. tx.operations \in Seq(Operations)
    BY InputFields DEF CInv
  <2>3. IsPrefix(operations, tx.operations)
    <3>1. Len(tx.operations) \in Nat /\ k \in Nat /\ k <= Len(tx.operations)
          /\ \A i \in 1 .. k : tx.operations[i] \in Operations
      BY <2>2
    <3>2. operations = [i \in 1 .. k |-> tx.operations[i]]
      BY <2>1 DEF Decoded, FirstOf
    <3>3. operations \in Seq(Operations) /\ Len(operations) = k
      BY <3>1, <3>2
    <3>4. SubSeq(operations, 1, k) = SubSeq(tx.operations, 1, k)
      BY <2>2, <3>1, <3>2, <3>3
    <3> QED
      BY <3>1, <3>3, <3>4 DEF IsPrefix
  <2>4. Width(Encode([tx EXCEPT !.operations = operations])) = cut
    BY <2>1 DEF CInv, Decoded, Prefix, DataLen, HeaderLen
  <2> QED
    BY <2>3, <2>4 DEF CInv, DecodesWhatWasEncoded
<1> QED
  BY <1>1, CodecInvariance, PTL
=============================================================================
