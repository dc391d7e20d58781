--------------------------- MODULE PerpDexProofs ---------------------------
(***************************************************************************)
(* Proofs about PerpDex, for any users, markets, threads and transactions. *)
(***************************************************************************)
EXTENDS PerpDex, TLAPS, FiniteSetTheorems, NaturalsInduction, WellFoundedInduction

Pcs == {"idle", "operations", "apply", "insert", "remove"}
ApplyPcs == {"apply", "insert", "remove"}
Positions == [size : Int, entry : Nat, leverage : Nat, margin : Int]

\* What a transaction of user u may write.
Entries(u) ==
  [loc : {Balance(u), UserNonce(u)}, val : Nat]
  \cup [loc : {Position(u, m) : m \in Markets}, val : Positions]
  \cup [loc : {Order(u, m, id) : m \in Markets, id \in Nat}, val : [size : Nat]]
  \cup [loc : {Order(u, m, id) : m \in Markets \cup {0}, id \in Nat}, val : {Deleted}]

\* A write that puts an order into the book.
NewOrder(w) == IsOrder(w.loc) /\ ~IsDeletion(w)
NewAt(th, i) == i \in DOMAIN write_set[th] /\ NewOrder(write_set[th][i])

TypeInv ==
  /\ workload \in Workloads /\ next_order_id \in Nat
  /\ user \in [Threads -> Users] /\ pc \in [Threads -> Pcs] /\ ops \in [Threads -> Seq(Operations)]
  /\ user_orders \in [Users -> [Markets -> Seq(Nat)]]
  /\ filled \in [Threads -> [Markets -> Int]] /\ reported \in [Users -> [Markets -> Int]]
  /\ overflowed \subseteq Users \X Markets
  /\ write_set \in [Threads -> Seq(UNION {Entries(u) : u \in Users})]
  /\ \A th \in Threads : write_set[th] \in Seq(Entries(user[th]))
  /\ \A l \in DOMAIN data : \E u \in Users : Write(l, data[l]) \in Entries(u)

\* A thread without a transaction has no writes; one that applies its writes
\* has one to apply; and no two threads serve the same user.
PlaceInv ==
  /\ \A th \in Threads :
       /\ pc[th] = "idle" => write_set[th] = <<>> /\ filled[th] = [m \in Markets |-> 0]
       /\ pc[th] \in ApplyPcs => write_set[th] # <<>>
       /\ pc[th] = "insert" => NewOrder(Head(write_set[th]))
       /\ pc[th] = "remove" => IsDeletion(Head(write_set[th]))
       /\ \A i \in DOMAIN ops[th] : \E b \in workload.batches : \E j \in DOMAIN b : ops[th][i] = b[j]
  /\ \A th, o \in Threads :
       th # o /\ pc[th] # "idle" /\ pc[o] # "idle" => user[th] # user[o]

\* Ids below the counter are taken, once: by an order in the book, or by one
\* write that puts an order there.
IdInv ==
  /\ \A th \in Threads, i \in Nat : NewAt(th, i) => write_set[th][i].loc[4] < next_order_id
  /\ \A th, o \in Threads, i, j \in Nat :
       NewAt(th, i) /\ NewAt(o, j) /\ write_set[th][i].loc[4] = write_set[o][j].loc[4]
         => th = o /\ i = j
  /\ \A l \in DOMAIN data : Live(l) => l[4] < next_order_id
  /\ \A l \in DOMAIN data, th \in Threads, i \in Nat :
       Live(l) /\ NewAt(th, i) => l[4] # write_set[th][i].loc[4]
  /\ \A k, l \in DOMAIN data : Live(k) /\ Live(l) /\ k[4] = l[4] => k = l

Holds(ids, id) == \E i \in DOMAIN ids : ids[i] = id

\* The index holds an id once, before the order is in the book and until
\* somebody takes it out again.
IndexOnce ==
  \A u \in Users, m \in Markets : \A i, j \in DOMAIN user_orders[u][m] :
    user_orders[u][m][i] = user_orders[u][m][j] => i = j
IndexBelow ==
  \A u \in Users, m \in Markets, id \in Nat : Holds(user_orders[u][m], id) => id < next_order_id
PendingOut ==
  \A th \in Threads, i \in Nat : NewAt(th, i) =>
    LET l == write_set[th][i].loc
    IN Holds(user_orders[l[2]][l[3]], l[4]) => pc[th] = "insert" /\ i = 1
InsertIn ==
  \A th \in Threads : pc[th] = "insert" =>
    LET l == Head(write_set[th]).loc IN Holds(user_orders[l[2]][l[3]], l[4])
LiveIn ==
  \A l \in DOMAIN data : Live(l) =>
    \/ Holds(user_orders[l[2]][l[3]], l[4])
    \/ \E th \in Threads : pc[th] = "remove" /\ Head(write_set[th]).loc = l
IndexInv == IndexOnce /\ IndexBelow /\ PendingOut /\ InsertIn /\ LiveIn

Under(price, prices) == \E p \in prices : price <= p

\* The location of a position that is not among those which have overflowed.
Fits(l, large) == l[1] = "Position" /\ <<l[2], l[3]>> \notin large

\* Every entry price, stored or about to be, is at most a price of a fill.
PriceInv ==
  /\ \A l \in DOMAIN data : Fits(l, overflowed) => Under(data[l].entry, FillPrices)
  /\ \A th \in Threads : \A i \in DOMAIN write_set[th] :
       Fits(write_set[th][i].loc, overflowed) => Under(write_set[th][i].val.entry, FillPrices)

SizeOf(u, m) == IF PositionOf(u, m) = NoPosition THEN 0 ELSE PositionOf(u, m).size
SizeIn(stored, u, m) ==
  LET l == Position(u, m)
  IN IF l \notin DOMAIN stored \/ stored[l] = NoPosition THEN 0 ELSE stored[l].size

\* Write i is the last one to a position; there is none.
LastAt(ws, u, m, i) ==
  /\ i \in DOMAIN ws /\ ws[i].loc = Position(u, m)
  /\ \A j \in DOMAIN ws : j > i => ws[j].loc # Position(u, m)
NoneAt(ws, u, m) == \A j \in DOMAIN ws : ws[j].loc # Position(u, m)

\* Of a transaction at work: the last write to the position has the reported
\* size and the transaction's own fill, and so has the storage, once that write
\* is applied.
FillOK(place, ws, u, m, size, before, fill) ==
  /\ place = "operations" => size = before
  /\ \A i \in Nat : LastAt(ws, u, m, i) => ws[i].val.size = before + fill
  /\ place # "idle" /\ NoneAt(ws, u, m) =>
       IF place = "operations" THEN fill = 0 ELSE size = before + fill

\* Of every position that has not overflowed: where nobody is at work, the one
\* in the storage is what was reported.
FillInv ==
  /\ \A u \in Users, m \in Markets :
       <<u, m>> \notin overflowed /\ (\A th \in Threads : pc[th] # "idle" => user[th] # u)
         => SizeIn(data, u, m) = reported[u][m]
  /\ \A th \in Threads, m \in Markets : <<user[th], m>> \notin overflowed =>
       FillOK(pc[th], write_set[th], user[th], m, SizeIn(data, user[th], m), reported[user[th]][m],
              filled[th][m])

-----------------------------------------------------------------------------
(* Sequences *)

\* A nonempty set of natural numbers has a least element.
LEMMA Least ==
  ASSUME NEW S \in SUBSET Nat, S # {}
  PROVE  \E m \in S : \A n \in S : ~(n < m)
<1>1. PICK m \in S : \A n \in S : ~(<<n, m>> \in OpToRel(<, Nat))
  BY NatLessThanWellFounded, WFMin
<1> QED
  BY <1>1 DEF OpToRel

\* What Retain computes, from the front: a sequence for every prefix.
LEMMA RetainSteps ==
  ASSUME NEW ids \in Seq(Nat), NEW id
  PROVE  \E f : /\ f[0] = <<>>
                /\ \A n \in 1 .. Len(ids) :
                     f[n] = IF ids[n] = id THEN f[n - 1] ELSE Append(f[n - 1], ids[n])
                /\ Retain(ids, id) = f[Len(ids)]
<1> DEFINE Eq(g, k) == g = [n \in 0 .. k |-> IF n = 0 THEN <<>> ELSE
                              IF ids[n] = id THEN g[n - 1] ELSE Append(g[n - 1], ids[n])]
           L == Len(ids)
           R == CHOOSE g : Eq(g, L)
<1>0. L \in Nat
  OBVIOUS
<1>1. Retain(ids, id) = R[L]
  BY DEF Retain
<1> HIDE DEF L
<1>2. \A k \in 0 .. L : \E g : Eq(g, k)
  <2> DEFINE Bad == {k \in 0 .. L : ~\E g : Eq(g, k)}
  <2> SUFFICES ASSUME Bad # {} PROVE FALSE
    OBVIOUS
  <2>1. Bad \in SUBSET Nat
    BY <1>0
  <2>2. PICK m \in Bad : \A n \in Bad : ~(n < m)
    BY <2>1, Least
  <2>3. CASE m = 0
    <3> DEFINE g == [n \in 0 .. 0 |-> <<>>]
    <3>1. Eq(g, 0)
      OBVIOUS
    <3> QED
      BY <2>2, <2>3, <3>1
  <2>4. CASE m # 0
    <3>1. m - 1 \in 0 .. L /\ m - 1 < m /\ m \in Nat
      BY <1>0, <2>2, <2>4
    <3>2. PICK g : Eq(g, m - 1)
      BY <2>2, <3>1
    <3> DEFINE last == IF ids[m] = id THEN g[m - 1] ELSE Append(g[m - 1], ids[m])
               h == [n \in 0 .. m |-> IF n = m THEN last ELSE g[n]]
    <3>3. ASSUME NEW n \in 0 .. m
          PROVE  h[n] = IF n = 0 THEN <<>> ELSE
                          IF ids[n] = id THEN h[n - 1] ELSE Append(h[n - 1], ids[n])
      <4>1. CASE n = m
        <5>1. h[m - 1] = g[m - 1]
          BY <3>1
        <5> QED
          BY <2>4, <4>1, <5>1
      <4>2. CASE n # m
        <5>1. n \in 0 .. m - 1
          BY <3>1, <4>2
        <5>2. h[n] = g[n] /\ (n # 0 => h[n - 1] = g[n - 1])
          BY <3>1, <4>2, <5>1
        <5>3. g[n] = IF n = 0 THEN <<>> ELSE IF ids[n] = id THEN g[n - 1] ELSE Append(g[n - 1], ids[n])
          BY <3>2, <5>1
        <5> QED
          BY <5>2, <5>3
      <4> QED
        BY <4>1, <4>2
    <3>4. Eq(h, m)
      <4> HIDE DEF last
      <4> QED
        BY <3>3
    <3> QED
      BY <2>2, <3>4
  <2> QED
    BY <2>3, <2>4
<1>3. Eq(R, L)
  <2>0. L \in 0 .. L
    BY <1>0
  <2> HIDE DEF Eq
  <2>1. \E g : Eq(g, L)
    BY <1>2, <2>0
  <2> QED
    BY <2>1
<1>4. /\ R[0] = <<>>
      /\ \A n \in 1 .. L : R[n] = IF ids[n] = id THEN R[n - 1] ELSE Append(R[n - 1], ids[n])
  <2> HIDE DEF R
  <2>1. \A n \in 0 .. L : R[n] = IF n = 0 THEN <<>> ELSE
                            IF ids[n] = id THEN R[n - 1] ELSE Append(R[n - 1], ids[n])
    BY <1>3
  <2> QED
    BY <1>0, <2>1
<1> HIDE DEF R
<1> QED
  BY <1>1, <1>4 DEF L

\* Retain keeps every other id, no others, and none twice that was there once.
LEMMA RetainIs ==
  ASSUME NEW ids \in Seq(Nat), NEW id
  PROVE  LET r == Retain(ids, id)
         IN /\ r \in Seq(Nat)
            /\ \A i \in DOMAIN ids : ids[i] # id => \E j \in DOMAIN r : r[j] = ids[i]
            /\ \A j \in DOMAIN r : r[j] # id /\ \E i \in DOMAIN ids : ids[i] = r[j]
            /\ (\A i, j \in DOMAIN ids : ids[i] = ids[j] => i = j)
                 => \A i, j \in DOMAIN r : r[i] = r[j] => i = j
<1>1. PICK f : /\ f[0] = <<>>
               /\ \A n \in 1 .. Len(ids) :
                    f[n] = IF ids[n] = id THEN f[n - 1] ELSE Append(f[n - 1], ids[n])
               /\ Retain(ids, id) = f[Len(ids)]
  BY RetainSteps
<1> DEFINE Once == \A i, j \in DOMAIN ids : ids[i] = ids[j] => i = j
           Good(n) == /\ f[n] \in Seq(Nat)
                      /\ \A i \in 1 .. n : ids[i] # id => \E j \in DOMAIN f[n] : f[n][j] = ids[i]
                      /\ \A j \in DOMAIN f[n] : f[n][j] # id /\ \E i \in 1 .. n : ids[i] = f[n][j]
                      /\ Once => \A i, j \in DOMAIN f[n] : f[n][i] = f[n][j] => i = j
<1>0. Len(ids) \in Nat /\ DOMAIN ids = 1 .. Len(ids)
  OBVIOUS
<1>2. Good(0)
  BY <1>1
<1>3. ASSUME NEW n \in 1 .. Len(ids), Good(n - 1) PROVE Good(n)
  <2>0. n \in DOMAIN ids /\ n - 1 \in Nat /\ n \in Nat /\ ids[n] \in Nat /\ f[n - 1] \in Seq(Nat)
    BY <1>0, <1>3
  <2>1. CASE ids[n] = id
    <3>1. f[n] = f[n - 1]
      BY <1>1, <2>1
    <3>2. \A i \in 1 .. n : i \in 1 .. n - 1 \/ i = n
      BY <2>0
    <3>3. \A i \in 1 .. n - 1 : i \in 1 .. n
      BY <2>0
    <3> QED
      BY <1>3, <2>1, <3>1, <3>2, <3>3
  <2>2. CASE ids[n] # id
    <3> DEFINE g == f[n - 1]
    <3>1. f[n] = Append(g, ids[n])
      BY <1>1, <2>2
    <3> HIDE DEF g
    <3>2. g \in Seq(Nat) /\ Len(g) \in Nat
      BY <2>0 DEF g
    <3>3. /\ f[n] \in Seq(Nat) /\ DOMAIN f[n] = 1 .. Len(g) + 1 /\ f[n][Len(g) + 1] = ids[n]
          /\ \A j \in DOMAIN g : j \in DOMAIN f[n] /\ f[n][j] = g[j]
      BY <2>0, <3>1, <3>2, SMTT(30)
    <3>4. \A j \in DOMAIN f[n] : j \in DOMAIN g \/ j = Len(g) + 1
      BY <3>2, <3>3
    <3>5. \A i \in 1 .. n : i \in 1 .. n - 1 \/ i = n
      BY <2>0
    <3>6. \A i \in 1 .. n - 1 : i \in 1 .. n /\ i # n /\ i \in DOMAIN ids
      BY <1>0, <2>0
    <3>7. ASSUME NEW i \in 1 .. n, ids[i] # id PROVE \E j \in DOMAIN f[n] : f[n][j] = ids[i]
      <4>1. CASE i = n
        <5>1. Len(g) + 1 \in DOMAIN f[n]
          BY <3>2, <3>3
        <5> QED
          BY <3>3, <4>1, <5>1
      <4>2. CASE i \in 1 .. n - 1
        BY <1>3, <3>3, <3>7, <4>2 DEF g
      <4> QED
        BY <3>5, <4>1, <4>2
    <3>8. ASSUME NEW j \in DOMAIN f[n] PROVE f[n][j] # id /\ \E i \in 1 .. n : ids[i] = f[n][j]
      <4>1. CASE j \in DOMAIN g
        BY <1>3, <3>3, <3>6, <4>1, ZenonT(40) DEF g
      <4>2. CASE j = Len(g) + 1
        <5>1. n \in 1 .. n
          BY <2>0
        <5> QED
          BY <2>2, <3>3, <4>2, <5>1
      <4> QED
        BY <3>4, <4>1, <4>2
    <3>9. ASSUME Once, NEW i \in DOMAIN f[n], NEW j \in DOMAIN f[n], f[n][i] = f[n][j] PROVE i = j
      <4>1. \A k \in DOMAIN g : g[k] # ids[n]
        <5> SUFFICES ASSUME NEW k \in DOMAIN g, g[k] = ids[n] PROVE FALSE
          OBVIOUS
        <5>1. PICK h \in 1 .. n - 1 : ids[h] = g[k]
          BY <1>3 DEF g
        <5> QED
          BY <2>0, <3>6, <3>9, <5>1
      <4>2. CASE i \in DOMAIN g /\ j \in DOMAIN g
        BY <1>3, <3>3, <3>9, <4>2 DEF g
      <4> QED
        BY <3>3, <3>4, <3>9, <4>1, <4>2, SMTT(30)
    <3> HIDE DEF Once
    <3> QED
      BY <3>3, <3>7, <3>8, <3>9
  <2> QED
    BY <2>1, <2>2
<1>4. Good(Len(ids))
  <2> DEFINE Bad == {n \in 0 .. Len(ids) : ~Good(n)}
  <2> HIDE DEF Good
  <2> SUFFICES ASSUME Bad # {} PROVE FALSE
    BY <1>0
  <2>1. Bad \in SUBSET Nat
    BY <1>0
  <2>2. PICK m \in Bad : \A n \in Bad : ~(n < m)
    BY <2>1, Least
  <2>3. m # 0
    BY <1>2, <2>2
  <2>4. m \in 1 .. Len(ids) /\ m - 1 \in 0 .. Len(ids) /\ m - 1 < m
    BY <1>0, <2>2, <2>3
  <2> QED
    BY <1>3, <2>2, <2>4
<1> QED
  BY <1>0, <1>1, <1>4, ZenonT(40)

\* FlattenSeq of sequences of ids is one.
LEMMA FlattenIs ==
  ASSUME NEW seqs \in Seq(Seq(Nat))
  PROVE  FlattenSeq(seqs) \in Seq(Nat)
<1> DEFINE L == Len(seqs)
           Eq(g, k) == g = [n \in 1 .. k |-> IF n = 1 THEN seqs[n] ELSE g[n - 1] \o seqs[n]]
           R == CHOOSE g : Eq(g, L)
<1>0. L \in Nat /\ DOMAIN seqs = 1 .. L /\ \A n \in 1 .. L : seqs[n] \in Seq(Nat)
  OBVIOUS
<1>1. CASE L = 0
  <2>1. FlattenSeq(seqs) = seqs
    BY <1>1 DEF FlattenSeq
  <2>2. seqs = <<>>
    BY <1>1
  <2> QED
    BY <2>1, <2>2
<1>2. CASE L # 0
  <2>1. FlattenSeq(seqs) = R[L]
    BY <1>2 DEF FlattenSeq
  <2> HIDE DEF L
  <2>0. L \in Nat
    BY <1>0
  <2>2. ASSUME NEW k \in 0 .. L PROVE \E g : Eq(g, k)
    <3> DEFINE Bad == {n \in 0 .. L : ~\E g : Eq(g, n)}
    <3> SUFFICES ASSUME Bad # {} PROVE FALSE
      OBVIOUS
    <3>1. Bad \in SUBSET Nat
      <4> HIDE DEF Eq
      <4> QED
        BY <2>0
    <3>2. PICK m \in Bad : \A n \in Bad : ~(n < m)
      BY <3>1, Least
    <3>3. CASE m = 0
      <4> DEFINE g == [n \in 1 .. 0 |-> <<>>]
      <4>1. Eq(g, 0)
        OBVIOUS
      <4> QED
        BY <3>2, <3>3, <4>1
    <3>4. CASE m # 0
      <4>1. m - 1 \in 0 .. L /\ m - 1 < m /\ m \in Nat
        BY <1>0, <3>2, <3>4
      <4>2. PICK g : Eq(g, m - 1)
        BY <3>2, <4>1
      <4> DEFINE last == IF m = 1 THEN seqs[m] ELSE g[m - 1] \o seqs[m]
                 h == [n \in 1 .. m |-> IF n = m THEN last ELSE g[n]]
      <4>3. ASSUME NEW n \in 1 .. m
            PROVE  h[n] = IF n = 1 THEN seqs[n] ELSE h[n - 1] \o seqs[n]
        <5>1. CASE n = m
          <6>1. n # 1 => h[m - 1] = g[m - 1]
            BY <4>1, <5>1
          <6> QED
            BY <5>1, <6>1
        <5>2. CASE n # m
          <6>1. n \in 1 .. m - 1
            BY <4>1, <5>2
          <6>2. h[n] = g[n] /\ (n # 1 => h[n - 1] = g[n - 1])
            BY <4>1, <5>2, <6>1
          <6>3. g[n] = IF n = 1 THEN seqs[n] ELSE g[n - 1] \o seqs[n]
            BY <4>2, <6>1
          <6> QED
            BY <6>2, <6>3
        <5> QED
          BY <5>1, <5>2
      <4>4. Eq(h, m)
        <5> HIDE DEF last
        <5> QED
          BY <4>3
      <4> QED
        BY <3>2, <4>4
    <3> QED
      BY <3>3, <3>4
  <2>3. Eq(R, L)
    <3>0. L \in 0 .. L
      BY <1>0
    <3>1. \E g : Eq(g, L)
      BY <2>2, <3>0
    <3> HIDE DEF Eq
    <3> QED
      BY <3>1
  <2>4. \A n \in 1 .. L : R[n] = IF n = 1 THEN seqs[n] ELSE R[n - 1] \o seqs[n]
    <3> HIDE DEF R
    <3> QED
      BY <2>3
  <2> HIDE DEF R
  <2>5. \A n \in 1 .. L : R[n] \in Seq(Nat)
    <3> DEFINE Bad == {n \in 1 .. L : R[n] \notin Seq(Nat)}
    <3> SUFFICES ASSUME Bad # {} PROVE FALSE
      OBVIOUS
    <3>1. Bad \in SUBSET Nat
      BY <2>0
    <3>2. PICK m \in Bad : \A n \in Bad : ~(n < m)
      BY <3>1, Least
    <3>3. CASE m = 1
      BY <1>0, <2>4, <3>2, <3>3
    <3>4. CASE m # 1
      <4>1. m - 1 \in 1 .. L /\ m - 1 < m
        BY <1>0, <3>2, <3>4
      <4>2. R[m - 1] \in Seq(Nat) /\ seqs[m] \in Seq(Nat)
        BY <1>0, <3>2, <4>1
      <4>3. R[m] = R[m - 1] \o seqs[m]
        BY <2>4, <3>2, <3>4
      <4>4. R[m] \in Seq(Nat)
        BY <4>2, <4>3
      <4> QED
        BY <3>2, <4>4
    <3> QED
      BY <3>3, <3>4
  <2>6. L \in 1 .. L
    BY <1>0, <1>2
  <2> QED
    BY <2>1, <2>5, <2>6
<1> QED
  BY <1>1, <1>2

\* get_all_user_orders: all ids of a user make up a sequence.
LEMMA AllIds ==
  ASSUME NEW index \in [Markets -> Seq(Nat)]
  PROVE  FlattenSeq(SetToSeq({index[m] : m \in Markets})) \in Seq(Nat)
<1> DEFINE T == {index[m] : m \in Markets}
<1>1. index \in Surjection(Markets, T)
  BY DEF Surjection
<1>2. IsFiniteSet(T)
  BY <1>1, MarketsAssumption, FS_Surjection
<1>3. Cardinality(T) \in Nat /\ ExistsBijection(1 .. Cardinality(T), T)
  BY <1>2, FS_CardinalityType
<1>4. PICK f \in [1 .. Cardinality(T) -> T] : IsInjective(f)
  BY <1>3 DEF ExistsBijection, Bijection, Injection
<1>5. SetToSeq(T) \in [1 .. Cardinality(T) -> T]
  <2> HIDE DEF T
  <2> QED
    BY <1>4 DEF SetToSeq
<1>6. T \subseteq Seq(Nat)
  OBVIOUS
<1>7. SetToSeq(T) \in Seq(Seq(Nat))
  <2> HIDE DEF T
  <2> QED
    BY <1>3, <1>5, <1>6
<1> QED
  BY <1>7, FlattenIs

-----------------------------------------------------------------------------
(* Arithmetic of margins and prices *)

\* Products of natural numbers, as the provers need them.
LEMMA Products ==
  ASSUME NEW a \in Nat, NEW b \in Nat
  PROVE  /\ a * b \in Nat
         /\ \A c \in Nat : b <= c => a * b <= a * c
         /\ \A c \in Nat : a * (b + c) = a * b + a * c
<1>1. a * b \in Nat
  OBVIOUS
<1>2. ASSUME NEW c \in Nat, b <= c PROVE a * b <= a * c
  <2>1. PICK d \in Nat : c = b + d
    <3>1. c - b \in Nat /\ c = b + (c - b)
      BY <1>2
    <3> QED
      BY <3>1
  <2>2. a * c = a * b + a * d /\ a * d \in Nat
    BY <2>1
  <2> QED
    BY <1>1, <2>2
<1>3. \A c \in Nat : a * (b + c) = a * b + a * c
  OBVIOUS
<1> QED
  BY <1>1, <1>2, <1>3

\* Division rounds down.
LEMMA Quotients ==
  ASSUME NEW n \in Nat, NEW k \in Nat \ {0}
  PROVE  /\ n \div k \in Nat /\ k * (n \div k) <= n
         /\ \A M \in Nat : n <= k * M => n \div k <= M
<1> DEFINE q == n \div k
<1>1. q \in Nat /\ k * q <= n
  OBVIOUS
<1>2. ASSUME NEW M \in Nat, n <= k * M, ~(q <= M) PROVE FALSE
  <2> HIDE DEF q
  <2>1. M + 1 \in Nat /\ M + 1 <= q
    BY <1>1, <1>2
  <2>2. k * (M + 1) <= k * q
    BY <1>1, <2>1, Products
  <2>3. k * (M + 1) = k * M + k /\ k * M \in Nat /\ k * q \in Nat
    BY <1>1, Products
  <2> QED
    BY <1>1, <1>2, <2>2, <2>3
<1> QED
  BY <1>1, <1>2

\* What is too large is cut down, what fits stays as it is.
LEMMA Wraps ==
  /\ \A n \in Nat : WrapU256(n) \in Nat /\ WrapU256(n) <= n
  /\ \A n \in Int : WrapI128(n) \in Int /\ (n \in I128 => WrapI128(n) = n)
<1>0. I128Max \in Nat /\ U256Max \in Nat
  BY MarketsAssumption
<1>1. ASSUME NEW n \in Nat PROVE WrapU256(n) \in Nat /\ WrapU256(n) <= n
  BY <1>0 DEF WrapU256
<1>2. ASSUME NEW n \in Int PROVE WrapI128(n) \in Int
  BY <1>0 DEF WrapI128
<1>3. ASSUME NEW n \in Int, n \in I128 PROVE WrapI128(n) = n
  <2> DEFINE R == 2 * (I128Max + 1)
             a == n + I128Max + 1
  <2>1. R \in Nat \ {0} /\ a \in 0 .. (R - 1)
    BY <1>0, <1>3 DEF I128
  <2>2. ASSUME NEW r \in Nat \ {0}, NEW x \in 0 .. (r - 1) PROVE x % r = x
    OBVIOUS
  <2>3. a % R = a
    <3> HIDE DEF R, a
    <3> QED
      BY <2>1, <2>2
  <2> QED
    BY <1>0, <2>3 DEF WrapI128
<1> QED
  BY <1>1, <1>2, <1>3

\* The notional of a size is a natural number, and not rounded or wrapped up.
LEMMA NotionalIs ==
  ASSUME NEW price \in Nat, NEW size \in Nat
  PROVE  Notional(price, size) \in Nat /\ PricePrecision * Notional(price, size) <= price * size
<1>0. PricePrecision \in Nat \ {0}
  BY MarketsAssumption DEF U256
<1> DEFINE n == price * size
<1>1. n \in Nat
  BY Products
<1> HIDE DEF n
<1>2. WrapU256(n) \in Nat /\ WrapU256(n) <= n
  BY <1>1, Wraps
<1> DEFINE w == WrapU256(n)
           P == PricePrecision
           q == w \div P
<1> HIDE DEF w, P
<1>3. q \in Nat /\ P * q <= w
  BY <1>0, <1>2, Quotients DEF w, P
<1> HIDE DEF q
<1>4. P * q \in Nat
  BY <1>0, <1>3, Products DEF P
<1>5. P * q <= n
  BY <1>1, <1>2, <1>3, <1>4 DEF w
<1> QED
  BY <1>3, <1>5 DEF Notional, n, w, P, q

\* The margin of an order is a natural number.
LEMMA MarginIsNatural ==
  ASSUME NEW price \in Nat, NEW size \in Nat, NEW leverage \in Nat, ValidLeverage(leverage)
  PROVE  CalculateRequiredMargin(price, size, leverage) \in Nat
<1>1. Notional(price, size) \in Nat
  BY NotionalIs
<1>2. leverage \in Nat \ {0}
  BY DEF ValidLeverage
<1> QED
  BY <1>1, <1>2, Quotients DEF CalculateRequiredMargin

\* Averaging does not lift the price above both, whatever is rounded or wraps,
\* as long as the size itself fits.
LEMMA EntryPriceIs ==
  ASSUME NEW pos \in Positions, NEW delta \in Int \ {0}, NEW price \in Nat
  PROVE  /\ EntryPrice(pos, delta, price) \in Nat
         /\ pos.size + delta \in I128 =>
              \A M \in Nat : pos.entry <= M /\ price <= M => EntryPrice(pos, delta, price) <= M
<1> DEFINE a == Abs(pos.size)
           d == Abs(delta)
           x == Notional(pos.entry, a)
           y == Notional(price, d)
           size == WrapI128(pos.size + delta)
           P == PricePrecision
           n == WrapU256(x + y)
           t == WrapU256(n * P)
<1>0. pos.size \in Int /\ pos.entry \in Nat /\ P \in Nat \ {0}
  BY MarketsAssumption DEF Positions, U256
<1>1. a \in Nat /\ d \in Nat
  BY <1>0 DEF Abs
<1>2. size \in Int /\ (pos.size + delta \in I128 => size = pos.size + delta)
  BY <1>0, Wraps
<1>3. CASE Signum(pos.size) = Signum(delta) /\ size # 0
  <2>1. EntryPrice(pos, delta, price) = t \div Abs(size)
    BY <1>3 DEF EntryPrice
  <2>2. size = pos.size + delta => Abs(size) = a + d
    BY <1>0, <1>3 DEF Signum, Abs
  <2>3. Abs(size) \in Nat \ {0}
    BY <1>2, <1>3 DEF Abs
  <2> HIDE DEF a, d, P, size
  <2>4. /\ a * pos.entry \in Nat /\ d * price \in Nat
        /\ pos.entry * a = a * pos.entry /\ price * d = d * price
    BY <1>0, <1>1, Products
  <2>5. x \in Nat /\ P * x <= a * pos.entry
    BY <1>0, <1>1, <2>4, NotionalIs DEF P
  <2>6. y \in Nat /\ P * y <= d * price
    BY <1>1, <2>4, NotionalIs DEF P
  <2> HIDE DEF x, y
  <2>7. n \in Nat /\ n <= x + y
    <3>1. x + y \in Nat
      BY <2>5, <2>6
    <3> QED
      BY <3>1, Wraps
  <2> HIDE DEF n
  <2>8. /\ P * x \in Nat /\ P * y \in Nat /\ n * P \in Nat
        /\ n * P <= P * x + P * y
    <3>1. x + y \in Nat /\ P \in Nat /\ n * P = P * n
      BY <1>0, <2>5, <2>6, <2>7
    <3>2. P * n <= P * (x + y) /\ P * n \in Nat
      BY <2>7, <3>1, Products
    <3>3. P * (x + y) = P * x + P * y /\ P * x \in Nat /\ P * y \in Nat
      BY <2>5, <2>6, <3>1, Products
    <3> QED
      BY <3>1, <3>2, <3>3
  <2>9. t \in Nat /\ t <= n * P
    BY <2>8, Wraps
  <2> HIDE DEF t
  <2>10. EntryPrice(pos, delta, price) \in Nat
    BY <2>1, <2>3, <2>9, Quotients
  <2>11. ASSUME NEW M \in Nat, pos.entry <= M, price <= M, pos.size + delta \in I128
         PROVE  EntryPrice(pos, delta, price) <= M
    <3>1. a * pos.entry <= a * M /\ d * price <= d * M /\ a * M \in Nat /\ d * M \in Nat
      BY <1>0, <1>1, <2>11, Products
    <3>2. (a + d) * M = a * M + d * M
      BY <1>1
    <3>3. t <= (a + d) * M
      BY <2>4, <2>5, <2>6, <2>8, <2>9, <3>1, <3>2
    <3>4. Abs(size) = a + d
      BY <1>2, <2>2, <2>11
    <3> QED
      BY <2>1, <2>3, <2>9, <3>3, <3>4, Quotients
  <2> QED
    BY <2>10, <2>11
<1>4. CASE Signum(pos.size) = Signum(delta) /\ size = 0
  <2>1. EntryPrice(pos, delta, price) = 0
    BY <1>4 DEF EntryPrice
  <2> QED
    BY <2>1
<1>5. CASE Signum(pos.size) # Signum(delta)
  <2>1. EntryPrice(pos, delta, price) = pos.entry \/ EntryPrice(pos, delta, price) = price
    BY <1>5 DEF EntryPrice
  <2> QED
    BY <1>0, <2>1
<1> QED
  BY <1>3, <1>4, <1>5

\* A side is one of two directions, and a fill is clamped only if it is large.
LEMMA DeltaIs ==
  ASSUME NEW side, NEW size \in Nat \ {0}
  PROVE  /\ Direction(side) * size \in Int /\ SizeDelta(side, size) \in Int
         /\ ~(size > I128Max) => /\ SizeDelta(side, size) = Direction(side) * size
                                 /\ SizeDelta(side, size) # 0
<1>1. Direction(side) \in {1, -1} /\ I128Max \in Nat
  BY MarketsAssumption DEF Direction
<1> QED
  BY <1>1 DEF SizeDelta

\* The first fill in a market.
LEMMA FirstPosition ==
  ASSUME NEW side, NEW size \in Nat \ {0}, NEW price \in Nat, NEW leverage \in Nat, ValidLeverage(leverage)
  PROVE  /\ UpdatePosition(NoPosition, side, size, price, leverage) \in Positions
         /\ UpdatePosition(NoPosition, side, size, price, leverage).size = SizeDelta(side, size)
<1> DEFINE margin == CalculateRequiredMargin(price, size, leverage)
           delta == SizeDelta(side, size)
<1>1. UpdatePosition(NoPosition, side, size, price, leverage)
        = [size |-> delta, entry |-> price, leverage |-> leverage, margin |-> margin]
  BY DEF UpdatePosition
<1>2. margin \in Int /\ delta \in Int
  BY MarginIsNatural, DeltaIs
<1> HIDE DEF margin, delta
<1>3. [size |-> delta, entry |-> price, leverage |-> leverage, margin |-> margin] \in Positions
  BY <1>2 DEF Positions
<1> QED
  BY <1>1, <1>3 DEF delta

\* A fill of a position that is there.
LEMMA NextPosition ==
  ASSUME NEW pos \in Positions, pos # NoPosition, NEW side, NEW size \in Nat \ {0}, NEW price \in Nat,
         NEW leverage \in Nat, ValidLeverage(leverage)
  PROVE  /\ UpdatePosition(pos, side, size, price, leverage) \in Positions
         /\ UpdatePosition(pos, side, size, price, leverage).entry = EntryPrice(pos, SizeDelta(side, size), price)
         /\ pos.size + SizeDelta(side, size) \in I128 =>
              UpdatePosition(pos, side, size, price, leverage).size = pos.size + SizeDelta(side, size)
<1> DEFINE delta == SizeDelta(side, size)
           sum == WrapI128(pos.size + delta)
           entry == EntryPrice(pos, delta, price)
           margin == CalculateRequiredMargin(entry, Abs(sum), leverage)
<1>1. UpdatePosition(pos, side, size, price, leverage)
        = [size |-> sum, entry |-> entry, leverage |-> leverage, margin |-> margin]
  BY DEF UpdatePosition
<1>2. delta \in Int /\ delta # 0
  <2>1. I128Max \in Nat /\ I128Max # 0 /\ Direction(side) \in {1, -1}
    BY MarketsAssumption DEF Direction
  <2> QED
    BY <2>1 DEF SizeDelta
<1>3. entry \in Nat
  BY <1>2, EntryPriceIs
<1> HIDE DEF delta
<1>4. pos.size + delta \in Int
  BY <1>2 DEF Positions
<1>5. sum \in Int /\ (pos.size + delta \in I128 => sum = pos.size + delta)
  BY <1>4, Wraps
<1> HIDE DEF entry, sum
<1>6. Abs(sum) \in Nat
  BY <1>5 DEF Abs
<1>7. margin \in Int
  BY <1>3, <1>6, MarginIsNatural
<1> HIDE DEF margin
<1>8. [size |-> sum, entry |-> entry, leverage |-> leverage, margin |-> margin] \in Positions
  BY <1>3, <1>5, <1>7 DEF Positions
<1> QED
  BY <1>1, <1>5, <1>8 DEF entry, delta

-----------------------------------------------------------------------------
(* Locations, values and operations *)

\* What a write of a user may be, by its location.
LEMMA EntryShape ==
  ASSUME NEW u, NEW w \in Entries(u)
  PROVE  /\ w.loc[1] \in {"Balance", "UserNonce", "Position", "Order"} /\ w.loc[2] = u
         /\ w.loc[1] = "Balance" => w.loc = Balance(u) /\ w.val \in Nat
         /\ w.loc[1] = "UserNonce" => w.loc = UserNonce(u) /\ w.val \in Nat
         /\ w.loc[1] = "Position" => /\ \E m \in Markets : w.loc = Position(u, m)
                                     /\ w.val \in Positions
         /\ w.loc[1] = "Order" => /\ w.loc = Order(u, w.loc[3], w.loc[4])
                                  /\ w.loc[3] \in Markets \cup {0} /\ w.loc[4] \in Nat
                                  /\ w.val # Deleted => w.loc[3] \in Markets
<1>1. CASE w \in [loc : {Balance(u), UserNonce(u)}, val : Nat]
  BY <1>1 DEF Balance, UserNonce
<1>2. CASE w \in [loc : {Position(u, m) : m \in Markets}, val : Positions]
  <2>1. PICK m \in Markets : w.loc = Position(u, m)
    BY <1>2
  <2> QED
    BY <1>2, <2>1 DEF Position
<1>3. CASE w \in [loc : {Order(u, m, id) : m \in Markets, id \in Nat}, val : [size : Nat]]
  <2>1. PICK m \in Markets, id \in Nat : w.loc = Order(u, m, id)
    BY <1>3
  <2> QED
    BY <1>3, <2>1 DEF Order
<1>4. CASE w \in [loc : {Order(u, m, id) : m \in Markets \cup {0}, id \in Nat}, val : {Deleted}]
  <2>1. PICK m \in Markets \cup {0}, id \in Nat : w.loc = Order(u, m, id)
    BY <1>4
  <2> QED
    BY <1>4, <2>1 DEF Order
<1> QED
  BY <1>1, <1>2, <1>3, <1>4 DEF Entries

\* What may be written.
LEMMA MayWrite ==
  ASSUME NEW u
  PROVE  /\ \A n \in Nat : Write(Balance(u), n) \in Entries(u) /\ Write(UserNonce(u), n) \in Entries(u)
         /\ \A m \in Markets, p \in Positions : Write(Position(u, m), p) \in Entries(u)
         /\ \A m \in Markets, id, n \in Nat : Write(Order(u, m, id), [size |-> n]) \in Entries(u)
         /\ \A m \in Markets \cup {0}, id \in Nat : Write(Order(u, m, id), Deleted) \in Entries(u)
  BY DEF Entries, Write

\* A position is not the absence of one.
LEMMA PositionIsThere == \A p \in Positions : p # NoPosition
<1> SUFFICES ASSUME NEW p \in Positions, p = NoPosition PROVE FALSE
  OBVIOUS
<1>1. DOMAIN p = {"size", "entry", "leverage", "margin"}
  BY DEF Positions
<1>2. DOMAIN NoPosition = {"none"}
  BY DEF NoPosition
<1> QED
  BY <1>1, <1>2

\* The parameters of an operation.
LEMMA OperationShape ==
  ASSUME NEW o \in Operations
  PROVE  /\ o.op \in {"PlaceOrder", "CancelOrder", "CancelAll", "SetLeverage", "AdjustMargin"}
         /\ o.op = "PlaceOrder" => /\ o.market \in Markets /\ o.price \in Nat /\ o.size \in Nat
                                   /\ o.leverage \in Nat
         /\ o.op = "CancelOrder" => o.market \in Markets /\ o.order_ids \in Seq(Nat)
         /\ o.op = "CancelAll" => o.market \in Markets \cup {0}
         /\ o.op = "AdjustMargin" => o.market \in Markets /\ o.amount \in Nat
<1>1. U256 \subseteq Nat
  BY MarketsAssumption DEF U256
<1> QED
  BY <1>1 DEF Operations

\* What the executor reads has its type.
LEMMA StoredShape ==
  ASSUME TypeInv, NEW u \in Users
  PROVE  /\ BalanceOf(u) \in Nat /\ NonceOf(u) \in Nat
         /\ \A m \in Markets : /\ PositionOf(u, m) = NoPosition \/ PositionOf(u, m) \in Positions
                               /\ SizeOf(u, m) \in Int
<1>1. ASSUME NEW l \in DOMAIN data
      PROVE  /\ l[1] \in {"Balance", "UserNonce"} => data[l] \in Nat
             /\ l[1] = "Position" => data[l] \in Positions
  <2>1. PICK v \in Users : Write(l, data[l]) \in Entries(v)
    BY DEF TypeInv
  <2> DEFINE w == Write(l, data[l])
  <2>2. w.loc = l /\ w.val = data[l] /\ w \in Entries(v)
    BY <2>1 DEF Write
  <2> HIDE DEF w
  <2> QED
    BY <2>2, EntryShape
<1>2. BalanceOf(u) \in Nat
  <2>1. Balance(u)[1] = "Balance"
    BY DEF Balance
  <2> QED
    BY <1>1, <2>1 DEF BalanceOf, Get
<1>3. NonceOf(u) \in Nat
  <2>1. UserNonce(u)[1] = "UserNonce"
    BY DEF UserNonce
  <2> QED
    BY <1>1, <2>1 DEF NonceOf, Get
<1>4. ASSUME NEW m \in Markets PROVE PositionOf(u, m) = NoPosition \/ PositionOf(u, m) \in Positions
  <2>1. Position(u, m)[1] = "Position"
    BY DEF Position
  <2> QED
    BY <1>1, <2>1 DEF PositionOf, Get
<1>5. ASSUME NEW m \in Markets PROVE SizeOf(u, m) \in Int
  BY <1>4 DEF SizeOf, Positions
<1> QED
  BY <1>2, <1>3, <1>4, <1>5

-----------------------------------------------------------------------------
(* What an operation yields *)

\* Writes of the user; at most one new order, under the next id; the position
\* only in the market that is named, with the fill added to its size, if it fits.
OutcomeOK(u, o, r) ==
  /\ r.writes \in Seq(Entries(u)) /\ r.filled \in Int
  /\ r.overflow \in BOOLEAN /\ (r.overflow => r.market \in Markets)
  /\ \A i \in DOMAIN r.writes : NewOrder(r.writes[i]) =>
       /\ o.op = "PlaceOrder" /\ r.writes[i].loc[4] = next_order_id
       /\ \A j \in DOMAIN r.writes : NewOrder(r.writes[j]) => i = j
  /\ \A i \in DOMAIN r.writes : r.writes[i].loc[1] = "Position" =>
       /\ r.market \in Markets /\ r.market = o.market /\ r.writes[i].loc = Position(u, r.market)
       /\ ~r.overflow => r.writes[i].val.size = SizeOf(u, r.market) + r.filled
  /\ r.market \in Markets => \E i \in DOMAIN r.writes : r.writes[i].loc = Position(u, r.market)

\* The deletions of some orders of a user.
LEMMA Deletions ==
  ASSUME NEW u, NEW m \in Markets \cup {0}, NEW ids \in Seq(Nat), NEW o,
         NEW r, r = Done([i \in DOMAIN ids |-> Write(Order(u, m, ids[i]), Deleted)])
  PROVE  OutcomeOK(u, o, r)
<1> DEFINE ws == [i \in DOMAIN ids |-> Write(Order(u, m, ids[i]), Deleted)]
<1>1. r.writes = ws /\ r.filled = 0 /\ r.market = 0 /\ r.overflow \in BOOLEAN /\ ~r.overflow
  BY DEF Done
<1>2. \A i \in DOMAIN ids : Write(Order(u, m, ids[i]), Deleted) \in Entries(u)
  BY MayWrite
<1>3. DOMAIN ids = 1 .. Len(ids) /\ Len(ids) \in Nat
  OBVIOUS
<1>4. ws \in Seq(Entries(u)) /\ DOMAIN ws = DOMAIN ids
  BY <1>2, <1>3
<1>5. \A i \in DOMAIN ids : ws[i].loc[1] = "Order" /\ ws[i].val = Deleted
  BY DEF Write, Order
<1> HIDE DEF ws
<1>6. \A i \in DOMAIN r.writes : ~NewOrder(r.writes[i]) /\ r.writes[i].loc[1] # "Position"
  BY <1>1, <1>4, <1>5 DEF NewOrder, IsDeletion, IsOrder
<1>7. r.writes \in Seq(Entries(u)) /\ r.filled = 0 /\ r.overflow \in BOOLEAN /\ ~r.overflow /\ r.market \notin Markets
  BY <1>1, <1>4, MarketsAssumption
<1> QED
  BY <1>6, <1>7 DEF OutcomeOK

\* The position after an order has filled.
LEMMA FilledPosition ==
  ASSUME TypeInv, NEW u \in Users, NEW o \in Operations, o.op = "PlaceOrder", ValidLeverage(o.leverage),
         o.size # 0,
         NEW new, new = UpdatePosition(PositionOf(u, o.market), o.side, o.size, FillPrice(o), o.leverage)
  PROVE  /\ new \in Positions
         /\ ~TooLarge(PositionOf(u, o.market), o.side, o.size) =>
              new.size = SizeOf(u, o.market) + Direction(o.side) * o.size
<1>0. o.market \in Markets /\ o.price \in Nat /\ o.leverage \in Nat /\ o.size \in Nat \ {0}
  BY OperationShape
<1>1. FillPrice(o) \in Nat
  BY <1>0, MarketsAssumption DEF FillPrice, ReadMarket, U256
<1>2. ASSUME NEW p, p = PositionOf(u, o.market), NEW f, f = FillPrice(o), NEW v, v = o.leverage,
             NEW side, side = o.side, NEW size, size = o.size
      PROVE  /\ new \in Positions
             /\ ~TooLarge(p, side, size) =>
                  new.size = (IF p = NoPosition THEN 0 ELSE p.size) + Direction(side) * size
  <2>1. /\ p = NoPosition \/ p \in Positions
        /\ f \in Nat /\ v \in Nat /\ ValidLeverage(v) /\ size \in Nat \ {0}
        /\ new = UpdatePosition(p, side, size, f, v)
    BY <1>0, <1>1, <1>2, StoredShape
  <2>2. /\ Direction(side) * size \in Int /\ SizeDelta(side, size) \in Int
        /\ ~(size > I128Max) => SizeDelta(side, size) = Direction(side) * size
    BY <2>1, DeltaIs
  <2>3. CASE p = NoPosition
    <3>0. new = UpdatePosition(NoPosition, side, size, f, v)
      BY <2>1, <2>3
    <3>1. new \in Positions /\ new.size = SizeDelta(side, size)
      BY <2>1, <3>0, FirstPosition
    <3> QED
      BY <2>2, <2>3, <3>1 DEF TooLarge
  <2>4. CASE p # NoPosition
    <3>1. /\ new \in Positions
          /\ p.size + SizeDelta(side, size) \in I128 => new.size = p.size + SizeDelta(side, size)
      BY <2>1, <2>4, NextPosition
    <3> QED
      BY <2>2, <2>4, <3>1 DEF TooLarge
  <2> QED
    BY <2>3, <2>4
<1> QED
  BY <1>2 DEF SizeOf

\* An order that is accepted: nothing, a new order, or a position and a balance.
LEMMA PlaceOutcome ==
  ASSUME TypeInv, NEW u \in Users, NEW o \in Operations, o.op = "PlaceOrder",
         NEW r, r = ExecutePlaceOrder(u, o), r.ok
  PROVE  /\ OutcomeOK(u, o, r)
         /\ \A i \in DOMAIN r.writes : r.writes[i].loc[1] = "Position" =>
              /\ ValidLeverage(o.leverage) /\ Fills(o) /\ o.size # 0
              /\ r.overflow = TooLarge(PositionOf(u, o.market), o.side, o.size)
              /\ r.writes[i].val = UpdatePosition(PositionOf(u, o.market), o.side, o.size, FillPrice(o),
                                                  o.leverage)
<1> DEFINE balance  == BalanceOf(u)
           pos      == PositionOf(u, o.market)
           required == CalculateRequiredMargin(o.price, o.size, o.leverage)
           size     == IF Fills(o) THEN o.size ELSE 0
           rest     == o.size - size
           big      == TooLarge(pos, o.side, size)
           fill     == Direction(o.side) * size
           new      == UpdatePosition(pos, o.side, size, FillPrice(o), o.leverage)
           order    == Write(Order(u, o.market, next_order_id), [size |-> rest])
           place    == Write(Position(u, o.market), new)
           pay      == Write(Balance(u), balance - required)
           orders   == IF rest > 0 THEN <<order>> ELSE <<>>
<1>0. o.market \in Markets /\ o.price \in Nat /\ o.size \in Nat /\ o.leverage \in Nat
  BY OperationShape
<1>1. /\ ValidLeverage(o.leverage) /\ ~(balance < required)
      /\ r = IF size = 0 THEN Done(orders) ELSE DoneAt(o.market, fill, big, orders \o <<place, pay>>)
  <2>1. CASE ~ValidLeverage(o.leverage) \/ balance < required \/ (Fills(o) /\ ReduceOnlyViolation(o, pos))
    BY <2>1 DEF ExecutePlaceOrder, Failed
  <2>2. CASE ~(~ValidLeverage(o.leverage) \/ balance < required \/ (Fills(o) /\ ReduceOnlyViolation(o, pos)))
    <3>1. r = IF size = 0 THEN Done(orders) ELSE DoneAt(o.market, fill, big, orders \o <<place, pay>>)
      BY <2>2, ZenonT(40) DEF ExecutePlaceOrder
    <3> QED
      BY <2>2, <3>1
  <2> QED
    BY <2>1, <2>2
<1>2. /\ size \in Nat /\ rest \in Nat /\ (size # 0 => ~(rest > 0) /\ Fills(o) /\ size = o.size)
  BY <1>0
<1>3. balance \in Nat /\ (pos = NoPosition \/ pos \in Positions) /\ required \in Nat
  BY <1>0, <1>1, StoredShape, MarginIsNatural
<1> HIDE DEF rest, required, balance
<1>5. pay \in Entries(u)
  <2>1. balance - required \in Nat
    BY <1>1, <1>3
  <2> QED
    BY <2>1, MayWrite
<1>6. order \in Entries(u)
  BY <1>0, <1>2, MayWrite DEF TypeInv
<1>7. size # 0 => /\ new \in Positions /\ place \in Entries(u) /\ fill \in Int
                  /\ ~big => new.size = SizeOf(u, o.market) + fill
  <2> SUFFICES ASSUME size # 0
               PROVE  /\ new \in Positions /\ place \in Entries(u) /\ fill \in Int
                      /\ ~big => new.size = SizeOf(u, o.market) + fill
    OBVIOUS
  <2>1. new \in Positions /\ (~big => new.size = SizeOf(u, o.market) + fill)
    <3>1. o.size # 0 /\ size = o.size
      BY <1>2
    <3> HIDE DEF size
    <3> QED
      BY <1>1, <3>1, FilledPosition
  <2>2. place \in Entries(u)
    BY <1>0, <2>1, MayWrite
  <2>3. fill \in Int
    BY <1>2, DeltaIs
  <2> QED
    BY <2>1, <2>2, <2>3
<1>8. /\ order.loc[1] = "Order" /\ order.loc[4] = next_order_id
      /\ place.loc = Position(u, o.market) /\ place.loc[1] = "Position" /\ place.val = new
      /\ pay.loc[1] = "Balance"
  BY DEF Write, Order, Position, Balance
<1>9. big \in BOOLEAN
  BY DEF TooLarge
<1> HIDE DEF order, place, pay, new, pos, big, fill
<1>10. CASE size = 0
  <2> HIDE DEF size
  <2>1. /\ r.writes = orders /\ r.filled = 0 /\ r.overflow \in BOOLEAN /\ ~r.overflow /\ r.market \notin Markets
    BY <1>1, <1>10, MarketsAssumption DEF Done
  <2>2. CASE rest > 0
    BY <1>0, <1>6, <1>8, <2>1, <2>2 DEF OutcomeOK
  <2>3. CASE ~(rest > 0)
    BY <2>1, <2>3 DEF OutcomeOK
  <2> QED
    BY <2>2, <2>3
<1>11. CASE size # 0
  <2>1. ~(rest > 0) /\ Fills(o) /\ size = o.size
    BY <1>2, <1>11
  <2> HIDE DEF size
  <2>2. r.writes = <<place, pay>> /\ r.filled = fill /\ r.overflow = big /\ r.market = o.market
    BY <1>1, <1>11, <2>1 DEF DoneAt
  <2>3. /\ r.writes \in Seq(Entries(u)) /\ DOMAIN r.writes = {1, 2}
        /\ r.writes[1] = place /\ r.writes[2] = pay
    BY <1>5, <1>7, <1>11, <2>2
  <2>4. \A i \in DOMAIN r.writes : ~NewOrder(r.writes[i])
    BY <1>8, <2>3 DEF NewOrder, IsOrder
  <2>5. \A i \in DOMAIN r.writes : r.writes[i].loc[1] = "Position" => r.writes[i] = place
    BY <1>8, <2>3
  <2>6. OutcomeOK(u, o, r)
    BY <1>0, <1>7, <1>8, <1>9, <1>11, <2>2, <2>3, <2>4, <2>5 DEF OutcomeOK
  <2>7. new = UpdatePosition(PositionOf(u, o.market), o.side, o.size, FillPrice(o), o.leverage)
    BY <2>1 DEF new, pos
  <2>8. big = TooLarge(PositionOf(u, o.market), o.side, o.size)
    BY <2>1 DEF big, pos
  <2> QED
    BY <1>1, <1>8, <1>11, <2>1, <2>2, <2>5, <2>6, <2>7, <2>8
<1> QED
  BY <1>10, <1>11

\* A change of margin: the size and the price of the position stay.
LEMMA AdjustOutcome ==
  ASSUME TypeInv, NEW u \in Users, NEW o \in Operations, o.op = "AdjustMargin",
         NEW r, r = ExecuteAdjustMargin(u, o), r.ok
  PROVE  /\ OutcomeOK(u, o, r)
         /\ \A i \in DOMAIN r.writes : r.writes[i].loc[1] = "Position" =>
              /\ PositionOf(u, o.market) # NoPosition
              /\ r.writes[i].val.entry = PositionOf(u, o.market).entry
<1> DEFINE balance == BalanceOf(u)
           pos     == PositionOf(u, o.market)
           new     == [pos EXCEPT !.margin = WrapU256(@ + o.amount)]
           place   == Write(Position(u, o.market), new)
           pay     == Write(Balance(u), balance - o.amount)
<1>0. o.market \in Markets /\ o.amount \in Nat
  BY OperationShape
<1>1. ~(o.amount > balance) /\ pos # NoPosition /\ r = DoneAt(o.market, 0, FALSE, <<place, pay>>)
  <2>1. CASE o.amount > balance \/ pos = NoPosition
    BY <2>1 DEF ExecuteAdjustMargin, Failed
  <2>2. CASE ~(o.amount > balance \/ pos = NoPosition)
    BY <2>2 DEF ExecuteAdjustMargin
  <2> QED
    BY <2>1, <2>2
<1>2. balance \in Nat /\ pos \in Positions /\ balance - o.amount \in Nat
  BY <1>0, <1>1, StoredShape
<1>3. new \in Positions /\ new.size = pos.size /\ new.entry = pos.entry
  BY <1>0, <1>2, MarketsAssumption DEF Positions, WrapU256
<1>4. pos.size = SizeOf(u, o.market)
  BY <1>1 DEF SizeOf
<1>5. place \in Entries(u) /\ pay \in Entries(u)
  BY <1>0, <1>2, <1>3, MayWrite
<1>6. /\ place.loc = Position(u, o.market) /\ place.loc[1] = "Position" /\ place.val = new
      /\ pay.loc[1] = "Balance"
  BY DEF Write, Position, Balance
<1>7. r.writes = <<place, pay>> /\ r.filled = 0 /\ r.overflow \in BOOLEAN /\ ~r.overflow /\ r.market = o.market
  BY <1>1 DEF DoneAt
<1> HIDE DEF place, pay, new, pos
<1>8. r.writes \in Seq(Entries(u)) /\ DOMAIN r.writes = {1, 2} /\ r.writes[1] = place /\ r.writes[2] = pay
  BY <1>5, <1>7
<1>9. \A i \in DOMAIN r.writes : ~NewOrder(r.writes[i])
  BY <1>6, <1>8 DEF NewOrder, IsOrder
<1>10. \A i \in DOMAIN r.writes : r.writes[i].loc[1] = "Position" => r.writes[i] = place
  BY <1>6, <1>8
<1>11. new.size = SizeOf(u, o.market) + 0
  <2>1. SizeOf(u, o.market) \in Int
    BY <1>0, StoredShape
  <2> QED
    BY <1>3, <1>4, <2>1
<1>12. OutcomeOK(u, o, r)
  BY <1>0, <1>6, <1>7, <1>8, <1>9, <1>10, <1>11 DEF OutcomeOK
<1> QED
  BY <1>1, <1>3, <1>6, <1>10, <1>12 DEF pos

\* Every operation that does not fail.
LEMMA OperationOutcome ==
  ASSUME TypeInv, NEW u \in Users, NEW o \in Operations, NEW r, r = ExecuteOperation(u, o), r.ok
  PROVE  OutcomeOK(u, o, r)
<1>1. CASE o.op = "PlaceOrder"
  BY <1>1, PlaceOutcome DEF ExecuteOperation
<1>2. CASE o.op = "AdjustMargin"
  BY <1>2, AdjustOutcome DEF ExecuteOperation
<1>3. CASE o.op = "CancelOrder"
  <2>1. r = Done([i \in DOMAIN o.order_ids |-> Write(Order(u, o.market, o.order_ids[i]), Deleted)])
    BY <1>3 DEF ExecuteOperation, ExecuteCancelOrder
  <2>2. o.market \in Markets \cup {0} /\ o.order_ids \in Seq(Nat)
    BY <1>3, OperationShape
  <2> QED
    BY <2>1, <2>2, Deletions
<1>4. CASE o.op = "CancelAll"
  <2> DEFINE ids == IF o.market = 0 THEN FlattenSeq(SetToSeq({user_orders[u][m] : m \in Markets}))
                                    ELSE user_orders[u][o.market]
  <2>1. r = Done([i \in DOMAIN ids |-> Write(Order(u, o.market, ids[i]), Deleted)])
    BY <1>4 DEF ExecuteOperation, ExecuteCancelAll
  <2>2. o.market \in Markets \cup {0} /\ user_orders[u] \in [Markets -> Seq(Nat)]
    BY <1>4, OperationShape DEF TypeInv
  <2>3. ids \in Seq(Nat)
    BY <2>2, AllIds
  <2> HIDE DEF ids
  <2> QED
    BY <2>1, <2>2, <2>3, Deletions
<1>5. CASE o.op = "SetLeverage"
  <2>1. r = Done(<<>>)
    BY <1>5 DEF ExecuteOperation, ExecuteSetLeverage, Failed
  <2>2. r.writes = <<>> /\ r.filled = 0 /\ r.overflow \in BOOLEAN /\ ~r.overflow /\ r.market \notin Markets
    BY <2>1, MarketsAssumption DEF Done
  <2> QED
    BY <2>2 DEF OutcomeOK
<1> QED
  BY <1>1, <1>2, <1>3, <1>4, <1>5, OperationShape

-----------------------------------------------------------------------------
(* Types and places *)

DexTypes == TypeInv /\ PlaceInv

\* Where the elements of a concatenation come from.
LEMMA Concatenated ==
  ASSUME NEW S, NEW s \in Seq(S), NEW t \in Seq(S)
  PROVE  /\ Len(s) \in Nat
         /\ \A i \in DOMAIN (s \o t) : /\ i \in Nat
                                       /\ \/ i \in DOMAIN s /\ i <= Len(s) /\ (s \o t)[i] = s[i]
                                          \/ i - Len(s) \in DOMAIN t /\ (s \o t)[i] = t[i - Len(s)]
         /\ \A i \in DOMAIN s : i \in Nat /\ i <= Len(s) /\ i \in DOMAIN (s \o t) /\ (s \o t)[i] = s[i]
         /\ \A i \in DOMAIN t : i \in Nat /\ Len(s) < Len(s) + i /\ Len(s) + i \in DOMAIN (s \o t)
                                  /\ (s \o t)[Len(s) + i] = t[i]
<1> DEFINE L == Len(s)
<1>1. L \in Nat /\ Len(t) \in Nat /\ DOMAIN s = 1 .. L /\ DOMAIN t = 1 .. Len(t)
        /\ DOMAIN (s \o t) = 1 .. L + Len(t)
  OBVIOUS
<1>2. \A i \in 1 .. L + Len(t) : (s \o t)[i] = IF i <= L THEN s[i] ELSE t[i - L]
  OBVIOUS
<1> DEFINE c == s \o t
<1> HIDE DEF L, c
<1>3. ASSUME NEW i \in DOMAIN c
      PROVE  /\ i \in Nat
             /\ \/ i \in DOMAIN s /\ i <= L /\ c[i] = s[i]
                \/ i - L \in DOMAIN t /\ c[i] = t[i - L]
  <2>1. i \in 1 .. L + Len(t)
    BY <1>1 DEF c
  <2>2. CASE i <= L
    <3>1. i \in 1 .. L /\ i \in Nat
      BY <1>1, <2>1, <2>2
    <3> QED
      BY <1>1, <1>2, <2>1, <2>2, <3>1 DEF c
  <2>3. CASE ~(i <= L)
    <3>1. i - L \in 1 .. Len(t) /\ i \in Nat
      BY <1>1, <2>1, <2>3
    <3> QED
      BY <1>1, <1>2, <2>1, <2>3, <3>1 DEF c
  <2> QED
    BY <2>2, <2>3
<1>4. ASSUME NEW i \in DOMAIN s PROVE i \in Nat /\ i <= L /\ i \in DOMAIN c /\ c[i] = s[i]
  <2>1. i \in Nat /\ i <= L /\ i \in 1 .. L + Len(t)
    BY <1>1
  <2> QED
    BY <1>1, <1>2, <2>1 DEF c
<1>5. ASSUME NEW i \in DOMAIN t PROVE i \in Nat /\ L < L + i /\ L + i \in DOMAIN c /\ c[L + i] = t[i]
  <2> DEFINE k == L + i
  <2>1. i \in Nat /\ L < k /\ k \in 1 .. L + Len(t) /\ ~(k <= L) /\ k - L = i
    BY <1>1
  <2> HIDE DEF k
  <2>2. c[k] = t[i] /\ k \in DOMAIN c
    BY <1>1, <1>2, <2>1 DEF c
  <2> QED
    BY <2>1, <2>2 DEF k
<1> QED
  BY <1>1, <1>3, <1>4, <1>5 DEF c, L

\* Head and Tail of a sequence.
LEMMA HeadAndTail ==
  ASSUME NEW S, NEW s \in Seq(S), s # <<>>
  PROVE  /\ DOMAIN s = 1 .. Len(s) /\ Len(s) \in Nat \ {0} /\ 1 \in DOMAIN s
         /\ Head(s) \in S /\ Head(s) = s[1] /\ Tail(s) \in Seq(S) /\ Len(Tail(s)) = Len(s) - 1
         /\ DOMAIN Tail(s) = 1 .. Len(s) - 1
         /\ \A i \in DOMAIN Tail(s) : i \in Nat /\ i + 1 \in DOMAIN s /\ Tail(s)[i] = s[i + 1]
         /\ Tail(s) = <<>> <=> Len(s) = 1
<1>1. DOMAIN s = 1 .. Len(s) /\ Len(s) \in Nat \ {0} /\ Head(s) = s[1]
  OBVIOUS
<1>2. 1 \in DOMAIN s /\ Head(s) \in S
  BY <1>1
<1>3. Tail(s) \in Seq(S) /\ Len(Tail(s)) = Len(s) - 1
  OBVIOUS
<1>4. DOMAIN Tail(s) = 1 .. Len(s) - 1
  BY <1>3
<1>5. \A i \in 1 .. Len(s) - 1 : i \in Nat /\ i + 1 \in DOMAIN s /\ Tail(s)[i] = s[i + 1]
  BY <1>1
<1>6. ASSUME NEW t \in Seq(S), Len(t) = Len(s) - 1 PROVE t = <<>> <=> Len(s) = 1
  <2>1. t = <<>> => Len(t) = 0
    OBVIOUS
  <2>2. Len(t) = 0 => t = <<>>
    OBVIOUS
  <2>3. Len(t) = 0 <=> Len(s) = 1
    BY <1>1, <1>6
  <2> QED
    BY <2>1, <2>2, <2>3
<1>7. Tail(s) = <<>> <=> Len(s) = 1
  BY <1>3, <1>6
<1> QED
  BY <1>1, <1>2, <1>3, <1>4, <1>5, <1>7

\* The write that is applied next.
LEMMA HeadShape ==
  ASSUME DexTypes, NEW th \in Threads, pc[th] \in ApplyPcs
  PROVE  /\ write_set[th] \in Seq(Entries(user[th])) /\ write_set[th] # <<>>
         /\ Head(write_set[th]) \in Entries(user[th]) /\ user[th] \in Users
         /\ 1 \in DOMAIN write_set[th] /\ Head(write_set[th]) = write_set[th][1]
         /\ Tail(write_set[th]) \in Seq(Entries(user[th]))
         /\ DOMAIN write_set[th] = 1 .. Len(write_set[th]) /\ Len(write_set[th]) \in Nat \ {0}
         /\ DOMAIN Tail(write_set[th]) = 1 .. Len(write_set[th]) - 1
         /\ \A i \in DOMAIN Tail(write_set[th]) :
              i \in Nat /\ i + 1 \in DOMAIN write_set[th] /\ Tail(write_set[th])[i] = write_set[th][i + 1]
<1>1. write_set[th] \in Seq(Entries(user[th])) /\ write_set[th] # <<>> /\ user[th] \in Users
  BY DEF DexTypes, TypeInv, PlaceInv
<1> QED
  BY <1>1, HeadAndTail

\* The threads that do not move.
Others(th) ==
  /\ \A o \in Threads \ {th} :
       pc'[o] = pc[o] /\ user'[o] = user[o] /\ ops'[o] = ops[o] /\ write_set'[o] = write_set[o]
         /\ filled'[o] = filled[o]
  /\ workload' = workload

\* Those threads keep their types and places.
LEMMA TypesFrame ==
  ASSUME DexTypes, NEW th \in Threads, Others(th)
  PROVE  \A o \in Threads \ {th} :
           /\ write_set'[o] \in Seq(Entries(user'[o]))
           /\ pc'[o] = "idle" => write_set'[o] = <<>> /\ filled'[o] = [m \in Markets |-> 0]
           /\ pc'[o] \in ApplyPcs => write_set'[o] # <<>>
           /\ pc'[o] = "insert" => NewOrder(Head(write_set'[o]))
           /\ pc'[o] = "remove" => IsDeletion(Head(write_set'[o]))
           /\ \A i \in DOMAIN ops'[o] : \E b \in workload'.batches : \E j \in DOMAIN b : ops'[o][i] = b[j]
  BY SMTT(30) DEF DexTypes, TypeInv, PlaceInv, Others

\* A write set in which one thread has changed.
LEMMA WritesTyped ==
  ASSUME DexTypes, NEW th \in Threads, NEW ws \in Seq(Entries(user[th])),
         write_set' = [write_set EXCEPT ![th] = ws], user' = user
  PROVE  /\ write_set' \in [Threads -> Seq(UNION {Entries(u) : u \in Users})]
         /\ write_set'[th] = ws
         /\ \A o \in Threads : write_set'[o] \in Seq(Entries(user'[o]))
         /\ \A o \in Threads \ {th} : write_set'[o] = write_set[o]
<1>1. user[th] \in Users
  BY DEF DexTypes, TypeInv
<1>2. Entries(user[th]) \subseteq UNION {Entries(u) : u \in Users}
  BY <1>1
<1>3. ws \in Seq(UNION {Entries(u) : u \in Users})
  BY <1>2
<1>4. write_set \in [Threads -> Seq(UNION {Entries(u) : u \in Users})]
  BY DEF DexTypes, TypeInv
<1>5. /\ write_set'[th] = ws
      /\ \A o \in Threads \ {th} : write_set'[o] = write_set[o]
  BY <1>4
<1>6. \A o \in Threads : write_set[o] \in Seq(Entries(user[o]))
  BY DEF DexTypes, TypeInv
<1>7. \A o \in Threads : write_set'[o] \in Seq(Entries(user'[o]))
  BY <1>5, <1>6
<1> QED
  BY <1>3, <1>4, <1>5, <1>7

\* An operation yields r, and its writes are appended.
Succeeds(th, r) ==
  /\ r = ExecuteOperation(user[th], Head(ops[th])) /\ r.ok
  /\ OutcomeOK(user[th], Head(ops[th]), r)
  /\ next_order_id' = IF Head(ops[th]).op = "PlaceOrder" THEN next_order_id + 1 ELSE next_order_id
  /\ pc' = pc /\ ops' = [ops EXCEPT ![th] = Tail(ops[th])]
  /\ write_set' = [write_set EXCEPT ![th] = write_set[th] \o r.writes]
  /\ filled' = [filled EXCEPT ![th] = [m \in Markets |-> IF m = r.market THEN r.filled ELSE filled[th][m]]]
  /\ overflowed' = IF r.overflow THEN overflowed \cup {<<user[th], r.market>>} ELSE overflowed

\* An operation: it fails, or it succeeds.
LEMMA OperateShape ==
  ASSUME DexTypes, NEW th \in Threads, Operate(th)
  PROVE  /\ Others(th) /\ UNCHANGED <<workload, data, user_orders, user, reported>>
         /\ pc[th] = "operations" /\ ops[th] # <<>> /\ Head(ops[th]) \in Operations
         /\ \/ /\ next_order_id' = next_order_id
               /\ pc' = [pc EXCEPT ![th] = "idle"] /\ ops' = [ops EXCEPT ![th] = <<>>]
               /\ write_set' = [write_set EXCEPT ![th] = <<>>]
               /\ filled' = [filled EXCEPT ![th] = [m \in Markets |-> 0]] /\ overflowed' = overflowed
            \/ \E r : Succeeds(th, r)
<1> DEFINE o == Head(ops[th])
           r == ExecuteOperation(user[th], o)
<1>0. pc[th] = "operations" /\ ops[th] # <<>> /\ UNCHANGED <<workload, data, user_orders, user, reported>>
  BY DEF Operate, storage
<1>1. o \in Operations /\ user[th] \in Users
  <2>1. ops[th] \in Seq(Operations)
    BY DEF DexTypes, TypeInv
  <2> QED
    BY <1>0, <2>1 DEF DexTypes, TypeInv
<1>2. CASE ~r.ok
  <2>1. /\ next_order_id' = next_order_id
        /\ pc' = [pc EXCEPT ![th] = "idle"] /\ ops' = [ops EXCEPT ![th] = <<>>]
        /\ write_set' = [write_set EXCEPT ![th] = <<>>]
        /\ filled' = [filled EXCEPT ![th] = [m \in Markets |-> 0]] /\ overflowed' = overflowed
    BY <1>2 DEF Operate, GenerateOrderId, Goto
  <2>2. Others(th)
    BY <1>0, <2>1 DEF Others, DexTypes, TypeInv
  <2> QED
    BY <1>0, <1>1, <2>1, <2>2
<1>3. CASE r.ok
  <2>1. /\ next_order_id' = IF o.op = "PlaceOrder" THEN next_order_id + 1 ELSE next_order_id
        /\ pc' = pc /\ ops' = [ops EXCEPT ![th] = Tail(ops[th])]
        /\ write_set' = [write_set EXCEPT ![th] = write_set[th] \o r.writes]
        /\ filled' = [filled EXCEPT ![th] =
                       [m \in Markets |-> IF m = r.market THEN r.filled ELSE filled[th][m]]]
        /\ overflowed' = IF r.overflow THEN overflowed \cup {<<user[th], r.market>>} ELSE overflowed
    BY <1>3 DEF Operate, GenerateOrderId
  <2>2. OutcomeOK(user[th], o, r)
    BY <1>1, <1>3, OperationOutcome DEF DexTypes
  <2>3. Others(th)
    BY <1>0, <2>1 DEF Others, DexTypes, TypeInv
  <2>4. Succeeds(th, r)
    BY <1>3, <2>1, <2>2 DEF Succeeds
  <2> HIDE DEF r
  <2> QED
    BY <1>0, <1>1, <2>3, <2>4
<1> QED
  BY <1>2, <1>3

\* After a write: the next one, or the transaction is done.
LEMMA AppliedShape ==
  ASSUME DexTypes, NEW th \in Threads, pc[th] \in ApplyPcs, Applied(th)
  PROVE  /\ Others(th) /\ UNCHANGED <<workload, next_order_id, user, ops, overflowed>>
         /\ write_set' = [write_set EXCEPT ![th] = Tail(write_set[th])]
         /\ \/ /\ Tail(write_set[th]) = <<>>
               /\ pc' = [pc EXCEPT ![th] = "idle"]
               /\ filled' = [filled EXCEPT ![th] = [m \in Markets |-> 0]]
               /\ reported' = [reported EXCEPT ![user[th]] =
                                 [m \in Markets |-> reported[user[th]][m] + filled[th][m]]]
            \/ /\ Tail(write_set[th]) # <<>>
               /\ pc' = [pc EXCEPT ![th] = "apply"] /\ UNCHANGED <<filled, reported>>
<1>0. /\ UNCHANGED <<workload, next_order_id, user, ops, overflowed>>
      /\ write_set' = [write_set EXCEPT ![th] = Tail(write_set[th])]
  BY DEF Applied
<1>1. write_set[th] \in Seq(Entries(user[th])) /\ write_set[th] # <<>>
  BY HeadShape
<1>2. Tail(write_set[th]) = <<>> <=> Len(write_set[th]) = 1
  BY <1>1, HeadAndTail
<1>3. CASE Len(write_set[th]) = 1
  <2>1. Tail(write_set[th]) = <<>>
    BY <1>2, <1>3
  <2>2. /\ pc' = [pc EXCEPT ![th] = "idle"]
        /\ filled' = [filled EXCEPT ![th] = [m \in Markets |-> 0]]
        /\ reported' = [reported EXCEPT ![user[th]] =
                          [m \in Markets |-> reported[user[th]][m] + filled[th][m]]]
    BY <1>3 DEF Applied, Goto
  <2>3. Others(th)
    BY <1>0, <2>2 DEF Others, DexTypes, TypeInv
  <2> QED
    BY <1>0, <2>1, <2>2, <2>3
<1>4. CASE Len(write_set[th]) # 1
  <2>1. Tail(write_set[th]) # <<>>
    BY <1>2, <1>4
  <2>2. pc' = [pc EXCEPT ![th] = "apply"] /\ UNCHANGED <<filled, reported>>
    BY <1>4 DEF Applied, Goto
  <2>3. Others(th)
    BY <1>0, <2>2 DEF Others, DexTypes, TypeInv
  <2> QED
    BY <1>0, <2>1, <2>2, <2>3
<1> QED
  BY <1>3, <1>4

\* No two threads serve one user, if the thread that moves keeps its user.
LEMMA UsersApart ==
  ASSUME DexTypes, NEW th \in Threads, Others(th), user' = user, pc[th] # "idle"
  PROVE  \A t, o \in Threads : t # o /\ pc'[t] # "idle" /\ pc'[o] # "idle" => user'[t] # user'[o]
  BY DEF DexTypes, PlaceInv, Others

\* Applying a write keeps types and places.
LEMMA AppliedTypes ==
  ASSUME DexTypes, NEW th \in Threads, pc[th] \in ApplyPcs, Applied(th), user_orders' = user_orders,
         \A l \in DOMAIN data' : \E u \in Users : Write(l, data'[l]) \in Entries(u)
  PROVE  DexTypes'
<1>0. /\ Others(th) /\ UNCHANGED <<workload, next_order_id, user, ops, overflowed>>
      /\ write_set' = [write_set EXCEPT ![th] = Tail(write_set[th])]
  BY AppliedShape
<1>1. Tail(write_set[th]) \in Seq(Entries(user[th]))
  BY HeadShape
<1>2. /\ write_set' \in [Threads -> Seq(UNION {Entries(u) : u \in Users})]
      /\ write_set'[th] = Tail(write_set[th])
      /\ \A o \in Threads : write_set'[o] \in Seq(Entries(user'[o]))
  BY <1>0, <1>1, WritesTyped
<1>3. \A t, o \in Threads : t # o /\ pc'[t] # "idle" /\ pc'[o] # "idle" => user'[t] # user'[o]
  BY <1>0, UsersApart DEF ApplyPcs
<1>4. /\ pc' \in [Threads -> Pcs] /\ filled' \in [Threads -> [Markets -> Int]]
      /\ reported' \in [Users -> [Markets -> Int]]
      /\ pc'[th] = "idle" => write_set'[th] = <<>> /\ filled'[th] = [m \in Markets |-> 0]
      /\ pc'[th] \in {"idle", "apply"} /\ (pc'[th] = "apply" => write_set'[th] # <<>>)
  <2>0. /\ pc \in [Threads -> Pcs] /\ filled \in [Threads -> [Markets -> Int]]
        /\ reported \in [Users -> [Markets -> Int]] /\ user[th] \in Users
    BY DEF DexTypes, TypeInv
  <2>1. CASE Tail(write_set[th]) = <<>>
    <3>1. /\ pc' = [pc EXCEPT ![th] = "idle"]
          /\ filled' = [filled EXCEPT ![th] = [m \in Markets |-> 0]]
          /\ reported' = [reported EXCEPT ![user[th]] =
                            [m \in Markets |-> reported[user[th]][m] + filled[th][m]]]
      BY <2>1, AppliedShape
    <3>2. [m \in Markets |-> reported[user[th]][m] + filled[th][m]] \in [Markets -> Int]
      BY <2>0
    <3>3. reported' \in [Users -> [Markets -> Int]]
      BY <2>0, <3>1, <3>2
    <3> QED
      BY <1>2, <2>0, <2>1, <3>1, <3>3 DEF Pcs
  <2>2. CASE Tail(write_set[th]) # <<>>
    <3>1. pc' = [pc EXCEPT ![th] = "apply"] /\ UNCHANGED <<filled, reported>>
      BY <2>2, AppliedShape
    <3> QED
      BY <1>2, <2>0, <2>2, <3>1 DEF Pcs
  <2> QED
    BY <2>1, <2>2
<1>5. TypeInv'
  BY <1>0, <1>2, <1>4 DEF TypeInv, DexTypes
<1>6. PlaceInv'
  <2>1. \A o \in Threads \ {th} :
           /\ pc'[o] = "idle" => write_set'[o] = <<>> /\ filled'[o] = [m \in Markets |-> 0]
           /\ pc'[o] \in ApplyPcs => write_set'[o] # <<>>
           /\ pc'[o] = "insert" => NewOrder(Head(write_set'[o]))
           /\ pc'[o] = "remove" => IsDeletion(Head(write_set'[o]))
           /\ \A i \in DOMAIN ops'[o] : \E b \in workload'.batches : \E j \in DOMAIN b : ops'[o][i] = b[j]
    BY <1>0, TypesFrame
  <2>2. \A i \in DOMAIN ops'[th] : \E b \in workload'.batches : \E j \in DOMAIN b : ops'[th][i] = b[j]
    BY <1>0 DEF DexTypes, PlaceInv
  <2>3. ASSUME NEW o \in Threads
        PROVE  /\ pc'[o] = "idle" => write_set'[o] = <<>> /\ filled'[o] = [m \in Markets |-> 0]
               /\ pc'[o] \in ApplyPcs => write_set'[o] # <<>>
               /\ pc'[o] = "insert" => NewOrder(Head(write_set'[o]))
               /\ pc'[o] = "remove" => IsDeletion(Head(write_set'[o]))
               /\ \A i \in DOMAIN ops'[o] : \E b \in workload'.batches : \E j \in DOMAIN b : ops'[o][i] = b[j]
    <3>1. CASE o # th
      BY <2>1, <3>1
    <3>2. CASE o = th
      BY <1>4, <2>2, <3>2 DEF ApplyPcs
    <3> QED
      BY <3>1, <3>2
  <2> QED
    BY <1>3, <2>3 DEF PlaceInv, NewOrder, IsDeletion
<1> QED
  BY <1>5, <1>6 DEF DexTypes

\* The steps of one thread.
Move(th) ==
  \/ \E u \in workload.users, nonce \in 0 .. workload.maxNonce :
       NonceMismatch(th, u, nonce) \/ \E batch \in workload.batches : Execute(th, u, batch, nonce)
  \/ Operate(th) \/ UpdateNonce(th)
  \/ AddOrderIndex(th) \/ InsertData(th) \/ RemoveOrderIndex(th) \/ RemoveData(th)

\* What is expected of a thread, as PlaceInv says.
PlaceOK(th) ==
  /\ pc[th] = "idle" => write_set[th] = <<>> /\ filled[th] = [m \in Markets |-> 0]
  /\ pc[th] \in ApplyPcs => write_set[th] # <<>>
  /\ pc[th] = "insert" => NewOrder(Head(write_set[th]))
  /\ pc[th] = "remove" => IsDeletion(Head(write_set[th]))
  /\ \A i \in DOMAIN ops[th] : \E b \in workload.batches : \E j \in DOMAIN b : ops[th][i] = b[j]

\* It suffices to look at the thread that moves.
LEMMA PlaceFrame ==
  ASSUME DexTypes, NEW th \in Threads, Others(th), PlaceOK(th)',
         \A t, o \in Threads : t # o /\ pc'[t] # "idle" /\ pc'[o] # "idle" => user'[t] # user'[o]
  PROVE  PlaceInv'
<1>1. ASSUME NEW o \in Threads PROVE PlaceOK(o)'
  <2>1. CASE o = th
    BY <2>1
  <2>2. CASE o # th
    BY <2>2, TypesFrame DEF PlaceOK, NewOrder, IsDeletion
  <2> QED
    BY <2>1, <2>2
<1> QED
  BY <1>1 DEF PlaceInv, PlaceOK

\* Starting a transaction keeps types and places.
LEMMA ExecuteTypes ==
  ASSUME DexTypes, NEW th \in Threads, NEW u \in workload.users, NEW batch \in workload.batches, NEW nonce,
         Execute(th, u, batch, nonce)
  PROVE  DexTypes' /\ Others(th)
<1>0. /\ pc[th] = "idle" /\ \A o \in Threads : pc[o] # "idle" => user[o] # u
      /\ user' = [user EXCEPT ![th] = u] /\ ops' = [ops EXCEPT ![th] = batch]
      /\ pc' = [pc EXCEPT ![th] = "operations"]
      /\ UNCHANGED <<workload, data, user_orders, next_order_id, write_set, filled, reported, overflowed>>
  BY DEF Execute, Goto, storage, history
<1>1. u \in Users /\ batch \in Seq(Operations)
  BY WorkloadsAssumption DEF DexTypes, TypeInv
<1>2. Others(th)
  BY <1>0 DEF Others, DexTypes, TypeInv
<1>3. /\ pc' \in [Threads -> Pcs] /\ user' \in [Threads -> Users] /\ ops' \in [Threads -> Seq(Operations)]
      /\ pc'[th] = "operations" /\ user'[th] = u /\ ops'[th] = batch /\ write_set'[th] = <<>>
  BY <1>0, <1>1 DEF DexTypes, TypeInv, PlaceInv, Pcs
<1>4. \A o \in Threads : write_set'[o] \in Seq(Entries(user'[o]))
  <2>1. \A o \in Threads \ {th} : write_set'[o] \in Seq(Entries(user'[o]))
    BY <1>2, TypesFrame
  <2>2. write_set'[th] \in Seq(Entries(user'[th]))
    BY <1>3
  <2> QED
    BY <2>1, <2>2
<1>5. TypeInv'
  BY <1>0, <1>3, <1>4 DEF TypeInv, DexTypes
<1>6. PlaceOK(th)'
  <2>1. \A i \in DOMAIN ops'[th] : \E b \in workload'.batches : \E j \in DOMAIN b : ops'[th][i] = b[j]
    BY <1>0, <1>3
  <2> QED
    BY <1>3, <2>1 DEF PlaceOK, ApplyPcs
<1>7. ASSUME NEW t \in Threads, NEW o \in Threads, t # o, pc'[t] # "idle", pc'[o] # "idle"
      PROVE  user'[t] # user'[o]
  <2>1. \A s \in Threads \ {th} : pc'[s] = pc[s] /\ user'[s] = user[s]
    BY <1>2 DEF Others
  <2>2. CASE t = th
    BY <1>0, <1>3, <1>7, <2>1, <2>2
  <2>3. CASE o = th
    BY <1>0, <1>3, <1>7, <2>1, <2>3
  <2>4. CASE t # th /\ o # th
    BY <1>7, <2>1, <2>4 DEF DexTypes, PlaceInv
  <2> QED
    BY <2>2, <2>3, <2>4
<1> QED
  BY <1>2, <1>5, <1>6, <1>7, PlaceFrame DEF DexTypes

\* An operation keeps types and places.
LEMMA OperateTypes ==
  ASSUME DexTypes, NEW th \in Threads, Operate(th)
  PROVE  DexTypes'
<1>0. /\ Others(th) /\ UNCHANGED <<workload, data, user_orders, user, reported>>
      /\ pc[th] = "operations" /\ ops[th] # <<>> /\ Head(ops[th]) \in Operations
  BY OperateShape
<1>1. /\ pc \in [Threads -> Pcs] /\ ops \in [Threads -> Seq(Operations)] /\ user[th] \in Users
      /\ filled \in [Threads -> [Markets -> Int]] /\ next_order_id \in Nat
      /\ write_set[th] \in Seq(Entries(user[th])) /\ ops[th] \in Seq(Operations)
  BY DEF DexTypes, TypeInv
<1>2. \A t, o \in Threads : t # o /\ pc'[t] # "idle" /\ pc'[o] # "idle" => user'[t] # user'[o]
  BY <1>0, UsersApart
<1>3. CASE /\ next_order_id' = next_order_id
           /\ pc' = [pc EXCEPT ![th] = "idle"] /\ ops' = [ops EXCEPT ![th] = <<>>]
           /\ write_set' = [write_set EXCEPT ![th] = <<>>]
           /\ filled' = [filled EXCEPT ![th] = [m \in Markets |-> 0]] /\ overflowed' = overflowed
  <2>1. /\ write_set' \in [Threads -> Seq(UNION {Entries(u) : u \in Users})]
        /\ write_set'[th] = <<>>
        /\ \A o \in Threads : write_set'[o] \in Seq(Entries(user'[o]))
    <3>1. ASSUME NEW ws, ws = <<>> PROVE ws \in Seq(Entries(user[th]))
      BY <3>1
    <3>2. ASSUME NEW ws, ws = <<>>
          PROVE  /\ write_set' \in [Threads -> Seq(UNION {Entries(u) : u \in Users})]
                 /\ write_set'[th] = ws
                 /\ \A o \in Threads : write_set'[o] \in Seq(Entries(user'[o]))
      <4>1. ws \in Seq(Entries(user[th])) /\ write_set' = [write_set EXCEPT ![th] = ws] /\ user' = user
        BY <1>0, <1>3, <3>1, <3>2
      <4> QED
        BY <4>1, WritesTyped
    <3> QED
      BY <3>2
  <2>2. /\ pc' \in [Threads -> Pcs] /\ ops' \in [Threads -> Seq(Operations)]
        /\ filled' \in [Threads -> [Markets -> Int]] /\ next_order_id' \in Nat
        /\ pc'[th] = "idle" /\ ops'[th] = <<>> /\ filled'[th] = [m \in Markets |-> 0]
    BY <1>1, <1>3 DEF Pcs
  <2>3. TypeInv'
    BY <1>0, <1>3, <2>1, <2>2 DEF TypeInv, DexTypes
  <2>4. PlaceOK(th)'
    BY <2>1, <2>2 DEF PlaceOK, ApplyPcs
  <2> QED
    BY <1>0, <1>2, <2>3, <2>4, PlaceFrame DEF DexTypes
<1>4. ASSUME NEW r, Succeeds(th, r) PROVE DexTypes'
  <2>0. /\ r.writes \in Seq(Entries(user[th])) /\ r.filled \in Int
        /\ r.overflow => r.market \in Markets
    BY <1>4 DEF Succeeds, OutcomeOK
  <2>1. write_set[th] \o r.writes \in Seq(Entries(user[th]))
    BY <1>1, <2>0
  <2>2. /\ write_set' \in [Threads -> Seq(UNION {Entries(u) : u \in Users})]
        /\ \A o \in Threads : write_set'[o] \in Seq(Entries(user'[o]))
    BY <1>0, <1>4, <2>1, WritesTyped DEF Succeeds
  <2>3. filled' \in [Threads -> [Markets -> Int]]
    <3> DEFINE new == [m \in Markets |-> IF m = r.market THEN r.filled ELSE filled[th][m]]
    <3>1. new \in [Markets -> Int] /\ filled' = [filled EXCEPT ![th] = new]
      BY <1>1, <1>4, <2>0 DEF Succeeds
    <3> HIDE DEF new
    <3> QED
      BY <1>1, <3>1
  <2>4. next_order_id' \in Nat
    BY <1>1, <1>4 DEF Succeeds
  <2>5. Tail(ops[th]) \in Seq(Operations) /\ \A i \in DOMAIN Tail(ops[th]) :
          i + 1 \in DOMAIN ops[th] /\ Tail(ops[th])[i] = ops[th][i + 1]
    BY <1>0, <1>1, HeadAndTail
  <2>6. ops' \in [Threads -> Seq(Operations)] /\ ops'[th] = Tail(ops[th])
    BY <1>1, <1>4, <2>5 DEF Succeeds
  <2>7. TypeInv'
    <3>1. overflowed' \subseteq Users \X Markets
      BY <1>1, <1>4, <2>0 DEF TypeInv, DexTypes, Succeeds
    <3> QED
      BY <1>0, <1>4, <2>2, <2>3, <2>4, <2>6, <3>1 DEF TypeInv, DexTypes, Succeeds
  <2>8. \A i \in DOMAIN ops'[th] : \E b \in workload'.batches : \E j \in DOMAIN b : ops'[th][i] = b[j]
    <3>1. \A i \in DOMAIN ops[th] : \E b \in workload.batches : \E j \in DOMAIN b : ops[th][i] = b[j]
      BY DEF DexTypes, PlaceInv
    <3> QED
      BY <1>0, <2>5, <2>6, <3>1
  <2>9. PlaceOK(th)'
    BY <1>0, <1>4, <2>8 DEF PlaceOK, ApplyPcs, Succeeds
  <2> QED
    BY <1>0, <1>2, <2>7, <2>9, PlaceFrame DEF DexTypes
<1> QED
  BY <1>3, <1>4, OperateShape

\* The write of the nonce.
LEMMA NonceTypes ==
  ASSUME DexTypes, NEW th \in Threads, UpdateNonce(th)
  PROVE  /\ DexTypes' /\ Others(th)
         /\ UNCHANGED <<workload, data, user_orders, next_order_id, user, ops, filled, reported, overflowed>>
         /\ pc[th] = "operations" /\ pc' = [pc EXCEPT ![th] = "apply"]
         /\ \E w : w.loc[1] = "UserNonce" /\ write_set' = [write_set EXCEPT ![th] = Append(write_set[th], w)]
<1> DEFINE w == Write(UserNonce(user[th]), NonceOf(user[th]) + 1)
<1>0. /\ pc[th] = "operations" /\ pc' = [pc EXCEPT ![th] = "apply"]
      /\ write_set' = [write_set EXCEPT ![th] = Append(write_set[th], w)]
      /\ UNCHANGED <<workload, data, user_orders, next_order_id, user, ops, filled, reported, overflowed>>
  BY DEF UpdateNonce, Goto, storage, history
<1>1. user[th] \in Users /\ write_set[th] \in Seq(Entries(user[th])) /\ pc \in [Threads -> Pcs]
  BY DEF DexTypes, TypeInv
<1>2. w \in Entries(user[th])
  <2>1. NonceOf(user[th]) + 1 \in Nat
    BY <1>1, StoredShape DEF DexTypes
  <2> QED
    BY <2>1, MayWrite
<1>3. w.loc[1] = "UserNonce"
  BY DEF Write, UserNonce
<1> HIDE DEF w
<1>4. Append(write_set[th], w) \in Seq(Entries(user[th])) /\ Append(write_set[th], w) # <<>>
  BY <1>1, <1>2
<1>5. Others(th)
  BY <1>0 DEF Others, DexTypes, TypeInv
<1>6. /\ write_set' \in [Threads -> Seq(UNION {Entries(u) : u \in Users})]
      /\ write_set'[th] = Append(write_set[th], w)
      /\ \A o \in Threads : write_set'[o] \in Seq(Entries(user'[o]))
  BY <1>0, <1>4, WritesTyped
<1>7. TypeInv'
  BY <1>0, <1>1, <1>6 DEF TypeInv, DexTypes, Pcs
<1>8. PlaceOK(th)'
  BY <1>0, <1>1, <1>4, <1>6 DEF PlaceOK, DexTypes, PlaceInv
<1>9. \A t, o \in Threads : t # o /\ pc'[t] # "idle" /\ pc'[o] # "idle" => user'[t] # user'[o]
  BY <1>0, <1>5, UsersApart
<1> QED
  BY <1>0, <1>3, <1>5, <1>7, <1>8, <1>9, PlaceFrame DEF DexTypes

\* A change of the index of orders at one place.
LEMMA IndexShape ==
  ASSUME DexTypes, NEW u \in Users, NEW l, l[2] = u, NEW ids \in Seq(Nat), SetIdsAt(l, ids)
  PROVE  /\ user_orders' \in [Users -> [Markets -> Seq(Nat)]]
         /\ l[3] \in Markets => user_orders'[u][l[3]] = ids
         /\ \A v \in Users, m \in Markets : v # u \/ m # l[3] => user_orders'[v][m] = user_orders[v][m]
<1> DEFINE new == [m \in Markets |-> IF m = l[3] THEN ids ELSE user_orders[u][m]]
<1>0. user_orders \in [Users -> [Markets -> Seq(Nat)]]
  BY DEF DexTypes, TypeInv
<1>1. user_orders' = [user_orders EXCEPT ![u] = new]
  BY DEF SetIdsAt
<1>2. new \in [Markets -> Seq(Nat)]
  BY <1>0
<1>3. user_orders'[u] = new /\ \A v \in Users : v # u => user_orders'[v] = user_orders[v]
  BY <1>0, <1>1, <1>2
<1>4. user_orders' \in [Users -> [Markets -> Seq(Nat)]]
  <2> HIDE DEF new
  <2> QED
    BY <1>0, <1>1, <1>2
<1> QED
  BY <1>3, <1>4

\* The first half of set or delete: the index.
LEMMA IndexTypes ==
  ASSUME DexTypes, NEW th \in Threads, AddOrderIndex(th) \/ RemoveOrderIndex(th)
  PROVE  /\ DexTypes' /\ Others(th) /\ pc[th] = "apply"
         /\ UNCHANGED <<workload, data, next_order_id, user, ops, write_set, filled, reported, overflowed>>
         /\ LET l == Head(write_set[th]).loc
            IN /\ \A v \in Users, m \in Markets : v # user[th] \/ m # l[3] =>
                    user_orders'[v][m] = user_orders[v][m]
               /\ \/ /\ NewOrder(Head(write_set[th])) /\ pc' = [pc EXCEPT ![th] = "insert"]
                     /\ user_orders'[user[th]][l[3]] = Append(user_orders[user[th]][l[3]], l[4])
                  \/ /\ IsDeletion(Head(write_set[th])) /\ pc' = [pc EXCEPT ![th] = "remove"]
                     /\ l[3] \in Markets =>
                          user_orders'[user[th]][l[3]] = Retain(user_orders[user[th]][l[3]], l[4])
<1> DEFINE w == Head(write_set[th])
           l == w.loc
           u == user[th]
<1>0. /\ pc[th] = "apply"
      /\ UNCHANGED <<workload, data, next_order_id, user, ops, write_set, filled, reported, overflowed>>
  BY DEF AddOrderIndex, RemoveOrderIndex, history
<1>1. w \in Entries(u) /\ u \in Users
  BY <1>0, HeadShape DEF ApplyPcs
<1>2. pc \in [Threads -> Pcs] /\ user_orders \in [Users -> [Markets -> Seq(Nat)]]
  BY DEF DexTypes, TypeInv
<1>3. ASSUME NEW new \in {"insert", "remove"}, pc' = [pc EXCEPT ![th] = new],
             new = "insert" => NewOrder(w), new = "remove" => IsDeletion(w),
             user_orders' \in [Users -> [Markets -> Seq(Nat)]]
      PROVE  DexTypes' /\ Others(th)
  <2>1. Others(th)
    BY <1>0, <1>3 DEF Others, DexTypes, TypeInv
  <2>2. TypeInv'
    BY <1>0, <1>2, <1>3 DEF DexTypes, TypeInv, Pcs
  <2>3. PlaceOK(th)'
    <3>1. pc'[th] = new
      BY <1>2, <1>3
    <3>2. write_set[th] # <<>>
      BY <1>0, HeadShape DEF ApplyPcs
    <3>3. \A i \in DOMAIN ops[th] : \E b \in workload.batches : \E j \in DOMAIN b : ops[th][i] = b[j]
      BY DEF DexTypes, PlaceInv
    <3> QED
      BY <1>0, <1>3, <3>1, <3>2, <3>3 DEF PlaceOK, NewOrder, IsDeletion
  <2>4. \A t, o \in Threads : t # o /\ pc'[t] # "idle" /\ pc'[o] # "idle" => user'[t] # user'[o]
    BY <1>0, <2>1, UsersApart
  <2> QED
    BY <2>1, <2>2, <2>3, <2>4, PlaceFrame DEF DexTypes
<1>4. CASE AddOrderIndex(th)
  <2>1. /\ IsOrder(l) /\ ~IsDeletion(w) /\ SetIdsAt(l, Append(IdsAt(l), l[4]))
        /\ pc' = [pc EXCEPT ![th] = "insert"]
    BY <1>4 DEF AddOrderIndex, Goto
  <2>2. l[2] = u /\ l[3] \in Markets /\ l[4] \in Nat /\ NewOrder(w)
    BY <1>1, <2>1, EntryShape DEF NewOrder, IsOrder, IsDeletion
  <2>3. IdsAt(l) = user_orders[u][l[3]] /\ IdsAt(l) \in Seq(Nat)
    BY <1>1, <1>2, <2>2 DEF IdsAt
  <2>4. Append(IdsAt(l), l[4]) \in Seq(Nat)
    BY <2>2, <2>3
  <2> HIDE DEF l, u
  <2>5. /\ user_orders' \in [Users -> [Markets -> Seq(Nat)]]
        /\ user_orders'[u][l[3]] = Append(IdsAt(l), l[4])
        /\ \A v \in Users, m \in Markets : v # u \/ m # l[3] => user_orders'[v][m] = user_orders[v][m]
    BY <1>1, <2>1, <2>2, <2>4, IndexShape, ZenonT(40)
  <2>6. DexTypes' /\ Others(th)
    BY <1>3, <2>1, <2>2, <2>5
  <2> QED
    BY <1>0, <2>1, <2>2, <2>3, <2>5, <2>6 DEF l, u
<1>5. CASE RemoveOrderIndex(th)
  <2>1. /\ IsDeletion(w) /\ SetIdsAt(l, Retain(IdsAt(l), l[4]))
        /\ pc' = [pc EXCEPT ![th] = "remove"]
    BY <1>5 DEF RemoveOrderIndex, Goto
  <2>2. l[2] = u
    BY <1>1, EntryShape
  <2>3. (l[3] \in Markets => IdsAt(l) = user_orders[u][l[3]]) /\ IdsAt(l) \in Seq(Nat)
    BY <1>1, <1>2, <2>2 DEF IdsAt
  <2>4. Retain(IdsAt(l), l[4]) \in Seq(Nat)
    BY <2>3, RetainIs
  <2> HIDE DEF l, u
  <2>5. /\ user_orders' \in [Users -> [Markets -> Seq(Nat)]]
        /\ l[3] \in Markets => user_orders'[u][l[3]] = Retain(IdsAt(l), l[4])
        /\ \A v \in Users, m \in Markets : v # u \/ m # l[3] => user_orders'[v][m] = user_orders[v][m]
    BY <1>1, <2>1, <2>2, <2>4, IndexShape
  <2>6. DexTypes' /\ Others(th)
    BY <1>3, <2>1, <2>5
  <2> QED
    BY <1>0, <2>1, <2>3, <2>5, <2>6 DEF l, u
<1> QED
  BY <1>4, <1>5

\* The second half: the data.
LEMMA DataTypes ==
  ASSUME DexTypes, NEW th \in Threads, InsertData(th) \/ RemoveData(th)
  PROVE  /\ DexTypes' /\ Applied(th) /\ pc[th] \in ApplyPcs /\ user_orders' = user_orders
         /\ LET w == Head(write_set[th])
            IN \/ /\ data' = [l \in DOMAIN data \cup {w.loc} |-> IF l = w.loc THEN w.val ELSE data[l]]
                  /\ pc[th] = "insert" \/ ~NewOrder(w)
               \/ /\ data' = [l \in DOMAIN data \ {w.loc} |-> data[l]]
                  /\ pc[th] = "remove" /\ IsDeletion(w)
<1> DEFINE w == Head(write_set[th])
<1>1. Applied(th) /\ user_orders' = user_orders /\ pc[th] \in ApplyPcs
  BY DEF InsertData, RemoveData, ApplyPcs
<1>2. w \in Entries(user[th]) /\ user[th] \in Users
  BY <1>1, HeadShape
<1>3. CASE InsertData(th)
  <2>1. /\ data' = [l \in DOMAIN data \cup {w.loc} |-> IF l = w.loc THEN w.val ELSE data[l]]
        /\ pc[th] = "insert" \/ ~NewOrder(w)
    BY <1>3 DEF InsertData, NewOrder
  <2>2. Write(w.loc, w.val) \in Entries(user[th])
    BY <1>2 DEF Write, Entries
  <2> HIDE DEF w
  <2>3. \A l \in DOMAIN data' : \E u \in Users : Write(l, data'[l]) \in Entries(u)
    BY <1>2, <2>1, <2>2 DEF DexTypes, TypeInv
  <2>4. DexTypes'
    BY <1>1, <2>3, AppliedTypes
  <2> QED
    BY <1>1, <2>1, <2>4 DEF w
<1>4. CASE RemoveData(th)
  <2>1. data' = [l \in DOMAIN data \ {w.loc} |-> data[l]] /\ pc[th] = "remove"
    BY <1>4 DEF RemoveData
  <2>2. IsDeletion(w)
    BY <2>1 DEF DexTypes, PlaceInv
  <2> HIDE DEF w
  <2>3. \A l \in DOMAIN data' : \E u \in Users : Write(l, data'[l]) \in Entries(u)
    BY <2>1 DEF DexTypes, TypeInv
  <2>4. DexTypes'
    BY <1>1, <2>3, AppliedTypes
  <2> QED
    BY <1>1, <2>1, <2>2, <2>4 DEF w
<1> QED
  BY <1>3, <1>4

\* Every step keeps types and places.
LEMMA TypesStep ==
  ASSUME DexTypes, NEW th \in Threads, Move(th)
  PROVE  DexTypes'
<1>1. ASSUME NEW u, NEW nonce, NonceMismatch(th, u, nonce) PROVE DexTypes'
  BY <1>1 DEF NonceMismatch, dexVars, storage, locals, history, DexTypes, TypeInv, PlaceInv, NewOrder, IsDeletion
<1> QED
  BY <1>1, ExecuteTypes, OperateTypes, NonceTypes, IndexTypes, DataTypes DEF Move

-----------------------------------------------------------------------------
(* Order ids *)

\* A thread moves, and neither the book nor the pending orders get anything new.
LEMMA IdsFrame ==
  ASSUME IdInv, NEW th \in Threads, Others(th), UNCHANGED <<data, next_order_id>>,
         \A i \in Nat : NewAt(th, i)' => NewAt(th, i) /\ write_set'[th][i] = write_set[th][i]
  PROVE  IdInv'
<1>1. \A o \in Threads, i \in Nat : NewAt(o, i)' => NewAt(o, i) /\ write_set'[o][i] = write_set[o][i]
  BY DEF Others, NewAt
<1>2. \A l : Live(l)' <=> Live(l)
  BY DEF Live
<1> QED
  BY <1>1, <1>2, SMTT(30) DEF IdInv

\* Orders in the book and pending ones have numbers as ids.
LEMMA IdsAreNumbers ==
  ASSUME DexTypes
  PROVE  /\ \A l \in DOMAIN data : Live(l) => l[4] \in Nat
         /\ \A t \in Threads, i \in Nat : NewAt(t, i) => write_set[t][i].loc[4] \in Nat
<1>1. ASSUME NEW l \in DOMAIN data, Live(l) PROVE l[4] \in Nat
  <2>1. PICK u \in Users : Write(l, data[l]) \in Entries(u)
    BY DEF DexTypes, TypeInv
  <2> DEFINE w == Write(l, data[l])
  <2>2. w \in Entries(u) /\ w.loc = l
    BY <2>1 DEF Write
  <2> HIDE DEF w
  <2> QED
    BY <1>1, <2>2, EntryShape DEF Live, IsOrder
<1>2. ASSUME NEW t \in Threads, NEW i \in Nat, NewAt(t, i) PROVE write_set[t][i].loc[4] \in Nat
  <2>1. write_set[t] \in Seq(Entries(user[t])) /\ i \in DOMAIN write_set[t] /\ IsOrder(write_set[t][i].loc)
    BY <1>2 DEF DexTypes, TypeInv, NewAt, NewOrder
  <2>2. write_set[t][i] \in Entries(user[t])
    BY <2>1
  <2> QED
    BY <2>1, <2>2, EntryShape DEF IsOrder
<1> QED
  BY <1>1, <1>2

\* A pending order is one of before, or write n of thread th, with the next id.
OneMore(th, n) ==
  \A t \in Threads, i \in Nat : i \in DOMAIN write_set'[t] /\ NewOrder(write_set'[t][i]) =>
    \/ NewAt(t, i) /\ write_set'[t][i] = write_set[t][i]
    \/ /\ t = th /\ i = n /\ write_set'[t][i].loc[4] = next_order_id
       /\ next_order_id < next_order_id'

\* One pending order more, which has the next id.
LEMMA IdsTaken ==
  ASSUME DexTypes, IdInv, NEW th \in Threads, data' = data, next_order_id' \in Nat,
         next_order_id <= next_order_id', NEW n, OneMore(th, n)
  PROVE  IdInv'
<1> DEFINE Old(t, i) == NewAt(t, i) /\ write_set'[t][i] = write_set[t][i]
           New(t, i) == t = th /\ i = n /\ write_set'[t][i].loc[4] = next_order_id
                          /\ next_order_id < next_order_id'
<1>0. next_order_id \in Nat
  BY DEF DexTypes, TypeInv
<1>1. ASSUME NEW t \in Threads, NEW i \in Nat, NewAt(t, i)' PROVE Old(t, i) \/ New(t, i)
  BY <1>1 DEF OneMore, NewAt
<1>2. \A t \in Threads, i \in Nat : Old(t, i) =>
        write_set'[t][i].loc[4] \in Nat /\ write_set'[t][i].loc[4] < next_order_id
  BY IdsAreNumbers DEF IdInv
<1>3. \A l : Live(l)' <=> Live(l)
  BY DEF Live
<1>4. \A l \in DOMAIN data : Live(l) => l[4] \in Nat /\ l[4] < next_order_id
  BY IdsAreNumbers DEF IdInv
<1>5. ASSUME NEW t \in Threads, NEW i \in Nat, NewAt(t, i)'
      PROVE  write_set'[t][i].loc[4] < next_order_id'
  <2>1. CASE Old(t, i)
    <3>1. write_set'[t][i].loc[4] \in Nat /\ write_set'[t][i].loc[4] < next_order_id
      BY <1>2, <2>1
    <3> QED
      BY <1>0, <3>1
  <2>2. CASE New(t, i)
    BY <2>2
  <2> QED
    BY <1>1, <1>5, <2>1, <2>2
<1>6. ASSUME NEW s \in Threads, NEW t \in Threads, NEW i \in Nat, NEW j \in Nat, NewAt(s, i)', NewAt(t, j)',
             write_set'[s][i].loc[4] = write_set'[t][j].loc[4]
      PROVE  s = t /\ i = j
  <2>1. CASE Old(s, i) /\ Old(t, j)
    BY <1>6, <2>1 DEF IdInv
  <2>2. CASE New(s, i) /\ New(t, j)
    BY <2>2
  <2>3. CASE Old(s, i) /\ New(t, j)
    <3>1. write_set'[s][i].loc[4] \in Nat /\ write_set'[s][i].loc[4] < next_order_id
      BY <1>2, <2>3
    <3>2. write_set'[s][i].loc[4] = next_order_id
      BY <1>6, <2>3
    <3> QED
      BY <1>0, <3>1, <3>2
  <2>4. CASE New(s, i) /\ Old(t, j)
    <3>1. write_set'[t][j].loc[4] \in Nat /\ write_set'[t][j].loc[4] < next_order_id
      BY <1>2, <2>4
    <3>2. write_set'[t][j].loc[4] = next_order_id
      BY <1>6, <2>4
    <3> QED
      BY <1>0, <3>1, <3>2
  <2> QED
    BY <1>1, <1>6, <2>1, <2>2, <2>3, <2>4
<1>7. ASSUME NEW l \in DOMAIN data', Live(l)' PROVE l[4] < next_order_id'
  <2>1. l[4] \in Nat /\ l[4] < next_order_id
    BY <1>3, <1>4, <1>7
  <2> QED
    BY <1>0, <2>1
<1>8. ASSUME NEW l \in DOMAIN data', NEW t \in Threads, NEW i \in Nat, Live(l)', NewAt(t, i)'
      PROVE  l[4] # write_set'[t][i].loc[4]
  <2>1. CASE Old(t, i)
    BY <1>3, <1>8, <2>1 DEF IdInv
  <2>2. CASE New(t, i)
    <3>1. l[4] \in Nat /\ l[4] < next_order_id
      BY <1>3, <1>4, <1>8
    <3> QED
      BY <1>0, <2>2, <3>1
  <2> QED
    BY <1>1, <1>8, <2>1, <2>2
<1>9. \A k, l \in DOMAIN data' : Live(k)' /\ Live(l)' /\ k[4] = l[4] => k = l
  BY <1>3 DEF IdInv
<1> HIDE DEF Old, New
<1> QED
  BY <1>5, <1>6, <1>7, <1>8, <1>9 DEF IdInv, NewAt, Live

\* Writes of an operation are appended: a new order has the next id.
LEMMA IdsAppended ==
  ASSUME DexTypes, IdInv, NEW th \in Threads, Others(th), data' = data,
         NEW o, NEW r, OutcomeOK(user[th], o, r),
         next_order_id' = IF o.op = "PlaceOrder" THEN next_order_id + 1 ELSE next_order_id,
         write_set' = [write_set EXCEPT ![th] = write_set[th] \o r.writes]
  PROVE  IdInv' /\ \E n : OneMore(th, n)
<1> DEFINE ws == write_set[th]
           L == Len(ws)
<1>0. /\ ws \in Seq(Entries(user[th])) /\ r.writes \in Seq(Entries(user[th]))
      /\ next_order_id \in Nat /\ next_order_id' \in Nat /\ next_order_id <= next_order_id'
      /\ write_set'[th] = ws \o r.writes
  BY DEF DexTypes, TypeInv, OutcomeOK
<1>1. L \in Nat /\ DOMAIN ws = 1 .. L /\ DOMAIN (ws \o r.writes) = 1 .. L + Len(r.writes)
        /\ Len(r.writes) \in Nat /\ DOMAIN r.writes = 1 .. Len(r.writes)
  BY <1>0
<1>2. ASSUME NEW i \in DOMAIN (ws \o r.writes)
      PROVE  \/ i \in DOMAIN ws /\ (ws \o r.writes)[i] = ws[i]
             \/ i - L \in DOMAIN r.writes /\ (ws \o r.writes)[i] = r.writes[i - L]
  <2> HIDE DEF ws
  <2>1. CASE i <= L
    BY <1>0, <1>1, <2>1
  <2>2. CASE ~(i <= L)
    BY <1>0, <1>1, <2>2
  <2> QED
    BY <2>1, <2>2
\* A pending order is one of before, or the one with the next id.
<1> DEFINE Old(t, i) == NewAt(t, i) /\ write_set'[t][i] = write_set[t][i]
           New(t, i) == /\ t = th /\ o.op = "PlaceOrder" /\ write_set'[t][i].loc[4] = next_order_id
                        /\ i - L \in DOMAIN r.writes /\ NewOrder(r.writes[i - L])
<1>3. ASSUME NEW t \in Threads, NEW i \in Nat, NewAt(t, i)' PROVE Old(t, i) \/ New(t, i)
  <2>1. CASE t # th
    BY <1>3, <2>1 DEF Others, NewAt
  <2>2. CASE t = th
    <3>1. i \in DOMAIN (ws \o r.writes) /\ NewOrder((ws \o r.writes)[i])
      BY <1>0, <1>3, <2>2 DEF NewAt
    <3> HIDE DEF ws
    <3>2. CASE i \in DOMAIN ws /\ (ws \o r.writes)[i] = ws[i]
      BY <1>0, <2>2, <3>1, <3>2 DEF NewAt, ws
    <3>3. CASE i - L \in DOMAIN r.writes /\ (ws \o r.writes)[i] = r.writes[i - L]
      BY <1>0, <2>2, <3>1, <3>3 DEF OutcomeOK
    <3> QED
      BY <1>2, <3>1, <3>2, <3>3
  <2> QED
    BY <2>1, <2>2
<1>4. PICK n : \A i \in Nat : New(th, i) => i = n
  <2>1. \A i, j \in Nat : New(th, i) /\ New(th, j) => i = j
    <3> SUFFICES ASSUME NEW i \in Nat, NEW j \in Nat, New(th, i), New(th, j) PROVE i = j
      OBVIOUS
    <3>1. i - L = j - L
      BY DEF OutcomeOK
    <3> QED
      BY <1>1, <3>1
  <2> HIDE DEF New
  <2> QED
    BY <2>1
<1>5. \A t \in Threads, i \in Nat : i \in DOMAIN write_set'[t] /\ NewOrder(write_set'[t][i]) =>
        \/ NewAt(t, i) /\ write_set'[t][i] = write_set[t][i]
        \/ /\ t = th /\ i = n /\ write_set'[t][i].loc[4] = next_order_id
           /\ next_order_id < next_order_id'
  <2> SUFFICES ASSUME NEW t \in Threads, NEW i \in Nat, NewAt(t, i)'
               PROVE  \/ NewAt(t, i) /\ write_set'[t][i] = write_set[t][i]
                      \/ /\ t = th /\ i = n /\ write_set'[t][i].loc[4] = next_order_id
                         /\ next_order_id < next_order_id'
    BY DEF NewAt
  <2>1. CASE Old(t, i)
    BY <2>1
  <2>2. CASE New(t, i)
    <3>1. i = n
      <4> HIDE DEF New
      <4>1. t = th
        BY <2>2 DEF New
      <4> QED
        BY <1>4, <2>2, <4>1
    <3> QED
      BY <1>0, <2>2, <3>1
  <2> QED
    BY <1>3, <2>1, <2>2
<1> HIDE DEF Old, New
<1>6. OneMore(th, n)
  BY <1>5 DEF OneMore
<1> QED
  BY <1>0, <1>6, IdsTaken

\* A write is applied: what was pending is in the book, or nothing changes there.
LEMMA IdsApplied ==
  ASSUME DexTypes, IdInv, NEW th \in Threads, InsertData(th) \/ RemoveData(th)
  PROVE  IdInv'
<1> DEFINE w == Head(write_set[th])
           ws == write_set[th]
<1>0. /\ pc[th] \in ApplyPcs /\ Applied(th)
      /\ \/ data' = [l \in DOMAIN data \cup {w.loc} |-> IF l = w.loc THEN w.val ELSE data[l]]
         \/ data' = [l \in DOMAIN data \ {w.loc} |-> data[l]]
  BY DataTypes
<1>1. Others(th) /\ next_order_id' = next_order_id /\ write_set' = [write_set EXCEPT ![th] = Tail(ws)]
  BY <1>0, AppliedShape
<1>2. write_set'[th] = Tail(ws)
  BY <1>1 DEF DexTypes, TypeInv
<1>3. /\ w = ws[1] /\ 1 \in DOMAIN ws
      /\ \A i \in DOMAIN Tail(ws) : i \in Nat /\ i + 1 \in DOMAIN ws /\ Tail(ws)[i] = ws[i + 1]
  BY <1>0, HeadShape
<1>4. \A i \in Nat : NewAt(th, i)' =>
        i + 1 \in Nat /\ i + 1 # 1 /\ NewAt(th, i + 1) /\ write_set'[th][i] = write_set[th][i + 1]
  BY <1>2, <1>3 DEF NewAt
<1>5. \A t \in Threads \ {th}, i \in Nat : NewAt(t, i)' => NewAt(t, i) /\ write_set'[t][i] = write_set[t][i]
  BY <1>1 DEF Others, NewAt
<1>6. \A l : Live(l)' => (l \in DOMAIN data /\ Live(l)) \/ (l = w.loc /\ NewAt(th, 1))
  <2> SUFFICES ASSUME NEW l, Live(l)', ~(l \in DOMAIN data /\ Live(l)) PROVE l = w.loc /\ NewAt(th, 1)
    OBVIOUS
  <2>1. CASE data' = [k \in DOMAIN data \cup {w.loc} |-> IF k = w.loc THEN w.val ELSE data[k]]
    <3>1. l = w.loc /\ data'[l] = w.val
      BY <2>1 DEF Live
    <3>2. NewOrder(w)
      BY <3>1 DEF Live, NewOrder, IsDeletion
    <3> QED
      BY <1>3, <3>1, <3>2 DEF NewAt
  <2>2. CASE data' = [k \in DOMAIN data \ {w.loc} |-> data[k]]
    BY <2>2 DEF Live
  <2> QED
    BY <1>0, <2>1, <2>2
<1>7. \A l : Live(l)' => l \in DOMAIN data'
  BY DEF Live
<1> HIDE DEF w, ws
<1>8. w = write_set[th][1]
  BY <1>3 DEF ws
\* Where a pending order was before.
<1> DEFINE At(t, i) == IF t = th THEN i + 1 ELSE i
<1>9. \A t \in Threads, i \in Nat : NewAt(t, i)' =>
        /\ At(t, i) \in Nat /\ NewAt(t, At(t, i)) /\ write_set'[t][i] = write_set[t][At(t, i)]
        /\ ~(t = th /\ At(t, i) = 1)
  BY <1>4, <1>5
<1>10. \A t \in Threads, i, j \in Nat : At(t, i) = At(t, j) => i = j
  OBVIOUS
<1> HIDE DEF At
<1>11. ASSUME NEW t \in Threads, NEW i \in Nat, NewAt(t, i)'
       PROVE  write_set'[t][i].loc[4] < next_order_id'
  <2>1. /\ At(t, i) \in Nat /\ NewAt(t, At(t, i))
        /\ write_set'[t][i] = write_set[t][At(t, i)]
    BY <1>9, <1>11
  <2>2. write_set[t][At(t, i)].loc[4] < next_order_id
    BY <2>1 DEF IdInv
  <2> QED
    BY <1>1, <2>1, <2>2
<1>12. ASSUME NEW s \in Threads, NEW t \in Threads, NEW i \in Nat, NEW j \in Nat, NewAt(s, i)', NewAt(t, j)',
              write_set'[s][i].loc[4] = write_set'[t][j].loc[4]
       PROVE  s = t /\ i = j
  <2>1. s = t /\ At(s, i) = At(t, j)
    BY <1>9, <1>12, SMTT(30) DEF IdInv
  <2> QED
    BY <1>10, <2>1
<1>13. \A l \in DOMAIN data' : Live(l)' => l[4] < next_order_id'
  BY <1>1, <1>6, <1>8 DEF IdInv
<1>14. ASSUME NEW l \in DOMAIN data', NEW t \in Threads, NEW i \in Nat, Live(l)', NewAt(t, i)'
       PROVE  l[4] # write_set'[t][i].loc[4]
  <2>1. CASE l \in DOMAIN data /\ Live(l)
    BY <1>9, <1>14, <2>1 DEF IdInv
  <2>2. CASE l = w.loc /\ NewAt(th, 1)
    BY <1>8, <1>9, <1>14, <2>2 DEF IdInv
  <2> QED
    BY <1>6, <1>14, <2>1, <2>2
<1>15. ASSUME NEW k \in DOMAIN data', NEW l \in DOMAIN data', Live(k)', Live(l)', k[4] = l[4]
       PROVE  k = l
  <2>1. CASE (k \in DOMAIN data /\ Live(k)) /\ (l \in DOMAIN data /\ Live(l))
    BY <1>15, <2>1 DEF IdInv
  <2>2. CASE (k = w.loc /\ NewAt(th, 1)) /\ (l \in DOMAIN data /\ Live(l))
    BY <1>8, <1>15, <2>2 DEF IdInv
  <2>3. CASE (l = w.loc /\ NewAt(th, 1)) /\ (k \in DOMAIN data /\ Live(k))
    BY <1>8, <1>15, <2>3 DEF IdInv
  <2> QED
    BY <1>6, <1>15, <2>1, <2>2, <2>3
<1> QED
  BY <1>11, <1>12, <1>13, <1>14, <1>15 DEF IdInv

\* Every step keeps the ids unique.
LEMMA IdsStep ==
  ASSUME DexTypes, IdInv, NEW th \in Threads, Move(th)
  PROVE  IdInv'
<1>1. ASSUME NEW u \in workload.users, NEW batch \in workload.batches, NEW nonce, Execute(th, u, batch, nonce)
      PROVE  IdInv'
  <2>1. Others(th) /\ UNCHANGED <<data, next_order_id, write_set>>
    BY <1>1, ExecuteTypes DEF Execute, storage
  <2> QED
    BY <2>1, IdsFrame DEF NewAt
<1>2. ASSUME NEW u, NEW nonce, NonceMismatch(th, u, nonce) PROVE IdInv'
  BY <1>2 DEF NonceMismatch, dexVars, storage, locals, history, IdInv, NewAt, Live
<1>3. CASE Operate(th)
  <2>0. Others(th) /\ data' = data
    BY <1>3, OperateShape
  <2>1. CASE next_order_id' = next_order_id /\ write_set' = [write_set EXCEPT ![th] = <<>>]
    <3>1. write_set'[th] = <<>>
      BY <2>1 DEF DexTypes, TypeInv
    <3> QED
      BY <2>0, <2>1, <3>1, IdsFrame DEF NewAt
  <2>2. CASE \E r : /\ OutcomeOK(user[th], Head(ops[th]), r)
                    /\ next_order_id' = IF Head(ops[th]).op = "PlaceOrder" THEN next_order_id + 1
                                        ELSE next_order_id
                    /\ write_set' = [write_set EXCEPT ![th] = write_set[th] \o r.writes]
    BY <2>0, <2>2, IdsAppended
  <2>3. CASE \E r : Succeeds(th, r)
    BY <2>2, <2>3 DEF Succeeds
  <2> QED
    BY <1>3, <2>1, <2>3, OperateShape
<1>4. CASE UpdateNonce(th)
  <2>1. PICK w : w.loc[1] = "UserNonce" /\ write_set' = [write_set EXCEPT ![th] = Append(write_set[th], w)]
    BY <1>4, NonceTypes
  <2>2. Others(th) /\ UNCHANGED <<data, next_order_id>>
    BY <1>4, NonceTypes
  <2>3. write_set[th] \in Seq(Entries(user[th])) /\ write_set'[th] = Append(write_set[th], w)
    BY <2>1 DEF DexTypes, TypeInv
  <2>4. \A i \in DOMAIN Append(write_set[th], w) :
          \/ i \in DOMAIN write_set[th] /\ Append(write_set[th], w)[i] = write_set[th][i]
          \/ Append(write_set[th], w)[i] = w
    BY <2>3
  <2>5. ~NewOrder(w)
    BY <2>1 DEF NewOrder, IsOrder
  <2>6. \A i \in Nat : NewAt(th, i)' => NewAt(th, i) /\ write_set'[th][i] = write_set[th][i]
    BY <2>3, <2>4, <2>5 DEF NewAt
  <2> QED
    BY <2>2, <2>6, IdsFrame
<1>5. CASE AddOrderIndex(th) \/ RemoveOrderIndex(th)
  <2>1. Others(th) /\ UNCHANGED <<data, next_order_id, write_set>>
    BY <1>5, IndexTypes
  <2> QED
    BY <2>1, IdsFrame DEF NewAt
<1>6. CASE InsertData(th) \/ RemoveData(th)
  BY <1>6, IdsApplied
<1> QED
  BY <1>1, <1>2, <1>3, <1>4, <1>5, <1>6 DEF Move

-----------------------------------------------------------------------------
(* The order index *)

\* The location of a write that puts an order into the book.
LEMMA PendingKeys ==
  ASSUME NEW u, NEW ws \in Seq(Entries(u)), NEW i \in DOMAIN ws, NewOrder(ws[i])
  PROVE  ws[i].loc[2] = u /\ ws[i].loc[3] \in Markets /\ ws[i].loc[4] \in Nat
<1> DEFINE w == ws[i]
<1>1. w \in Entries(u)
  OBVIOUS
<1>2. w.loc[1] = "Order" /\ w.val # Deleted
  BY DEF NewOrder, IsOrder, IsDeletion
<1> HIDE DEF w
<1>3. w.loc[2] = u /\ w.loc[3] \in Markets /\ w.loc[4] \in Nat
  BY <1>1, <1>2, EntryShape
<1> QED
  BY <1>3 DEF w

\* Where orders in the book and pending ones are looked for.
LEMMA OrderKeys ==
  ASSUME DexTypes
  PROVE  /\ \A l \in DOMAIN data : Live(l) =>
              l[2] \in Users /\ l[3] \in Markets /\ l[4] \in Nat /\ l = Order(l[2], l[3], l[4])
         /\ \A t \in Threads, i \in Nat : NewAt(t, i) =>
              LET l == write_set[t][i].loc
              IN /\ l[2] = user[t] /\ user[t] \in Users /\ l[3] \in Markets /\ l[4] \in Nat
                 /\ pc[t] # "idle"
<1>1. ASSUME NEW l \in DOMAIN data, Live(l)
      PROVE  l[2] \in Users /\ l[3] \in Markets /\ l[4] \in Nat /\ l = Order(l[2], l[3], l[4])
  <2>1. PICK u \in Users : Write(l, data[l]) \in Entries(u)
    BY DEF DexTypes, TypeInv
  <2> DEFINE w == Write(l, data[l])
  <2>2. w \in Entries(u) /\ w.loc = l /\ w.val = data[l]
    BY <2>1 DEF Write
  <2> HIDE DEF w
  <2>3. l[1] = "Order" /\ w.val # Deleted
    BY <1>1, <2>2 DEF Live, IsOrder
  <2> QED
    BY <2>2, <2>3, EntryShape
<1>2. ASSUME NEW t \in Threads, NEW i \in Nat, NewAt(t, i)
      PROVE  LET l == write_set[t][i].loc
             IN /\ l[2] = user[t] /\ user[t] \in Users /\ l[3] \in Markets /\ l[4] \in Nat
                /\ pc[t] # "idle"
  <2>1. /\ write_set[t] \in Seq(Entries(user[t])) /\ user[t] \in Users
        /\ i \in DOMAIN write_set[t] /\ NewOrder(write_set[t][i])
    BY <1>2 DEF DexTypes, TypeInv, NewAt
  <2>2. pc[t] # "idle"
    BY <2>1 DEF DexTypes, PlaceInv
  <2> QED
    BY <2>1, <2>2, PendingKeys
<1> QED
  BY <1>1, <1>2

\* A step that leaves the index and the book alone, of a thread that works on
\* neither of them before or after it.
LEMMA IndexFrame ==
  ASSUME DexTypes, DexTypes', IdInv, IndexInv, NEW th \in Threads, Others(th),
         UNCHANGED <<data, user_orders>>, next_order_id' \in Nat, next_order_id <= next_order_id',
         pc[th] \notin {"insert", "remove"}, pc'[th] \notin {"insert", "remove"},
         NEW n, OneMore(th, n)
  PROVE  IndexInv'
<1>0. next_order_id \in Nat
  BY DEF DexTypes, TypeInv
<1>1. IndexOnce'
  BY DEF IndexInv, IndexOnce
<1>2. IndexBelow'
  <2> SUFFICES ASSUME NEW u \in Users, NEW m \in Markets, NEW id \in Nat, Holds(user_orders[u][m], id)
               PROVE  id < next_order_id'
    BY DEF IndexBelow
  <2>1. id < next_order_id
    BY DEF IndexInv, IndexBelow
  <2> QED
    BY <1>0, <2>1
<1>3. PendingOut'
  <2> SUFFICES ASSUME NEW t \in Threads, NEW i \in Nat, NewAt(t, i)', NEW l, l = write_set'[t][i].loc,
                      Holds(user_orders[l[2]][l[3]], l[4])
               PROVE  pc'[t] = "insert" /\ i = 1
    BY DEF PendingOut
  <2>1. CASE NewAt(t, i) /\ write_set'[t][i] = write_set[t][i]
    <3>1. pc[t] = "insert" /\ i = 1
      BY <2>1 DEF IndexInv, PendingOut
    <3> QED
      BY <3>1 DEF Others
  <2>2. CASE t = th /\ i = n /\ write_set'[t][i].loc[4] = next_order_id
    <3>0. /\ write_set'[t] \in Seq(Entries(user'[t])) /\ user'[t] \in Users
          /\ i \in DOMAIN write_set'[t] /\ NewOrder(write_set'[t][i])
      BY DEF DexTypes, TypeInv, NewAt
    <3>1. l[2] \in Users /\ l[3] \in Markets /\ l[4] \in Nat
      BY <3>0, PendingKeys
    <3>2. l[4] < next_order_id
      BY <3>1 DEF IndexInv, IndexBelow
    <3> QED
      BY <1>0, <2>2, <3>2
  <2> QED
    BY <2>1, <2>2 DEF OneMore, NewAt
<1>4. InsertIn'
  BY DEF IndexInv, InsertIn, Others
<1>5. LiveIn'
  BY DEF IndexInv, LiveIn, Live, Others
<1> QED
  BY <1>1, <1>2, <1>3, <1>4, <1>5 DEF IndexInv

\* A number is appended to a list of ids.
LEMMA AppendedIds ==
  ASSUME NEW ids \in Seq(Nat), NEW id \in Nat
  PROVE  /\ \A x : Holds(Append(ids, id), x) <=> Holds(ids, x) \/ x = id
         /\ ~Holds(ids, id) /\ (\A i, j \in DOMAIN ids : ids[i] = ids[j] => i = j)
              => \A i, j \in DOMAIN Append(ids, id) : Append(ids, id)[i] = Append(ids, id)[j] => i = j
<1> DEFINE new == Append(ids, id)
           L == Len(ids)
<1>1. /\ L \in Nat /\ DOMAIN ids = 1 .. L /\ DOMAIN new = 1 .. L + 1 /\ new[L + 1] = id
      /\ \A i \in 1 .. L : new[i] = ids[i]
  OBVIOUS
<1> HIDE DEF new, L
<1>2. /\ L + 1 \in DOMAIN new
      /\ \A i \in DOMAIN new : i = L + 1 \/ (i \in DOMAIN ids /\ new[i] = ids[i])
  <2>1. L + 1 \in 1 .. L + 1 /\ \A i \in 1 .. L + 1 : i = L + 1 \/ i \in 1 .. L
    BY <1>1
  <2> QED
    BY <1>1, <2>1
<1>3. \A i \in DOMAIN ids : i \in DOMAIN new /\ new[i] = ids[i]
  BY <1>1
<1>4. new[L + 1] = id
  BY <1>1
<1>5. \A x : Holds(new, x) <=> Holds(ids, x) \/ x = id
  BY <1>2, <1>3, <1>4 DEF Holds
<1>6. ASSUME ~Holds(ids, id), \A i, j \in DOMAIN ids : ids[i] = ids[j] => i = j,
             NEW i \in DOMAIN new, NEW j \in DOMAIN new, new[i] = new[j]
      PROVE  i = j
  BY <1>2, <1>4, <1>6 DEF Holds
<1> QED
  BY <1>5, <1>6 DEF new

\* An order that is about to be put into the book is entered into the index.
LEMMA IndexAdded ==
  ASSUME DexTypes, IdInv, IndexInv, NEW th \in Threads, AddOrderIndex(th)
  PROVE  IndexInv'
<1> DEFINE w == Head(write_set[th])
           l == w.loc
           u == user[th]
           ids == user_orders[u][l[3]]
<1>0. /\ Others(th) /\ pc[th] = "apply"
      /\ UNCHANGED <<workload, data, next_order_id, user, ops, write_set, filled, reported, overflowed>>
      /\ \A v \in Users, m \in Markets : v # u \/ m # l[3] => user_orders'[v][m] = user_orders[v][m]
  BY IndexTypes
<1>1. NewOrder(w) /\ pc' = [pc EXCEPT ![th] = "insert"]
  BY DEF AddOrderIndex, NewOrder, Goto
<1>2. ~IsDeletion(w)
  BY <1>1 DEF NewOrder
<1>3. user_orders'[u][l[3]] = Append(ids, l[4])
  BY <1>2, IndexTypes
<1>4. pc \in [Threads -> Pcs] /\ pc'[th] = "insert" /\ \A o \in Threads \ {th} : pc'[o] = pc[o]
  BY <1>1 DEF DexTypes, TypeInv
<1>5. w = write_set[th][1] /\ NewAt(th, 1)
  BY <1>0, <1>1, HeadShape DEF NewAt, ApplyPcs
<1>6. l[2] = u /\ u \in Users /\ l[3] \in Markets /\ l[4] \in Nat
  BY <1>5, OrderKeys
<1>7. ids \in Seq(Nat) /\ next_order_id \in Nat
  BY <1>6 DEF DexTypes, TypeInv
<1> DEFINE id == l[4]
           mk == l[3]
<1>8. ~Holds(ids, id) /\ id < next_order_id
  <2>1. ~Holds(user_orders[l[2]][l[3]], l[4])
    BY <1>0, <1>5 DEF IndexInv, PendingOut
  <2> QED
    BY <1>5, <1>6, <2>1 DEF IdInv
<1>9. /\ u \in Users /\ mk \in Markets /\ id \in Nat /\ l[2] = u /\ l[3] = mk /\ l[4] = id
      /\ user_orders'[u][mk] = Append(user_orders[u][mk], id) /\ user_orders[u][mk] \in Seq(Nat)
      /\ ids = user_orders[u][mk]
      /\ \A v \in Users, m \in Markets : v # u \/ m # mk => user_orders'[v][m] = user_orders[v][m]
  BY <1>0, <1>3, <1>6, <1>7
<1>10. l = write_set[th][1].loc /\ l = Head(write_set[th]).loc /\ u = user[th]
  BY <1>5
<1> HIDE DEF l, u, w, ids, id, mk
<1>11. \A v \in Users, m \in Markets : \A x : Holds(user_orders'[v][m], x) <=>
          Holds(user_orders[v][m], x) \/ (v = u /\ m = mk /\ x = id)
  <2> SUFFICES ASSUME NEW v \in Users, NEW m \in Markets, NEW x
               PROVE  Holds(user_orders'[v][m], x) <=>
                        Holds(user_orders[v][m], x) \/ (v = u /\ m = mk /\ x = id)
    OBVIOUS
  <2>1. CASE v = u /\ m = mk
    <3> DEFINE s == user_orders[u][mk]
    <3>1. s \in Seq(Nat) /\ id \in Nat /\ user_orders'[v][m] = Append(s, id) /\ user_orders[v][m] = s
      BY <1>9, <2>1
    <3> HIDE DEF s
    <3>2. Holds(Append(s, id), x) <=> Holds(s, x) \/ x = id
      BY <3>1, AppendedIds
    <3> QED
      BY <2>1, <3>1, <3>2
  <2>2. CASE ~(v = u /\ m = mk)
    BY <1>9, <2>2
  <2> QED
    BY <2>1, <2>2
<1> DEFINE In(k) == Holds(user_orders[k[2]][k[3]], k[4])
           InNow(k) == Holds(user_orders'[k[2]][k[3]], k[4])
<1>11a. ASSUME NEW k, k[2] \in Users, k[3] \in Markets
       PROVE  InNow(k) <=> In(k) \/ (k[2] = u /\ k[3] = mk /\ k[4] = id)
  BY <1>11, <1>11a
<1>12. IndexOnce'
  <2> SUFFICES ASSUME NEW v \in Users, NEW m \in Markets
               PROVE  \A i, j \in DOMAIN user_orders'[v][m] :
                        user_orders'[v][m][i] = user_orders'[v][m][j] => i = j
    BY DEF IndexOnce
  <2>1. \A i, j \in DOMAIN user_orders[v][m] : user_orders[v][m][i] = user_orders[v][m][j] => i = j
    BY DEF IndexInv, IndexOnce
  <2>2. CASE v = u /\ m = mk
    <3> DEFINE s == user_orders[u][mk]
    <3>1. s \in Seq(Nat) /\ ~Holds(s, id) /\ user_orders'[v][m] = Append(s, id) /\ user_orders[v][m] = s
      BY <1>8, <1>9, <2>2
    <3> HIDE DEF s
    <3> QED
      BY <1>9, <2>1, <3>1, AppendedIds
  <2>3. CASE ~(v = u /\ m = mk)
    BY <1>9, <2>1, <2>3
  <2> QED
    BY <2>2, <2>3
<1>13. IndexBelow'
  <2> SUFFICES ASSUME NEW v \in Users, NEW m \in Markets, NEW x \in Nat, Holds(user_orders'[v][m], x)
               PROVE  x < next_order_id
    BY <1>0 DEF IndexBelow
  <2> QED
    BY <1>8, <1>11 DEF IndexInv, IndexBelow
<1>14. PendingOut'
  <2> SUFFICES ASSUME NEW t \in Threads, NEW i \in Nat, NewAt(t, i), NEW k, k = write_set[t][i].loc,
                      Holds(user_orders'[k[2]][k[3]], k[4])
               PROVE  pc'[t] = "insert" /\ i = 1
    BY <1>0 DEF PendingOut, NewAt
  <2>1. k[2] = user[t] /\ user[t] \in Users /\ k[3] \in Markets /\ pc[t] # "idle"
    BY OrderKeys
  <2>2. CASE Holds(user_orders[k[2]][k[3]], k[4])
    <3>1. pc[t] = "insert" /\ i = 1
      BY <2>2 DEF IndexInv, PendingOut
    <3> QED
      BY <1>0, <1>4, <3>1
  <2>3. CASE k[2] = u /\ k[4] = id
    <3>1. t = th /\ i = 1
      BY <1>5, <1>9, <1>10, <2>3, SMTT(30) DEF IdInv
    <3> QED
      BY <1>4, <3>1
  <2> QED
    BY <1>11a, <2>1, <2>2, <2>3
<1>15. InsertIn'
  <2> SUFFICES ASSUME NEW t \in Threads, pc'[t] = "insert", NEW k, k = Head(write_set[t]).loc
               PROVE  Holds(user_orders'[k[2]][k[3]], k[4])
    BY <1>0 DEF InsertIn
  <2>1. CASE t = th
    BY <1>9, <1>10, <1>11a, <2>1
  <2>2. CASE t # th
    <3>1. pc[t] = "insert"
      BY <1>4, <2>2
    <3>2. Holds(user_orders[k[2]][k[3]], k[4])
      BY <3>1 DEF IndexInv, InsertIn
    <3>3. NewAt(t, 1) /\ k = write_set[t][1].loc
      BY <3>1, HeadShape DEF ApplyPcs, NewAt, DexTypes, PlaceInv
    <3>4. k[2] \in Users /\ k[3] \in Markets
      BY <3>3, OrderKeys
    <3> QED
      BY <1>11a, <3>2, <3>4
  <2> QED
    BY <2>1, <2>2
<1>16. LiveIn'
  <2> SUFFICES ASSUME NEW k \in DOMAIN data, Live(k)
               PROVE  \/ Holds(user_orders'[k[2]][k[3]], k[4])
                      \/ \E t \in Threads : pc'[t] = "remove" /\ Head(write_set[t]).loc = k
    BY <1>0 DEF LiveIn, Live
  <2>1. k[2] \in Users /\ k[3] \in Markets
    BY OrderKeys
  <2>2. CASE Holds(user_orders[k[2]][k[3]], k[4])
    BY <1>11a, <2>1, <2>2
  <2>3. CASE \E t \in Threads : pc[t] = "remove" /\ Head(write_set[t]).loc = k
    BY <1>0, <1>4, <2>3
  <2> QED
    BY <2>2, <2>3 DEF IndexInv, LiveIn
<1> QED
  BY <1>12, <1>13, <1>14, <1>15, <1>16 DEF IndexInv

\* An order that is about to leave the book is taken out of the index.
LEMMA IndexRemoved ==
  ASSUME DexTypes, IdInv, IndexInv, NEW th \in Threads, RemoveOrderIndex(th)
  PROVE  IndexInv'
<1> DEFINE w == Head(write_set[th])
           l == w.loc
           u == user[th]
           mk == l[3]
           id == l[4]
<1>0. /\ Others(th) /\ pc[th] = "apply"
      /\ UNCHANGED <<workload, data, next_order_id, user, ops, write_set, filled, reported, overflowed>>
      /\ \A v \in Users, m \in Markets : v # u \/ m # mk => user_orders'[v][m] = user_orders[v][m]
  BY IndexTypes
<1>1. IsDeletion(w) /\ pc' = [pc EXCEPT ![th] = "remove"]
  BY DEF RemoveOrderIndex, Goto
<1>2. ~NewOrder(w)
  BY <1>1 DEF NewOrder
<1>3. mk \in Markets => user_orders'[u][mk] = Retain(user_orders[u][mk], id)
  BY <1>2, IndexTypes
<1>4. pc \in [Threads -> Pcs] /\ pc'[th] = "remove" /\ \A o \in Threads \ {th} : pc'[o] = pc[o]
  BY <1>1 DEF DexTypes, TypeInv
<1>5. w \in Entries(u) /\ u \in Users /\ user_orders \in [Users -> [Markets -> Seq(Nat)]]
  BY <1>0, HeadShape DEF ApplyPcs, DexTypes, TypeInv
<1>6. l = Order(u, mk, id)
  BY <1>1, <1>5, EntryShape DEF IsDeletion, IsOrder
<1>7. l = Head(write_set[th]).loc /\ u = user[th]
  OBVIOUS
<1> HIDE DEF l, u, w, id, mk
\* Only this id is gone, from this list.
<1>8. ASSUME NEW v \in Users, NEW m \in Markets
      PROVE  LET old == user_orders[v][m]
                 new == user_orders'[v][m]
             IN /\ \A x : Holds(new, x) => Holds(old, x)
                /\ \A x : Holds(old, x) /\ ~(v = u /\ m = mk /\ x = id) => Holds(new, x)
                /\ \A i, j \in DOMAIN new : new[i] = new[j] => i = j
  <2>1. \A i, j \in DOMAIN user_orders[v][m] : user_orders[v][m][i] = user_orders[v][m][j] => i = j
    BY DEF IndexInv, IndexOnce
  <2>2. CASE v = u /\ m = mk
    <3> DEFINE s == user_orders[v][m]
               r == Retain(s, id)
    <3>1. s \in Seq(Nat) /\ user_orders'[v][m] = r
      BY <1>3, <1>5, <2>2
    <3>2. /\ \A i \in DOMAIN s : s[i] # id => \E j \in DOMAIN r : r[j] = s[i]
          /\ \A j \in DOMAIN r : r[j] # id /\ \E i \in DOMAIN s : s[i] = r[j]
          /\ (\A i, j \in DOMAIN s : s[i] = s[j] => i = j) => \A i, j \in DOMAIN r : r[i] = r[j] => i = j
      <4> HIDE DEF s
      <4> QED
        BY <3>1, RetainIs
    <3>3. \A i, j \in DOMAIN s : s[i] = s[j] => i = j
      BY <2>1
    <3> HIDE DEF r, s
    <3>4. \A x : Holds(r, x) => Holds(s, x)
      BY <3>2 DEF Holds
    <3>5. \A x : Holds(s, x) /\ x # id => Holds(r, x)
      BY <3>2 DEF Holds
    <3>6. \A i, j \in DOMAIN r : r[i] = r[j] => i = j
      BY <3>2, <3>3
    <3>7. user_orders[v][m] = s
      BY DEF s
    <3> QED
      BY <2>2, <3>1, <3>4, <3>5, <3>6, <3>7
  <2>3. CASE ~(v = u /\ m = mk)
    BY <1>0, <2>1, <2>3
  <2> QED
    BY <2>2, <2>3
<1> DEFINE In(k) == Holds(user_orders[k[2]][k[3]], k[4])
           InNow(k) == Holds(user_orders'[k[2]][k[3]], k[4])
<1>9. ASSUME NEW k, k[2] \in Users, k[3] \in Markets
      PROVE  /\ InNow(k) => In(k)
             /\ In(k) /\ ~(k[2] = u /\ k[3] = mk /\ k[4] = id) => InNow(k)
  BY <1>8, <1>9
<1>10. IndexOnce'
  BY <1>8 DEF IndexOnce
<1>11. IndexBelow'
  <2> SUFFICES ASSUME NEW v \in Users, NEW m \in Markets, NEW x \in Nat, Holds(user_orders'[v][m], x)
               PROVE  x < next_order_id
    BY <1>0 DEF IndexBelow
  <2> QED
    BY <1>8 DEF IndexInv, IndexBelow
<1>12. PendingOut'
  <2> SUFFICES ASSUME NEW t \in Threads, NEW i \in Nat, NewAt(t, i), NEW k, k = write_set[t][i].loc,
                      Holds(user_orders'[k[2]][k[3]], k[4])
               PROVE  pc'[t] = "insert" /\ i = 1
    BY <1>0 DEF PendingOut, NewAt
  <2>1. k[2] \in Users /\ k[3] \in Markets
    BY OrderKeys
  <2>2. Holds(user_orders[k[2]][k[3]], k[4])
    BY <1>9, <2>1
  <2>3. pc[t] = "insert" /\ i = 1
    BY <2>2 DEF IndexInv, PendingOut
  <2> QED
    BY <1>0, <1>4, <2>3
<1>13. InsertIn'
  <2> SUFFICES ASSUME NEW t \in Threads, pc'[t] = "insert", NEW k, k = Head(write_set[t]).loc
               PROVE  Holds(user_orders'[k[2]][k[3]], k[4])
    BY <1>0 DEF InsertIn
  <2>1. pc[t] = "insert" /\ t # th
    BY <1>4
  <2>2. Holds(user_orders[k[2]][k[3]], k[4])
    BY <2>1 DEF IndexInv, InsertIn
  <2>3. NewAt(t, 1) /\ k = write_set[t][1].loc
    BY <2>1, HeadShape DEF ApplyPcs, NewAt, DexTypes, PlaceInv
  <2>4. k[2] \in Users /\ k[3] \in Markets /\ k[2] = user[t]
    BY <2>3, OrderKeys
  <2>5. user[t] # user[th]
    BY <1>0, <2>1 DEF DexTypes, PlaceInv
  <2> QED
    BY <1>7, <1>9, <2>2, <2>4, <2>5
<1>14. LiveIn'
  <2> SUFFICES ASSUME NEW k \in DOMAIN data, Live(k)
               PROVE  \/ Holds(user_orders'[k[2]][k[3]], k[4])
                      \/ \E t \in Threads : pc'[t] = "remove" /\ Head(write_set[t]).loc = k
    BY <1>0 DEF LiveIn, Live
  <2>1. k[2] \in Users /\ k[3] \in Markets /\ k = Order(k[2], k[3], k[4])
    BY OrderKeys
  <2>2. CASE Holds(user_orders[k[2]][k[3]], k[4]) /\ ~(k[2] = u /\ k[3] = mk /\ k[4] = id)
    BY <1>9, <2>1, <2>2
  <2>3. CASE k[2] = u /\ k[3] = mk /\ k[4] = id
    BY <1>4, <1>6, <1>7, <2>1, <2>3
  <2>4. CASE \E t \in Threads : pc[t] = "remove" /\ Head(write_set[t]).loc = k
    BY <1>0, <1>4, <2>4
  <2> QED
    BY <2>2, <2>3, <2>4 DEF IndexInv, LiveIn
<1> QED
  BY <1>10, <1>11, <1>12, <1>13, <1>14 DEF IndexInv

\* The order goes into the book, or out of it.
LEMMA IndexApplied ==
  ASSUME DexTypes, IdInv, IndexInv, NEW th \in Threads, InsertData(th) \/ RemoveData(th)
  PROVE  IndexInv'
<1> DEFINE w == Head(write_set[th])
           ws == write_set[th]
<1>0. /\ pc[th] \in ApplyPcs /\ Applied(th) /\ user_orders' = user_orders
      /\ \/ /\ data' = [l \in DOMAIN data \cup {w.loc} |-> IF l = w.loc THEN w.val ELSE data[l]]
            /\ pc[th] = "insert" \/ ~NewOrder(w)
         \/ data' = [l \in DOMAIN data \ {w.loc} |-> data[l]]
  BY DataTypes
<1>1. Others(th) /\ next_order_id' = next_order_id /\ write_set' = [write_set EXCEPT ![th] = Tail(ws)]
        /\ pc'[th] \in {"idle", "apply"}
  BY <1>0, AppliedShape DEF DexTypes, TypeInv
<1>2. write_set'[th] = Tail(ws)
  BY <1>1 DEF DexTypes, TypeInv
<1>3. /\ w = ws[1] /\ 1 \in DOMAIN ws
      /\ \A i \in DOMAIN Tail(ws) : i \in Nat /\ i + 1 \in DOMAIN ws /\ Tail(ws)[i] = ws[i + 1]
  BY <1>0, HeadShape
<1>4. \A i \in Nat : i \in DOMAIN write_set'[th] /\ NewOrder(write_set'[th][i]) =>
        i + 1 \in Nat /\ i + 1 # 1 /\ NewAt(th, i + 1) /\ write_set'[th][i] = write_set[th][i + 1]
  BY <1>2, <1>3 DEF NewAt
<1>5. IndexOnce' /\ IndexBelow'
  BY <1>0, <1>1 DEF IndexInv, IndexOnce, IndexBelow
<1>6. PendingOut'
  <2> SUFFICES ASSUME NEW t \in Threads, NEW i \in Nat,
                      i \in DOMAIN write_set'[t] /\ NewOrder(write_set'[t][i]),
                      NEW k, k = write_set'[t][i].loc, Holds(user_orders[k[2]][k[3]], k[4])
               PROVE  pc'[t] = "insert" /\ i = 1
    BY <1>0 DEF PendingOut, NewAt
  <2>1. CASE t = th
    <3> DEFINE n == i + 1
    <3>1. n \in Nat /\ n # 1 /\ NewAt(th, n) /\ k = write_set[th][n].loc
      BY <1>4, <2>1
    <3> HIDE DEF n
    <3> QED
      BY <3>1 DEF IndexInv, PendingOut
  <2>2. CASE t # th
    <3>1. NewAt(t, i) /\ k = write_set[t][i].loc /\ pc'[t] = pc[t]
      BY <1>1, <2>2 DEF Others, NewAt
    <3> QED
      BY <3>1 DEF IndexInv, PendingOut
  <2> QED
    BY <2>1, <2>2
<1>7. InsertIn'
  <2> SUFFICES ASSUME NEW t \in Threads, pc'[t] = "insert", NEW k, k = Head(write_set'[t]).loc
               PROVE  Holds(user_orders[k[2]][k[3]], k[4])
    BY <1>0 DEF InsertIn
  <2>1. t # th /\ pc[t] = "insert" /\ k = Head(write_set[t]).loc
    BY <1>1 DEF Others
  <2> QED
    BY <2>1 DEF IndexInv, InsertIn
<1>8. LiveIn'
  <2> SUFFICES ASSUME NEW k \in DOMAIN data', Live(k)'
               PROVE  \/ Holds(user_orders[k[2]][k[3]], k[4])
                      \/ \E t \in Threads : pc'[t] = "remove" /\ Head(write_set'[t]).loc = k
    BY <1>0 DEF LiveIn, Live
  <2>1. CASE k = w.loc
    <3>1. CASE pc[th] = "insert"
      BY <2>1, <3>1 DEF IndexInv, InsertIn
    <3>2. CASE pc[th] # "insert"
      BY <1>0, <2>1, <3>2 DEF Live, NewOrder, IsDeletion
    <3> QED
      BY <3>1, <3>2
  <2>2. CASE k # w.loc
    <3>1. k \in DOMAIN data /\ Live(k)
      BY <1>0, <2>2 DEF Live
    <3>2. CASE \E t \in Threads : pc[t] = "remove" /\ Head(write_set[t]).loc = k
      BY <1>1, <2>2, <3>2 DEF Others
    <3> QED
      BY <3>1, <3>2 DEF IndexInv, LiveIn
  <2> QED
    BY <2>1, <2>2
<1> QED
  BY <1>5, <1>6, <1>7, <1>8 DEF IndexInv

\* Every step keeps the index right.
LEMMA IndexStep ==
  ASSUME DexTypes, DexTypes', IdInv, IndexInv, NEW th \in Threads, Move(th)
  PROVE  IndexInv'
<1>0. next_order_id \in Nat /\ next_order_id' \in Nat /\ pc \in [Threads -> Pcs]
  BY DEF DexTypes, TypeInv
<1>1. ASSUME NEW u \in workload.users, NEW batch \in workload.batches, NEW nonce, Execute(th, u, batch, nonce)
      PROVE  IndexInv'
  <2>1. /\ Others(th) /\ UNCHANGED <<data, user_orders, next_order_id, write_set>>
        /\ pc[th] = "idle" /\ pc' = [pc EXCEPT ![th] = "operations"]
    BY <1>1, ExecuteTypes DEF Execute, storage, Goto
  <2>2. OneMore(th, 0)
    BY <2>1 DEF OneMore, NewAt
  <2> QED
    BY <1>0, <2>1, <2>2, IndexFrame
<1>2. ASSUME NEW u, NEW nonce, NonceMismatch(th, u, nonce) PROVE IndexInv'
  BY <1>2 DEF NonceMismatch, dexVars, storage, locals, history, IndexInv, IndexOnce, IndexBelow, PendingOut,
              InsertIn, LiveIn, NewAt, Live
<1>3. CASE Operate(th)
  <2>0. Others(th) /\ UNCHANGED <<data, user_orders>> /\ pc[th] = "operations"
    BY <1>3, OperateShape
  <2>1. CASE /\ next_order_id' = next_order_id /\ pc' = [pc EXCEPT ![th] = "idle"]
             /\ write_set' = [write_set EXCEPT ![th] = <<>>]
    <3>1. write_set'[th] = <<>> /\ pc'[th] = "idle"
      BY <1>0, <2>1 DEF DexTypes, TypeInv
    <3>2. OneMore(th, 0)
      BY <2>0, <3>1 DEF OneMore, NewAt, Others
    <3> QED
      BY <1>0, <2>0, <2>1, <3>1, <3>2, IndexFrame
  <2>2. CASE \E r : /\ OutcomeOK(user[th], Head(ops[th]), r) /\ pc' = pc
                    /\ next_order_id' = IF Head(ops[th]).op = "PlaceOrder" THEN next_order_id + 1
                                        ELSE next_order_id
                    /\ write_set' = [write_set EXCEPT ![th] = write_set[th] \o r.writes]
    <3>1. PICK n : OneMore(th, n)
      BY <2>0, <2>2, IdsAppended
    <3>2. next_order_id <= next_order_id' /\ pc'[th] = "operations"
      BY <1>0, <2>0, <2>2
    <3> QED
      BY <1>0, <2>0, <3>1, <3>2, IndexFrame
  <2>3. CASE \E r : Succeeds(th, r)
    BY <2>2, <2>3 DEF Succeeds
  <2> QED
    BY <1>3, <2>1, <2>3, OperateShape
<1>4. CASE UpdateNonce(th)
  <2>1. PICK w : w.loc[1] = "UserNonce" /\ write_set' = [write_set EXCEPT ![th] = Append(write_set[th], w)]
    BY <1>4, NonceTypes
  <2>2. /\ Others(th) /\ UNCHANGED <<data, user_orders, next_order_id>> /\ pc[th] = "operations"
        /\ pc'[th] = "apply"
    BY <1>0, <1>4, NonceTypes
  <2>3. write_set[th] \in Seq(Entries(user[th])) /\ write_set'[th] = Append(write_set[th], w)
    BY <2>1 DEF DexTypes, TypeInv
  <2>4. \A i \in DOMAIN Append(write_set[th], w) :
          \/ i \in DOMAIN write_set[th] /\ Append(write_set[th], w)[i] = write_set[th][i]
          \/ Append(write_set[th], w)[i] = w
    BY <2>3
  <2>5. ~NewOrder(w)
    BY <2>1 DEF NewOrder, IsOrder
  <2>6. OneMore(th, 0)
    BY <2>2, <2>3, <2>4, <2>5 DEF OneMore, NewAt, Others
  <2> QED
    BY <1>0, <2>2, <2>6, IndexFrame
<1>5. CASE AddOrderIndex(th)
  BY <1>5, IndexAdded
<1>6. CASE RemoveOrderIndex(th)
  BY <1>6, IndexRemoved
<1>7. CASE InsertData(th) \/ RemoveData(th)
  BY <1>7, IndexApplied
<1> QED
  BY <1>1, <1>2, <1>3, <1>4, <1>5, <1>6, <1>7 DEF Move

-----------------------------------------------------------------------------
(* Entry prices *)

\* Prices are numbers.
LEMMA PricesAreNumbers ==
  ASSUME TypeInv
  PROVE  FillPrices \subseteq Nat
<1>1. ASSUME NEW b \in workload.batches, NEW i \in DOMAIN b, b[i].op = "PlaceOrder"
      PROVE  FillPrice(b[i]) \in Nat
  <2>1. b \in Seq(Operations)
    BY WorkloadsAssumption DEF TypeInv
  <2>2. b[i] \in Operations
    BY <2>1
  <2> DEFINE o == b[i]
  <2>3. o \in Operations /\ o.op = "PlaceOrder"
    BY <1>1, <2>2
  <2> HIDE DEF o
  <2>4. FillPrice(o) \in Nat
    BY <2>3, OperationShape, MarketsAssumption DEF FillPrice, ReadMarket, U256
  <2> QED
    BY <2>4 DEF o
<1> QED
  BY <1>1 DEF FillPrices

\* The average of two prices is below one of the prices of the fills.
LEMMA AverageUnder ==
  ASSUME NEW F \in SUBSET Nat, NEW pos \in Positions, NEW delta \in Int \ {0}, NEW price \in F,
         pos.size + delta \in I128, Under(pos.entry, F)
  PROVE  Under(EntryPrice(pos, delta, price), F)
<1>1. PICK p \in F : pos.entry <= p
  BY DEF Under
<1>2. p \in Nat /\ price \in Nat /\ pos.entry \in Nat
  BY DEF Positions
<1>3. EntryPrice(pos, delta, price) \in Nat
        /\ \A M \in Nat : pos.entry <= M /\ price <= M => EntryPrice(pos, delta, price) <= M
  BY <1>2, EntryPriceIs
<1>4. CASE price <= p
  <2>1. EntryPrice(pos, delta, price) <= p
    BY <1>1, <1>2, <1>3, <1>4
  <2> QED
    BY <2>1 DEF Under
<1>5. CASE ~(price <= p)
  <2>1. pos.entry <= price /\ price <= price
    BY <1>1, <1>2, <1>5
  <2>2. EntryPrice(pos, delta, price) <= price
    BY <1>2, <1>3, <2>1
  <2> QED
    BY <2>2 DEF Under
<1> QED
  BY <1>4, <1>5

\* The position that the executor reads has such a price.
LEMMA StoredUnder ==
  ASSUME PriceInv, NEW u \in Users, NEW m \in Markets, PositionOf(u, m) # NoPosition,
         <<u, m>> \notin overflowed
  PROVE  Under(PositionOf(u, m).entry, FillPrices)
<1> DEFINE l == Position(u, m)
<1>1. Fits(l, overflowed)
  BY DEF Position, Fits
<1>2. PositionOf(u, m) = Get(l, NoPosition)
  BY DEF PositionOf
<1> HIDE DEF l
<1>3. l \in DOMAIN data /\ PositionOf(u, m) = data[l]
  BY <1>2 DEF Get
<1> QED
  BY <1>1, <1>3 DEF PriceInv

\* An operation writes such prices only.
LEMMA OperationUnder ==
  ASSUME TypeInv, PriceInv, NEW u \in Users, NEW o \in Operations,
         o.op = "PlaceOrder" => FillPrice(o) \in FillPrices,
         NEW r, r = ExecuteOperation(u, o), r.ok,
         NEW i \in DOMAIN r.writes, r.writes[i].loc[1] = "Position",
         ~r.overflow, <<u, o.market>> \notin overflowed
  PROVE  Under(r.writes[i].val.entry, FillPrices)
<1>1. o.market \in Markets
  BY OperationOutcome DEF OutcomeOK
<1> DEFINE pos == PositionOf(u, o.market)
<1>2. pos # NoPosition => pos \in Positions /\ Under(pos.entry, FillPrices)
  BY <1>1, StoredShape, StoredUnder
<1>3. CASE o.op = "AdjustMargin"
  <2>1. r = ExecuteAdjustMargin(u, o)
    BY <1>3 DEF ExecuteOperation
  <2>2. pos # NoPosition /\ r.writes[i].val.entry = pos.entry
    BY <1>3, <2>1, AdjustOutcome
  <2> QED
    BY <1>2, <2>2
<1>4. CASE o.op = "PlaceOrder"
  <2>1. r = ExecutePlaceOrder(u, o)
    BY <1>4 DEF ExecuteOperation
  <2>2. /\ ValidLeverage(o.leverage) /\ o.size # 0 /\ ~TooLarge(pos, o.side, o.size)
        /\ r.writes[i].val = UpdatePosition(pos, o.side, o.size, FillPrice(o), o.leverage)
    BY <1>4, <2>1, PlaceOutcome
  <2>3. /\ o.leverage \in Nat /\ o.size \in Nat
        /\ FillPrice(o) \in FillPrices /\ FillPrices \subseteq Nat
    BY <1>4, OperationShape, PricesAreNumbers
  <2> DEFINE F == FillPrices
  <2>4. ASSUME NEW q, q = pos, NEW side, side = o.side, NEW n, n = o.size, NEW v, v = o.leverage,
               NEW p, p = FillPrice(o)
        PROVE  Under(r.writes[i].val.entry, F)
    <3>1. /\ F \in SUBSET Nat /\ p \in F /\ v \in Nat /\ ValidLeverage(v) /\ n \in Nat \ {0}
          /\ q # NoPosition => q \in Positions /\ Under(q.entry, F)
          /\ r.writes[i].val = UpdatePosition(q, side, n, p, v) /\ ~TooLarge(q, side, n)
      BY <1>2, <2>2, <2>3, <2>4
    <3> HIDE DEF F, pos
    <3>2. p \in Nat
      BY <3>1
    <3>3. CASE q = NoPosition
      <4>1. ASSUME NEW new, new = UpdatePosition(NoPosition, side, n, p, v)
            PROVE  new.entry = p
        BY ONLY <4>1 DEF UpdatePosition
      <4>2. r.writes[i].val.entry = p
        BY <3>1, <3>3, <4>1
      <4> QED
        BY <3>1, <3>2, <4>2 DEF Under
    <3>4. CASE q # NoPosition
      <4> DEFINE d == SizeDelta(side, n)
      <4>1. UpdatePosition(q, side, n, p, v).entry = EntryPrice(q, d, p)
        BY <3>1, <3>2, <3>4, NextPosition
      <4>2. ~(n > I128Max) /\ q.size + d \in I128
        BY <3>1, <3>4 DEF TooLarge
      <4>3. d \in Int \ {0}
        BY <3>1, <4>2, DeltaIs
      <4> HIDE DEF d
      <4> QED
        BY <3>1, <3>4, <4>1, <4>2, <4>3, AverageUnder
    <3> QED
      BY <3>3, <3>4
  <2> QED
    BY <2>4
<1>5. o.op = "PlaceOrder" \/ o.op = "AdjustMargin"
  <2>1. CASE o.op \in {"CancelOrder", "CancelAll"}
    <3>1. r.market \notin Markets
      BY <2>1, MarketsAssumption DEF ExecuteOperation, ExecuteCancelOrder, ExecuteCancelAll, Done
    <3> QED
      BY <3>1, OperationOutcome DEF OutcomeOK
  <2>2. CASE o.op = "SetLeverage"
    <3>1. r.market \notin Markets
      BY <2>2, MarketsAssumption DEF ExecuteOperation, ExecuteSetLeverage, Done, Failed
    <3> QED
      BY <3>1, OperationOutcome DEF OutcomeOK
  <2> QED
    BY <2>1, <2>2, OperationShape
<1> QED
  BY <1>3, <1>4, <1>5

\* A thread writes such prices only, and the others have not moved.
LEMMA PriceFrame ==
  ASSUME PriceInv, NEW th \in Threads, Others(th), overflowed \subseteq overflowed',
         \A l \in DOMAIN data' : Fits(l, overflowed') => Under(data'[l].entry, FillPrices),
         \A i \in DOMAIN write_set'[th] : Fits(write_set'[th][i].loc, overflowed') =>
           Under(write_set'[th][i].val.entry, FillPrices)
  PROVE  PriceInv'
<1>1. FillPrices' = FillPrices
  BY DEF FillPrices, Others
<1> DEFINE F == FillPrices
<1>2. \A l \in DOMAIN data' : Fits(l, overflowed') => Under(data'[l].entry, F)
  OBVIOUS
<1>3. ASSUME NEW t \in Threads, NEW i \in DOMAIN write_set'[t], Fits(write_set'[t][i].loc, overflowed')
      PROVE  Under(write_set'[t][i].val.entry, F)
  <2>1. CASE t = th
    BY <1>3, <2>1
  <2>2. CASE t # th
    <3>1. write_set'[t] = write_set[t]
      BY <2>2 DEF Others
    <3>2. Fits(write_set[t][i].loc, overflowed)
      BY <1>3, <3>1 DEF Fits
    <3> QED
      BY <1>3, <3>1, <3>2 DEF PriceInv
  <2> QED
    BY <2>1, <2>2
<1> QED
  BY <1>1, <1>2, <1>3 DEF PriceInv, Fits

\* Every step keeps the prices below the highest one.
LEMMA PriceStep ==
  ASSUME DexTypes, PriceInv, NEW th \in Threads, Move(th)
  PROVE  PriceInv'
<1>1. ASSUME NEW u \in workload.users, NEW batch \in workload.batches, NEW nonce, Execute(th, u, batch, nonce)
      PROVE  PriceInv'
  <2>1. Others(th) /\ UNCHANGED <<data, write_set, overflowed>>
    BY <1>1, ExecuteTypes DEF Execute, storage, history
  <2> QED
    BY <2>1, PriceFrame DEF PriceInv
<1>2. ASSUME NEW u, NEW nonce, NonceMismatch(th, u, nonce) PROVE PriceInv'
  BY <1>2 DEF NonceMismatch, dexVars, storage, locals, history, PriceInv, FillPrices, Fits
<1>3. CASE Operate(th)
  <2>0. /\ Others(th) /\ data' = data /\ ops[th] # <<>> /\ Head(ops[th]) \in Operations
    BY <1>3, OperateShape
  <2>1. CASE write_set' = [write_set EXCEPT ![th] = <<>>] /\ overflowed' = overflowed
    <3>1. write_set'[th] = <<>>
      BY <2>1 DEF DexTypes, TypeInv
    <3>2. \A l \in DOMAIN data' : Fits(l, overflowed') => Under(data'[l].entry, FillPrices)
      BY <2>0, <2>1 DEF PriceInv
    <3> QED
      BY <2>0, <2>1, <3>1, <3>2, PriceFrame
  <2>2. ASSUME NEW r, Succeeds(th, r) PROVE PriceInv'
    <3>0. /\ r = ExecuteOperation(user[th], Head(ops[th])) /\ r.ok
          /\ OutcomeOK(user[th], Head(ops[th]), r)
          /\ write_set' = [write_set EXCEPT ![th] = write_set[th] \o r.writes]
          /\ overflowed' = IF r.overflow THEN overflowed \cup {<<user[th], r.market>>} ELSE overflowed
      BY <2>2 DEF Succeeds
    <3>1. /\ user[th] \in Users /\ TypeInv /\ ops[th] \in Seq(Operations)
          /\ write_set[th] \in Seq(Entries(user[th])) /\ write_set'[th] = write_set[th] \o r.writes
          /\ r.writes \in Seq(Entries(user[th]))
      BY <3>0 DEF DexTypes, TypeInv, OutcomeOK
    <3>2. Head(ops[th]) = ops[th][1] /\ 1 \in DOMAIN ops[th]
      BY <2>0, <3>1, HeadAndTail
    <3>3. PICK b \in workload.batches : \E j \in DOMAIN b : Head(ops[th]) = b[j]
      BY <3>2 DEF DexTypes, PlaceInv
    <3> DEFINE o == Head(ops[th])
               u == user[th]
    <3>4. o.op = "PlaceOrder" => FillPrice(o) \in FillPrices
      BY <3>3 DEF FillPrices
    <3>5. ASSUME NEW i \in DOMAIN r.writes, Fits(r.writes[i].loc, overflowed')
          PROVE  Under(r.writes[i].val.entry, FillPrices)
      <4>0. /\ r.writes[i].loc[1] = "Position" /\ ~r.overflow /\ <<u, o.market>> \notin overflowed
        <5>1. /\ r.writes[i].loc[1] = "Position" /\ <<r.writes[i].loc[2], r.writes[i].loc[3]>> \notin overflowed'
          BY <3>5 DEF Fits
        <5>2. r.writes[i].loc = Position(u, r.market) /\ r.market = o.market /\ r.overflow \in BOOLEAN
          BY <3>0, <5>1 DEF OutcomeOK
        <5>3. <<u, r.market>> \notin overflowed'
          BY <5>1, <5>2 DEF Position
        <5> QED
          BY <3>0, <5>1, <5>2, <5>3
      <4>1. u \in Users /\ o \in Operations /\ r = ExecuteOperation(u, o)
        BY <2>0, <3>0, <3>1
      <4> HIDE DEF o, u
      <4> QED
        BY <3>0, <3>1, <3>4, <4>0, <4>1, OperationUnder
    <3>6. \A i \in DOMAIN write_set'[th] :
            \/ i \in DOMAIN write_set[th] /\ write_set'[th][i] = write_set[th][i]
            \/ \E j \in DOMAIN r.writes : write_set'[th][i] = r.writes[j]
      <4> DEFINE S == Entries(user[th])
                 s == write_set[th]
                 q == r.writes
      <4>1. s \in Seq(S) /\ q \in Seq(S) /\ write_set'[th] = s \o q
        BY <3>1
      <4> HIDE DEF S, s, q
      <4>2. \A i \in DOMAIN (s \o q) : \/ i \in DOMAIN s /\ (s \o q)[i] = s[i]
                                       \/ \E j \in DOMAIN q : (s \o q)[i] = q[j]
        BY <4>1, Concatenated, SMTT(60)
      <4> QED
        BY <4>1, <4>2 DEF s, q
    <3>7. overflowed \subseteq overflowed' /\ \A l : Fits(l, overflowed') => Fits(l, overflowed)
      BY <3>0 DEF Fits
    <3>8. \A i \in DOMAIN write_set'[th] : Fits(write_set'[th][i].loc, overflowed') =>
            Under(write_set'[th][i].val.entry, FillPrices)
      BY <3>5, <3>6, <3>7 DEF PriceInv
    <3>9. \A l \in DOMAIN data' : Fits(l, overflowed') => Under(data'[l].entry, FillPrices)
      BY <2>0, <3>7 DEF PriceInv
    <3> QED
      BY <2>0, <3>7, <3>8, <3>9, PriceFrame
  <2> QED
    BY <1>3, <2>1, <2>2, OperateShape
<1>4. CASE UpdateNonce(th)
  <2>1. PICK w : w.loc[1] = "UserNonce" /\ write_set' = [write_set EXCEPT ![th] = Append(write_set[th], w)]
    BY <1>4, NonceTypes
  <2>2. Others(th) /\ data' = data /\ overflowed' = overflowed
    BY <1>4, NonceTypes
  <2>3. write_set[th] \in Seq(Entries(user[th])) /\ write_set'[th] = Append(write_set[th], w)
    BY <2>1 DEF DexTypes, TypeInv
  <2>4. \A i \in DOMAIN Append(write_set[th], w) :
          \/ i \in DOMAIN write_set[th] /\ Append(write_set[th], w)[i] = write_set[th][i]
          \/ Append(write_set[th], w)[i] = w
    BY <2>3
  <2>5. \A i \in DOMAIN write_set'[th] : Fits(write_set'[th][i].loc, overflowed') =>
          Under(write_set'[th][i].val.entry, FillPrices)
    BY <2>1, <2>2, <2>3, <2>4 DEF PriceInv, Fits
  <2> QED
    BY <2>2, <2>5, PriceFrame DEF PriceInv
<1>5. CASE AddOrderIndex(th) \/ RemoveOrderIndex(th)
  <2>1. Others(th) /\ UNCHANGED <<data, write_set, overflowed>>
    BY <1>5, IndexTypes
  <2> QED
    BY <2>1, PriceFrame DEF PriceInv
<1>6. CASE InsertData(th) \/ RemoveData(th)
  <2> DEFINE w == Head(write_set[th])
             ws == write_set[th]
  <2>0. /\ pc[th] \in ApplyPcs /\ Applied(th)
        /\ \/ data' = [l \in DOMAIN data \cup {w.loc} |-> IF l = w.loc THEN w.val ELSE data[l]]
           \/ data' = [l \in DOMAIN data \ {w.loc} |-> data[l]]
    BY <1>6, DataTypes
  <2>1. Others(th) /\ write_set' = [write_set EXCEPT ![th] = Tail(ws)] /\ overflowed' = overflowed
    BY <2>0, AppliedShape
  <2>2. write_set'[th] = Tail(ws)
    BY <2>1 DEF DexTypes, TypeInv
  <2>3. /\ w = ws[1] /\ 1 \in DOMAIN ws
        /\ \A i \in DOMAIN Tail(ws) : i \in Nat /\ i + 1 \in DOMAIN ws /\ Tail(ws)[i] = ws[i + 1]
    BY <2>0, HeadShape
  <2>4. \A i \in DOMAIN write_set'[th] : Fits(write_set'[th][i].loc, overflowed') =>
          Under(write_set'[th][i].val.entry, FillPrices)
    BY <2>1, <2>2, <2>3 DEF PriceInv
  <2>5. Fits(w.loc, overflowed) => Under(w.val.entry, FillPrices)
    BY <2>3 DEF PriceInv
  <2>6. \A l \in DOMAIN data' : Fits(l, overflowed') => Under(data'[l].entry, FillPrices)
    BY <2>0, <2>1, <2>5 DEF PriceInv
  <2> QED
    BY <2>1, <2>4, <2>6, PriceFrame
<1> QED
  BY <1>1, <1>2, <1>3, <1>4, <1>5, <1>6 DEF Move

-----------------------------------------------------------------------------
(* Positions and fills *)

\* The size that the executor reads.
LEMMA SizeIsStored == \A u \in Users, m \in Markets : SizeOf(u, m) = SizeIn(data, u, m)
  BY DEF SizeOf, SizeIn, PositionOf, Get

\* Writes of an operation are appended: a write of the position says what the
\* new fill is.
LEMMA FillAppended ==
  ASSUME NEW S, NEW ws \in Seq(S), NEW q \in Seq(S), NEW u, NEW m,
         NEW size \in Int, NEW before \in Int, NEW fill \in Int, NEW new \in Int,
         FillOK("operations", ws, u, m, size, before, fill),
         \A i \in DOMAIN q : q[i].loc = Position(u, m) => q[i].val.size = size + new,
         (\A i \in DOMAIN q : q[i].loc # Position(u, m)) => new = fill
  PROVE  FillOK("operations", ws \o q, u, m, size, before, new)
<1>c. /\ Len(ws) \in Nat
      /\ \A i \in DOMAIN (ws \o q) : /\ i \in Nat
                                      /\ \/ i \in DOMAIN ws /\ i <= Len(ws) /\ (ws \o q)[i] = ws[i]
                                         \/ i - Len(ws) \in DOMAIN q /\ (ws \o q)[i] = q[i - Len(ws)]
      /\ \A i \in DOMAIN ws : /\ i \in Nat /\ i <= Len(ws)
                              /\ i \in DOMAIN (ws \o q) /\ (ws \o q)[i] = ws[i]
      /\ \A i \in DOMAIN q : /\ i \in Nat /\ Len(ws) < Len(ws) + i
                             /\ Len(ws) + i \in DOMAIN (ws \o q) /\ (ws \o q)[Len(ws) + i] = q[i]
  BY Concatenated, SMTT(60)
<1> DEFINE c == ws \o q
           L == Len(ws)
           l == Position(u, m)
<1>0. /\ L \in Nat
      /\ \A i \in DOMAIN c : i \in Nat /\ (\/ i \in DOMAIN ws /\ i <= L /\ c[i] = ws[i]
                                           \/ i - L \in DOMAIN q /\ c[i] = q[i - L])
      /\ \A i \in DOMAIN ws : i \in Nat /\ i <= L /\ i \in DOMAIN c /\ c[i] = ws[i]
      /\ \A i \in DOMAIN q : i \in Nat /\ L < L + i /\ L + i \in DOMAIN c /\ c[L + i] = q[i]
  BY <1>c, Zenon
<1>1. size = before /\ (NoneAt(ws, u, m) => fill = 0)
        /\ \A i \in Nat : LastAt(ws, u, m, i) => ws[i].val.size = before + fill
  BY DEF FillOK
<1> HIDE DEF c, L
<1>2. ASSUME NEW i \in Nat, LastAt(c, u, m, i) PROVE c[i].val.size = before + new
  <2>1. i \in DOMAIN c /\ c[i].loc = l /\ \A j \in DOMAIN c : j > i => c[j].loc # l
    BY <1>2 DEF LastAt
  <2> HIDE DEF l
  <2>2. CASE i - L \in DOMAIN q /\ c[i] = q[i - L]
    <3>1. c[i].val.size = size + new
      BY <2>1, <2>2 DEF l
    <3> QED
      BY <1>1, <3>1
  <2>3. CASE i \in DOMAIN ws /\ i <= L /\ c[i] = ws[i]
    <3>1. ASSUME NEW j \in DOMAIN q PROVE q[j].loc # l
      <4> DEFINE k == L + j
      <4>1. j \in Nat /\ L < k /\ k \in DOMAIN c /\ c[k] = q[j]
        BY <1>0
      <4>2. k > i
        BY <1>0, <2>3, <4>1
      <4> HIDE DEF k
      <4> QED
        BY <2>1, <4>1, <4>2
    <3>2. new = fill
      BY <3>1 DEF l
    <3>3. LastAt(ws, u, m, i)
      BY <1>0, <2>1, <2>3 DEF LastAt, l
    <3>4. ws[i].val.size = before + fill
      BY <1>1, <3>3
    <3> QED
      BY <2>3, <3>2, <3>4
  <2> QED
    BY <1>0, <2>1, <2>2, <2>3
<1>3. ASSUME NoneAt(c, u, m) PROVE new = 0
  <2>1. NoneAt(ws, u, m)
    BY <1>0, <1>3 DEF NoneAt
  <2>2. \A i \in DOMAIN q : q[i].loc # l
    BY <1>0, <1>3 DEF NoneAt
  <2> QED
    BY <1>1, <2>1, <2>2 DEF l
<1> QED
  BY <1>1, <1>2, <1>3 DEF FillOK, c

\* The nonce is appended.
LEMMA FillNonce ==
  ASSUME NEW S, NEW ws \in Seq(S), NEW w \in S, w.loc[1] = "UserNonce", NEW u, NEW m,
         NEW size \in Int, NEW before \in Int, NEW fill \in Int,
         FillOK("operations", ws, u, m, size, before, fill)
  PROVE  FillOK("apply", Append(ws, w), u, m, size, before, fill)
<1> DEFINE c == Append(ws, w)
           l == Position(u, m)
<1>1. size = before /\ (NoneAt(ws, u, m) => fill = 0)
        /\ \A i \in Nat : LastAt(ws, u, m, i) => ws[i].val.size = before + fill
  BY DEF FillOK
<1>2. \A i \in DOMAIN ws : i \in DOMAIN c /\ c[i] = ws[i]
  OBVIOUS
<1>3. \A i \in DOMAIN c : (i \in DOMAIN ws /\ c[i] = ws[i]) \/ c[i] = w
  OBVIOUS
<1>4. w.loc # l
  BY DEF Position
<1> HIDE DEF c, l
<1>5. ASSUME NEW i \in Nat, LastAt(c, u, m, i) PROVE c[i].val.size = before + fill
  <2>1. i \in DOMAIN c /\ c[i].loc = l /\ \A j \in DOMAIN c : j > i => c[j].loc # l
    BY <1>5 DEF LastAt, l
  <2>2. i \in DOMAIN ws /\ c[i] = ws[i]
    BY <1>3, <1>4, <2>1
  <2>3. LastAt(ws, u, m, i)
    BY <1>2, <2>1, <2>2 DEF LastAt, l
  <2> QED
    BY <1>1, <2>2, <2>3
<1>6. ASSUME NoneAt(c, u, m) PROVE size = before + fill
  <2>1. NoneAt(ws, u, m)
    BY <1>2, <1>6 DEF NoneAt
  <2>2. fill = 0
    BY <1>1, <2>1
  <2> QED
    BY <1>1, <2>2
<1> QED
  BY <1>5, <1>6 DEF FillOK, c

\* A write set of which the first write is about to be applied, with the size
\* of the position before and after.
Applicable(S, ws, u, m, place, size, before, fill, new) ==
  /\ ws \in Seq(S) /\ ws # <<>> /\ place \in ApplyPcs
  /\ size \in Int /\ before \in Int /\ fill \in Int
  /\ FillOK(place, ws, u, m, size, before, fill)
  /\ new = IF Head(ws).loc = Position(u, m) THEN Head(ws).val.size ELSE size

\* The first write is applied, and now has the position the size that it says.
LEMMA FillApplied ==
  ASSUME NEW S, NEW ws, NEW u, NEW m, NEW place, NEW size, NEW before, NEW fill, NEW new,
         Applicable(S, ws, u, m, place, size, before, fill, new)
  PROVE  /\ FillOK("apply", Tail(ws), u, m, new, before, fill)
         /\ Tail(ws) = <<>> => new = before + fill
<1> USE DEF Applicable
<1> DEFINE c == Tail(ws)
           l == Position(u, m)
<1>0. /\ Head(ws) = ws[1] /\ 1 \in DOMAIN ws /\ DOMAIN ws = 1 .. Len(ws) /\ Len(ws) \in Nat \ {0}
      /\ DOMAIN c = 1 .. Len(ws) - 1
      /\ \A i \in DOMAIN c : i \in Nat /\ i + 1 \in DOMAIN ws /\ c[i] = ws[i + 1]
  BY HeadAndTail
<1>1. /\ NoneAt(ws, u, m) => size = before + fill
      /\ \A i \in Nat : LastAt(ws, u, m, i) => ws[i].val.size = before + fill
  BY DEF FillOK, ApplyPcs
<1> HIDE DEF c
<1>2. \A i \in DOMAIN ws : i = 1 \/ (i - 1 \in DOMAIN c /\ ws[i] = c[i - 1] /\ i \in Nat)
  <2> SUFFICES ASSUME NEW i \in DOMAIN ws, i # 1 PROVE i - 1 \in DOMAIN c /\ ws[i] = c[i - 1] /\ i \in Nat
    OBVIOUS
  <2> DEFINE k == i - 1
  <2>1. k \in DOMAIN c /\ k + 1 = i /\ i \in Nat
    BY <1>0
  <2> HIDE DEF k
  <2>2. ws[i] = c[k]
    BY <1>0, <2>1
  <2> QED
    BY <2>1, <2>2 DEF k
<1>3. ASSUME NEW i \in Nat, LastAt(c, u, m, i) PROVE c[i].val.size = before + fill
  <2>1. i \in DOMAIN c /\ c[i].loc = l /\ \A j \in DOMAIN c : j > i => c[j].loc # l
    BY <1>3 DEF LastAt
  <2> DEFINE n == i + 1
  <2>2. n \in DOMAIN ws /\ c[i] = ws[n] /\ n \in Nat
    BY <1>0, <2>1
  <2>3. ASSUME NEW j \in DOMAIN ws, j > n PROVE ws[j].loc # l
    <3> DEFINE k == j - 1
    <3>1. j # 1 /\ k > i
      BY <1>0, <2>3
    <3>2. k \in DOMAIN c /\ ws[j] = c[k]
      BY <1>2, <3>1
    <3> HIDE DEF k, l
    <3> QED
      BY <2>1, <3>1, <3>2
  <2> HIDE DEF n
  <2>4. LastAt(ws, u, m, n)
    BY <2>1, <2>2, <2>3 DEF LastAt
  <2> QED
    BY <1>1, <2>2, <2>4
<1>4. ASSUME NoneAt(c, u, m) PROVE new = before + fill
  <2>1. \A i \in DOMAIN ws : i = 1 \/ ws[i].loc # l
    BY <1>2, <1>4 DEF NoneAt
  <2> HIDE DEF l
  <2>2. CASE Head(ws).loc = l
    <3>1. \A j \in DOMAIN ws : j > 1 => j # 1
      BY <1>0
    <3>2. LastAt(ws, u, m, 1)
      BY <1>0, <2>1, <2>2, <3>1 DEF LastAt, l
    <3> QED
      BY <1>0, <1>1, <2>2, <3>2 DEF l
  <2>3. CASE Head(ws).loc # l
    <3>1. NoneAt(ws, u, m)
      BY <1>0, <2>1, <2>3 DEF NoneAt, l
    <3> QED
      BY <1>1, <2>3, <3>1 DEF l
  <2> QED
    BY <2>2, <2>3
<1>5. c = <<>> => NoneAt(c, u, m)
  BY DEF NoneAt
<1> QED
  BY <1>3, <1>4, <1>5 DEF FillOK, c

\* Sizes are numbers.
LEMMA SizesAreNumbers ==
  ASSUME TypeInv
  PROVE  \A u \in Users, m \in Markets : SizeIn(data, u, m) \in Int /\ reported[u][m] \in Int
<1>1. \A u \in Users, m \in Markets : SizeIn(data, u, m) \in Int
  BY StoredShape, SizeIsStored
<1> QED
  BY <1>1 DEF TypeInv

\* The positions and fills of a thread.
ThreadOK(th) ==
  \A m \in Markets : <<user[th], m>> \notin overflowed =>
    FillOK(pc[th], write_set[th], user[th], m, SizeIn(data, user[th], m), reported[user[th]][m],
           filled[th][m])

\* A step that leaves the storage and the reports alone: it suffices to look at
\* the thread that moves.
LEMMA FillFrame ==
  ASSUME FillInv, NEW th \in Threads, Others(th), UNCHANGED <<data, reported>>,
         overflowed \subseteq overflowed', ThreadOK(th)',
         \A u \in Users, m \in Markets :
           <<u, m>> \notin overflowed /\ (\A t \in Threads : pc'[t] # "idle" => user'[t] # u)
             => SizeIn(data, u, m) = reported[u][m]
  PROVE  FillInv'
<1>1. ASSUME NEW t \in Threads, NEW m \in Markets, <<user'[t], m>> \notin overflowed'
      PROVE  FillOK(pc'[t], write_set'[t], user'[t], m, SizeIn(data', user'[t], m),
                    reported'[user'[t]][m], filled'[t][m])
  <2>1. CASE t = th
    BY <1>1, <2>1 DEF ThreadOK
  <2>2. CASE t # th
    BY <1>1, <2>2 DEF FillInv, Others
  <2> QED
    BY <2>1, <2>2
<1> QED
  BY <1>1 DEF FillInv

\* A thread starts a transaction.
LEMMA FillExecuted ==
  ASSUME DexTypes, FillInv, NEW th \in Threads, NEW u \in workload.users, NEW batch \in workload.batches,
         NEW nonce, Execute(th, u, batch, nonce)
  PROVE  FillInv'
<1>1. /\ Others(th) /\ UNCHANGED <<data, reported, overflowed, write_set, filled>> /\ pc[th] = "idle"
      /\ user'[th] = u /\ pc'[th] = "operations" /\ u \in Users
      /\ \A o \in Threads : pc[o] # "idle" => user[o] # u
  BY ExecuteTypes, WorkloadsAssumption DEF Execute, storage, history, Goto, DexTypes, TypeInv
<1>2. write_set'[th] = <<>> /\ filled'[th] = [m \in Markets |-> 0]
  BY <1>1 DEF DexTypes, PlaceInv
<1>3. \A m \in Markets : <<u, m>> \notin overflowed => SizeIn(data, u, m) = reported[u][m]
  BY <1>1 DEF FillInv
<1>4. ThreadOK(th)'
  <2> SUFFICES ASSUME NEW m \in Markets, <<u, m>> \notin overflowed
               PROVE  FillOK("operations", <<>>, u, m, SizeIn(data, u, m), reported[u][m], 0)
    BY <1>1, <1>2 DEF ThreadOK
  <2> QED
    BY <1>3 DEF FillOK, LastAt
<1>5. ASSUME NEW v \in Users, NEW m \in Markets, <<v, m>> \notin overflowed,
             \A t \in Threads : pc'[t] # "idle" => user'[t] # v
      PROVE  SizeIn(data, v, m) = reported[v][m]
  <2>1. \A t \in Threads : pc[t] # "idle" => user[t] # v
    BY <1>1, <1>5 DEF Others
  <2> QED
    BY <1>5, <2>1 DEF FillInv
<1> QED
  BY <1>1, <1>4, <1>5, FillFrame

\* An operation succeeds.
LEMMA FillOperated ==
  ASSUME DexTypes, FillInv, NEW th \in Threads, Others(th), UNCHANGED <<data, user, reported>>,
         pc[th] = "operations", NEW o, NEW u, u = user[th],
         NEW r, OutcomeOK(u, o, r), pc' = pc,
         write_set' = [write_set EXCEPT ![th] = write_set[th] \o r.writes],
         filled' = [filled EXCEPT ![th] =
                     [m \in Markets |-> IF m = r.market THEN r.filled ELSE filled[th][m]]],
         overflowed' = IF r.overflow THEN overflowed \cup {<<user[th], r.market>>} ELSE overflowed
  PROVE  FillInv'
<1> DEFINE ws == write_set[th]
           fills == filled[th]
           new(m) == IF m = r.market THEN r.filled ELSE fills[m]
<1>1. /\ ws \in Seq(Entries(u)) /\ r.writes \in Seq(Entries(u)) /\ write_set'[th] = ws \o r.writes
      /\ r.filled \in Int /\ r.overflow \in BOOLEAN /\ u \in Users /\ fills \in [Markets -> Int]
      /\ filled \in [Threads -> [Markets -> Int]]
  BY DEF DexTypes, TypeInv, OutcomeOK
<1>2. \A m \in Markets : filled'[th][m] = new(m) /\ new(m) \in Int /\ fills[m] \in Int
  <2> DEFINE F == [m \in Markets |-> IF m = r.market THEN r.filled ELSE filled[th][m]]
  <2>1. F \in [Markets -> Int] /\ filled' = [filled EXCEPT ![th] = F] /\ \A m \in Markets : F[m] = new(m)
    BY <1>1
  <2> HIDE DEF F, new, fills
  <2>2. filled'[th] = F
    BY <1>1, <2>1
  <2> QED
    BY <1>1, <2>1, <2>2
<1>3. overflowed \subseteq overflowed'
  OBVIOUS
<1> HIDE DEF new, ws, fills
<1>4. ThreadOK(th)'
  <2> SUFFICES ASSUME NEW m \in Markets, <<u, m>> \notin overflowed'
               PROVE  FillOK("operations", ws \o r.writes, u, m, SizeIn(data, u, m), reported[u][m], new(m))
    BY <1>1, <1>2 DEF ThreadOK
  <2> DEFINE size == SizeIn(data, u, m)
             before == reported[u][m]
             fill == fills[m]
             q == r.writes
             S == Entries(u)
             e == new(m)
  <2>0. <<u, m>> \notin overflowed /\ (m = r.market => ~r.overflow)
    BY <1>1
  <2>1. size \in Int /\ before \in Int /\ fill \in Int /\ ws \in Seq(S) /\ q \in Seq(S) /\ e \in Int
    BY <1>1, <1>2, SizesAreNumbers DEF DexTypes
  <2>2. FillOK("operations", ws, u, m, size, before, fill)
    BY <2>0 DEF FillInv, ws, fills
  <2>3. ASSUME NEW i \in DOMAIN q, q[i].loc = Position(u, m) PROVE q[i].val.size = size + e
    <3>1. q[i].loc[1] = "Position"
      BY <2>3 DEF Position
    <3>2. /\ r.market \in Markets /\ q[i].loc = Position(u, r.market)
          /\ ~r.overflow => q[i].val.size = SizeOf(u, r.market) + r.filled
      BY <3>1 DEF OutcomeOK
    <3>3. r.market = m
      BY <2>3, <3>2 DEF Position
    <3>4. SizeOf(u, r.market) = size
      BY <1>1, <3>3, SizeIsStored
    <3>5. r.filled = e
      BY <3>3 DEF new
    <3> QED
      BY <2>0, <3>2, <3>3, <3>4, <3>5
  <2>4. ASSUME \A i \in DOMAIN q : q[i].loc # Position(u, m) PROVE e = fill
    <3>1. r.market # m
      BY <2>4 DEF OutcomeOK
    <3> QED
      BY <3>1 DEF new
  <2> HIDE DEF size, before, fill, q, S, e
  <2>5. FillOK("operations", ws \o q, u, m, size, before, e)
    BY <2>1, <2>2, <2>3, <2>4, FillAppended
  <2> QED
    BY <2>5 DEF size, before, q, e
<1>5. \A v \in Users, m \in Markets :
        <<v, m>> \notin overflowed /\ (\A t \in Threads : pc'[t] # "idle" => user'[t] # v)
          => SizeIn(data, v, m) = reported[v][m]
  BY DEF FillInv
<1> QED
  BY <1>3, <1>4, <1>5, FillFrame

\* An operation fails: nothing was written, and nothing is reported.
LEMMA FillFailed ==
  ASSUME DexTypes, FillInv, NEW th \in Threads, Others(th), UNCHANGED <<data, user, reported>>,
         pc[th] = "operations", pc' = [pc EXCEPT ![th] = "idle"],
         write_set' = [write_set EXCEPT ![th] = <<>>], overflowed' = overflowed,
         filled' = [filled EXCEPT ![th] = [m \in Markets |-> 0]]
  PROVE  FillInv'
<1>1. /\ pc'[th] = "idle" /\ write_set'[th] = <<>>
      /\ filled'[th] = [m \in Markets |-> 0]
  BY DEF DexTypes, TypeInv
<1>2. ThreadOK(th)'
  <2> SUFFICES ASSUME NEW m \in Markets, NEW size, NEW before
               PROVE  FillOK("idle", <<>>, user[th], m, size, before, 0)
    BY <1>1 DEF ThreadOK
  <2> QED
    BY DEF FillOK, LastAt
<1>3. ASSUME NEW v \in Users, NEW m \in Markets, <<v, m>> \notin overflowed,
             \A t \in Threads : pc'[t] # "idle" => user'[t] # v
      PROVE  SizeIn(data, v, m) = reported[v][m]
  <2>1. CASE v = user[th]
    <3>1. FillOK(pc[th], write_set[th], user[th], m, SizeIn(data, user[th], m),
                 reported[user[th]][m], filled[th][m])
      BY <1>3, <2>1 DEF FillInv
    <3> QED
      BY <2>1, <3>1 DEF FillOK
  <2>2. CASE v # user[th]
    <3>1. \A t \in Threads : pc[t] # "idle" => user[t] # v
      BY <1>3, <2>2 DEF Others
    <3> QED
      BY <1>3, <3>1 DEF FillInv
  <2> QED
    BY <2>1, <2>2
<1> QED
  BY <1>2, <1>3, FillFrame

\* The first write is applied.
LEMMA FillData ==
  ASSUME DexTypes, FillInv, NEW th \in Threads, InsertData(th) \/ RemoveData(th)
  PROVE  FillInv'
<1> DEFINE w == Head(write_set[th])
           ws == write_set[th]
           u == user[th]
<1>0. /\ pc[th] \in ApplyPcs /\ Applied(th)
      /\ \/ data' = [l \in DOMAIN data \cup {w.loc} |-> IF l = w.loc THEN w.val ELSE data[l]]
         \/ data' = [l \in DOMAIN data \ {w.loc} |-> data[l]] /\ IsDeletion(w)
  BY DataTypes
<1>1. /\ Others(th) /\ UNCHANGED <<user, overflowed>>
      /\ write_set' = [write_set EXCEPT ![th] = Tail(ws)]
      /\ \/ /\ Tail(ws) = <<>> /\ pc' = [pc EXCEPT ![th] = "idle"]
            /\ filled' = [filled EXCEPT ![th] = [m \in Markets |-> 0]]
            /\ reported' = [reported EXCEPT ![u] = [m \in Markets |-> reported[u][m] + filled[th][m]]]
         \/ Tail(ws) # <<>> /\ pc' = [pc EXCEPT ![th] = "apply"] /\ UNCHANGED <<filled, reported>>
  BY <1>0, AppliedShape
<1>2. /\ ws \in Seq(Entries(u)) /\ ws # <<>> /\ w \in Entries(u) /\ u \in Users
  BY <1>0, HeadShape
<1>3. /\ write_set'[th] = Tail(ws)
      /\ \/ /\ Tail(ws) = <<>> /\ pc'[th] = "idle" /\ filled'[th] = [m \in Markets |-> 0]
            /\ \A m \in Markets : reported'[u][m] = reported[u][m] + filled[th][m]
         \/ /\ Tail(ws) # <<>> /\ pc'[th] = "apply" /\ filled'[th] = filled[th]
            /\ reported'[u] = reported[u]
  <2>0. /\ pc \in [Threads -> Pcs] /\ filled \in [Threads -> [Markets -> Int]]
        /\ reported \in [Users -> [Markets -> Int]] /\ DOMAIN write_set = Threads
    BY DEF DexTypes, TypeInv
  <2>1. write_set'[th] = Tail(ws)
    BY <1>1, <2>0
  <2> HIDE DEF ws, u
  <2>2. CASE /\ Tail(ws) = <<>> /\ pc' = [pc EXCEPT ![th] = "idle"]
             /\ filled' = [filled EXCEPT ![th] = [m \in Markets |-> 0]]
             /\ reported' = [reported EXCEPT ![u] = [m \in Markets |-> reported[u][m] + filled[th][m]]]
    BY <1>2, <2>0, <2>1, <2>2
  <2>3. CASE Tail(ws) # <<>> /\ pc' = [pc EXCEPT ![th] = "apply"] /\ UNCHANGED <<filled, reported>>
    BY <1>2, <2>0, <2>1, <2>3
  <2> QED
    BY <1>1, <2>2, <2>3
<1>4. \A v \in Users : v # u => reported'[v] = reported[v]
  BY <1>1, <1>2 DEF DexTypes, TypeInv
<1>5. ASSUME NEW v \in Users, NEW m \in Markets
      PROVE  SizeIn(data', v, m) = IF v = u /\ w.loc = Position(u, m) THEN w.val.size ELSE SizeIn(data, v, m)
  <2> DEFINE l == Position(v, m)
  <2>1. l[1] = "Position" /\ l[2] = v
    BY DEF Position
  <2>2. w.loc[2] = u /\ (w.loc[1] = "Position" => w.val \in Positions)
    BY <1>2, EntryShape
  <2>3. w.loc = l => v = u
    BY <2>1, <2>2
  <2>4. SizeIn(data, v, m) = IF l \notin DOMAIN data \/ data[l] = NoPosition THEN 0 ELSE data[l].size
    BY DEF SizeIn
  <2>5. SizeIn(data', v, m) = IF l \notin DOMAIN data' \/ data'[l] = NoPosition THEN 0 ELSE data'[l].size
    BY DEF SizeIn
  <2>6. v = u => Position(u, m) = l
    OBVIOUS
  <2> HIDE DEF l, u, w
  <2>7. CASE w.loc = l
    <3>1. w.val \in Positions /\ w.val # NoPosition /\ ~IsDeletion(w)
      BY <2>1, <2>2, <2>7, PositionIsThere DEF IsDeletion, IsOrder
    <3>2. l \in DOMAIN data' /\ data'[l] = w.val
      BY <1>0, <2>7, <3>1
    <3> QED
      BY <2>3, <2>5, <2>6, <2>7, <3>1, <3>2
  <2>8. CASE w.loc # l
    <3>1. (l \in DOMAIN data' <=> l \in DOMAIN data) /\ (l \in DOMAIN data => data'[l] = data[l])
      BY <1>0, <2>8
    <3> QED
      BY <2>4, <2>5, <2>6, <2>8, <3>1
  <2> QED
    BY <2>7, <2>8
<1>6. ASSUME NEW m \in Markets, <<u, m>> \notin overflowed
      PROVE  /\ FillOK("apply", Tail(ws), u, m, SizeIn(data', u, m), reported[u][m], filled[th][m])
             /\ Tail(ws) = <<>> => SizeIn(data', u, m) = reported[u][m] + filled[th][m]
  <2> DEFINE size == SizeIn(data, u, m)
             new == SizeIn(data', u, m)
             before == reported[u][m]
             fill == filled[th][m]
             place == pc[th]
             S == Entries(u)
  <2>1. size \in Int /\ before \in Int /\ fill \in Int /\ place \in ApplyPcs /\ ws \in Seq(S) /\ ws # <<>>
    BY <1>0, <1>2, SizesAreNumbers DEF DexTypes, TypeInv
  <2>2. new = IF Head(ws).loc = Position(u, m) THEN Head(ws).val.size ELSE size
    BY <1>2, <1>5
  <2>3. FillOK(place, ws, u, m, size, before, fill)
    BY <1>6 DEF FillInv
  <2> HIDE DEF size, new, before, fill, place, S, ws, u
  <2>4. FillOK("apply", Tail(ws), u, m, new, before, fill) /\ (Tail(ws) = <<>> => new = before + fill)
    <3> SUFFICES ASSUME NEW n, n = new, NEW v, v = u, NEW s, s = size, NEW b, b = before, NEW f, f = fill,
                        NEW q, q = ws, NEW p, p = place, NEW T, T = S
                 PROVE  FillOK("apply", Tail(q), v, m, n, b, f) /\ (Tail(q) = <<>> => n = b + f)
      OBVIOUS
    <3>1. s \in Int /\ b \in Int /\ f \in Int /\ p \in ApplyPcs /\ q \in Seq(T) /\ q # <<>>
      BY <2>1
    <3>2. n = IF Head(q).loc = Position(v, m) THEN Head(q).val.size ELSE s
      BY <2>2
    <3>3. FillOK(p, q, v, m, s, b, f)
      BY <2>3
    <3> QED
      <4>1. Applicable(T, q, v, m, p, s, b, f, n)
        BY <3>1, <3>2, <3>3 DEF Applicable
      <4> QED
        BY ONLY <4>1, FillApplied
  <2> QED
    BY <2>4 DEF new, before, fill
<1>7. u = user[th] /\ user'[th] = u
  BY <1>1
<1> HIDE DEF u, w, ws
\* The thread itself.
<1>8. ASSUME NEW m \in Markets, <<u, m>> \notin overflowed
      PROVE  FillOK(pc'[th], write_set'[th], user'[th], m, SizeIn(data', user'[th], m),
                    reported'[user'[th]][m], filled'[th][m])
  <2>1. CASE Tail(ws) = <<>> /\ pc'[th] = "idle"
    <3>1. write_set'[th] = <<>>
      BY <1>3, <2>1
    <3> QED
      BY <2>1, <3>1 DEF FillOK, LastAt
  <2>2. CASE Tail(ws) # <<>>
    <3>1. pc'[th] = "apply" /\ filled'[th] = filled[th] /\ reported'[u] = reported[u] /\ write_set'[th] = Tail(ws)
      BY <1>3, <2>2
    <3> QED
      BY <1>6, <1>7, <1>8, <3>1
  <2> QED
    BY <1>3, <2>1, <2>2
\* The other threads, which serve other users.
<1>9. ASSUME NEW t \in Threads, t # th, NEW m \in Markets, <<user[t], m>> \notin overflowed
      PROVE  FillOK(pc'[t], write_set'[t], user'[t], m, SizeIn(data', user'[t], m),
                    reported'[user'[t]][m], filled'[t][m])
  <2>1. pc'[t] = pc[t] /\ write_set'[t] = write_set[t] /\ user'[t] = user[t] /\ filled'[t] = filled[t]
    BY <1>1, <1>9 DEF Others
  <2>2. CASE pc[t] = "idle"
    <3>1. write_set[t] = <<>>
      BY <2>2 DEF DexTypes, PlaceInv
    <3> QED
      BY <2>1, <2>2, <3>1 DEF FillOK, LastAt
  <2>3. CASE pc[t] # "idle"
    <3>1. user[t] # u /\ user[t] \in Users
      BY <1>0, <1>7, <1>9, <2>3 DEF DexTypes, PlaceInv, TypeInv, ApplyPcs
    <3>2. SizeIn(data', user[t], m) = SizeIn(data, user[t], m) /\ reported'[user[t]] = reported[user[t]]
      BY <1>4, <1>5, <3>1
    <3>3. FillOK(pc[t], write_set[t], user[t], m, SizeIn(data, user[t], m), reported[user[t]][m], filled[t][m])
      BY <1>9 DEF FillInv
    <3> QED
      BY <2>1, <3>2, <3>3
  <2> QED
    BY <2>2, <2>3
\* Users without a thread.
<1>10. ASSUME NEW v \in Users, NEW m \in Markets, <<v, m>> \notin overflowed,
              \A t \in Threads : pc'[t] # "idle" => user'[t] # v
       PROVE  SizeIn(data', v, m) = reported'[v][m]
  <2>1. CASE v = u
    <3>1. pc'[th] = "idle"
      BY <1>7, <1>10, <2>1
    <3>2. Tail(ws) = <<>> /\ reported'[u][m] = reported[u][m] + filled[th][m]
      BY <1>3, <3>1
    <3> QED
      BY <1>6, <1>10, <2>1, <3>2
  <2>2. CASE v # u
    <3>1. \A t \in Threads : pc[t] # "idle" => user[t] # v
      BY <1>1, <1>7, <1>10, <2>2 DEF Others
    <3>2. SizeIn(data, v, m) = reported[v][m]
      BY <1>10, <3>1 DEF FillInv
    <3> QED
      BY <1>4, <1>5, <2>2, <3>2
  <2> QED
    BY <2>1, <2>2
<1>11. overflowed' = overflowed /\ \A t \in Threads : user'[t] = user[t]
  BY <1>1
<1> QED
  BY <1>7, <1>8, <1>9, <1>10, <1>11 DEF FillInv

\* Every step keeps positions and fills together.
LEMMA FillStep ==
  ASSUME DexTypes, FillInv, NEW th \in Threads, Move(th)
  PROVE  FillInv'
<1>1. ASSUME NEW u \in workload.users, NEW batch \in workload.batches, NEW nonce, Execute(th, u, batch, nonce)
      PROVE  FillInv'
  BY <1>1, FillExecuted
<1>2. ASSUME NEW u, NEW nonce, NonceMismatch(th, u, nonce) PROVE FillInv'
  BY <1>2 DEF NonceMismatch, dexVars, storage, locals, history, FillInv
<1>3. CASE Operate(th)
  <2>0. /\ Others(th) /\ UNCHANGED <<data, user, reported>> /\ pc[th] = "operations" /\ ops[th] # <<>>
    BY <1>3, OperateShape
  <2>1. CASE /\ pc' = [pc EXCEPT ![th] = "idle"]
             /\ write_set' = [write_set EXCEPT ![th] = <<>>]
             /\ filled' = [filled EXCEPT ![th] = [m \in Markets |-> 0]] /\ overflowed' = overflowed
    BY <2>0, <2>1, FillFailed
  <2>2. ASSUME NEW r, Succeeds(th, r) PROVE FillInv'
    <3>1. ASSUME NEW o, o = Head(ops[th]), NEW u, u = user[th] PROVE FillInv'
      <4>1. OutcomeOK(u, o, r)
        BY <2>2, <3>1 DEF Succeeds
      <4> QED
        BY <2>0, <2>2, <3>1, <4>1, FillOperated DEF Succeeds
    <3> QED
      BY <3>1
  <2> QED
    BY <1>3, <2>1, <2>2, OperateShape
<1>4. CASE UpdateNonce(th)
  <2>1. PICK w : w.loc[1] = "UserNonce" /\ write_set' = [write_set EXCEPT ![th] = Append(write_set[th], w)]
    BY <1>4, NonceTypes
  <2>2. /\ Others(th) /\ UNCHANGED <<data, user, ops, filled, reported, overflowed>>
        /\ pc[th] = "operations" /\ pc'[th] = "apply"
    BY <1>4, NonceTypes DEF DexTypes, TypeInv
  <2>3. write_set[th] \in Seq(Entries(user[th])) /\ write_set'[th] = Append(write_set[th], w)
          /\ user[th] \in Users
    BY <2>1 DEF DexTypes, TypeInv
  <2>5. ThreadOK(th)'
    <3> SUFFICES ASSUME NEW m \in Markets, <<user[th], m>> \notin overflowed
                 PROVE  FillOK("apply", Append(write_set[th], w), user[th], m, SizeIn(data, user[th], m),
                               reported[user[th]][m], filled[th][m])
      BY <2>2, <2>3 DEF ThreadOK
    <3> DEFINE size == SizeIn(data, user[th], m)
               before == reported[user[th]][m]
               fill == filled[th][m]
               S == Entries(user[th]) \cup {w}
               ws == write_set[th]
               u == user[th]
    <3>1. size \in Int /\ before \in Int /\ fill \in Int
      BY <2>3, SizesAreNumbers DEF DexTypes, TypeInv
    <3>2. ws \in Seq(S) /\ w \in S
      BY <2>3
    <3>3. FillOK("operations", ws, u, m, size, before, fill)
      BY <2>2 DEF FillInv
    <3> HIDE DEF size, before, fill, S, ws, u
    <3>4. FillOK("apply", Append(ws, w), u, m, size, before, fill)
      BY <2>1, <3>1, <3>2, <3>3, FillNonce
    <3> QED
      BY <3>4 DEF size, before, fill, ws, u
  <2>6. \A u \in Users, m \in Markets :
          <<u, m>> \notin overflowed /\ (\A t \in Threads : pc'[t] # "idle" => user'[t] # u)
            => SizeIn(data, u, m) = reported[u][m]
    BY <2>2 DEF FillInv, Others
  <2> QED
    BY <2>2, <2>5, <2>6, FillFrame
<1>5. CASE AddOrderIndex(th) \/ RemoveOrderIndex(th)
  <2>1. /\ Others(th) /\ UNCHANGED <<data, user, ops, write_set, filled, reported, overflowed>> /\ pc[th] = "apply"
        /\ pc'[th] \in {"insert", "remove"}
    BY <1>5, IndexTypes, ZenonT(40) DEF DexTypes, TypeInv
  <2>2. ThreadOK(th)'
    BY <2>1 DEF ThreadOK, FillInv, FillOK
  <2>3. \A u \in Users, m \in Markets :
          <<u, m>> \notin overflowed /\ (\A t \in Threads : pc'[t] # "idle" => user'[t] # u)
            => SizeIn(data, u, m) = reported[u][m]
    BY <2>1 DEF FillInv, Others
  <2> QED
    BY <2>1, <2>2, <2>3, FillFrame
<1>6. CASE InsertData(th) \/ RemoveData(th)
  BY <1>6, FillData
<1> QED
  BY <1>1, <1>2, <1>3, <1>4, <1>5, <1>6 DEF Move

-----------------------------------------------------------------------------
(* The theorems *)

DexInv == DexTypes /\ IdInv /\ IndexInv /\ PriceInv /\ FillInv

\* The storage of with_balances.
LEMMA DexInitially ==
  ASSUME DexInit
  PROVE  DexInv
<1>0. /\ workload \in Workloads /\ data = [l \in {Balance(u) : u \in Users} |-> InitialBalance]
      /\ user_orders = [u \in Users |-> [m \in Markets |-> <<>>]] /\ next_order_id = 1
      /\ pc = [th \in Threads |-> "idle"] /\ user \in [Threads -> Users]
      /\ ops = [th \in Threads |-> <<>>] /\ write_set = [th \in Threads |-> <<>>]
      /\ filled = [th \in Threads |-> [m \in Markets |-> 0]]
      /\ reported = [u \in Users |-> [m \in Markets |-> 0]] /\ overflowed = {}
  BY MarketsAssumption DEF DexInit
<1>1. ASSUME NEW l \in DOMAIN data PROVE l[1] = "Balance" /\ \E u \in Users : Write(l, data[l]) \in Entries(u)
  <2>1. PICK u \in Users : l = Balance(u) /\ data[l] = InitialBalance
    BY <1>0
  <2>2. Write(l, data[l]) \in Entries(u)
    BY <2>1, MayWrite, MarketsAssumption DEF U256
  <2> QED
    BY <2>1, <2>2 DEF Balance
<1>2. TypeInv
  <2>1. \A S : <<>> \in Seq(S)
    OBVIOUS
  <2>2. /\ pc \in [Threads -> Pcs] /\ ops \in [Threads -> Seq(Operations)] /\ next_order_id \in Nat
        /\ user_orders \in [Users -> [Markets -> Seq(Nat)]]
        /\ filled \in [Threads -> [Markets -> Int]] /\ reported \in [Users -> [Markets -> Int]]
    BY <1>0, <2>1 DEF Pcs
  <2>3. write_set \in [Threads -> Seq(UNION {Entries(u) : u \in Users})]
          /\ \A th \in Threads : write_set[th] \in Seq(Entries(user[th]))
    BY <1>0, <2>1
  <2> QED
    BY <1>0, <1>1, <2>2, <2>3 DEF TypeInv
<1>3. \A th \in Threads : pc[th] = "idle" /\ write_set[th] = <<>> /\ ops[th] = <<>>
                           /\ filled[th] = [m \in Markets |-> 0]
  BY <1>0
<1>4. PlaceInv
  BY <1>3 DEF PlaceInv, ApplyPcs
<1>5. (\A th \in Threads, i \in Nat : ~NewAt(th, i)) /\ (\A l \in DOMAIN data : ~Live(l))
  BY <1>1, <1>3 DEF NewAt, Live, IsOrder
<1>6. IdInv
  BY <1>5 DEF IdInv
<1>7. \A u \in Users, m \in Markets : user_orders[u][m] = <<>>
  BY <1>0
<1>8. IndexInv
  <2>1. IndexOnce /\ IndexBelow
    BY <1>7 DEF IndexOnce, IndexBelow, Holds
  <2>2. PendingOut /\ InsertIn /\ LiveIn
    BY <1>3, <1>5 DEF PendingOut, InsertIn, LiveIn
  <2> QED
    BY <2>1, <2>2 DEF IndexInv
<1>9. PriceInv
  BY <1>1, <1>3 DEF PriceInv, Fits
<1>10. FillInv
  <2>1. ASSUME NEW u \in Users, NEW m \in Markets PROVE SizeIn(data, u, m) = reported[u][m]
    <3>1. Position(u, m) \notin DOMAIN data
      BY <1>1 DEF Position
    <3> QED
      BY <1>0, <3>1 DEF SizeIn
  <2>2. ASSUME NEW th \in Threads, NEW m \in Markets, NEW size, NEW before, NEW fill
        PROVE  FillOK(pc[th], write_set[th], user[th], m, size, before, fill)
    BY <1>3 DEF FillOK, LastAt
  <2> QED
    BY <2>1, <2>2 DEF FillInv
<1> QED
  BY <1>2, <1>4, <1>6, <1>8, <1>9, <1>10 DEF DexInv, DexTypes

\* Steps and stuttering keep the invariant.
LEMMA DexSteps ==
  ASSUME DexInv, [DexNext]_dexVars
  PROVE  DexInv'
<1>1. CASE UNCHANGED dexVars
  <2>1. DexTypes'
    BY <1>1 DEF dexVars, storage, locals, history, DexInv, DexTypes, TypeInv, PlaceInv, NewOrder, IsDeletion
  <2>2. IdInv'
    BY <1>1 DEF dexVars, storage, locals, history, DexInv, IdInv, NewAt, Live
  <2>3. IndexInv'
    BY <1>1 DEF dexVars, storage, locals, history, DexInv, IndexInv, IndexOnce, IndexBelow, PendingOut, InsertIn,
                LiveIn, NewAt, Live
  <2>4. PriceInv'
    BY <1>1 DEF dexVars, storage, locals, history, DexInv, PriceInv, FillPrices, Fits
  <2>5. FillInv'
    BY <1>1 DEF dexVars, storage, locals, history, DexInv, FillInv
  <2> QED
    BY <2>1, <2>2, <2>3, <2>4, <2>5 DEF DexInv
<1>2. ASSUME NEW th \in Threads, Move(th) PROVE DexInv'
  <2>1. DexTypes'
    BY <1>2, TypesStep DEF DexInv
  <2> QED
    BY <1>2, <2>1, IdsStep, IndexStep, PriceStep, FillStep DEF DexInv
<1> QED
  BY <1>1, <1>2 DEF DexNext, Move

\* Types and places, unique ids, the index, the prices and the fills, in every
\* behaviour of any number of threads, users, markets and transactions, at any
\* widths of the integers.
THEOREM DexInvariance == DexSpec => []DexInv
<1>1. DexInit => DexInv
  BY DexInitially
<1>2. DexInv /\ [DexNext]_dexVars => DexInv'
  BY DexSteps
<1> QED
  BY <1>1, <1>2, PTL DEF DexSpec

\* The executor's subtractions never wrap: balances, in the storage and in every
\* write set, stay natural numbers.
THEOREM NeverOverdrawnHolds == DexSpec => []NeverOverdrawn
<1>1. DexInv => NeverOverdrawn
  <2> SUFFICES ASSUME DexInv PROVE NeverOverdrawn
    OBVIOUS
  <2>1. ASSUME NEW u \in Users PROVE BalanceOf(u) >= 0
    <3>1. BalanceOf(u) \in Nat
      BY StoredShape DEF DexInv, DexTypes
    <3> QED
      BY <3>1
  <2>2. ASSUME NEW th \in Threads, NEW i \in DOMAIN write_set[th], write_set[th][i].loc[1] = "Balance"
        PROVE  write_set[th][i].val >= 0
    <3> DEFINE w == write_set[th][i]
    <3>1. write_set[th] \in Seq(Entries(user[th]))
      BY DEF DexInv, DexTypes, TypeInv
    <3>2. w \in Entries(user[th]) /\ w.loc[1] = "Balance"
      BY <2>2, <3>1
    <3> HIDE DEF w
    <3>3. w.val \in Nat
      BY <3>2, EntryShape
    <3>4. w.val >= 0
      BY <3>3
    <3> QED
      BY <3>4 DEF w
  <2> QED
    BY <2>1, <2>2 DEF NeverOverdrawn
<1> QED
  BY <1>1, DexInvariance, PTL

\* generate_order_id never gives an id to two orders: neither to two in the book,
\* nor to two that are still in a write set, nor to one of each.
THEOREM OrderIdsAreUniqueHolds == DexSpec => []OrderIdsAreUnique
<1>1. DexInv => OrderIdsAreUnique
  <2> SUFFICES ASSUME DexInv, NEW k \in OrdersAndPending, NEW l \in OrdersAndPending, k[4] = l[4]
               PROVE  k = l
    BY DEF OrderIdsAreUnique
  <2> DEFINE InBook(x) == x \in DOMAIN data /\ Live(x)
             Pending(x) == \E th \in Threads, i \in Nat : NewAt(th, i) /\ x = write_set[th][i].loc
  <2>1. ASSUME NEW x \in OrdersAndPending PROVE InBook(x) \/ Pending(x)
    <3>1. CASE x \in {y \in DOMAIN data : Live(y)}
      BY <3>1
    <3>2. ASSUME NEW th \in Threads, NEW v \in Range(write_set[th]), IsOrder(v.loc) /\ ~IsDeletion(v), x = v.loc
          PROVE  Pending(x)
      <4>1. write_set[th] \in Seq(Entries(user[th]))
        BY DEF DexInv, DexTypes, TypeInv
      <4>2. PICK i \in DOMAIN write_set[th] : v = write_set[th][i]
        BY DEF Range
      <4>3. i \in Nat
        BY <4>1
      <4>4. NewAt(th, i)
        BY <3>2, <4>2 DEF NewAt, NewOrder
      <4> QED
        BY <3>2, <4>2, <4>3, <4>4
    <3> HIDE DEF Pending
    <3> QED
      BY <3>1, <3>2 DEF OrdersAndPending
  <2>2. IdInv
    BY DEF DexInv
  <2>3. CASE InBook(k) /\ InBook(l)
    BY <2>2, <2>3 DEF IdInv
  <2>4. CASE InBook(k) /\ Pending(l)
    BY <2>2, <2>4 DEF IdInv
  <2>5. CASE Pending(k) /\ InBook(l)
    BY <2>2, <2>5 DEF IdInv
  <2>6. CASE Pending(k) /\ Pending(l)
    BY <2>2, <2>6 DEF IdInv
  <2> HIDE DEF InBook, Pending
  <2> QED
    BY <2>1, <2>3, <2>4, <2>5, <2>6
<1> QED
  BY <1>1, DexInvariance, PTL

\* Index and data are changed under two locks; still, an order in the book that
\* nobody works on is in its index, once.
THEOREM IndexFindsOrdersHolds == DexSpec => []IndexFindsOrders
<1>1. DexInv => IndexFindsOrders
  <2> SUFFICES ASSUME DexInv, NEW l \in DOMAIN data, Live(l), ~Applying(l)
               PROVE  LET ids == user_orders[l[2]][l[3]]
                      IN \E i \in DOMAIN ids : \A j \in DOMAIN ids : ids[j] = l[4] <=> j = i
    BY DEF IndexFindsOrders
  <2> DEFINE ids == user_orders[l[2]][l[3]]
  <2>1. l[2] \in Users /\ l[3] \in Markets
    BY OrderKeys DEF DexInv
  <2>2. \A i, j \in DOMAIN ids : ids[i] = ids[j] => i = j
    BY <2>1 DEF DexInv, IndexInv, IndexOnce
  <2>3. Holds(ids, l[4])
    BY DEF DexInv, IndexInv, LiveIn, Applying
  <2> HIDE DEF ids
  <2>4. \E i \in DOMAIN ids : \A j \in DOMAIN ids : ids[j] = l[4] <=> j = i
    BY <2>2, <2>3 DEF Holds
  <2> QED
    BY <2>4 DEF ids
<1> QED
  BY <1>1, DexInvariance, PTL

\* Whatever fills, closes and flips a position, its entry price stays at or
\* below a price that something was filled at: with divisions that round, with
\* notionals that wrap, and until a fill is too large for the position's size.
THEOREM EntryPriceIsBoundedHolds == DexSpec => []EntryPriceIsBounded
<1>1. DexInv => EntryPriceIsBounded
  BY StoredUnder DEF DexInv, EntryPriceIsBounded, Under
<1> QED
  BY <1>1, DexInvariance, PTL

\* A position is the sum, over the transactions, of the fill that was reported by
\* the last operation of each to write it, until a fill is too large for its size.
THEOREM PositionIsLastFillsHolds == DexSpec => []PositionIsLastFills
<1>1. DexInv => PositionIsLastFills
  <2> SUFFICES ASSUME DexInv, NEW u \in Users, NEW m \in Markets, <<u, m>> \notin overflowed,
                      \A th \in Threads : pc[th] # "idle" => user[th] # u
               PROVE  reported[u][m] = IF PositionOf(u, m) = NoPosition THEN 0 ELSE PositionOf(u, m).size
    BY DEF PositionIsLastFills
  <2>1. SizeIn(data, u, m) = reported[u][m]
    BY DEF DexInv, FillInv
  <2> QED
    BY <2>1, SizeIsStored DEF SizeOf
<1> QED
  BY <1>1, DexInvariance, PTL

\* A CancelAll of one market finds every order that its user has there, also
\* while other threads add and remove orders of other users.
THEOREM CancelAllEmptiesMarketHolds == DexSpec => CancelAllEmptiesMarket
<1> DEFINE Empties ==
             \A th \in Threads, m \in Markets : CancelsAll(th, m) =>
               \A l \in DOMAIN data : Live(l) /\ l[2] = user[th] /\ l[3] = m =>
                 \E w \in Range(write_set'[th]) : w.loc = l /\ IsDeletion(w)
<1>1. DexInv /\ [DexNext]_dexVars => [Empties]_dexVars
  <2> SUFFICES ASSUME DexInv, NEW t \in Threads, Move(t), NEW th \in Threads, NEW m \in Markets,
                      CancelsAll(th, m), NEW l \in DOMAIN data, Live(l), l[2] = user[th], l[3] = m
               PROVE  \E w \in Range(write_set'[th]) : w.loc = l /\ IsDeletion(w)
    BY DEF DexNext, Move
  <2> DEFINE u == user[th]
             ids == user_orders[u][m]
  <2>0. /\ pc[th] = "operations" /\ ops[th] # <<>> /\ Head(ops[th]) = [op |-> "CancelAll", market |-> m]
        /\ ops'[th] = Tail(ops[th]) /\ DexTypes
    BY DEF CancelsAll, DexInv
  <2>1. Operate(th)
    <3>1. ops[th] \in Seq(Operations)
      BY DEF DexInv, DexTypes, TypeInv
    <3>2. ops'[th] # ops[th]
      <4>1. \A s \in Seq(Operations) : s # <<>> => Tail(s) # s
        <5> SUFFICES ASSUME NEW s \in Seq(Operations), s # <<>>, Tail(s) = s PROVE FALSE
          OBVIOUS
        <5>1. Len(s) \in Nat /\ Len(Tail(s)) = Len(s) - 1
          BY HeadAndTail
        <5>2. Len(s) = Len(s) - 1
          BY <5>1
        <5> QED
          BY <5>1, <5>2
      <4> QED
        BY <2>0, <3>1, <4>1
    <3>3. CASE Operate(t)
      BY <2>0, <3>2, <3>3, OperateShape DEF Others
    <3>4. CASE ~Operate(t)
      <4>1. ASSUME NEW v \in workload.users, NEW b \in workload.batches, NEW nonce, Execute(t, v, b, nonce)
            PROVE  FALSE
        <5>1. Others(t) /\ pc[t] = "idle"
          BY <2>0, <4>1, ExecuteTypes DEF Execute
        <5> QED
          BY <2>0, <3>2, <5>1 DEF Others
      <4>2. ASSUME ops' = ops PROVE FALSE
        BY <3>2, <4>2
      <4>3. CASE UpdateNonce(t)
        BY <2>0, <4>2, <4>3, NonceTypes
      <4>4. CASE AddOrderIndex(t) \/ RemoveOrderIndex(t)
        BY <2>0, <4>2, <4>4, IndexTypes
      <4>5. CASE InsertData(t) \/ RemoveData(t)
        BY <2>0, <4>2, <4>5, DataTypes DEF Applied
      <4>6. ASSUME NEW v, NEW nonce, NonceMismatch(t, v, nonce) PROVE FALSE
        BY <4>2, <4>6 DEF NonceMismatch, dexVars, locals
      <4> QED
        BY <3>4, <4>1, <4>3, <4>4, <4>5, <4>6 DEF Move
    <3> QED
      BY <3>3, <3>4
  <2>2. u \in Users /\ ids \in Seq(Nat) /\ write_set[th] \in Seq(Entries(u)) /\ m # 0
    BY MarketsAssumption DEF DexInv, DexTypes, TypeInv
  <2> DEFINE r == ExecuteOperation(u, Head(ops[th]))
             q == [i \in DOMAIN ids |-> Write(Order(u, m, ids[i]), Deleted)]
  <2>3. r = Done(q)
    <3>1. Head(ops[th]).op = "CancelAll" /\ Head(ops[th]).market = m
      BY <2>0
    <3>2. r = ExecuteCancelAll(u, Head(ops[th]))
      BY <3>1 DEF ExecuteOperation
    <3> QED
      BY <2>2, <3>1, <3>2 DEF ExecuteCancelAll
  <2>4. write_set' = [write_set EXCEPT ![th] = write_set[th] \o q]
    <3>1. r.ok /\ r.writes = q
      BY <2>3 DEF Done
    <3> QED
      BY <2>1, <3>1 DEF Operate
  <2>5. write_set'[th] = write_set[th] \o q
    BY <2>4 DEF DexInv, DexTypes, TypeInv
  <2>6. q \in Seq(Entries(u)) /\ DOMAIN q = DOMAIN ids
    <3>1. \A i \in DOMAIN ids : Write(Order(u, m, ids[i]), Deleted) \in Entries(u)
      BY <2>2, MayWrite
    <3> QED
      BY <2>2, <3>1, SMTT(30)
\* The order is in the index: nobody else removes an order of this user.
  <2>7. Holds(ids, l[4])
    <3>1. ASSUME NEW o \in Threads, pc[o] = "remove", Head(write_set[o]).loc = l PROVE FALSE
      <4>1. Head(write_set[o]) \in Entries(user[o])
        BY <2>0, <3>1, HeadShape DEF ApplyPcs
      <4>2. l[2] = user[o]
        BY <3>1, <4>1, EntryShape
      <4> QED
        BY <2>0, <3>1, <4>2 DEF DexTypes, PlaceInv
    <3> QED
      BY <3>1 DEF DexInv, IndexInv, LiveIn
  <2>8. PICK i \in DOMAIN ids : ids[i] = l[4]
    BY <2>7 DEF Holds
  <2>9. q[i].loc = l /\ IsDeletion(q[i])
    <3>1. l = Order(u, m, l[4])
      BY <2>0, OrderKeys
    <3>2. q[i] = Write(l, Deleted)
      BY <2>8, <3>1
    <3> QED
      BY <3>2 DEF Write, IsDeletion, Live
  <2> HIDE DEF q, u, ids
  <2>10. \E j \in DOMAIN (write_set[th] \o q) : (write_set[th] \o q)[j] = q[i]
    <3> DEFINE ws == write_set[th]
    <3>1. ws \in Seq(Entries(u)) /\ q \in Seq(Entries(u)) /\ i \in DOMAIN q
      BY <2>2, <2>6
    <3> HIDE DEF ws
    <3>2. \E j \in DOMAIN (ws \o q) : (ws \o q)[j] = q[i]
      BY <3>1, Concatenated, SMTT(60)
    <3> QED
      BY <3>2 DEF ws
  <2> QED
    BY <2>5, <2>9, <2>10 DEF Range
<1>2. DexSpec => [][Empties]_dexVars
  BY <1>1, DexInvariance, PTL DEF DexSpec
<1> QED
  BY <1>2 DEF CancelAllEmptiesMarket
=============================================================================
