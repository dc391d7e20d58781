-------------------------- MODULE LazySerialProofs --------------------------
(***************************************************************************)
(* Why lazy updates are serializable, for every set of accounts and of     *)
(* workers and every block in which no new account is swept (NotSwept):    *)
(* what VmDb::basic put together for an execution is what it would put     *)
(* together now, or one of the several origins has moved on; then the read *)
(* is validated again before the workers leave.  So the sums over a prefix *)
(* that is settled are the accounts of sequential execution, and the       *)
(* evaluation after the join returns what execute_revm_sequential returns. *)
(***************************************************************************)
EXTENDS LazyPexeProofs

-----------------------------------------------------------------------------
(* Sums over the transactions *)

\* The partial sums of Total.
IsSum(s, f) == s = [n \in 0 .. BlockSize |-> IF n = 0 THEN 0 ELSE s[n - 1] + f[n - 1]]
Sums(f) == CHOOSE s : IsSum(s, f)

\* They exist.
LEMMA SumsAre ==
  ASSUME NEW f
  PROVE  /\ Total(f) = Sums(f)[BlockSize]
         /\ Sums(f)[0] = 0
         /\ \A t \in Txs : Sums(f)[t + 1] = Sums(f)[t] + f[t]
<1> DEFINE Eq(s, n) == s = [k \in 0 .. n |-> IF k = 0 THEN 0 ELSE s[k - 1] + f[k - 1]]
<1>0. BlockSize \in Nat
  BY BlockSizeAssumption
<1>1. \A n \in 0 .. BlockSize : \E s : Eq(s, n)
  <2> DEFINE Bad == {n \in 0 .. BlockSize : ~\E s : Eq(s, n)}
  <2> SUFFICES ASSUME Bad # {} PROVE FALSE
    OBVIOUS
  <2>1. Bad \in SUBSET Nat
    BY <1>0
  <2>2. PICK m \in Bad : \A n \in Bad : ~(n < m)
    BY <2>1, Least
  <2>3. CASE m = 0
    <3> DEFINE s == [k \in 0 .. 0 |-> 0]
    <3>1. Eq(s, 0)
      OBVIOUS
    <3> QED
      BY <2>2, <2>3, <3>1
  <2>4. CASE m # 0
    <3>1. m - 1 \in 0 .. BlockSize /\ m - 1 < m /\ m \in Nat
      BY <1>0, <2>2, <2>4
    <3>2. PICK s : Eq(s, m - 1)
      BY <2>2, <3>1
    <3> DEFINE h == [k \in 0 .. m |-> IF k = m THEN s[m - 1] + f[m - 1] ELSE s[k]]
    <3>3. ASSUME NEW k \in 0 .. m PROVE h[k] = IF k = 0 THEN 0 ELSE h[k - 1] + f[k - 1]
      <4>1. CASE k = m
        <5>1. h[m - 1] = s[m - 1]
          BY <3>1
        <5> QED
          BY <2>4, <4>1, <5>1
      <4>2. CASE k # m
        <5>1. k \in 0 .. m - 1
          BY <3>1, <4>2
        <5>2. h[k] = s[k] /\ (k # 0 => h[k - 1] = s[k - 1])
          BY <3>1, <4>2, <5>1
        <5>3. s[k] = IF k = 0 THEN 0 ELSE s[k - 1] + f[k - 1]
          BY <3>2, <5>1
        <5> QED
          BY <5>2, <5>3
      <4> QED
        BY <4>1, <4>2
    <3>4. Eq(h, m)
      BY <3>3
    <3> QED
      BY <2>2, <3>4
  <2> QED
    BY <2>3, <2>4
<1>2. \E s : IsSum(s, f)
  BY <1>0, <1>1 DEF IsSum
<1>3. IsSum(Sums(f), f)
  <2> HIDE DEF Eq
  <2> QED
    BY <1>2 DEF Sums
<1>4. Total(f) = Sums(f)[BlockSize]
  BY DEF Total, Sums, IsSum
<1> DEFINE r == Sums(f)
<1> HIDE DEF r
<1>5. r = [n \in 0 .. BlockSize |-> IF n = 0 THEN 0 ELSE r[n - 1] + f[n - 1]]
  BY <1>3 DEF IsSum, r
<1>6. r[0] = 0
  BY <1>0, <1>5
<1>7. ASSUME NEW t \in Txs PROVE r[t + 1] = r[t] + f[t]
  <2>1. t + 1 \in 0 .. BlockSize /\ t + 1 # 0 /\ (t + 1) - 1 = t
    BY <1>0 DEF Txs
  <2> QED
    BY <1>5, <2>1
<1> QED
  BY <1>4, <1>6, <1>7 DEF r

\* Two sums whose terms differ at t only.
LEMMA SumStep ==
  ASSUME NEW f \in [Txs -> Int], NEW g \in [Txs -> Int], NEW t \in Txs,
         \A u \in Txs \ {t} : g[u] = f[u]
  PROVE  Total(f) \in Int /\ Total(g) = Total(f) + (g[t] - f[t])
<1> DEFINE P(n) == /\ Sums(f)[n] \in Int
                   /\ Sums(g)[n] = IF n > t THEN Sums(f)[n] + (g[t] - f[t]) ELSE Sums(f)[n]
           Bad == {n \in 0 .. BlockSize : ~P(n)}
<1>0. BlockSize \in Nat /\ t \in Nat /\ t < BlockSize
  BY BlockSizeAssumption, TxsFacts DEF Txs
<1>1. ASSUME Bad # {} PROVE FALSE
  <2>1. Bad \in SUBSET Nat
    BY <1>0
  <2>2. PICK m \in Bad : \A n \in Bad : ~(n < m)
    BY <1>1, <2>1, Least
  <2>3. m # 0
    <3>1. P(0)
      BY <1>0, SumsAre
    <3> QED
      BY <2>2, <3>1
  <2>4. m - 1 \in Txs /\ m - 1 \in 0 .. BlockSize /\ m - 1 < m /\ (m - 1) + 1 = m /\ m \in Nat
    BY <1>0, <2>2, <2>3 DEF Txs
  <2>5. P(m - 1)
    BY <2>2, <2>4
  <2>6. Sums(f)[m] = Sums(f)[m - 1] + f[m - 1] /\ Sums(g)[m] = Sums(g)[m - 1] + g[m - 1]
    BY <2>4, SumsAre
  <2>7. f[m - 1] \in Int /\ g[m - 1] \in Int /\ f[t] \in Int /\ g[t] \in Int
    BY <2>4
  <2>8. m - 1 # t => g[m - 1] = f[m - 1]
    BY <2>4
  <2>9. P(m)
    <3> DEFINE a == Sums(f)[m - 1]
               b == Sums(g)[m - 1]
               c == f[m - 1]
               d == g[m - 1]
    <3>1. a \in Int /\ c \in Int /\ d \in Int /\ b = IF m - 1 > t THEN a + (g[t] - f[t]) ELSE a
      BY <2>5, <2>7
    <3>2. Sums(f)[m] = a + c /\ Sums(g)[m] = b + d
      BY <2>6
    <3>3. m - 1 = t => c = f[t] /\ d = g[t]
      OBVIOUS
    <3>4. m - 1 # t => d = c
      BY <2>8
    <3> HIDE DEF a, b, c, d
    <3> QED
      BY <1>0, <2>4, <2>7, <3>1, <3>2, <3>3, <3>4
  <2> QED
    BY <2>2, <2>9
<1>2. P(BlockSize)
  BY <1>0, <1>1
<1> QED
  BY <1>0, <1>2, SumsAre

\* The sum of nothing.
LEMMA SumOfNothing ==
  ASSUME NEW f, \A u \in Txs : f[u] = 0
  PROVE  Total(f) = 0
<1> DEFINE Bad == {n \in 0 .. BlockSize : Sums(f)[n] # 0}
<1>0. BlockSize \in Nat
  BY BlockSizeAssumption
<1>1. ASSUME Bad # {} PROVE FALSE
  <2>1. Bad \in SUBSET Nat
    BY <1>0
  <2>2. PICK m \in Bad : \A n \in Bad : ~(n < m)
    BY <1>1, <2>1, Least
  <2>3. m # 0
    BY <2>2, SumsAre
  <2>4. m - 1 \in Txs /\ m - 1 \in 0 .. BlockSize /\ m - 1 < m /\ (m - 1) + 1 = m
    BY <1>0, <2>2, <2>3 DEF Txs
  <2>5. Sums(f)[m - 1] = 0
    BY <2>2, <2>4
  <2>6. Sums(f)[m] = Sums(f)[m - 1] + f[m - 1]
    BY <2>4, SumsAre
  <2>7. Sums(f)[m] = 0
    BY <2>4, <2>5, <2>6
  <2> QED
    BY <2>2, <2>7
<1> QED
  BY <1>0, <1>1, SumsAre

-----------------------------------------------------------------------------
(* What a transaction does to the accounts *)

AccountSet == [balance : Nat, nonce : Nat]
IsTx(x) ==
  /\ x.from \in Accounts /\ x.to \in Accounts
  /\ x.value \in Nat /\ x.nonce \in Nat /\ x.gasLimit \in Nat /\ x.price \in Nat
  /\ x.gasLimit >= TransferGas + (IF x.kind = "transfer" THEN 0 ELSE NewAccountGas)

\* The transaction passes its value on to another account.
Pays(x, acc) == x.from # x.to /\ ~(x.kind = "greet" /\ acc[x.to] # Empty)

\* Accounts are the records with these two fields.
LEMMA AccountFacts ==
  /\ \A r \in AccountSet : r.balance \in Nat /\ r.nonce \in Nat /\ r = [balance |-> r.balance, nonce |-> r.nonce]
  /\ \A b, n \in Nat : [balance |-> b, nonce |-> n] \in AccountSet
  /\ Empty \in AccountSet
  BY DEF AccountSet, Empty

\* Products of numbers are monotonic.
LEMMA Monotonic ==
  ASSUME NEW a \in Nat, NEW b \in Nat, NEW c \in Nat, a <= b
  PROVE  c * a \in Nat /\ c * a <= c * b /\ a * c \in Nat /\ a * c <= b * c
<1>1. b - a \in Nat /\ b = a + (b - a)
  OBVIOUS
<1>2. c * (b - a) \in Nat /\ (b - a) * c \in Nat /\ c * a \in Nat /\ a * c \in Nat
  BY <1>1
<1>3. c * b = c * a + c * (b - a) /\ b * c = a * c + (b - a) * c
  BY <1>1
<1> QED
  BY <1>2, <1>3

\* The gas is within its limit, the reward within the fee, and the fee with
\* the value within what the sender must have.
LEMMA FeeFacts ==
  ASSUME NEW x, IsTx(x), NEW to
  PROVE  LET gas == Gas(x, to)
         IN /\ gas \in Nat /\ gas <= x.gasLimit
            /\ x.price * gas \in Nat /\ Reward(x, gas) \in Nat /\ Reward(x, gas) <= x.price * gas
            /\ MaxFee(x) \in Nat /\ x.price * gas + x.value <= MaxFee(x)
<1> DEFINE gas == Gas(x, to)
<1>1. gas \in Nat /\ gas <= x.gasLimit
  BY BalancesAssumption DEF Gas, IsTx
<1> HIDE DEF gas
<1>2. x.price * gas \in Nat /\ x.price * gas <= x.price * x.gasLimit /\ x.price * x.gasLimit = x.gasLimit * x.price
  BY <1>1, Monotonic DEF IsTx
<1>3. SaturatingSub(x.price, BaseFee) \in Nat /\ SaturatingSub(x.price, BaseFee) <= x.price
  BY BalancesAssumption DEF SaturatingSub, IsTx
<1>4. Reward(x, gas) \in Nat /\ Reward(x, gas) <= x.price * gas
  BY <1>1, <1>3, Monotonic DEF Reward, IsTx
<1>5. x.gasLimit * x.price \in Nat
  BY Monotonic DEF IsTx
<1> QED
  BY <1>1, <1>2, <1>4, <1>5 DEF MaxFee, gas, IsTx

\* The accounts that a transaction touches.
LEMMA AfterNames ==
  ASSUME NEW x, NEW acc, NEW gas
  PROVE  DOMAIN After(x, acc, gas) = IF Pays(x, acc) THEN {x.from, x.to} ELSE {x.from}
  BY DEF After, Pays

\* After, account by account.
LEMMA AfterIs ==
  ASSUME NEW x, NEW acc, NEW gas
  PROVE  /\ DOMAIN After(x, acc, gas) = IF Pays(x, acc) THEN {x.from, x.to} ELSE {x.from}
         /\ After(x, acc, gas)[x.from] =
              [balance |-> IF Pays(x, acc) THEN (acc[x.from].balance - x.price * gas) - x.value
                                           ELSE acc[x.from].balance - x.price * gas,
               nonce   |-> acc[x.from].nonce + 1]
         /\ Pays(x, acc) => After(x, acc, gas)[x.to] = [acc[x.to] EXCEPT !.balance = @ + x.value]
  BY DEF After, Pays

\* A payment leaves the account of another with its nonce.
LEMMA PaidIs ==
  ASSUME NEW r \in AccountSet, NEW n \in Nat
  PROVE  /\ [r EXCEPT !.balance = @ + n] = [balance |-> r.balance + n, nonce |-> r.nonce]
         /\ [r EXCEPT !.balance = @ + n] \in AccountSet
  BY DEF AccountSet

\* The account that is paid.
LEMMA AfterPaid ==
  ASSUME NEW x, NEW acc, NEW gas, NEW r \in AccountSet, acc[x.to] = r, x.value \in Nat, Pays(x, acc)
  PROVE  After(x, acc, gas)[x.to] = [balance |-> r.balance + x.value, nonce |-> r.nonce]
<1>1. After(x, acc, gas)[x.to] = [r EXCEPT !.balance = @ + x.value]
  BY DEF After, Pays
<1> QED
  BY <1>1, PaidIs

\* Sequential execution, account by account.
LEMMA SeqAfterIs ==
  ASSUME NEW x, IsTx(x), NEW s \in [Accounts -> AccountSet], Affordable(x, s[x.from]), NEW a \in Accounts
  PROVE  LET gas == Gas(x, s[x.to])
         IN SeqAfter(x, s)[a] =
              [balance |-> s[a].balance - (IF a = x.from THEN x.price * gas ELSE 0)
                             - (IF Pays(x, s) /\ a = x.from THEN x.value ELSE 0)
                             + (IF Pays(x, s) /\ a = x.to THEN x.value ELSE 0)
                             + (IF a = Coinbase THEN Reward(x, gas) ELSE 0),
               nonce   |-> s[a].nonce + (IF a = x.from THEN 1 ELSE 0)]
            /\ SeqAfter(x, s)[a] \in AccountSet
<1> DEFINE gas == Gas(x, s[x.to])
           after == After(x, s, gas)
           moved == [c \in Accounts |-> IF c \in DOMAIN after THEN after[c] ELSE s[c]]
           fee == x.price * gas
           r == Reward(x, gas)
<1>1. /\ gas \in Nat /\ fee \in Nat /\ r \in Nat /\ x.value \in Nat
      /\ MaxFee(x) \in Nat /\ fee + x.value <= MaxFee(x)
  BY FeeFacts DEF IsTx
<1>2. s[x.from].balance >= MaxFee(x)
  BY DEF Affordable
<1>3. SeqAfter(x, s) = [moved EXCEPT ![Coinbase].balance = @ + r]
  BY DEF SeqAfter
<1>4. x.from \in Accounts /\ x.to \in Accounts /\ Coinbase \in Accounts
  BY CoinbaseAssumption DEF IsTx
<1>5. \A c \in Accounts : /\ s[c].balance \in Nat /\ s[c].nonce \in Nat
                         /\ s[c] = [balance |-> s[c].balance, nonce |-> s[c].nonce]
  BY AccountFacts
<1>6. /\ DOMAIN after = IF Pays(x, s) THEN {x.from, x.to} ELSE {x.from}
      /\ after[x.from] =
              [balance |-> IF Pays(x, s) THEN (s[x.from].balance - fee) - x.value
                                         ELSE s[x.from].balance - fee,
               nonce   |-> s[x.from].nonce + 1]
      /\ Pays(x, s) => after[x.to] = [balance |-> s[x.to].balance + x.value, nonce |-> s[x.to].nonce]
  <2> HIDE DEF gas
  <2>1. Pays(x, s) => after[x.to] = [s[x.to] EXCEPT !.balance = @ + x.value]
    BY AfterIs
  <2>2. [s[x.to] EXCEPT !.balance = @ + x.value] = [balance |-> s[x.to].balance + x.value, nonce |-> s[x.to].nonce]
    <3>1. s[x.to] \in AccountSet /\ x.value \in Nat
      BY <1>1, <1>4
    <3> QED
      BY <3>1, PaidIs
  <2> QED
    BY <2>1, <2>2, AfterIs, ZenonT(40)
<1> HIDE DEF after, gas, fee, r
<1>7. moved[a] = [balance |-> s[a].balance - (IF a = x.from THEN fee ELSE 0)
                             - (IF Pays(x, s) /\ a = x.from THEN x.value ELSE 0)
                             + (IF Pays(x, s) /\ a = x.to THEN x.value ELSE 0),
                  nonce   |-> s[a].nonce + (IF a = x.from THEN 1 ELSE 0)]
  <2>1. moved[a] = IF a \in DOMAIN after THEN after[a] ELSE s[a]
    OBVIOUS
  <2> HIDE DEF moved
  <2>2. CASE a = x.from
    <3>1. Pays(x, s) => a # x.to
      BY <2>2 DEF Pays
    <3>2. moved[a] = after[x.from] /\ s[a] = s[x.from]
      BY <1>6, <2>1, <2>2
    <3> QED
      BY <1>1, <1>5, <1>6, <2>2, <3>1, <3>2
  <2>3. CASE a # x.from /\ Pays(x, s) /\ a = x.to
    <3>1. moved[a] = after[x.to] /\ s[a] = s[x.to]
      BY <1>6, <2>1, <2>3
    <3> QED
      BY <1>1, <1>5, <1>6, <2>3, <3>1
  <2>4. CASE a # x.from /\ ~(Pays(x, s) /\ a = x.to)
    <3>1. moved[a] = s[a]
      BY <1>6, <2>1, <2>4
    <3>2. s[a].balance - 0 - 0 + 0 = s[a].balance /\ s[a].nonce + 0 = s[a].nonce
      BY <1>5
    <3> QED
      BY <1>5, <2>4, <3>1, <3>2
  <2> QED
    BY <2>2, <2>3, <2>4
<1>8. SeqAfter(x, s)[a] = [balance |-> moved[a].balance + (IF a = Coinbase THEN r ELSE 0), nonce |-> moved[a].nonce]
  <2> DEFINE b == moved[a].balance
             n == moved[a].nonce
  <2>1. moved[a] = [balance |-> b, nonce |-> n] /\ b \in Int
    BY <1>1, <1>5, <1>7
  <2>2. DOMAIN moved = Accounts
    OBVIOUS
  <2> HIDE DEF moved, b, n
  <2>3. CASE a = Coinbase
    <3>1. SeqAfter(x, s)[a] = [moved[a] EXCEPT !.balance = @ + r]
      BY <1>3, <2>2, <2>3
    <3>2. [[balance |-> b, nonce |-> n] EXCEPT !.balance = @ + r] = [balance |-> b + r, nonce |-> n]
      OBVIOUS
    <3> QED
      BY <2>1, <2>3, <3>1, <3>2
  <2>4. CASE a # Coinbase
    <3>1. SeqAfter(x, s)[a] = moved[a]
      BY <1>3, <2>2, <2>4
    <3> QED
      BY <2>1, <2>4, <3>1
  <2> QED
    BY <2>3, <2>4
<1>9. SeqAfter(x, s)[a] =
              [balance |-> s[a].balance - (IF a = x.from THEN fee ELSE 0)
                             - (IF Pays(x, s) /\ a = x.from THEN x.value ELSE 0)
                             + (IF Pays(x, s) /\ a = x.to THEN x.value ELSE 0)
                             + (IF a = Coinbase THEN r ELSE 0),
               nonce   |-> s[a].nonce + (IF a = x.from THEN 1 ELSE 0)]
  <2> HIDE DEF moved
  <2> QED
    BY <1>7, <1>8
<1>10. SeqAfter(x, s)[a] \in AccountSet
  <2> DEFINE n == s[a].nonce + (IF a = x.from THEN 1 ELSE 0)
             k == s[a].balance - (IF a = x.from THEN fee ELSE 0)
                             - (IF Pays(x, s) /\ a = x.from THEN x.value ELSE 0)
                             + (IF Pays(x, s) /\ a = x.to THEN x.value ELSE 0)
                             + (IF a = Coinbase THEN r ELSE 0)
  <2>1. n \in Nat
    BY <1>5
  <2>2. k \in Nat
    <3>1. a = x.from => s[a].balance >= fee + x.value
      BY <1>1, <1>2, <1>5
    <3>2. s[a].balance \in Nat
      BY <1>5
    <3> QED
      BY <1>1, <3>1, <3>2
  <2> HIDE DEF n, k
  <2>3. [balance |-> k, nonce |-> n] \in AccountSet
    BY <2>1, <2>2, AccountFacts
  <2> QED
    BY <1>9, <2>3 DEF n, k
<1> QED
  BY <1>9, <1>10 DEF gas, fee, r

\* What an entry makes of an account.
Applied(v, acc) ==
  CASE v.type = "Basic"         -> v.account
    [] v.type = "LazyRecipient" -> [balance |-> acc.balance + v.amount, nonce |-> acc.nonce]
    [] v.type = "LazySender"    -> [balance |-> acc.balance - v.amount, nonce |-> acc.nonce + 1]

\* The kinds of values.
LEMMA ValueKinds ==
  /\ \A c : Basic(c).type = "Basic" /\ Basic(c).account = c
  /\ \A n : LazyRecipient(n).type = "LazyRecipient" /\ LazyRecipient(n).amount = n
  /\ \A n : LazySender(n).type = "LazySender" /\ LazySender(n).amount = n
  BY DEF Basic, LazyRecipient, LazySender

\* What each makes of an account.
LEMMA AppliedIs ==
  ASSUME NEW acc
  PROVE  /\ \A c : Applied(Basic(c), acc) = c
         /\ \A n : Applied(LazyRecipient(n), acc) = [balance |-> acc.balance + n, nonce |-> acc.nonce]
         /\ \A n : Applied(LazySender(n), acc) = [balance |-> acc.balance - n, nonce |-> acc.nonce + 1]
  BY ValueKinds DEF Applied

\* apply_rewards, by the kind of the beneficiary's entry.
LEMMA RewardedIs ==
  ASSUME NEW writes, NEW r
  PROVE  /\ DOMAIN Rewarded(writes, r) = {Coinbase} \cup DOMAIN writes
         /\ \A a \in DOMAIN writes : a # Coinbase => Rewarded(writes, r)[a] = writes[a]
         /\ Coinbase \notin DOMAIN writes => Rewarded(writes, r)[Coinbase] = LazyRecipient(r)
         /\ \A c \in AccountSet : Coinbase \in DOMAIN writes /\ writes[Coinbase] = Basic(c) =>
              Rewarded(writes, r)[Coinbase] = Basic([balance |-> c.balance + r, nonce |-> c.nonce])
         /\ \A n : Coinbase \in DOMAIN writes /\ writes[Coinbase] = LazyRecipient(n) =>
              Rewarded(writes, r)[Coinbase] = LazyRecipient(n + r)
         /\ \A n : Coinbase \in DOMAIN writes /\ writes[Coinbase] = LazySender(n) =>
              Rewarded(writes, r)[Coinbase] = LazySender(SaturatingSub(n, r))
<1> DEFINE v == writes[Coinbase]
           with == CASE v.type = "Basic"         -> [v EXCEPT !.account.balance = @ + r]
                     [] v.type = "LazySender"    -> [v EXCEPT !.amount = SaturatingSub(@, r)]
                     [] v.type = "LazyRecipient" -> [v EXCEPT !.amount = @ + r]
<1>1. Rewarded(writes, r) = [a \in DOMAIN writes \cup {Coinbase} |->
        IF a # Coinbase THEN writes[a]
        ELSE IF a \in DOMAIN writes THEN with ELSE LazyRecipient(r)]
  BY DEF Rewarded
<1>2. ASSUME NEW c \in AccountSet, v = Basic(c)
      PROVE  with = Basic([balance |-> c.balance + r, nonce |-> c.nonce])
  <2>1. with = [v EXCEPT !.account.balance = @ + r]
    BY <1>2, ValueKinds
  <2>2. c = [balance |-> c.balance, nonce |-> c.nonce]
    BY AccountFacts
  <2> QED
    BY <1>2, <2>1, <2>2 DEF Basic
<1>3. ASSUME NEW n, v = LazyRecipient(n) PROVE with = LazyRecipient(n + r)
  <2>1. with = [v EXCEPT !.amount = @ + r]
    BY <1>3, ValueKinds
  <2> QED
    BY <1>3, <2>1 DEF LazyRecipient
<1>4. ASSUME NEW n, v = LazySender(n) PROVE with = LazySender(SaturatingSub(n, r))
  <2>1. with = [v EXCEPT !.amount = SaturatingSub(@, r)]
    BY <1>4, ValueKinds
  <2> QED
    BY <1>4, <2>1 DEF LazySender
<1> HIDE DEF with
<1>5. /\ DOMAIN Rewarded(writes, r) = {Coinbase} \cup DOMAIN writes
      /\ \A a \in DOMAIN writes : a # Coinbase => Rewarded(writes, r)[a] = writes[a]
      /\ Coinbase \notin DOMAIN writes => Rewarded(writes, r)[Coinbase] = LazyRecipient(r)
      /\ Coinbase \in DOMAIN writes => Rewarded(writes, r)[Coinbase] = with
  BY <1>1
<1> QED
  BY <1>2, <1>3, <1>4, <1>5

\* What an entry of a in the write set of x is.
WriteKind(x, v, a) ==
  \/ \E c \in AccountSet : v = Basic(c)
  \/ \E n \in Nat : v = LazyRecipient(n) /\ a # x.from
  \/ \E n \in Nat : v = LazySender(n) /\ a = x.from /\ n <= MaxFee(x)

\* Write set W makes of the accounts s what sequential execution makes of them.
WritesApply(x, s, W) ==
  /\ \A a \in DOMAIN W : WriteKind(x, W[a], a) /\ Applied(W[a], s[a]) = SeqAfter(x, s)[a]
  /\ \A a \in Accounts \ DOMAIN W : SeqAfter(x, s)[a] = s[a]

\* A result has the accounts of sequential execution, the beneficiary's excepted.
StateApplies(x, s, state) == \A a \in DOMAIN state \ {Coinbase} : state[a] = SeqAfter(x, s)[a]

\* A lazy transfer: its amounts change every account as sequential execution
\* does, whatever the state is.
LEMMA LazyWritesApply ==
  ASSUME NEW x, IsTx(x), NEW s \in [Accounts -> AccountSet], Affordable(x, s[x.from]), x.kind = "transfer", NEW g
  PROVE  LET W == Writes(x, TRUE, g)
         IN /\ GasUsed(x, TRUE, g) = Gas(x, s[x.to])
            /\ DOMAIN StateAfter(x, TRUE, g) = DOMAIN After(x, s, 0)
            /\ DOMAIN W = {x.from, x.to, Coinbase}
            /\ WritesApply(x, s, W)
            /\ \E n \in Nat : W[x.from] = LazySender(n)
<1> DEFINE W == Writes(x, TRUE, g)
           gas == Gas(x, s[x.to])
           fee == x.price * gas
           r == Reward(x, gas)
           V == AccountWrites(x, TRUE, g)
           sa == StateAfter(x, TRUE, g)
<1>1. GasUsed(x, TRUE, g) = gas
  BY DEF GasUsed, Gas
<1>2. Seen(x, TRUE, g) = Mock(x)
  BY DEF Seen
<1>3. /\ x.from \in Accounts /\ x.to \in Accounts /\ Coinbase \in Accounts
      /\ x.nonce \in Nat /\ x.value \in Nat /\ MaxBalance \in Nat
  BY CoinbaseAssumption, BalancesAssumption DEF IsTx
<1>4. Mock(x)[x.from].balance = MaxBalance /\ Mock(x)[x.from].nonce = x.nonce
  BY <1>3 DEF Mock
<1>5. (Pays(x, Mock(x)) <=> x.from # x.to) /\ (Pays(x, s) <=> x.from # x.to)
  BY DEF Pays
<1>6. sa = After(x, Mock(x), gas)
  BY <1>1, <1>2 DEF StateAfter
<1> HIDE DEF gas, sa
<1>7. /\ DOMAIN sa = {x.from, x.to}
      /\ sa[x.from].balance = IF x.from # x.to THEN (MaxBalance - fee) - x.value ELSE MaxBalance - fee
      /\ DOMAIN After(x, s, 0) = {x.from, x.to}
  <2>1. sa[x.from] = [balance |-> IF Pays(x, Mock(x)) THEN (Mock(x)[x.from].balance - x.price * gas) - x.value
                                           ELSE Mock(x)[x.from].balance - x.price * gas,
                      nonce   |-> Mock(x)[x.from].nonce + 1]
    BY <1>6, AfterIs, Zenon
  <2>2. sa[x.from].balance = IF x.from # x.to THEN (MaxBalance - fee) - x.value ELSE MaxBalance - fee
    BY <1>4, <1>5, <2>1
  <2>3. DOMAIN sa = (IF Pays(x, Mock(x)) THEN {x.from, x.to} ELSE {x.from})
    BY <1>6, AfterIs, Zenon
  <2>4. DOMAIN After(x, s, 0) = (IF Pays(x, s) THEN {x.from, x.to} ELSE {x.from})
    BY AfterIs, Zenon
  <2> QED
    BY <1>5, <2>2, <2>3, <2>4
<1>8. fee \in Nat /\ r \in Nat /\ r <= fee /\ MaxFee(x) \in Nat /\ fee + x.value <= MaxFee(x)
  BY FeeFacts DEF gas
<1> HIDE DEF fee, r
<1>9. /\ DOMAIN V = {x.from, x.to}
      /\ V[x.from] = LazySender(IF x.from # x.to THEN fee + x.value ELSE fee)
      /\ x.from # x.to => V[x.to] = LazyRecipient(x.value)
  <2>1. V = [a \in {x.from, x.to} |-> IF a = x.from THEN LazySender(MaxBalance - sa[a].balance)
                                                    ELSE LazyRecipient(x.value)]
    BY DEF AccountWrites, sa
  <2>2. MaxBalance - sa[x.from].balance = IF x.from # x.to THEN fee + x.value ELSE fee
    BY <1>3, <1>7, <1>8
  <2> HIDE DEF V
  <2> QED
    BY <2>1, <2>2
<1>10. W = Rewarded(V, r)
  BY <1>1 DEF Writes, r
<1> HIDE DEF V, W
<1>a. /\ DOMAIN W = {Coinbase} \cup DOMAIN V
      /\ \A a \in DOMAIN V : a # Coinbase => W[a] = V[a]
      /\ Coinbase \notin DOMAIN V => W[Coinbase] = LazyRecipient(r)
      /\ \A n : Coinbase \in DOMAIN V /\ V[Coinbase] = LazyRecipient(n) => W[Coinbase] = LazyRecipient(n + r)
      /\ \A n : Coinbase \in DOMAIN V /\ V[Coinbase] = LazySender(n) => W[Coinbase] = LazySender(SaturatingSub(n, r))
  <2> SUFFICES ASSUME NEW v, v = V, NEW k, k = r
               PROVE  /\ DOMAIN Rewarded(v, k) = {Coinbase} \cup DOMAIN v
                      /\ \A a \in DOMAIN v : a # Coinbase => Rewarded(v, k)[a] = v[a]
                      /\ Coinbase \notin DOMAIN v => Rewarded(v, k)[Coinbase] = LazyRecipient(k)
                      /\ \A n : Coinbase \in DOMAIN v /\ v[Coinbase] = LazyRecipient(n) =>
                           Rewarded(v, k)[Coinbase] = LazyRecipient(n + k)
                      /\ \A n : Coinbase \in DOMAIN v /\ v[Coinbase] = LazySender(n) =>
                           Rewarded(v, k)[Coinbase] = LazySender(SaturatingSub(n, k))
    BY <1>10, SMTT(30)
  <2>1. DOMAIN Rewarded(v, k) = {Coinbase} \cup DOMAIN v
    BY RewardedIs, Zenon
  <2>2. \A a \in DOMAIN v : a # Coinbase => Rewarded(v, k)[a] = v[a]
    BY RewardedIs, ZenonT(40)
  <2>3. Coinbase \notin DOMAIN v => Rewarded(v, k)[Coinbase] = LazyRecipient(k)
    BY RewardedIs, Zenon
  <2>4. \A n : Coinbase \in DOMAIN v /\ v[Coinbase] = LazyRecipient(n) =>
                           Rewarded(v, k)[Coinbase] = LazyRecipient(n + k)
    BY RewardedIs, SMT
  <2>5. \A n : Coinbase \in DOMAIN v /\ v[Coinbase] = LazySender(n) =>
                           Rewarded(v, k)[Coinbase] = LazySender(SaturatingSub(n, k))
    BY RewardedIs, SMT
  <2> QED
    BY <2>1, <2>2, <2>3, <2>4, <2>5
<1>11. DOMAIN W = {x.from, x.to, Coinbase}
  BY <1>9, <1>a
<1>12. \E n \in Nat : /\ W[x.from] = LazySender(n) /\ n <= MaxFee(x)
                      /\ n = (IF x.from # x.to THEN fee + x.value ELSE fee) - (IF x.from = Coinbase THEN r ELSE 0)
  <2> DEFINE n == IF x.from # x.to THEN fee + x.value ELSE fee
  <2>1. n \in Nat /\ n <= MaxFee(x) /\ r <= n
    BY <1>3, <1>8
  <2>2. CASE x.from # Coinbase
    <3>1. W[x.from] = LazySender(n)
      BY <1>9, <1>a, <2>2
    <3>2. n - 0 = n
      BY <2>1
    <3> QED
      BY <2>1, <2>2, <3>1, <3>2
  <2>3. CASE x.from = Coinbase
    <3>1. W[x.from] = LazySender(SaturatingSub(n, r))
      BY <1>9, <1>a, <2>3
    <3>2. SaturatingSub(n, r) = n - r /\ n - r \in Nat /\ n - r <= MaxFee(x)
      BY <1>8, <2>1 DEF SaturatingSub
    <3> QED
      BY <2>3, <3>1, <3>2
  <2> QED
    BY <2>2, <2>3
<1>13. ASSUME NEW a \in DOMAIN W, a # x.from
       PROVE  \E n \in Nat : /\ W[a] = LazyRecipient(n)
                             /\ n = (IF a = x.to THEN x.value ELSE 0) + (IF a = Coinbase THEN r ELSE 0)
  <2>1. CASE a = x.to /\ a # Coinbase
    <3>1. W[a] = LazyRecipient(x.value)
      BY <1>9, <1>a, <1>13, <2>1
    <3> QED
      BY <1>3, <2>1, <3>1
  <2>2. CASE a = x.to /\ a = Coinbase
    <3>1. W[a] = LazyRecipient(x.value + r)
      BY <1>9, <1>a, <1>13, <2>2
    <3> QED
      BY <1>3, <1>8, <2>2, <3>1
  <2>3. CASE a # x.to
    <3>0. a = Coinbase
      BY <1>11, <1>13, <2>3
    <3>1. W[a] = LazyRecipient(r)
      BY <1>9, <1>a, <1>13, <2>3, <3>0
    <3> QED
      BY <1>8, <2>3, <3>0, <3>1
  <2> QED
    BY <2>1, <2>2, <2>3
<1>14. ASSUME NEW a \in Accounts
       PROVE  /\ SeqAfter(x, s)[a] =
                [balance |-> s[a].balance - (IF a = x.from THEN fee ELSE 0)
                             - (IF x.from # x.to /\ a = x.from THEN x.value ELSE 0)
                             + (IF x.from # x.to /\ a = x.to THEN x.value ELSE 0)
                             + (IF a = Coinbase THEN r ELSE 0),
                 nonce   |-> s[a].nonce + (IF a = x.from THEN 1 ELSE 0)]
              /\ s[a].balance \in Nat /\ s[a].nonce \in Nat /\ s[a] = [balance |-> s[a].balance, nonce |-> s[a].nonce]
  <2>1. s[a] \in AccountSet
    OBVIOUS
  <2>2. s[a].balance \in Nat /\ s[a].nonce \in Nat /\ s[a] = [balance |-> s[a].balance, nonce |-> s[a].nonce]
    BY <2>1, AccountFacts
  <2> QED
    BY <1>5, <2>2, SeqAfterIs DEF fee, r, gas
<1>15. ASSUME NEW a \in DOMAIN W PROVE WriteKind(x, W[a], a) /\ Applied(W[a], s[a]) = SeqAfter(x, s)[a]
  <2>0. a \in Accounts
    BY <1>3, <1>11
  <2>a. s[a].balance \in Nat /\ s[a].nonce \in Nat
    BY <1>14, <2>0
  <2>1. CASE a = x.from
    <3>1. PICK n \in Nat : /\ W[a] = LazySender(n) /\ n <= MaxFee(x)
                           /\ n = (IF x.from # x.to THEN fee + x.value ELSE fee) - (IF x.from = Coinbase THEN r ELSE 0)
      BY <1>12, <2>1
    <3>2. Applied(W[a], s[a]) = [balance |-> s[a].balance - n, nonce |-> s[a].nonce + 1]
      BY <3>1, AppliedIs
    <3>3. s[a].balance - n = s[a].balance - (IF a = x.from THEN fee ELSE 0)
                             - (IF x.from # x.to /\ a = x.from THEN x.value ELSE 0)
                             + (IF x.from # x.to /\ a = x.to THEN x.value ELSE 0)
                             + (IF a = Coinbase THEN r ELSE 0)
      BY <1>3, <1>8, <2>a, <2>1, <3>1
    <3>4. Applied(W[a], s[a]) = SeqAfter(x, s)[a]
      BY <1>14, <2>0, <2>1, <3>2, <3>3
    <3> QED
      BY <2>1, <3>1, <3>4 DEF WriteKind
  <2>2. CASE a # x.from
    <3>1. PICK n \in Nat : /\ W[a] = LazyRecipient(n)
                           /\ n = (IF a = x.to THEN x.value ELSE 0) + (IF a = Coinbase THEN r ELSE 0)
      BY <1>13, <2>2
    <3>2. Applied(W[a], s[a]) = [balance |-> s[a].balance + n, nonce |-> s[a].nonce]
      BY <3>1, AppliedIs
    <3>3. /\ s[a].balance + n = s[a].balance - (IF a = x.from THEN fee ELSE 0)
                             - (IF x.from # x.to /\ a = x.from THEN x.value ELSE 0)
                             + (IF x.from # x.to /\ a = x.to THEN x.value ELSE 0)
                             + (IF a = Coinbase THEN r ELSE 0)
          /\ s[a].nonce = s[a].nonce + (IF a = x.from THEN 1 ELSE 0)
      BY <1>3, <1>8, <2>a, <2>2, <3>1
    <3>4. Applied(W[a], s[a]) = SeqAfter(x, s)[a]
      BY <1>14, <2>0, <2>2, <3>2, <3>3
    <3> QED
      BY <2>2, <3>1, <3>4 DEF WriteKind
  <2> QED
    BY <2>1, <2>2
<1>16. ASSUME NEW a \in Accounts \ DOMAIN W PROVE SeqAfter(x, s)[a] = s[a]
  <2>1. a # x.from /\ a # x.to /\ a # Coinbase
    BY <1>11
  <2>2. s[a].balance \in Nat /\ s[a].nonce \in Nat /\ s[a] = [balance |-> s[a].balance, nonce |-> s[a].nonce]
    BY <1>14
  <2>3. SeqAfter(x, s)[a] = [balance |-> s[a].balance - 0 - 0 + 0 + 0, nonce |-> s[a].nonce + 0]
    BY <1>14, <2>1
  <2> QED
    BY <2>2, <2>3
<1>17. WritesApply(x, s, W)
  BY <1>15, <1>16 DEF WritesApply
<1> QED
  BY <1>1, <1>7, <1>11, <1>12, <1>17 DEF W, gas, sa

\* A transaction that has read its two accounts: what it writes is what
\* sequential execution makes of them, and what it does not write is unchanged.
LEMMA ReadWritesApply ==
  ASSUME NEW x, IsTx(x), NEW s \in [Accounts -> AccountSet], Affordable(x, s[x.from]), NEW g,
         g[x.from] = s[x.from], g[x.to] = s[x.to]
  PROVE  LET W == Writes(x, FALSE, g)
         IN /\ GasUsed(x, FALSE, g) = Gas(x, s[x.to])
            /\ DOMAIN StateAfter(x, FALSE, g) = DOMAIN After(x, s, 0)
            /\ DOMAIN W \subseteq DOMAIN StateAfter(x, FALSE, g) \cup {Coinbase}
            /\ Coinbase \in DOMAIN W
            /\ WritesApply(x, s, W)
            /\ StateApplies(x, s, StateAfter(x, FALSE, g))
<1> DEFINE W == Writes(x, FALSE, g)
           gas == Gas(x, s[x.to])
           fee == x.price * gas
           r == Reward(x, gas)
           V == AccountWrites(x, FALSE, g)
           sa == StateAfter(x, FALSE, g)
<1>1. GasUsed(x, FALSE, g) = gas
  BY DEF GasUsed, Seen
<1>2. Seen(x, FALSE, g) = g
  BY DEF Seen
<1>3. x.from \in Accounts /\ x.to \in Accounts /\ Coinbase \in Accounts /\ x.value \in Nat
  BY CoinbaseAssumption DEF IsTx
<1>4. \A c \in Accounts : /\ s[c].balance \in Nat /\ s[c].nonce \in Nat
                         /\ s[c] = [balance |-> s[c].balance, nonce |-> s[c].nonce]
  BY AccountFacts
<1>5. Pays(x, g) <=> Pays(x, s)
  BY DEF Pays
<1>6. sa = After(x, g, gas)
  BY <1>1, <1>2 DEF StateAfter
<1>8. /\ fee \in Nat /\ r \in Nat /\ r <= fee
      /\ MaxFee(x) \in Nat /\ fee + x.value <= MaxFee(x) /\ s[x.from].balance >= MaxFee(x)
  BY FeeFacts DEF Affordable
<1> HIDE DEF gas, sa
<1>7. /\ DOMAIN sa = IF Pays(x, s) THEN {x.from, x.to} ELSE {x.from}
      /\ DOMAIN After(x, s, 0) = DOMAIN sa
      /\ sa[x.from] = [balance |-> IF Pays(x, s) THEN (s[x.from].balance - fee) - x.value
                                                 ELSE s[x.from].balance - fee,
                       nonce   |-> s[x.from].nonce + 1]
      /\ Pays(x, s) => sa[x.to] = [balance |-> s[x.to].balance + x.value, nonce |-> s[x.to].nonce]
  <2>1. sa[x.from] = [balance |-> IF Pays(x, g) THEN (g[x.from].balance - x.price * gas) - x.value
                                           ELSE g[x.from].balance - x.price * gas,
                      nonce   |-> g[x.from].nonce + 1]
    BY <1>6, AfterIs, Zenon
  <2>2. DOMAIN sa = (IF Pays(x, g) THEN {x.from, x.to} ELSE {x.from})
    BY <1>6, AfterNames
  <2>3. DOMAIN After(x, s, 0) = (IF Pays(x, s) THEN {x.from, x.to} ELSE {x.from})
    BY AfterNames
  <2>4. Pays(x, g) => sa[x.to] = [balance |-> s[x.to].balance + x.value, nonce |-> s[x.to].nonce]
    <3>1. s[x.to] \in AccountSet
      BY <1>3
    <3> QED
      BY <1>3, <1>6, <3>1, AfterPaid
  <2> QED
    BY <1>5, <2>1, <2>2, <2>3, <2>4
<1> HIDE DEF fee, r
<1>9. ASSUME NEW a \in Accounts
      PROVE  SeqAfter(x, s)[a] =
                [balance |-> s[a].balance - (IF a = x.from THEN fee ELSE 0)
                             - (IF Pays(x, s) /\ a = x.from THEN x.value ELSE 0)
                             + (IF Pays(x, s) /\ a = x.to THEN x.value ELSE 0)
                             + (IF a = Coinbase THEN r ELSE 0),
                 nonce   |-> s[a].nonce + (IF a = x.from THEN 1 ELSE 0)]
  BY SeqAfterIs DEF fee, r, gas
<1>10. ASSUME NEW a \in DOMAIN sa
       PROVE  /\ a \in Accounts /\ sa[a] \in AccountSet
              /\ SeqAfter(x, s)[a] = [balance |-> sa[a].balance + (IF a = Coinbase THEN r ELSE 0), nonce |-> sa[a].nonce]
  <2>1. CASE a = x.from
    <3>0. Pays(x, s) => a # x.to
      BY <2>1 DEF Pays
    <3> DEFINE k == IF Pays(x, s) THEN (s[x.from].balance - fee) - x.value ELSE s[x.from].balance - fee
               n == s[x.from].nonce + 1
    <3>1. sa[a] = [balance |-> k, nonce |-> n]
      BY <1>7, <2>1
    <3>2. k \in Nat /\ n \in Nat
      <4>1. s[x.from].balance \in Nat /\ s[x.from].nonce \in Nat
        BY <1>3, <1>4
      <4> QED
        BY <1>3, <1>8, <4>1
    <3>3. SeqAfter(x, s)[a] = [balance |-> k + (IF a = Coinbase THEN r ELSE 0), nonce |-> n]
      <4>1. s[x.from].balance \in Nat /\ s[x.from].nonce \in Nat
        BY <1>3, <1>4
      <4>2. k + (IF a = Coinbase THEN r ELSE 0) =
                s[a].balance - (IF a = x.from THEN fee ELSE 0)
                             - (IF Pays(x, s) /\ a = x.from THEN x.value ELSE 0)
                             + (IF Pays(x, s) /\ a = x.to THEN x.value ELSE 0)
                             + (IF a = Coinbase THEN r ELSE 0)
        BY <1>3, <1>8, <2>1, <3>0, <4>1
      <4> QED
        BY <1>3, <1>9, <2>1, <4>2
    <3> HIDE DEF k, n
    <3> QED
      BY <1>3, <2>1, <3>1, <3>2, <3>3, AccountFacts
  <2>2. CASE a # x.from
    <3>0. Pays(x, s) /\ a = x.to
      BY <1>7, <2>2
    <3> DEFINE k == s[x.to].balance + x.value
               n == s[x.to].nonce
    <3>1. sa[a] = [balance |-> k, nonce |-> n]
      BY <1>7, <3>0
    <3>2. k \in Nat /\ n \in Nat
      BY <1>3, <1>4
    <3>3. SeqAfter(x, s)[a] = [balance |-> k + (IF a = Coinbase THEN r ELSE 0), nonce |-> n]
      <4>1. s[x.to].balance \in Nat /\ s[x.to].nonce \in Nat
        BY <1>3, <1>4
      <4>2. /\ k + (IF a = Coinbase THEN r ELSE 0) =
                 s[a].balance - (IF a = x.from THEN fee ELSE 0)
                             - (IF Pays(x, s) /\ a = x.from THEN x.value ELSE 0)
                             + (IF Pays(x, s) /\ a = x.to THEN x.value ELSE 0)
                             + (IF a = Coinbase THEN r ELSE 0)
            /\ n = s[a].nonce + (IF a = x.from THEN 1 ELSE 0)
        BY <1>3, <1>8, <2>2, <3>0, <4>1
      <4> QED
        BY <1>3, <1>9, <3>0, <4>2
    <3> HIDE DEF k, n
    <3> QED
      BY <1>3, <3>0, <3>1, <3>2, <3>3, AccountFacts
  <2> QED
    BY <2>1, <2>2
<1>11. ASSUME NEW a \in Accounts \ DOMAIN sa
       PROVE  SeqAfter(x, s)[a] = [balance |-> s[a].balance + (IF a = Coinbase THEN r ELSE 0), nonce |-> s[a].nonce]
  <2>1. a # x.from /\ ~(Pays(x, s) /\ a = x.to)
    BY <1>7
  <2>2. s[a].balance \in Nat /\ s[a].nonce \in Nat
    BY <1>4
  <2>3. /\ s[a].balance + (IF a = Coinbase THEN r ELSE 0) =
                 s[a].balance - (IF a = x.from THEN fee ELSE 0)
                             - (IF Pays(x, s) /\ a = x.from THEN x.value ELSE 0)
                             + (IF Pays(x, s) /\ a = x.to THEN x.value ELSE 0)
                             + (IF a = Coinbase THEN r ELSE 0)
        /\ s[a].nonce = s[a].nonce + (IF a = x.from THEN 1 ELSE 0)
    BY <1>8, <2>1, <2>2
  <2> QED
    BY <1>9, <2>3
<1>12. V = [a \in {b \in DOMAIN sa : sa[b] \notin {g[b], Empty}} |-> Basic(sa[a])]
  BY DEF AccountWrites, sa
<1> HIDE DEF V
<1>13. DOMAIN V \subseteq DOMAIN sa /\ \A a \in DOMAIN V : V[a] = Basic(sa[a])
  BY <1>12
<1>14. x.from \in DOMAIN V
  <2>1. sa[x.from].nonce = s[x.from].nonce + 1 /\ s[x.from].nonce \in Nat /\ x.from \in DOMAIN sa
    BY <1>3, <1>4, <1>7
  <2>2. sa[x.from] # Empty
    <3>1. Empty.nonce = 0
      BY DEF Empty
    <3> QED
      BY <2>1, <3>1
  <2>3. sa[x.from] # g[x.from]
    BY <2>1
  <2> QED
    BY <1>12, <2>1, <2>2, <2>3
<1>15. ASSUME NEW a \in DOMAIN sa, a \notin DOMAIN V PROVE sa[a] = s[a]
  <2>1. a # x.from /\ Pays(x, s) /\ a = x.to /\ (sa[a] = g[a] \/ sa[a] = Empty)
    BY <1>7, <1>12, <1>14, <1>15
  <2>2. CASE sa[a] = Empty
    <3>1. sa[a] = [balance |-> s[a].balance + x.value, nonce |-> s[a].nonce]
      BY <1>7, <2>1
    <3>2. s[a].balance + x.value = 0 /\ s[a].nonce = 0
      BY <2>2, <3>1 DEF Empty
    <3>3. s[a].balance \in Nat /\ s[a].nonce \in Nat /\ s[a] = [balance |-> s[a].balance, nonce |-> s[a].nonce]
      BY <1>3, <1>4, <2>1
    <3>4. s[a].balance = 0
      BY <1>3, <3>2, <3>3
    <3> QED
      BY <2>2, <3>2, <3>3, <3>4 DEF Empty
  <2> QED
    BY <2>1, <2>2
<1>16. W = Rewarded(V, r)
  BY <1>1 DEF Writes, r, V
<1> HIDE DEF W
<1>a. /\ DOMAIN W = {Coinbase} \cup DOMAIN V
      /\ \A a \in DOMAIN V : a # Coinbase => W[a] = V[a]
      /\ Coinbase \notin DOMAIN V => W[Coinbase] = LazyRecipient(r)
      /\ \A c \in AccountSet : Coinbase \in DOMAIN V /\ V[Coinbase] = Basic(c) =>
           W[Coinbase] = Basic([balance |-> c.balance + r, nonce |-> c.nonce])
  <2> SUFFICES ASSUME NEW v, v = V, NEW k, k = r
               PROVE  /\ DOMAIN Rewarded(v, k) = {Coinbase} \cup DOMAIN v
                      /\ \A a \in DOMAIN v : a # Coinbase => Rewarded(v, k)[a] = v[a]
                      /\ Coinbase \notin DOMAIN v => Rewarded(v, k)[Coinbase] = LazyRecipient(k)
                      /\ \A c \in AccountSet : Coinbase \in DOMAIN v /\ v[Coinbase] = Basic(c) =>
                           Rewarded(v, k)[Coinbase] = Basic([balance |-> c.balance + k, nonce |-> c.nonce])
    BY <1>16
  <2>1. DOMAIN Rewarded(v, k) = {Coinbase} \cup DOMAIN v
    BY RewardedIs, Zenon
  <2>2. \A a \in DOMAIN v : a # Coinbase => Rewarded(v, k)[a] = v[a]
    BY RewardedIs, ZenonT(40)
  <2>3. Coinbase \notin DOMAIN v => Rewarded(v, k)[Coinbase] = LazyRecipient(k)
    BY RewardedIs, Zenon
  <2>4. \A c \in AccountSet : Coinbase \in DOMAIN v /\ v[Coinbase] = Basic(c) =>
           Rewarded(v, k)[Coinbase] = Basic([balance |-> c.balance + k, nonce |-> c.nonce])
    BY RewardedIs, SMT
  <2> QED
    BY <2>1, <2>2, <2>3, <2>4
<1>17. ASSUME NEW a \in DOMAIN W PROVE WriteKind(x, W[a], a) /\ Applied(W[a], s[a]) = SeqAfter(x, s)[a]
  <2>1. CASE a \in DOMAIN V /\ a # Coinbase
    <3>1. W[a] = Basic(sa[a]) /\ sa[a] \in AccountSet
      BY <1>a, <1>10, <1>13, <2>1
    <3>2. SeqAfter(x, s)[a] = [balance |-> sa[a].balance + 0, nonce |-> sa[a].nonce]
      BY <1>10, <1>13, <2>1
    <3>3. SeqAfter(x, s)[a] = sa[a]
      BY <3>1, <3>2, AccountFacts
    <3> DEFINE c == sa[a]
    <3> HIDE DEF c
    <3>4. Applied(W[a], s[a]) = c
      <4>1. W[a] = Basic(c)
        BY <3>1 DEF c
      <4> QED
        BY <4>1, AppliedIs, ZenonT(40)
    <3> QED
      BY <3>1, <3>3, <3>4 DEF WriteKind, c
  <2>2. CASE a \in DOMAIN V /\ a = Coinbase
    <3> DEFINE c == [balance |-> sa[a].balance + r, nonce |-> sa[a].nonce]
    <3>1. sa[a] \in AccountSet /\ V[Coinbase] = Basic(sa[a])
      BY <1>10, <1>13, <2>2
    <3>2. W[a] = Basic(c)
      BY <1>a, <2>2, <3>1
    <3>3. SeqAfter(x, s)[a] = c
      BY <1>10, <1>13, <2>2
    <3>4. c \in AccountSet
      BY <1>8, <3>1, AccountFacts
    <3> HIDE DEF c
    <3>5. Applied(W[a], s[a]) = c
      BY <3>2, AppliedIs, ZenonT(40)
    <3> QED
      BY <3>2, <3>3, <3>4, <3>5 DEF WriteKind
  <2>3. CASE a \notin DOMAIN V
    <3>1. a = Coinbase /\ a # x.from /\ W[a] = LazyRecipient(r)
      BY <1>a, <1>14, <2>3
    <3>2. Applied(W[a], s[a]) = [balance |-> s[a].balance + r, nonce |-> s[a].nonce]
      BY <3>1, AppliedIs
    <3>3. SeqAfter(x, s)[a] = [balance |-> s[a].balance + r, nonce |-> s[a].nonce]
      <4>1. CASE a \in DOMAIN sa
        BY <1>10, <1>15, <2>3, <3>1, <4>1
      <4>2. CASE a \notin DOMAIN sa
        BY <1>3, <1>11, <3>1, <4>2
      <4> QED
        BY <4>1, <4>2
    <3> QED
      BY <1>8, <3>1, <3>2, <3>3 DEF WriteKind
  <2> QED
    BY <2>1, <2>2, <2>3
<1>18. ASSUME NEW a \in DOMAIN sa \ {Coinbase} PROVE sa[a] = SeqAfter(x, s)[a]
  <2>1. sa[a] \in AccountSet /\ SeqAfter(x, s)[a] = [balance |-> sa[a].balance + 0, nonce |-> sa[a].nonce]
    BY <1>10
  <2> QED
    BY <2>1, AccountFacts
<1>19. ASSUME NEW a \in Accounts \ DOMAIN W PROVE SeqAfter(x, s)[a] = s[a]
  <2>1. a # Coinbase /\ a \notin DOMAIN V
    BY <1>a
  <2>2. CASE a \in DOMAIN sa
    BY <1>15, <1>18, <2>1, <2>2
  <2>3. CASE a \notin DOMAIN sa
    <3>1. SeqAfter(x, s)[a] = [balance |-> s[a].balance + 0, nonce |-> s[a].nonce]
      BY <1>11, <2>1, <2>3
    <3>2. s[a].balance \in Nat /\ s[a] = [balance |-> s[a].balance, nonce |-> s[a].nonce]
      BY <1>4
    <3> QED
      BY <3>1, <3>2
  <2> QED
    BY <2>2, <2>3
<1>20. WritesApply(x, s, W) /\ StateApplies(x, s, sa)
  BY <1>17, <1>18, <1>19 DEF WritesApply, StateApplies
<1> QED
  BY <1>1, <1>7, <1>13, <1>a, <1>20 DEF W, gas, sa

-----------------------------------------------------------------------------
(* Sequential execution *)

\* One transaction of it; one that cannot be paid for is left out.
SeqNext(b, t, s) == IF Affordable(b[t], s[b[t].from]) THEN SeqAfter(b[t], s) ELSE s

\* States go to states.
LEMMA SeqNextIs ==
  ASSUME NEW b \in Blocks, NEW t \in Txs, NEW s \in [Accounts -> AccountSet]
  PROVE  IsTx(b[t]) /\ SeqNext(b, t, s) \in [Accounts -> AccountSet]
<1>1. IsTx(b[t])
  BY BlocksAssumption DEF IsTx
<1>2. CASE Affordable(b[t], s[b[t].from])
  <2> DEFINE z == SeqAfter(b[t], s)
  <2>1. \A a \in Accounts : z[a] \in AccountSet
    BY <1>1, <1>2, SeqAfterIs
  <2>2. z = [a \in Accounts |-> z[a]]
    BY DEF SeqAfter
  <2> HIDE DEF z
  <2>3. z \in [Accounts -> AccountSet]
    BY <2>1, <2>2
  <2> QED
    BY <1>1, <1>2, <2>3 DEF SeqNext, z
<1>3. CASE ~Affordable(b[t], s[b[t].from])
  BY <1>1, <1>3 DEF SeqNext
<1> QED
  BY <1>2, <1>3

\* The states before each transaction and after the last.
LEMMA StatesAre ==
  ASSUME NEW b \in Blocks
  PROVE  /\ StatesOf[b][0] = Stored
         /\ \A t \in Txs : StatesOf[b][t + 1] = SeqNext(b, t, StatesOf[b][t])
<1> DEFINE Eq(g, n) == g = [t \in 0 .. n |-> IF t = 0 THEN Stored ELSE SeqNext(b, t - 1, g[t - 1])]
           R == CHOOSE g : Eq(g, BlockSize)
<1>0. BlockSize \in Nat
  BY BlockSizeAssumption
<1>1. StatesOf[b] = R
  BY DEF StatesOf, SeqStates, SeqNext
<1>2. \A n \in 0 .. BlockSize : \E g : Eq(g, n)
  <2> DEFINE Bad == {n \in 0 .. BlockSize : ~\E g : Eq(g, n)}
  <2> SUFFICES ASSUME Bad # {} PROVE FALSE
    OBVIOUS
  <2>1. Bad \in SUBSET Nat
    BY <1>0
  <2>2. PICK m \in Bad : \A n \in Bad : ~(n < m)
    BY <2>1, Least
  <2>3. CASE m = 0
    <3> DEFINE g == [t \in 0 .. 0 |-> Stored]
    <3>1. Eq(g, 0)
      OBVIOUS
    <3> QED
      BY <2>2, <2>3, <3>1
  <2>4. CASE m # 0
    <3>1. m - 1 \in 0 .. BlockSize /\ m - 1 < m /\ m \in Nat
      BY <1>0, <2>2, <2>4
    <3>2. PICK g : Eq(g, m - 1)
      BY <2>2, <3>1
    <3> DEFINE h == [t \in 0 .. m |-> IF t = m THEN SeqNext(b, m - 1, g[m - 1]) ELSE g[t]]
    <3>3. ASSUME NEW t \in 0 .. m PROVE h[t] = IF t = 0 THEN Stored ELSE SeqNext(b, t - 1, h[t - 1])
      <4>1. CASE t = m
        <5>1. h[m - 1] = g[m - 1]
          BY <3>1
        <5> QED
          BY <2>4, <4>1, <5>1
      <4>2. CASE t # m
        <5>1. t \in 0 .. m - 1
          BY <3>1, <4>2
        <5>2. h[t] = g[t] /\ (t # 0 => h[t - 1] = g[t - 1])
          BY <3>1, <4>2, <5>1
        <5>3. g[t] = IF t = 0 THEN Stored ELSE SeqNext(b, t - 1, g[t - 1])
          BY <3>2, <5>1
        <5> QED
          BY <5>2, <5>3
      <4> QED
        BY <4>1, <4>2
    <3>4. Eq(h, m)
      BY <3>3
    <3> QED
      BY <2>2, <3>4
  <2> QED
    BY <2>3, <2>4
<1>3. Eq(R, BlockSize)
  <2> HIDE DEF Eq
  <2>1. \E g : Eq(g, BlockSize)
    BY <1>0, <1>2
  <2> QED
    BY <2>1
<1> HIDE DEF R
<1>4. R[0] = Stored
  BY <1>0, <1>3
<1>5. ASSUME NEW t \in Txs PROVE R[t + 1] = SeqNext(b, t, R[t])
  <2>1. t + 1 \in 0 .. BlockSize /\ t + 1 # 0 /\ (t + 1) - 1 = t
    BY <1>0 DEF Txs
  <2> QED
    BY <1>3, <2>1
<1> QED
  BY <1>1, <1>4, <1>5

\* They are states.
LEMMA StatesAreStates ==
  ASSUME NEW b \in Blocks, NEW t \in 0 .. BlockSize
  PROVE  StatesOf[b][t] \in [Accounts -> AccountSet]
<1> DEFINE Bad == {n \in 0 .. BlockSize : StatesOf[b][n] \notin [Accounts -> AccountSet]}
<1> SUFFICES ASSUME Bad # {} PROVE FALSE
  OBVIOUS
<1>0. BlockSize \in Nat
  BY BlockSizeAssumption
<1>1. Bad \in SUBSET Nat
  BY <1>0
<1>2. PICK m \in Bad : \A n \in Bad : ~(n < m)
  BY <1>1, Least
<1>3. m # 0
  <2>1. Stored \in [Accounts -> AccountSet]
    BY BalancesAssumption DEF AccountSet
  <2> QED
    BY <1>2, <2>1, StatesAre
<1>4. m - 1 \in Txs /\ m - 1 \in 0 .. BlockSize /\ m - 1 < m /\ (m - 1) + 1 = m
  BY <1>0, <1>2, <1>3 DEF Txs
<1>5. StatesOf[b][m - 1] \in [Accounts -> AccountSet]
  BY <1>2, <1>4
<1>6. StatesOf[b][m] = SeqNext(b, m - 1, StatesOf[b][m - 1])
  BY <1>4, StatesAre
<1> QED
  BY <1>2, <1>4, <1>5, <1>6, SeqNextIs

-----------------------------------------------------------------------------
(* What a walk down the entries adds up to *)

\* A value of one of the three kinds; an entry that is absent or holds one.
ValueOK(v) == \/ \E c \in AccountSet : v = Basic(c)
              \/ \E n \in Nat : v = LazyRecipient(n)
              \/ \E n \in Nat : v = LazySender(n)
EntryOK(a, u) == data[a][u].kind = "none" \/ (data[a][u].kind = "data" /\ ValueOK(data[a][u].val))

\* The sums, before they are cut off at zero.
Raw(a, us) == [balance |-> Base(a, us).balance + BalanceAddition(a, us),
               nonce   |-> Base(a, us).nonce + NonceAddition(a, us)]

\* What a value adds.
LEMMA AdditionFacts ==
  ASSUME NEW v, ValueOK(v)
  PROVE  /\ ToBalance(v) \in Int /\ ToNonce(v) \in Int
         /\ v.type = "Basic" => v.account \in AccountSet /\ ToBalance(v) = 0 /\ ToNonce(v) = 0
         /\ v.type # "Basic" => \A r : Applied(v, r) = [balance |-> r.balance + ToBalance(v), nonce |-> r.nonce + ToNonce(v)]
                                       \/ r.balance \notin Int \/ r.nonce \notin Int
<1>1. ASSUME NEW c \in AccountSet, v = Basic(c)
      PROVE  v.type = "Basic" /\ v.account \in AccountSet /\ ToBalance(v) = 0 /\ ToNonce(v) = 0
  BY <1>1, ValueKinds DEF ToBalance, ToNonce
<1>2. ASSUME NEW n \in Nat, v = LazyRecipient(n)
      PROVE  /\ v.type # "Basic" /\ ToBalance(v) = n /\ ToNonce(v) = 0
             /\ \A r : Applied(v, r) = [balance |-> r.balance + n, nonce |-> r.nonce]
  BY <1>2, ValueKinds, AppliedIs DEF ToBalance, ToNonce
<1>3. ASSUME NEW n \in Nat, v = LazySender(n)
      PROVE  /\ v.type # "Basic" /\ ToBalance(v) = 0 - n /\ ToNonce(v) = 1
             /\ \A r : Applied(v, r) = [balance |-> r.balance - n, nonce |-> r.nonce + 1]
  BY <1>3, ValueKinds, AppliedIs DEF ToBalance, ToNonce
<1>4. CASE \E c \in AccountSet : v = Basic(c)
  BY <1>1, <1>4
<1>5. CASE \E n \in Nat : v = LazyRecipient(n)
  <2>1. PICK n \in Nat : v = LazyRecipient(n)
    BY <1>5
  <2>2. \A k \in Int : k + 0 = k
    OBVIOUS
  <2> QED
    BY <1>2, <2>1, <2>2
<1>6. CASE \E n \in Nat : v = LazySender(n)
  <2>1. PICK n \in Nat : v = LazySender(n)
    BY <1>6
  <2>2. \A k \in Int : k - n = k + (0 - n)
    OBVIOUS
  <2> QED
    BY <1>3, <2>1, <2>2
<1> QED
  BY <1>4, <1>5, <1>6 DEF ValueOK

\* The walk of the next reader.
LEMMA WalkStep ==
  ASSUME NEW a \in Accounts, NEW t \in Txs
  PROVE  /\ data[a][t].kind = "none" => Walk(a, t + 1) = Walk(a, t)
         /\ data[a][t].kind = "data" /\ data[a][t].val.type # "Basic" => Walk(a, t + 1) = Walk(a, t) \cup {t}
         /\ data[a][t].kind = "data" /\ data[a][t].val.type = "Basic" => Walk(a, t + 1) = {t}
         /\ Walk(a, t) \in SUBSET Txs /\ t \notin Walk(a, t)
<1>0. t \in Nat /\ (\A u \in Txs : u \in Nat /\ (u < t + 1 <=> u < t \/ u = t)) /\ ~(t < t)
  BY DEF Txs
<1>1. data[a][t].kind = "none" => Walk(a, t + 1) = Walk(a, t)
  <2> SUFFICES ASSUME data[a][t].kind = "none" PROVE Walk(a, t + 1) = Walk(a, t)
    OBVIOUS
  <2>1. Writers(a, t + 1) = Writers(a, t)
    BY <1>0 DEF Writers
  <2> QED
    BY <2>1 DEF Walk, Ends
<1>2. ASSUME data[a][t].kind = "data" PROVE Writers(a, t + 1) = Writers(a, t) \cup {t}
  BY <1>0, <1>2 DEF Writers
<1>3. ASSUME data[a][t].kind = "data", data[a][t].val.type # "Basic" PROVE Walk(a, t + 1) = Walk(a, t) \cup {t}
  <2>1. Ends(a, t + 1) = Ends(a, t)
    BY <1>2, <1>3 DEF Ends
  <2>2. \A v \in Ends(a, t) : t >= v
    BY <1>0 DEF Ends, Writers
  <2> QED
    BY <1>2, <1>3, <2>1, <2>2 DEF Walk
<1>4. ASSUME data[a][t].kind = "data", data[a][t].val.type = "Basic" PROVE Walk(a, t + 1) = {t}
  <2>1. t \in Ends(a, t + 1) /\ t \in Writers(a, t + 1)
    BY <1>2, <1>4 DEF Ends
  <2>2. \A u \in Writers(a, t + 1) : u \in Nat /\ u <= t
    BY <1>0 DEF Writers
  <2>3. \A v \in Ends(a, t + 1) : t >= v
    BY <1>0, <2>2 DEF Ends
  <2>4. \A u \in Nat : u <= t /\ u >= t => u = t
    BY <1>0
  <2> QED
    BY <2>1, <2>2, <2>3, <2>4 DEF Walk
<1>5. Walk(a, t) \in SUBSET Txs /\ t \notin Walk(a, t)
  BY <1>0 DEF Walk, Writers
<1> QED
  BY <1>1, <1>3, <1>4, <1>5

\* The entries of a walk.
LEMMA WalkFacts ==
  ASSUME NEW a, NEW t
  PROVE  /\ Walk(a, t) \in SUBSET Txs
         /\ \A u \in Walk(a, t) : u < t /\ data[a][u].kind # "none"
  BY DEF Walk, Writers

\* Sums over sets of transactions that differ in one.
LEMMA AdditionStep ==
  ASSUME NEW a, NEW us \in SUBSET Txs, NEW t \in Txs, t \notin us,
         \A u \in us \cup {t} : ValueOK(data[a][u].val)
  PROVE  /\ BalanceAddition(a, us) \in Int /\ NonceAddition(a, us) \in Int
         /\ BalanceAddition(a, us \cup {t}) = BalanceAddition(a, us) + ToBalance(data[a][t].val)
         /\ NonceAddition(a, us \cup {t}) = NonceAddition(a, us) + ToNonce(data[a][t].val)
<1> DEFINE B(u) == ToBalance(data[a][u].val)
           N(u) == ToNonce(data[a][u].val)
<1>0. \A u \in us \cup {t} : B(u) \in Int /\ N(u) \in Int
  BY AdditionFacts
<1> HIDE DEF B, N
<1>1. ASSUME NEW f, f = [u \in Txs |-> IF u \in us THEN B(u) ELSE 0],
             NEW g, g = [u \in Txs |-> IF u \in us \cup {t} THEN B(u) ELSE 0]
      PROVE  Total(f) \in Int /\ Total(g) = Total(f) + B(t)
  <2>1. f \in [Txs -> Int] /\ g \in [Txs -> Int] /\ (\A u \in Txs \ {t} : g[u] = f[u]) /\ f[t] = 0 /\ g[t] = B(t)
    BY <1>0, <1>1
  <2>2. Total(f) \in Int /\ Total(g) = Total(f) + (g[t] - f[t])
    BY <2>1, SumStep
  <2>3. B(t) \in Int
    BY <1>0
  <2> QED
    BY <2>1, <2>2, <2>3
<1>2. ASSUME NEW f, f = [u \in Txs |-> IF u \in us THEN N(u) ELSE 0],
             NEW g, g = [u \in Txs |-> IF u \in us \cup {t} THEN N(u) ELSE 0]
      PROVE  Total(f) \in Int /\ Total(g) = Total(f) + N(t)
  <2>1. f \in [Txs -> Int] /\ g \in [Txs -> Int] /\ (\A u \in Txs \ {t} : g[u] = f[u]) /\ f[t] = 0 /\ g[t] = N(t)
    BY <1>0, <1>2
  <2>2. Total(f) \in Int /\ Total(g) = Total(f) + (g[t] - f[t])
    BY <2>1, SumStep
  <2>3. N(t) \in Int
    BY <1>0
  <2> QED
    BY <2>1, <2>2, <2>3
<1>3. /\ BalanceAddition(a, us) = Total([u \in Txs |-> IF u \in us THEN B(u) ELSE 0])
      /\ BalanceAddition(a, us \cup {t}) = Total([u \in Txs |-> IF u \in us \cup {t} THEN B(u) ELSE 0])
      /\ NonceAddition(a, us) = Total([u \in Txs |-> IF u \in us THEN N(u) ELSE 0])
      /\ NonceAddition(a, us \cup {t}) = Total([u \in Txs |-> IF u \in us \cup {t} THEN N(u) ELSE 0])
  BY DEF BalanceAddition, NonceAddition, B, N
<1> QED
  BY <1>1, <1>2, <1>3 DEF B, N

\* Nothing is added to storage by no entries, and by one absolute value.
LEMMA NothingAdded ==
  ASSUME NEW a, NEW us \in SUBSET Txs, \A u \in us : ToBalance(data[a][u].val) = 0 /\ ToNonce(data[a][u].val) = 0
  PROVE  BalanceAddition(a, us) = 0 /\ NonceAddition(a, us) = 0
<1>1. ASSUME NEW f, f = [u \in Txs |-> IF u \in us THEN ToBalance(data[a][u].val) ELSE 0] PROVE Total(f) = 0
  <2>1. \A u \in Txs : f[u] = 0
    BY <1>1
  <2> QED
    BY <2>1, SumOfNothing
<1>2. ASSUME NEW f, f = [u \in Txs |-> IF u \in us THEN ToNonce(data[a][u].val) ELSE 0] PROVE Total(f) = 0
  <2>1. \A u \in Txs : f[u] = 0
    BY <1>2
  <2> QED
    BY <2>1, SumOfNothing
<1> QED
  BY <1>1, <1>2 DEF BalanceAddition, NonceAddition

\* The absolute value below the amounts is an account.
LEMMA BaseFacts ==
  ASSUME NEW a \in Accounts, NEW us \in SUBSET Txs, \A u \in us : ValueOK(data[a][u].val)
  PROVE  Base(a, us) \in AccountSet
<1> DEFINE S == Basics(a, us)
<1>1. CASE S = {}
  <2>1. Stored[a] \in AccountSet
    BY BalancesAssumption DEF AccountSet
  <2> QED
    BY <1>1, <2>1 DEF Base
<1>2. CASE S # {}
  <2>1. S \in SUBSET Txs /\ S \subseteq us
    BY DEF Basics
  <2>2. \E u \in S : \A v \in S : u >= v
    BY <1>2, <2>1, Greatest
  <2>3. Max(S) \in S
    BY <2>2 DEF Max
  <2>4. data[a][Max(S)].val.type = "Basic" /\ ValueOK(data[a][Max(S)].val)
    BY <2>3 DEF Basics
  <2>5. data[a][Max(S)].val.account \in AccountSet
    BY <2>4, AdditionFacts
  <2> QED
    BY <1>2, <2>5 DEF Base
<1> QED
  BY <1>1, <1>2

\* Before the first transaction there is storage.
LEMMA RawStart ==
  ASSUME NEW a \in Accounts
  PROVE  Walk(a, 0) = {} /\ Raw(a, {}) = Stored[a]
<1>1. Walk(a, 0) = {}
  BY DEF Walk, Writers, Txs
<1>2. BalanceAddition(a, {}) = 0 /\ NonceAddition(a, {}) = 0
  BY NothingAdded
<1>3. Base(a, {}) = Stored[a]
  BY DEF Base, Basics
<1>4. Stored[a] \in AccountSet
  BY BalancesAssumption DEF AccountSet
<1>5. ASSUME NEW r, r = Stored[a], r \in AccountSet
      PROVE  [balance |-> r.balance + 0, nonce |-> r.nonce + 0] = r
  <2>1. r.balance \in Nat /\ r.nonce \in Nat /\ r = [balance |-> r.balance, nonce |-> r.nonce]
    BY <1>5, AccountFacts
  <2> QED
    BY <2>1
<1> QED
  BY <1>1, <1>2, <1>3, <1>4, <1>5 DEF Raw

\* The sum that the next reader finds: the entry of t applied to the sum so far.
LEMMA RawStep ==
  ASSUME NEW a \in Accounts, NEW t \in Txs, \A u \in Txs : u <= t => EntryOK(a, u),
         data[a][t].kind = "data", NEW r \in AccountSet, Raw(a, Walk(a, t)) = r
  PROVE  Raw(a, Walk(a, t + 1)) = Applied(data[a][t].val, r)
<1> DEFINE us == Walk(a, t)
           v == data[a][t].val
<1>0. /\ us \in SUBSET Txs /\ t \notin us
      /\ \A u \in us \cup {t} : ValueOK(data[a][u].val)
  <2>1. us \in SUBSET Txs /\ t \notin us
    BY WalkStep
  <2>2. ASSUME NEW u \in us \cup {t} PROVE ValueOK(data[a][u].val)
    <3>1. u \in Txs /\ u <= t /\ data[a][u].kind # "none"
      <4>1. t \in Int /\ \A w \in us : w \in Int /\ w < t /\ data[a][w].kind # "none"
        BY <2>1, WalkFacts DEF Txs
      <4> QED
        BY <2>1, <4>1
    <3> QED
      BY <3>1 DEF EntryOK
  <2> QED
    BY <2>1, <2>2
<1>1. ValueOK(v)
  BY <1>0
<1> HIDE DEF us
<1>2. CASE v.type # "Basic"
  <2>1. Walk(a, t + 1) = us \cup {t}
    BY <1>2, WalkStep DEF us
  <2>2. Basics(a, us \cup {t}) = Basics(a, us)
    BY <1>2 DEF Basics
  <2>3. Base(a, us \cup {t}) = Base(a, us)
    BY <2>2 DEF Base
  <2>4. Base(a, us) \in AccountSet
    BY <1>0, BaseFacts
  <2>5. /\ BalanceAddition(a, us) \in Int /\ NonceAddition(a, us) \in Int
        /\ BalanceAddition(a, us \cup {t}) = BalanceAddition(a, us) + ToBalance(v)
        /\ NonceAddition(a, us \cup {t}) = NonceAddition(a, us) + ToNonce(v)
    BY <1>0, AdditionStep
  <2> DEFINE b == Base(a, us).balance
             n == Base(a, us).nonce
             bs == BalanceAddition(a, us)
             ns == NonceAddition(a, us)
             bv == ToBalance(v)
             nv == ToNonce(v)
  <2>6. b \in Nat /\ n \in Nat
    BY <2>4, AccountFacts
  <2>7. bv \in Int /\ nv \in Int
    BY <1>1, AdditionFacts
  <2>8. r = [balance |-> b + bs, nonce |-> n + ns]
    BY DEF Raw, us
  <2>9. Raw(a, Walk(a, t + 1)) = [balance |-> b + (bs + bv), nonce |-> n + (ns + nv)]
    BY <2>1, <2>3, <2>5 DEF Raw
  <2>10. r.balance = b + bs /\ r.nonce = n + ns /\ r.balance \in Int /\ r.nonce \in Int
    BY <2>8, AccountFacts
  <2>11. Applied(v, r) = [balance |-> r.balance + bv, nonce |-> r.nonce + nv]
    BY <1>1, <1>2, <2>10, AdditionFacts
  <2> HIDE DEF b, n, bs, ns, bv, nv, v
  <2>12. b + (bs + bv) = r.balance + bv /\ n + (ns + nv) = r.nonce + nv
    BY <2>5, <2>6, <2>7, <2>10 DEF bs, ns
  <2> QED
    BY <2>9, <2>11, <2>12 DEF v
<1>3. CASE v.type = "Basic"
  <2>1. Walk(a, t + 1) = {t}
    BY <1>3, WalkStep
  <2>2. v.account \in AccountSet /\ ToBalance(v) = 0 /\ ToNonce(v) = 0
    BY <1>1, <1>3, AdditionFacts
  <2>3. BalanceAddition(a, {t}) = 0 /\ NonceAddition(a, {t}) = 0
    BY <2>2, NothingAdded
  <2>4. Basics(a, {t}) = {t} /\ Max({t}) = t
    <3>1. t >= t
      BY DEF Txs
    <3> QED
      BY <1>3, <3>1 DEF Basics, Max
  <2>5. Base(a, {t}) = v.account
    BY <2>4 DEF Base
  <2>6. Applied(v, r) = v.account
    BY <1>3 DEF Applied
  <2> DEFINE c == v.account
  <2>7. Raw(a, Walk(a, t + 1)) = [balance |-> c.balance + 0, nonce |-> c.nonce + 0]
    BY <2>1, <2>3, <2>5 DEF Raw
  <2>8. c.balance \in Nat /\ c.nonce \in Nat /\ c = [balance |-> c.balance, nonce |-> c.nonce]
    BY <2>2, AccountFacts
  <2> HIDE DEF c
  <2>9. [balance |-> c.balance + 0, nonce |-> c.nonce + 0] = c
    BY <2>8
  <2> QED
    BY <2>6, <2>7, <2>9 DEF c
<1> QED
  BY <1>2, <1>3

\* If the sum is the account of sequential execution, the account that basic
\* puts together is that as well: the nonce is dropped only for an account
\* that NotSwept rules out.
LEMMA AccountIsRaw ==
  ASSUME NotSwept, block \in Blocks, NEW a \in Accounts, NEW t \in 0 .. BlockSize,
         \A u \in Txs : u < t => EntryOK(a, u),
         Raw(a, Walk(a, t)) = StatesOf[block][t][a]
  PROVE  Account(a, t) = StatesOf[block][t][a]
<1> DEFINE us == Walk(a, t)
           r == StatesOf[block][t][a]
           b == Base(a, us).balance
           n == Base(a, us).nonce
           bs == BalanceAddition(a, us)
           ns == NonceAddition(a, us)
<1>1. r \in AccountSet
  BY StatesAreStates
<1>2. r.balance \in Nat /\ r.nonce \in Nat /\ r = [balance |-> r.balance, nonce |-> r.nonce]
  BY <1>1, AccountFacts
<1>3. r = [balance |-> b + bs, nonce |-> n + ns]
  BY DEF Raw
<1>4. r.balance = b + bs /\ r.nonce = n + ns
  BY <1>3
<1>5. Account(a, t) = IF Basics(a, us) = {} /\ Stored[a] = Empty /\ bs = 0 THEN Empty
                      ELSE [balance |-> SaturatingSub(b + bs, 0), nonce |-> n + ns]
  BY DEF Account, Assembled
<1>6. CASE Basics(a, us) = {} /\ Stored[a] = Empty /\ bs = 0
  <2>1. Base(a, us) = Empty
    BY <1>6 DEF Base
  <2>2. b = 0
    BY <2>1 DEF Empty
  <2>3. r.balance = 0
    BY <1>4, <1>6, <2>2
  <2>4. r.nonce = 0
    BY <1>6, <2>3 DEF NotSwept
  <2> QED
    BY <1>2, <1>5, <1>6, <2>3, <2>4 DEF Empty
<1>7. CASE ~(Basics(a, us) = {} /\ Stored[a] = Empty /\ bs = 0)
  <2>1. SaturatingSub(r.balance, 0) = r.balance
    BY <1>2 DEF SaturatingSub
  <2> HIDE DEF r, b, n, bs, ns
  <2>2. Account(a, t) = [balance |-> SaturatingSub(r.balance, 0), nonce |-> r.nonce]
    BY <1>4, <1>5, <1>7
  <2> QED
    BY <1>2, <2>1, <2>2 DEF r
<1> QED
  BY <1>6, <1>7

-----------------------------------------------------------------------------
(* The shape of the rest of the state, and what a step leaves alone of it *)

\* The fields of an account, whatever they hold.
IsAccount(c) == \E b, n : c = [balance |-> b, nonce |-> n]

ReadShape ==
  /\ DOMAIN reads = Workers
  /\ \A w \in Workers : DOMAIN reads[w] = Accounts /\ DOMAIN got[w] = Accounts
  /\ \A w \in Workers : \A a \in Accounts : IsAccount(got[w][a])
  /\ wrote \in [Workers -> BOOLEAN]
  /\ DOMAIN last_reads = Txs /\ DOMAIN results = Txs

\* The other workers' read sets, and the other transactions' records.
ReadsElsewhere(w) == \A v \in Workers \ {w} : reads'[v] = reads[v] /\ wrote'[v] = wrote[v]
ReadsApart(w) == \A t \in Txs \ {tx[w]} : last_reads'[t] = last_reads[t] /\ results'[t] = results[t]

\* A worker that resets its locals has read nothing.
LEMMA ResetReads ==
  ASSUME Shape, ReadShape, NEW w \in Workers, ResetLocals(w)
  PROVE  /\ DOMAIN reads' = Workers /\ wrote' \in [Workers -> BOOLEAN]
         /\ \A v \in Workers : DOMAIN reads'[v] = Accounts /\ DOMAIN got'[v] = Accounts
         /\ \A v \in Workers : \A a \in Accounts : IsAccount(got'[v][a])
         /\ reads'[w] = NotRead /\ mpc'[w] = "idle"
         /\ ReadsElsewhere(w)
<1>1. /\ reads' = [reads EXCEPT ![w] = NotRead] /\ mpc' = [mpc EXCEPT ![w] = "idle"]
      /\ got' = [got EXCEPT ![w] = [a \in Accounts |-> Empty]]
      /\ wrote' = [wrote EXCEPT ![w] = FALSE]
  BY DEF ResetLocals
<1>2. DOMAIN NotRead = Accounts /\ DOMAIN [a \in Accounts |-> Empty] = Accounts
  BY DEF NotRead
<1>3. /\ DOMAIN reads' = Workers /\ reads'[w] = NotRead /\ mpc'[w] = "idle"
      /\ \A v \in Workers \ {w} : reads'[v] = reads[v]
  BY <1>1 DEF Shape, ReadShape
<1>4. \A v \in Workers : DOMAIN reads'[v] = Accounts
  BY <1>2, <1>3 DEF ReadShape
<1>5. \A v \in Workers : DOMAIN got'[v] = Accounts
  BY <1>1, <1>2 DEF Shape, ReadShape
<1>6. wrote' \in [Workers -> BOOLEAN] /\ \A v \in Workers \ {w} : wrote'[v] = wrote[v]
  BY <1>1 DEF ReadShape
<1>7. \A v \in Workers : \A a \in Accounts : IsAccount(got'[v][a])
  <2>1. IsAccount(Empty)
    BY DEF IsAccount, Empty
  <2> QED
    BY <1>1, <2>1 DEF Shape, ReadShape
<1> QED
  BY <1>3, <1>4, <1>5, <1>6, <1>7 DEF ReadsElsewhere

\* Every step keeps this shape, too.
LEMMA ReadShapeStep ==
  ASSUME TypeOK, Shape, ReadShape, NEW w \in Workers, LazyStep(w)
  PROVE  ReadShape' /\ ReadsElsewhere(w) /\ ReadsApart(w)
<1> DEFINE Goal == ReadShape' /\ ReadsElsewhere(w) /\ ReadsApart(w)
<1>0. tx[w] \in Txs
  BY DEF TypeOK
<1>a. ASSUME ResetLocals(w), UNCHANGED <<last_reads, results>> PROVE Goal
  BY <1>a, ResetReads DEF ReadShape, ReadsApart
<1>b. ASSUME UNCHANGED <<got, reads, wrote, last_reads, results>> PROVE Goal
  BY <1>b DEF ReadShape, ReadsElsewhere, ReadsApart
<1>1. CASE pc[w] # "setReason" /\ WorkerStep(w) /\ UNCHANGED memVars
  BY <1>1, <1>b DEF memVars, memLocals, shared
<1>2. CASE VmNew(w) BY <1>2, <1>b DEF VmNew, shared
<1>3. CASE VmReadFrom(w) \/ VmReadTo(w)
  <2>1. PICK a : \E l : Got(w, a, l)
    BY <1>3 DEF VmReadFrom, VmReadTo
  <2>2. /\ got' = [got EXCEPT ![w][a] = Account(a, tx[w])]
        /\ reads' = [reads EXCEPT ![w][a] = Origins(a, tx[w])]
        /\ UNCHANGED <<wrote, last_reads, results>>
    BY <2>1 DEF Got, shared
  <2>3. DOMAIN reads' = Workers /\ \A v \in Workers : DOMAIN reads'[v] = Accounts
    BY <2>2 DEF ReadShape
  <2>4. \A v \in Workers : DOMAIN got'[v] = Accounts
    BY <2>2 DEF Shape, ReadShape
  <2>5. \A v \in Workers \ {w} : reads'[v] = reads[v]
    BY <2>2 DEF ReadShape
  <2>6. ASSUME NEW v \in Workers, NEW c \in Accounts PROVE IsAccount(got'[v][c])
    <3>1. IsAccount(Account(a, tx[w]))
      BY DEF IsAccount, Account, Assembled, Empty
    <3>2. got'[v][c] = got[v][c] \/ got'[v][c] = Account(a, tx[w])
      BY <2>2 DEF Shape, ReadShape
    <3> QED
      BY <3>1, <3>2 DEF ReadShape
  <2> QED
    BY <2>2, <2>3, <2>4, <2>5, <2>6 DEF ReadShape, ReadsElsewhere, ReadsApart
<1>5. CASE VmReadEstimate(w) BY <1>5, <1>a DEF VmReadEstimate, shared
<1>6. CASE VmNotYet(w) BY <1>6, <1>a DEF VmNotYet, shared
<1>7. CASE GiveUp(w) BY <1>7, <1>b DEF GiveUp, memVars, memLocals, shared
<1>8. CASE AddLazyAddresses(w) BY <1>8, <1>b DEF AddLazyAddresses
<1>9. CASE RecordReads(w)
  <2>1. last_reads' = [last_reads EXCEPT ![tx[w]] = reads[w]] /\ UNCHANGED <<got, reads, wrote, results>>
    BY <1>9 DEF RecordReads
  <2> QED
    BY <1>0, <2>1 DEF ReadShape, ReadsElsewhere, ReadsApart
<1>10. CASE RecordRemove(w) BY <1>10, <1>b DEF RecordRemove
<1>11. CASE RecordInsert(w)
  <2>1. PICK a : wrote' = [wrote EXCEPT ![w] = @ \/ a \notin last_writes[tx[w]]]
    BY <1>11 DEF RecordInsert
  <2>2. UNCHANGED <<got, reads, last_reads, results>>
    BY <1>11 DEF RecordInsert
  <2> QED
    BY <2>1, <2>2 DEF ReadShape, ReadsElsewhere, ReadsApart
<1>12. CASE ExecuteOk(w)
  <2>1. PICK r : results' = [results EXCEPT ![tx[w]] = r]
    BY <1>12 DEF ExecuteOk
  <2>2. ResetLocals(w) /\ last_reads' = last_reads
    BY <1>12 DEF ExecuteOk
  <2> QED
    BY <1>0, <2>1, <2>2, ResetReads DEF ReadShape, ReadsApart
<1>13. CASE ValidateStart(w) BY <1>13, <1>b DEF ValidateStart, shared
<1>14. CASE ValidateCheck(w)
  <2>1. UNCHANGED <<last_reads, results>> /\ (ResetLocals(w) \/ UNCHANGED <<got, reads, wrote>>)
    BY <1>14 DEF ValidateCheck, shared
  <2> QED
    BY <1>a, <1>b, <2>1
<1>15. CASE ValidateEnd(w) BY <1>15, <1>a DEF ValidateEnd, shared
<1>16. CASE ConvertStart(w) BY <1>16, <1>b DEF ConvertStart, shared
<1>17. CASE ConvertOne(w) BY <1>17, <1>b DEF ConvertOne
<1>18. CASE ConvertEnd(w) BY <1>18, <1>a DEF ConvertEnd, shared
<1> QED
  BY <1>1, <1>2, <1>3, <1>5, <1>6, <1>7, <1>8, <1>9, <1>10, <1>11, <1>12, <1>13, <1>14, <1>15, <1>16,
     <1>17, <1>18 DEF LazyStep

\* All that a step of w leaves alone.
LEMMA StepFacts ==
  ASSUME LInv, ReadShape, NEW w \in Workers, LazyStep(w)
  PROVE  /\ IInv /\ TypeOK /\ Shape /\ MpcOK /\ EntriesOK /\ tx[w] \in Txs
         /\ LInv' /\ IInv' /\ Shape' /\ MpcOK' /\ ReadShape'
         /\ Elsewhere(w) /\ Apart(w) /\ Others(w) /\ ReadsElsewhere(w) /\ ReadsApart(w)
<1>1. IInv /\ TypeOK /\ Shape /\ MpcOK /\ EntriesOK /\ tx[w] \in Txs
  BY DEF LInv, IInv, TypeOK
<1>2. LInv'
  BY LInvWorker
<1>3. IInv' /\ Shape' /\ MpcOK'
  BY <1>2 DEF LInv
<1> QED
  BY <1>1, <1>2, <1>3, LazyKeepsIInv, ShapeStep, ReadShapeStep

-----------------------------------------------------------------------------
(* Entries, and what becomes of the origins of a read *)

\* An entry is nothing, an ESTIMATE, or data of the current incarnation.
LEMMA EntryIsCurrent ==
  ASSUME LInv, NEW a \in Accounts, NEW t \in Txs
  PROVE  /\ data[a][t].kind \in {"none", "estimate", "data"}
         /\ data[a][t].kind = "data" => data[a][t].inc = incarnation[t]
<1> USE EntryKinds DEF IsData, Unwritten
<1>1. CASE HasRecord(t) /\ ~Marking(t)
  BY <1>1 DEF LInv, EntriesOK, Recorded
<1>2. CASE ~HasRecord(t) /\ ~Writing(t)
  BY <1>2 DEF LInv, EntriesOK, Marked
<1>3. CASE Writing(t)
  <2>1. PICK w \in Workers : mpc[w] = "insert" /\ tx[w] = t
    BY <1>3 DEF Writing
  <2>2. PartlyWritten(w) /\ inc[w] = incarnation[t]
    BY <2>1, NoRecordYet DEF LInv, EntriesOK, MpcOK, MpcAt, VmPcs
  <2> QED
    BY <2>1, <2>2 DEF PartlyWritten
<1>4. CASE Marking(t)
  <2>1. PICK w \in Workers : mpc[w] = "mark" /\ tx[w] = t
    BY <1>4 DEF Marking
  <2>2. PartlyMarked(w)
    BY <2>1 DEF LInv, EntriesOK
  <2> QED
    BY <2>1, <2>2 DEF PartlyMarked
<1> QED
  BY <1>1, <1>2, <1>3, <1>4

\* A step leaves the entry of a transaction at a location as it is.
Kept(a, u) == data'[a][u] = data[a][u]

\* A step changes an entry only if it is not data, or turns it into an
\* ESTIMATE when its transaction is being aborted.
LEMMA EntryChange ==
  ASSUME LInv, ReadShape, NEW w \in Workers, LazyStep(w), NEW a \in Accounts, NEW u \in Txs
  PROVE  \/ Kept(a, u)
         \/ /\ u = tx[w] /\ pc[w] = "execute" /\ mpc[w] = "remove"
            /\ data[a][u].kind = "estimate" /\ data'[a][u].kind = "none"
         \/ /\ u = tx[w] /\ pc[w] = "execute" /\ mpc[w] = "insert" /\ mpc' = mpc /\ tx' = tx
            /\ data[a][u].kind \in {"none", "estimate"} /\ data'[a][u].kind = "data"
            /\ data'[a][u].val = WriteSet(w)[a]
            /\ data[a][u].kind = "none" => wrote'[w]
         \/ /\ u = tx[w] /\ pc[w] = "convert" /\ UNCHANGED vars
            /\ data[a][u].kind = "data" /\ data'[a][u].kind = "estimate"
<1>0. TypeOK /\ Shape /\ MpcOK /\ EntriesOK /\ tx[w] \in Txs /\ Apart(w)
  BY StepFacts
<1>1. CASE u # tx[w]
  BY <1>0, <1>1 DEF Apart, Kept
<1>2. CASE data' = data
  BY <1>2 DEF Kept
<1>3. CASE RecordRemove(w) /\ u = tx[w]
  <2>1. mpc[w] = "remove" /\ pc[w] = "execute"
    BY <1>0, <1>3 DEF RecordRemove, MpcOK, MpcAt, VmPcs
  <2>2. Marked(u)
    <3>1. ~HasRecord(u)
      BY <1>3, <2>1, NoRecordYet DEF LInv
    <3>2. ~Writing(u)
      BY <1>0, <1>3, <2>1 DEF Writing, MpcOK, LastIsExclusive, LastPcs
    <3> QED
      BY <1>0, <3>1, <3>2 DEF EntriesOK
  <2>3. ASSUME data' # data
        PROVE  \E k \in last_writes[u] : data' = [data EXCEPT ![k][u] = NoEntry]
    BY <1>3, <2>3 DEF RecordRemove
  <2>4. CASE data' # data
    <3>1. PICK k \in last_writes[u] : data' = [data EXCEPT ![k][u] = NoEntry]
      BY <2>3, <2>4
    <3>2. k \in Accounts
      BY <1>0 DEF Shape
    <3>3. data'[a][u] = IF a = k THEN NoEntry ELSE data[a][u]
      BY <1>0, <3>1, <3>2 DEF Shape
    <3>4. a = k => data[a][u] = Estimate
      BY <2>2, <3>1 DEF Marked, Unwritten
    <3> QED
      BY <1>3, <2>1, <3>3, <3>4, EntryKinds DEF Kept
  <2> QED
    BY <1>2, <2>4
<1>4. CASE RecordInsert(w) /\ u = tx[w]
  <2>1. mpc[w] = "insert" /\ pc[w] = "execute" /\ PartlyWritten(w) /\ mpc' = mpc /\ tx' = tx
    BY <1>0, <1>4 DEF RecordInsert, MpcOK, MpcAt, VmPcs, EntriesOK, vars, locals
  <2>2. PICK k \in todo[w] :
          /\ data' = [data EXCEPT ![k][u] = Data(inc[w], WriteSet(w)[k])]
          /\ wrote' = [wrote EXCEPT ![w] = @ \/ k \notin last_writes[u]]
    BY <1>4 DEF RecordInsert
  <2>3. k \in Accounts
    BY <1>0 DEF Shape
  <2>4. data'[a][u] = IF a = k THEN Data(inc[w], WriteSet(w)[k]) ELSE data[a][u]
    BY <1>0, <2>2, <2>3 DEF Shape
  <2>5. data[k][u] = IF k \in last_writes[u] \cup {Coinbase} THEN Estimate ELSE NoEntry
    BY <1>4, <2>1, <2>2, <2>3 DEF PartlyWritten, Unwritten
  <2>6. wrote'[w] = (wrote[w] \/ k \notin last_writes[u])
    BY <2>2 DEF ReadShape
  <2>7. CASE k # a
    BY <2>4, <2>7 DEF Kept
  <2>8. CASE k = a
    <3>1. data'[a][u].kind = "data" /\ data'[a][u].val = WriteSet(w)[a]
      BY <2>4, <2>8, EntryKinds
    <3>2. data[a][u].kind \in {"none", "estimate"} /\ (data[a][u].kind = "none" => a \notin last_writes[u])
      BY <2>5, <2>8, EntryKinds
    <3> QED
      BY <1>4, <2>1, <2>6, <2>8, <3>1, <3>2
  <2> QED
    BY <2>7, <2>8
<1>5. CASE ConvertOne(w) /\ u = tx[w]
  <2>1. mpc[w] = "mark" /\ pc[w] = "convert" /\ PartlyMarked(w) /\ UNCHANGED vars
    BY <1>0, <1>5 DEF ConvertOne, MpcOK, MpcAt, EntriesOK
  <2>2. PICK k \in todo[w] : data' = [data EXCEPT ![k][u] = Estimate]
    BY <1>5 DEF ConvertOne
  <2>3. k \in Accounts
    BY <1>0 DEF Shape
  <2>4. data'[a][u] = IF a = k THEN Estimate ELSE data[a][u]
    BY <1>0, <2>2, <2>3 DEF Shape
  <2>5. data[k][u].kind = "data"
    BY <1>5, <2>1, <2>2, <2>3 DEF PartlyMarked, IsData
  <2> QED
    BY <1>5, <2>1, <2>4, <2>5, EntryKinds DEF Kept
<1> QED
  BY <1>1, <1>2, <1>3, <1>4, <1>5
  DEF LazyStep, memVars, shared, VmNew, VmReadFrom, VmReadTo, Got, VmReadEstimate, VmNotYet, GiveUp,
      AddLazyAddresses, RecordReads, ExecuteOk, ValidateStart, ValidateCheck, ValidateEnd, ConvertStart, ConvertEnd

\* An execution's transaction, and its status.
LEMMA ExecutingStatus ==
  ASSUME LInv, NEW w \in Workers
  PROVE  /\ tx[w] \in Txs
         /\ pc[w] = "execute" => status[tx[w]] = "Executing"
         /\ pc[w] = "convert" => status[tx[w]] = "Aborting"
  BY DEF LInv, IInv, TypeOK, ExclusiveExecution, ExecutorOwns, ResumedExactlyOnce, ResumersAreUnique,
         AbortPcs, Aborts, ExecutingPcs, ExecutePcs

\* The origin of a read: an incarnation that u has reached, and while u is at
\* it, its entry stands unless u is being aborted.
Past(u, i, a) ==
  /\ i <= incarnation[u]
  /\ i = incarnation[u] => data[a][u].kind = "data" \/ status[u] = "Aborting"

\* A step moves incarnations forward only.
LEMMA LazyMoves ==
  ASSUME LInv, ReadShape, NEW w \in Workers, LazyStep(w), NEW u \in Txs
  PROVE  Moves(u)
<1>0. IInv /\ TypeOK /\ MpcOK /\ Shape
  BY StepFacts
<1>1. CASE UNCHANGED vars
  BY <1>1 DEF Moves, vars, txVars
<1>2. CASE Environment(w) \/ WorkerStep(w) \/ ConvertWrites(w)
  BY <1>0, <1>2, WorkerIInv
<1> QED
  BY <1>0, <1>1, <1>2, LazyStepImplements

\* What was an origin stays one, and while its transaction is at that
\* incarnation the entry, if it is there, is the one that was read.
LEMMA PastStays ==
  ASSUME LInv, ReadShape, NEW w \in Workers, LazyStep(w),
         NEW a \in Accounts, NEW u \in Txs, NEW i \in Nat, Past(u, i, a)
  PROVE  /\ Past(u, i, a)'
         /\ i = incarnation'[u] /\ data'[a][u].kind = "data" =>
              data'[a][u] = data[a][u] /\ i = incarnation[u]
<1>1. Moves(u)
  BY LazyMoves
<1>2. incarnation[u] \in Nat /\ tx[w] \in Txs
  BY DEF LInv, IInv, TypeOK
<1>3. CASE i < incarnation[u]
  BY <1>1, <1>2, <1>3 DEF Past, Moves
<1>4. CASE i = incarnation[u]
  <2>1. data[a][u].kind = "data" \/ status[u] = "Aborting"
    BY <1>4 DEF Past
  <2>2. CASE Kept(a, u)
    BY <1>1, <1>2, <1>4, <2>1, <2>2 DEF Past, Moves, Kept
  <2>3. CASE pc[w] = "execute" /\ u = tx[w] /\ data[a][u].kind # "data"
    BY <2>1, <2>3, ExecutingStatus
  <2>4. CASE u = tx[w] /\ pc[w] = "convert" /\ UNCHANGED vars /\ data'[a][u].kind = "estimate"
    <3>1. status[u] = "Aborting"
      BY <2>4, ExecutingStatus
    <3> QED
      BY <1>4, <2>4, <3>1 DEF Past, vars, txVars
  <2> QED
    BY <2>2, <2>3, <2>4, EntryChange
<1> QED
  BY <1>2, <1>3, <1>4 DEF Past

-----------------------------------------------------------------------------
(* What executions have read *)

\* The transactions among the origins of a read, and whether each is still at
\* the incarnation that was read, with its entry in the memory.
TxsOf(O) == {u \in Txs : \E i \in Nat : FromTx(u, i) \in O}
Current(O, a) ==
  \A u \in Txs : \A i \in Nat : FromTx(u, i) \in O => i = incarnation[u] /\ data[a][u].kind = "data"

\* Origins are lower transactions, in incarnations that they have reached.
OriginsOK(O, a, t) ==
  \A o \in O : o = FromStorage \/ \E u \in Txs : \E i \in Nat : o = FromTx(u, i) /\ u < t /\ Past(u, i, a)

\* Above storage there are only amounts, else the lowest entry and no other is
\* absolute.
Grounded(O, a) ==
  /\ FromStorage \in O => Basics(a, TxsOf(O)) = {}
  /\ FromStorage \notin O => \E m \in TxsOf(O) :
       Basics(a, TxsOf(O)) = {m} /\ \A u \in TxsOf(O) : u >= m

\* As long as all origins are current, x is what they add up to.
Agrees(O, a, x) == Current(O, a) => x = Assembled(a, TxsOf(O)) /\ Grounded(O, a)

\* The two kinds of origins differ.
LEMMA OriginKinds ==
  /\ \A u, i : FromTx(u, i) # FromStorage
  /\ \A u, i, v, j : FromTx(u, i) = FromTx(v, j) => u = v /\ i = j
  /\ \A u, i : FromTx(u, i).tx = u
  /\ FromStorage.tx = 0 - 1
<1>1. FromStorage.from = "storage" /\ \A u, i : FromTx(u, i).from = "tx"
  BY DEF FromStorage, FromTx
<1>2. \A u, i : FromTx(u, i).tx = u /\ FromTx(u, i).inc = i
  BY DEF FromTx
<1>3. FromStorage.tx = 0 - 1
  BY DEF FromStorage
<1> QED
  BY <1>1, <1>2, <1>3

\* The same entries add up to the same.
LEMMA AssembledSame ==
  ASSUME NEW a \in Accounts, NEW us \in SUBSET Txs, \A u \in us : data'[a][u] = data[a][u]
  PROVE  Assembled(a, us)' = Assembled(a, us) /\ Basics(a, us)' = Basics(a, us)
<1>1. Basics(a, us)' = Basics(a, us)
  BY DEF Basics
<1>2. Base(a, us)' = Base(a, us)
  <2>1. CASE Basics(a, us) = {}
    BY <1>1, <2>1 DEF Base
  <2>2. CASE Basics(a, us) # {}
    <3> DEFINE S == Basics(a, us)
    <3>1. S \in SUBSET Txs /\ S \subseteq us
      BY DEF Basics
    <3>2. \E u \in S : \A v \in S : u >= v
      BY <2>2, <3>1, Greatest
    <3>3. Max(S) \in us
      BY <3>1, <3>2 DEF Max
    <3>4. data'[a][Max(S)] = data[a][Max(S)]
      BY <3>3
    <3> QED
      BY <1>1, <2>2, <3>4 DEF Base
  <2> QED
    BY <2>1, <2>2
<1>3. /\ [u \in Txs |-> IF u \in us THEN ToBalance(data[a][u].val) ELSE 0]' =
           [u \in Txs |-> IF u \in us THEN ToBalance(data[a][u].val) ELSE 0]
      /\ [u \in Txs |-> IF u \in us THEN ToNonce(data[a][u].val) ELSE 0]' =
           [u \in Txs |-> IF u \in us THEN ToNonce(data[a][u].val) ELSE 0]
  OBVIOUS
<1>4. BalanceAddition(a, us)' = BalanceAddition(a, us) /\ NonceAddition(a, us)' = NonceAddition(a, us)
  BY <1>3 DEF BalanceAddition, NonceAddition
<1> QED
  BY <1>1, <1>2, <1>4 DEF Assembled

\* What was read stays explained.
LEMMA OriginsStay ==
  ASSUME LInv, ReadShape, NEW w \in Workers, LazyStep(w), NEW a \in Accounts, NEW t, NEW O, OriginsOK(O, a, t)
  PROVE  /\ OriginsOK(O, a, t)'
         /\ \A x : Agrees(O, a, x) => Agrees(O, a, x)'
<1>1. OriginsOK(O, a, t)'
  <2> SUFFICES ASSUME NEW o \in O, o # FromStorage
               PROVE  \E u \in Txs : \E i \in Nat : o = FromTx(u, i) /\ u < t /\ Past(u, i, a)'
    BY DEF OriginsOK
  <2>1. PICK u \in Txs : \E i \in Nat : o = FromTx(u, i) /\ u < t /\ Past(u, i, a)
    BY DEF OriginsOK
  <2>2. PICK i \in Nat : o = FromTx(u, i) /\ u < t /\ Past(u, i, a)
    BY <2>1
  <2>3. Past(u, i, a)'
    BY <2>2, PastStays
  <2> QED
    BY <2>2, <2>3
<1>2. ASSUME Current(O, a)'
      PROVE  Current(O, a) /\ \A u \in TxsOf(O) : data'[a][u] = data[a][u]
  <2>1. ASSUME NEW u \in Txs, NEW i \in Nat, FromTx(u, i) \in O
        PROVE  i = incarnation[u] /\ data[a][u].kind = "data" /\ data'[a][u] = data[a][u]
    <3>1. Past(u, i, a)
      <4>1. PICK v \in Txs : \E j \in Nat : FromTx(u, i) = FromTx(v, j) /\ v < t /\ Past(v, j, a)
        BY <2>1, OriginKinds DEF OriginsOK
      <4>2. PICK j \in Nat : FromTx(u, i) = FromTx(v, j) /\ v < t /\ Past(v, j, a)
        BY <4>1
      <4>3. u = v /\ i = j
        BY <4>2, OriginKinds
      <4> QED
        BY <4>2, <4>3
    <3>2. i = incarnation'[u] /\ data'[a][u].kind = "data"
      BY <1>2, <2>1 DEF Current
    <3>3. data'[a][u] = data[a][u] /\ i = incarnation[u]
      BY <3>1, <3>2, PastStays
    <3> QED
      BY <3>2, <3>3
  <2>2. Current(O, a)
    BY <2>1 DEF Current
  <2>3. \A u \in TxsOf(O) : data'[a][u] = data[a][u]
    BY <2>1 DEF TxsOf
  <2> QED
    BY <2>2, <2>3
<1>3. ASSUME NEW x, Agrees(O, a, x) PROVE Agrees(O, a, x)'
  <2> SUFFICES ASSUME Current(O, a)' PROVE x = Assembled(a, TxsOf(O))' /\ Grounded(O, a)'
    BY DEF Agrees
  <2>1. Current(O, a) /\ \A u \in TxsOf(O) : data'[a][u] = data[a][u]
    BY <1>2
  <2>2. x = Assembled(a, TxsOf(O)) /\ Grounded(O, a)
    BY <1>3, <2>1 DEF Agrees
  <2> DEFINE us == TxsOf(O)
  <2>3. us \in SUBSET Txs
    BY DEF TxsOf
  <2> HIDE DEF us
  <2>4. Assembled(a, us)' = Assembled(a, us) /\ Basics(a, us)' = Basics(a, us)
    <3>1. \A u \in us : data'[a][u] = data[a][u]
      BY <2>1 DEF us
    <3> QED
      BY <2>3, <3>1, AssembledSame
  <2>5. Grounded(O, a)'
    BY <2>2, <2>4 DEF Grounded, us
  <2> QED
    BY <2>2, <2>4, <2>5 DEF us
<1> QED
  BY <1>1, <1>3

-----------------------------------------------------------------------------
(* Reading and validating *)

\* An absolute value or ESTIMATE ends the walk, if there is one.
LEMMA EndsOfWalk ==
  ASSUME NEW a, NEW t, Ends(a, t) # {}
  PROVE  \E m \in Txs : m \in Walk(a, t) /\ m \in Ends(a, t) /\ \A u \in Walk(a, t) \cup Ends(a, t) :
                          /\ u \in Walk(a, t) => u >= m
                          /\ u \in Ends(a, t) => m >= u
<1>1. Ends(a, t) \in SUBSET Txs /\ Ends(a, t) \subseteq Writers(a, t)
  BY DEF Ends, Writers
<1>2. PICK m \in Ends(a, t) : \A u \in Ends(a, t) : m >= u
  BY <1>1, Greatest
<1> QED
  BY <1>1, <1>2 DEF Walk

\* The walk of a read that is not blocked is of data.
LEMMA WalkIsData ==
  ASSUME LInv, NEW a \in Accounts, NEW t, ~Blocked(a, t)
  PROVE  \A u \in Walk(a, t) : u \in Txs /\ u < t /\ data[a][u].kind = "data" /\ data[a][u].inc = incarnation[u]
                               /\ incarnation[u] \in Nat
<1> SUFFICES ASSUME NEW u \in Walk(a, t)
             PROVE  /\ u \in Txs /\ u < t /\ data[a][u].kind = "data"
                    /\ data[a][u].inc = incarnation[u] /\ incarnation[u] \in Nat
  OBVIOUS
<1>1. u \in Txs /\ u < t /\ data[a][u].kind # "none"
  BY WalkFacts
<1>2. data[a][u].kind # "estimate"
  BY DEF Blocked
<1>3. incarnation[u] \in Nat
  BY <1>1 DEF LInv, IInv, TypeOK
<1> QED
  BY <1>1, <1>2, <1>3, EntryIsCurrent

\* What VmDb::basic registers explains what it returns.
LEMMA ReadIsExplained ==
  ASSUME LInv, NEW a \in Accounts, NEW t \in Txs, ~Blocked(a, t)
  PROVE  /\ OriginsOK(Origins(a, t), a, t)
         /\ Agrees(Origins(a, t), a, Account(a, t))
         /\ Origins(a, t) # {}
<1> DEFINE O == Origins(a, t)
           us == Walk(a, t)
<1>1. \A u \in us : /\ u \in Txs /\ u < t /\ data[a][u].kind = "data"
                    /\ data[a][u].inc = incarnation[u] /\ incarnation[u] \in Nat
  BY WalkIsData
<1>2. \A o : o \in O <=> (\E u \in us : o = FromTx(u, data[a][u].inc)) \/ (o = FromStorage /\ Ends(a, t) = {})
  BY DEF Origins
<1>3. TxsOf(O) = us
  <2>1. ASSUME NEW u \in TxsOf(O) PROVE u \in us
    <3>1. PICK i \in Nat : FromTx(u, i) \in O
      BY DEF TxsOf
    <3> QED
      BY <1>2, <3>1, OriginKinds
  <2>2. ASSUME NEW u \in us PROVE u \in TxsOf(O)
    BY <1>1, <1>2 DEF TxsOf
  <2> QED
    BY <2>1, <2>2
<1>4. OriginsOK(O, a, t)
  <2> SUFFICES ASSUME NEW o \in O, o # FromStorage
               PROVE  \E u \in Txs : \E i \in Nat : o = FromTx(u, i) /\ u < t /\ Past(u, i, a)
    BY DEF OriginsOK
  <2>1. PICK u \in us : o = FromTx(u, data[a][u].inc)
    BY <1>2
  <2>2. u \in Txs /\ u < t /\ data[a][u].inc \in Nat /\ Past(u, data[a][u].inc, a)
    BY <1>1 DEF Past
  <2> QED
    BY <2>1, <2>2
<1>5. O # {} /\ Grounded(O, a)
  <2>1. CASE Ends(a, t) = {}
    <3>1. FromStorage \in O
      BY <1>2, <2>1
    <3>2. Basics(a, us) = {}
      BY <1>1, <2>1 DEF Basics, Ends, Walk
    <3> QED
      BY <1>3, <3>1, <3>2 DEF Grounded
  <2>2. CASE Ends(a, t) # {}
    <3>1. FromStorage \notin O
      BY <1>2, <2>2, OriginKinds
    <3>2. PICK m \in Txs : /\ m \in us /\ m \in Ends(a, t)
                           /\ \A u \in us \cup Ends(a, t) : (u \in us => u >= m) /\ (u \in Ends(a, t) => m >= u)
      BY <2>2, EndsOfWalk
    <3>3. m \in Basics(a, us)
      BY <1>1, <3>2 DEF Basics, Ends
    <3>4. ASSUME NEW u \in Basics(a, us) PROVE u = m
      <4>1. u \in us /\ u \in Ends(a, t)
        BY <1>1 DEF Basics, Ends, Walk
      <4>2. u \in Int /\ m \in Int /\ u >= m /\ m >= u
        BY <1>1, <3>2, <4>1, TxsFacts
      <4> QED
        BY <4>2
    <3>5. Basics(a, us) = {m}
      BY <3>3, <3>4
    <3>6. FromTx(m, data[a][m].inc) \in O
      BY <1>2, <3>2
    <3> QED
      BY <1>3, <3>1, <3>2, <3>5, <3>6 DEF Grounded
  <2> QED
    BY <2>1, <2>2
<1>6. Agrees(O, a, Account(a, t))
  BY <1>3, <1>5 DEF Agrees, Account
<1> QED
  BY <1>4, <1>5, <1>6

\* What validate_read_locations accepts was read from what is there now.
LEMMA HoldsIsWalk ==
  ASSUME LInv, NEW a \in Accounts, NEW t \in Txs, NEW O, O = last_reads[t][a], O # {},
         OriginsOK(O, a, t), OriginsHold(a, t), NEW x, Agrees(O, a, x)
  PROVE  x = Account(a, t)
<1> DEFINE lowest == Min({o.tx : o \in O})
           entries == {u \in Writers(a, t) : u >= lowest}
<1>1. /\ \A u \in entries : data[a][u].kind = "data"
      /\ {FromTx(u, data[a][u].inc) : u \in entries} = O \ {FromStorage}
  BY DEF OriginsHold
<1>2. \A u \in entries : u \in Txs /\ u \in Writers(a, t) /\ data[a][u].kind = "data" /\ data[a][u].inc = incarnation[u]
                         /\ incarnation[u] \in Nat
  <2> SUFFICES ASSUME NEW u \in entries
               PROVE  u \in Txs /\ u \in Writers(a, t) /\ data[a][u].kind = "data" /\ data[a][u].inc = incarnation[u]
                      /\ incarnation[u] \in Nat
    OBVIOUS
  <2>1. u \in Txs /\ u \in Writers(a, t) /\ data[a][u].kind = "data"
    BY <1>1 DEF Writers
  <2> QED
    BY <2>1, EntryIsCurrent DEF LInv, IInv, TypeOK
<1>3. TxsOf(O) = entries /\ Current(O, a)
  <2>1. ASSUME NEW u \in Txs, NEW i \in Nat, FromTx(u, i) \in O
        PROVE  u \in entries /\ i = incarnation[u] /\ data[a][u].kind = "data"
    <3>1. FromTx(u, i) \in {FromTx(v, data[a][v].inc) : v \in entries}
      BY <1>1, <2>1, OriginKinds
    <3>2. PICK v \in entries : FromTx(u, i) = FromTx(v, data[a][v].inc)
      BY <3>1
    <3>3. u = v /\ i = data[a][v].inc
      BY <3>2, OriginKinds
    <3> QED
      BY <1>2, <3>2, <3>3
  <2>2. ASSUME NEW u \in entries PROVE u \in TxsOf(O)
    <3>1. FromTx(u, data[a][u].inc) \in O
      BY <1>1
    <3> QED
      BY <1>2, <3>1 DEF TxsOf
  <2>3. TxsOf(O) \subseteq entries
    BY <2>1 DEF TxsOf
  <2>4. Current(O, a)
    BY <2>1 DEF Current
  <2> QED
    BY <2>2, <2>3, <2>4
<1>4. x = Assembled(a, entries) /\ Grounded(O, a)
  BY <1>3 DEF Agrees
<1>5. \A u \in Writers(a, t) : u \in Txs /\ u \in Int /\ u >= 0 - 1
  BY DEF Writers, Txs
<1>6. \A o \in O : o.tx \in Int /\ o.tx >= 0 - 1 /\ (o # FromStorage => o.tx \in TxsOf(O))
  <2> SUFFICES ASSUME NEW o \in O PROVE o.tx \in Int /\ o.tx >= 0 - 1 /\ (o # FromStorage => o.tx \in TxsOf(O))
    OBVIOUS
  <2>1. CASE o = FromStorage
    BY <2>1, OriginKinds
  <2>2. CASE o # FromStorage
    <3>1. PICK u \in Txs : \E i \in Nat : o = FromTx(u, i)
      BY <2>2 DEF OriginsOK
    <3>2. u \in TxsOf(O) /\ o.tx = u
      BY <3>1, OriginKinds DEF TxsOf
    <3> QED
      BY <3>2 DEF Txs
  <2> QED
    BY <2>1, <2>2
<1>7. entries = Walk(a, t)
  <2>1. CASE FromStorage \in O
    <3>1. lowest = 0 - 1
      <4>1. 0 - 1 \in {o.tx : o \in O}
        BY <2>1, OriginKinds
      <4>2. \A y \in {o.tx : o \in O} : 0 - 1 <= y /\ y \in Int
        BY <1>6
      <4> HIDE <1>1, <1>2, <1>3, <1>4
      <4>3. ASSUME NEW T, T = {o.tx : o \in O} PROVE Min(T) = 0 - 1
        BY <4>1, <4>2, <4>3 DEF Min
      <4> QED
        BY <4>3
    <3>2. entries = Writers(a, t)
      BY <1>5, <3>1
    <3>3. Basics(a, entries) = {}
      BY <1>3, <1>4, <2>1 DEF Grounded
    <3>4. Ends(a, t) = {}
      BY <1>2, <3>2, <3>3 DEF Ends, Basics
    <3> QED
      BY <3>2, <3>4 DEF Walk
  <2>2. CASE FromStorage \notin O
    <3>1. PICK m \in TxsOf(O) : Basics(a, entries) = {m} /\ \A u \in TxsOf(O) : u >= m
      BY <1>3, <1>4, <2>2 DEF Grounded
    <3>2. m \in entries /\ m \in Txs /\ m \in Int /\ data[a][m].val.type = "Basic"
      <4>1. m \in Basics(a, entries)
        BY <3>1
      <4> QED
        BY <1>2, <4>1, TxsFacts DEF Basics
    <3>3. lowest = m
      <4>1. m \in {o.tx : o \in O}
        <5>1. PICK i \in Nat : FromTx(m, i) \in O
          BY <3>1 DEF TxsOf
        <5> QED
          BY <5>1, OriginKinds
      <4>2. \A y \in {o.tx : o \in O} : m <= y /\ y \in Int
        BY <1>6, <2>2, <3>1, <3>2
      <4>3. ASSUME NEW T, T = {o.tx : o \in O} PROVE Min(T) = m
        BY <3>2, <4>1, <4>2, <4>3 DEF Min
      <4> QED
        BY <4>3
    <3>4. m \in Ends(a, t)
      BY <1>2, <3>2 DEF Ends
    <3>5. ASSUME NEW v \in Ends(a, t) PROVE v <= m /\ v \in Int
      <4>1. v \in Writers(a, t) /\ v \in Int
        BY <1>5 DEF Ends
      <4>2. CASE v >= m
        <5>1. v \in entries
          BY <3>3, <4>1, <4>2
        <5>2. v \in Basics(a, entries)
          BY <1>2, <5>1 DEF Ends, Basics
        <5> QED
          BY <3>1, <3>2, <5>2
      <4>3. CASE ~(v >= m)
        BY <3>2, <4>1, <4>3
      <4> QED
        BY <4>2, <4>3
    <3>6. ASSUME NEW u \in Writers(a, t) PROVE (u >= m) <=> \A v \in Ends(a, t) : u >= v
      <4>1. u \in Int
        BY <1>5
      <4>2. ASSUME u >= m, NEW v \in Ends(a, t) PROVE u >= v
        BY <3>2, <3>5, <4>1, <4>2
      <4> QED
        BY <3>4, <4>2
    <3> QED
      BY <3>3, <3>6 DEF Walk
  <2> QED
    BY <2>1, <2>2
<1> QED
  BY <1>4, <1>7 DEF Account

-----------------------------------------------------------------------------
(* What a record says of the execution that made it *)

\* The origins r of the reads of t explain the accounts g that it has got.
Explained(r, g, t) ==
  \A a \in Accounts : OriginsOK(r[a], a, t) /\ (r[a] # {} => Agrees(r[a], a, g[a]))

\* An execution that goes on to record is lazy, or has read its sender, who can
\* pay, and its recipient.
Ready(x, lazy, g, r) ==
  IF lazy THEN x.kind = "transfer"
          ELSE r[x.from] # {} /\ r[x.to] # {} /\ Affordable(x, g[x.from])

\* What worker w has read, and what it has recorded of it so far.
ReaderOK(w) ==
  /\ mpc[w] \notin VmPcs => reads[w] = NotRead
  /\ Explained(reads[w], got[w], tx[w])
  /\ mpc[w] = "addLazy" => is_lazy[w] /\ Tx(w).kind = "transfer"
  /\ mpc[w] = "from" => reads[w] = NotRead
  /\ mpc[w] = "to" => /\ Tx(w).from # Tx(w).to /\ reads[w][Tx(w).from] # {}
                      /\ Affordable(Tx(w), got[w][Tx(w).from])
  /\ mpc[w] \in {"ready", "remove", "insert"} => Ready(Tx(w), is_lazy[w], got[w], reads[w])
  /\ mpc[w] \in {"remove", "insert"} => last_reads[tx[w]] = reads[w]
  /\ mpc[w] = "insert" => \A a \in Accounts :
       data[a][tx[w]].kind = "data" => data[a][tx[w]].val = WriteSet(w)[a]

\* The record of t is that of an execution, lazy or not, that has got g.
RecordAs(t, lazy, g) ==
  /\ Ready(block[t], lazy, g, last_reads[t])
  /\ Explained(last_reads[t], g, t)
  /\ \A a \in Accounts : IsAccount(g[a])
  /\ lazy => {block[t].from, block[t].to} \subseteq lazy_addresses
  /\ results[t] = [gas |-> GasUsed(block[t], lazy, g), state |-> StateAfter(block[t], lazy, g)]
  /\ last_writes[t] = DOMAIN Writes(block[t], lazy, g)
  /\ \A a \in Accounts : data[a][t].kind = "data" => data[a][t].val = Writes(block[t], lazy, g)[a]
RecordOK(t) == \E lazy \in BOOLEAN : \E g : RecordAs(t, lazy, g)

LastOK(t) == \A a \in Accounts : OriginsOK(last_reads[t][a], a, t)

ReadsInv ==
  /\ \A w \in Workers : ReaderOK(w)
  /\ \A t \in Txs : LastOK(t)
  /\ \A t \in Txs : HasRecord(t) => RecordOK(t)

\* Nothing is explained by nothing.
LEMMA NothingRead ==
  ASSUME NEW g, NEW t
  PROVE  Explained(NotRead, g, t)
<1>1. \A a \in Accounts : NotRead[a] = {}
  BY DEF NotRead
<1> QED
  BY <1>1 DEF Explained, OriginsOK

\* Explanations stay.
LEMMA ExplainedStays ==
  ASSUME LInv, ReadShape, NEW w \in Workers, LazyStep(w), NEW r, NEW g, NEW t, Explained(r, g, t)
  PROVE  Explained(r, g, t)'
<1> SUFFICES ASSUME NEW a \in Accounts
             PROVE  OriginsOK(r[a], a, t)' /\ (r[a] # {} => Agrees(r[a], a, g[a])')
  BY DEF Explained
<1>1. ASSUME NEW O, O = r[a], NEW x, x = g[a]
      PROVE  OriginsOK(r[a], a, t)' /\ (r[a] # {} => Agrees(r[a], a, g[a])')
  <2>1. OriginsOK(O, a, t) /\ (O # {} => Agrees(O, a, x))
    BY <1>1 DEF Explained
  <2>2. OriginsOK(O, a, t)' /\ (Agrees(O, a, x) => Agrees(O, a, x)')
    BY <2>1, OriginsStay
  <2> QED
    BY <1>1, <2>1, <2>2
<1> QED
  BY <1>1

\* Nothing has been read or recorded before the block.
LEMMA ReadsInit == LazyInit => ReadsInv /\ ReadShape
<1> SUFFICES ASSUME LazyInit PROVE ReadsInv /\ ReadShape
  OBVIOUS
<1>1. \A t \in Txs : ~HasRecord(t)
  BY DEF LazyInit, Init, HasRecord, Finished, DonePcs, FinishPcs
<1>2. /\ reads = [w \in Workers |-> NotRead] /\ last_reads = [t \in Txs |-> NotRead]
      /\ mpc = [w \in Workers |-> "idle"] /\ wrote = [w \in Workers |-> FALSE]
      /\ results = [t \in Txs |-> [gas |-> 0]]
      /\ got = [w \in Workers |-> [a \in Accounts |-> Empty]]
  BY DEF LazyInit
<1>3. \A w \in Workers : ReaderOK(w)
  BY <1>2, NothingRead DEF ReaderOK
<1>4. \A t \in Txs : LastOK(t)
  BY <1>2, NothingRead DEF LastOK, Explained
<1>5. ReadShape
  <2>1. IsAccount(Empty)
    BY DEF IsAccount, Empty
  <2> QED
    BY <1>2, <2>1 DEF ReadShape, NotRead
<1> QED
  BY <1>1, <1>3, <1>4, <1>5 DEF ReadsInv

\* Only an execution records.
LEMMA RecordFrame ==
  ASSUME LInv, ReadShape, NEW w \in Workers, LazyStep(w), pc[w] # "execute"
  PROVE  UNCHANGED <<last_reads, last_writes, results>>
<1>1. MpcAt(w)
  BY DEF LInv, MpcOK
<1> QED
  BY <1>1
  DEF LazyStep, memVars, shared, VmNew, VmReadFrom, VmReadTo, Got, VmReadEstimate, VmNotYet, GiveUp,
      AddLazyAddresses, RecordReads, RecordRemove, RecordInsert, ExecuteOk, ValidateStart, ValidateCheck, ValidateEnd,
      ConvertStart, ConvertOne, ConvertEnd, MpcAt, VmPcs

\* Only the end of an execution gives a transaction a record.
LEMMA RecordAppears ==
  ASSUME LInv, ReadShape, NEW w \in Workers, LazyStep(w), NEW t \in Txs, HasRecord(t)', ~HasRecord(t)
  PROVE  ExecuteOk(w) /\ t = tx[w]
<1>0. IInv /\ MpcOK /\ Shape /\ Others(w)
  BY StepFacts
<1>1. CASE pc[w] # "setReason" /\ WorkerStep(w)
  BY <1>0, <1>1, WorkerRecords
<1>2. CASE MemStep(w) /\ (t # tx[w] \/ ~(ExecuteOk(w) \/ ConvertEnd(w)))
  BY <1>0, <1>2, MemRecords
<1>3. CASE ConvertEnd(w) /\ t = tx[w]
  BY <1>3 DEF ConvertEnd, ConvertWrites, HasRecord
<1> QED
  BY <1>1, <1>2, <1>3 DEF LazyStep, MemStep

\* A record stays as it is, until it is given up.
LEMMA RecordStays ==
  ASSUME LInv, ReadShape, NEW w \in Workers, LazyStep(w), NEW t \in Txs, HasRecord(t), RecordOK(t)
  PROVE  RecordOK(t)'
<1>0. IInv /\ tx[w] \in Txs /\ Apart(w) /\ ReadsApart(w) /\ Shape
  BY StepFacts
<1>1. t = tx[w] => pc[w] # "execute"
  BY <1>0, NoRecordYet
<1>2. UNCHANGED <<block, last_reads[t], last_writes[t], results[t]>> /\ lazy_addresses \subseteq lazy_addresses'
  <2>1. CASE t = tx[w]
    BY <1>0, <1>1, <2>1, RecordFrame DEF Apart
  <2>2. CASE t # tx[w]
    BY <1>0, <2>2 DEF Apart, ReadsApart
  <2> QED
    BY <2>1, <2>2
<1>3. \A a \in Accounts : data'[a][t].kind = "data" => data'[a][t] = data[a][t]
  <2> TAKE a \in Accounts
  <2>1. \/ Kept(a, t)
        \/ t = tx[w] /\ pc[w] = "execute"
        \/ data'[a][t].kind = "estimate"
    BY EntryChange
  <2> QED
    BY <1>1, <2>1 DEF Kept
<1>4. PICK lazy \in BOOLEAN : \E g : RecordAs(t, lazy, g)
  BY DEF RecordOK
<1>5. PICK g : RecordAs(t, lazy, g)
  BY <1>4
<1>6. ASSUME NEW r, r = last_reads[t] PROVE Explained(last_reads[t], g, t)'
  <2>1. Explained(r, g, t)
    BY <1>5, <1>6 DEF RecordAs
  <2>2. Explained(r, g, t)'
    BY <2>1, ExplainedStays
  <2>3. r = last_reads'[t]
    BY <1>2, <1>6
  <2> QED
    BY <2>2, <2>3
<1>7. Explained(last_reads[t], g, t)'
  BY <1>6
<1>8. RecordAs(t, lazy, g)'
  BY <1>2, <1>3, <1>5, <1>7 DEF RecordAs
<1> QED
  BY <1>8 DEF RecordOK

\* What the other workers have read stays explained, and nobody touches what
\* they are recording.
LEMMA OtherReaders ==
  ASSUME LInv, ReadShape, NEW w \in Workers, LazyStep(w), NEW v \in Workers, v # w, ReaderOK(v)
  PROVE  ReaderOK(v)'
<1>0. /\ IInv /\ MpcOK /\ Shape /\ tx[w] \in Txs
      /\ Elsewhere(w) /\ Apart(w) /\ Others(w) /\ ReadsElsewhere(w) /\ ReadsApart(w)
  BY StepFacts
<1>1. /\ UNCHANGED <<mpc[v], is_lazy[v], got[v], reads[v], pc[v], tx[v], block>>
      /\ tx[v] \in Txs
  BY <1>0, ExecutingStatus DEF Elsewhere, Apart, Others, ReadsElsewhere
<1>2. Tx(v)' = Tx(v) /\ WriteSet(v)' = WriteSet(v)
  BY <1>1, SameWrites DEF Tx
<1>3. Explained(reads[v], got[v], tx[v])'
  <2>1. ASSUME NEW r, NEW g, NEW t, r = reads[v], g = got[v], t = tx[v] PROVE Explained(reads[v], got[v], tx[v])'
    <3>1. Explained(r, g, t)
      BY <2>1 DEF ReaderOK
    <3>2. Explained(r, g, t)'
      BY <3>1, ExplainedStays
    <3>3. r = reads'[v] /\ g = got'[v] /\ t = tx'[v]
      BY <1>1, <2>1
    <3> QED
      BY <3>2, <3>3
  <2> QED
    BY <2>1
<1>4. mpc[v] \in {"remove", "insert"} => last_reads'[tx[v]] = last_reads[tx[v]]
  <2>1. CASE tx[v] # tx[w]
    BY <1>0, <1>1, <2>1 DEF ReadsApart
  <2>2. CASE tx[v] = tx[w] /\ RecordReads(w)
    BY <2>2 DEF RecordReads, LastFree
  <2>3. CASE ~RecordReads(w)
    BY <2>3
    DEF LazyStep, memVars, shared, VmNew, VmReadFrom, VmReadTo, Got, VmReadEstimate, VmNotYet, GiveUp,
        AddLazyAddresses, RecordRemove, RecordInsert, ExecuteOk, ValidateStart, ValidateCheck, ValidateEnd,
        ConvertStart, ConvertOne, ConvertEnd
  <2> QED
    BY <2>1, <2>2, <2>3
<1>5. ASSUME mpc[v] = "insert", NEW a \in Accounts PROVE data'[a][tx[v]] = data[a][tx[v]]
  <2>1. CASE tx[v] # tx[w]
    BY <1>0, <1>1, <2>1 DEF Apart
  <2>2. CASE tx[v] = tx[w]
    <3>1. status[tx[v]] = "Executing"
      BY <1>0, <1>5, ExecutingStatus DEF MpcOK, MpcAt, VmPcs
    <3>2. pc[w] # "convert"
      BY <2>2, <3>1, ExecutingStatus
    <3>3. mpc[w] \notin {"remove", "insert"}
      BY <1>0, <1>5, <2>2 DEF MpcOK, LastIsExclusive, LastPcs
    <3> QED
      BY <1>0, <2>2, <3>2, <3>3, EntryChange DEF Kept
  <2> QED
    BY <2>1, <2>2
<1> QED
  BY <1>1, <1>2, <1>3, <1>4, <1>5 DEF ReaderOK

\* A worker reads an account.
LEMMA GotStep ==
  ASSUME LInv, ReadShape, NEW w \in Workers, LazyStep(w), ReaderOK(w), NEW a \in Accounts, NEW l, Got(w, a, l),
         ~Blocked(a, tx[w]), mpc[w] \in {"from", "to"}
  PROVE  /\ Explained(reads[w], got[w], tx[w])'
         /\ got'[w][a] = Account(a, tx[w]) /\ reads'[w][a] # {}
         /\ \A b \in Accounts : b # a => got'[w][b] = got[w][b] /\ reads'[w][b] = reads[w][b]
         /\ UNCHANGED <<tx, block, is_lazy, last_reads, data>>
         /\ Tx(w)' = Tx(w) /\ mpc'[w] = l /\ ~is_lazy[w]
<1>0. Shape /\ MpcOK /\ tx[w] \in Txs
  BY StepFacts
<1>1. /\ got' = [got EXCEPT ![w][a] = Account(a, tx[w])]
      /\ reads' = [reads EXCEPT ![w][a] = Origins(a, tx[w])]
      /\ mpc' = [mpc EXCEPT ![w] = l]
      /\ UNCHANGED <<vars, block, shared, is_lazy>>
  BY DEF Got
<1>2. UNCHANGED <<tx, block, is_lazy, last_reads, data>> /\ Tx(w)' = Tx(w)
  BY <1>1 DEF vars, locals, shared, Tx
<1>3. mpc'[w] = l /\ ~is_lazy[w]
  BY <1>0, <1>1 DEF Shape, MpcOK, MpcAt
<1>4. /\ got'[w] = [got[w] EXCEPT ![a] = Account(a, tx[w])]
      /\ reads'[w] = [reads[w] EXCEPT ![a] = Origins(a, tx[w])]
  BY <1>0, <1>1 DEF Shape, ReadShape
<1>5. /\ got'[w][a] = Account(a, tx[w]) /\ reads'[w][a] = Origins(a, tx[w])
      /\ \A b \in Accounts : b # a => got'[w][b] = got[w][b] /\ reads'[w][b] = reads[w][b]
  BY <1>4 DEF ReadShape
<1>6. ASSUME NEW r, NEW g, NEW t, NEW O, NEW x,
             r = reads[w], g = got[w], t = tx[w], O = Origins(a, t), x = Account(a, t)
      PROVE  Explained(reads[w], got[w], tx[w])' /\ O # {}
  <2>1. t \in Txs /\ Explained(r, g, t)
    BY <1>0, <1>6 DEF ReaderOK
  <2>2. OriginsOK(O, a, t) /\ Agrees(O, a, x) /\ O # {}
    BY <1>6, <2>1, ReadIsExplained
  <2>3. OriginsOK(O, a, t)' /\ Agrees(O, a, x)'
    BY <2>2, OriginsStay
  <2>4. Explained(r, g, t)'
    BY <2>1, ExplainedStays
  <2>5. /\ t = tx'[w] /\ x = got'[w][a] /\ O = reads'[w][a]
        /\ \A b \in Accounts : b # a => g[b] = got'[w][b] /\ r[b] = reads'[w][b]
    BY <1>2, <1>5, <1>6
  <2>6. ASSUME NEW b \in Accounts
        PROVE  OriginsOK(reads[w][b], b, tx[w])' /\ (reads'[w][b] # {} => Agrees(reads[w][b], b, got[w][b])')
    <3>1. CASE b = a
      BY <2>3, <2>5, <3>1
    <3>2. CASE b # a
      <4>1. OriginsOK(r[b], b, t)' /\ (r[b] # {} => Agrees(r[b], b, g[b])')
        BY <2>4 DEF Explained
      <4> QED
        BY <2>5, <3>2, <4>1
    <3> QED
      BY <3>1, <3>2
  <2> QED
    BY <2>2, <2>6 DEF Explained
<1> QED
  BY <1>2, <1>3, <1>5, <1>6

\* What the worker itself has read and recorded.
LEMMA OwnReader ==
  ASSUME LInv, ReadShape, NEW w \in Workers, LazyStep(w), ReaderOK(w)
  PROVE  ReaderOK(w)'
<1>0. IInv /\ TypeOK /\ MpcOK /\ Shape /\ EntriesOK /\ tx[w] \in Txs /\ block \in Blocks
  BY StepFacts DEF Shape
<1>1. Tx(w).from \in Accounts /\ Tx(w).to \in Accounts
  BY <1>0, TxFacts
<1>a. ASSUME mpc'[w] \notin VmPcs, reads'[w] = NotRead PROVE ReaderOK(w)'
  <2>2. Explained(reads[w], got[w], tx[w])'
    <3>1. \A a \in Accounts : NotRead[a] = {}
      BY DEF NotRead
    <3> QED
      BY <1>a, <3>1 DEF Explained, OriginsOK
  <2> QED
    BY <1>a, <2>2 DEF ReaderOK, VmPcs
<1>b. ASSUME ResetLocals(w) PROVE ReaderOK(w)'
  BY <1>0, <1>a, <1>b, ResetReads DEF VmPcs
<1>c. ASSUME mpc[w] \notin VmPcs, mpc'[w] \notin VmPcs, reads' = reads PROVE ReaderOK(w)'
  BY <1>a, <1>c DEF ReaderOK
<1>d. ASSUME UNCHANGED <<vars, block, got, reads>>
      PROVE  Explained(reads[w], got[w], tx[w])' /\ Tx(w)' = Tx(w) /\ tx' = tx
  <2>1. ASSUME NEW r, NEW g, NEW t, r = reads[w], g = got[w], t = tx[w] PROVE Explained(reads[w], got[w], tx[w])'
    <3>1. Explained(r, g, t)'
      BY <2>1, ExplainedStays DEF ReaderOK
    <3>2. r = reads'[w] /\ g = got'[w] /\ t = tx'[w]
      BY <1>d, <2>1 DEF vars, locals
    <3> QED
      BY <3>1, <3>2
  <2> QED
    BY <1>d, <2>1 DEF vars, locals, Tx
<1>2. CASE pc[w] # "setReason" /\ WorkerStep(w) /\ UNCHANGED memVars
  <2>1. mpc[w] \notin VmPcs /\ mpc' = mpc /\ reads' = reads
    BY <1>0, <1>2, WorkerOutside DEF MpcOK, MpcAt, memVars, memLocals
  <2> QED
    BY <1>c, <2>1
<1>3. CASE VmNew(w)
  <2>1. /\ mpc[w] = "idle" /\ UNCHANGED <<vars, block, got, reads>>
        /\ mpc'[w] = IF is_lazy'[w] THEN "addLazy" ELSE "from"
        /\ is_lazy'[w] => Tx(w).kind = "transfer"
    BY <1>0, <1>3 DEF VmNew, Shape
  <2>2. reads'[w] = NotRead
    BY <2>1 DEF ReaderOK, VmPcs
  <2> QED
    BY <1>d, <2>1, <2>2 DEF ReaderOK, VmPcs
<1>4. CASE VmReadFrom(w)
  <2>1. /\ mpc[w] = "from" /\ ~Blocked(Tx(w).from, tx[w]) /\ Affordable(Tx(w), Account(Tx(w).from, tx[w]))
        /\ Got(w, Tx(w).from, IF Tx(w).from = Tx(w).to THEN "ready" ELSE "to")
    BY <1>4 DEF VmReadFrom
  <2> DEFINE a == Tx(w).from
             l == IF Tx(w).from = Tx(w).to THEN "ready" ELSE "to"
  <2>2. /\ Explained(reads[w], got[w], tx[w])'
        /\ got'[w][a] = Account(a, tx[w]) /\ reads'[w][a] # {}
        /\ UNCHANGED <<tx, block, is_lazy, last_reads, data>>
        /\ Tx(w)' = Tx(w) /\ mpc'[w] = l /\ ~is_lazy[w]
    BY <1>1, <2>1, GotStep
  <2> QED
    BY <2>1, <2>2 DEF ReaderOK, Ready, VmPcs
<1>5. CASE VmReadTo(w)
  <2>1. mpc[w] = "to" /\ ~Blocked(Tx(w).to, tx[w]) /\ Got(w, Tx(w).to, "ready")
    BY <1>5 DEF VmReadTo
  <2> DEFINE a == Tx(w).to
  <2>2. /\ Explained(reads[w], got[w], tx[w])'
        /\ reads'[w][a] # {}
        /\ \A b \in Accounts : b # a => got'[w][b] = got[w][b] /\ reads'[w][b] = reads[w][b]
        /\ UNCHANGED <<tx, block, is_lazy, last_reads, data>>
        /\ Tx(w)' = Tx(w) /\ mpc'[w] = "ready" /\ ~is_lazy[w]
    BY <1>1, <2>1, GotStep
  <2>3. Tx(w).from # a /\ reads[w][Tx(w).from] # {} /\ Affordable(Tx(w), got[w][Tx(w).from])
    BY <2>1 DEF ReaderOK
  <2> QED
    BY <1>1, <2>2, <2>3 DEF ReaderOK, Ready, VmPcs
<1>6. CASE VmReadEstimate(w) BY <1>6, <1>b DEF VmReadEstimate
<1>7. CASE VmNotYet(w) BY <1>7, <1>b DEF VmNotYet
<1>8. CASE GiveUp(w)
  <2>1. pc[w] = "setReason" /\ mpc' = mpc /\ reads' = reads
    BY <1>8 DEF GiveUp, SetAbortReason, memVars, memLocals
  <2>2. mpc[w] \notin VmPcs
    BY <1>0, <2>1 DEF MpcOK, MpcAt
  <2> QED
    BY <1>c, <2>1, <2>2
<1>9. CASE AddLazyAddresses(w)
  <2>1. mpc[w] = "addLazy" /\ mpc'[w] = "ready" /\ UNCHANGED <<vars, block, is_lazy, got, reads>>
    BY <1>0, <1>9 DEF AddLazyAddresses, Shape
  <2> QED
    BY <1>d, <2>1 DEF ReaderOK, Ready, VmPcs
<1>10. CASE RecordReads(w)
  <2>1. /\ mpc[w] = "ready" /\ mpc'[w] = "remove" /\ UNCHANGED <<vars, block, is_lazy, got, reads>>
        /\ last_reads'[tx[w]] = reads[w]
    BY <1>0, <1>10 DEF RecordReads, Shape, ReadShape
  <2> QED
    BY <1>d, <2>1 DEF ReaderOK, VmPcs
<1>11. CASE RecordRemove(w)
  <2>1. /\ mpc[w] = "remove" /\ UNCHANGED <<vars, block, is_lazy, got, reads, last_reads>>
        /\ mpc'[w] = "remove" \/ (mpc'[w] = "insert" /\ data' = data)
    BY <1>0, <1>11 DEF RecordRemove, Shape
  <2>2. \A a \in Accounts : data[a][tx[w]].kind # "data"
    <3>1. ~HasRecord(tx[w]) /\ ~Writing(tx[w])
      BY <1>0, <2>1, NoRecordYet DEF Writing, MpcOK, MpcAt, VmPcs, LastIsExclusive, LastPcs
    <3> QED
      BY <1>0, <3>1, EntryKinds DEF EntriesOK, Marked, Unwritten
  <2> QED
    BY <1>d, <2>1, <2>2 DEF ReaderOK, VmPcs
<1>12. CASE RecordInsert(w)
  <2>1. mpc[w] = "insert" /\ mpc' = mpc /\ UNCHANGED <<vars, block, is_lazy, got, reads, last_reads>>
    BY <1>12 DEF RecordInsert
  <2>2. WriteSet(w)' = WriteSet(w)
    BY <1>d, <2>1, SameWrites
  <2>3. ASSUME NEW a \in Accounts, data'[a][tx[w]].kind = "data" PROVE data'[a][tx[w]].val = WriteSet(w)[a]
    <3>1. pc[w] = "execute"
      BY <1>0, <2>1 DEF MpcOK, MpcAt, VmPcs
    <3>2. Kept(a, tx[w]) \/ data'[a][tx[w]].val = WriteSet(w)[a]
      BY <1>0, <2>1, <3>1, EntryChange
    <3> QED
      BY <2>1, <2>3, <3>2 DEF Kept, ReaderOK
  <2> QED
    BY <1>d, <2>1, <2>2, <2>3 DEF ReaderOK
<1>13. CASE ExecuteOk(w) BY <1>13, <1>b DEF ExecuteOk
<1>14. CASE ValidateStart(w)
  <2>1. mpc[w] = "idle" /\ mpc'[w] = "check" /\ reads' = reads
    BY <1>0, <1>14 DEF ValidateStart, Shape
  <2> QED
    BY <1>c, <2>1 DEF VmPcs
<1>15. CASE ValidateCheck(w)
  <2>1. mpc[w] = "check" /\ (ResetLocals(w) \/ (mpc' = mpc /\ reads' = reads))
    BY <1>15 DEF ValidateCheck
  <2> QED
    BY <1>b, <1>c, <2>1 DEF VmPcs
<1>16. CASE ValidateEnd(w) BY <1>16, <1>b DEF ValidateEnd
<1>17. CASE ConvertStart(w)
  <2>1. mpc[w] = "idle" /\ mpc'[w] = "mark" /\ reads' = reads
    BY <1>0, <1>17 DEF ConvertStart, Shape
  <2> QED
    BY <1>c, <2>1 DEF VmPcs
<1>18. CASE ConvertOne(w)
  <2>1. mpc[w] = "mark" /\ mpc' = mpc /\ reads' = reads
    BY <1>18 DEF ConvertOne
  <2> QED
    BY <1>c, <2>1 DEF VmPcs
<1>19. CASE ConvertEnd(w) BY <1>19, <1>b DEF ConvertEnd
<1> QED
  BY <1>2, <1>3, <1>4, <1>5, <1>6, <1>7, <1>8, <1>9, <1>10, <1>11, <1>12, <1>13, <1>14, <1>15, <1>16,
     <1>17, <1>18, <1>19 DEF LazyStep

\* A new record is that of its execution.
LEMMA NewRecord ==
  ASSUME LInv, ReadShape, NEW w \in Workers, LazyStep(w), ReaderOK(w), ExecuteOk(w)
  PROVE  RecordOK(tx[w])'
<1>0. IInv /\ TypeOK /\ MpcOK /\ Shape /\ EntriesOK /\ tx[w] \in Txs /\ block \in Blocks
  BY StepFacts DEF Shape
<1>1. /\ mpc[w] = "insert" /\ todo[w] = {}
      /\ results' = [results EXCEPT ![tx[w]] = [gas   |-> GasUsed(Tx(w), is_lazy[w], got[w]),
                                                    state |-> StateAfter(Tx(w), is_lazy[w], got[w])]]
      /\ UNCHANGED <<block, data, keys, lazy_addresses, last_reads, last_writes>>
      /\ VmOk(w, (IF tx[w] > 0 /\ ~is_lazy[w] THEN NeedValidation ELSE {})
               \cup (IF wrote[w] THEN WroteNewLocation ELSE {}))
  BY DEF ExecuteOk
<1>2. tx' = tx
  BY <1>1 DEF VmOk, locals
<1> SUFFICES ASSUME NEW t, NEW z, NEW g, NEW r, t = tx[w], z = is_lazy[w], g = got[w], r = reads[w]
             PROVE  RecordOK(t)'
  <2>1. ASSUME NEW t, NEW z, NEW g, NEW r, t = tx[w], z = is_lazy[w], g = got[w], r = reads[w]
        PROVE  RecordOK(tx[w])'
    <3>1. t = tx'[w]
      BY <1>2, <2>1
    <3>2. RecordOK(t)'
      BY <2>1
    <3> QED
      BY <3>1, <3>2
  <2> QED
    BY <2>1
<1>3. t \in Txs /\ z \in BOOLEAN /\ Tx(w) = block[t] /\ last_reads'[t] = r /\ last_reads[t] = r
  BY <1>0, <1>1 DEF Shape, Tx, ReaderOK
<1>4. Ready(block[t], z, g, r) /\ Explained(r, g, t)
  BY <1>1, <1>3 DEF ReaderOK
<1>5. Explained(r, g, t)'
  BY <1>4, ExplainedStays
<1>6. Explained(last_reads[t], g, t)'
  BY <1>3, <1>5
<1>7. z => {block[t].from, block[t].to} \subseteq lazy_addresses
  BY <1>0, <1>1, <1>3, ZenonT(40) DEF MpcOK, MpcAt
<1>8. results'[t] = [gas |-> GasUsed(block[t], z, g), state |-> StateAfter(block[t], z, g)]
  BY <1>1, <1>3 DEF ReadShape
<1>9. WriteSet(w) = Writes(block[t], z, g)
  BY <1>3 DEF WriteSet
<1>10. last_writes[t] = DOMAIN Writes(block[t], z, g)
  BY <1>0, <1>1, <1>9 DEF EntriesOK, PartlyWritten
<1>11. \A a \in Accounts : data[a][t].kind = "data" => data[a][t].val = Writes(block[t], z, g)[a]
  BY <1>1, <1>9 DEF ReaderOK
<1>13. \A a \in Accounts : IsAccount(g[a])
  BY DEF ReadShape
<1>12. RecordAs(t, z, g)'
  BY <1>13, <1>1, <1>3, <1>4, <1>6, <1>7, <1>8, <1>10, <1>11 DEF RecordAs
<1> QED
  BY <1>3, <1>12 DEF RecordOK

\* Every step keeps all reads and records explained.
LEMMA ReadsStep ==
  ASSUME LInv, ReadShape, ReadsInv, NEW w \in Workers, LazyStep(w)
  PROVE  ReadsInv'
<1>0. IInv /\ tx[w] \in Txs /\ Shape /\ MpcOK /\ ReadsApart(w)
  BY StepFacts
<1>1. \A v \in Workers : ReaderOK(v)'
  BY OtherReaders, OwnReader DEF ReadsInv
<1>2. ASSUME NEW t \in Txs, UNCHANGED last_reads[t] PROVE LastOK(t)'
  <2> SUFFICES ASSUME NEW a \in Accounts PROVE OriginsOK(last_reads[t][a], a, t)'
    BY DEF LastOK
  <2>1. ASSUME NEW O, O = last_reads[t][a] PROVE OriginsOK(last_reads[t][a], a, t)'
    <3>1. OriginsOK(O, a, t)
      BY <2>1 DEF ReadsInv, LastOK
    <3>2. OriginsOK(O, a, t)'
      BY <3>1, OriginsStay
    <3>3. O = last_reads'[t][a]
      BY <1>2, <2>1
    <3> QED
      BY <3>2, <3>3
  <2> QED
    BY <2>1
<1>3. \A t \in Txs : LastOK(t)'
  <2>1. CASE RecordReads(w)
    <3>1. last_reads'[tx[w]] = reads'[w] /\ tx' = tx
      BY <1>0, <2>1 DEF RecordReads, ReadShape, vars, locals
    <3>2. Explained(reads[w], got[w], tx[w])'
      BY <1>1 DEF ReaderOK
    <3>3. \A a \in Accounts : OriginsOK(reads[w][a], a, tx[w])'
      BY <3>2 DEF Explained
    <3>4. ASSUME NEW t, t = tx[w] PROVE LastOK(t)'
      <4>1. t = tx'[w] /\ last_reads'[t] = reads'[w]
        BY <3>1, <3>4
      <4> QED
        BY <3>3, <4>1 DEF LastOK
    <3>5. ASSUME NEW t \in Txs PROVE LastOK(t)'
      BY <1>0, <1>2, <3>4 DEF ReadsApart
    <3> QED
      BY <3>5
  <2>2. CASE ~RecordReads(w)
    <3>1. last_reads' = last_reads
      BY <2>2
      DEF LazyStep, memVars, shared, VmNew, VmReadFrom, VmReadTo, Got, VmReadEstimate, VmNotYet, GiveUp,
          AddLazyAddresses, RecordRemove, RecordInsert, ExecuteOk, ValidateStart, ValidateCheck, ValidateEnd,
          ConvertStart, ConvertOne, ConvertEnd
    <3> QED
      BY <1>2, <3>1
  <2> QED
    BY <2>1, <2>2
<1>4. ASSUME NEW t \in Txs, HasRecord(t)' PROVE RecordOK(t)'
  <2>1. CASE HasRecord(t)
    BY <2>1, RecordStays DEF ReadsInv
  <2>2. CASE ~HasRecord(t)
    <3>1. ExecuteOk(w) /\ t = tx[w]
      BY <1>4, <2>2, RecordAppears
    <3>2. RecordOK(tx[w])' /\ tx' = tx
      BY <3>1, NewRecord DEF ReadsInv, ExecuteOk, VmOk, locals
    <3>3. t = tx'[w]
      BY <3>1, <3>2
    <3> QED
      BY <3>2, <3>3
  <2> QED
    BY <2>1, <2>2
<1> QED
  BY <1>1, <1>3, <1>4 DEF ReadsInv

-----------------------------------------------------------------------------
(* Reads whose origins have moved on *)

\* A validation of t would fail at a.
Broken(a, t) == last_reads[t][a] # {} /\ ~OriginsHold(a, t)

\* A worker that will look at a when it validates t, and one that will move
\* validation_idx back below t.
WillCheck(w, a, t) ==
  /\ tx[w] = t
  /\ \/ pc[w] \in {"inspect", "postVal", "tryAbort"}
     \/ pc[w] = "validate" /\ (mpc[w] = "check" => a \in todo[w])
WillRewind(w, t) ==
  /\ tx[w] < t
  /\ \/ pc[w] \in {"convert", "setReady", "valMin"}
     \/ mpc[w] = "insert" /\ wrote[w]
     \/ /\ pc[w] \in {"finish", "drain", "drainIdx", "finMin", "finVal", "finFetchMin"}
        /\ Contains(flags[w], WroteNewLocation)
Covered(a, t) == validation_idx <= t \/ \E w \in Workers : WillCheck(w, a, t) \/ WillRewind(w, t)

\* Unless the block is given up, a finished transaction that has read something
\* outdated will be validated.
ReadsAreCovered ==
  ~aborted => \A t \in Txs, a \in Accounts : Finished(t) /\ Broken(a, t) => Covered(a, t)

\* A step breaks a read only by marking, or by writing a location that the
\* transaction had not written before: then its worker will move
\* validation_idx back.  Entries below the lowest origin do not matter.
LEMMA BreakerRewinds ==
  ASSUME LInv, ReadShape, NEW w \in Workers, LazyStep(w), NEW a \in Accounts, NEW t \in Txs,
         ~Broken(a, t), last_reads'[t] = last_reads[t]
  PROVE  ~Broken(a, t)' \/ WillRewind(w, t)'
<1> SUFFICES ASSUME OriginsHold(a, t), ~WillRewind(w, t)' PROVE OriginsHold(a, t)'
  BY DEF Broken
<1>0. Apart(w) /\ tx[w] \in Txs
  BY StepFacts
<1> DEFINE lowest == Min({o.tx : o \in last_reads[t][a]})
           entries == {u \in Writers(a, t) : u >= lowest}
           entries1 == {u \in Writers(a, t)' : u >= lowest}
<1>1. /\ \A u \in entries : data[a][u].kind = "data"
      /\ {FromTx(u, data[a][u].inc) : u \in entries} = last_reads[t][a] \ {FromStorage}
  BY DEF OriginsHold
<1>2. ASSUME NEW u \in Txs, u < t, ~Kept(a, u)
      PROVE  ~(u >= lowest)
  <2>1. u = tx[w]
    BY <1>0, <1>2 DEF Apart, Kept
  <2>2. data[a][u].kind = "estimate"
    <3>1. CASE pc[w] = "convert" /\ UNCHANGED vars
      BY <1>2, <2>1, <3>1 DEF WillRewind, vars, locals
    <3>2. CASE mpc[w] = "insert" /\ mpc' = mpc /\ tx' = tx /\ wrote'[w]
      BY <1>2, <2>1, <3>2 DEF WillRewind
    <3> QED
      BY <1>2, <3>1, <3>2, EntryChange
  <2>3. u \in Writers(a, t)
    BY <1>2, <2>2 DEF Writers
  <2> QED
    BY <1>1, <2>2, <2>3
<1>3. \A u \in entries : data'[a][u] = data[a][u]
  BY <1>2 DEF Writers, Kept
<1>4. entries1 = entries
  <2>1. ASSUME NEW u \in Txs, u < t, u >= lowest PROVE data'[a][u] = data[a][u]
    BY <1>2, <2>1 DEF Kept
  <2> QED
    BY <2>1 DEF Writers
<1>5. /\ \A u \in entries1 : data'[a][u].kind = "data"
      /\ {FromTx(u, data'[a][u].inc) : u \in entries1} = last_reads[t][a] \ {FromStorage}
  <2>1. {FromTx(u, data'[a][u].inc) : u \in entries} = {FromTx(u, data[a][u].inc) : u \in entries}
    BY <1>3
  <2> QED
    BY <1>1, <1>3, <1>4, <2>1
<1> QED
  BY <1>5 DEF OriginsHold

\* scheduler.abort() is never taken back.
LEMMA AbortOnce ==
  ASSUME NEW w \in Workers, LazyStep(w), ~aborted'
  PROVE  ~aborted
<1> USE DEF endVars, vars
<1>a. CASE WorkerStep(w)
  BY <1>a, WorkerAbortsOnce
<1>b. CASE MemStep(w)
  BY <1>b DEF MemStep, VmNew, VmReadFrom, VmReadTo, Got, VmReadEstimate, VmNotYet, GiveUp, AddLazyAddresses,
     RecordReads, RecordRemove, RecordInsert, ExecuteOk, ValidateStart, ValidateCheck, ValidateEnd, ConvertStart,
     ConvertOne, ConvertEnd, VmBlocking, VmFatal, SetAbortReason, VmOk, Validate, ConvertWrites
<1> QED
  BY <1>a, <1>b DEF LazyStep, MemStep

\* The steps in the virtual machine and in the memory: a validator looks at every
\* read that is outdated before it passes, and a worker that has broken a read
\* goes on to move validation_idx back.
LEMMA MemCovers ==
  ASSUME LInv, ReadShape, NEW w \in Workers, MemStep(w), NEW t \in Txs, NEW a \in Accounts
  PROVE  /\ WillCheck(w, a, t) /\ Broken(a, t) => WillCheck(w, a, t)'
         /\ WillRewind(w, t) => WillRewind(w, t)'
<1>0. TypeOK /\ Shape /\ MpcOK /\ tx[w] \in Txs
  BY DEF LInv, IInv, TypeOK
<1>a. /\ pc[w] \in {"execute", "setReason"} => ~WillCheck(w, a, t)
      /\ pc[w] \in {"execute", "setReason", "validate"} /\ mpc[w] # "insert" => ~WillRewind(w, t)
      /\ pc[w] = "convert" => ~WillCheck(w, a, t)
      /\ pc[w] \in {"setReason", "validate"} => mpc[w] # "insert"
  BY <1>0 DEF WillCheck, WillRewind, MpcOK, MpcAt, VmPcs
<1>1. CASE \/ VmNew(w) \/ VmReadFrom(w) \/ VmReadTo(w) \/ VmReadEstimate(w) \/ VmNotYet(w) \/ GiveUp(w)
           \/ AddLazyAddresses(w) \/ RecordReads(w) \/ RecordRemove(w)
  <2>1. pc[w] \in {"execute", "setReason"} /\ mpc[w] # "insert"
    BY <1>0, <1>1, <1>a DEF VmNew, VmReadFrom, VmReadTo, VmReadEstimate, VmNotYet, GiveUp, SetAbortReason,
       AddLazyAddresses, RecordReads, RecordRemove, MpcOK, MpcAt, VmPcs
  <2> QED
    BY <1>a, <2>1
<1>3. CASE RecordInsert(w)
  <2>1. pc[w] = "execute" /\ mpc[w] = "insert" /\ UNCHANGED <<pc, tx, mpc>>
    BY <1>0, <1>3 DEF RecordInsert, MpcOK, MpcAt, VmPcs, vars, locals
  <2>2. wrote[w] => wrote'[w]
    <3>1. PICK k : wrote' = [wrote EXCEPT ![w] = @ \/ k \notin last_writes[tx[w]]]
      BY <1>3 DEF RecordInsert
    <3> QED
      BY <3>1 DEF ReadShape
  <2> QED
    BY <1>a, <2>1, <2>2 DEF WillRewind
<1>4. CASE ExecuteOk(w)
  <2>1. pc[w] = "execute" /\ mpc[w] = "insert" /\ pc'[w] = "finish" /\ tx' = tx
    BY <1>0, <1>4 DEF ExecuteOk, VmOk, Goto, TypeOK
  <2>2. wrote[w] => Contains(flags'[w], WroteNewLocation)
    BY <1>0, <1>4 DEF ExecuteOk, VmOk, TypeOK, Contains
  <2> QED
    BY <1>a, <2>1, <2>2 DEF WillRewind
<1>5. CASE ValidateStart(w)
  <2>1. /\ pc[w] = "validate" /\ mpc[w] = "idle" /\ UNCHANGED <<pc, tx>> /\ mpc'[w] = "check"
        /\ todo'[w] = {k \in Accounts : last_reads[tx[w]][k] # {}}
    BY <1>0, <1>5 DEF ValidateStart, vars, locals, Shape
  <2> QED
    BY <1>a, <2>1 DEF WillCheck, Broken
<1>6. CASE ValidateCheck(w)
  <2>1. pc[w] = "validate" /\ mpc[w] = "check"
    BY <1>0, <1>6 DEF ValidateCheck, MpcOK, MpcAt
  <2>2. CASE pc'[w] = "tryAbort" /\ tx' = tx
    BY <1>a, <2>1, <2>2 DEF WillCheck
  <2>3. ASSUME NEW k \in todo[w], OriginsHold(k, tx[w]), todo' = [todo EXCEPT ![w] = @ \ {k}], UNCHANGED <<vars, mpc>>
        PROVE  WillCheck(w, a, t) /\ Broken(a, t) => WillCheck(w, a, t)'
    <3>1. UNCHANGED <<pc, tx, mpc>> /\ todo'[w] = todo[w] \ {k}
      BY <1>0, <2>3 DEF vars, locals, Shape
    <3> QED
      BY <2>1, <2>3, <3>1 DEF WillCheck, Broken
  <2>4. ASSUME Validate(w, FALSE) PROVE pc'[w] = "tryAbort" /\ tx' = tx
    BY <1>0, <2>4 DEF Validate, Goto, TypeOK, locals
  <2> QED
    BY <1>6, <1>a, <2>1, <2>2, <2>3, <2>4 DEF ValidateCheck
<1>7. CASE ValidateEnd(w)
  <2>1. pc[w] = "validate" /\ mpc[w] = "check" /\ todo[w] = {}
    BY <1>0, <1>7 DEF ValidateEnd, MpcOK, MpcAt
  <2> QED
    BY <1>a, <2>1 DEF WillCheck
<1>8. CASE ConvertStart(w) \/ ConvertOne(w) \/ ConvertEnd(w)
  <2>1. pc[w] = "convert" /\ pc'[w] \in {"convert", "setReady"} /\ tx' = tx
    BY <1>0, <1>8 DEF ConvertStart, ConvertOne, ConvertEnd, ConvertWrites, Goto, TypeOK, vars, locals, MpcOK, MpcAt
  <2> QED
    BY <1>a, <2>1 DEF WillRewind
<1> QED
  BY <1>1, <1>3, <1>4, <1>5, <1>6, <1>7, <1>8 DEF MemStep

\* Every step preserves ReadsAreCovered.
LEMMA CoveredReadsStep ==
  ASSUME LInv, ReadShape, ReadsAreCovered, NEW w \in Workers, LazyStep(w)
  PROVE  ReadsAreCovered'
<1>0. /\ IInv /\ TypeOK /\ Shape /\ MpcOK /\ tx[w] \in Txs
      /\ IInv' /\ Elsewhere(w) /\ Apart(w) /\ Others(w) /\ ReadsElsewhere(w) /\ ReadsApart(w)
  BY StepFacts
<1>f. \A v \in Workers \ {w} : flags'[v] = flags[v]
  <2>1. CASE pc[w] # "setReason" /\ WorkerStep(w)
    BY <1>0, <2>1, WorkerOutside
  <2>2. CASE MemStep(w)
    BY <1>0, <2>2 DEF MemStep, VmNew, VmReadFrom, VmReadTo, Got, VmReadEstimate, VmNotYet, GiveUp, AddLazyAddresses,
       RecordReads, RecordRemove, RecordInsert, ExecuteOk, ValidateStart, ValidateCheck, ValidateEnd, ConvertStart,
       ConvertOne, ConvertEnd, VmBlocking, VmFatal, SetAbortReason, VmOk, Validate, ConvertWrites, Clear, Goto,
       vars, locals, TypeOK
  <2> QED
    BY <2>1, <2>2 DEF LazyStep, MemStep
<1> SUFFICES ASSUME ~aborted', NEW t \in Txs, NEW a \in Accounts, Finished(t)', Broken(a, t)'
             PROVE  Covered(a, t)'
  BY DEF ReadsAreCovered
<1>1. ASSUME NEW v \in Workers, v # w
      PROVE  (WillCheck(v, a, t) => WillCheck(v, a, t)') /\ (WillRewind(v, t) => WillRewind(v, t)')
  BY <1>0, <1>1, <1>f DEF WillCheck, WillRewind, Elsewhere, Others, ReadsElsewhere
<1>2. CASE pc[w] # "setReason" /\ WorkerStep(w) /\ UNCHANGED memVars
  <2>1. mpc[w] = "idle" /\ mpc'[w] = "idle"
    BY <1>0, <1>2, WorkerOutside DEF MpcOK, MpcAt, Shape, Mpcs, VmPcs, LastPcs, memVars, memLocals
  <2>2. ~aborted
    BY <1>0, AbortOnce
  <2>3. /\ validation_idx <= t => validation_idx' <= t \/ WillCheck(w, a, t)'
        /\ WillCheck(w, a, t) => WillCheck(w, a, t)'
        /\ WillRewind(w, t) => WillRewind(w, t)' \/ validation_idx' <= t
        /\ Finished(t) \/ (FinishStatus(w) /\ tx[w] = t)
    <3>1. /\ WillCheck(w, a, t) <=> ToValidate(w, t)
          /\ WillRewind(w, t) <=> ToRewind(w, t)
          /\ WillCheck(w, a, t)' <=> ToValidate(w, t)'
          /\ WillRewind(w, t)' <=> ToRewind(w, t)'
      BY <2>1 DEF WillCheck, WillRewind, ToValidate, ToRewind
    <3> QED
      BY <1>0, <1>2, <2>2, <3>1, WorkerCovers
  <2>4. Broken(a, t)
    BY <1>2 DEF Broken, OriginsHold, Writers, memVars, shared
  <2>5. CASE Finished(t)
    <3>1. Covered(a, t)
      BY <2>2, <2>4, <2>5 DEF ReadsAreCovered
    <3> QED
      BY <1>1, <2>3, <3>1 DEF Covered
  <2>6. CASE FinishStatus(w) /\ tx[w] = t
    <3>1. CASE pc[w] = "finBetween"
      <4>1. pc'[w] = "postVal" /\ tx' = tx
        BY <1>0, <2>6, <3>1 DEF FinishStatus, Contains, NeedValidation, Goto, TypeOK
      <4> QED
        BY <2>6, <4>1 DEF Covered, WillCheck
    <3>2. CASE pc[w] = "finStatus"
      <4>1. validation_idx <= t \/ \E u \in Workers : pc[u] = "inspect" /\ tx[u] = t
        BY <1>0, <2>2, <2>6, <3>2 DEF IInv, FinishIsCovered
      <4>2. validation_idx' = validation_idx
        BY <2>6 DEF FinishStatus
      <4>3. \A u \in Workers : pc[u] = "inspect" /\ tx[u] = t => u # w /\ WillCheck(u, a, t)
        BY <3>2 DEF WillCheck
      <4> QED
        BY <1>1, <4>1, <4>2, <4>3 DEF Covered
    <3> QED
      BY <2>6, <3>1, <3>2 DEF FinishStatus
  <2> QED
    BY <2>3, <2>5, <2>6
<1>3. CASE MemStep(w)
  <2>1. validation_idx' = validation_idx /\ status' = status
    <3>1. status' = status
      BY <1>0, <1>3, MemFrame DEF txVars
    <3>2. UNCHANGED idxVars
      BY <1>3 DEF MemStep, VmNew, VmReadFrom, VmReadTo, Got, VmReadEstimate, VmNotYet, GiveUp, AddLazyAddresses,
       RecordReads, RecordRemove, RecordInsert, ExecuteOk, ValidateStart, ValidateCheck, ValidateEnd, ConvertStart,
       ConvertOne, ConvertEnd, VmBlocking, VmFatal, SetAbortReason, VmOk, Validate, ConvertWrites, vars
    <3> QED
      BY <3>1, <3>2 DEF idxVars
  <2>2. Finished(t) /\ last_reads'[t] = last_reads[t] /\ ~aborted
    <3>1. Finished(t) /\ ~aborted
      BY <2>1, AbortOnce DEF Finished
    <3>2. CASE pc[w] = "execute"
      <4>1. t # tx[w]
        BY <3>1, <3>2, ExecutingStatus DEF Finished
      <4> QED
        BY <1>0, <3>1, <4>1 DEF ReadsApart
    <3>3. CASE pc[w] # "execute"
      BY <3>1, <3>3, RecordFrame
    <3> QED
      BY <3>2, <3>3
  <2>3. CASE ~Broken(a, t)
    BY <2>2, <2>3, BreakerRewinds DEF Covered
  <2>4. CASE Broken(a, t)
    <3>1. Covered(a, t)
      BY <2>2, <2>4 DEF ReadsAreCovered
    <3>2. (WillCheck(w, a, t) => WillCheck(w, a, t)') /\ (WillRewind(w, t) => WillRewind(w, t)')
      BY <1>3, <2>4, MemCovers
    <3> QED
      BY <1>1, <2>1, <3>1, <3>2 DEF Covered
  <2> QED
    BY <2>3, <2>4
<1> QED
  BY <1>2, <1>3 DEF LazyStep, MemStep

-----------------------------------------------------------------------------
(* Giving up *)

\* The block is given up only if its first transaction cannot be executed.
ErrInv == aborted => ~Affordable(block[0], Stored[block[0].from])

\* The first transaction reads from storage alone.
LEMMA FirstIsStored ==
  ASSUME NEW a \in Accounts
  PROVE  Account(a, 0) = Stored[a]
<1>1. Walk(a, 0) = {}
  BY RawStart
<1>2. BalanceAddition(a, {}) = 0 /\ NonceAddition(a, {}) = 0
  BY NothingAdded
<1>3. Base(a, {}) = Stored[a]
  BY DEF Base, Basics
<1>4. ASSUME NEW r, r = Stored[a], r \in AccountSet
      PROVE  [balance |-> SaturatingSub(r.balance + 0, 0), nonce |-> r.nonce + 0] = r
  <2>1. r.balance \in Nat /\ r.nonce \in Nat /\ r = [balance |-> r.balance, nonce |-> r.nonce]
    BY <1>4, AccountFacts
  <2>2. SaturatingSub(r.balance + 0, 0) = r.balance
    BY <2>1 DEF SaturatingSub
  <2> QED
    BY <2>1, <2>2
<1>5. Stored[a] \in AccountSet
  BY BalancesAssumption DEF AccountSet
<1> QED
  BY <1>1, <1>2, <1>3, <1>4, <1>5 DEF Account, Assembled

\* Every step preserves ErrInv.
LEMMA ErrStep ==
  ASSUME LInv, ReadShape, ErrInv, NEW w \in Workers, LazyStep(w)
  PROVE  ErrInv'
<1>0. TypeOK /\ Shape /\ tx[w] \in Txs /\ Apart(w)
  BY StepFacts
<1>1. block' = block
  BY <1>0 DEF Apart
<1>2. CASE aborted' = aborted
  BY <1>1, <1>2 DEF ErrInv
<1>3. CASE aborted' # aborted
  <2>1. ~WorkerStep(w)
    BY <1>3, WorkerAbortsOnce
  <2>2. VmNotYet(w) /\ ~(tx[w] > 0)
    BY <1>3, <2>1 DEF LazyStep, VmNew, VmReadFrom, VmReadTo, Got, VmReadEstimate, VmNotYet, GiveUp, AddLazyAddresses,
     RecordReads, RecordRemove, RecordInsert, ExecuteOk, ValidateStart, ValidateCheck, ValidateEnd, ConvertStart,
     ConvertOne, ConvertEnd, VmBlocking, VmFatal, SetAbortReason, VmOk, Validate, ConvertWrites, endVars, vars
  <2>3. tx[w] = 0
    BY <1>0, <2>2 DEF Txs
  <2>4. ~Affordable(block[0], Account(block[0].from, 0))
    BY <2>2, <2>3 DEF VmNotYet, Tx
  <2>5. block[0].from \in Accounts
    BY <1>0, <2>3, TxFacts DEF Shape
  <2> QED
    BY <1>1, <2>4, <2>5, FirstIsStored DEF ErrInv
<1> QED
  BY <1>2, <1>3

-----------------------------------------------------------------------------
(* The invariant *)

\* The beneficiary is lazy, and nobody is who has no account.
AddressesOK == Coinbase \in lazy_addresses /\ lazy_addresses \subseteq Accounts

LSInv == LInv /\ ReadShape /\ ReadsInv /\ ReadsAreCovered /\ ErrInv /\ AddressesOK

\* Every step keeps the list.
LEMMA AddressesStep ==
  ASSUME LInv, ReadShape, AddressesOK, NEW w \in Workers, LazyStep(w)
  PROVE  AddressesOK'
<1>1. TypeOK /\ Shape
  BY StepFacts
<1>2. Tx(w).from \in Accounts /\ Tx(w).to \in Accounts
  BY <1>1, TxFacts DEF Shape
<1>3. CASE AddLazyAddresses(w)
  BY <1>2, <1>3 DEF AddLazyAddresses, AddressesOK
<1>4. CASE ~AddLazyAddresses(w)
  <2>1. UNCHANGED lazy_addresses
    BY <1>4 DEF LazyStep, memVars, shared, VmNew, VmReadFrom, VmReadTo, Got, VmReadEstimate, VmNotYet, GiveUp,
       RecordReads, RecordRemove, RecordInsert, ExecuteOk, ValidateStart, ValidateCheck, ValidateEnd,
       ConvertStart, ConvertOne, ConvertEnd
  <2> QED
    BY <2>1 DEF AddressesOK
<1> QED
  BY <1>3, <1>4

\* A step that changes nothing preserves it.
LEMMA LSInvStutter == LSInv /\ UNCHANGED lazyVars => LSInv'
<1> SUFFICES ASSUME LSInv, UNCHANGED lazyVars PROVE LSInv'
  OBVIOUS
<1>1. LInv'
  BY LInvStutter DEF LSInv
<1>2. /\ UNCHANGED <<block, data, keys, lazy_addresses, last_reads, last_writes, results>>
      /\ UNCHANGED <<mpc, is_lazy, got, reads, todo, wrote>>
      /\ UNCHANGED <<status, incarnation, pc, tx, inc, flags, validation_idx, aborted>>
  BY DEF lazyVars, memVars, memLocals, shared, vars, txVars, idxVars, endVars, locals
<1>3. ReadShape' /\ ErrInv' /\ AddressesOK'
  BY <1>2 DEF LSInv, ReadShape, ErrInv, AddressesOK
<1>4. ASSUME NEW O, NEW a \in Accounts, NEW t, NEW x
      PROVE  /\ OriginsOK(O, a, t) => OriginsOK(O, a, t)'
             /\ Agrees(O, a, x) => Agrees(O, a, x)'
  <2>1. OriginsOK(O, a, t) => OriginsOK(O, a, t)'
    BY <1>2 DEF OriginsOK, Past
  <2>2. Current(O, a)' <=> Current(O, a)
    BY <1>2 DEF Current
  <2>3. TxsOf(O) \in SUBSET Txs /\ TxsOf(O)' = TxsOf(O)
    BY DEF TxsOf
  <2>4. Assembled(a, TxsOf(O))' = Assembled(a, TxsOf(O)) /\ Basics(a, TxsOf(O))' = Basics(a, TxsOf(O))
    BY <1>2, <2>3 DEF Assembled, Basics, Base, BalanceAddition, NonceAddition
  <2> QED
    BY <2>1, <2>2, <2>3, <2>4 DEF Agrees, Grounded
<1>5. ASSUME NEW r, NEW g, NEW t, Explained(r, g, t) PROVE Explained(r, g, t)'
  BY <1>4, <1>5 DEF Explained
<1>6. \A w \in Workers : ReaderOK(w)'
  <2> TAKE w \in Workers
  <2>1. Tx(w)' = Tx(w) /\ WriteSet(w)' = WriteSet(w)
    BY <1>2 DEF Tx, WriteSet
  <2>2. ReaderOK(w)
    BY DEF LSInv, ReadsInv
  <2>3. ASSUME NEW r, NEW g, NEW t, r = reads[w], g = got[w], t = tx[w] PROVE Explained(reads[w], got[w], tx[w])'
    <3>1. Explained(r, g, t)'
      BY <1>5, <2>2, <2>3 DEF ReaderOK
    <3>2. r = reads'[w] /\ g = got'[w] /\ t = tx'[w]
      BY <1>2, <2>3
    <3> QED
      BY <3>1, <3>2
  <2> QED
    BY <1>2, <2>1, <2>2, <2>3 DEF ReaderOK
<1>7. \A t \in Txs : LastOK(t)'
  <2> SUFFICES ASSUME NEW t \in Txs, NEW a \in Accounts PROVE OriginsOK(last_reads[t][a], a, t)'
    BY DEF LastOK
  <2>1. ASSUME NEW O, O = last_reads[t][a] PROVE OriginsOK(last_reads[t][a], a, t)'
    <3>1. OriginsOK(O, a, t)'
      BY <1>4, <2>1 DEF LSInv, ReadsInv, LastOK
    <3>2. O = last_reads'[t][a]
      BY <1>2, <2>1
    <3> QED
      BY <3>1, <3>2
  <2> QED
    BY <2>1
<1>8. ASSUME NEW t \in Txs, HasRecord(t)' PROVE RecordOK(t)'
  <2>1. HasRecord(t)
    BY <1>2, <1>8 DEF HasRecord, Finished
  <2>2. PICK lazy \in BOOLEAN : \E g : RecordAs(t, lazy, g)
    BY <2>1 DEF LSInv, ReadsInv, RecordOK
  <2>3. PICK g : RecordAs(t, lazy, g)
    BY <2>2
  <2>4. ASSUME NEW r, r = last_reads[t] PROVE Explained(last_reads[t], g, t)'
    <3>1. Explained(r, g, t)'
      BY <1>5, <2>3, <2>4 DEF RecordAs
    <3>2. r = last_reads'[t]
      BY <1>2, <2>4
    <3> QED
      BY <3>1, <3>2
  <2>5. RecordAs(t, lazy, g)'
    BY <1>2, <2>3, <2>4 DEF RecordAs
  <2> QED
    BY <2>5 DEF RecordOK
<1>9. ReadsAreCovered'
  <2>1. \A a \in Accounts, t \in Txs : Broken(a, t)' <=> Broken(a, t)
    BY <1>2 DEF Broken, OriginsHold, Writers
  <2>2. \A a \in Accounts, t \in Txs : Covered(a, t) => Covered(a, t)'
    BY <1>2 DEF Covered, WillCheck, WillRewind
  <2> QED
    BY <1>2, <2>1, <2>2 DEF LSInv, ReadsAreCovered, Finished
<1> QED
  BY <1>1, <1>3, <1>6, <1>7, <1>8, <1>9 DEF LSInv, ReadsInv

\* For every block and every interleaving: what was read is explained by its
\* origins, what has become outdated will be found, and the block is given up
\* only if it must be.
THEOREM LazySerialInvariance == LazySpec => []LSInv
<1>1. LazyInit => LSInv
  <2> SUFFICES ASSUME LazyInit PROVE LSInv
    OBVIOUS
  <2>1. LInv
    <3>1. LazyIsListed
      BY EntryKinds DEF LazyInit, LazyIsListed
    <3> QED
      BY <3>1, ShapeInit, EntriesInit, InitIInv DEF LazyInit, LInv
  <2>2. ReadsAreCovered /\ ErrInv /\ AddressesOK
    BY CoinbaseAssumption DEF LazyInit, Init, ReadsAreCovered, Finished, ErrInv, AddressesOK
  <2> QED
    BY <2>1, <2>2, ReadsInit DEF LSInv
<1>2. LSInv /\ [LazyNext]_lazyVars => LSInv'
  <2> SUFFICES ASSUME LSInv, [LazyNext]_lazyVars PROVE LSInv'
    OBVIOUS
  <2>1. ASSUME NEW w \in Workers, LazyStep(w) PROVE LSInv'
    BY <2>1, StepFacts, ReadsStep, CoveredReadsStep, ErrStep, AddressesStep DEF LSInv
  <2>2. CASE UNCHANGED lazyVars
    BY <2>2, LSInvStutter
  <2> QED
    BY <2>1, <2>2 DEF LazyNext, Joined, lazyVars
<1> QED
  BY <1>1, <1>2, PTL DEF LazySpec

-----------------------------------------------------------------------------
(* A prefix of the block *)

\* The entries below v add up to the accounts of sequential execution.
Prefix(v) ==
  \A a \in Accounts :
    /\ \A u \in Txs : u < v => EntryOK(a, u)
    /\ Raw(a, Walk(a, v)) = StatesOf[block][v][a]

\* The record of u is that of sequential execution: its gas, the accounts it
\* touches, what its entries make of the accounts, and what it returns of those
\* that will not be evaluated.
RecordIs(u) ==
  LET x == block[u]
      s == StatesOf[block][u]
      n == StatesOf[block][u + 1]
  IN /\ results[u].gas = Gas(x, s[x.to])
     /\ DOMAIN results[u].state = DOMAIN After(x, s, 0)
     /\ Coinbase \in last_writes[u]
     /\ last_writes[u] \subseteq DOMAIN results[u].state \cup {Coinbase}
     /\ \A a \in last_writes[u] :
          /\ data[a][u].kind = "data"
          /\ WriteKind(x, data[a][u].val, a)
          /\ Applied(data[a][u].val, s[a]) = n[a]
     /\ \A a \in Accounts \ last_writes[u] : data[a][u].kind = "none" /\ n[a] = s[a]
     /\ \A a \in DOMAIN results[u].state :
          (a \in lazy_addresses /\ a \in last_writes[u]) \/ results[u].state[a] = n[a]

\* The record of an execution that was lazy, and of one that was not.
RecordLazy(t, g) == RecordAs(t, TRUE, g)
RecordRead(t, g) == RecordAs(t, FALSE, g)

\* After a prefix, a transaction that is not lazy and has read what is there
\* has read the accounts of sequential execution.
LEMMA PrefixIsRead ==
  ASSUME NotSwept, LSInv, NEW u \in Txs, \A a \in Accounts : ~Broken(a, u), Prefix(u),
         NEW g, RecordRead(u, g), NEW x, x = block[u], NEW s, s = StatesOf[block][u]
  PROVE  g[x.from] = s[x.from] /\ g[x.to] = s[x.to] /\ Affordable(x, s[x.from])
<1>0. LInv /\ ReadsInv /\ block \in Blocks /\ u \in 0 .. BlockSize
  BY TxsFacts DEF LSInv, LInv, Shape
<1>1. x.from \in Accounts /\ x.to \in Accounts
  BY <1>0, BlocksAssumption
<1>2. ASSUME NEW a \in Accounts, last_reads[u][a] # {} PROVE g[a] = s[a]
  <2>1. ASSUME NEW O, O = last_reads[u][a], NEW y, y = g[a] PROVE y = Account(a, u)
    <3>1. OriginsHold(a, u)
      BY <1>2 DEF Broken
    <3>2. OriginsOK(O, a, u) /\ Agrees(O, a, y)
      BY <1>2, <2>1 DEF RecordRead, RecordAs, Explained
    <3> QED
      BY <1>0, <1>2, <2>1, <3>1, <3>2, HoldsIsWalk
  <2>2. Account(a, u) = StatesOf[block][u][a]
    BY <1>0, AccountIsRaw DEF Prefix
  <2> QED
    BY <2>1, <2>2
<1>3. last_reads[u][x.from] # {} /\ last_reads[u][x.to] # {} /\ Affordable(x, g[x.from])
  BY DEF RecordRead, RecordAs, Ready
<1> QED
  BY <1>1, <1>2, <1>3

\* The record of a transaction that has executed after a prefix.
LEMMA RecordIsSequential ==
  ASSUME NotSwept, LSInv, NEW u \in Txs, Finished(u), \A a \in Accounts : ~Broken(a, u), Prefix(u),
         Affordable(block[u], StatesOf[block][u][block[u].from])
  PROVE  RecordIs(u)
<1>0. LInv /\ ReadsInv /\ block \in Blocks /\ u \in 0 .. BlockSize /\ AddressesOK /\ last_writes[u] \subseteq Accounts
  BY TxsFacts DEF LSInv, LInv, Shape
<1>1. Recorded(u) /\ RecordOK(u)
  BY <1>0, FinishedHasRecord DEF ReadsInv, HasRecord
<1>2. (\E g : RecordLazy(u, g)) \/ (\E g : RecordRead(u, g))
  BY <1>1 DEF RecordOK, RecordLazy, RecordRead
<1> SUFFICES ASSUME NEW x, x = block[u], NEW s, s = StatesOf[block][u], NEW n, n = StatesOf[block][u + 1]
             PROVE  RecordIs(u)
  OBVIOUS
<1>4. IsTx(x) /\ s \in [Accounts -> AccountSet] /\ n = SeqAfter(x, s) /\ Affordable(x, s[x.from])
  <2>1. n = SeqNext(block, u, s)
    BY <1>0, StatesAre
  <2>2. s \in [Accounts -> AccountSet]
    BY <1>0, StatesAreStates
  <2> QED
    BY <1>0, <2>1, <2>2, SeqNextIs DEF SeqNext
<1>6. ASSUME NEW W, last_writes[u] = DOMAIN W, \A a \in Accounts : data[a][u].kind = "data" => data[a][u].val = W[a]
      PROVE  /\ Coinbase \in last_writes[u]
             /\ \A a \in last_writes[u] : data[a][u].kind = "data" /\ data[a][u].val = W[a]
             /\ \A a \in Accounts \ last_writes[u] : data[a][u].kind = "none"
  BY <1>0, <1>1, <1>6, EntryKinds DEF Recorded, IsData
<1>5. ASSUME NEW W, last_writes[u] = DOMAIN W, WritesApply(x, s, W),
             Coinbase \in last_writes[u],
             \A a \in last_writes[u] : data[a][u].kind = "data" /\ data[a][u].val = W[a],
             \A a \in Accounts \ last_writes[u] : data[a][u].kind = "none",
             NEW r, r = results[u], r.gas = Gas(x, s[x.to]), DOMAIN r.state = DOMAIN After(x, s, 0),
             DOMAIN W \subseteq DOMAIN r.state \cup {Coinbase},
             \A a \in DOMAIN r.state : (a \in lazy_addresses /\ a \in DOMAIN W) \/ r.state[a] = SeqAfter(x, s)[a]
      PROVE  RecordIs(u)
  <2>1. \A a \in last_writes[u] : /\ data[a][u].kind = "data" /\ WriteKind(x, data[a][u].val, a)
                                  /\ Applied(data[a][u].val, s[a]) = n[a]
    BY <1>4, <1>5 DEF WritesApply
  <2>2. \A a \in Accounts \ last_writes[u] : data[a][u].kind = "none" /\ n[a] = s[a]
    BY <1>4, <1>5 DEF WritesApply
  <2>3. \A a \in DOMAIN r.state : (a \in lazy_addresses /\ a \in last_writes[u]) \/ r.state[a] = n[a]
    BY <1>4, <1>5
  <2> QED
    BY <1>5, <2>1, <2>2, <2>3 DEF RecordIs
<1>7. ASSUME NEW g, RecordLazy(u, g) PROVE RecordIs(u)
  <2> DEFINE W == Writes(x, TRUE, g)
  <2>0. /\ last_writes[u] = DOMAIN W
        /\ results[u].gas = GasUsed(x, TRUE, g) /\ results[u].state = StateAfter(x, TRUE, g)
        /\ \A a \in Accounts : data[a][u].kind = "data" => data[a][u].val = W[a]
    <3>1. last_writes[u] = DOMAIN W
      BY ONLY <1>7, x = block[u] DEF RecordLazy, RecordAs
    <3>2. results[u].gas = GasUsed(x, TRUE, g) /\ results[u].state = StateAfter(x, TRUE, g)
      BY ONLY <1>7, x = block[u] DEF RecordLazy, RecordAs
    <3>3. \A a \in Accounts : data[a][u].kind = "data" => data[a][u].val = W[a]
      BY ONLY <1>7, x = block[u] DEF RecordLazy, RecordAs
    <3> QED
      BY <3>1, <3>2, <3>3
  <2>1. x.kind = "transfer" /\ {x.from, x.to} \subseteq lazy_addresses
    BY <1>7 DEF RecordLazy, RecordAs, Ready
  <2>2. /\ GasUsed(x, TRUE, g) = Gas(x, s[x.to])
        /\ DOMAIN StateAfter(x, TRUE, g) = DOMAIN After(x, s, 0)
        /\ DOMAIN W = {x.from, x.to, Coinbase}
        /\ WritesApply(x, s, W)
    BY <1>4, <2>1, LazyWritesApply
  <2>3. DOMAIN After(x, s, 0) = {x.from, x.to}
    BY <2>1, AfterNames DEF Pays
  <2> HIDE DEF W
  <2>4. /\ Coinbase \in last_writes[u]
        /\ \A a \in last_writes[u] : data[a][u].kind = "data" /\ data[a][u].val = W[a]
        /\ \A a \in Accounts \ last_writes[u] : data[a][u].kind = "none"
    BY <1>6, <2>0
  <2>6. ASSUME NEW V, V = W, NEW r, r = results[u] PROVE RecordIs(u)
    <3>1. last_writes[u] = DOMAIN V /\ WritesApply(x, s, V)
      BY <2>0, <2>2, <2>6
    <3>2. /\ Coinbase \in last_writes[u]
          /\ \A a \in last_writes[u] : data[a][u].kind = "data" /\ data[a][u].val = V[a]
          /\ \A a \in Accounts \ last_writes[u] : data[a][u].kind = "none"
      BY <2>4, <2>6
    <3>3. r.gas = Gas(x, s[x.to]) /\ DOMAIN r.state = DOMAIN After(x, s, 0)
      BY <2>0, <2>2, <2>6
    <3>4. DOMAIN V \subseteq DOMAIN r.state \cup {Coinbase}
      BY <2>0, <2>2, <2>6, <2>3
    <3>5. \A a \in DOMAIN r.state : (a \in lazy_addresses /\ a \in DOMAIN V) \/ r.state[a] = SeqAfter(x, s)[a]
      BY <2>0, <2>1, <2>2, <2>3, <2>6
    <3> QED
      BY ONLY <1>5, <2>6, <3>1, <3>2, <3>3, <3>4, <3>5
  <2> QED
    BY <2>6
<1>8. ASSUME NEW g, RecordRead(u, g) PROVE RecordIs(u)
  <2> DEFINE W == Writes(x, FALSE, g)
  <2>0. /\ last_writes[u] = DOMAIN W
        /\ results[u].gas = GasUsed(x, FALSE, g) /\ results[u].state = StateAfter(x, FALSE, g)
        /\ \A a \in Accounts : data[a][u].kind = "data" => data[a][u].val = W[a]
    <3>1. last_writes[u] = DOMAIN W
      BY ONLY <1>8, x = block[u] DEF RecordRead, RecordAs
    <3>2. results[u].gas = GasUsed(x, FALSE, g) /\ results[u].state = StateAfter(x, FALSE, g)
      BY ONLY <1>8, x = block[u] DEF RecordRead, RecordAs
    <3>3. \A a \in Accounts : data[a][u].kind = "data" => data[a][u].val = W[a]
      BY ONLY <1>8, x = block[u] DEF RecordRead, RecordAs
    <3> QED
      BY <3>1, <3>2, <3>3
  <2>1. g[x.from] = s[x.from] /\ g[x.to] = s[x.to]
    BY <1>8, PrefixIsRead
  <2>2. /\ GasUsed(x, FALSE, g) = Gas(x, s[x.to])
        /\ DOMAIN StateAfter(x, FALSE, g) = DOMAIN After(x, s, 0)
        /\ DOMAIN W \subseteq DOMAIN StateAfter(x, FALSE, g) \cup {Coinbase}
        /\ WritesApply(x, s, W)
        /\ StateApplies(x, s, StateAfter(x, FALSE, g))
    BY <1>4, <2>1, ReadWritesApply
  <2> HIDE DEF W
  <2>4. /\ Coinbase \in last_writes[u]
        /\ \A a \in last_writes[u] : data[a][u].kind = "data" /\ data[a][u].val = W[a]
        /\ \A a \in Accounts \ last_writes[u] : data[a][u].kind = "none"
    BY <1>6, <2>0
  <2>5. ASSUME NEW r, r = results[u]
        PROVE  \A a \in DOMAIN r.state : (a \in lazy_addresses /\ a \in DOMAIN W) \/ r.state[a] = SeqAfter(x, s)[a]
    <3>1. Coinbase \in lazy_addresses /\ Coinbase \in DOMAIN W
      BY <1>0, <2>0, <2>4 DEF AddressesOK
    <3>2. StateApplies(x, s, r.state)
      BY <2>0, <2>2, <2>5
    <3> QED
      BY <3>1, <3>2 DEF StateApplies
  <2>6. ASSUME NEW V, V = W, NEW r, r = results[u] PROVE RecordIs(u)
    <3>1. last_writes[u] = DOMAIN V /\ WritesApply(x, s, V)
      BY <2>0, <2>2, <2>6
    <3>2. /\ Coinbase \in last_writes[u]
          /\ \A a \in last_writes[u] : data[a][u].kind = "data" /\ data[a][u].val = V[a]
          /\ \A a \in Accounts \ last_writes[u] : data[a][u].kind = "none"
      BY <2>4, <2>6
    <3>3. r.gas = Gas(x, s[x.to]) /\ DOMAIN r.state = DOMAIN After(x, s, 0)
      BY <2>0, <2>2, <2>6
    <3>4. DOMAIN V \subseteq DOMAIN r.state \cup {Coinbase}
      BY <2>0, <2>2, <2>6
    <3>5. \A a \in DOMAIN r.state : (a \in lazy_addresses /\ a \in DOMAIN V) \/ r.state[a] = SeqAfter(x, s)[a]
      BY <2>5, <2>6
    <3> QED
      BY ONLY <1>5, <2>6, <3>1, <3>2, <3>3, <3>4, <3>5
  <2> QED
    BY <2>6
<1> QED
  BY <1>2, <1>7, <1>8

\* One more transaction.
LEMMA PrefixStep ==
  ASSUME LSInv, NEW u \in Txs, Prefix(u), RecordIs(u)
  PROVE  Prefix(u + 1)
<1>0. block \in Blocks /\ u \in 0 .. BlockSize /\ u \in Int /\ last_writes[u] \subseteq Accounts
  BY TxsFacts DEF LSInv, LInv, Shape
<1> SUFFICES ASSUME NEW a \in Accounts
             PROVE  /\ \A v \in Txs : v < u + 1 => EntryOK(a, v)
                    /\ Raw(a, Walk(a, u + 1)) = StatesOf[block][u + 1][a]
  BY DEF Prefix
<1>1. EntryOK(a, u)
  BY <1>0 DEF RecordIs, EntryOK, ValueOK, WriteKind
<1>2. \A v \in Txs : v <= u => EntryOK(a, v)
  <2>1. \A v \in Txs : v <= u => v < u \/ v = u
    BY <1>0 DEF Txs
  <2> QED
    BY <1>1, <2>1 DEF Prefix
<1>3. \A v \in Txs : v < u + 1 => EntryOK(a, v)
  <2>1. \A v \in Txs : v < u + 1 => v <= u
    BY <1>0 DEF Txs
  <2> QED
    BY <1>2, <2>1
<1> SUFFICES ASSUME NEW r, r = StatesOf[block][u][a], NEW n, n = StatesOf[block][u + 1][a]
             PROVE  Raw(a, Walk(a, u + 1)) = n
  BY <1>3
<1>4. r \in AccountSet /\ Raw(a, Walk(a, u)) = r
  BY <1>0, StatesAreStates DEF Prefix
<1>5. CASE a \in last_writes[u]
  <2>1. data[a][u].kind = "data" /\ Applied(data[a][u].val, r) = n
    BY <1>5 DEF RecordIs
  <2> QED
    BY <1>2, <1>4, <2>1, RawStep
<1>6. CASE a \notin last_writes[u]
  <2>1. data[a][u].kind = "none" /\ n = r
    BY <1>6 DEF RecordIs
  <2> QED
    BY <1>4, <2>1, WalkStep
<1> QED
  BY <1>5, <1>6

\* Transactions from the first on that have executed, have read nothing that is
\* outdated and could be executed at all.
Good(u) ==
  /\ Finished(u)
  /\ \A a \in Accounts : ~Broken(a, u)
  /\ Affordable(block[u], StatesOf[block][u][block[u].from])

\* They are a prefix.
LEMMA GoodIsPrefix ==
  ASSUME NotSwept, LSInv, NEW v \in 0 .. BlockSize, \A u \in Txs : u < v => Good(u)
  PROVE  Prefix(v) /\ \A u \in Txs : u < v => RecordIs(u)
<1>0. BlockSize \in Nat /\ block \in Blocks
  BY BlockSizeAssumption DEF LSInv, LInv, Shape
<1>1. Prefix(0)
  <2> SUFFICES ASSUME NEW a \in Accounts
               PROVE  /\ \A u \in Txs : u < 0 => EntryOK(a, u)
                      /\ Raw(a, Walk(a, 0)) = StatesOf[block][0][a]
    BY DEF Prefix
  <2>1. \A u \in Txs : ~(u < 0)
    BY DEF Txs
  <2> QED
    BY <1>0, <2>1, RawStart, StatesAre
<1> DEFINE Bad == {n \in 0 .. BlockSize : n <= v /\ ~Prefix(n)}
<1>2. ASSUME NEW u \in Txs, u < v, Prefix(u) PROVE RecordIs(u) /\ Prefix(u + 1)
  BY <1>2, RecordIsSequential, PrefixStep DEF Good
<1>3. ASSUME Bad # {} PROVE FALSE
  <2>1. Bad \in SUBSET Nat
    BY <1>0
  <2>2. PICK m \in Bad : \A n \in Bad : ~(n < m)
    BY <1>3, <2>1, Least
  <2>3. m # 0
    BY <1>1, <2>2
  <2>4. m - 1 \in Txs /\ m - 1 \in 0 .. BlockSize /\ m - 1 < m /\ (m - 1) + 1 = m /\ m - 1 < v /\ m - 1 <= v
    BY <1>0, <2>2, <2>3 DEF Txs
  <2>5. Prefix(m - 1)
    BY <2>2, <2>4
  <2>6. Prefix((m - 1) + 1)
    BY <1>2, <2>4, <2>5
  <2> QED
    BY <2>2, <2>4, <2>6
<1>4. \A n \in 0 .. BlockSize : n <= v => Prefix(n)
  BY <1>3
<1>5. v <= v /\ \A u \in Txs : u < v => u <= v /\ u \in 0 .. BlockSize
  BY <1>0, TxsFacts
<1> QED
  BY <1>2, <1>4, <1>5

\* Below t everything is settled: then nothing that was read is outdated.
LEMMA SettledIsGood ==
  ASSUME LSInv, ~aborted, NEW t \in 1 .. BlockSize, Settled(t), NEW u \in Txs, u < t, NEW a \in Accounts
  PROVE  Finished(u) /\ ~Broken(a, u)
<1>0. TypeOK /\ MpcOK /\ ReadsAreCovered /\ BlockSize \in Nat /\ t \in Int /\ u \in Int
  BY BlockSizeAssumption, TxsFacts DEF LSInv, LInv, IInv
<1>1. Finished(u)
  BY DEF Settled, Finished
<1>2. ~(validation_idx <= u)
  BY <1>0 DEF Settled, TypeOK
<1>3. ASSUME NEW w \in Workers PROVE ~WillCheck(w, a, u) /\ ~WillRewind(w, u)
  <2>1. tx[w] \in Int
    BY <1>0, TxsFacts DEF TypeOK
  <2>2. CASE tx[w] >= t
    BY <1>0, <2>1, <2>2 DEF WillCheck, WillRewind
  <2>3. CASE pc[w] \in (NextTaskPcs \ {"inspect", "tryExec"}) \cup {"postNone", "exited"}
    BY <1>0, <2>3 DEF WillCheck, WillRewind, NextTaskPcs, MpcOK, MpcAt, VmPcs
  <2> QED
    BY <2>2, <2>3 DEF Settled
<1> QED
  BY <1>0, <1>1, <1>2, <1>3 DEF ReadsAreCovered, Covered

\* VmDb::basic over a settled prefix: what it puts together for the next reader,
\* out of absolute values, amounts and storage, are the accounts of sequential
\* execution, for every block in which no new account is swept, long before the
\* block is completed.
THEOREM SettledPrefixIsSequentialHolds ==
  ASSUME NotSwept
  PROVE  LazySpec => []SettledPrefixIsSequential
<1>1. LSInv => SettledPrefixIsSequential
  <2> SUFFICES ASSUME LSInv, NEW t \in 1 .. BlockSize, Settled(t),
                      \A u \in Txs : u < t => Affordable(block[u], StatesOf[block][u][block[u].from]),
                      NEW a \in Accounts
               PROVE  Account(a, t) = StatesOf[block][t][a]
    BY DEF SettledPrefixIsSequential
  <2>0. t \in 0 .. BlockSize /\ 0 < t /\ 0 \in Txs /\ block \in Blocks
    BY BlockSizeAssumption, TxsFacts DEF LSInv, LInv, Shape
  <2>1. ~aborted
    <3>1. Affordable(block[0], Stored[block[0].from])
      BY <2>0, StatesAre
    <3> QED
      BY <3>1 DEF LSInv, ErrInv
  <2>2. Prefix(t)
    BY <2>0, <2>1, SettledIsGood, GoodIsPrefix, CoinbaseAssumption DEF Good
  <2> QED
    BY <2>0, <2>2, AccountIsRaw DEF Prefix
<1> QED
  BY <1>1, LazySerialInvariance, PTL

-----------------------------------------------------------------------------
(* The evaluation after the join *)

\* One step of it, and where it starts.
EvalNext(a, t, r) ==
  IF IsError(r) \/ ~HasEntry(a, t) THEN r ELSE CheckNonce(a, t, EvaluateEntry(r, t, data[a][t]))
FirstIsBasic(a) ==
  LET first == Min(Writers(a, BlockSize))
  IN Writers(a, BlockSize) # {} /\ data[a][first].kind = "data" /\ data[a][first].val.type = "Basic"
EvalStart(a) == IF FirstIsBasic(a) THEN Empty ELSE Stored[a]

\* The accounts that are evaluated, one after another.
LEMMA EvaluateIs ==
  ASSUME NEW a
  PROVE  /\ Evaluate(a)[0] = EvalStart(a)
         /\ \A t \in Txs : Evaluate(a)[t + 1] = EvalNext(a, t, Evaluate(a)[t])
<1> DEFINE Eq(g, n) == g = [t \in 0 .. n |-> IF t = 0 THEN EvalStart(a) ELSE EvalNext(a, t - 1, g[t - 1])]
           R == CHOOSE g : Eq(g, BlockSize)
<1>0. BlockSize \in Nat
  BY BlockSizeAssumption
<1>1. Evaluate(a) = R
  BY DEF Evaluate, EvalStart, FirstIsBasic, EvalNext
<1>2. \A n \in 0 .. BlockSize : \E g : Eq(g, n)
  <2> DEFINE Bad == {n \in 0 .. BlockSize : ~\E g : Eq(g, n)}
  <2> SUFFICES ASSUME Bad # {} PROVE FALSE
    OBVIOUS
  <2>1. Bad \in SUBSET Nat
    BY <1>0
  <2>2. PICK m \in Bad : \A n \in Bad : ~(n < m)
    BY <2>1, Least
  <2>3. CASE m = 0
    <3> DEFINE g == [t \in 0 .. 0 |-> EvalStart(a)]
    <3>1. Eq(g, 0)
      OBVIOUS
    <3> QED
      BY <2>2, <2>3, <3>1
  <2>4. CASE m # 0
    <3>1. m - 1 \in 0 .. BlockSize /\ m - 1 < m /\ m \in Nat
      BY <1>0, <2>2, <2>4
    <3>2. PICK g : Eq(g, m - 1)
      BY <2>2, <3>1
    <3> DEFINE h == [t \in 0 .. m |-> IF t = m THEN EvalNext(a, m - 1, g[m - 1]) ELSE g[t]]
    <3>3. ASSUME NEW t \in 0 .. m PROVE h[t] = IF t = 0 THEN EvalStart(a) ELSE EvalNext(a, t - 1, h[t - 1])
      <4>1. CASE t = m
        <5>1. h[m - 1] = g[m - 1]
          BY <3>1
        <5> QED
          BY <2>4, <4>1, <5>1
      <4>2. CASE t # m
        <5>1. t \in 0 .. m - 1
          BY <3>1, <4>2
        <5>2. h[t] = g[t] /\ (t # 0 => h[t - 1] = g[t - 1])
          BY <3>1, <4>2, <5>1
        <5>3. g[t] = IF t = 0 THEN EvalStart(a) ELSE EvalNext(a, t - 1, g[t - 1])
          BY <3>2, <5>1
        <5> QED
          BY <5>2, <5>3
      <4> QED
        BY <4>1, <4>2
    <3>4. Eq(h, m)
      BY <3>3
    <3> QED
      BY <2>2, <3>4
  <2> QED
    BY <2>3, <2>4
<1>3. Eq(R, BlockSize)
  <2> HIDE DEF Eq
  <2>1. \E g : Eq(g, BlockSize)
    BY <1>0, <1>2
  <2> QED
    BY <2>1
<1> HIDE DEF R
<1>4. R[0] = EvalStart(a)
  BY <1>0, <1>3
<1>5. ASSUME NEW t \in Txs PROVE R[t + 1] = EvalNext(a, t, R[t])
  <2>1. t + 1 \in 0 .. BlockSize /\ t + 1 # 0 /\ (t + 1) - 1 = t
    BY <1>0 DEF Txs
  <2> QED
    BY <1>3, <2>1
<1> QED
  BY <1>1, <1>4, <1>5

\* The errors of the evaluation, the unreachable one excepted.
LackOfFund == [error |-> "LackOfFundForMaxFee"]
NonceMismatch == [error |-> "NonceMismatch"]

\* Errors and accounts differ.
LEMMA ErrorKinds ==
  /\ \A r : IsAccount(r) => ~IsError(r)
  /\ IsError(LackOfFund) /\ IsError(NonceMismatch)
  /\ LackOfFund.error # "unreachable" /\ NonceMismatch.error # "unreachable"
  /\ \A r \in AccountSet : IsAccount(r)
<1>1. ASSUME NEW r, IsAccount(r) PROVE ~IsError(r)
  <2>1. PICK b, n : r = [balance |-> b, nonce |-> n]
    BY <1>1 DEF IsAccount
  <2>2. DOMAIN r = {"balance", "nonce"}
    BY <2>1
  <2> QED
    BY <2>2 DEF IsError
<1>2. \A r \in AccountSet : IsAccount(r)
  BY AccountFacts DEF IsAccount
<1>3. /\ IsError(LackOfFund) /\ IsError(NonceMismatch)
      /\ LackOfFund.error # "unreachable" /\ NonceMismatch.error # "unreachable"
  BY DEF IsError, LackOfFund, NonceMismatch
<1> QED
  BY <1>1, <1>2, <1>3

\* The evaluation of one entry, by its kind.
LEMMA EvalNextIs ==
  ASSUME NEW a, NEW t, NEW r, ~IsError(r), NEW v, data[a][t].kind = "data", data[a][t].val = v,
         NEW x, x = block[t]
  PROVE  /\ \A c : v = Basic(c) => EvalNext(a, t, r) = CheckNonce(a, t, c)
         /\ \A n : v = LazyRecipient(n) => EvalNext(a, t, r) = CheckNonce(a, t, [r EXCEPT !.balance = @ + n])
         /\ \A n : v = LazySender(n) =>
              EvalNext(a, t, r) = CheckNonce(a, t,
                IF r.balance < MaxFee(x) THEN LackOfFund
                                         ELSE [balance |-> SaturatingSub(r.balance, n), nonce |-> r.nonce + 1])
<1>1. EvalNext(a, t, r) = CheckNonce(a, t, EvaluateEntry(r, t, data[a][t]))
  BY DEF EvalNext, HasEntry
<1> DEFINE e == EvaluateEntry(r, t, data[a][t])
<1>2. ASSUME NEW c, v = Basic(c) PROVE e = c
  BY <1>2, ValueKinds DEF EvaluateEntry
<1>3. ASSUME NEW n, v = LazyRecipient(n) PROVE e = [r EXCEPT !.balance = @ + n]
  BY <1>3, ValueKinds DEF EvaluateEntry
<1>4. ASSUME NEW n, v = LazySender(n)
      PROVE  e = IF r.balance < MaxFee(x) THEN LackOfFund
                                          ELSE [balance |-> SaturatingSub(r.balance, n), nonce |-> r.nonce + 1]
  BY <1>4, ValueKinds DEF EvaluateEntry, LackOfFund
<1> HIDE DEF e
<1> QED
  BY <1>1, <1>2, <1>3, <1>4 DEF e

\* The nonce is checked for the sender only.
LEMMA CheckIs ==
  ASSUME NEW a, NEW t, NEW r
  PROVE  /\ IsError(r) => CheckNonce(a, t, r) = r
         /\ block[t].from # a => CheckNonce(a, t, r) = r
         /\ CheckNonce(a, t, r) \in {r, NonceMismatch}
         /\ ~IsError(r) /\ block[t].from = a =>
              CheckNonce(a, t, r) = IF r.nonce = block[t].nonce + 1 THEN r ELSE NonceMismatch
  BY DEF CheckNonce, NonceMismatch

\* After a prefix: the entry of a transaction that could be executed makes of
\* the account of sequential execution the next one.
LEMMA EvalStep ==
  ASSUME LSInv, NEW t \in Txs, RecordIs(t), NEW x, x = block[t], NEW s, s = StatesOf[block][t],
         Affordable(x, s[x.from]), NEW a \in last_writes[t], NEW r, ~IsError(r),
         r = s[a] \/ data[a][t].val.type = "Basic"
  PROVE  EvalNext(a, t, r) = StatesOf[block][t + 1][a]
<1>0. block \in Blocks /\ t \in 0 .. BlockSize /\ a \in Accounts
  BY TxsFacts DEF LSInv, LInv, Shape
<1>1. IsTx(x) /\ s \in [Accounts -> AccountSet]
  BY <1>0, SeqNextIs, StatesAreStates
<1> DEFINE n == SeqAfter(x, s)[a]
           v == data[a][t].val
           c == s[a]
<1>2. StatesOf[block][t + 1][a] = n
  BY <1>0, StatesAre DEF SeqNext
<1>3. data[a][t].kind = "data" /\ WriteKind(x, v, a) /\ Applied(v, c) = n
  BY <1>2 DEF RecordIs
<1>4. n \in AccountSet /\ (a = x.from => n.nonce = x.nonce + 1)
  <2>0. \E b : n = [balance |-> b, nonce |-> c.nonce + (IF a = x.from THEN 1 ELSE 0)]
    <3> DEFINE gas == Gas(x, s[x.to])
               b == s[a].balance - (IF a = x.from THEN x.price * gas ELSE 0)
                      - (IF Pays(x, s) /\ a = x.from THEN x.value ELSE 0)
                      + (IF Pays(x, s) /\ a = x.to THEN x.value ELSE 0)
                      + (IF a = Coinbase THEN Reward(x, gas) ELSE 0)
    <3>1. Affordable(x, s[x.from])
      OBVIOUS
    <3>2. n = [balance |-> b, nonce |-> c.nonce + (IF a = x.from THEN 1 ELSE 0)]
      BY ONLY <1>0, <1>1, <3>1, SeqAfterIs
    <3> HIDE DEF b, n, c
    <3> QED
      BY <3>2
  <2>1. n \in AccountSet
    <3>1. Affordable(x, s[x.from])
      OBVIOUS
    <3> QED
      BY ONLY <1>0, <1>1, <3>1, SeqAfterIs
  <2>2. a = x.from => n.nonce = c.nonce + 1
    BY <2>0
  <2>3. a = x.from => c.nonce = x.nonce
    BY DEF Affordable
  <2> QED
    BY <2>1, <2>2, <2>3
<1>5. c \in AccountSet
  BY <1>0, <1>1
<1> HIDE DEF n, v, c
<1>6. ~IsError(n)
  BY <1>4, ErrorKinds
<1>7. CheckNonce(a, t, n) = n
  BY <1>4, <1>6, CheckIs
<1>8. CASE \E d \in AccountSet : v = Basic(d)
  <2>1. PICK d \in AccountSet : v = Basic(d)
    BY <1>8
  <2>2. n = d
    BY <1>3, <2>1, AppliedIs
  <2> QED
    BY <1>2, <1>3, <1>7, <2>1, <2>2, EvalNextIs DEF v
<1>9. CASE \E m \in Nat : v = LazyRecipient(m) /\ a # x.from
  <2>1. PICK m \in Nat : v = LazyRecipient(m)
    BY <1>9
  <2>2. r = c
    BY <2>1, ValueKinds DEF v, c
  <2>3. n = [balance |-> c.balance + m, nonce |-> c.nonce]
    BY <1>3, <2>1, AppliedIs
  <2>4. [r EXCEPT !.balance = @ + m] = n
    BY <1>5, <2>2, <2>3, PaidIs
  <2> QED
    BY <1>2, <1>3, <1>7, <2>1, <2>4, EvalNextIs DEF v
<1>10. CASE \E m \in Nat : v = LazySender(m) /\ a = x.from /\ m <= MaxFee(x)
  <2>1. PICK m \in Nat : v = LazySender(m) /\ a = x.from /\ m <= MaxFee(x)
    BY <1>10
  <2>2. r = c
    BY <2>1, ValueKinds DEF v, c
  <2>3. n = [balance |-> c.balance - m, nonce |-> c.nonce + 1]
    BY <1>3, <2>1, AppliedIs
  <2>4. c.balance \in Nat /\ c.balance >= MaxFee(x) /\ MaxFee(x) \in Nat
    BY <1>1, <1>5, <2>1, AccountFacts, FeeFacts DEF Affordable, c
  <2>5. ~(r.balance < MaxFee(x)) /\ SaturatingSub(r.balance, m) = c.balance - m
    BY <2>1, <2>2, <2>4 DEF SaturatingSub
  <2>6. EvalNext(a, t, r) = CheckNonce(a, t, [balance |-> SaturatingSub(r.balance, m), nonce |-> r.nonce + 1])
    BY <1>3, <2>1, <2>5, EvalNextIs DEF v
  <2> QED
    BY <1>2, <1>7, <2>2, <2>3, <2>5, <2>6
<1> QED
  BY <1>3, <1>8, <1>9, <1>10 DEF WriteKind

\* Nobody has written a before t, and the first who does writes it as a whole:
\* then the evaluation starts from an empty account, whatever storage has.
Fresh(a, t) == FirstIsBasic(a) /\ \A u \in Txs : u < t => data[a][u].kind = "none"

\* The first entry of a fresh account is absolute.
LEMMA FreshIsBasic ==
  ASSUME NEW a, NEW t \in Txs, Fresh(a, t), data[a][t].kind # "none"
  PROVE  data[a][t].val.type = "Basic"
<1> DEFINE S == Writers(a, BlockSize)
<1>0. t \in Int /\ Txs \subseteq Int /\ \A u \in Txs : u < BlockSize
  BY TxsFacts
<1>1. t \in S
  BY <1>0 DEF Writers
<1>2. \A u \in S : u \in Int /\ t <= u
  <2>1. \A u \in S : u \in Txs /\ u \in Int /\ ~(u < t)
    BY <1>0 DEF Writers, Fresh
  <2> QED
    BY <1>0, <2>1
<1>3. Min(S) = t
  <2>1. \A m : m \in S /\ (\A u \in S : m <= u) => m = t
    BY <1>0, <1>1, <1>2
  <2> QED
    BY <1>1, <1>2, <2>1 DEF Min
<1> QED
  BY <1>3 DEF Fresh, FirstIsBasic

\* Over a prefix the evaluation yields the accounts of sequential execution.
LEMMA EvaluateIsSequential ==
  ASSUME NotSwept, LSInv, NEW v \in 0 .. BlockSize, \A u \in Txs : u < v => Good(u), NEW a \in Accounts
  PROVE  \/ Evaluate(a)[v] = StatesOf[block][v][a]
         \/ Evaluate(a)[v] = Empty /\ Fresh(a, v)
<1>0. BlockSize \in Nat /\ block \in Blocks /\ Stored[a] \in AccountSet
  BY BlockSizeAssumption, BalancesAssumption DEF LSInv, LInv, Shape, AccountSet
<1> DEFINE e(n) == Evaluate(a)[n]
           P(n) == e(n) = StatesOf[block][n][a] \/ (e(n) = Empty /\ Fresh(a, n))
           Bad == {n \in 0 .. BlockSize : n <= v /\ ~P(n)}
<1>1. P(0)
  <2>1. e(0) = IF FirstIsBasic(a) THEN Empty ELSE Stored[a]
    BY EvaluateIs DEF EvalStart
  <2>2. StatesOf[block][0][a] = Stored[a]
    BY <1>0, StatesAre
  <2>3. \A u \in Txs : ~(u < 0)
    BY DEF Txs
  <2> QED
    BY <2>1, <2>2, <2>3 DEF Fresh
<1>2. ASSUME NEW u \in Txs, u < v, P(u) PROVE P(u + 1)
  <2>1. RecordIs(u) /\ Affordable(block[u], StatesOf[block][u][block[u].from])
    BY <1>2, GoodIsPrefix DEF Good
  <2>2. u \in 0 .. BlockSize /\ StatesOf[block][u][a] \in AccountSet
    BY <1>0, TxsFacts, StatesAreStates
  <2>3. ~IsError(e(u))
    BY <1>2, <2>2, ErrorKinds, AccountFacts
  <2>4. e(u + 1) = EvalNext(a, u, e(u))
    BY EvaluateIs
  <2> HIDE DEF e
  <2>5. CASE a \in last_writes[u]
    <3>1. data[a][u].kind = "data"
      BY <2>1, <2>5 DEF RecordIs
    <3>2. e(u) = StatesOf[block][u][a] \/ data[a][u].val.type = "Basic"
      BY <1>2, <3>1, FreshIsBasic
    <3>3. EvalNext(a, u, e(u)) = StatesOf[block][u + 1][a]
      BY <2>1, <2>3, <2>5, <3>2, EvalStep
    <3> QED
      BY <2>4, <3>3
  <2>6. CASE a \notin last_writes[u]
    <3>1. data[a][u].kind = "none" /\ StatesOf[block][u + 1][a] = StatesOf[block][u][a]
      BY <2>1, <2>6 DEF RecordIs
    <3>2. e(u + 1) = e(u)
      BY <2>4, <3>1 DEF EvalNext, HasEntry
    <3>3. \A k \in Txs : k < u + 1 => k < u \/ k = u
      BY DEF Txs
    <3>4. Fresh(a, u) => Fresh(a, u + 1)
      BY <3>1, <3>3 DEF Fresh
    <3> QED
      BY <1>2, <3>1, <3>2, <3>4
  <2> QED
    BY <2>5, <2>6
<1> HIDE DEF P
<1>3. ASSUME Bad # {} PROVE FALSE
  <2>1. Bad \in SUBSET Nat
    BY <1>0
  <2>2. PICK m \in Bad : \A n \in Bad : ~(n < m)
    BY <1>3, <2>1, Least
  <2>3. m # 0
    BY <1>1, <2>2
  <2>4. m - 1 \in Txs /\ m - 1 \in 0 .. BlockSize /\ m - 1 < m /\ (m - 1) + 1 = m /\ m - 1 < v /\ m - 1 <= v
    BY <1>0, <2>2, <2>3 DEF Txs
  <2>5. P(m - 1)
    BY <2>2, <2>4
  <2>6. P((m - 1) + 1)
    BY <1>2, <2>4, <2>5
  <2> QED
    BY <2>2, <2>4, <2>6
<1>4. v <= v
  BY <1>0
<1>5. P(v)
  BY <1>3, <1>4
<1> QED
  BY <1>5 DEF P

\* What a transaction writes is an account or an amount, whatever it has read.
IsWrite(v) == \/ \E c : IsAccount(c) /\ v = Basic(c)
              \/ \E n : v = LazyRecipient(n)
              \/ \E n : v = LazySender(n)

\* A payment makes of an account an account.
LEMMA PaidIsAccount ==
  ASSUME NEW r, IsAccount(r), NEW n
  PROVE  IsAccount([r EXCEPT !.balance = @ + n])
<1>1. PICK b, m : r = [balance |-> b, nonce |-> m]
  BY DEF IsAccount
<1>2. [r EXCEPT !.balance = @ + n] = [balance |-> b + n, nonce |-> m]
  BY <1>1
<1> QED
  BY <1>2 DEF IsAccount

\* So does a reward.
LEMMA RewardedIsWrite ==
  ASSUME NEW writes, NEW r, \A a \in DOMAIN writes : IsWrite(writes[a]), NEW a \in DOMAIN Rewarded(writes, r)
  PROVE  IsWrite(Rewarded(writes, r)[a])
<1>1. DOMAIN Rewarded(writes, r) = {Coinbase} \cup DOMAIN writes
  BY RewardedIs
<1>2. CASE a # Coinbase
  <2>1. Rewarded(writes, r)[a] = writes[a] /\ a \in DOMAIN writes
    BY <1>1, <1>2, RewardedIs
  <2> QED
    BY <2>1
<1>3. CASE a = Coinbase /\ Coinbase \notin DOMAIN writes
  <2>1. Rewarded(writes, r)[a] = LazyRecipient(r)
    BY <1>3, RewardedIs
  <2> QED
    BY <2>1 DEF IsWrite
<1>4. CASE a = Coinbase /\ Coinbase \in DOMAIN writes
  <2> SUFFICES ASSUME NEW v, v = writes[Coinbase] PROVE IsWrite(Rewarded(writes, r)[a])
    OBVIOUS
  <2>0. IsWrite(v)
    BY <1>4
  <2>1. ASSUME NEW c, IsAccount(c), v = Basic(c) PROVE IsWrite(Rewarded(writes, r)[a])
    <3>1. PICK b, n : c = [balance |-> b, nonce |-> n]
      BY <2>1 DEF IsAccount
    <3>2. Rewarded(writes, r)[a] = [v EXCEPT !.account.balance = @ + r]
      BY <1>4, <2>1, ValueKinds DEF Rewarded
    <3>3. [v EXCEPT !.account.balance = @ + r] = Basic([balance |-> b + r, nonce |-> n])
      BY <2>1, <3>1 DEF Basic
    <3>4. IsAccount([balance |-> b + r, nonce |-> n])
      BY DEF IsAccount
    <3> QED
      BY <3>2, <3>3, <3>4 DEF IsWrite
  <2>2. ASSUME NEW n, v = LazyRecipient(n) PROVE IsWrite(Rewarded(writes, r)[a])
    <3>1. Coinbase \in DOMAIN writes /\ writes[Coinbase] = LazyRecipient(n) /\ a = Coinbase
      BY <1>4, <2>2
    <3>2. Rewarded(writes, r)[a] = LazyRecipient(n + r)
      BY ONLY <3>1, RewardedIs
    <3> QED
      BY <3>2 DEF IsWrite
  <2>3. ASSUME NEW n, v = LazySender(n) PROVE IsWrite(Rewarded(writes, r)[a])
    <3>1. Coinbase \in DOMAIN writes /\ writes[Coinbase] = LazySender(n) /\ a = Coinbase
      BY <1>4, <2>3
    <3>2. Rewarded(writes, r)[a] = LazySender(SaturatingSub(n, r))
      BY ONLY <3>1, RewardedIs
    <3> QED
      BY <3>2 DEF IsWrite
  <2> QED
    BY <2>0, <2>1, <2>2, <2>3 DEF IsWrite
<1> QED
  BY <1>1, <1>2, <1>3, <1>4

\* The write sets of lazy executions and of others.
LEMMA WritesShape ==
  ASSUME NEW x, IsTx(x), NEW g, \A a \in Accounts : IsAccount(g[a])
  PROVE  /\ \A a \in DOMAIN Writes(x, TRUE, g) : IsWrite(Writes(x, TRUE, g)[a])
         /\ \A a \in DOMAIN Writes(x, FALSE, g) : IsWrite(Writes(x, FALSE, g)[a])
<1>1. \A a \in DOMAIN Writes(x, TRUE, g) : IsWrite(Writes(x, TRUE, g)[a])
  <2> DEFINE W == AccountWrites(x, TRUE, g)
  <2>1. \A a \in DOMAIN W : IsWrite(W[a])
    BY DEF AccountWrites, IsWrite
  <2> HIDE DEF W
  <2>2. ASSUME NEW r PROVE \A a \in DOMAIN Rewarded(W, r) : IsWrite(Rewarded(W, r)[a])
    BY <2>1, RewardedIsWrite
  <2> QED
    BY <2>2 DEF Writes, W
<1>2. \A a \in DOMAIN Writes(x, FALSE, g) : IsWrite(Writes(x, FALSE, g)[a])
  <2> DEFINE s == StateAfter(x, FALSE, g)
             W == AccountWrites(x, FALSE, g)
  <2>1. ASSUME NEW a \in DOMAIN s PROVE IsAccount(s[a])
    <3> DEFINE gas == GasUsed(x, FALSE, g)
    <3>1. s = After(x, g, gas)
      BY DEF StateAfter, Seen
    <3> HIDE DEF gas, s
    <3>2. a \in (IF Pays(x, g) THEN {x.from, x.to} ELSE {x.from})
      BY <2>1, <3>1, AfterNames
    <3>3. CASE a = x.from
      <4> DEFINE b == IF Pays(x, g) THEN (g[x.from].balance - x.price * gas) - x.value
                                    ELSE g[x.from].balance - x.price * gas
                 n == g[x.from].nonce + 1
      <4>1. After(x, g, gas)[x.from] = [balance |-> b, nonce |-> n]
        BY ONLY AfterIs
      <4> HIDE DEF b, n
      <4> QED
        BY <3>1, <3>3, <4>1 DEF IsAccount
    <3>4. CASE a = x.to /\ Pays(x, g)
      <4>1. After(x, g, gas)[x.to] = [g[x.to] EXCEPT !.balance = @ + x.value]
        BY <3>4, AfterIs
      <4>2. IsAccount(g[x.to])
        BY DEF IsTx
      <4>3. IsAccount([g[x.to] EXCEPT !.balance = @ + x.value])
        BY <4>2, PaidIsAccount
      <4> QED
        BY <3>1, <3>4, <4>1, <4>3
    <3> QED
      BY <3>2, <3>3, <3>4
  <2>2. \A a \in DOMAIN W : a \in DOMAIN s /\ W[a] = Basic(s[a])
    BY DEF AccountWrites
  <2> HIDE DEF s
  <2>3. \A a \in DOMAIN W : IsWrite(W[a])
    BY <2>1, <2>2 DEF IsWrite
  <2> HIDE DEF W
  <2>4. ASSUME NEW r PROVE \A a \in DOMAIN Rewarded(W, r) : IsWrite(Rewarded(W, r)[a])
    BY <2>3, RewardedIsWrite
  <2> QED
    BY <2>4 DEF Writes, W
<1> QED
  BY <1>1, <1>2

\* What the evaluation can arrive at: an account, or one of two errors.
IsEvaluated(r) == IsAccount(r) \/ r \in {LackOfFund, NonceMismatch}

\* One step of it.
LEMMA EvaluatedStep ==
  ASSUME NEW a, NEW t, NEW r, IsEvaluated(r),
         data[a][t].kind = "none" \/ (data[a][t].kind = "data" /\ IsWrite(data[a][t].val))
  PROVE  IsEvaluated(EvalNext(a, t, r))
<1>1. CASE IsError(r) \/ data[a][t].kind = "none"
  BY <1>1 DEF EvalNext, HasEntry
<1>2. CASE ~IsError(r) /\ data[a][t].kind = "data"
  <2> SUFFICES ASSUME NEW v, v = data[a][t].val, NEW x, x = block[t] PROVE IsEvaluated(EvalNext(a, t, r))
    OBVIOUS
  <2>0. IsAccount(r) /\ IsWrite(v)
    BY <1>2, ErrorKinds DEF IsEvaluated
  <2>c. ASSUME NEW y, IsEvaluated(y) PROVE IsEvaluated(CheckNonce(a, t, y))
    BY <2>c, CheckIs DEF IsEvaluated
  <2>1. ASSUME NEW c, IsAccount(c), v = Basic(c) PROVE IsEvaluated(EvalNext(a, t, r))
    <3>1. data[a][t].kind = "data" /\ data[a][t].val = v
      BY <1>2
    <3>2. EvalNext(a, t, r) = CheckNonce(a, t, c)
      BY ONLY <1>2, <3>1, x = block[t], <2>1, EvalNextIs
    <3> QED
      BY <2>1, <2>c, <3>2 DEF IsEvaluated
  <2>2. ASSUME NEW n, v = LazyRecipient(n) PROVE IsEvaluated(EvalNext(a, t, r))
    <3>0. data[a][t].kind = "data" /\ data[a][t].val = v
      BY <1>2
    <3>1. EvalNext(a, t, r) = CheckNonce(a, t, [r EXCEPT !.balance = @ + n])
      BY ONLY <1>2, <3>0, x = block[t], <2>2, EvalNextIs
    <3>2. IsEvaluated([r EXCEPT !.balance = @ + n])
      BY <2>0, PaidIsAccount DEF IsEvaluated
    <3> QED
      BY <2>c, <3>1, <3>2
  <2>3. ASSUME NEW n, v = LazySender(n) PROVE IsEvaluated(EvalNext(a, t, r))
    <3> DEFINE y == IF r.balance < MaxFee(x) THEN LackOfFund
                                             ELSE [balance |-> SaturatingSub(r.balance, n), nonce |-> r.nonce + 1]
    <3>0. data[a][t].kind = "data" /\ data[a][t].val = v
      BY <1>2
    <3>1. EvalNext(a, t, r) = CheckNonce(a, t, y)
      BY ONLY <1>2, <3>0, x = block[t], <2>3, EvalNextIs
    <3>2. IsEvaluated(y)
      BY DEF IsEvaluated, IsAccount
    <3> QED
      BY <2>c, <3>1, <3>2
  <2> QED
    BY <2>0, <2>1, <2>2, <2>3 DEF IsWrite
<1> QED
  BY <1>1, <1>2

\* Once all workers have left and the block has not been given up, every
\* transaction has executed, and has a record that nothing has outdated.
LEMMA CompleteIsRecorded ==
  ASSUME LSInv, AllExited, ~aborted, NEW t \in Txs
  PROVE  Finished(t) /\ Recorded(t) /\ RecordOK(t) /\ \A a \in Accounts : ~Broken(a, t)
<1>0. LInv /\ IInv /\ TypeOK /\ Shape /\ MpcOK /\ ReadsInv /\ ReadsAreCovered
  BY DEF LSInv, LInv, IInv
<1>1. Finished(t)
  BY <1>0, TotalFromIInv DEF CompletionIsTotal, Finished
<1>2. validation_idx \in Int /\ t \in Int /\ ~(validation_idx <= t)
  BY <1>0, BlockSizeAssumption DEF IInv, ValidationIdxIsSeen, AllExited, TypeOK, Txs
<1>3. \A w \in Workers : pc[w] = "exited" /\ mpc[w] = "idle"
  BY <1>0 DEF AllExited, MpcOK, MpcAt, Shape, Mpcs, VmPcs, LastPcs
<1>4. ASSUME NEW a \in Accounts PROVE ~Broken(a, t)
  <2>1. ~Covered(a, t)
    BY <1>2, <1>3 DEF Covered, WillCheck, WillRewind
  <2> QED
    BY <1>0, <1>1, <2>1 DEF ReadsAreCovered
<1>5. Recorded(t) /\ HasRecord(t)
  BY <1>0, <1>1, FinishedHasRecord DEF HasRecord
<1> QED
  BY <1>0, <1>1, <1>4, <1>5 DEF ReadsInv

\* Then what is in the memory is what executions write.
LEMMA CompleteIsWrites ==
  ASSUME LSInv, AllExited, ~aborted, NEW t \in Txs, NEW a \in Accounts
  PROVE  data[a][t].kind = "none" \/ (data[a][t].kind = "data" /\ IsWrite(data[a][t].val))
<1>1. Recorded(t) /\ RecordOK(t)
  BY CompleteIsRecorded
<1>2. (\E g : RecordLazy(t, g)) \/ (\E g : RecordRead(t, g))
  BY <1>1 DEF RecordOK, RecordLazy, RecordRead
<1>3. data[a][t].kind = "none" \/ (data[a][t].kind = "data" /\ a \in last_writes[t])
  BY <1>1, EntryKinds DEF Recorded, IsData
<1> SUFFICES ASSUME NEW x, x = block[t], data[a][t].kind = "data", a \in last_writes[t]
             PROVE  IsWrite(data[a][t].val)
  BY <1>3
<1>4. IsTx(x)
  <2>1. block \in Blocks /\ t \in 0 .. BlockSize
    BY TxsFacts DEF LSInv, LInv, Shape
  <2> QED
    BY <2>1, SeqNextIs, StatesAreStates
<1>5. ASSUME NEW g, RecordLazy(t, g) PROVE IsWrite(data[a][t].val)
  <2>1. \A b \in Accounts : IsAccount(g[b])
    BY ONLY <1>5 DEF RecordLazy, RecordAs
  <2>2. last_writes[t] = DOMAIN Writes(x, TRUE, g)
    BY ONLY <1>5, x = block[t] DEF RecordLazy, RecordAs
  <2>3. data[a][t].val = Writes(x, TRUE, g)[a]
    BY ONLY <1>5, x = block[t], a \in Accounts, data[a][t].kind = "data" DEF RecordLazy, RecordAs
  <2>4. \A b \in DOMAIN Writes(x, TRUE, g) : IsWrite(Writes(x, TRUE, g)[b])
    BY ONLY <1>4, <2>1, WritesShape
  <2> QED
    BY <2>2, <2>3, <2>4
<1>6. ASSUME NEW g, RecordRead(t, g) PROVE IsWrite(data[a][t].val)
  <2>1. \A b \in Accounts : IsAccount(g[b])
    BY ONLY <1>6 DEF RecordRead, RecordAs
  <2>2. last_writes[t] = DOMAIN Writes(x, FALSE, g)
    BY ONLY <1>6, x = block[t] DEF RecordRead, RecordAs
  <2>3. data[a][t].val = Writes(x, FALSE, g)[a]
    BY ONLY <1>6, x = block[t], a \in Accounts, data[a][t].kind = "data" DEF RecordRead, RecordAs
  <2>4. \A b \in DOMAIN Writes(x, FALSE, g) : IsWrite(Writes(x, FALSE, g)[b])
    BY ONLY <1>4, <2>1, WritesShape
  <2> QED
    BY <2>2, <2>3, <2>4
<1> QED
  BY <1>2, <1>5, <1>6

\* So the evaluation arrives at an account, or at one of its two errors, and
\* keeps an error.
LEMMA EvaluatedIs ==
  ASSUME LSInv, AllExited, ~aborted, NEW a \in Accounts, NEW v \in 0 .. BlockSize
  PROVE  /\ IsEvaluated(Evaluate(a)[v])
         /\ IsError(Evaluate(a)[v]) => Evaluate(a)[BlockSize] = Evaluate(a)[v]
<1>0. BlockSize \in Nat /\ Stored[a] \in AccountSet
  BY BlockSizeAssumption, BalancesAssumption DEF AccountSet
<1> DEFINE e(n) == Evaluate(a)[n]
<1>1. ASSUME NEW n \in 0 .. BlockSize PROVE IsEvaluated(e(n))
  <2> DEFINE P(m) == IsEvaluated(e(m))
             Bad == {m \in 0 .. BlockSize : ~P(m)}
  <2>1. P(0)
    <3>1. e(0) \in {Empty, Stored[a]}
      BY EvaluateIs DEF EvalStart
    <3> HIDE DEF e
    <3> QED
      BY <1>0, <3>1, AccountFacts, ErrorKinds DEF IsEvaluated
  <2>2. ASSUME NEW u \in Txs, P(u) PROVE P(u + 1)
    <3>1. e(u + 1) = EvalNext(a, u, e(u))
      BY EvaluateIs
    <3>2. data[a][u].kind = "none" \/ (data[a][u].kind = "data" /\ IsWrite(data[a][u].val))
      BY CompleteIsWrites
    <3> HIDE DEF e
    <3> QED
      BY <2>2, <3>1, <3>2, EvaluatedStep
  <2> HIDE DEF P
  <2>3. ASSUME Bad # {} PROVE FALSE
    <3>1. Bad \in SUBSET Nat
      BY <1>0
    <3>2. PICK m \in Bad : \A k \in Bad : ~(k < m)
      BY <2>3, <3>1, Least
    <3>3. m # 0
      BY <2>1, <3>2
    <3>4. m - 1 \in Txs /\ m - 1 \in 0 .. BlockSize /\ m - 1 < m /\ (m - 1) + 1 = m
      BY <1>0, <3>2, <3>3 DEF Txs
    <3>5. P(m - 1)
      BY <3>2, <3>4
    <3>6. P((m - 1) + 1)
      BY <2>2, <3>4, <3>5
    <3> QED
      BY <3>2, <3>4, <3>6
  <2>4. P(n)
    BY <2>3
  <2> QED
    BY <2>4 DEF P
<1>2. ASSUME IsError(e(v)) PROVE e(BlockSize) = e(v)
  <2> DEFINE P(m) == e(m) = e(v)
             Bad == {m \in 0 .. BlockSize : v <= m /\ ~P(m)}
  <2>1. P(v)
    OBVIOUS
  <2>2. ASSUME NEW u \in Txs, P(u) PROVE P(u + 1)
    <3>1. e(u + 1) = EvalNext(a, u, e(u))
      BY EvaluateIs
    <3> HIDE DEF e
    <3> QED
      BY <1>2, <2>2, <3>1 DEF EvalNext
  <2> HIDE DEF P
  <2>3. ASSUME Bad # {} PROVE FALSE
    <3>1. Bad \in SUBSET Nat
      BY <1>0
    <3>2. PICK m \in Bad : \A k \in Bad : ~(k < m)
      BY <2>3, <3>1, Least
    <3>3. m # v
      BY <2>1, <3>2
    <3>4. m - 1 \in Txs /\ m - 1 \in 0 .. BlockSize /\ v <= m - 1 /\ m - 1 < m /\ (m - 1) + 1 = m
      BY <1>0, <3>2, <3>3 DEF Txs
    <3>5. P(m - 1)
      BY <3>2, <3>4
    <3>6. P((m - 1) + 1)
      BY <2>2, <3>4, <3>5
    <3> QED
      BY <3>2, <3>4, <3>6
  <2>4. P(BlockSize)
    BY <1>0, <2>3
  <2> QED
    BY <2>4 DEF P
<1> QED
  BY <1>1, <1>2

\* A lazy transfer that its sender could not pay: the evaluation stops at it.
LEMMA EvaluationFails ==
  ASSUME NotSwept, LSInv, AllExited, ~aborted, NEW u \in Txs,
         ~Affordable(block[u], StatesOf[block][u][block[u].from]),
         \A t \in Txs : t < u => Affordable(block[t], StatesOf[block][t][block[t].from])
  PROVE  \E a \in lazy_addresses : IsError(Evaluate(a)[BlockSize])
<1>0. block \in Blocks /\ u \in 0 .. BlockSize /\ u + 1 \in 0 .. BlockSize
  BY BlockSizeAssumption, TxsFacts DEF LSInv, LInv, Shape, Txs
<1>1. \A t \in Txs : t < u => Good(t)
  BY CompleteIsRecorded DEF Good
<1>2. Prefix(u)
  BY <1>0, <1>1, GoodIsPrefix
<1>3. Finished(u) /\ Recorded(u) /\ RecordOK(u) /\ \A a \in Accounts : ~Broken(a, u)
  BY CompleteIsRecorded
<1> SUFFICES ASSUME NEW x, x = block[u], NEW s, s = StatesOf[block][u], NEW a, a = x.from
             PROVE  a \in lazy_addresses /\ IsError(Evaluate(a)[BlockSize])
  OBVIOUS
<1>4. IsTx(x) /\ s \in [Accounts -> AccountSet] /\ a \in Accounts /\ ~Affordable(x, s[a])
  BY <1>0, SeqNextIs, StatesAreStates DEF IsTx
<1>5. ASSUME NEW g PROVE ~RecordRead(u, g)
  BY <1>2, <1>3, <1>4, PrefixIsRead
<1>6. PICK g : RecordLazy(u, g)
  BY <1>3, <1>5 DEF RecordOK, RecordLazy, RecordRead
<1>7. a \in lazy_addresses /\ x.kind = "transfer"
  BY <1>6 DEF RecordLazy, RecordAs, Ready
<1>8. \E n \in Nat : data[a][u].kind = "data" /\ data[a][u].val = LazySender(n)
  <2> DEFINE rich == [b \in Accounts |-> IF b = x.from THEN [balance |-> MaxFee(x), nonce |-> x.nonce] ELSE Empty]
             W == Writes(x, TRUE, g)
  <2>1. MaxFee(x) \in Nat /\ x.nonce \in Nat
    BY <1>4, FeeFacts DEF IsTx
  <2>2. rich \in [Accounts -> AccountSet]
    BY <2>1, AccountFacts
  <2>3. rich[x.from] = [balance |-> MaxFee(x), nonce |-> x.nonce]
    BY <1>4
  <2>4. Affordable(x, rich[x.from])
    BY <2>1, <2>3 DEF Affordable
  <2> HIDE DEF rich
  <2>5. DOMAIN W = {x.from, x.to, Coinbase} /\ \E n \in Nat : W[x.from] = LazySender(n)
    BY ONLY <1>4, <1>7, <2>2, <2>4, LazyWritesApply
  <2>6. last_writes[u] = DOMAIN W
    BY ONLY <1>6, x = block[u] DEF RecordLazy, RecordAs
  <2>7. \A b \in Accounts : data[b][u].kind = "data" => data[b][u].val = W[b]
    BY ONLY <1>6, x = block[u] DEF RecordLazy, RecordAs
  <2> HIDE DEF W
  <2>8. data[a][u].kind = "data"
    BY <1>3, <1>4, <2>5, <2>6 DEF Recorded, IsData
  <2> QED
    BY <1>4, <2>5, <2>7, <2>8
<1>9. PICK n \in Nat : data[a][u].kind = "data" /\ data[a][u].val = LazySender(n)
  BY <1>8
<1> DEFINE c == s[a]
<1>10. c.balance \in Nat /\ c.nonce \in Nat /\ x.nonce \in Nat /\ MaxFee(x) \in Nat /\ ~IsError(c)
  BY <1>4, AccountFacts, FeeFacts, ErrorKinds DEF IsTx
<1>11. Evaluate(a)[u] = c
  <2>1. ~Fresh(a, u)
    BY <1>9, FreshIsBasic, ValueKinds
  <2> QED
    BY <1>0, <1>1, <1>4, <2>1, EvaluateIsSequential
<1> HIDE DEF c
<1> DEFINE y == IF c.balance < MaxFee(x) THEN LackOfFund
                                         ELSE [balance |-> SaturatingSub(c.balance, n), nonce |-> c.nonce + 1]
<1>12. Evaluate(a)[u + 1] = CheckNonce(a, u, y)
  <2>1. Evaluate(a)[u + 1] = EvalNext(a, u, c)
    BY <1>11, EvaluateIs
  <2>2. ~IsError(c) /\ data[a][u].kind = "data"
    BY <1>9, <1>10
  <2>3. ASSUME NEW v, v = data[a][u].val, v = LazySender(n), NEW r, r = c
        PROVE  EvalNext(a, u, r) =
                 CheckNonce(a, u, IF r.balance < MaxFee(x) THEN LackOfFund
                                  ELSE [balance |-> SaturatingSub(r.balance, n), nonce |-> r.nonce + 1])
    <3>1. ~IsError(r) /\ data[a][u].kind = "data" /\ data[a][u].val = v
      BY <2>2, <2>3
    <3> QED
      BY ONLY <3>1, <2>3, x = block[u], EvalNextIs
  <2> QED
    BY <1>9, <2>1, <2>3
<1>13. IsError(CheckNonce(a, u, y))
  <2>1. CASE c.balance < MaxFee(x)
    <3>1. y = LackOfFund
      BY <2>1
    <3> QED
      BY <3>1, CheckIs, ErrorKinds
  <2>2. CASE ~(c.balance < MaxFee(x))
    <3>1. c.nonce # x.nonce
      BY <1>4, <1>10, <2>2 DEF Affordable, c
    <3>2. y = [balance |-> SaturatingSub(c.balance, n), nonce |-> c.nonce + 1]
      BY <2>2
    <3> HIDE DEF y
    <3>3. IsAccount(y) /\ y.nonce = c.nonce + 1
      BY <3>2 DEF IsAccount
    <3>4. y.nonce # x.nonce + 1
      BY <1>10, <3>1, <3>3
    <3>5. CheckNonce(a, u, y) = NonceMismatch
      BY <3>3, <3>4, CheckIs, ErrorKinds
    <3> QED
      BY <3>5, ErrorKinds
  <2> QED
    BY <2>1, <2>2
<1> HIDE DEF y
<1>14. Evaluate(a)[BlockSize] = Evaluate(a)[u + 1]
  BY <1>0, <1>4, <1>12, <1>13, EvaluatedIs
<1> QED
  BY <1>7, <1>12, <1>13, <1>14

-----------------------------------------------------------------------------
(* What is returned *)

\* A transaction that sequential execution cannot execute.
SeqFails(b) == \E t \in Txs : ~Affordable(b[t], StatesOf[b][t][b[t].from])
\* What sequential execution returns for one that it can.
SeqResult(b, t) ==
  [gas   |-> Gas(b[t], StatesOf[b][t][b[t].to]),
   state |-> [a \in DOMAIN After(b[t], StatesOf[b][t], 0) \cup {Coinbase} |-> StatesOf[b][t + 1][a]]]

\* The block fails if one of its transactions does.
LEMMA SequentialOutcomeIs ==
  ASSUME NEW b
  PROVE  SequentialOutcome(b) = IF SeqFails(b) THEN [tag |-> "err"]
                                ELSE [tag |-> "ok", results |-> [t \in Txs |-> SeqResult(b, t)]]
  BY DEF SequentialOutcome, SeqFails, SeqResult

\* The block is executed to its end: then each result, completed with the
\* accounts that are evaluated, is that of sequential execution.
LEMMA ResultIsSequential ==
  ASSUME NotSwept, LSInv, AllExited, ~aborted, ~SeqFails(block), NEW t \in Txs
  PROVE  EvaluatedResults(t) = SeqResult(block, t)
<1>0. /\ block \in Blocks /\ t + 1 \in 0 .. BlockSize /\ t \in Int /\ t < t + 1
      /\ Coinbase \in Accounts /\ Coinbase \in lazy_addresses /\ lazy_addresses \subseteq Accounts
  BY BlockSizeAssumption, CoinbaseAssumption DEF LSInv, LInv, Shape, Txs, AddressesOK
<1>1. \A u \in Txs : Good(u)
  BY CompleteIsRecorded DEF Good, SeqFails
<1>2. RecordIs(t)
  BY <1>0, <1>1, GoodIsPrefix
<1> SUFFICES ASSUME NEW x, x = block[t], NEW s, s = StatesOf[block][t], NEW n, n = StatesOf[block][t + 1],
                    NEW own, own = results[t].state
             PROVE  EvaluatedResults(t) = SeqResult(block, t)
  OBVIOUS
<1>3. \A a \in Accounts : HasEntry(a, t) <=> a \in last_writes[t]
  BY <1>2 DEF RecordIs, HasEntry
<1>4. Evaluated(t) = lazy_addresses \cap last_writes[t]
  BY <1>0, <1>3 DEF Evaluated
<1>5. Evaluated(t) \cup DOMAIN own = DOMAIN own \cup {Coinbase} /\ Coinbase \in Evaluated(t)
  BY <1>0, <1>2, <1>4 DEF RecordIs
<1>6. ASSUME NEW a \in Evaluated(t) PROVE Evaluate(a)[t + 1] = n[a]
  <2>1. a \in Accounts /\ HasEntry(a, t)
    BY <1>0, <1>6 DEF Evaluated
  <2>2. ~Fresh(a, t + 1)
    BY <1>0, <2>1 DEF Fresh, HasEntry
  <2> QED
    BY <1>0, <1>1, <2>1, <2>2, EvaluateIsSequential
<1>7. ASSUME NEW a \in DOMAIN own, a \notin Evaluated(t) PROVE own[a] = n[a]
  BY <1>2, <1>4, <1>7 DEF RecordIs
<1>8. results[t].gas = Gas(x, s[x.to]) /\ DOMAIN own = DOMAIN After(x, s, 0)
  BY <1>2 DEF RecordIs
<1>9. [a \in Evaluated(t) \cup DOMAIN own |-> IF a \in Evaluated(t) THEN Evaluate(a)[t + 1] ELSE own[a]]
        = [a \in DOMAIN After(x, s, 0) \cup {Coinbase} |-> n[a]]
  BY <1>5, <1>6, <1>7, <1>8
<1> QED
  BY <1>8, <1>9 DEF EvaluatedResults, SeqResult

\* No account ends in an error then.
LEMMA NoErrorIsEvaluated ==
  ASSUME NotSwept, LSInv, AllExited, ~aborted, ~SeqFails(block), NEW a \in lazy_addresses
  PROVE  ~IsError(Evaluate(a)[BlockSize])
<1>0. block \in Blocks /\ BlockSize \in 0 .. BlockSize /\ a \in Accounts
  BY BlockSizeAssumption DEF LSInv, LInv, Shape, AddressesOK
<1>1. \A u \in Txs : Good(u)
  BY CompleteIsRecorded DEF Good, SeqFails
<1>2. Evaluate(a)[BlockSize] \in {StatesOf[block][BlockSize][a], Empty}
  BY <1>0, <1>1, EvaluateIsSequential
<1>3. StatesOf[block][BlockSize][a] \in AccountSet
  BY <1>0, StatesAreStates
<1> QED
  BY <1>2, <1>3, ErrorKinds, AccountFacts

\* Of the transactions that sequential execution cannot execute there is a first.
LEMMA FirstFailure ==
  ASSUME SeqFails(block)
  PROVE  \E u \in Txs : /\ ~Affordable(block[u], StatesOf[block][u][block[u].from])
                        /\ \A t \in Txs : t < u => Affordable(block[t], StatesOf[block][t][block[t].from])
<1> DEFINE F(t) == Affordable(block[t], StatesOf[block][t][block[t].from])
           Bad == {t \in Txs : ~F(t)}
<1>1. Bad \in SUBSET Nat /\ Bad # {}
  BY DEF Txs, SeqFails
<1> HIDE DEF F
<1>2. PICK m \in Bad : \A t \in Bad : ~(t < m)
  BY <1>1, Least
<1>3. ~F(m) /\ m \in Txs /\ \A t \in Txs : t < m => F(t)
  BY <1>2
<1> QED
  BY <1>3 DEF F

\* Once all workers have left, the outcome is that of sequential execution.
LEMMA OutcomeIsSequential ==
  ASSUME NotSwept, LSInv, AllExited
  PROVE  Outcome = SequentialOutcome(block) /\ Outcome # [tag |-> "running"]
<1> SUFFICES Outcome = SequentialOutcome(block)
  <2>1. ASSUME NEW r PROVE [tag |-> "ok", results |-> r] # [tag |-> "running"]
    <3>1. [tag |-> "ok", results |-> r].tag = "ok" /\ [tag |-> "running"].tag = "running"
      OBVIOUS
    <3> QED
      BY <3>1
  <2>2. [tag |-> "err"] # [tag |-> "running"]
    <3>1. [tag |-> "err"].tag = "err" /\ [tag |-> "running"].tag = "running"
      OBVIOUS
    <3> QED
      BY <3>1
  <2> QED
    BY <2>1, <2>2, SequentialOutcomeIs
<1> DEFINE errors == {a \in lazy_addresses : IsError(Evaluate(a)[BlockSize])}
<1>1. CASE aborted
  <2>1. Outcome = [tag |-> "err"]
    BY <1>1 DEF Outcome
  <2>2. StatesOf[block][0] = Stored /\ 0 \in Txs
    BY StatesAre, TxsFacts DEF LSInv, LInv, Shape
  <2>3. SeqFails(block)
    BY <1>1, <2>2 DEF SeqFails, LSInv, ErrInv
  <2> QED
    BY <2>1, <2>3, SequentialOutcomeIs
<1>2. CASE ~aborted /\ SeqFails(block)
  <2>1. errors # {}
    BY <1>2, FirstFailure, EvaluationFails
  <2>2. ASSUME NEW a \in errors PROVE Evaluate(a)[BlockSize].error # "unreachable"
    <3>1. a \in Accounts /\ BlockSize \in 0 .. BlockSize
      BY BlockSizeAssumption DEF LSInv, AddressesOK
    <3>2. IsEvaluated(Evaluate(a)[BlockSize]) /\ IsError(Evaluate(a)[BlockSize])
      BY <1>2, <3>1, EvaluatedIs
    <3> QED
      BY <3>2, ErrorKinds DEF IsEvaluated
  <2>3. Outcome = [tag |-> "err"]
    BY <1>2, <2>1, <2>2 DEF Outcome
  <2> QED
    BY <1>2, <2>3, SequentialOutcomeIs
<1>3. CASE ~aborted /\ ~SeqFails(block)
  <2>1. errors = {}
    BY <1>3, NoErrorIsEvaluated
  <2>2. Outcome = [tag |-> "ok", results |-> [t \in Txs |-> EvaluatedResults(t)]]
    BY <1>3, <2>1 DEF Outcome
  <2>3. [t \in Txs |-> EvaluatedResults(t)] = [t \in Txs |-> SeqResult(block, t)]
    BY <1>3, ResultIsSequential
  <2> QED
    BY <1>3, <2>2, <2>3, SequentialOutcomeIs
<1> QED
  BY <1>1, <1>2, <1>3

\* Nobody moves any more once all have left.
LEMMA ExitedStays ==
  ASSUME LSInv, AllExited, [LazyNext]_lazyVars
  PROVE  UNCHANGED lazyVars
<1>1. \A w \in Workers : pc[w] = "exited" /\ mpc[w] = "idle"
  BY DEF AllExited, LSInv, LInv, MpcOK, MpcAt, Shape, Mpcs, VmPcs, LastPcs
<1>2. ASSUME NEW w \in Workers, LazyStep(w) PROVE FALSE
  <2>1. ~WorkerStep(w)
    BY <1>1, ReasonStays
  <2> QED
    BY <1>1, <1>2, <2>1 DEF LazyStep, VmNew, VmReadFrom, VmReadTo, VmReadEstimate, VmNotYet, GiveUp,
       SetAbortReason, AddLazyAddresses, RecordReads, RecordRemove, RecordInsert, ExecuteOk, ValidateStart,
       ValidateCheck, ValidateEnd, ConvertStart, ConvertOne, ConvertEnd
<1> QED
  BY <1>2 DEF LazyNext, Joined, lazyVars

\* The invariant under which the executor implements its promise.
RInv == LSInv /\ (AllExited => Outcome = SequentialOutcome(block) /\ Outcome # [tag |-> "running"])

\* execute_revm_parallel with lazy updates returns once, and what it returns is
\* what execute_revm_sequential returns, the error included: for every block in
\* which no new account is swept, whichever transfers were lazy, and for any
\* number of workers.
THEOREM EvaluatesSequentialHolds ==
  ASSUME NotSwept
  PROVE  LazySpec => EvaluatesSequential
<1>1. LazyInit => Caller!Init
  <2> SUFFICES ASSUME LazyInit PROVE Caller!Init
    OBVIOUS
  <2>1. ~AllExited
    BY WorkersAssumption DEF LazyInit, Init, AllExited
  <2>2. Outcome = [tag |-> "running"]
    BY <2>1 DEF Outcome
  <2> QED
    BY <2>2 DEF LazyInit, Caller!Init, Caller!Running
<1>2. LSInv => RInv
  BY OutcomeIsSequential DEF RInv
<1>3. RInv /\ RInv' /\ [LazyNext]_lazyVars => [Caller!Return]_<<block, Outcome>>
  <2> SUFFICES ASSUME RInv, RInv', [LazyNext]_lazyVars PROVE [Caller!Return]_<<block, Outcome>>
    OBVIOUS
  <2>1. CASE UNCHANGED lazyVars
    <3>1. UNCHANGED <<pc, aborted, results, block, data, lazy_addresses>>
      BY <2>1 DEF lazyVars, vars, endVars, txVars, memVars, shared
    <3>2. Outcome' = Outcome
      BY <3>1 DEF Outcome, AllExited, Evaluate, EvaluateEntry, CheckNonce, HasEntry, Writers,
         EvaluatedResults, Evaluated
    <3> QED
      BY <3>1, <3>2
  <2>2. CASE AllExited
    BY <2>1, <2>2, ExitedStays DEF RInv
  <2>3. ASSUME ~AllExited, NEW w \in Workers, LazyStep(w) PROVE [Caller!Return]_<<block, Outcome>>
    <3>1. block' = block
      BY <2>3, StepFacts DEF RInv, LSInv, Apart
    <3>2. Outcome = [tag |-> "running"]
      BY <2>3 DEF Outcome
    <3>3. CASE AllExited'
      <4>1. Outcome' = SequentialOutcome(block') /\ Outcome' # [tag |-> "running"]
        BY <3>3 DEF RInv
      <4> QED
        BY <3>1, <3>2, <4>1 DEF Caller!Return, Caller!Running
    <3>4. CASE ~AllExited'
      <4>1. Outcome' = [tag |-> "running"]
        BY <3>4 DEF Outcome
      <4> QED
        BY <3>1, <3>2, <4>1
    <3> QED
      BY <3>3, <3>4
  <2> QED
    BY <2>1, <2>2, <2>3 DEF LazyNext, Joined, lazyVars
<1> QED
  BY <1>1, <1>2, <1>3, LazySerialInvariance, PTL DEF LazySpec, EvaluatesSequential, Caller!Spec
=============================================================================
