-------------------------- MODULE RpcStorageProofs --------------------------
(***************************************************************************)
(* The cache of RpcStorage, for every chain, every set of threads and every *)
(* workload: it holds nothing but what the chain has, answers are those of *)
(* the chain, and the snapshot of a storage that was used sequentially     *)
(* replays what was asked.                                                 *)
(***************************************************************************)
EXTENDS RpcStorage, TLAPS

Calls == [op : Ops, address : Addresses, slot : Slots, number : Numbers]

\* The four kinds of answers differ.
LEMMA Kinds ==
  /\ Absent # Error /\ Absent # Pending /\ Error # Pending
  /\ \A v : Found(v) \notin {Absent, Error, Pending} /\ Found(v).val = v
  /\ \A v, x : Found(v) = Found(x) => v = x
<1>1. Absent.is = "absent" /\ Error.is = "error" /\ Pending.is = "pending"
  BY DEF Absent, Error, Pending
<1>2. \A v : Found(v).is = "found" /\ Found(v).val = v
  BY DEF Found
<1> QED
  BY <1>1, <1>2

-----------------------------------------------------------------------------
(* The invariant *)

\* An account of the chain with the slots s, as the cache holds it.
Entry(a, s) == Found([balance |-> Chain[a].balance, nonce |-> Chain[a].nonce,
                      code_hash |-> Hash(Chain[a].code), storage |-> s])

\* Some of the chain's slots.
SomeSlots(a, s) ==
  /\ s = [i \in Slots |-> s[i]]
  /\ \A i \in Slots : s[i] \in {Absent, Found(Chain[a].storage[i])}

AccountOK(a) ==
  \/ cache_accounts[a] = Absent
  \/ /\ ~IsNew(a, Chain[a])
     /\ Hash(Chain[a].code) # Absent => Hash(Chain[a].code) \in cache_bytecodes
     /\ LET s == cache_accounts[a].val.storage
        IN SomeSlots(a, s) /\ cache_accounts[a] = Entry(a, s)

CacheOK ==
  /\ DOMAIN cache_accounts = Addresses /\ DOMAIN cache_block_hashes = Numbers
  /\ \A a \in Addresses : AccountOK(a)
  /\ \A n \in Numbers : cache_block_hashes[n] \in {Absent, Found(BlockHash[n])}

\* The requests of a thread: what fetch has returned, and its retries.
Has(th, r) == answer[th][r] = Found(Provider(call[th], r))
RequestOK(th, r) ==
  /\ answer[th][r] \in {Absent, Pending, Error} \/ Has(th, r)
  /\ lives[th][r] \in Nat /\ faults[th][r] \in Nat
  /\ answer[th][r] = Pending => lives[th][r] + faults[th][r] = RetryLimit
  /\ answer[th][r] # Pending => lives[th][r] = RetryLimit
  /\ answer[th][r] = Error => faults[th][r] > RetryLimit
  /\ answer[th][r] \notin {Pending, Error} => faults[th][r] = 0

Fetches == {"fetchBasic", "fetchProof", "fetchSlot", "fetchBlock"}
AskPcs == {"lookup", "cacheCode", "cacheAccount", "hash", "lookupCode", "askProof",
           "lookupSlot", "cacheSlot", "lookupBlock"}
BasicPcs == {"lookup", "fetchBasic", "cacheCode", "cacheAccount"}

\* What a thread waits for in a fetch, and holds after it.
Asks(l) == CASE l = "fetchBasic" -> {"nonce", "balance", "code"}
             [] l = "fetchProof" -> {"proof"}
             [] l = "fetchSlot"  -> {"slot"}
             [] l = "fetchBlock" -> {"block"}

AnswersOK(th) ==
  /\ \A r \in Requests : RequestOK(th, r)
  /\ pc[th] = "idle" => answer[th] = NoAnswers
  /\ pc[th] \notin Fetches => Joined(th)
  /\ pc[th] \in AskPcs => ~Failed(th)
  /\ pc[th] \in Fetches => \A r \in Requests : IF r \in Asks(pc[th]) THEN answer[th][r] # Absent
                                                ELSE answer[th][r] \notin {Pending, Error}
  /\ pc[th] \in {"cacheCode", "cacheAccount"} => Has(th, "nonce") /\ Has(th, "balance") /\ Has(th, "code")
  /\ pc[th] \in BasicPcs \cup {"cacheSlot"} /\ call[th].op = "storage" => Has(th, "slot")

\* Where a call can be, and what it relies on there.
Settled(th) == Cached(call[th].address) \/ IsNew(call[th].address, Chain[call[th].address])
PlaceOK(th) ==
  LET c == call[th]
      a == c.address
      code == Hash(Chain[a].code)
  IN /\ c \in Calls
     /\ pc[th] \in AskPcs \cup Fetches \cup {"return"}
     /\ pc[th] \in BasicPcs =>
          \/ c.op = "basic" /\ then[th] = "answer"
          \/ c.op = "code_hash" /\ then[th] = "hash"
          \/ c.op = "storage" /\ then[th] = "cacheSlot"
          \/ c.op = "basic_ref" /\ then[th] = "again"
          \/ c.op = "basic_ref" /\ then[th] = "hash" /\ Cached(a)
     /\ pc[th] \in {"cacheCode", "cacheAccount"} => ~IsNew(a, Chain[a])
     /\ pc[th] = "cacheAccount" => code = Absent \/ code \in cache_bytecodes
     /\ pc[th] = "hash" =>
          \/ c.op = "code_hash" /\ Settled(th)
          \/ c.op = "basic_ref" /\ Cached(a)
     /\ pc[th] = "lookupCode" => c.op \in {"code_by_hash", "basic_ref"} /\ Cached(a) /\ code # Absent
     /\ pc[th] \in {"askProof", "fetchProof"} => c.op = "has_storage"
     /\ pc[th] \in {"lookupSlot", "fetchSlot", "cacheSlot"} => c.op = "storage" /\ then[th] = "cacheSlot"
     /\ pc[th] = "cacheSlot" => Settled(th)
     /\ pc[th] \in {"lookupBlock", "fetchBlock"} => c.op = "block_hash"

ReturnOK(th) ==
  pc[th] = "return" =>
    IF ret[th] = Error THEN \E r \in Requests : faults[th][r] > RetryLimit
                       ELSE ret[th] = Truth(call[th])

\* The functions of threads.
LocalsOK ==
  /\ workload \subseteq Calls
  /\ DOMAIN pc = Threads /\ DOMAIN call = Threads /\ DOMAIN then = Threads /\ DOMAIN ret = Threads
  /\ DOMAIN answer = Threads /\ \A th \in Threads : DOMAIN answer[th] = Requests
  /\ DOMAIN lives = Threads /\ \A th \in Threads : DOMAIN lives[th] = Requests
  /\ DOMAIN faults = Threads /\ \A th \in Threads : DOMAIN faults[th] = Requests

ThreadOK(th) == AnswersOK(th) /\ ReturnOK(th) /\ (pc[th] # "idle" => PlaceOK(th))

CInv == LocalsOK /\ CacheOK /\ \A th \in Threads : ThreadOK(th)

\* What the cache must hold so that a call can be replayed from it.
Kept(c) ==
  /\ c.op \in {"basic", "basic_ref", "code_hash"} =>
       Cached(c.address) \/ IsNew(c.address, Chain[c.address])
  /\ c.op = "code_by_hash" => Hash(Chain[c.address].code) \in cache_bytecodes
  /\ c.op = "storage" =>
       \/ IsNew(c.address, Chain[c.address])
       \/ Cached(c.address) /\ cache_accounts[c.address].val.storage[c.slot] # Absent
  /\ c.op = "block_hash" => cache_block_hashes[c.number] # Absent

\* As long as calls have not overlapped: one at a time, an account is fetched
\* only if it is not cached, and what was answered is kept.
SeqOK ==
  ~overlapped =>
    /\ \A th, u \in Threads : pc[th] # "idle" /\ pc[u] # "idle" => th = u
    /\ \A th \in Threads : pc[th] \in BasicPcs \ {"lookup"} => ~Cached(call[th].address)
    /\ \A th \in Threads : pc[th] = "return" /\ ret[th] # Error => Kept(call[th])
    /\ asked \subseteq Calls /\ \A c \in asked : Kept(c)

RpcInv == CInv /\ SeqOK

-----------------------------------------------------------------------------
(* What a step of one thread leaves alone *)

Move(th) == Step(th) \/ \E c \in workload : Call(th, c)

Alone(th) ==
  \A u \in Threads \ {th} :
    /\ pc'[u] = pc[u] /\ call'[u] = call[u] /\ then'[u] = then[u] /\ ret'[u] = ret[u]
    /\ answer'[u] = answer[u] /\ lives'[u] = lives[u] /\ faults'[u] = faults[u]

\* The cache never forgets an account or a bytecode.
Grows ==
  /\ \A a \in Addresses : Cached(a) => Cached(a)'
  /\ cache_bytecodes \subseteq cache_bytecodes'

\* The step of a thread that returns from basic.
LEMMA BasicOutcome ==
  ASSUME LocalsOK, NEW th \in Threads, NEW f, BasicReturns(th, f), PlaceOK(th), pc[th] \in BasicPcs
  PROVE  /\ DOMAIN pc' = Threads /\ DOMAIN then' = Threads /\ DOMAIN ret' = Threads
         /\ \A u \in Threads \ {th} : pc'[u] = pc[u] /\ then'[u] = then[u] /\ ret'[u] = ret[u]
         /\ \/ /\ pc'[th] = "return" /\ ret'[th] = f
               /\ call[th].op = "basic" \/ (call[th].op = "basic_ref" /\ f = Absent)
            \/ pc'[th] = "lookup" /\ then'[th] = "hash" /\ call[th].op = "basic_ref" /\ f # Absent
            \/ /\ pc'[th] = "hash" /\ then'[th] = then[th]
               /\ call[th].op = "code_hash" \/ (call[th].op = "basic_ref" /\ Cached(call[th].address))
            \/ pc'[th] = "cacheSlot" /\ then'[th] = then[th] /\ call[th].op = "storage" /\ then[th] = "cacheSlot"
<1> USE DEF Goto, Answer, LocalsOK
<1>0. then[th] \in {"answer", "again", "hash", "cacheSlot"}
  BY DEF PlaceOK
<1>1. CASE then[th] = "answer"
  <2>1. Answer(th, f) /\ UNCHANGED then
    BY <1>1 DEF BasicReturns
  <2>2. call[th].op = "basic"
    BY <1>1 DEF PlaceOK
  <2> QED
    BY <2>1, <2>2
<1>2. CASE then[th] = "again"
  <2>1. IF f = Absent THEN Answer(th, Absent) /\ UNCHANGED then
                      ELSE /\ Goto(th, "lookup")
                           /\ then' = [then EXCEPT ![th] = "hash"]
                           /\ UNCHANGED ret
    BY <1>2 DEF BasicReturns
  <2>2. call[th].op = "basic_ref"
    BY <1>2 DEF PlaceOK
  <2> QED
    BY <2>1, <2>2
<1>3. CASE then[th] \in {"hash", "cacheSlot"}
  <2>1. Goto(th, then[th]) /\ UNCHANGED <<then, ret>>
    BY <1>3 DEF BasicReturns
  <2>2. \/ then[th] = "hash" /\ (call[th].op = "code_hash" \/ (call[th].op = "basic_ref" /\ Cached(call[th].address)))
        \/ then[th] = "cacheSlot" /\ call[th].op = "storage"
    BY <1>3 DEF PlaceOK
  <2> QED
    BY <2>1, <2>2
<1> QED
  BY <1>0, <1>1, <1>2, <1>3

\* A step keeps the functions of threads, and the other threads' locals.
LEMMA StepShape ==
  ASSUME CInv, NEW th \in Threads, Move(th)
  PROVE  LocalsOK' /\ Alone(th)
<1>0. LocalsOK /\ (pc[th] # "idle" => PlaceOK(th))
  BY DEF CInv, ThreadOK
<1> DEFINE Goal == LocalsOK' /\ Alone(th)
<1>a. ASSUME NEW l, Goto(th, l), UNCHANGED <<workload, call, then, ret, answer, lives, faults>> PROVE Goal
  BY <1>0, <1>a DEF LocalsOK, Alone, Goto
<1>b. ASSUME NEW v, Answer(th, v), UNCHANGED <<workload, call, then, answer, lives, faults>> PROVE Goal
  BY <1>0, <1>b DEF LocalsOK, Alone, Goto, Answer
<1>c. ASSUME NEW rs, NEW l, Ask(th, rs, l), UNCHANGED <<workload, call, then, ret, lives, faults>> PROVE Goal
  BY <1>0, <1>c DEF LocalsOK, Alone, Goto, Ask
<1>d. ASSUME NEW f, BasicReturns(th, f), pc[th] \in BasicPcs, UNCHANGED <<workload, call, answer, lives, faults>> PROVE Goal
  <2>1. PlaceOK(th)
    BY <1>0, <1>d DEF BasicPcs
  <2>2. /\ DOMAIN pc' = Threads /\ DOMAIN then' = Threads /\ DOMAIN ret' = Threads
        /\ \A u \in Threads \ {th} : pc'[u] = pc[u] /\ then'[u] = then[u] /\ ret'[u] = ret[u]
    BY <1>0, <1>d, <2>1, BasicOutcome
  <2> QED
    BY <1>0, <1>d, <2>2 DEF LocalsOK, Alone
<1> USE DEF history
<1>1. ASSUME NEW r \in Requests, RequestOk(th, r) PROVE Goal
  BY <1>0, <1>1 DEF RequestOk, FetchReturns, LocalsOK, Alone
<1>2. ASSUME NEW r \in Requests, RequestFails(th, r) PROVE Goal
  BY <1>0, <1>2 DEF RequestFails, Fault, FetchReturns, LocalsOK, Alone
<1>3. CASE BasicLookup(th)
  <2>1. CASE Account(th) # Absent BY <1>3, <2>1, <1>d DEF BasicLookup, BasicPcs
  <2>2. CASE Account(th) = Absent BY <1>3, <2>2, <1>c DEF BasicLookup
  <2> QED BY <2>1, <2>2
<1>4. CASE BasicFetched(th)
  <2>1. CASE Failed(th) BY <1>4, <2>1, <1>b DEF BasicFetched
  <2>2. CASE ~Failed(th) /\ IsNew(call[th].address, Fetched(th)) BY <1>4, <2>2, <1>d DEF BasicFetched, BasicPcs
  <2>3. CASE ~Failed(th) /\ ~IsNew(call[th].address, Fetched(th)) BY <1>4, <2>3, <1>a DEF BasicFetched
  <2> QED BY <2>1, <2>2, <2>3
<1>5. CASE CacheCode(th) BY <1>5, <1>a DEF CacheCode
<1>6. CASE CacheAccount(th) BY <1>6, <1>d DEF CacheAccount, BasicPcs
<1>7. CASE CodeHash(th)
  <2>1. UNCHANGED <<workload, call, then, answer, lives, faults>>
        /\ ((\E v : Answer(th, v)) \/ (Goto(th, "lookupCode") /\ UNCHANGED ret))
    BY <1>7 DEF CodeHash
  <2> QED BY <2>1, <1>a, <1>b
<1>8. CASE CodeByHash(th)
  <2>1. UNCHANGED <<workload, call, then, answer, lives, faults>> /\ \E v : Answer(th, v)
    BY <1>8 DEF CodeByHash
  <2> QED BY <2>1, <1>b
<1>9. CASE AskProof(th) BY <1>9, <1>c DEF AskProof
<1>10. CASE ProofFetched(th) BY <1>10, <1>b DEF ProofFetched
<1>11. CASE SlotLookup(th) BY <1>11, <1>b, <1>c DEF SlotLookup
<1>12. CASE SlotFetched(th) BY <1>12, <1>a, <1>b DEF SlotFetched
<1>13. CASE CacheSlot(th) BY <1>13, <1>b DEF CacheSlot
<1>14. CASE BlockLookup(th) BY <1>14, <1>b, <1>c DEF BlockLookup
<1>15. CASE BlockFetched(th) BY <1>15, <1>b DEF BlockFetched
<1>16. CASE Return(th) BY <1>0, <1>16 DEF Return, Goto, LocalsOK, Alone, NoAnswers, NoFaults
<1>17. ASSUME NEW c \in workload, Call(th, c) PROVE Goal
  BY <1>0, <1>17 DEF Call, Goto, LocalsOK, Alone
<1> QED
  BY <1>1, <1>2, <1>3, <1>4, <1>5, <1>6, <1>7, <1>8, <1>9, <1>10, <1>11, <1>12, <1>13, <1>14, <1>15, <1>16, <1>17 DEF Move, Step

-----------------------------------------------------------------------------
(* The cache *)

\* What a cached account is.
LEMMA CachedAccount ==
  ASSUME CacheOK, NEW a \in Addresses, Cached(a)
  PROVE  LET e == cache_accounts[a].val
         IN /\ ~IsNew(a, Chain[a])
            /\ e.balance = Chain[a].balance /\ e.nonce = Chain[a].nonce
            /\ e.code_hash = Hash(Chain[a].code)
            /\ e.code_hash # Absent => e.code_hash \in cache_bytecodes
            /\ SomeSlots(a, e.storage) /\ cache_accounts[a] = Entry(a, e.storage)
            /\ AccountBasic(e) = AccountBasic(Chain[a])
<1>1. PICK s : SomeSlots(a, s) /\ cache_accounts[a] = Entry(a, s)
  BY DEF CacheOK, AccountOK, Cached
<1>2. cache_accounts[a].val = [balance |-> Chain[a].balance, nonce |-> Chain[a].nonce,
                               code_hash |-> Hash(Chain[a].code), storage |-> s]
  BY <1>1, Kinds DEF Entry
<1> QED
  BY <1>1, <1>2 DEF CacheOK, AccountOK, Cached, AccountBasic

\* What has been fetched about an account.
LEMMA FetchedAccount ==
  ASSUME NEW th \in Threads, Has(th, "nonce"), Has(th, "balance"), Has(th, "code")
  PROVE  LET a == call[th].address
         IN /\ Fetched(th).balance = Chain[a].balance /\ Fetched(th).nonce = Chain[a].nonce
            /\ Fetched(th).code = Chain[a].code
            /\ IsNew(a, Fetched(th)) <=> IsNew(a, Chain[a])
            /\ AccountBasic(Fetched(th)) = AccountBasic(Chain[a])
<1>1. /\ Provider(call[th], "nonce") = Chain[call[th].address].nonce
      /\ Provider(call[th], "balance") = Chain[call[th].address].balance
      /\ Provider(call[th], "code") = Chain[call[th].address].code
  BY DEF Provider
<1>2. /\ answer[th]["nonce"].val = Chain[call[th].address].nonce
      /\ answer[th]["balance"].val = Chain[call[th].address].balance
      /\ answer[th]["code"].val = Chain[call[th].address].code
  BY <1>1, Kinds DEF Has
<1>3. /\ Fetched(th).balance = Chain[call[th].address].balance
      /\ Fetched(th).nonce = Chain[call[th].address].nonce
      /\ Fetched(th).code = Chain[call[th].address].code
  BY <1>2 DEF Fetched
<1> QED
  BY <1>3 DEF IsNew, AccountBasic

\* A slot that is cached is added to those of its account.
LEMMA CacheSlotEffect ==
  ASSUME LocalsOK, CacheOK, NEW th \in Threads, AnswersOK(th), PlaceOK(th), CacheSlot(th), Account(th) # Absent
  PROVE  LET a == call[th].address
             z == [cache_accounts[a].val.storage EXCEPT ![call[th].slot] = answer[th]["slot"]]
         IN /\ SomeSlots(a, z) /\ cache_accounts'[a] = Entry(a, z) /\ Entry(a, z).val.storage = z
            /\ z[call[th].slot] # Absent
            /\ DOMAIN cache_accounts' = Addresses
            /\ \A b \in Addresses \ {a} : cache_accounts'[b] = cache_accounts[b]
            /\ a \in Addresses /\ Cached(a)
<1> DEFINE a == call[th].address
           i == call[th].slot
           s == cache_accounts[a].val.storage
           z == [s EXCEPT ![i] = answer[th]["slot"]]
<1>1. a \in Addresses /\ i \in Slots /\ call[th].op = "storage" /\ Cached(a)
  BY DEF CacheSlot, PlaceOK, Calls, Account, Cached
<1>2. answer[th]["slot"] = Found(Chain[a].storage[i])
  BY <1>1 DEF CacheSlot, AnswersOK, Has, Provider
<1>3. SomeSlots(a, s) /\ cache_accounts[a] = Entry(a, s)
  BY <1>1, CachedAccount
<1>4. cache_accounts' = [cache_accounts EXCEPT ![a].val.storage[i] = answer[th]["slot"]]
  BY DEF CacheSlot
<1>5. SomeSlots(a, z) /\ z[i] # Absent
  BY <1>1, <1>2, <1>3, Kinds DEF SomeSlots
<1>6. cache_accounts'[a] = [cache_accounts[a] EXCEPT !.val = [@ EXCEPT !.storage = z]]
  BY <1>1, <1>4 DEF CacheOK
<1> HIDE DEF z, s
<1>7. [Entry(a, s) EXCEPT !.val = [@ EXCEPT !.storage = z]] = Entry(a, z)
  BY DEF Entry, Found
<1>8. cache_accounts'[a] = Entry(a, z) /\ Entry(a, z).val.storage = z
  BY <1>3, <1>6, <1>7, Kinds, SMTT(30) DEF Entry
<1>9. DOMAIN cache_accounts' = Addresses /\ \A b \in Addresses \ {a} : cache_accounts'[b] = cache_accounts[b]
  BY <1>4 DEF CacheOK
<1> QED
  BY <1>1, <1>5, <1>8, <1>9 DEF z, s

\* Whatever is inserted into the cache is what the chain has.
LEMMA CacheStep ==
  ASSUME CInv, NEW th \in Threads, Move(th)
  PROVE  CacheOK' /\ Grows
<1>0. CacheOK /\ LocalsOK /\ AnswersOK(th) /\ (pc[th] # "idle" => PlaceOK(th))
  BY DEF CInv, ThreadOK
<1>1. CASE UNCHANGED caches
  BY <1>0, <1>1 DEF CacheOK, AccountOK, Grows, Cached, caches
<1>2. CASE CacheCode(th)
  BY <1>0, <1>2 DEF CacheCode, CacheOK, AccountOK, Grows, Cached
<1>3. CASE CacheAccount(th)
  <2> DEFINE a == call[th].address
             s == [i \in Slots |-> Absent]
  <2>1. a \in Addresses /\ ~IsNew(a, Chain[a]) /\ (Hash(Chain[a].code) # Absent => Hash(Chain[a].code) \in cache_bytecodes)
    BY <1>0, <1>3 DEF CacheAccount, PlaceOK, Calls
  <2>2. Has(th, "nonce") /\ Has(th, "balance") /\ Has(th, "code")
    BY <1>0, <1>3 DEF CacheAccount, AnswersOK
  <2>3. Entry(a, s) = Found([balance |-> Fetched(th).balance, nonce |-> Fetched(th).nonce,
                             code_hash |-> Hash(Fetched(th).code), storage |-> s])
    BY <2>2, FetchedAccount DEF Entry
  <2>4. cache_accounts' = [cache_accounts EXCEPT ![a] = Entry(a, s)] /\ UNCHANGED <<cache_bytecodes, cache_block_hashes>>
    BY <1>3, <2>3 DEF CacheAccount
  <2>5. SomeSlots(a, s) /\ Entry(a, s).val.storage = s /\ Entry(a, s) # Absent
    BY Kinds DEF SomeSlots, Entry
  <2> HIDE DEF s, a
  <2>6. ASSUME NEW b \in Addresses PROVE AccountOK(b)' /\ (Cached(b) => Cached(b)')
    <3>1. CASE b = a
      BY <1>0, <2>1, <2>4, <2>5, <3>1 DEF CacheOK, AccountOK, Cached
    <3>2. CASE b # a
      <4>1. cache_accounts'[b] = cache_accounts[b]
        BY <2>4, <3>2 DEF CacheOK
      <4> QED
        BY <1>0, <2>4, <4>1 DEF CacheOK, AccountOK, Cached
    <3> QED
      BY <3>1, <3>2
  <2> QED
    BY <1>0, <2>4, <2>6 DEF CacheOK, Grows
<1>4. CASE CacheSlot(th) /\ Account(th) # Absent
  <2> DEFINE a == call[th].address
             z == [cache_accounts[a].val.storage EXCEPT ![call[th].slot] = answer[th]["slot"]]
  <2>1. /\ SomeSlots(a, z) /\ cache_accounts'[a] = Entry(a, z) /\ Entry(a, z).val.storage = z
        /\ DOMAIN cache_accounts' = Addresses
        /\ \A b \in Addresses \ {a} : cache_accounts'[b] = cache_accounts[b]
        /\ a \in Addresses /\ Cached(a) /\ UNCHANGED <<cache_bytecodes, cache_block_hashes>>
    BY <1>0, <1>4, CacheSlotEffect DEF CacheSlot
  <2>2. ~IsNew(a, Chain[a]) /\ (Hash(Chain[a].code) # Absent => Hash(Chain[a].code) \in cache_bytecodes)
    BY <1>0, <2>1, CachedAccount
  <2>3. Entry(a, z) # Absent
    BY Kinds DEF Entry
  <2> HIDE DEF a, z
  <2>4. ASSUME NEW b \in Addresses PROVE AccountOK(b)' /\ (Cached(b) => Cached(b)')
    <3>1. CASE b = a
      BY <2>1, <2>2, <2>3, <3>1 DEF AccountOK, Cached
    <3>2. CASE b # a
      BY <1>0, <2>1, <3>2 DEF CacheOK, AccountOK, Cached
    <3> QED
      BY <3>1, <3>2
  <2> QED
    BY <1>0, <2>1, <2>4 DEF CacheOK, Grows
<1>5. CASE CacheSlot(th) /\ Account(th) = Absent
  BY <1>1, <1>5 DEF CacheSlot, caches
<1>6. CASE BlockFetched(th)
  <2>1. UNCHANGED <<cache_accounts, cache_bytecodes>> /\ pc[th] = "fetchBlock" /\ Joined(th)
    BY <1>6 DEF BlockFetched
  <2>2. \A a \in Addresses : AccountOK(a)' /\ (Cached(a) => Cached(a)')
    BY <1>0, <2>1 DEF CacheOK, AccountOK, Cached
  <2>3. ~Failed(th) => answer[th]["block"] = Found(BlockHash[call[th].number])
    <3>1. "block" \in Asks(pc[th]) /\ "block" \in Requests
      BY <2>1 DEF Asks, Requests
    <3>2. answer[th]["block"] # Absent /\ answer[th]["block"] # Pending /\ RequestOK(th, "block")
      BY <1>0, <2>1, <3>1 DEF AnswersOK, Fetches, Joined
    <3> QED
      BY <3>1, <3>2 DEF RequestOK, Has, Provider, Failed
  <2>4. /\ DOMAIN cache_block_hashes' = Numbers
        /\ \A n \in Numbers : cache_block_hashes'[n] \in {Absent, Found(BlockHash[n])}
    BY <1>0, <1>6, <2>3 DEF BlockFetched, CacheOK
  <2> QED
    BY <1>0, <2>1, <2>2, <2>4 DEF CacheOK, Grows
<1> QED
  BY <1>1, <1>2, <1>3, <1>4, <1>5, <1>6 DEF Move, Step, RequestOk, RequestFails, Fault, BasicLookup, BasicFetched,
     CodeHash, CodeByHash, AskProof, ProofFetched, SlotLookup, SlotFetched, BlockLookup, Return, Call

-----------------------------------------------------------------------------
(* The threads *)

\* A thread does not notice what the others do but that the cache grows.
LEMMA ThreadFrame ==
  ASSUME CInv, NEW th \in Threads, Alone(th), Grows, NEW u \in Threads \ {th}
  PROVE  ThreadOK(u)'
<1>1. AnswersOK(u)'
  BY DEF CInv, ThreadOK, AnswersOK, RequestOK, Has, Joined, Failed, Alone
<1>2. ReturnOK(u)'
  BY DEF CInv, ThreadOK, ReturnOK, Alone
<1>3. ASSUME pc[u] # "idle" PROVE PlaceOK(u)'
  <2>1. PlaceOK(u) /\ call[u].address \in Addresses
    BY <1>3 DEF CInv, ThreadOK, PlaceOK, Calls
  <2>2. ASSUME NEW a, a = call[u].address
        PROVE  a = call'[u].address /\ (Cached(a) => Cached(a)') /\ (Settled(u) => Settled(u)')
    BY <2>1, <2>2 DEF Alone, Grows, Settled, Cached
  <2> QED
    BY <2>1, <2>2 DEF PlaceOK, Alone, Grows
<1> QED
  BY <1>1, <1>2, <1>3 DEF ThreadOK, Alone

\* After a fetch that has not failed, its answers are there.
LEMMA FetchedAnswers ==
  ASSUME NEW th \in Threads, AnswersOK(th), pc[th] \in Fetches, Joined(th), ~Failed(th)
  PROVE  \A r \in Asks(pc[th]) \cap Requests : Has(th, r)
  BY DEF AnswersOK, RequestOK, Joined, Failed

\* The request and retry state of a thread.
LEMMA AnswersStep ==
  ASSUME CInv, NEW th \in Threads, Move(th)
  PROVE  AnswersOK(th)'
<1>0. LocalsOK /\ AnswersOK(th) /\ (pc[th] # "idle" => PlaceOK(th)) /\ CacheOK
  BY DEF CInv, ThreadOK
<1> USE DEF Fetches, AskPcs, BasicPcs, history
<1>1. \A r \in Requests : RequestOK(th, r)
  BY <1>0 DEF AnswersOK
\* Nothing is asked or answered.
<1>a. ASSUME UNCHANGED <<answer, call, lives, faults>>, pc'[th] \notin Fetches \cup {"idle"}, Joined(th),
             pc'[th] \in AskPcs => ~Failed(th),
             pc'[th] \in {"cacheCode", "cacheAccount"} => Has(th, "nonce") /\ Has(th, "balance") /\ Has(th, "code"),
             pc'[th] \in BasicPcs \cup {"cacheSlot"} /\ call[th].op = "storage" => Has(th, "slot")
      PROVE  AnswersOK(th)'
  <2>1. \A r \in Requests : RequestOK(th, r)'
    BY <1>1, <1>a DEF RequestOK, Has
  <2> QED
    BY <1>a, <2>1 DEF AnswersOK, Joined, Failed, Has
\* Requests are sent.
<1>b. ASSUME NEW rs \in SUBSET Requests, NEW l \in Fetches, Ask(th, rs, l), UNCHANGED <<call, lives, faults>>,
             pc[th] \in AskPcs, Asks(l) = rs,
             l = "fetchBasic" /\ call[th].op = "storage" => "slot" \notin rs /\ Has(th, "slot")
      PROVE  AnswersOK(th)'
  <2>1. Joined(th) /\ ~Failed(th)
    BY <1>0, <1>b DEF AnswersOK
  <2>2. \A r \in Requests : answer'[th][r] = IF r \in rs THEN Pending ELSE answer[th][r]
    BY <1>0, <1>b DEF Ask, LocalsOK
  <2>3. pc'[th] = l
    BY <1>0, <1>b DEF Ask, Goto, LocalsOK
  <2>4. ASSUME NEW r \in Requests PROVE RequestOK(th, r)'
    <3>1. CASE r \in rs
      <4>1. answer[th][r] # Pending /\ answer[th][r] # Error
        BY <2>1 DEF Joined, Failed
      <4>2. lives[th][r] = RetryLimit /\ faults[th][r] = 0
        BY <1>1, <4>1 DEF RequestOK
      <4> QED
        BY <1>b, <2>2, <3>1, <4>2, RetryAssumption, Kinds DEF RequestOK
    <3>2. CASE r \notin rs
      BY <1>1, <1>b, <2>2, <3>2 DEF RequestOK, Has
    <3> QED
      BY <3>1, <3>2
  <2>5. \A r \in Requests : IF r \in Asks(l) THEN answer'[th][r] # Absent ELSE answer'[th][r] \notin {Pending, Error}
    BY <1>b, <2>1, <2>2, Kinds DEF Joined, Failed
  <2>6. l = "fetchBasic" /\ call[th].op = "storage" => Has(th, "slot")'
    BY <1>b, <2>2 DEF Has, Requests
  <2> QED
    BY <1>b, <2>3, <2>4, <2>5, <2>6 DEF AnswersOK
\* One request ends or is repeated.
<1>c. ASSUME NEW r \in Requests, answer[th][r] = Pending, UNCHANGED <<pc, call>>, RequestOK(th, r)',
             answer'[th][r] # Absent,
             \A q \in Requests \ {r} : answer'[th][q] = answer[th][q] /\ lives'[th][q] = lives[th][q]
                                       /\ faults'[th][q] = faults[th][q]
      PROVE  AnswersOK(th)'
  <2>1. pc[th] \in Fetches
    BY <1>0, <1>c DEF AnswersOK, Joined
  <2>2. \A q \in Requests : RequestOK(th, q)'
    BY <1>1, <1>c DEF RequestOK, Has
  <2>3. ASSUME NEW q \in Requests
        PROVE  IF q \in Asks(pc[th]) THEN answer'[th][q] # Absent ELSE answer'[th][q] \notin {Pending, Error}
    <3>1. IF q \in Asks(pc[th]) THEN answer[th][q] # Absent ELSE answer[th][q] \notin {Pending, Error}
      BY <1>0, <2>1 DEF AnswersOK
    <3> QED
      BY <1>c, <3>1
  <2>4. ASSUME pc[th] = "fetchBasic", call[th].op = "storage" PROVE Has(th, "slot")'
    <3>1. Has(th, "slot") /\ "slot" \in Requests
      BY <1>0, <2>4 DEF AnswersOK, Requests
    <3>2. r # "slot"
      BY <1>c, <3>1, Kinds DEF Has
    <3> QED
      BY <1>c, <3>1, <3>2 DEF Has
  <2> QED
    BY <1>c, <2>1, <2>2, <2>3, <2>4 DEF AnswersOK
<1>2. ASSUME NEW r \in Requests, RequestOk(th, r) PROVE AnswersOK(th)'
  <2>1. /\ answer'[th][r] = Found(Provider(call[th], r)) /\ lives'[th][r] = RetryLimit /\ faults'[th][r] = 0
        /\ \A q \in Requests \ {r} : answer'[th][q] = answer[th][q] /\ lives'[th][q] = lives[th][q]
                                     /\ faults'[th][q] = faults[th][q]
    BY <1>0, <1>2 DEF RequestOk, FetchReturns, LocalsOK
  <2>2. RequestOK(th, r)' /\ answer'[th][r] # Absent
    BY <1>2, <2>1, RetryAssumption, Kinds DEF RequestOK, Has, RequestOk
  <2> QED
    BY <1>2, <1>c, <2>1, <2>2 DEF RequestOk
<1>3. ASSUME NEW r \in Requests, RequestFails(th, r) PROVE AnswersOK(th)'
  <2>0. answer[th][r] = Pending /\ UNCHANGED <<pc, call>> /\ faults' = [faults EXCEPT ![th][r] = @ + 1]
    BY <1>3 DEF RequestFails, Fault
  <2>1. lives[th][r] \in Nat /\ faults[th][r] \in Nat /\ lives[th][r] + faults[th][r] = RetryLimit
    BY <1>1, <2>0 DEF RequestOK
  <2>2. /\ faults'[th][r] = faults[th][r] + 1
        /\ \A q \in Requests \ {r} : faults'[th][q] = faults[th][q]
    BY <1>0, <2>0 DEF LocalsOK
  <2>3. CASE lives[th][r] > 0
    <3>1. /\ answer' = answer /\ lives'[th][r] = lives[th][r] - 1
          /\ \A q \in Requests \ {r} : lives'[th][q] = lives[th][q]
      BY <1>0, <1>3, <2>3 DEF RequestFails, LocalsOK
    <3>2. RequestOK(th, r)' /\ answer'[th][r] # Absent
      BY <2>0, <2>1, <2>2, <2>3, <3>1, RetryAssumption, Kinds DEF RequestOK
    <3> QED
      BY <1>c, <2>0, <2>2, <3>1, <3>2
  <2>4. CASE ~(lives[th][r] > 0)
    <3>1. /\ answer'[th][r] = Error /\ lives'[th][r] = RetryLimit
          /\ \A q \in Requests \ {r} : answer'[th][q] = answer[th][q] /\ lives'[th][q] = lives[th][q]
      BY <1>0, <1>3, <2>4 DEF RequestFails, FetchReturns, LocalsOK
    <3>2. RequestOK(th, r)' /\ answer'[th][r] # Absent
      BY <2>0, <2>1, <2>2, <2>4, <3>1, RetryAssumption, Kinds DEF RequestOK
    <3> QED
      BY <1>c, <2>0, <2>2, <3>1, <3>2
  <2> QED
    BY <2>3, <2>4
\* A step that answers, or goes on without asking.
<1>d. ASSUME Goto(th, "return"), UNCHANGED <<answer, call, lives, faults>>, Joined(th) PROVE AnswersOK(th)'
  <2>1. pc'[th] = "return"
    BY <1>0, <1>d DEF Goto, LocalsOK
  <2> QED
    BY <1>a, <1>d, <2>1
<1>e. ASSUME NEW f, BasicReturns(th, f), pc[th] \in BasicPcs, UNCHANGED <<answer, call, lives, faults>>,
             Joined(th), ~Failed(th)
      PROVE  AnswersOK(th)'
  <2>1. pc'[th] \in {"return", "lookup", "hash", "cacheSlot"} /\ (pc'[th] = "lookup" => call[th].op = "basic_ref")
    BY <1>0, <1>e, BasicOutcome
  <2>2. call[th].op = "storage" => Has(th, "slot")
    BY <1>0, <1>e DEF AnswersOK
  <2> QED
    BY <1>a, <1>e, <2>1, <2>2
<1>4. CASE BasicLookup(th)
  <2>0. pc[th] = "lookup" /\ UNCHANGED <<call, lives, faults>> /\ Joined(th) /\ ~Failed(th)
    BY <1>0, <1>4 DEF BasicLookup, AnswersOK
  <2>1. CASE Account(th) # Absent
    BY <1>4, <1>e, <2>0, <2>1 DEF BasicLookup
  <2>2. CASE Account(th) = Absent
    <3>1. Ask(th, {"nonce", "balance", "code"}, "fetchBasic")
      BY <1>4, <2>2 DEF BasicLookup
    <3>2. Asks("fetchBasic") = {"nonce", "balance", "code"} /\ {"nonce", "balance", "code"} \in SUBSET Requests
      BY DEF Asks, Requests
    <3>3. call[th].op = "storage" => Has(th, "slot")
      BY <1>0, <2>0 DEF AnswersOK
    <3> QED
      BY <1>b, <2>0, <3>1, <3>2, <3>3
  <2> QED
    BY <2>1, <2>2
<1>5. CASE BasicFetched(th)
  <2>0. pc[th] = "fetchBasic" /\ UNCHANGED <<answer, call, lives, faults>> /\ Joined(th)
    BY <1>5 DEF BasicFetched
  <2>1. CASE Failed(th)
    BY <1>5, <1>d, <2>0, <2>1 DEF BasicFetched, Answer
  <2>2. CASE ~Failed(th) /\ IsNew(call[th].address, Fetched(th))
    BY <1>5, <1>e, <2>0, <2>2 DEF BasicFetched
  <2>3. CASE ~Failed(th) /\ ~IsNew(call[th].address, Fetched(th))
    <3>1. Goto(th, IF Fetched(th).code = NoCode THEN "cacheAccount" ELSE "cacheCode")
      BY <1>5, <2>3 DEF BasicFetched
    <3>2. pc'[th] \in {"cacheAccount", "cacheCode"}
      BY <1>0, <3>1 DEF Goto, LocalsOK
    <3>3. Has(th, "nonce") /\ Has(th, "balance") /\ Has(th, "code")
      BY <1>0, <2>0, <2>3, FetchedAnswers DEF Asks, Requests
    <3>4. call[th].op = "storage" => Has(th, "slot")
      BY <1>0, <2>0 DEF AnswersOK
    <3> QED
      BY <1>a, <2>0, <2>3, <3>2, <3>3, <3>4
  <2> QED
    BY <2>1, <2>2, <2>3
<1>6. CASE CacheCode(th)
  <2>1. pc[th] = "cacheCode" /\ pc'[th] = "cacheAccount" /\ UNCHANGED <<answer, call, lives, faults>>
    BY <1>0, <1>6 DEF CacheCode, Goto, LocalsOK
  <2>2. /\ Joined(th) /\ ~Failed(th) /\ Has(th, "nonce") /\ Has(th, "balance") /\ Has(th, "code")
        /\ call[th].op = "storage" => Has(th, "slot")
    BY <1>0, <2>1 DEF AnswersOK
  <2> QED
    BY <1>a, <2>1, <2>2
<1>7. CASE CacheAccount(th)
  <2>1. pc[th] = "cacheAccount" /\ UNCHANGED <<answer, call, lives, faults>> /\ BasicReturns(th, AccountBasic(Fetched(th)))
    BY <1>7 DEF CacheAccount
  <2>2. Joined(th) /\ ~Failed(th)
    BY <1>0, <2>1 DEF AnswersOK
  <2> QED
    BY <1>e, <2>1, <2>2
<1>8. CASE CodeHash(th)
  <2>1. pc[th] = "hash" /\ UNCHANGED <<answer, call, lives, faults>> /\ (Goto(th, "return") \/ Goto(th, "lookupCode"))
    BY <1>8 DEF CodeHash, Answer
  <2>2. pc'[th] \in {"return", "lookupCode"}
    BY <1>0, <2>1 DEF Goto, LocalsOK
  <2>3. Joined(th) /\ ~Failed(th)
    BY <1>0, <2>1 DEF AnswersOK
  <2> QED
    BY <1>a, <2>1, <2>2, <2>3
<1>9. CASE CodeByHash(th)
  <2>1. pc[th] = "lookupCode" /\ UNCHANGED <<answer, call, lives, faults>> /\ Goto(th, "return")
    BY <1>9 DEF CodeByHash, Answer
  <2> QED
    BY <1>0, <1>d, <2>1 DEF AnswersOK
<1>10. CASE AskProof(th)
  <2>1. Asks("fetchProof") = {"proof"} /\ {"proof"} \in SUBSET Requests
    BY DEF Asks, Requests
  <2> QED
    BY <1>10, <1>b, <2>1 DEF AskProof
<1>11. CASE ProofFetched(th) BY <1>11, <1>d DEF ProofFetched, Answer
<1>12. CASE SlotLookup(th)
  <2>1. Asks("fetchSlot") = {"slot"} /\ {"slot"} \in SUBSET Requests
    BY DEF Asks, Requests
  <2>2. pc[th] = "lookupSlot" /\ UNCHANGED <<call, lives, faults>>
        /\ ((Goto(th, "return") /\ UNCHANGED answer) \/ Ask(th, {"slot"}, "fetchSlot"))
    BY <1>12 DEF SlotLookup, Answer
  <2>3. Joined(th)
    BY <1>0, <2>2 DEF AnswersOK
  <2> QED
    BY <1>b, <1>d, <2>1, <2>2, <2>3
<1>13. CASE SlotFetched(th)
  <2>1. pc[th] = "fetchSlot" /\ Joined(th) /\ UNCHANGED <<answer, call, lives, faults>>
    BY <1>13 DEF SlotFetched
  <2>2. CASE Failed(th)
    BY <1>13, <1>d, <2>1, <2>2 DEF SlotFetched, Answer
  <2>3. CASE ~Failed(th)
    <3>1. pc'[th] = "lookup"
      BY <1>0, <1>13, <2>3 DEF SlotFetched, Goto, LocalsOK
    <3>2. Has(th, "slot")
      BY <1>0, <2>1, <2>3, FetchedAnswers DEF Asks, Requests
    <3> QED
      BY <1>a, <2>1, <2>3, <3>1, <3>2
  <2> QED
    BY <2>2, <2>3
<1>14. CASE CacheSlot(th)
  <2>1. pc[th] = "cacheSlot" /\ UNCHANGED <<answer, call, lives, faults>> /\ Goto(th, "return")
    BY <1>14 DEF CacheSlot, Answer
  <2> QED
    BY <1>0, <1>d, <2>1 DEF AnswersOK
<1>15. CASE BlockLookup(th)
  <2>1. Asks("fetchBlock") = {"block"} /\ {"block"} \in SUBSET Requests
    BY DEF Asks, Requests
  <2>2. pc[th] = "lookupBlock" /\ UNCHANGED <<call, lives, faults>>
        /\ ((Goto(th, "return") /\ UNCHANGED answer) \/ Ask(th, {"block"}, "fetchBlock"))
    BY <1>15 DEF BlockLookup, Answer
  <2>3. Joined(th)
    BY <1>0, <2>2 DEF AnswersOK
  <2> QED
    BY <1>b, <1>d, <2>1, <2>2, <2>3
<1>16. CASE BlockFetched(th) BY <1>16, <1>d DEF BlockFetched, Answer
<1>17. CASE Return(th)
  <2>1. pc[th] = "return" /\ pc'[th] = "idle" /\ answer'[th] = NoAnswers /\ lives' = lives /\ faults'[th] = NoFaults
    BY <1>0, <1>17 DEF Return, Goto, LocalsOK
  <2>2. Joined(th)
    BY <1>0, <2>1 DEF AnswersOK
  <2>3. \A r \in Requests : RequestOK(th, r)'
    BY <1>1, <2>1, <2>2, Kinds DEF RequestOK, Joined, NoAnswers, NoFaults
  <2> QED
    BY <2>1, <2>3, Kinds DEF AnswersOK, Joined, NoAnswers
<1>18. ASSUME NEW c \in workload, Call(th, c) PROVE AnswersOK(th)'
  <2>1. pc[th] = "idle" /\ pc'[th] \in {"lookup", "lookupSlot", "lookupCode", "askProof", "lookupBlock"}
        /\ UNCHANGED <<answer, lives, faults>> /\ call'[th] = c /\ (pc'[th] = "lookup" => c.op # "storage")
    <3>1. c.op \in Ops
      BY <1>0 DEF LocalsOK, Calls
    <3> QED
      BY <1>0, <1>18, <3>1 DEF Call, Goto, LocalsOK, Ops
  <2>2. \A r \in Requests : answer[th][r] = Absent
    BY <1>0, <2>1 DEF AnswersOK, NoAnswers
  <2>3. \A r \in Requests : RequestOK(th, r)'
    BY <1>1, <2>1, <2>2, Kinds DEF RequestOK
  <2> QED
    BY <2>1, <2>2, <2>3, Kinds DEF AnswersOK, Joined, Failed
<1> QED
  BY <1>2, <1>3, <1>4, <1>5, <1>6, <1>7, <1>8, <1>9, <1>10, <1>11, <1>12, <1>13, <1>14, <1>15, <1>16, <1>17, <1>18 DEF Move, Step

\* What basic finds, as the chain tells it.
Basic(a) == IF IsNew(a, Chain[a]) THEN Absent ELSE AccountBasic(Chain[a])

\* A thread that returns from basic has found what the chain has, and goes on
\* from there or answers.
LEMMA AfterBasic ==
  ASSUME LocalsOK, NEW th \in Threads, PlaceOK(th), pc[th] \in BasicPcs, BasicReturns(th, Basic(call[th].address)),
         call' = call, Grows, Settled(th)'
  PROVE  PlaceOK(th)' /\ ReturnOK(th)'
<1> DEFINE c == call[th]
           a == c.address
           f == Basic(a)
<1>0. c \in Calls /\ a \in Addresses /\ call'[th] = c
  BY DEF PlaceOK, Calls
<1>1. f # Error /\ (f = Absent <=> IsNew(a, Chain[a]))
  BY Kinds DEF Basic, AccountBasic
<1>2. \/ /\ pc'[th] = "return" /\ ret'[th] = f
         /\ c.op = "basic" \/ (c.op = "basic_ref" /\ f = Absent)
      \/ pc'[th] = "lookup" /\ then'[th] = "hash" /\ c.op = "basic_ref" /\ f # Absent
      \/ /\ pc'[th] = "hash" /\ then'[th] = then[th]
         /\ c.op = "code_hash" \/ (c.op = "basic_ref" /\ Cached(a))
      \/ pc'[th] = "cacheSlot" /\ then'[th] = then[th] /\ c.op = "storage" /\ then[th] = "cacheSlot"
  BY BasicOutcome
<1>3. (Cached(a) => Cached(a)') /\ (Cached(a)' \/ IsNew(a, Chain[a]))
  BY <1>0 DEF Grows, Settled, Cached
<1> HIDE DEF f
<1> USE DEF AskPcs, Fetches, BasicPcs
<1>4. CASE pc'[th] = "return" /\ ret'[th] = f /\ (c.op = "basic" \/ (c.op = "basic_ref" /\ f = Absent))
  <2>1. PlaceOK(th)'
    BY <1>0, <1>4 DEF PlaceOK
  <2>2. f = Truth(c)
    BY <1>1, <1>4 DEF f, Basic, Truth
  <2> QED
    BY <1>0, <1>1, <1>4, <2>1, <2>2 DEF ReturnOK
<1>5. CASE pc'[th] = "lookup" /\ then'[th] = "hash" /\ c.op = "basic_ref" /\ f # Absent
  <2>1. Cached(a)'
    BY <1>1, <1>3, <1>5
  <2> QED
    BY <1>0, <1>5, <2>1 DEF PlaceOK, ReturnOK
<1>6. CASE pc'[th] = "hash" /\ (c.op = "code_hash" \/ (c.op = "basic_ref" /\ Cached(a)))
  BY <1>0, <1>3, <1>6 DEF PlaceOK, ReturnOK
<1>7. CASE pc'[th] = "cacheSlot" /\ then'[th] = then[th] /\ c.op = "storage" /\ then[th] = "cacheSlot"
  BY <1>0, <1>3, <1>7 DEF PlaceOK, ReturnOK
<1> QED
  BY <1>2, <1>4, <1>5, <1>6, <1>7

\* The place of a thread, and its answer.
LEMMA PlaceStep ==
  ASSUME CInv, NEW th \in Threads, Move(th), Grows, AnswersOK(th)'
  PROVE  ReturnOK(th)' /\ (pc'[th] # "idle" => PlaceOK(th)')
<1> DEFINE Goal == ReturnOK(th)' /\ (pc'[th] # "idle" => PlaceOK(th)')
           a == call[th].address
<1>0. LocalsOK /\ AnswersOK(th) /\ (pc[th] # "idle" => PlaceOK(th)) /\ CacheOK
  BY DEF CInv, ThreadOK
<1> USE DEF Fetches, AskPcs, BasicPcs, history
<1>1. pc[th] # "idle" => call[th] \in Calls /\ a \in Addresses
  BY <1>0 DEF PlaceOK, Calls
<1>2. pc[th] # "idle" => /\ cache_accounts[a] # Absent => cache_accounts'[a] # Absent
                         /\ cache_bytecodes \subseteq cache_bytecodes'
  BY <1>1 DEF Grows, Cached
\* The answer is right, or a request has failed too often.
<1>a. ASSUME NEW v, Answer(th, v), call' = call, faults' = faults, pc[th] # "idle",
             IF v = Error THEN Failed(th) ELSE v = Truth(call[th])
      PROVE  Goal
  <2>1. pc'[th] = "return" /\ ret'[th] = v
    BY <1>0, <1>a DEF Answer, Goto, LocalsOK
  <2>2. PlaceOK(th)'
    BY <1>1, <1>a, <2>1 DEF PlaceOK
  <2>3. v = Error => \E r \in Requests : faults[th][r] > RetryLimit
    BY <1>0, <1>a DEF Failed, AnswersOK, RequestOK
  <2> QED
    BY <1>a, <2>1, <2>2, <2>3 DEF ReturnOK
<1>3. ASSUME NEW r \in Requests, RequestOk(th, r) \/ RequestFails(th, r) PROVE Goal
  <2>1. answer[th][r] = Pending /\ UNCHANGED <<pc, call, then, ret>>
    BY <1>3 DEF RequestOk, RequestFails, Fault
  <2>2. pc[th] \in Fetches
    BY <1>0, <2>1 DEF AnswersOK, Joined
  <2> QED
    BY <1>0, <1>2, <2>1, <2>2 DEF PlaceOK, ReturnOK, Cached, Settled
<1>4. CASE BasicLookup(th)
  <2>0. pc[th] = "lookup" /\ UNCHANGED <<caches, call>> /\ PlaceOK(th)
    BY <1>0, <1>4 DEF BasicLookup
  <2>1. CASE Account(th) # Absent
    <3>1. Cached(a)
      BY <2>1 DEF Account, Cached
    <3>2. AccountBasic(Account(th).val) = Basic(a)
      BY <1>0, <1>1, <2>0, <3>1, CachedAccount DEF Account, Basic
    <3>3. BasicReturns(th, Basic(a))
      BY <1>4, <2>1, <3>2 DEF BasicLookup
    <3>4. Settled(th)'
      BY <1>2, <2>0, <3>1 DEF Settled, Cached
    <3> QED
      BY <1>0, <2>0, <3>3, <3>4, AfterBasic
  <2>2. CASE Account(th) = Absent
    <3>1. pc'[th] = "fetchBasic" /\ UNCHANGED <<then, ret>>
      BY <1>0, <1>4, <2>2 DEF BasicLookup, Ask, Goto, LocalsOK
    <3> QED
      BY <1>2, <2>0, <3>1 DEF PlaceOK, ReturnOK, Cached, Settled
  <2> QED
    BY <2>1, <2>2
<1>5. CASE BasicFetched(th)
  <2>0. pc[th] = "fetchBasic" /\ Joined(th) /\ UNCHANGED <<caches, call, faults>> /\ PlaceOK(th)
    BY <1>0, <1>5 DEF BasicFetched
  <2>1. CASE Failed(th)
    <3>1. Answer(th, Error)
      BY <1>5, <2>1 DEF BasicFetched
    <3> QED
      BY <1>a, <2>0, <2>1, <3>1
  <2>2. ASSUME ~Failed(th) PROVE /\ IsNew(a, Fetched(th)) <=> IsNew(a, Chain[a])
                                 /\ Fetched(th).code = Chain[a].code
    <3>1. Has(th, "nonce") /\ Has(th, "balance") /\ Has(th, "code")
      BY <1>0, <2>0, <2>2, FetchedAnswers DEF Asks, Requests
    <3> QED
      BY <3>1, FetchedAccount
  <2>3. CASE ~Failed(th) /\ IsNew(a, Fetched(th))
    <3>1. BasicReturns(th, Absent) /\ IsNew(a, Chain[a])
      BY <1>5, <2>2, <2>3 DEF BasicFetched
    <3>2. Basic(a) = Absent
      BY <3>1 DEF Basic
    <3>3. Settled(th)'
      BY <2>0, <3>1 DEF Settled
    <3> QED
      BY <1>0, <2>0, <3>1, <3>2, <3>3, AfterBasic
  <2>4. CASE ~Failed(th) /\ ~IsNew(a, Fetched(th))
    <3>1. Goto(th, IF Fetched(th).code = NoCode THEN "cacheAccount" ELSE "cacheCode") /\ UNCHANGED <<then, ret>>
      BY <1>5, <2>4 DEF BasicFetched
    <3>2. pc'[th] = IF Chain[a].code = NoCode THEN "cacheAccount" ELSE "cacheCode"
      BY <1>0, <2>2, <2>4, <3>1 DEF Goto, LocalsOK
    <3>3. pc'[th] = "cacheAccount" => Hash(Chain[a].code) = Absent
      BY <3>2 DEF Hash
    <3> QED
      BY <1>2, <2>0, <2>2, <2>4, <3>1, <3>2, <3>3 DEF PlaceOK, ReturnOK, Cached, Settled
  <2> QED
    BY <2>1, <2>3, <2>4
<1>6. CASE CacheCode(th)
  <2>1. pc[th] = "cacheCode" /\ pc'[th] = "cacheAccount" /\ UNCHANGED <<call, then, ret>>
        /\ Hash(Fetched(th).code) \in cache_bytecodes'
    BY <1>0, <1>6 DEF CacheCode, Goto, LocalsOK
  <2>2. Fetched(th).code = Chain[a].code
    BY <1>0, <2>1, FetchedAccount DEF AnswersOK
  <2> QED
    BY <1>0, <1>2, <2>1, <2>2 DEF PlaceOK, ReturnOK, Cached, Settled
<1>7. CASE CacheAccount(th)
  <2>0. pc[th] = "cacheAccount" /\ call' = call /\ PlaceOK(th) /\ BasicReturns(th, AccountBasic(Fetched(th)))
    BY <1>0, <1>7 DEF CacheAccount
  <2>1. ~IsNew(a, Chain[a])
    BY <2>0 DEF PlaceOK
  <2>2. AccountBasic(Fetched(th)) = Basic(a)
    BY <1>0, <2>0, <2>1, FetchedAccount DEF AnswersOK, Basic
  <2>3. Cached(a)'
    <3>1. \E v : cache_accounts'[a] = Found(v)
      BY <1>0, <1>1, <1>7, <2>0 DEF CacheAccount, CacheOK
    <3> QED
      BY <2>0, <3>1, Kinds DEF Cached
  <2>4. Settled(th)'
    BY <2>0, <2>3 DEF Settled, Cached
  <2> QED
    BY <1>0, <2>0, <2>2, <2>4, AfterBasic
<1>8. CASE CodeHash(th)
  <2>0. pc[th] = "hash" /\ UNCHANGED <<caches, call, then, faults>> /\ PlaceOK(th)
    BY <1>0, <1>8 DEF CodeHash
  <2>1. Cached(a) => /\ CachedHash(th) = Hash(Chain[a].code)
                     /\ \A code : AccountInfo(th, code) =
                          Found([balance |-> Chain[a].balance, nonce |-> Chain[a].nonce,
                                 code_hash |-> Hash(Chain[a].code), code |-> code])
                     /\ ~IsNew(a, Chain[a])
    BY <1>0, <1>1, <2>0, CachedAccount DEF CachedHash, AccountInfo, Account, Cached
  <2>2. CASE call[th].op = "code_hash"
    <3>1. Answer(th, CachedHash(th)) /\ Settled(th)
      BY <1>8, <2>0, <2>2 DEF CodeHash, PlaceOK
    <3>2. ~Cached(a) => CachedHash(th) = Absent /\ Hash(Chain[a].code) = Absent
      BY <3>1 DEF Settled, CachedHash, Account, Cached, IsNew, Hash
    <3>3. CachedHash(th) = Truth(call[th])
      BY <2>1, <2>2, <3>2 DEF Truth
    <3>4. CachedHash(th) # Error
      BY <2>1, <3>2, Kinds DEF Hash
    <3> QED
      BY <1>a, <2>0, <3>1, <3>3, <3>4
  <2>3. CASE call[th].op = "basic_ref" /\ CachedHash(th) = Absent
    <3>1. Answer(th, AccountInfo(th, Absent)) /\ Cached(a)
      BY <1>8, <2>0, <2>3 DEF CodeHash, PlaceOK
    <3>2. AccountInfo(th, Absent) = Truth(call[th])
      BY <2>1, <2>3, <3>1 DEF Truth
    <3>3. AccountInfo(th, Absent) # Error
      BY Kinds DEF AccountInfo
    <3> QED
      BY <1>a, <2>0, <3>1, <3>2, <3>3
  <2>4. CASE call[th].op = "basic_ref" /\ CachedHash(th) # Absent
    <3>1. pc'[th] = "lookupCode" /\ ret' = ret
      BY <1>0, <1>8, <2>4 DEF CodeHash, Goto, LocalsOK
    <3>2. Cached(a)
      BY <2>0, <2>4 DEF PlaceOK
    <3> QED
      BY <1>1, <1>2, <2>0, <2>1, <2>4, <3>1, <3>2 DEF PlaceOK, ReturnOK, Cached, Settled
  <2> QED
    BY <2>0, <2>2, <2>3, <2>4 DEF PlaceOK
<1>9. CASE CodeByHash(th)
  <2>0. pc[th] = "lookupCode" /\ UNCHANGED <<caches, call, then, faults>> /\ PlaceOK(th)
    BY <1>0, <1>9 DEF CodeByHash
  <2>1. Cached(a) /\ call[th].op \in {"code_by_hash", "basic_ref"} /\ Hash(Chain[a].code) # Absent
    BY <2>0 DEF PlaceOK
  <2>2. /\ CachedHash(th) = Hash(Chain[a].code) /\ Hash(Chain[a].code) \in cache_bytecodes
        /\ \A code : AccountInfo(th, code) =
             Found([balance |-> Chain[a].balance, nonce |-> Chain[a].nonce,
                    code_hash |-> Hash(Chain[a].code), code |-> code])
        /\ ~IsNew(a, Chain[a])
    BY <1>0, <1>1, <2>0, <2>1, CachedAccount DEF CachedHash, AccountInfo, Account, Cached
  <2>3. Answer(th, IF call[th].op = "basic_ref" THEN AccountInfo(th, CachedHash(th)) ELSE CachedHash(th))
    BY <1>9, <2>2 DEF CodeByHash
  <2>4. CASE call[th].op = "basic_ref"
    <3>1. AccountInfo(th, CachedHash(th)) = Truth(call[th]) /\ AccountInfo(th, CachedHash(th)) # Error
      BY <2>2, <2>4, Kinds DEF Truth
    <3> QED
      BY <1>a, <2>0, <2>3, <2>4, <3>1
  <2>5. CASE call[th].op = "code_by_hash"
    <3>1. CachedHash(th) = Truth(call[th]) /\ CachedHash(th) # Error
      BY <2>2, <2>5, Kinds DEF Truth, Hash
    <3> QED
      BY <1>a, <2>0, <2>3, <2>5, <3>1
  <2> QED
    BY <2>1, <2>4, <2>5
\* An answer that fetch has returned.
<1>b. ASSUME NEW r \in Requests, Joined(th), answer[th][r] # Absent
      PROVE  IF answer[th][r] = Error THEN Failed(th) ELSE Has(th, r)
  BY <1>0, <1>b DEF AnswersOK, RequestOK, Joined, Failed
<1>10. CASE AskProof(th)
  <2>1. pc[th] = "askProof" /\ pc'[th] = "fetchProof" /\ UNCHANGED <<call, then, ret>>
    BY <1>0, <1>10 DEF AskProof, Ask, Goto, LocalsOK
  <2> QED
    BY <1>0, <1>2, <2>1 DEF PlaceOK, ReturnOK
<1>11. CASE ProofFetched(th)
  <2>1. pc[th] = "fetchProof" /\ UNCHANGED <<call, faults>> /\ Joined(th) /\ Answer(th, answer[th]["proof"])
    BY <1>11 DEF ProofFetched
  <2>2. "proof" \in Requests /\ answer[th]["proof"] # Absent
    BY <1>0, <2>1 DEF AnswersOK, Asks, Requests
  <2>3. call[th].op = "has_storage"
    BY <1>0, <2>1 DEF PlaceOK
  <2>4. Has(th, "proof") => answer[th]["proof"] = Truth(call[th])
    BY <2>3 DEF Has, Truth
  <2> QED
    BY <1>a, <1>b, <2>1, <2>2, <2>4
<1>12. CASE SlotLookup(th)
  <2>0. pc[th] = "lookupSlot" /\ UNCHANGED <<caches, call, then, faults>> /\ PlaceOK(th) /\ call[th].op = "storage"
    BY <1>0, <1>12 DEF SlotLookup, PlaceOK
  <2>1. CASE Account(th) # Absent /\ Account(th).val.storage[call[th].slot] # Absent
    <3>1. Cached(a) /\ call[th].slot \in Slots
      BY <1>1, <2>0, <2>1 DEF Account, Cached, Calls
    <3>2. Account(th).val.storage[call[th].slot] = Found(Chain[a].storage[call[th].slot])
      BY <1>0, <1>1, <2>0, <2>1, <3>1, CachedAccount DEF Account, SomeSlots
    <3>3. Found(Chain[a].storage[call[th].slot]) = Truth(call[th])
      BY <2>0 DEF Truth
    <3>4. Answer(th, Truth(call[th])) /\ Truth(call[th]) # Error
      BY <1>12, <2>1, <3>2, <3>3, Kinds DEF SlotLookup
    <3> QED
      BY <1>a, <2>0, <3>4
  <2>2. CASE ~(Account(th) # Absent /\ Account(th).val.storage[call[th].slot] # Absent)
    <3>1. pc'[th] = "fetchSlot" /\ ret' = ret
      BY <1>0, <1>12, <2>2 DEF SlotLookup, Ask, Goto, LocalsOK
    <3> QED
      BY <1>1, <2>0, <3>1 DEF PlaceOK, ReturnOK
  <2> QED
    BY <2>1, <2>2
<1>13. CASE SlotFetched(th)
  <2>0. pc[th] = "fetchSlot" /\ UNCHANGED <<call, then, faults>> /\ PlaceOK(th)
    BY <1>0, <1>13 DEF SlotFetched
  <2>1. CASE Failed(th)
    <3>1. Answer(th, Error)
      BY <1>13, <2>1 DEF SlotFetched
    <3> QED
      BY <1>a, <2>0, <2>1, <3>1
  <2>2. CASE ~Failed(th)
    <3>1. pc'[th] = "lookup" /\ ret' = ret
      BY <1>0, <1>13, <2>2 DEF SlotFetched, Goto, LocalsOK
    <3> QED
      BY <2>0, <3>1 DEF PlaceOK, ReturnOK
  <2> QED
    BY <2>1, <2>2
<1>14. CASE CacheSlot(th)
  <2>1. pc[th] = "cacheSlot" /\ UNCHANGED <<call, faults>> /\ Answer(th, answer[th]["slot"])
    BY <1>14 DEF CacheSlot
  <2>2. call[th].op = "storage" /\ Has(th, "slot")
    BY <1>0, <2>1 DEF PlaceOK, AnswersOK
  <2>3. answer[th]["slot"] = Truth(call[th])
    BY <2>2 DEF Has, Provider, Truth
  <2>4. answer[th]["slot"] # Error
    BY <2>2, Kinds DEF Has
  <2> QED
    BY <1>a, <2>1, <2>3, <2>4
<1>15. CASE BlockLookup(th)
  <2>0. pc[th] = "lookupBlock" /\ UNCHANGED <<caches, call, then, faults>> /\ PlaceOK(th) /\ call[th].op = "block_hash"
    BY <1>0, <1>15 DEF BlockLookup, PlaceOK
  <2>1. CASE cache_block_hashes[call[th].number] # Absent
    <3>1. call[th].number \in Numbers
      BY <1>1, <2>0 DEF Calls
    <3>2. cache_block_hashes[call[th].number] = Found(BlockHash[call[th].number])
      BY <1>0, <2>1, <3>1 DEF CacheOK
    <3>3. Answer(th, Truth(call[th])) /\ Truth(call[th]) # Error
      BY <1>15, <2>0, <2>1, <3>2, Kinds DEF BlockLookup, Truth
    <3> QED
      BY <1>a, <2>0, <3>3
  <2>2. CASE cache_block_hashes[call[th].number] = Absent
    <3>1. pc'[th] = "fetchBlock" /\ ret' = ret
      BY <1>0, <1>15, <2>2 DEF BlockLookup, Ask, Goto, LocalsOK
    <3> QED
      BY <1>1, <2>0, <3>1 DEF PlaceOK, ReturnOK
  <2> QED
    BY <2>1, <2>2
<1>16. CASE BlockFetched(th)
  <2>1. pc[th] = "fetchBlock" /\ UNCHANGED <<call, faults>> /\ Joined(th) /\ Answer(th, answer[th]["block"])
    BY <1>16 DEF BlockFetched
  <2>2. "block" \in Requests /\ answer[th]["block"] # Absent
    BY <1>0, <2>1 DEF AnswersOK, Asks, Requests
  <2>3. call[th].op = "block_hash"
    BY <1>0, <2>1 DEF PlaceOK
  <2>4. Has(th, "block") => answer[th]["block"] = Truth(call[th])
    BY <2>3 DEF Has, Truth, Provider
  <2> QED
    BY <1>a, <1>b, <2>1, <2>2, <2>4
<1>17. CASE Return(th)
  <2>1. pc'[th] = "idle"
    BY <1>0, <1>17 DEF Return, Goto, LocalsOK
  <2> QED
    BY <2>1 DEF ReturnOK
<1>18. ASSUME NEW c \in workload, Call(th, c) PROVE Goal
  <2>1. c \in Calls /\ c.op \in Ops /\ c.address \in Addresses
    BY <1>0 DEF LocalsOK, Calls
  <2>2. /\ call'[th] = c /\ UNCHANGED caches
        /\ c.op = "code_by_hash" => Cached(c.address) /\ cache_accounts[c.address].val.code_hash # Absent
        /\ pc'[th] = CASE c.op \in {"basic", "code_hash", "basic_ref"} -> "lookup"
                       [] c.op = "storage"      -> "lookupSlot"
                       [] c.op = "code_by_hash" -> "lookupCode"
                       [] c.op = "has_storage"  -> "askProof"
                       [] c.op = "block_hash"   -> "lookupBlock"
        /\ then'[th] = CASE c.op = "code_hash" -> "hash"
                         [] c.op = "storage"   -> "cacheSlot"
                         [] c.op = "basic_ref" -> "again"
                         [] OTHER              -> "answer"
    BY <1>0, <1>18 DEF Call, Goto, LocalsOK
  <2>3. c.op = "code_by_hash" => Cached(c.address)' /\ Hash(Chain[c.address].code) # Absent
    BY <1>0, <2>1, <2>2, CachedAccount DEF Cached, caches
  <2>4. \/ c.op = "basic" /\ pc'[th] = "lookup" /\ then'[th] = "answer"
        \/ c.op = "code_hash" /\ pc'[th] = "lookup" /\ then'[th] = "hash"
        \/ c.op = "basic_ref" /\ pc'[th] = "lookup" /\ then'[th] = "again"
        \/ c.op = "storage" /\ pc'[th] = "lookupSlot" /\ then'[th] = "cacheSlot"
        \/ c.op = "code_by_hash" /\ pc'[th] = "lookupCode"
        \/ c.op = "has_storage" /\ pc'[th] = "askProof"
        \/ c.op = "block_hash" /\ pc'[th] = "lookupBlock"
    BY <2>1, <2>2 DEF Ops
  <2> QED
    BY <2>1, <2>2, <2>3, <2>4 DEF PlaceOK, ReturnOK
<1> QED
  BY <1>3, <1>4, <1>5, <1>6, <1>7, <1>8, <1>9, <1>10, <1>11, <1>12, <1>13, <1>14, <1>15, <1>16, <1>17, <1>18 DEF Move, Step

-----------------------------------------------------------------------------
(* Sequential use *)

\* What was kept stays, unless an account that is cached is fetched again.
LEMMA KeptStays ==
  ASSUME CInv, NEW th \in Threads, Move(th), Grows,
         pc[th] = "cacheAccount" => ~Cached(call[th].address),
         NEW c \in Calls, Kept(c)
  PROVE  Kept(c)'
<1>0. CacheOK /\ LocalsOK /\ AnswersOK(th) /\ (pc[th] # "idle" => PlaceOK(th))
  BY DEF CInv, ThreadOK
<1>1. c.address \in Addresses /\ c.slot \in Slots /\ c.number \in Numbers
  BY DEF Calls
<1>2. Cached(c.address) => Cached(c.address)'
  BY <1>1 DEF Grows
<1>3. ASSUME NEW a, a = c.address, Cached(a), c.op = "storage", cache_accounts[a].val.storage[c.slot] # Absent
      PROVE  cache_accounts'[a].val.storage[c.slot] # Absent
  <2>1. CASE cache_accounts' = cache_accounts
    BY <1>3, <2>1
  <2>2. CASE CacheAccount(th)
    <3>1. call[th].address # a
      BY <1>3, <2>2 DEF CacheAccount
    <3>2. cache_accounts'[a] = cache_accounts[a]
      BY <1>0, <1>1, <1>3, <2>2, <3>1 DEF CacheAccount, CacheOK
    <3> QED
      BY <1>3, <3>2
  <2>3. CASE CacheSlot(th) /\ Account(th) # Absent
    <3> DEFINE b == call[th].address
               z == [cache_accounts[b].val.storage EXCEPT ![call[th].slot] = answer[th]["slot"]]
    <3>1. /\ cache_accounts'[b] = Entry(b, z) /\ Entry(b, z).val.storage = z /\ z[call[th].slot] # Absent
          /\ \A d \in Addresses \ {b} : cache_accounts'[d] = cache_accounts[d]
      BY <1>0, <2>3, CacheSlotEffect DEF CacheSlot
    <3>2. CASE b # a
      BY <1>1, <1>3, <3>1, <3>2
    <3>3. CASE b = a
      <4>1. SomeSlots(a, cache_accounts[a].val.storage)
        BY <1>0, <1>1, <1>3, CachedAccount
      <4>2. c.slot # call[th].slot => z[c.slot] = cache_accounts[a].val.storage[c.slot]
        BY <1>1, <3>3, <4>1 DEF SomeSlots
      <4> HIDE DEF z
      <4>3. cache_accounts'[a].val.storage = z
        BY <3>1, <3>3
      <4> QED
        BY <1>3, <3>1, <4>2, <4>3
    <3> QED
      BY <3>2, <3>3
  <2>4. CASE CacheSlot(th) /\ Account(th) = Absent
    BY <2>1, <2>4 DEF CacheSlot
  <2> QED
    BY <2>1, <2>2, <2>3, <2>4 DEF Move, Step, RequestOk, RequestFails, Fault, BasicLookup, BasicFetched, CacheCode,
       CodeHash, CodeByHash, AskProof, ProofFetched, SlotLookup, SlotFetched, BlockLookup, BlockFetched, Return, Call, caches
<1>4. ASSUME cache_block_hashes[c.number] # Absent PROVE cache_block_hashes'[c.number] # Absent
  <2>1. CASE cache_block_hashes' = cache_block_hashes
    BY <1>4, <2>1
  <2>2. CASE BlockFetched(th) /\ cache_block_hashes' # cache_block_hashes
    <3>1. ~Failed(th) /\ cache_block_hashes' = [cache_block_hashes EXCEPT ![call[th].number] = answer[th]["block"]]
      BY <2>2 DEF BlockFetched
    <3>2. answer[th]["block"] # Absent
      BY <1>0, <2>2 DEF BlockFetched, AnswersOK, Fetches, Asks, Requests
    <3> QED
      BY <1>0, <1>1, <1>4, <3>1, <3>2 DEF CacheOK
  <2> QED
    BY <2>1, <2>2 DEF Move, Step, RequestOk, RequestFails, Fault, BasicLookup, BasicFetched, CacheCode, CacheAccount,
       CodeHash, CodeByHash, AskProof, ProofFetched, SlotLookup, SlotFetched, CacheSlot, BlockLookup, Return, Call, caches
<1> QED
  BY <1>2, <1>3, <1>4 DEF Kept, Grows

\* Where a fetch of an account leads, and what an answer leaves in the cache.
LEMMA OwnSequential ==
  ASSUME CInv, CInv', NEW th \in Threads, Step(th), Grows, pc[th] # "idle",
         pc[th] \in BasicPcs \ {"lookup"} => ~Cached(call[th].address)
  PROVE  /\ pc'[th] \in BasicPcs \ {"lookup"} => ~Cached(call[th].address)'
         /\ pc'[th] = "return" /\ ret'[th] # Error => Kept(call[th])' /\ call'[th] = call[th]
<1> DEFINE a == call[th].address
           Goal == /\ pc'[th] \in BasicPcs \ {"lookup"} => ~Cached(call[th].address)'
                   /\ pc'[th] = "return" /\ ret'[th] # Error => Kept(call[th])' /\ call'[th] = call[th]
<1>0. CacheOK /\ LocalsOK /\ AnswersOK(th) /\ PlaceOK(th) /\ CacheOK'
  BY DEF CInv, ThreadOK
<1>1. call[th] \in Calls /\ a \in Addresses
  BY <1>0 DEF PlaceOK, Calls
<1> USE DEF BasicPcs, history
\* A thread goes on, answers, or fetches an account that is not cached.
<1>a. ASSUME pc'[th] \notin (BasicPcs \ {"lookup"}) \cup {"return"} PROVE Goal
  BY <1>a
<1>b. ASSUME call' = call, pc'[th] = "return", ret'[th] # Error => Kept(call[th])' PROVE Goal
  BY <1>b
<1>c. ASSUME cache_accounts' = cache_accounts, call' = call, ~Cached(a), pc'[th] # "return" PROVE Goal
  BY <1>c DEF Cached
<1>d. ASSUME NEW f, BasicReturns(th, f), pc[th] \in BasicPcs, call' = call,
             cache_accounts'[a] # Absent \/ IsNew(a, Chain[a])
      PROVE  Goal
  <2>1. \/ pc'[th] = "return" /\ call[th].op \in {"basic", "basic_ref"}
        \/ pc'[th] \in {"lookup", "hash", "cacheSlot"}
    BY <1>0, <1>d, BasicOutcome
  <2>2. call[th].op \in {"basic", "basic_ref"} => Kept(call[th])'
    BY <1>d DEF Kept, Cached
  <2> QED
    BY <1>a, <1>b, <1>d, <2>1, <2>2
<1>2. ASSUME NEW r \in Requests, RequestOk(th, r) \/ RequestFails(th, r) PROVE Goal
  <2>1. UNCHANGED <<caches, pc, call>> /\ answer[th][r] = Pending
    BY <1>2 DEF RequestOk, RequestFails, Fault
  <2>2. pc[th] \in Fetches
    BY <1>0, <2>1 DEF AnswersOK, Joined
  <2> QED
    BY <2>1, <2>2 DEF Fetches, Cached, caches
<1>3. CASE BasicLookup(th)
  <2>1. pc[th] = "lookup" /\ UNCHANGED <<caches, call>>
    BY <1>3 DEF BasicLookup
  <2>2. CASE Account(th) # Absent
    BY <1>3, <1>d, <2>1, <2>2 DEF BasicLookup, Account, caches
  <2>3. CASE Account(th) = Absent
    <3>1. pc'[th] = "fetchBasic" /\ ~Cached(a)
      BY <1>0, <1>3, <2>3 DEF BasicLookup, Ask, Goto, LocalsOK, Account, Cached
    <3> QED
      BY <1>c, <2>1, <3>1 DEF caches
  <2> QED
    BY <2>2, <2>3
<1>4. CASE BasicFetched(th)
  <2>0. pc[th] = "fetchBasic" /\ Joined(th) /\ UNCHANGED <<caches, call>> /\ ~Cached(a)
    BY <1>4 DEF BasicFetched
  <2>1. CASE Failed(th)
    BY <1>0, <1>4, <1>b, <2>0, <2>1 DEF BasicFetched, Answer, Goto, LocalsOK
  <2>2. CASE ~Failed(th) /\ IsNew(a, Fetched(th))
    <3>1. IsNew(a, Chain[a])
      BY <1>0, <2>0, <2>2, FetchedAnswers, FetchedAccount DEF Asks, Requests, Fetches
    <3> QED
      BY <1>4, <1>d, <2>0, <2>2, <3>1 DEF BasicFetched
  <2>3. CASE ~Failed(th) /\ ~IsNew(a, Fetched(th))
    <3>1. Goto(th, IF Fetched(th).code = NoCode THEN "cacheAccount" ELSE "cacheCode")
      BY <1>4, <2>3 DEF BasicFetched
    <3>2. pc'[th] # "return"
      BY <1>0, <3>1 DEF Goto, LocalsOK
    <3> QED
      BY <1>c, <2>0, <3>2 DEF caches
  <2> QED
    BY <2>1, <2>2, <2>3
<1>5. CASE CacheCode(th)
  BY <1>0, <1>5, <1>c DEF CacheCode, Goto, LocalsOK
<1>6. CASE CacheAccount(th)
  <2>1. \E v : cache_accounts'[a] = Found(v)
    BY <1>0, <1>1, <1>6 DEF CacheAccount, CacheOK
  <2>2. cache_accounts'[a] # Absent
    BY <2>1, Kinds
  <2> QED
    BY <1>6, <1>d, <2>2 DEF CacheAccount
<1>7. CASE CodeHash(th)
  <2>1. pc[th] = "hash" /\ UNCHANGED <<caches, call>> /\ pc'[th] \in {"return", "lookupCode"}
    BY <1>0, <1>7 DEF CodeHash, Answer, Goto, LocalsOK
  <2>2. Kept(call[th])'
    BY <1>0, <2>1 DEF PlaceOK, Kept, Settled, Cached, caches
  <2> QED
    BY <1>a, <1>b, <2>1, <2>2
<1>8. CASE CodeByHash(th)
  <2>1. pc[th] = "lookupCode" /\ UNCHANGED <<caches, call>> /\ pc'[th] = "return"
    BY <1>0, <1>8 DEF CodeByHash, Answer, Goto, LocalsOK
  <2>2. call[th].op \in {"code_by_hash", "basic_ref"} /\ Cached(a) /\ Hash(Chain[a].code) \in cache_bytecodes
    BY <1>0, <1>1, <2>1, CachedAccount DEF PlaceOK
  <2>3. Kept(call[th])'
    BY <2>1, <2>2 DEF Kept, Cached, caches
  <2> QED
    BY <1>b, <2>1, <2>3
<1>9. CASE AskProof(th)
  BY <1>0, <1>9, <1>a DEF AskProof, Ask, Goto, LocalsOK
<1>10. CASE ProofFetched(th)
  <2>1. pc'[th] = "return" /\ call' = call /\ call[th].op = "has_storage"
    BY <1>0, <1>10 DEF ProofFetched, Answer, Goto, LocalsOK, PlaceOK
  <2> QED
    BY <1>b, <2>1 DEF Kept
<1>11. CASE SlotLookup(th)
  <2>1. UNCHANGED <<caches, call>> /\ call[th].op = "storage"
    BY <1>0, <1>11 DEF SlotLookup, PlaceOK
  <2>2. CASE Account(th) # Absent /\ Account(th).val.storage[call[th].slot] # Absent
    <3>1. pc'[th] = "return"
      BY <1>0, <1>11, <2>2 DEF SlotLookup, Answer, Goto, LocalsOK
    <3>2. Kept(call[th])'
      BY <2>1, <2>2 DEF Kept, Cached, Account, caches
    <3> QED
      BY <1>b, <2>1, <3>1, <3>2
  <2>3. CASE ~(Account(th) # Absent /\ Account(th).val.storage[call[th].slot] # Absent)
    BY <1>0, <1>11, <1>a, <2>3 DEF SlotLookup, Ask, Goto, LocalsOK
  <2> QED
    BY <2>2, <2>3
<1>12. CASE SlotFetched(th)
  <2>1. CASE Failed(th)
    BY <1>0, <1>12, <1>b, <2>1 DEF SlotFetched, Answer, Goto, LocalsOK
  <2>2. CASE ~Failed(th)
    BY <1>0, <1>12, <1>a, <2>2 DEF SlotFetched, Goto, LocalsOK
  <2> QED
    BY <2>1, <2>2
<1>13. CASE CacheSlot(th)
  <2>1. pc[th] = "cacheSlot" /\ call' = call /\ pc'[th] = "return" /\ call[th].op = "storage" /\ Settled(th)
    BY <1>0, <1>13 DEF CacheSlot, Answer, Goto, LocalsOK, PlaceOK
  <2>2. CASE Account(th) = Absent
    <3>1. IsNew(a, Chain[a])
      BY <2>1, <2>2 DEF Settled, Cached, Account
    <3> QED
      BY <1>b, <2>1, <3>1 DEF Kept
  <2>3. CASE Account(th) # Absent
    <3> DEFINE z == [cache_accounts[a].val.storage EXCEPT ![call[th].slot] = answer[th]["slot"]]
    <3>1. cache_accounts'[a] = Entry(a, z) /\ Entry(a, z).val.storage = z /\ z[call[th].slot] # Absent
      BY <1>0, <1>13, <2>3, CacheSlotEffect
    <3> HIDE DEF z
    <3>2. Entry(a, z) # Absent
      BY Kinds DEF Entry
    <3>3. Kept(call[th])'
      BY <2>1, <3>1, <3>2 DEF Kept, Cached
    <3> QED
      BY <1>b, <2>1, <3>3
  <2> QED
    BY <2>2, <2>3
<1>14. CASE BlockLookup(th)
  <2>1. UNCHANGED <<caches, call>> /\ call[th].op = "block_hash"
    BY <1>0, <1>14 DEF BlockLookup, PlaceOK
  <2>2. CASE cache_block_hashes[call[th].number] # Absent
    <3>1. pc'[th] = "return"
      BY <1>0, <1>14, <2>2 DEF BlockLookup, Answer, Goto, LocalsOK
    <3>2. Kept(call[th])'
      BY <2>1, <2>2 DEF Kept, caches
    <3> QED
      BY <1>b, <2>1, <3>1, <3>2
  <2>3. CASE cache_block_hashes[call[th].number] = Absent
    BY <1>0, <1>14, <1>a, <2>3 DEF BlockLookup, Ask, Goto, LocalsOK
  <2> QED
    BY <2>2, <2>3
<1>15. CASE BlockFetched(th)
  <2>1. /\ pc[th] = "fetchBlock" /\ Joined(th) /\ call' = call /\ pc'[th] = "return" /\ ret'[th] = answer[th]["block"]
        /\ call[th].op = "block_hash" /\ call[th].number \in Numbers
    BY <1>0, <1>1, <1>15 DEF BlockFetched, Answer, Goto, LocalsOK, PlaceOK, Calls
  <2>2. /\ "block" \in Requests /\ answer[th]["block"] # Absent
        /\ \A r \in Requests \ {"block"} : answer[th][r] # Error
    BY <1>0, <2>1 DEF AnswersOK, Fetches, Asks, Requests
  <2>3. ASSUME ret'[th] # Error PROVE Kept(call[th])'
    <3>1. ~Failed(th)
      BY <2>1, <2>2, <2>3 DEF Failed
    <3>2. cache_block_hashes'[call[th].number] = answer[th]["block"]
      BY <1>0, <1>15, <2>1, <3>1 DEF BlockFetched, CacheOK
    <3> QED
      BY <2>1, <2>2, <3>2 DEF Kept
  <2> QED
    BY <1>b, <2>1, <2>3
<1>16. CASE Return(th)
  BY <1>0, <1>16, <1>a DEF Return, Goto, LocalsOK
<1> QED
  BY <1>2, <1>3, <1>4, <1>5, <1>6, <1>7, <1>8, <1>9, <1>10, <1>11, <1>12, <1>13, <1>14, <1>15, <1>16 DEF Step

\* A step by which calls do not overlap keeps what was asked replayable.
LEMMA SeqStep ==
  ASSUME CInv, CInv', SeqOK, NEW th \in Threads, Move(th), Alone(th), Grows
  PROVE  SeqOK'
<1> SUFFICES ASSUME ~overlapped'
             PROVE  /\ \A t, u \in Threads : pc'[t] # "idle" /\ pc'[u] # "idle" => t = u
                    /\ \A t \in Threads : pc'[t] \in BasicPcs \ {"lookup"} => ~Cached(call[t].address)'
                    /\ \A t \in Threads : pc'[t] = "return" /\ ret'[t] # Error => Kept(call[t])'
                    /\ asked' \subseteq Calls /\ \A c \in asked' : Kept(c)'
  BY DEF SeqOK
<1>0. LocalsOK /\ (pc[th] # "idle" => PlaceOK(th)) /\ AnswersOK(th)
  BY DEF CInv, ThreadOK
<1> USE DEF BasicPcs, history
<1>1. CASE Step(th)
  <2>1. pc[th] # "idle"
    <3>1. pc[th] = "idle" => \A r \in Requests : answer[th][r] # Pending
      BY <1>0, Kinds DEF AnswersOK, NoAnswers
    <3> QED
      BY <1>1, <3>1 DEF Step, RequestOk, RequestFails, Fault, BasicLookup, BasicFetched, CacheCode, CacheAccount,
         CodeHash, CodeByHash, AskProof, ProofFetched, SlotLookup, SlotFetched, CacheSlot, BlockLookup, BlockFetched, Return
  <2>2. overlapped' = overlapped /\ (asked' = asked \/ Return(th))
    BY <1>1 DEF Step, RequestOk, RequestFails, Fault, BasicLookup, BasicFetched, CacheCode, CacheAccount,
       CodeHash, CodeByHash, AskProof, ProofFetched, SlotLookup, SlotFetched, CacheSlot, BlockLookup, BlockFetched, Return
  <2>3. /\ \A u \in Threads \ {th} : pc[u] = "idle" /\ pc'[u] = "idle"
        /\ pc[th] \in BasicPcs \ {"lookup"} => ~Cached(call[th].address)
        /\ pc[th] = "return" /\ ret[th] # Error => Kept(call[th])
        /\ asked \subseteq Calls /\ \A c \in asked : Kept(c)
    BY <2>1, <2>2 DEF SeqOK, Alone
  <2>4. /\ pc'[th] \in BasicPcs \ {"lookup"} => ~Cached(call[th].address)'
        /\ pc'[th] = "return" /\ ret'[th] # Error => Kept(call[th])'
    <3>1. ASSUME pc'[th] = "return", ret'[th] # Error PROVE Kept(call[th])'
      <4>1. ASSUME NEW c, c = call[th] PROVE Kept(c)' /\ call'[th] = c
        BY <1>1, <2>1, <2>3, <3>1, <4>1, OwnSequential
      <4> QED
        BY <4>1 DEF Kept, Cached
    <3> QED
      BY <1>1, <2>1, <2>3, <3>1, OwnSequential
  <2>5. \A c \in Calls : Kept(c) => Kept(c)'
    BY <1>1, <2>3, KeptStays DEF Move
  <2>6. asked' \subseteq Calls /\ \A c \in asked' : Kept(c)'
    <3>1. CASE asked' = asked
      BY <2>3, <2>5, <3>1
    <3>2. CASE Return(th) /\ asked' # asked
      <4>1. asked' = asked \cup {call[th]} /\ ret[th] # Error /\ pc[th] = "return"
        BY <3>2 DEF Return
      <4>2. call[th] \in Calls
        BY <1>0, <2>1 DEF PlaceOK
      <4> QED
        BY <2>3, <2>5, <4>1, <4>2
    <3> QED
      BY <2>2, <3>1, <3>2
  <2> QED
    BY <2>3, <2>4, <2>6
<1>2. ASSUME NEW d \in workload, Call(th, d)
      PROVE  /\ \A t, u \in Threads : pc'[t] # "idle" /\ pc'[u] # "idle" => t = u
             /\ \A t \in Threads : pc'[t] \in BasicPcs \ {"lookup"} => ~Cached(call[t].address)'
             /\ \A t \in Threads : pc'[t] = "return" /\ ret'[t] # Error => Kept(call[t])'
             /\ asked' \subseteq Calls /\ \A c \in asked' : Kept(c)'
  <2>1. ~overlapped /\ (\A u \in Threads : pc[u] = "idle") /\ asked' = asked /\ UNCHANGED caches
    BY <1>2 DEF Call
  <2>2. \A u \in Threads \ {th} : pc'[u] = "idle"
    BY <2>1 DEF Alone
  <2>3. pc'[th] \notin (BasicPcs \ {"lookup"}) \cup {"return"}
    <3>1. d.op \in Ops
      BY <1>0 DEF LocalsOK, Calls
    <3> QED
      BY <1>0, <1>2, <3>1 DEF Call, Goto, LocalsOK, Ops
  <2>4. asked \subseteq Calls /\ \A c \in asked : Kept(c)
    BY <2>1 DEF SeqOK
  <2>5. \A c \in asked : Kept(c)'
    BY <2>1, <2>4 DEF Kept, Cached, caches
  <2> QED
    BY <2>1, <2>2, <2>3, <2>4, <2>5
<1> QED
  BY <1>1, <1>2 DEF Move

-----------------------------------------------------------------------------
(* The invariant and what follows from it *)

\* Every behaviour of RpcStorage, whatever its threads ask and however often
\* their requests fail, keeps the invariant.
THEOREM RpcInvariance == Spec => []RpcInv
<1>1. Init => RpcInv
  <2> SUFFICES ASSUME Init PROVE RpcInv
    OBVIOUS
  <2>1. LocalsOK
    BY WorkloadsAssumption DEF Init, LocalsOK, NoAnswers, NoFaults, FullLives, Calls
  <2>2. CacheOK
    BY DEF Init, CacheOK, AccountOK
  <2>3. ASSUME NEW th \in Threads PROVE ThreadOK(th)
    <3>1. pc[th] = "idle" /\ answer[th] = NoAnswers /\ \A r \in Requests : answer[th][r] = Absent
      BY DEF Init, NoAnswers
    <3>2. \A r \in Requests : RequestOK(th, r)
      BY <3>1, RetryAssumption, Kinds DEF Init, RequestOK, FullLives, NoFaults
    <3>3. AnswersOK(th)
      BY <3>1, <3>2, Kinds DEF AnswersOK, Joined, Fetches, AskPcs, BasicPcs
    <3> QED
      BY <3>1, <3>3 DEF ThreadOK, ReturnOK
  <2>4. SeqOK
    BY DEF Init, SeqOK, BasicPcs
  <2> QED
    BY <2>1, <2>2, <2>3, <2>4 DEF RpcInv, CInv
<1>2. RpcInv /\ [Next]_rpcVars => RpcInv'
  <2> SUFFICES ASSUME RpcInv, [Next]_rpcVars PROVE RpcInv'
    OBVIOUS
  <2>1. CInv /\ SeqOK
    BY DEF RpcInv
  <2>2. ASSUME NEW th \in Threads, Move(th) PROVE RpcInv'
    <3>1. LocalsOK' /\ Alone(th) /\ CacheOK' /\ Grows /\ AnswersOK(th)'
      BY <2>1, <2>2, StepShape, CacheStep, AnswersStep
    <3>2. ThreadOK(th)'
      BY <2>1, <2>2, <3>1, PlaceStep DEF ThreadOK
    <3>3. \A u \in Threads \ {th} : ThreadOK(u)'
      BY <2>1, <2>2, <3>1, ThreadFrame
    <3>4. CInv'
      BY <3>1, <3>2, <3>3 DEF CInv
    <3> QED
      BY <2>1, <2>2, <3>1, <3>4, SeqStep DEF RpcInv
  <2>3. CASE UNCHANGED rpcVars
    <3> USE DEF rpcVars, caches, locals, history
    <3>1. LocalsOK' /\ CacheOK'
      BY <2>1, <2>3 DEF CInv, LocalsOK, CacheOK, AccountOK
    <3>2. ASSUME NEW th \in Threads PROVE ThreadOK(th)'
      <4>1. AnswersOK(th)' /\ ReturnOK(th)'
        BY <2>1, <2>3 DEF CInv, ThreadOK, AnswersOK, RequestOK, Has, Joined, Failed, ReturnOK
      <4>2. pc[th] # "idle" => PlaceOK(th)'
        BY <2>1, <2>3 DEF CInv, ThreadOK, PlaceOK, Settled, Cached
      <4> QED
        BY <2>3, <4>1, <4>2 DEF ThreadOK
    <3>3. SeqOK'
      BY <2>1, <2>3 DEF SeqOK, Kept, Cached
    <3> QED
      BY <3>1, <3>2, <3>3 DEF RpcInv, CInv
  <2> QED
    BY <2>2, <2>3 DEF Next, Move
<1> QED
  BY <1>1, <1>2, PTL DEF Spec

\* Whatever other threads fetch, insert and overwrite meanwhile, every call is
\* answered as the chain answers it, or one of its requests has failed more
\* than RETRY_LIMIT times.
THEOREM AnswersAreRightHolds == Spec => []AnswersAreRight
<1>1. RpcInv => AnswersAreRight
  BY DEF RpcInv, CInv, ThreadOK, ReturnOK, AnswersAreRight
<1> QED
  BY <1>1, RpcInvariance, PTL

\* The cache holds what the chain has, no new account, and a bytecode for every
\* code hash that can be found in it.
THEOREM CacheIsFaithfulHolds == Spec => []CacheIsFaithful
<1>1. RpcInv => CacheIsFaithful
  <2> SUFFICES ASSUME CacheOK PROVE CacheIsFaithful
    BY DEF RpcInv, CInv
  <2>1. \A a \in Addresses : Cached(a) =>
          LET account == cache_accounts[a].val
          IN /\ ~IsNew(a, Chain[a])
             /\ account.balance = Chain[a].balance /\ account.nonce = Chain[a].nonce
             /\ account.code_hash = Hash(Chain[a].code)
             /\ account.code_hash # Absent => account.code_hash \in cache_bytecodes
             /\ \A i \in Slots : account.storage[i] \in {Absent, Found(Chain[a].storage[i])}
    BY CachedAccount DEF SomeSlots
  <2> QED
    BY <2>1 DEF CacheIsFaithful, CacheOK
<1> QED
  BY <1>1, RpcInvariance, PTL

\* A storage that was used sequentially, as the fetch tool uses it, leaves a
\* snapshot that answers again what was asked, failed calls in between or not.
THEOREM SnapshotReplaysHolds ==
  ASSUME NewIsEmpty
  PROVE  Spec => []SnapshotReplays
<1>1. RpcInv => SnapshotReplays
  <2> SUFFICES ASSUME RpcInv, ~overlapped
               PROVE  /\ \A c \in asked : Replayed(IntoSnapshot, c) = Truth(c)
                      /\ \A a \in Addresses : IsNew(a, Chain[a]) => ~MemHasStorage(IntoSnapshot, a)
    BY DEF SnapshotReplays
  <2> DEFINE m == IntoSnapshot
  <2>0. CacheOK /\ m.accounts = cache_accounts /\ m.bytecodes = cache_bytecodes /\ m.block_hashes = cache_block_hashes
    BY DEF RpcInv, CInv, IntoSnapshot
  <2> HIDE DEF m
  <2>1. \A a \in Addresses : IsNew(a, Chain[a]) => m.accounts[a] = Absent
    BY <2>0, CachedAccount DEF Cached
  <2>2. \A a \in Addresses : IsNew(a, Chain[a]) => ~MemHasStorage(m, a)
    BY <2>1 DEF MemHasStorage
  <2>3. ASSUME NEW c \in asked PROVE Replayed(m, c) = Truth(c)
    <3> DEFINE a == c.address
               e == cache_accounts[a].val
    <3>1. c \in Calls /\ Kept(c) /\ a \in Addresses /\ c.op \in Ops
      BY DEF RpcInv, SeqOK, Calls
    <3>2. Cached(a) => /\ ~IsNew(a, Chain[a])
                       /\ e.balance = Chain[a].balance /\ e.nonce = Chain[a].nonce
                       /\ e.code_hash = Hash(Chain[a].code)
                       /\ e.code_hash # Absent => e.code_hash \in cache_bytecodes
                       /\ AccountBasic(e) = AccountBasic(Chain[a])
                       /\ \A i \in Slots : e.storage[i] \in {Absent, Found(Chain[a].storage[i])}
      BY <2>0, <3>1, CachedAccount DEF SomeSlots
    <3>3. Cached(a) <=> m.accounts[a] # Absent
      BY <2>0 DEF Cached
    <3>4. MemCodeByHash(m, Hash(Chain[a].code)) = IF Hash(Chain[a].code) \in cache_bytecodes THEN Hash(Chain[a].code) ELSE Absent
      BY <2>0 DEF MemCodeByHash
    <3>5. CASE c.op = "basic"
      BY <2>0, <2>1, <3>1, <3>2, <3>3, <3>5 DEF Replayed, MemBasic, Truth, Kept
    <3>6. CASE c.op = "code_hash"
      <4>1. IsNew(a, Chain[a]) => Hash(Chain[a].code) = Absent
        BY DEF IsNew, Hash
      <4> QED
        BY <2>0, <2>1, <3>1, <3>2, <3>3, <3>6, <4>1 DEF Replayed, MemCodeHash, Truth, Kept
    <3>7. CASE c.op = "code_by_hash"
      BY <3>1, <3>4, <3>7 DEF Replayed, Truth, Kept
    <3>8. CASE c.op = "has_storage"
      BY <3>8 DEF Replayed
    <3>9. CASE c.op = "storage"
      <4>1. c.slot \in Slots
        BY <3>1 DEF Calls
      <4>2. CASE IsNew(a, Chain[a])
        BY <2>1, <3>1, <3>9, <4>1, <4>2 DEF Replayed, MemStorage, Truth, NewIsEmpty
      <4>3. CASE ~IsNew(a, Chain[a])
        <5>1. Cached(a) /\ e.storage[c.slot] # Absent
          BY <3>1, <3>9, <4>3 DEF Kept
        <5>2. e.storage[c.slot] = Found(Chain[a].storage[c.slot])
          BY <3>2, <4>1, <5>1
        <5> QED
          BY <2>0, <3>3, <3>9, <5>1, <5>2 DEF Replayed, MemStorage, Truth
      <4> QED
        BY <4>2, <4>3
    <3>10. CASE c.op = "block_hash"
      <4>1. cache_block_hashes[c.number] = Found(BlockHash[c.number]) /\ cache_block_hashes[c.number] # Absent
        BY <2>0, <3>1, <3>10 DEF Kept, CacheOK, Calls
      <4> QED
        BY <2>0, <3>10, <4>1 DEF Replayed, MemBlockHash, Truth
    <3>11. CASE c.op = "basic_ref"
      <4>1. CASE IsNew(a, Chain[a])
        BY <2>1, <3>1, <3>11, <4>1 DEF Replayed, MemBasicRef, MemBasic, Truth
      <4>2. CASE ~IsNew(a, Chain[a])
        <5>1. Cached(a)
          BY <3>1, <3>11, <4>2 DEF Kept
        <5>2. MemBasic(m, a) # Absent
          BY <3>3, <5>1, Kinds DEF MemBasic, AccountBasic
        <5>3. MemCodeHash(m, a) = Hash(Chain[a].code)
          BY <2>0, <3>2, <3>3, <5>1 DEF MemCodeHash
        <5>4. MemCodeByHash(m, Hash(Chain[a].code)) = Hash(Chain[a].code)
          BY <3>2, <3>4, <5>1
        <5>5. MemBasicRef(m, a) = Found([balance |-> Chain[a].balance, nonce |-> Chain[a].nonce,
                                         code_hash |-> Hash(Chain[a].code), code |-> Hash(Chain[a].code)])
          BY <2>0, <3>2, <5>1, <5>2, <5>3, <5>4 DEF MemBasicRef
        <5> QED
          BY <3>11, <4>2, <5>5 DEF Replayed, Truth
      <4> QED
        BY <4>1, <4>2
    <3> QED
      BY <3>1, <3>5, <3>6, <3>7, <3>8, <3>9, <3>10, <3>11 DEF Ops
  <2> QED
    BY <2>2, <2>3 DEF m
<1> QED
  BY <1>1, RpcInvariance, PTL
=============================================================================
