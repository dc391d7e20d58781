----------------------------- MODULE RpcStorage -----------------------------
(***************************************************************************)
(* RpcStorage: the state of a chain before a block, fetched from a         *)
(* provider on demand and cached, and InMemoryStorage, which replays a     *)
(* snapshot of the cache.  Threads share the storage.  A lock is held for  *)
(* a lookup or an insertion and never while a request is under way.        *)
(***************************************************************************)
EXTENDS Naturals, FiniteSets

CONSTANTS
  Threads,
  Addresses, Slots, Numbers,
  Precompiles,        \* the addresses of precompiled contracts
  Chain,              \* address -> [balance, nonce, code, storage], at block_id
  BlockHash,          \* number -> hash of that block
  NoCode,             \* empty bytecode
  Workloads,          \* sets of calls [op, address, slot, number]
  RetryLimit          \* RETRY_LIMIT of fetch

ASSUME RetryAssumption == RetryLimit \in Nat
ASSUME PrecompilesAssumption == Precompiles \subseteq Addresses

Ops == {"basic", "code_hash", "code_by_hash", "has_storage", "storage", "block_hash", "basic_ref"}

ASSUME WorkloadsAssumption ==
  \A calls \in Workloads : calls \subseteq [op : Ops, address : Addresses, slot : Slots, number : Numbers]

VARIABLES
  workload,           \* the calls that threads make
  cache_accounts,     \* address -> EvmAccount, or Absent
  cache_bytecodes,    \* the code hashes that have a bytecode in the cache
  cache_block_hashes, \* number -> hash, or Absent
  pc,                 \* where a thread is
  call,               \* the call it makes
  then,               \* where the call goes on when basic returns
  lives,              \* request -> retries left
  answer,             \* request -> what fetch returned
  ret,                \* what the call returns
  faults,             \* history: request -> how often it has failed in a row
  overlapped,         \* history: two calls were in progress at the same time
  asked               \* history: the calls answered before that

caches == <<cache_accounts, cache_bytecodes, cache_block_hashes>>
locals == <<pc, call, then, lives, answer, ret>>
history == <<faults, overlapped, asked>>
rpcVars == <<workload, caches, locals, history>>

Absent == [is |-> "absent"]
Error == [is |-> "error"]
Pending == [is |-> "pending"]
Found(v) == [is |-> "found", val |-> v]

Requests == {"nonce", "balance", "code", "slot", "proof", "block"}
NoAnswers == [r \in Requests |-> Absent]
NoFaults == [r \in Requests |-> 0]
FullLives == [r \in Requests |-> RetryLimit]

\* hash_slow, without collisions.  An account without code has no hash.
Hash(code) == IF code = NoCode THEN Absent ELSE Found(code)

\* What the provider answers.
Provider(c, r) ==
  CASE r = "nonce"   -> Chain[c.address].nonce
    [] r = "balance" -> Chain[c.address].balance
    [] r = "code"    -> Chain[c.address].code
    [] r = "slot"    -> Chain[c.address].storage[c.slot]
    [] r = "proof"   -> \E i \in Slots : Chain[c.address].storage[i] # 0
    [] r = "block"   -> BlockHash[c.number]

Init ==
  /\ workload \in Workloads
  /\ cache_accounts = [a \in Addresses |-> Absent]
  /\ cache_bytecodes = {}
  /\ cache_block_hashes = [n \in Numbers |-> Absent]
  /\ pc = [th \in Threads |-> "idle"]
  /\ call = [th \in Threads |-> Absent]
  /\ then = [th \in Threads |-> "answer"]
  /\ lives = [th \in Threads |-> FullLives]
  /\ answer = [th \in Threads |-> NoAnswers]
  /\ ret = [th \in Threads |-> Absent]
  /\ faults = [th \in Threads |-> NoFaults]
  /\ overlapped = FALSE
  /\ asked = {}

-----------------------------------------------------------------------------
(* Calls and answers *)

Cached(a) == cache_accounts[a] # Absent
Account(th) == cache_accounts[call[th].address]

Goto(th, l) == pc' = [pc EXCEPT ![th] = l]

\* The code hash of a code_by_hash call is one that the caller was given.
\* basic_ref calls basic first and then code_hash.
Call(th, c) ==
  /\ pc[th] = "idle"
  /\ c.op = "code_by_hash" => Cached(c.address) /\ cache_accounts[c.address].val.code_hash # Absent
  /\ call' = [call EXCEPT ![th] = c]
  /\ Goto(th, CASE c.op \in {"basic", "code_hash", "basic_ref"} -> "lookup"
                [] c.op = "storage"      -> "lookupSlot"
                [] c.op = "code_by_hash" -> "lookupCode"
                [] c.op = "has_storage"  -> "askProof"
                [] c.op = "block_hash"   -> "lookupBlock")
  /\ then' = [then EXCEPT ![th] = CASE c.op = "code_hash" -> "hash"
                                    [] c.op = "storage"   -> "cacheSlot"
                                    [] c.op = "basic_ref" -> "again"
                                    [] OTHER              -> "answer"]
  /\ overlapped' = (overlapped \/ \E u \in Threads : pc[u] # "idle")
  /\ asked' = IF overlapped' THEN {} ELSE asked
  /\ UNCHANGED <<workload, caches, lives, answer, ret, faults>>

Answer(th, v) ==
  /\ Goto(th, "return")
  /\ ret' = [ret EXCEPT ![th] = v]

Return(th) ==
  /\ pc[th] = "return"
  /\ Goto(th, "idle")
  /\ asked' = IF overlapped \/ ret[th] = Error THEN asked ELSE asked \cup {call[th]}
  /\ call' = [call EXCEPT ![th] = Absent]
  /\ then' = [then EXCEPT ![th] = "answer"]
  /\ answer' = [answer EXCEPT ![th] = NoAnswers]
  /\ ret' = [ret EXCEPT ![th] = Absent]
  /\ faults' = [faults EXCEPT ![th] = NoFaults]
  /\ UNCHANGED <<workload, caches, lives, overlapped>>

-----------------------------------------------------------------------------
(* fetch: a request and its retries; several of them may be joined *)

Ask(th, rs, l) ==
  /\ answer' = [answer EXCEPT ![th] = [r \in Requests |-> IF r \in rs THEN Pending ELSE @[r]]]
  /\ Goto(th, l)

\* The loop is left with a result; its counter starts again in the next fetch.
FetchReturns(th, r, result) ==
  /\ answer' = [answer EXCEPT ![th][r] = result]
  /\ lives' = [lives EXCEPT ![th][r] = RetryLimit]

RequestOk(th, r) ==
  /\ answer[th][r] = Pending
  /\ FetchReturns(th, r, Found(Provider(call[th], r)))
  /\ faults' = [faults EXCEPT ![th][r] = 0]
  /\ UNCHANGED <<workload, caches, pc, call, then, ret, overlapped, asked>>

Fault(th, r) ==
  /\ answer[th][r] = Pending
  /\ faults' = [faults EXCEPT ![th][r] = @ + 1]
  /\ UNCHANGED <<workload, caches, pc, call, then, ret, overlapped, asked>>

\* Mutant: the lives are counted below zero, and wrap around.
RequestFailsWrapping(th, r) ==
  /\ answer[th][r] = Pending
  /\ lives' = [lives EXCEPT ![th][r] = IF @ > 0 THEN @ - 1 ELSE RetryLimit]
  /\ UNCHANGED <<workload, caches, pc, call, then, answer, ret, history>>

\* Mutant: the last life is not used.
RequestFailsEarly(th, r) ==
  /\ Fault(th, r)
  /\ IF lives[th][r] > 1 THEN lives' = [lives EXCEPT ![th][r] = @ - 1] /\ UNCHANGED answer
                         ELSE FetchReturns(th, r, Error)

\* The request is sent again, after a while, or the error is handed on.
RequestFails(th, r) ==
  /\ Fault(th, r)
  /\ IF lives[th][r] > 0 THEN lives' = [lives EXCEPT ![th][r] = @ - 1] /\ UNCHANGED answer
                         ELSE FetchReturns(th, r, Error)

\* All requests under way have come to an end.
Joined(th) == \A r \in Requests : answer[th][r] # Pending
Failed(th) == \E r \in Requests : answer[th][r] = Error

-----------------------------------------------------------------------------
(* basic *)

\* Back from basic, which has found an account or not.
BasicReturns(th, found) ==
  CASE then[th] = "answer" -> /\ Answer(th, found)
                              /\ UNCHANGED then
    [] then[th] = "again"  -> IF found = Absent
                                THEN Answer(th, Absent) /\ UNCHANGED then
                                ELSE /\ Goto(th, "lookup")
                                     /\ then' = [then EXCEPT ![th] = "hash"]
                                     /\ UNCHANGED ret
    [] OTHER               -> /\ Goto(th, then[th])
                              /\ UNCHANGED <<then, ret>>

AccountBasic(account) == Found([balance |-> account.balance, nonce |-> account.nonce])

BasicLookup(th) ==
  /\ pc[th] = "lookup"
  /\ IF Account(th) # Absent
       THEN BasicReturns(th, AccountBasic(Account(th).val)) /\ UNCHANGED answer
       ELSE Ask(th, {"nonce", "balance", "code"}, "fetchBasic") /\ UNCHANGED <<then, ret>>
  /\ UNCHANGED <<workload, caches, call, lives, history>>

\* Balance and nonce are zero and there is no code; a precompile counts as there.
IsNew(a, account) ==
  a \notin Precompiles /\ account.balance = 0 /\ account.nonce = 0 /\ account.code = NoCode

Fetched(th) == [balance |-> answer[th]["balance"].val, nonce |-> answer[th]["nonce"].val,
                code    |-> answer[th]["code"].val]

\* Mutant: the account is cached before its bytecode is.
BasicFetchedUncoded(th) ==
  /\ pc[th] = "fetchBasic"
  /\ Joined(th)
  /\ CASE Failed(th) -> Answer(th, Error) /\ UNCHANGED then
       [] ~Failed(th) /\ IsNew(call[th].address, Fetched(th)) -> BasicReturns(th, Absent)
       [] OTHER -> Goto(th, "cacheAccount") /\ UNCHANGED <<then, ret>>
  /\ UNCHANGED <<workload, caches, call, lives, answer, history>>

BasicFetched(th) ==
  /\ pc[th] = "fetchBasic"
  /\ Joined(th)
  /\ CASE Failed(th) -> Answer(th, Error) /\ UNCHANGED then
       [] ~Failed(th) /\ IsNew(call[th].address, Fetched(th)) -> BasicReturns(th, Absent)
       [] OTHER -> /\ Goto(th, IF Fetched(th).code = NoCode THEN "cacheAccount" ELSE "cacheCode")
                   /\ UNCHANGED <<then, ret>>
  /\ UNCHANGED <<workload, caches, call, lives, answer, history>>

CacheCode(th) ==
  /\ pc[th] = "cacheCode"
  /\ cache_bytecodes' = cache_bytecodes \cup {Hash(Fetched(th).code)}
  /\ Goto(th, "cacheAccount")
  /\ UNCHANGED <<workload, cache_accounts, cache_block_hashes, call, then, lives, answer, ret, history>>

\* The insertion replaces what another thread has cached in the meantime,
\* the slots too.
CacheAccount(th) ==
  /\ pc[th] = "cacheAccount"
  /\ cache_accounts' = [cache_accounts EXCEPT ![call[th].address] =
       Found([balance   |-> Fetched(th).balance,
              nonce     |-> Fetched(th).nonce,
              code_hash |-> Hash(Fetched(th).code),
              storage   |-> [i \in Slots |-> Absent]])]
  /\ BasicReturns(th, AccountBasic(Fetched(th)))
  /\ UNCHANGED <<workload, cache_bytecodes, cache_block_hashes, call, lives, answer, history>>

-----------------------------------------------------------------------------
(* code_hash, code_by_hash, and basic_ref, which asks for both *)

CachedHash(th) == IF Account(th) = Absent THEN Absent ELSE Account(th).val.code_hash

AccountInfo(th, code) ==
  Found([balance |-> Account(th).val.balance, nonce |-> Account(th).val.nonce,
         code_hash |-> CachedHash(th), code |-> code])

CodeHash(th) ==
  /\ pc[th] = "hash"
  /\ CASE call[th].op = "code_hash" -> Answer(th, CachedHash(th))
       [] call[th].op = "basic_ref" /\ CachedHash(th) = Absent ->
            Answer(th, AccountInfo(th, Absent))
       [] OTHER -> Goto(th, "lookupCode") /\ UNCHANGED ret
  /\ UNCHANGED <<workload, caches, call, then, lives, answer, history>>

CodeByHash(th) ==
  LET code == IF CachedHash(th) \in cache_bytecodes THEN CachedHash(th) ELSE Absent
  IN /\ pc[th] = "lookupCode"
     /\ Answer(th, IF call[th].op = "basic_ref" THEN AccountInfo(th, code) ELSE code)
     /\ UNCHANGED <<workload, caches, call, then, lives, answer, history>>

-----------------------------------------------------------------------------
(* has_storage, which caches nothing *)

AskProof(th) ==
  /\ pc[th] = "askProof"
  /\ Ask(th, {"proof"}, "fetchProof")
  /\ UNCHANGED <<workload, caches, call, then, lives, ret, history>>

ProofFetched(th) ==
  /\ pc[th] = "fetchProof"
  /\ Joined(th)
  /\ Answer(th, answer[th]["proof"])
  /\ UNCHANGED <<workload, caches, call, then, lives, answer, history>>

-----------------------------------------------------------------------------
(* storage *)

SlotLookup(th) ==
  /\ pc[th] = "lookupSlot"
  /\ IF Account(th) # Absent /\ Account(th).val.storage[call[th].slot] # Absent
       THEN Answer(th, Account(th).val.storage[call[th].slot]) /\ UNCHANGED answer
       ELSE Ask(th, {"slot"}, "fetchSlot") /\ UNCHANGED ret
  /\ UNCHANGED <<workload, caches, call, then, lives, history>>

\* Mutant: basic is not called, so that an account that was not cached is not.
SlotFetchedAlone(th) ==
  /\ pc[th] = "fetchSlot"
  /\ Joined(th)
  /\ IF Failed(th) THEN Answer(th, Error) ELSE Goto(th, "cacheSlot") /\ UNCHANGED ret
  /\ UNCHANGED <<workload, caches, call, then, lives, answer, history>>

SlotFetched(th) ==
  /\ pc[th] = "fetchSlot"
  /\ Joined(th)
  /\ IF Failed(th) THEN Answer(th, Error) ELSE Goto(th, "lookup") /\ UNCHANGED ret
  /\ UNCHANGED <<workload, caches, call, then, lives, answer, history>>

\* A slot is cached in an account that is cached.
CacheSlot(th) ==
  /\ pc[th] = "cacheSlot"
  /\ cache_accounts' = IF Account(th) = Absent THEN cache_accounts ELSE
       [cache_accounts EXCEPT ![call[th].address].val.storage[call[th].slot] = answer[th]["slot"]]
  /\ Answer(th, answer[th]["slot"])
  /\ UNCHANGED <<workload, cache_bytecodes, cache_block_hashes, call, then, lives, answer, history>>

-----------------------------------------------------------------------------
(* block_hash *)

BlockLookup(th) ==
  /\ pc[th] = "lookupBlock"
  /\ IF cache_block_hashes[call[th].number] # Absent
       THEN Answer(th, cache_block_hashes[call[th].number]) /\ UNCHANGED answer
       ELSE Ask(th, {"block"}, "fetchBlock") /\ UNCHANGED ret
  /\ UNCHANGED <<workload, caches, call, then, lives, history>>

BlockFetched(th) ==
  /\ pc[th] = "fetchBlock"
  /\ Joined(th)
  /\ cache_block_hashes' = IF Failed(th) THEN cache_block_hashes ELSE
       [cache_block_hashes EXCEPT ![call[th].number] = answer[th]["block"]]
  /\ Answer(th, answer[th]["block"])
  /\ UNCHANGED <<workload, cache_accounts, cache_bytecodes, call, then, lives, answer, history>>

-----------------------------------------------------------------------------
\* A thread in a call goes on.
Step(th) ==
  \/ \E r \in Requests : RequestOk(th, r) \/ RequestFails(th, r)
  \/ BasicLookup(th) \/ BasicFetched(th) \/ CacheCode(th) \/ CacheAccount(th)
  \/ CodeHash(th) \/ CodeByHash(th)
  \/ AskProof(th) \/ ProofFetched(th)
  \/ SlotLookup(th) \/ SlotFetched(th) \/ CacheSlot(th)
  \/ BlockLookup(th) \/ BlockFetched(th)
  \/ Return(th)

Next == \E th \in Threads : Step(th) \/ \E c \in workload : Call(th, c)

\* A thread that is in a call is scheduled, and a request succeeds or fails.
Spec == Init /\ [][Next]_rpcVars /\ \A th \in Threads : WF_rpcVars(Step(th))

-----------------------------------------------------------------------------
(* InMemoryStorage over the snapshot of the cache *)

\* into_snapshot consumes the storage: nobody is in a call.
IntoSnapshot == [accounts |-> cache_accounts, bytecodes |-> cache_bytecodes,
                 block_hashes |-> cache_block_hashes]

MemBasic(s, a) == IF s.accounts[a] = Absent THEN Absent ELSE AccountBasic(s.accounts[a].val)
MemCodeHash(s, a) == IF s.accounts[a] = Absent THEN Absent ELSE s.accounts[a].val.code_hash
MemCodeByHash(s, h) == IF h \in s.bytecodes THEN h ELSE Absent
MemHasStorage(s, a) ==
  s.accounts[a] # Absent /\ \E i \in Slots : s.accounts[a].val.storage[i] # Absent
MemStorage(s, a, i) ==
  IF s.accounts[a] = Absent \/ s.accounts[a].val.storage[i] = Absent
    THEN Found(0) ELSE s.accounts[a].val.storage[i]
\* A number that is not in the map is hashed itself.
MemBlockHash(s, n) == IF s.block_hashes[n] = Absent THEN Found([keccak |-> n]) ELSE s.block_hashes[n]

\* StorageWrapper::basic_ref
MemBasicRef(s, a) ==
  IF MemBasic(s, a) = Absent THEN Absent
  ELSE Found([balance   |-> s.accounts[a].val.balance, nonce |-> s.accounts[a].val.nonce,
              code_hash |-> MemCodeHash(s, a),
              code      |-> MemCodeByHash(s, MemCodeHash(s, a))])

-----------------------------------------------------------------------------
(* Properties *)

\* What the chain says about a call.
Truth(c) ==
  LET account == Chain[c.address]
      basic   == AccountBasic(account)
  IN CASE c.op = "basic"        -> IF IsNew(c.address, account) THEN Absent ELSE basic
       [] c.op = "code_hash"    -> Hash(account.code)
       [] c.op = "code_by_hash" -> Hash(account.code)
       [] c.op = "has_storage"  -> Found(Provider(c, "proof"))
       [] c.op = "storage"      -> Found(account.storage[c.slot])
       [] c.op = "block_hash"   -> Found(BlockHash[c.number])
       [] c.op = "basic_ref"    ->
            IF IsNew(c.address, account) THEN Absent
            ELSE Found([balance |-> account.balance, nonce |-> account.nonce,
                        code_hash |-> Hash(account.code), code |-> Hash(account.code)])

\* Whatever other threads fetch, insert and overwrite during a call, it is
\* answered as the chain would answer it, with the bytecode of every code hash
\* that is handed out; and it fails only if one of its requests has failed
\* RETRY_LIMIT + 1 times.
AnswersAreRight ==
  \A th \in Threads : pc[th] = "return" =>
    IF ret[th] = Error THEN \E r \in Requests : faults[th][r] > RetryLimit
                       ELSE ret[th] = Truth(call[th])

\* The cache holds nothing but what the chain has: accounts that are not new
\* (a cached new account would make a later deployment fail, EIP-7610), with a
\* bytecode for every code hash from the moment the account can be found.
CacheIsFaithful ==
  /\ \A a \in Addresses : Cached(a) =>
       LET account == cache_accounts[a].val
       IN /\ ~IsNew(a, Chain[a])
          /\ account.balance = Chain[a].balance /\ account.nonce = Chain[a].nonce
          /\ account.code_hash = Hash(Chain[a].code)
          /\ account.code_hash # Absent => account.code_hash \in cache_bytecodes
          /\ \A i \in Slots : account.storage[i] \in {Absent, Found(Chain[a].storage[i])}
  /\ \A n \in Numbers : cache_block_hashes[n] \in {Absent, Found(BlockHash[n])}

\* What InMemoryStorage answers, given the snapshot.
Replayed(s, c) ==
  CASE c.op = "basic"        -> MemBasic(s, c.address)
    [] c.op = "code_hash"    -> MemCodeHash(s, c.address)
    [] c.op = "code_by_hash" -> MemCodeByHash(s, Hash(Chain[c.address].code))
    [] c.op = "storage"      -> MemStorage(s, c.address, c.slot)
    [] c.op = "block_hash"   -> MemBlockHash(s, c.number)
    [] c.op = "basic_ref"    -> MemBasicRef(s, c.address)
    [] c.op = "has_storage"  -> Truth(c)

\* Of the chain: an account without balance, nonce and code has no storage.
NewIsEmpty == \A a \in Addresses : IsNew(a, Chain[a]) => \A i \in Slots : Chain[a].storage[i] = 0

\* The snapshot of a storage that was used sequentially, as the fetch tool
\* does, is enough to replay what was asked: InMemoryStorage gives the same
\* answers, also if calls before and between them have failed half-way.  It
\* has no storage for a new account.  (has_storage itself is not replayed: it
\* leaves nothing in the cache.)
SnapshotReplays ==
  ~overlapped /\ (\A th \in Threads : pc[th] = "idle") =>
    /\ \A c \in asked : Replayed(IntoSnapshot, c) = Truth(c)
    /\ \A a \in Addresses : IsNew(a, Chain[a]) => ~MemHasStorage(IntoSnapshot, a)

\* Every call returns, however often its requests fail: the retries of a
\* request run out, and nobody waits for another thread.
EveryCallReturns == \A th \in Threads : pc[th] # "idle" ~> pc[th] = "idle"
=============================================================================
