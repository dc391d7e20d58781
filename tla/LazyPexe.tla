------------------------------ MODULE LazyPexe ------------------------------
(***************************************************************************)
(* Lazy updates: the executor over account balances.  A plain transfer     *)
(* whose sender or recipient is in the multi-version memory already reads  *)
(* no balance: it is executed on mock accounts and writes LazySender and   *)
(* LazyRecipient, amounts that VmDb::basic adds up when somebody reads the *)
(* account, and that execute_revm_parallel evaluates after the join.       *)
(* Rewards of the beneficiary are such amounts as well.  Whether a given   *)
(* transfer is lazy depends on who has written to the memory before it.    *)
(*                                                                         *)
(* Locations are the Basic locations of the accounts.  Nobody deploys code *)
(* in these blocks, so that reads of code hashes always stand.  An absent  *)
(* account and an empty one are the same (EIP-161).                        *)
(***************************************************************************)
EXTENDS Scheduler, FiniteSetsExt

CONSTANTS
  Accounts,           \* the addresses
  Coinbase,           \* the beneficiary
  Stored,             \* account -> its balance and nonce before the block
  Blocks,             \* the blocks considered: a transaction for every index
  BaseFee,            \* of the block
  TransferGas,        \* the gas of a transfer
  NewAccountGas,      \* what a contract is charged for paying a new account
  MaxBalance          \* U256::MAX, the balance of a mock account

(***************************************************************************)
(* A transaction [kind, from, to, value, nonce, gasLimit, price] moves     *)
(* value from its sender to an account without code.  A "transfer" does so *)
(* itself.  "pay" and "greet" call a contract that passes it on, always or *)
(* only to a new account (else it reverts), and are never lazy.  The gas   *)
(* limit is never hit.                                                     *)
(***************************************************************************)

ASSUME CoinbaseAssumption == Coinbase \in Accounts
ASSUME BalancesAssumption ==
  /\ BaseFee \in Nat /\ TransferGas \in Nat /\ NewAccountGas \in Nat /\ MaxBalance \in Nat
  /\ Stored \in [Accounts -> [balance : 0 .. MaxBalance, nonce : Nat]]
ASSUME BlocksAssumption ==
  \A b \in Blocks, t \in Txs :
    /\ b[t].from \in Accounts /\ b[t].to \in Accounts
    /\ b[t].value \in Nat /\ b[t].nonce \in Nat /\ b[t].gasLimit \in Nat /\ b[t].price \in Nat
    /\ b[t].gasLimit >= TransferGas + (IF b[t].kind = "transfer" THEN 0 ELSE NewAccountGas)

VARIABLES
  block,              \* the block being executed
  data,               \* MvMemory.data: account -> transaction -> entry
  keys,               \* the locations that data has a key for
  lazy_addresses,     \* MvMemory.lazy_addresses
  last_reads,         \* last_locations[t].read: account -> origins
  last_writes,        \* last_locations[t].write
  results,            \* Pexe.execution_results
  mpc,                \* where a worker is in VmDb or MvMemory
  is_lazy,            \* VmDb.is_lazy of the execution in progress
  got,                \* the accounts that execution has read
  reads,              \* VmDb.read_set
  todo,               \* the locations an operation still has to visit
  wrote               \* wrote_new_location of record

shared == <<data, keys, lazy_addresses, last_reads, last_writes, results>>
memLocals == <<mpc, is_lazy, got, reads, todo, wrote>>
memVars == <<block, shared, memLocals>>
lazyVars == <<vars, memVars>>

Empty == [balance |-> 0, nonce |-> 0]
NoEntry == [kind |-> "none"]
Estimate == [kind |-> "estimate"]
\* The MemoryValues of a Basic location.
Basic(account) == [type |-> "Basic", account |-> account]
LazyRecipient(n) == [type |-> "LazyRecipient", amount |-> n]
LazySender(n) == [type |-> "LazySender", amount |-> n]
Data(i, v) == [kind |-> "data", inc |-> i, val |-> v]
FromStorage == [from |-> "storage", tx |-> -1, inc |-> 0]
FromTx(t, i) == [from |-> "tx", tx |-> t, inc |-> i]
NotRead == [a \in Accounts |-> {}]

SaturatingSub(a, b) == IF a < b THEN 0 ELSE a - b

\* The beneficiary is lazy from the start, and everybody is expected to pay it.
LazyInit ==
  /\ Init
  /\ block \in Blocks
  /\ data = [a \in Accounts |-> [t \in Txs |-> IF a = Coinbase THEN Estimate ELSE NoEntry]]
  /\ keys = {Coinbase}
  /\ lazy_addresses = {Coinbase}
  /\ last_reads = [t \in Txs |-> NotRead]
  /\ last_writes = [t \in Txs |-> {}]
  /\ results = [t \in Txs |-> [gas |-> 0]]
  /\ mpc = [w \in Workers |-> "idle"]
  /\ is_lazy = [w \in Workers |-> FALSE]
  /\ got = [w \in Workers |-> [a \in Accounts |-> Empty]]
  /\ reads = [w \in Workers |-> NotRead]
  /\ todo = [w \in Workers |-> {}]
  /\ wrote = [w \in Workers |-> FALSE]

-----------------------------------------------------------------------------
(* What a transaction does to the accounts, and what it writes *)

Gas(x, to) ==
  TransferGas + (IF x.kind # "transfer" /\ x.value > 0 /\ to = Empty THEN NewAccountGas ELSE 0)
MaxFee(x) == x.gasLimit * x.price + x.value
Reward(x, gas) == SaturatingSub(x.price, BaseFee) * gas
Affordable(x, from) == from.nonce = x.nonce /\ from.balance >= MaxFee(x)

\* The state after the transaction, of the accounts it touches; acc is before.
After(x, acc, gas) ==
  LET sent == [balance |-> acc[x.from].balance - x.price * gas, nonce |-> acc[x.from].nonce + 1]
  IN IF x.from = x.to \/ (x.kind = "greet" /\ acc[x.to] # Empty)
       THEN [a \in {x.from} |-> sent]
       ELSE [a \in {x.from, x.to} |-> IF a = x.from THEN [sent EXCEPT !.balance = @ - x.value]
                                                    ELSE [acc[a] EXCEPT !.balance = @ + x.value]]

\* apply_rewards: into the entry of the beneficiary, or as one of its own.
Rewarded(writes, amount) ==
  LET v == writes[Coinbase]
      with == CASE v.type = "Basic"         -> [v EXCEPT !.account.balance = @ + amount]
                [] v.type = "LazySender"    -> [v EXCEPT !.amount = SaturatingSub(@, amount)]
                [] v.type = "LazyRecipient" -> [v EXCEPT !.amount = @ + amount]
  IN [a \in DOMAIN writes \cup {Coinbase} |->
        IF a # Coinbase THEN writes[a]
        ELSE IF a \in DOMAIN writes THEN with ELSE LazyRecipient(amount)]

\* A lazy transfer sees a rich sender with the right nonce, and no recipient.
Mock(x) == [a \in Accounts |-> IF a = x.from THEN [balance |-> MaxBalance, nonce |-> x.nonce]
                                             ELSE Empty]

\* An execution that has read acc: what it has seen, and its outcome.
Seen(x, lazy, acc) == IF lazy THEN Mock(x) ELSE acc
GasUsed(x, lazy, acc) == Gas(x, Seen(x, lazy, acc)[x.to])
StateAfter(x, lazy, acc) == After(x, Seen(x, lazy, acc), GasUsed(x, lazy, acc))

\* Amounts for a lazy transfer, else the accounts that have changed.
AccountWrites(x, lazy, acc) ==
  LET s == StateAfter(x, lazy, acc)
  IN IF lazy
       THEN [a \in {x.from, x.to} |-> IF a = x.from THEN LazySender(MaxBalance - s[a].balance)
                                                    ELSE LazyRecipient(x.value)]
       ELSE [a \in {b \in DOMAIN s : s[b] \notin {acc[b], Empty}} |-> Basic(s[a])]
Writes(x, lazy, acc) == Rewarded(AccountWrites(x, lazy, acc), Reward(x, GasUsed(x, lazy, acc)))

\* The transaction that worker w executes, and what it is going to record.
Tx(w) == block[tx[w]]
WriteSet(w) == Writes(Tx(w), is_lazy[w], got[w])

-----------------------------------------------------------------------------
(* VmDb *)

ResetLocals(w) ==
  /\ mpc' = [mpc EXCEPT ![w] = "idle"]
  /\ is_lazy' = [is_lazy EXCEPT ![w] = FALSE]
  /\ got' = [got EXCEPT ![w] = [a \in Accounts |-> Empty]]
  /\ reads' = [reads EXCEPT ![w] = NotRead]
  /\ todo' = [todo EXCEPT ![w] = {}]
  /\ wrote' = [wrote EXCEPT ![w] = FALSE]

\* VmDb::new decides whether the execution is lazy.  Keys are never removed,
\* so that its two lookups are as good as one.
VmNew(w) ==
  /\ pc[w] = "execute" /\ mpc[w] = "idle"
  /\ LET lazy == Tx(w).kind = "transfer" /\ {Tx(w).from, Tx(w).to} \cap keys # {}
     IN /\ is_lazy' = [is_lazy EXCEPT ![w] = lazy]
        /\ mpc' = [mpc EXCEPT ![w] = IF lazy THEN "addLazy" ELSE "from"]
  /\ UNCHANGED <<vars, block, shared, got, reads, todo, wrote>>

\* VmDb::basic goes down the entries below t: through amounts, to the first
\* absolute value or ESTIMATE, if there is one.
Writers(a, t) == {u \in Txs : u < t /\ data[a][u].kind # "none"}
Ends(a, t) == {u \in Writers(a, t) : data[a][u].kind = "data" => data[a][u].val.type = "Basic"}
Walk(a, t) == {u \in Writers(a, t) : \A v \in Ends(a, t) : u >= v}
Blocked(a, t) == \E u \in Walk(a, t) : data[a][u].kind = "estimate"
Origins(a, t) == {FromTx(u, data[a][u].inc) : u \in Walk(a, t)}
                   \cup (IF Ends(a, t) = {} THEN {FromStorage} ELSE {})

\* What the amounts among the entries us add to the balance and to the nonce.
Total(f) ==
  LET s[n \in 0 .. BlockSize] == IF n = 0 THEN 0 ELSE s[n - 1] + f[n - 1]
  IN s[BlockSize]
ToBalance(v) == CASE v.type = "LazyRecipient" -> v.amount
                  [] v.type = "LazySender"    -> 0 - v.amount
                  [] v.type = "Basic"         -> 0
ToNonce(v) == IF v.type = "LazySender" THEN 1 ELSE 0
BalanceAddition(a, us) == Total([u \in Txs |-> IF u \in us THEN ToBalance(data[a][u].val) ELSE 0])
NonceAddition(a, us) == Total([u \in Txs |-> IF u \in us THEN ToNonce(data[a][u].val) ELSE 0])

\* The account that basic puts together from the entries us, which are all of
\* Walk: the amounts on top of the absolute value or of storage.  If storage
\* has no account and the amounts cancel out, there is none, whatever the
\* senders' nonces were.
Basics(a, us) == {u \in us : data[a][u].val.type = "Basic"}
Base(a, us) == IF Basics(a, us) = {} THEN Stored[a] ELSE data[a][Max(Basics(a, us))].val.account
Assembled(a, us) ==
  IF Basics(a, us) = {} /\ Stored[a] = Empty /\ BalanceAddition(a, us) = 0
    THEN Empty
    ELSE [balance |-> SaturatingSub(Base(a, us).balance + BalanceAddition(a, us), 0),
          nonce   |-> Base(a, us).nonce + NonceAddition(a, us)]
Account(a, t) == Assembled(a, Walk(a, t))

\* Register an account that was read, and go on to l.
Got(w, a, l) ==
  /\ got' = [got EXCEPT ![w][a] = Account(a, tx[w])]
  /\ reads' = [reads EXCEPT ![w][a] = Origins(a, tx[w])]
  /\ mpc' = [mpc EXCEPT ![w] = l]
  /\ UNCHANGED <<vars, block, shared, is_lazy, todo, wrote>>

VmReadFrom(w) ==
  /\ mpc[w] = "from"
  /\ ~Blocked(Tx(w).from, tx[w])
  /\ Affordable(Tx(w), Account(Tx(w).from, tx[w]))
  /\ Got(w, Tx(w).from, IF Tx(w).from = Tx(w).to THEN "ready" ELSE "to")

VmReadTo(w) ==
  /\ mpc[w] = "to"
  /\ ~Blocked(Tx(w).to, tx[w])
  /\ Got(w, Tx(w).to, "ready")

\* ReadError::Blocking on an ESTIMATE.
VmReadEstimate(w) ==
  /\ \E a \in Accounts :
       /\ <<mpc[w], a>> \in {<<"from", Tx(w).from>>, <<"to", Tx(w).to>>}
       /\ Blocked(a, tx[w])
       /\ VmBlocking(w, Max(Ends(a, tx[w])))
  /\ ResetLocals(w)
  /\ UNCHANGED <<block, shared>>

\* The nonce does not match (basic), or funds are short (EVM).
VmNotYet(w) ==
  /\ mpc[w] = "from"
  /\ ~Blocked(Tx(w).from, tx[w])
  /\ ~Affordable(Tx(w), Account(Tx(w).from, tx[w]))
  /\ IF tx[w] > 0 THEN VmBlocking(w, tx[w] - 1) ELSE VmFatal(w)
  /\ ResetLocals(w)
  /\ UNCHANGED <<block, shared>>

GiveUp(w) ==
  /\ SetAbortReason(w, "ExecutionError")
  /\ UNCHANGED memVars

-----------------------------------------------------------------------------
(* MvMemory *)

\* Mutant: the addresses of a lazy transfer are not registered.
AddLazyAddressesNone(w) ==
  /\ mpc[w] = "addLazy"
  /\ mpc' = [mpc EXCEPT ![w] = "ready"]
  /\ UNCHANGED <<vars, block, shared, is_lazy, got, reads, todo, wrote>>

AddLazyAddresses(w) ==
  /\ mpc[w] = "addLazy"
  /\ lazy_addresses' = lazy_addresses \cup {Tx(w).from, Tx(w).to}
  /\ mpc' = [mpc EXCEPT ![w] = "ready"]
  /\ UNCHANGED <<vars, block, data, keys, last_reads, last_writes, results,
                 is_lazy, got, reads, todo, wrote>>

\* The mutex of last_locations[t], which record, validate_read_locations and
\* convert_writes_to_estimates hold.
LastFree(t) == \A w \in Workers : ~(mpc[w] \in {"remove", "insert", "check", "mark"} /\ tx[w] = t)

RecordReads(w) ==
  /\ mpc[w] = "ready"
  /\ LastFree(tx[w])
  /\ last_reads' = [last_reads EXCEPT ![tx[w]] = reads[w]]
  /\ mpc' = [mpc EXCEPT ![w] = "remove"]
  /\ UNCHANGED <<vars, block, data, keys, lazy_addresses, last_writes, results,
                 is_lazy, got, reads, todo, wrote>>

\* Mutant: what an earlier incarnation wrote stays.
RecordRemoveNone(w) ==
  /\ mpc[w] = "remove"
  /\ todo' = [todo EXCEPT ![w] = DOMAIN WriteSet(w)]
  /\ mpc' = [mpc EXCEPT ![w] = "insert"]
  /\ UNCHANGED <<vars, block, shared, is_lazy, got, reads, wrote>>

RecordRemove(w) ==
  /\ mpc[w] = "remove"
  /\ LET old == last_writes[tx[w]] \ DOMAIN WriteSet(w)
     IN \/ \E a \in old :
             /\ data' = [data EXCEPT ![a][tx[w]] = NoEntry]
             /\ last_writes' = [last_writes EXCEPT ![tx[w]] = @ \ {a}]
             /\ UNCHANGED <<mpc, todo>>
        \/ /\ old = {}
           /\ todo' = [todo EXCEPT ![w] = DOMAIN WriteSet(w)]
           /\ mpc' = [mpc EXCEPT ![w] = "insert"]
           /\ UNCHANGED <<data, last_writes>>
  /\ UNCHANGED <<vars, block, keys, lazy_addresses, last_reads, results,
                 is_lazy, got, reads, wrote>>

RecordInsert(w) ==
  /\ mpc[w] = "insert"
  /\ \E a \in todo[w] :
       /\ data' = [data EXCEPT ![a][tx[w]] = Data(inc[w], WriteSet(w)[a])]
       /\ keys' = keys \cup {a}
       /\ last_writes' = [last_writes EXCEPT ![tx[w]] = @ \cup {a}]
       /\ wrote' = [wrote EXCEPT ![w] = @ \/ a \notin last_writes[tx[w]]]
       /\ todo' = [todo EXCEPT ![w] = @ \ {a}]
  /\ UNCHANGED <<vars, block, lazy_addresses, last_reads, results,
                 mpc, is_lazy, got, reads>>

\* Vm::execute returns.  NeedValidation, which lazy transactions go without,
\* is the empty set of bits.
ExecuteOk(w) ==
  /\ mpc[w] = "insert"
  /\ todo[w] = {}
  /\ VmOk(w, (IF tx[w] > 0 /\ ~is_lazy[w] THEN NeedValidation ELSE {})
               \cup (IF wrote[w] THEN WroteNewLocation ELSE {}))
  /\ results' = [results EXCEPT ![tx[w]] = [gas   |-> GasUsed(Tx(w), is_lazy[w], got[w]),
                                                 state |-> StateAfter(Tx(w), is_lazy[w], got[w])]]
  /\ ResetLocals(w)
  /\ UNCHANGED <<block, data, keys, lazy_addresses, last_reads, last_writes>>

ValidateStart(w) ==
  /\ pc[w] = "validate" /\ mpc[w] = "idle"
  /\ LastFree(tx[w])
  /\ todo' = [todo EXCEPT ![w] = {a \in Accounts : last_reads[tx[w]][a] # {}}]
  /\ mpc' = [mpc EXCEPT ![w] = "check"]
  /\ UNCHANGED <<vars, block, shared, is_lazy, got, reads, wrote>>

\* Mutant: only the closest of several origins is compared.
OriginsHoldAtTop(a, t) ==
  LET top == Max({o.tx : o \in last_reads[t][a]})
  IN IF Writers(a, t) = {} THEN top = -1
     ELSE /\ Max(Writers(a, t)) = top
          /\ data[a][top].kind = "data"
          /\ FromTx(top, data[a][top].inc) \in last_reads[t][a]

\* The entries from the last origin up are the ones that were read; below
\* storage there is nothing, so that no other entry may be there.
OriginsHold(a, t) ==
  LET versions == last_reads[t][a] \ {FromStorage}
      lowest   == Min({o.tx : o \in last_reads[t][a]})
      entries  == {u \in Writers(a, t) : u >= lowest}
  IN /\ \A u \in entries : data[a][u].kind = "data"
     /\ {FromTx(u, data[a][u].inc) : u \in entries} = versions

ValidateCheck(w) ==
  /\ mpc[w] = "check"
  /\ \E a \in todo[w] :
       \/ /\ OriginsHold(a, tx[w])
          /\ todo' = [todo EXCEPT ![w] = @ \ {a}]
          /\ UNCHANGED <<vars, mpc, is_lazy, got, reads, wrote>>
       \/ /\ ~OriginsHold(a, tx[w])
          /\ Validate(w, FALSE)
          /\ ResetLocals(w)
  /\ UNCHANGED <<block, shared>>

ValidateEnd(w) ==
  /\ mpc[w] = "check"
  /\ todo[w] = {}
  /\ Validate(w, TRUE)
  /\ ResetLocals(w)
  /\ UNCHANGED <<block, shared>>

ConvertStart(w) ==
  /\ pc[w] = "convert" /\ mpc[w] = "idle"
  /\ LastFree(tx[w])
  /\ todo' = [todo EXCEPT ![w] = last_writes[tx[w]]]
  /\ mpc' = [mpc EXCEPT ![w] = "mark"]
  /\ UNCHANGED <<vars, block, shared, is_lazy, got, reads, wrote>>

ConvertOne(w) ==
  /\ mpc[w] = "mark"
  /\ \E a \in todo[w] :
       /\ data' = [data EXCEPT ![a][tx[w]] = Estimate]
       /\ todo' = [todo EXCEPT ![w] = @ \ {a}]
  /\ UNCHANGED <<vars, block, keys, lazy_addresses, last_reads, last_writes, results,
                 mpc, is_lazy, got, reads, wrote>>

ConvertEnd(w) ==
  /\ mpc[w] = "mark"
  /\ todo[w] = {}
  /\ ConvertWrites(w)
  /\ ResetLocals(w)
  /\ UNCHANGED <<block, shared>>

-----------------------------------------------------------------------------
LazyStep(w) ==
  \/ pc[w] # "setReason" /\ WorkerStep(w) /\ UNCHANGED memVars
  \/ VmNew(w) \/ VmReadFrom(w) \/ VmReadTo(w)
  \/ VmReadEstimate(w) \/ VmNotYet(w) \/ GiveUp(w)
  \/ AddLazyAddresses(w)
  \/ RecordReads(w) \/ RecordRemove(w) \/ RecordInsert(w) \/ ExecuteOk(w)
  \/ ValidateStart(w) \/ ValidateCheck(w) \/ ValidateEnd(w)
  \/ ConvertStart(w) \/ ConvertOne(w) \/ ConvertEnd(w)

LazyNext == (\E w \in Workers : LazyStep(w)) \/ (Joined /\ UNCHANGED memVars)

LazySpec == LazyInit /\ [][LazyNext]_lazyVars

-----------------------------------------------------------------------------
(* execute_revm_parallel after the join *)

HasEntry(a, t) == data[a][t].kind # "none"

\* One entry of the write history.  An ESTIMATE is unreachable!().
EvaluateEntry(account, t, entry) ==
  LET v == entry.val
  IN CASE entry.kind = "estimate"      -> [error |-> "unreachable"]
       [] v.type = "Basic"             -> v.account
       [] v.type = "LazyRecipient"     -> [account EXCEPT !.balance = @ + v.amount]
       [] v.type = "LazySender"        ->
            IF account.balance < MaxFee(block[t])
              THEN [error |-> "LackOfFundForMaxFee"]
              ELSE [balance |-> SaturatingSub(account.balance, v.amount),
                    nonce   |-> account.nonce + 1]

IsError(account) == "error" \in DOMAIN account

\* The nonce of a sender must be one more than its transaction says.
CheckNonce(a, t, account) ==
  IF ~IsError(account) /\ block[t].from = a /\ account.nonce # block[t].nonce + 1
    THEN [error |-> "NonceMismatch"] ELSE account

\* The account before each transaction and after the last.  Storage counts
\* unless the first entry is absolute.
Evaluate(a) ==
  LET first == Min(Writers(a, BlockSize))
      start == IF Writers(a, BlockSize) # {} /\ data[a][first].kind = "data"
                    /\ data[a][first].val.type = "Basic"
                 THEN Empty ELSE Stored[a]
      e[t \in 0 .. BlockSize] ==
        IF t = 0 THEN start
        ELSE IF IsError(e[t - 1]) \/ ~HasEntry(a, t - 1) THEN e[t - 1]
        ELSE CheckNonce(a, t - 1, EvaluateEntry(e[t - 1], t - 1, data[a][t - 1]))
  IN e

\* The lazy addresses that are evaluated for a transaction.
Evaluated(t) == {a \in lazy_addresses : HasEntry(a, t)}

\* Mutant: what the transaction itself has written is not overwritten.
EvaluatedResultsKept(t) ==
  LET own == results[t].state
  IN [gas   |-> results[t].gas,
      state |-> [a \in Evaluated(t) \cup DOMAIN own |->
                   IF a \in DOMAIN own THEN own[a] ELSE Evaluate(a)[t + 1]]]

\* A result with the accounts that were evaluated for it.
EvaluatedResults(t) ==
  LET own == results[t].state
  IN [gas   |-> results[t].gas,
      state |-> [a \in Evaluated(t) \cup DOMAIN own |->
                   IF a \in Evaluated(t) THEN Evaluate(a)[t + 1] ELSE own[a]]]

-----------------------------------------------------------------------------
(* execute_revm_sequential *)

SeqAfter(x, s) ==
  LET gas  == Gas(x, s[x.to])
      after == After(x, s, gas)
      moved == [a \in Accounts |-> IF a \in DOMAIN after THEN after[a] ELSE s[a]]
  IN [moved EXCEPT ![Coinbase].balance = @ + Reward(x, gas)]

SeqStates(b) ==
  LET s[t \in 0 .. BlockSize] == IF t = 0 THEN Stored ELSE
        IF Affordable(b[t - 1], s[t - 1][b[t - 1].from]) THEN SeqAfter(b[t - 1], s[t - 1])
                                                          ELSE s[t - 1]
  IN s

\* The states of all blocks, so that they are computed once.
StatesOf == [b \in Blocks |-> SeqStates(b)]

\* No block leaves an account that is new with a nonce and without a balance.
NotSwept ==
  \A b \in Blocks : \A t \in 0 .. BlockSize : \A a \in Accounts :
    Stored[a] = Empty /\ StatesOf[b][t][a].balance = 0 => StatesOf[b][t][a].nonce = 0

SequentialOutcome(b) ==
  LET s == StatesOf[b]
  IN IF \E t \in Txs : ~Affordable(b[t], s[t][b[t].from])
       THEN [tag |-> "err"]
       ELSE [tag     |-> "ok",
             results |-> [t \in Txs |->
               [gas   |-> Gas(b[t], s[t][b[t].to]),
                state |-> [a \in DOMAIN After(b[t], s[t], 0) \cup {Coinbase} |-> s[t + 1][a]]]]]

Outcome ==
  CASE ~AllExited                 -> [tag |-> "running"]
    [] AllExited /\ aborted       -> [tag |-> "err"]
    [] AllExited /\ ~aborted      ->
         LET errors == {a \in lazy_addresses : IsError(Evaluate(a)[BlockSize])}
         IN IF \E a \in errors : Evaluate(a)[BlockSize].error = "unreachable"
              THEN [tag |-> "panic"]
            ELSE IF errors # {} THEN [tag |-> "err"]
            ELSE [tag |-> "ok", results |-> [t \in Txs |-> EvaluatedResults(t)]]

Caller == INSTANCE BlockExecution WITH out <- Outcome, SeqOutcome <- SequentialOutcome

-----------------------------------------------------------------------------
(* Properties *)

\* Which transfers are lazy depends on the interleaving; what the executor
\* returns does not: every gas amount, balance and nonce, mocked, summed up by
\* VmDb::basic or evaluated after the join, is the one execute_revm_sequential
\* computes, and the block fails only if it fails sequentially ("the execution
\* results match", tests/common/runner.rs:24-25).  This is not so for a block in
\* which a new account spends all it was sent (run lazy_swept); it is checked
\* for blocks in which none does.
EvaluatesSequential == Caller!Spec

\* The transactions below t are validated, and nobody is about to look at one
\* of them, or to send validation back to it.
Settled(t) ==
  /\ \A u \in Txs : u < t => status[u] = "Validated"
  /\ validation_idx >= t
  /\ \A w \in Workers :
       \/ tx[w] >= t
       \/ pc[w] \in (NextTaskPcs \ {"inspect", "tryExec"}) \cup {"postNone", "exited"}

\* The accounts that VmDb::basic puts together for the reader at t, out of
\* absolute values, amounts and storage, are the ones that sequential
\* execution has before t, as soon as everything below t is settled (and
\* could be executed at all), long before the block is completed.
SettledPrefixIsSequential ==
  \A t \in 1 .. BlockSize :
    Settled(t) /\ (\A u \in Txs : u < t => Affordable(block[u], StatesOf[block][u][block[u].from]))
      => \A a \in Accounts : Account(a, t) = StatesOf[block][t][a]

\* An amount in the memory is never overlooked by the evaluation: its account
\* is among the lazy addresses before the entry appears, and stays there when
\* a later incarnation is not lazy.
LazyIsListed ==
  \A a \in Accounts, t \in Txs :
    data[a][t].kind = "data" /\ data[a][t].val.type # "Basic" => a \in lazy_addresses

\* The evaluation after the join meets no ESTIMATE (unreachable!() in
\* execute_revm_parallel): each transaction ends with the entries of its last
\* incarnation, although the locations it writes change when it is lazy in
\* one incarnation and not in the next.
NoEstimateIsLeft ==
  AllExited /\ ~aborted => \A a \in Accounts, t \in Txs : data[a][t].kind # "estimate"
=============================================================================
