# A TLA+ verification of the parallel block executor

This directory holds a formal model of the parallel execution engine in
`crates/pevm`: TLA+ modules translated from the Rust sources, TLC
configurations that check them on small instances, and theorems about them
whose proofs TLAPS checks. Paths below are relative to the repository; module
names refer to `*.tla` files of this directory. `PROJECT.json` gives, for every
definition, the source lines that it models.

## 1. The system

`Pexe::execute_revm_parallel` executes the transactions of a block with several
threads and must return exactly what `execute_revm_sequential` would have
returned. It is an implementation of Block-STM: transactions are executed
optimistically, in any order, against a *multi-version memory* that keeps, for
every location, one entry per transaction that wrote it; what a transaction has
read is *validated* afterwards, and a transaction whose reads do not stand is
aborted and executed again as its next *incarnation*. A *scheduler* without any
central loop hands executions and validations to the threads.

| Component | Source | State | Operations | Talks to |
|---|---|---|---|---|
| Scheduler | `scheduler.rs`, types in `lib.rs` | `execution_idx`, `validation_idx`, `min_validation_idx`, `num_validated`, `aborted` (atomics, all `Relaxed`); per transaction a mutex of status and incarnation and a mutex of dependents | `new`, `abort`, `next_task`, `try_execute`, `add_dependency`, `set_ready_status`, `finish_execution`, `try_validation_abort`, `finish_validation` | called by all workers at once |
| Workers | `pexe.rs`: the loop of `execute_revm_parallel`, `try_execute`, `try_validate` | `abort_reason` (a `OnceLock`), `execution_results` (kept between blocks) | take a task, run it, run its follow-up, leave | scheduler, VM, memory |
| Multi-version memory | `mv_memory.rs` | `data` (location → transaction → entry), `last_locations` (mutex per transaction), `lazy_addresses`, `new_bytecodes` | `new`, `record`, `validate_read_locations`, `convert_writes_to_estimates`, lazy addresses | VM reads it, workers validate against it |
| Virtual machine | `vm.rs`: `Vm`, `VmDb` | read set and read accounts of one execution | `basic`, `storage`, `get_code_hash`, `code_by_hash`, `execute`, `apply_rewards` | memory, storage, revm |
| Lazy updates | `vm.rs`, `pexe.rs:259-376` | entries `LazySender` / `LazyRecipient` | written by plain transfers and rewards, summed by `basic`, evaluated after the join | memory, storage |
| Sequential execution | `pexe.rs:445-479` | the state of the block | one transaction after the other | revm |
| Chains | `chain.rs`, `chain/*.rs` | none | `build_mv_memory`, rewards, receipts, environments | |
| Storages | `storage.rs`, `storage/in_memory.rs`, `storage/rpc.rs` | accounts; caches under mutexes | `basic`, `storage`, `code_hash`, …; RPC fetches with retries | shared by all VMs |
| Perp DEX | `perpdex/*.rs` | orders, positions, balances; an order index | place, cancel, match, update margins, … of one transaction | its own storage |
| Hybrid codec | `hybrid.rs` | none | encode and decode operations | |
| not part of the engine | `pevm_bak.rs` (declared by no module), `compat.rs`, `bins/fetch` | | | |

What is hard about it:

* *Interleavings.* `next_task` loads four counters one after the other and lets
  a worker leave on what it saw. Aborts, resumptions and validations of one
  transaction overlap. `record` and `convert_writes_to_estimates` change the
  memory one location at a time while others read.
* *Nested locks and waits.* `add_dependency` locks its own transaction while it
  holds the lock of the blocking one; `finish_execution` locks the dependents
  while it holds its own.
* *Late results.* A slow validation may look at the read set of a later
  incarnation than the one it was started for, and its verdict is applied to
  that one.
* *Speculation.* An execution may have read a mixture of versions; the errors
  it meets (nonce, funds, self-destructed accounts) may not be real.
* *Partial failure.* One worker gives the block up in two steps
  (`scheduler.abort()`, then `abort_reason`), others leave on either of them.
* *Deferred work.* Whether a transfer is lazy depends on what other threads have
  written so far. Amounts and absolute values of one account mix, and whether a
  lazy sender could pay at all is found out after the join.
* *Failing requests.* `RpcStorage` is shared by all threads, fetches without holding
  its locks, retries, and caches what it got, in several steps.
* *Eventually.* Every suspended transaction must be resumed, every worker leave.

The hazards, each at its line and with the properties that cover it, are listed
in `PROJECT.json`.

What makes each component correct:

* Scheduler: one executor per transaction; every suspended transaction is
  resumed once; no task is lost; when all workers have left, everything is
  validated; it terminates.
* Memory: the entries of a finished transaction are those of its current
  incarnation; no marker outlives it.
* Executor: what it returns is what sequential execution returns, errors and
  fallback included.
* Lazy updates: a sum over lazy entries is the account sequential execution
  computes; no amount is overlooked when the block is evaluated.
* RPC storage: every answer is the chain's, or an error after all retries; the
  cache of a sequential execution is enough to replay it.
* Perp DEX: order ids are unique; the index finds every resting order; a
  position is the sum of the reported fills, as far as an i128 holds it; balances are
  never overdrawn.
* Codec: `decode` inverts `encode`, and rejects what was cut off.

## 2. Modules

| Module | What it is |
|---|---|
| `Scheduler` | `scheduler.rs` and the worker's control flow in `pexe.rs`; what the VM and the memory answer is open |
| `Pexe` | extends `Scheduler` with the memory and a VM running a block of deterministic transactions; `execute_revm_sequential` as the reference |
| `BlockExecution` | the abstract specification: the executor returns once, and what it returns is the sequential outcome |
| `LazyPexe` | extends `Scheduler` with account balances: lazy transfers, rewards, sums of amounts, the evaluation after the join |
| `RpcStorage` | `storage/rpc.rs`, its snapshot in `storage/in_memory.rs`, `StorageWrapper::basic_ref` over both |
| `PerpDex` | `perpdex/executor.rs` and `perpdex/storage.rs`: transactions of operations, their write sets, the order index |
| `HybridCodec` | `hybrid.rs`: encoding and decoding Perp DEX transactions |
| `MCScheduler`, `MCPexe`, `MCLazyPexe`, `MCRpcStorage`, `MCPerpDex`, `MCHybridCodec` | instances for TLC: bounds on incarnations, catalogues of transactions and operations, symmetry |
| `SchedulerProofs` | theorems about `Scheduler` |
| `PexeProofs`, `PexeSerialProofs` | theorems about `Pexe`, the second extending the first: the memory agrees with the statuses; no validation is lost, the final memory, what is returned |
| `LazyPexeProofs`, `LazySerialProofs` | theorems about `LazyPexe`, the second extending the first: the memory agrees with the statuses, amounts are registered; sums over a settled prefix, what is returned |
| `RpcStorageProofs`, `PerpDexProofs`, `HybridCodecProofs` | theorems about `RpcStorage`, `PerpDex` and `HybridCodec` |

### Scheduler

The variables have the names of the fields. `status` and `incarnation` are the
two halves of `transactions_status`. A worker's place in the code is `pc`; `tx`
and `inc` are its `TxVersion`, `reg` the value it loaded last (a counter, the
blocking transaction, the dependent being resumed), `flags` the
`FinishExecFlags`. Dead locals are reset, which keeps the state space small.

*Grain.* Each access to an atomic and each acquisition of a status mutex is a
step. The mutex of a status held over several steps is not a variable: who
holds it follows from the program counters (`Holding`, `Free`). A mutex of a
dependents list is only taken by a thread that holds the status mutex of the
same transaction, so that it adds no step.

| Action | Code |
|---|---|
| `NextTask`, `LoadExecutionIdx`, `LoadValidationIdx`, `LoadNumValidated`, `LoadMinValidationIdx` | the loop of `next_task` and its exit test |
| `FetchValidationIdx`, `InspectForValidation`, `FetchExecutionIdx`, `TryExecute` | handing out a task |
| `VmOk`, `VmBlocking`, `VmRetry`, `VmFatal`, `SetAbortReason`, `RetryCheck` | the outcomes of `vm.execute` in `Pexe::try_execute` |
| `AddDependencyLock`, `AddDependency` | `add_dependency` |
| `FinishLock` … `FinishStatus` | `finish_execution`, with the resumption of the dependents |
| `Validate`, `TryValidationAbort`, `ConvertWrites`, `FinishAbort…`, `FinishValidation` | `try_validate` and `finish_validation` |
| `AfterTask`, `Joined` | the worker loop and the join |

Choices worth knowing:

* The counters saturate at `BlockSize`, where the code's run past it. The code
  compares them with each other only when one is below `block_size`, otherwise
  with `block_size` and with transaction indices; no comparison tells
  `block_size` from a larger value, so nothing is lost.
* The dependents are a set: the order in which they are drained is left open.
* `NeedValidation` is the flag 0, so that `contains(NeedValidation)` is always
  true. The model keeps flags as sets of bits and asks the same question. The
  branch `tx < min` of `finish_execution` and its `Validated` branch (which would
  count a transaction twice, `scheduler.rs:246-258`) are modelled and
  unreachable because of it.
* Atomics are sequentially consistent in the model and `Relaxed` in the code.
  The accesses that matter are ordered by the status mutexes: a worker that
  moves a counter past a transaction locks the status of that transaction next;
  `finish_execution` loads `validation_idx`, and `finish_validation` has
  published the new status, under or before the same lock; and a worker
  that lowers a counter asks for a task itself afterwards, and sees its own
  write. A stale value of the counters in the exit test can only make a worker
  leave while others go on. This is an argument, not a proof: a model with
  reordered loads is on the plan.

### Pexe

`data`, `last_reads`, `last_writes` (the two halves of `last_locations`) and
`results` are the shared state. A worker inside an operation of `MvMemory`
(`mpc`) holds the mutex of `last_locations[tx]` to its end (`LastFree`), and
visits one location per step (`todo`) because the shards of `data` are locked
one access at a time. The VM is a deterministic function `Behaviour` of the
values read so far: read a location next, finish with these writes, stop at a
nonce or funds mismatch, fail, or meet a self-destructed account. Each read is a
step. Locations have absolute values, so that a read has one origin; lazy
updates are the subject of `LazyPexe`.

The values that transactions write are terms (who wrote, after reading what), so
that two executions write the same value only if they read the same values, and
a result is told by the values read. A slot of `execution_results` starts as
`Leftover`: `None`, or a result of an earlier block that was given up.

`Pexe` reuses the actions of `Scheduler`: `VmReadEstimate` *is* a `VmBlocking` with
the memory's answer, `ValidateCheck` a `Validate`, and so on. That every step of
`PexeSpec` is a step of `Scheduler` or a stutter holds by construction; it is a lemma
of `PexeProofs`, through which the theorems about the scheduler apply.

`get_code_hash` looks whether the account was destroyed before it compares the origins
(`vm.rs:216-221`), where the other reads compare first. A second read of a code hash
that has another origin than the first is therefore a fallback if the account was
destroyed meanwhile (`ReadsDestroyed`), and a retry otherwise.

### LazyPexe

The second model of the executor keeps the memory's protocol and replaces abstract
values by accounts with a balance and a nonce. A transaction is a plain transfer, or
a call of a contract that passes its value on: always (`pay`), or only to an account
that does not exist yet (`greet`). A call pays extra gas for a new account, so that
its gas depends on what it has read. The memory's variables are those of `Pexe`, with
`lazy_addresses`, the `keys` of `data` (an entry may be removed, its key stays), and
a *set* of origins per read.

| Definition | Code |
|---|---|
| `VmNew` | `VmDb::new`: lazy if the sender or the recipient is a key of `data` already |
| `Mock` | the accounts that a lazy transfer sees: a sender with `U256::MAX` and the right nonce, no recipient |
| `Walk`, `Origins`, `Account` | the loop of `VmDb::basic`: down through amounts to an absolute value or to storage (`Base`), adding up `balance_addition` and `nonce_addition` |
| `AccountWrites`, `Rewarded`, `Writes` | the write set, `apply_rewards` on it, both together |
| `AddLazyAddresses`, `RecordReads` … `ExecuteOk` | the end of `Vm::execute` |
| `OriginsHold` | `validate_read_locations` for a read with several origins |
| `Evaluate`, `EvaluatedResults`, `Outcome` | `execute_revm_parallel` after the join: funds and nonces of lazy senders are checked there, the accounts of the results overwritten |

A read of one account is one step: the shard of `data` stays locked during the loop.
`VmDb::new` looks up two keys; keys never go away, so that looking at both at once
gives the same answers. The balances are small numbers, and so is `MaxBalance`, which
stands for `U256::MAX`: no block comes near it. An account without balance and nonce is
the same as none, as after EIP-161. Nobody deploys code, so that reads of code
hashes are left out. A gas limit covers what the transaction can use
(`BlocksAssumption`): a block may hold transactions that cannot pay their fee, but
none that run out of gas. The two additions are sums over all transactions (`Total`,
with 0 for one that is not on the walk), in integers where the code keeps a sign
apart.

### RpcStorage

Threads call one storage; a call is a sequence of steps, each of which takes a lock
once or waits for a request. `then` says where a call goes on after `basic`, which
`code_hash`, `storage` and `basic_ref` start with. `basic` has three requests under way
at a time (`tokio::join!`); each may fail at any time and has its own `lives`. The
provider answers for one block, so that its answers do not change. `cache_accounts`
and its slots hold values or `Absent`; a code is its own bytecode and its hash.

| Action | Code |
|---|---|
| `RequestOk`, `RequestFails` | the loop of `fetch` |
| `BasicLookup`, `BasicFetched`, `CacheCode`, `CacheAccount` | `basic`: the lookup, the `?`s and the test for a new account, the two insertions |
| `CodeHash`, `CodeByHash` | `code_hash` and `code_by_hash`, also within `StorageWrapper::basic_ref` |
| `SlotLookup`, `SlotFetched`, `CacheSlot` | `storage`, with `basic` in between |
| `BlockLookup`, `BlockFetched`; `AskProof`, `ProofFetched` | `block_hash`; `has_storage` |
| `IntoSnapshot`, `MemBasic` … `MemBlockHash` | `into_snapshot`, and `InMemoryStorage` over it |

`overlapped`, `asked` and `faults` are history variables. `workload` only says which
calls a behaviour consists of. `block_hash` panics for a block that does not exist;
the EVM asks for recent ones only.

### PerpDex

The Perp DEX is a component of its own: nothing in the repository connects it to
the parallel executor yet. `PerpDexExecutor::execute` reads the storage and returns
a write set; tests and benchmarks look at the result, and no code applies the
writes. The model has an external caller that does, with what the storage offers:
threads that execute and apply transactions, one at a time of each user, and that
may apply a `Deleted` with `set` or with `delete`.

| Action | Code |
|---|---|
| `Execute`, `NonceMismatch` | the nonce check of `execute` |
| `Operate` | one operation (`ExecutePlaceOrder`, `ExecuteCancelOrder`, `ExecuteCancelAll`, `ExecuteSetLeverage`, `ExecuteAdjustMargin`); an error ends the transaction without writes |
| `UpdateNonce` | the last write |
| `AddOrderIndex`, `InsertData` | `InMemoryStorage::set`: index, then data |
| `RemoveOrderIndex`, `RemoveData` | `InMemoryStorage::delete`: index, then data |

An operation is one step: it reads only locations of its own user, whose only
transaction this is, and `next_order_id` with one `fetch_add`. An order at rest is
its remaining size; a position is its size, entry price, leverage and margin.
`PRICE_PRECISION` is a constant, so that the rounding of the divisions happens
with small numbers.

Integers have widths, given by the constants `I128Max` and `U256Max`. A filled size is
clamped to the largest `i128` (`SizeDelta`), its sum with the position wraps
(`WrapI128`), and so does `i128::abs` of the smallest number; products and sums of
`U256` wrap (`WrapU256`), as `ruint` defines them. Overflow of an `i128` is that of a
release build; a debug build panics there. That the unsigned
subtractions do not wrap is `NeverOverdrawn`.

Three variables are history. `filled` is, per market, the fill reported by the last
operation of a transaction that writes the position, `reported` the sum of these over
the applied transactions, `overflowed` the positions that a fill was clamped at or
wrapped. In `CancelAll`, market 0 stands for
`None`; market ids start at 1, as in the codec.

### HybridCodec

Bytes are grouped into the fields the encoder writes, with their widths; the
decoder moves by byte offsets and looks up the field that starts there, so that an
offset that is out of step would be an error. `cut` is the length of the input,
anything up to what was encoded; `trailer` is what may follow. An `Option` is
encoded as 0 when it is `None`, so that `Some(0)` is not among the inputs: the code
says that 0 means `None` (`hybrid.rs:153`). Where fields end is a recursive function
(`Ends`), so that it can be reasoned about. `TransactionsAssumption` gives the Rust types of
what is encoded, `TrailersAssumption` says that a trailer is foreign (`IsForeign`): it starts with
an unknown type of operation, with an order of an unknown type, or with a `CancelOrder`
that announces more ids than there are bytes left (any count that eight bytes hold).

`DecodeCancelOrder` counts the bytes of the ids in `usize` before it checks them
(`hybrid.rs:183-190`): `count * 8` and the sum with `offset` wrap at `U64Range` (`Usize`), so that a
count of 2^61 passes the check (`PassesCheck`). `Vec::with_capacity(count)` then
panics, because that many ids are more than `isize::MAX` bytes (`IsizeMax`); the state
`panic` stands for it. A debug build panics one line earlier, at the
multiplication or the addition. `InputAssumption` says that an input is shorter than
`isize::MAX`, as every Rust slice is.

## 3. Properties

`Scheduler`:

* `TypeOK`: every index that leaves `next_task` is below `block_size`, which the
  unchecked `index_mutex!` relies on.
* `ExclusiveExecution`: a transaction has at most one executor, working on its
  current incarnation, and is `Executing` only while it has one.
* `ResumedExactlyOnce`: a transaction is `Aborting` exactly when one party, and
  only one, will make it ready.
* `WaitsForUnfinished`: nobody waits for a transaction that has executed, and
  waits point down the block.
* `NumValidatedIsExact`, `NoLostTask`, `CompletionIsTotal`, `AbortHasReason`,
  `LifeCycle`, as their comments say.

`Pexe`:

* `ReturnsSequential`: `PexeSpec` implements `BlockExecution`, the specification
  of the caller's view.
* `FinalMemory`: after the join, no `ESTIMATE` is left and the highest entries
  are the final state of sequential execution.
* `EstimateIsUnfinished`, `FinishedIsRecorded`: the markers and entries of the
  memory agree with the statuses of the scheduler.
* `ReadsAreCovered`: a finished transaction with a read that has become outdated *will* be
  validated: by a worker that is about to look at that location, or through
  `validation_idx`, which has not passed it or is about to be moved back. Every step
  that changes the memory could lose such a validation.
* `PexeTermination`, `MemTypeOK`.

`LazyPexe`:

* `EvaluatesSequential`: `LazySpec` implements `BlockExecution` as well, now with gas,
  balances and nonces, and with transactions that are lazy in one interleaving and
  not in another.
* `SettledPrefixIsSequential`: the account that `VmDb::basic` puts together for the
  reader at `t` is the sequential one as soon as everything below `t` is validated and
  nobody is about to change that. This is about the sums themselves, in the middle of
  a block.
* `LazyIsListed`: an amount in the memory is never without its address in
  `lazy_addresses`, also while transactions are aborted and become lazy or cease to be.
* `NoEstimateIsLeft`: the evaluation meets no `ESTIMATE` (`unreachable!()` at `pexe.rs:327`),
  although a transaction that is lazy in one incarnation and not in the next writes
  other locations.

`RpcStorage`:

* `AnswersAreRight`: a call is answered as the chain would, whatever other threads
  insert and overwrite meanwhile, and fails only if one request has failed
  `RETRY_LIMIT + 1` times. This is what lets `Pexe` and `LazyPexe` take the storage
  for a constant.
* `CacheIsFaithful`: the caches hold what the chain has, never a new account, and the
  bytecode of every account that can be found.
* `SnapshotReplays`: after sequential use, `InMemoryStorage` answers from the snapshot
  what `RpcStorage` had answered, although some calls failed half-way.
* `EveryCallReturns`.

`PerpDex`:

* `OrderIdsAreUnique`, although ids are taken when an order is executed and used
  when its write set is applied, by threads in any order.
* `IndexFindsOrders`: a resting order that nobody is working on is in the index,
  once, although index and data are changed under two locks.
  `CancelAllEmptiesMarket` is what this is for.
* `NeverOverdrawn`, although the operations of a transaction do not see each other's
  deductions.
* `PositionIsLastFills`: over any sequence of opening, adding, reducing, closing and
  flipping, a position is the sum of the fills that were reported: of each transaction, the one
  of the last operation to write the position. Operations do not see the writes of those before
  them in the same transaction, so that earlier fills are lost. Exempt
  are positions that a fill was too large for.
* `EntryPriceIsBounded`: no entry price is above all prices of fills, over averaging with
  rounding divisions and products that wrap; with the same exemption, without which it
  is false: a large notional is then divided by a size that has wrapped.
* `DeductionsStay` is what a comment says of deductions, and what the code violates
  (section 7).

`HybridCodec`, for every cut and every foreign trailer:

* `ReadsInBounds`: what the checks let pass is within the input. The only panic is that of
  `Vec::with_capacity`, and only for a foreign `CancelOrder` that announces more ids than
  an address space holds; an encoded transaction, whole or cut, never meets it.
* `DecodesWhatWasEncoded`: whatever is accepted was encoded, a count that wraps included.

Each has a *mutant* in `PROJECT.json`: a definition changed as a plausible bug would
change it (a dropped guard, a forgotten counter, a swapped order), with which TLC
finds the property violated.

## 4. Runs

| Run | Instance | Distinct states | Shows |
|---|---|---|---|
| `scheduler` | 2 workers, 3 transactions, 1 send-back per transaction, faults | 175 thousand | all safety properties of the scheduler, no deadlock |
| `pexe_conflicts` | 2 workers, all 27 blocks of 3 transactions of 3 kinds that conflict, and all 64 of 4 kinds around a code hash, one of which meets a destroyed account and one of which is invalid | 1.7 million | `ReturnsSequential`, the memory invariants, `ReadsAreCovered`; reads past an `ESTIMATE`, inconsistent reads, fallback and errors |
| `pexe_live` | 2 workers, 29 blocks of 3 transactions around one sender and a beneficiary, with invalid transactions and self-destructed accounts | 690 thousand | waiting for nonces, initial `ESTIMATE`s, `ReturnsSequential`; `PexeTermination`: completed or given up |
| `lazy_transfers` | 2 workers, 16 blocks of 3 transfers and calls | 830 thousand | `EvaluatesSequential`, `SettledPrefixIsSequential`, `LazyIsListed`, `NoEstimateIsLeft` |
| `rpc_storage` | 2 threads, 3 workloads, 1 retry, any request fails | 100 thousand | answers, cache, snapshot; `EveryCallReturns` |
| `perpdex` | 2 threads; 2 users, 2 markets, 2 transactions each, orders that rest and are cancelled; or 1 user, 4 transactions: 7 kinds of trades, two of them or a trade and a margin change in one transaction, leverages at their limits; or orders that are clamped, overflow the position, or have a notional that wraps | 581 thousand | ids, index and `CancelAll`; fills, positions, balances |
| `hybrid_codec` | all transactions of up to 2 of 8 operations, cut at every byte, 6 trailers, of which 3 announce too many ids | 202 thousand | decoding of whole, cut and foreign inputs |
| `pexe_stale_abort`, `lazy_swept`, `perpdex_cancel_all`, `perpdex_margins`, `hybrid_accept` | | | the findings of section 7 |

*Bounds.* Three transactions are what a chain of conflicts needs: one that writes,
one in the middle that is aborted, one that has read from it. Two workers give
every interleaving of two operations; what three or more could do to each other
through the scheduler is covered by the proofs. In `MCScheduler` the environment sends a transaction back only while its
incarnation is below `MaxIncarnation`; aborts in flight still exceed it. Without
that bound an environment may abort for ever, and incarnation numbers would be
infinite. `MCBlocking` answers `Blocking(b)` only for an unfinished `b`, which is
what `EstimateIsUnfinished` says of the real memory; the previous transaction of a
nonce mismatch may be finished, in which case `add_dependency` returns to a
retry, a step that `VmRetry` takes as well. `Pexe` needs no such bound: a block
has finitely many incarnations, except with code hashes. A reader of a code hash
does not wait at an `ESTIMATE` but takes the value in storage; its validation
fails, and this can repeat as long as the writer does not finish. Hence the
`CONSTRAINT` of `pexe_conflicts`, which is about the blocks with code hashes only.

In `LazyPexe`, three transactions let a new account be paid lazily, send lazily and be
read, in every order; the blocks of `lazy_transfers` are the orders of four such
transactions, taken three at a time, with blocks for the beneficiary as a sender,
transfers of nothing and to oneself, a sender without funds and a skipped nonce. No new
account in them spends all it was sent; that is `lazy_swept`. In `RpcStorage`, calls do
not use anything up and the state space is finite as it is; one retry stands for
eight, since lives are only compared with 0. An account matters to itself only, hence
the workloads: calls of one contract; a precompile next to a new address; calls that
touch no cached account.

In `PerpDex`, no transaction starts beyond the `maxNonce` and `maxOrderId` of its workload. Two
transactions of each user, interleaved, place an order, cancel it and find it in
the index; four trades open, add to, flip and close a position. `I128Max = 7` and
`U256Max = 255` are large enough for three of the trades, of sizes up to 3, to add up in
most orders without an overflow, and small enough for the orders of the third workload to be
clamped (sizes of 9), to overflow the position (4 and 4) and to wrap a notional (a
price of 130). In `HybridCodec` two operations are enough:
the decoder keeps nothing but its offset between operations. `U64Range = 1024` holds
every offset of such an input; the counts 128 and 127 wrap to no bytes at all,
and to an end before the ids. `CHECK_DEADLOCK FALSE` is for decoding,
which ends.

*Symmetry* over the workers (threads) is used in the safety runs only.

*Fairness.* `PexeFairSpec` asks weak fairness of every worker: the operating system
keeps running every thread, and mutexes that are free are granted. Nothing is
assumed of the VM or the memory. In `RpcStorage`, a thread that is in a call goes on,
and a request has an end, one way or the other; that it succeeds is not
assumed. `PexeTermination` is about blocks in which every
nonce is reached: a transaction that never finds its nonce is retried for ever, as
the comment at `vm.rs:683-688` admits. An invalid transaction, or one that reads a
self-destructed account, ends the block, and all workers leave.

After a block has been given up, a transaction may stay `Executing`: its worker
leaves after `abort_reason` is seen. `ExecutingHasOwner` and `NoLostTask` are
therefore about blocks that are not aborted.

## 5. What is proved

The theorems hold for every value of the constants that satisfies the named
assumptions: any number of transactions and workers (threads), any locations, any
block, any chain, any market. `PROJECT.json` lists the results; the lemmas they
rest on precede them. All of them are safety properties.

### The scheduler

`SchedulerProofs` proves `Spec => []IInv` (theorem `Invariance`), where `IInv` is the
conjunction of

* `TypeOK` and `RegOK` (what the registers hold at which program counter);
* `ExclusiveExecution`, `ResumedExactlyOnce`, `WaitsForUnfinished`,
  `NumValidatedIsExact`, `NoLostTask`;
* `LocksAreExclusive`, `BlockerIsUnfinished`, `DrainedIsEmpty`, `FinishIsCovered`: what
  a thread may rely on while it holds a status mutex. `LocksAreExclusive` is needed
  because mutexes are derived from program counters; the others are why
  `WaitsForUnfinished` survives `FinishStatus`: the list was drained under the lock,
  and nobody can append without it;
* `ExecutionIdxIsSeen`, `ValidationIdxIsSeen`: a counter below `BlockSize` has a worker
  that is not about to leave on having seen it at the end. `NoLostTask` alone would
  allow a task ahead of a counter when nobody is left to move it;
* `AbortInv`: who has given the block up has left a reason or is about to.

`IInv` was first checked by TLC. The proof that a step preserves it has one step per
action; each conjunct that an action can disturb has its own step below, and the
rest follows from frame lemmas.

`CompletionIsTotal` follows from `IInv`: when all have exited and the block is not
aborted, both counters are at the end; no transaction is `Executing` (no
executor), ready or executed (`NoLostTask`); and none is `Aborting`, for the
least one would wait for a lower transaction that is unfinished, hence ready,
executing or aborting itself. The argument does not use `num_validated` at all:
that workers leave on a stale number costs parallelism, not correctness.

`LifeCycle` is proved as an action property from the same invariant.

A step of `PexeSpec` is one of `Scheduler`, so that `PexeProofs` has its theorems: every
transaction is validated when the threads have joined a block that was not given up
(`PexeCompletes`), for every set of blocks, locations and behaviours.

### The executor returns what sequential execution returns

This is the claim of the engine, and the theorems about `Pexe` lead up to it.

*Hypotheses.* `VmContract` says what every behaviour keeps to (`VmKeeps`), whatever
was read: reads and writes are of locations; at most `MaxReads` reads, since an
execution ends; and a transaction that `build_mv_memory` has marked at a location
writes it when it succeeds, as `apply_rewards` does for the beneficiary. Without
the last part an initial `ESTIMATE` would stay. `ErrorsAreReal`, which only the last theorem
needs, says that an error other than a nonce mismatch or missing funds does not come
from a speculative value. The code relies on it: `vm.rs:701` gives the block up at
the first such error, without waiting for a validation. `MCPexe` checks both with
`ASSUME` on its catalogues, for sequences of reads up to one longer than `MaxReads`.

*The memory* (`PexeProofs`). `MInv` adds to `IInv`: the shape of the state; in which
operation of `MvMemory` a worker can be at which program counter, and that the
mutex of `last_locations` admits one at a time (`MpcOK`); and, for each transaction,
what is in the memory (`EntriesOK`): exactly what its last execution wrote, at the
current incarnation, if it has a record and nobody is marking it; only `ESTIMATE`s
where it wrote, if it has none; and in between, a written or marked part and the
rest. `EstimateIsUnfinished` and `FinishedIsRecorded` are not inductive, because `record` and
`convert_writes_to_estimates` go one location at a time, and because a transaction
is already `Aborting` while its entries are still data.

*Serializability* (`PexeSerialProofs`). `SInv` adds:

* `ReadsOK`: the recorded reads explain the execution. Each value is what the transaction
  asked for after the values before it, and it is the one in storage or the one its
  origin wrote, unless the origin is at a later incarnation or is being aborted;
* `ReadsAreCovered` (`ReadsAreCoveredHolds`): unless the block is given up, a finished transaction with a read that
  would not pass validation now *will* be validated: `validation_idx` is not past it, or
  a worker is on the way to rewind the index, or a worker is checking it and has not
  come to that location. This is the heart of it. Every step that changes the
  memory can outdate reads of higher transactions, and each has to leave one of
  these behind: `record` through `WroteNewLocation`, the abort through `finish_validation`.
  A version overwritten at an old location needs no rewinding by `finish_execution`: its
  readers were covered when the previous version was aborted.

After the join of a block that was not given up nobody is left to cover anything, so
that no read is outdated. The transactions then agree with sequential execution one by one:
if one did not, the least one would have read, from lower ones, other values than
sequential execution, which contradicts `ReadsOK`. From this follow
`FinalMemoryHolds` and, in the same module, `MemTypeOKHolds`.

*What is returned* (in the same module). `RInv` adds who gives a block up for which
reason. If all succeed, the results are those of sequential execution by the above; an
execution error is one of sequential execution by `ErrorsAreReal`; a fallback calls
it. `ReturnsSequentialHolds` is the refinement: `PexeSpec` implements `BlockExecution`.

### Lazy updates

`LazyPexeProofs` proves for `LazyPexe` what `PexeProofs` proves for `Pexe`,
for every block of transfers and calls, whichever of them are lazy (`LazyCompletes`, and
the memory). `LInv` is the conjunction of `IInv`, the shape
of the state, `MpcOK`, `EntriesOK` and `LazyIsListed`. `MpcOK` says that a lazy transfer that has
reached `record` has its addresses registered; `LazyIsListed` is not inductive
without it, nor without the part of `EntriesOK` by which a worker inserts
nothing but its write set. `NoEstimateIsLeft` combines `EntriesOK` with `CompletionIsTotal` of the
scheduler: every transaction is validated at the join, so that it has a complete
record. `EntriesOK` has to follow the set of locations from one incarnation to the
next: the beneficiary is always written, the accounts of a transaction change with
its being lazy.

*Serializability* (`LazySerialProofs`). The theorems are those of `PexeSerialProofs`, where a read
now has several origins and a value is what they add up to. `LSInv` adds to `LInv`:

* `ReadsInv`: the account that an execution has got is the sum (`Assembled`) over the
  transactions it has noted as origins, as long as all of them are at the noted
  incarnation and have their entry; among them the lowest and no other is absolute, or there
  is storage below amounts only (`Grounded`). The record of a transaction is that of an
  execution, lazy or not, which has read such accounts (`RecordAs`);
* `ReadsAreCovered`, as for `Pexe`: a finished transaction of which some read would not pass
  validation now will be validated, unless the block is given up. Here an entry
  may also vanish or appear *between* two origins: one that vanishes was an `ESTIMATE`, whose
  readers were covered when it was marked, and one that appears is a new location;
* `ErrInv`: a block is given up only if its first transaction cannot be paid for. The
  first reads from storage alone, so that this error is one of sequential execution;
* `AddressesOK`, `ReadShape`: types.

`GoodIsPrefix` is the induction over a prefix of transactions that have executed, have read nothing
outdated and could be executed at all. Before each of them the entries add up to the
accounts of sequential execution (`Prefix`), so that one that is not lazy has read
those (`PrefixIsRead`); and what it writes, lazily or not, makes of these accounts
the next ones (`LazyWritesApply`, `ReadWritesApply`, `RecordIsSequential`). The first of the two
has no hypothesis about what was read: the amounts of a lazy transfer are right in any state
in which its sender can pay. `SettledPrefixIsSequentialHolds` follows: nothing is broken in a prefix
that is settled, since nobody is left to cover it.

`EvaluatesSequentialHolds` is the refinement: `LazySpec` implements `BlockExecution`. After the join
the prefix is the block. If sequential execution can execute everything,
`EvaluateIsSequential` goes through the evaluation entry by entry (a location whose first entry is
absolute starts from nothing, `Fresh`), and `ResultIsSequential` compares the completed results. Otherwise
let the first transaction that it cannot execute be `u`: the parallel executor did execute it, which can
only have been lazy, so that the account of its sender ends in an error when it is evaluated
(`EvaluationFails`), and the others end in accounts or in errors, never at an entry that is
unreachable (`EvaluatedIs`).

Both theorems have the hypothesis `NotSwept`: no block leaves an account that storage does not have
with a nonce and without a balance. Without it the theorems are false (`lazy_swept`, section 7). `MCLazyPexe`
checks it with `ASSUME` on the blocks of `lazy_transfers` (`GiftAssumption`).

The assumptions on the constants are `CoinbaseAssumption`, `BalancesAssumption` and `BlocksAssumption`: the
beneficiary, senders and recipients are accounts, balances are natural numbers that a
`U256` can hold, and a gas limit covers what a transfer or a call of these contracts uses.

### RPC storage

`RpcStorageProofs` proves `RpcInv`: at each place of each call, the answers that have
arrived are the chain's (or an error after all retries), the caches hold nothing else,
and what a thread is about to insert, or relies on having been inserted, is there
(`PlaceOK`): an account in the cache is never removed, only replaced by an equal one
with fewer slots, so that `storage` finds the account that its call of `basic` has left.
`AnswersAreRight` and `CacheIsFaithful` follow. `SnapshotReplays` needs that, as long as calls
do not overlap, everything that was answered is in the cache (`SeqOK`), and the hypothesis
`NewIsEmpty`: an account with neither balance, nonce nor code has no storage, as on
any chain after EIP-161. `MCRpcStorage` asserts it of its chain.

### Perp DEX

`PerpDexProofs` proves `DexInv` for any number of users, markets and threads, and for any
batches of well-formed operations:

* the types of the data and of each write set, and where a thread may be;
* `IdInv`: an id is below `next_order_id`, and in one order or one write set only;
* `IndexInv`: the index lists an id once; one that is to be inserted is not in it yet; a
  resting order is in it unless the thread that deletes it has just taken it out.
  `IndexFindsOrders` alone is not inductive: index and data are changed under two
  locks, in this order;
* `PriceInv`: entry prices in the data and in write sets are at most the highest price a
  fill can have, over the weighted average with its rounding and its products that
  wrap, for every position that is not in `overflowed`;
* `FillInv`: the position in a thread's write set is the one in storage plus the fills it
  will report, for the same positions.

`NeverOverdrawn`, `OrderIdsAreUnique`, `IndexFindsOrders`, `EntryPriceIsBounded`,
`PositionIsLastFills` and the action property `CancelAllEmptiesMarket` follow, with no
hypothesis about what a batch holds. The assumptions on the constants are
`MarketsAssumption` (market ids start at 1, prices are `U256`s, and a `U256` holds more than
an `i128`) and `WorkloadsAssumption` (batches are sequences of `Operations`), which TLC evaluates.

### Hybrid codec

`HybridCodecProofs` proves that decoding inverts encoding for transactions of any number of
operations, and `CancelOrder`s of any number of ids. The invariant `CInv` says that, once the header
is read, the decoder stands where the first `k` operations of what was encoded end, within
the input, and has decoded exactly these. In front of operation `k + 1` each field is found where
the decoder looks for it (`DataAt`): no two fields of a sequence start at the same byte (`EndsGrow`),
and those of the operation start at the bytes behind the first `k` that their widths add up
to (`EndsConcat`). One lemma per kind of operation compares these with the offsets in the
code. Behind the last operation is a foreign field or the end of the input. For a
`CancelOrder` the check in `usize` either agrees with the one in integers, or the bytes
of the ids exceed `isize::MAX` and the count is foreign: what was encoded is no longer
than a slice can be (`NoWrap` and `CountedRight`, from `InputAssumption`).
`ReadsInBounds` and `DecodesWhatWasEncoded` follow. What recursive definitions (`Ends`, `FlattenSeq`)
compute is proved from a lemma about recursion up to a number (`Recursion`) and, where an
induction is needed, an argument about the least number for which the claim fails. The assumptions
are the ones named in section 2.

## 6. What is only model-checked

* Liveness (`PexeTermination`, `EveryCallReturns`): temporal reasoning with fairness and
  `ENABLED` is outside of what the prover supports.
* That a block ends with every transaction validated if nothing fails is proved as
  safety only: *when* all workers have left.

The library's induction theorems cannot be instantiated by the installed backends. Inductions
over transactions, or over numbers, are written out as arguments about the least one for
which a claim fails (lemmas `Least`, `LeastNumber`).

No module that is proved about uses `RECURSIVE` operators.

## 7. Where the code and its comments differ

* `pexe_stale_abort`: `scheduler.rs:264-265` says that only one failing validation
  per version leads to an abort, and `mv_memory.rs:137-139` that a late validation
  has no effect. `try_validation_abort` looks at the status and not at the
  incarnation, so that a late failing validation aborts the next version, even one
  that would have been valid. Costs an execution only: `ReturnsSequential` holds
  with it.
* `lazy_swept`: `vm.rs:361` returns no account if storage has none and the lazy amounts
  cancel out, although a lazy sender among them has raised the nonce. In the run, carol
  sends fred 3, fred sends 1 at a fee of 2, both lazily. A contract that pays fred next is
  charged for a new account and writes it with nonce 0, where sequential execution
  finds nonce 1. `tests/common/runner.rs:24-25` asserts "that the execution results
  match". Later transactions of fred would not find their nonce.
* `perpdex_cancel_all`: `types.rs:55` says that a `CancelAll` without a market means all
  markets. `execute_cancel_all` collects the ids of all markets, and deletes them in
  market 0 (`executor.rs:488`), where no order is.
* `perpdex_margins`: `executor.rs:437` (and 603) deducts from the balance in storage. Of two
  `AdjustMargin`s in one transaction, each writes what it leaves of the same balance, and
  the second write gives the first amount back: the margins of two positions grow by more
  than the balance shrinks, in a list of operations that `types.rs:10` has "execute atomically".
* `hybrid_accept`: `decode_operations` asks for 89 bytes for a `PlaceOrder`, of which it
  reads 85, as many as `encode_perpdex_tx` writes. A transaction that ends with a
  `PlaceOrder` is rejected, the one of `test_encode_decode_simple_order` too.

Met while modelling, and part of the model, without a run of their own:

* `lib.rs:199` says that the first transaction needs no validation. Since
  `NeedValidation` is the flag 0, `flags.contains` always holds, and the first
  transaction is validated like the others. Costs work only.
* `types.rs:10` says that the operations of a transaction are executed atomically.
  `read_location` reads the storage, not the write set: of two fills in one transaction,
  both reported, only the last one reaches the position. `PositionIsLastFills` says exactly
  how much is kept, `perpdex_margins` shows the same for balances.
* `types.rs:118` says that `filled_size` is the "amount filled immediately".
  `executor.rs:740` clamps it to the largest `i128` before it reaches the
  position, and line 744 may wrap (a debug build panics). A market order of price 0 needs
  no margin, so that nothing else limits its size. Such positions are in `overflowed`.
* `hybrid.rs:188` checks a count of ids after arithmetic that may wrap. A count of 2^61
  passes, and ends in the panic of `Vec::with_capacity` instead of `InvalidFormat`.
* `types.rs:41` says that a reduce-only order cannot increase the position.
  `is_reducing` compares directions, and a larger order flips the position.
* `rpc.rs:39-42` offers the caches of `RpcStorage` for a snapshot. Two threads that miss
  an account at the same time both insert it, and the second insertion drops the
  slots that were cached after the first: they are fetched again when needed, but a
  snapshot lacks them and replays 0. The fetch tool executes sequentially, and is not
  affected.
* `InMemoryStorage::has_storage` is true for an account of which only a slot with value 0
  was cached. Nothing calls it.

## 8. Not modelled, and the plan

Not modelled: what revm computes, receipts and gas sums, hashing of locations,
conversions between transaction formats, bytecode, storage reads that fail, the
fetch tool and `pevm_bak.rs`. Locations are assumed not to collide.

The plan, in order:

1. A variant of `Scheduler` in which loads of the exit test may be stale.
2. New bytecodes, and the rewards and estimates of Optimism.
