-------------------------------- MODULE Pexe --------------------------------
(***************************************************************************)
(* The parallel executor: the scheduler and its workers (module Scheduler) *)
(* closed by the multi-version memory (mv_memory.rs) and by a virtual      *)
(* machine (vm.rs) that runs a block of deterministic transactions.        *)
(*                                                                         *)
(* MvMemory takes the mutex of last_locations[t] for a whole operation and *)
(* the shard of a location for one access, so that an operation is one     *)
(* step per location.  Locations hold absolute values here (Storage, Basic *)
(* without lazy updates, CodeHash): a read has one origin.                 *)
(***************************************************************************)
EXTENDS Scheduler, Sequences, Functions, FiniteSetsExt

CONSTANTS
  Locations,          \* memory locations
  CodeHashes,         \* those of type CodeHash
  Blocks,             \* the blocks considered: what each transaction is
  Estimated,          \* estimated_locations of MvMemory::new: location -> transactions
  Behaviour(_, _, _), \* what a transaction k at t does once it has read these values
  MaxReads            \* no transaction reads more often than this

ASSUME MaxReadsAssumption == MaxReads \in Nat

(***************************************************************************)
(* Behaviour(k, t, vals) is one of                                         *)
(*   [op |-> "read", loc |-> l]       read l next                          *)
(*   [op |-> "ok", writes |-> f]      finish and write f[l] to l           *)
(*   [op |-> "notYet"]                nonce mismatch or funds short        *)
(*   [op |-> "invalid"]               any other error of the EVM           *)
(*   [op |-> "fallback"]              a self-destructed account was read   *)
(***************************************************************************)

\* What the virtual machine keeps to, whatever the transaction has read: it
\* reads and writes memory locations, and reads at most MaxReads times; and a
\* transaction that build_mv_memory expects to write a location writes it
\* (apply_rewards).
VmKeeps(k, t, v) ==
  LET x == Behaviour(k, t, v)
  IN /\ x.op = "read" => x.loc \in Locations /\ Len(v) < MaxReads
     /\ x.op = "ok" => /\ DOMAIN x.writes \subseteq Locations
                       /\ {l \in Locations : t \in Estimated[l]} \subseteq DOMAIN x.writes

VARIABLES
  block,              \* the block being executed
  data,               \* MvMemory.data: location -> transaction -> entry
  last_reads,         \* last_locations[t].read: location -> origin
  last_writes,        \* last_locations[t].write
  results,            \* Pexe.execution_results: a result is told by what was read
  mpc,                \* the MvMemory operation a worker is in
  vals,               \* the values read by the execution in progress
  reads,              \* VmDb.read_set of that execution
  todo,               \* the locations an operation still has to visit
  wrote               \* wrote_new_location of record

shared == <<data, last_reads, last_writes, results>>
memLocals == <<mpc, vals, reads, todo, wrote>>
memVars == <<block, shared, memLocals>>
pexeVars == <<vars, memVars>>

NoEntry == [kind |-> "none"]
Estimate == [kind |-> "estimate"]
Data(i, v) == [kind |-> "data", inc |-> i, val |-> v]
Unread == [from |-> "none"]
FromStorage == [from |-> "storage"]
FromTx(t, i) == [from |-> "tx", tx |-> t, inc |-> i]
NoReads == [l \in Locations |-> Unread]
\* What a slot of execution_results holds before the block: nothing, or a
\* result that an earlier block, given up, has left there.
Leftover == <<[by |-> -2]>>

\* The value in the storage that the block starts from.
Initially(l) == [by |-> -1, read |-> <<>>, loc |-> l]

PexeInit ==
  /\ Init
  /\ block \in Blocks
  /\ data = [l \in Locations |-> [t \in Txs |->
              IF t \in Estimated[l] THEN Estimate ELSE NoEntry]]
  /\ last_reads = [t \in Txs |-> NoReads]
  /\ last_writes = [t \in Txs |-> {}]
  /\ results = [t \in Txs |-> Leftover]
  /\ mpc = [w \in Workers |-> "idle"]
  /\ vals = [w \in Workers |-> <<>>]
  /\ reads = [w \in Workers |-> NoReads]
  /\ todo = [w \in Workers |-> {}]
  /\ wrote = [w \in Workers |-> FALSE]

\* The mutex of last_locations[t].
LastFree(t) == \A w \in Workers : ~(mpc[w] # "idle" /\ tx[w] = t)

\* Mutant: range(..) for range(..t).
WritersAnywhere(l, t) == {u \in Txs : data[l][u].kind # "none"}

\* The entry of the highest transaction below t, and the origin it stands for.
Writers(l, t) == {u \in Txs : u < t /\ data[l][u].kind # "none"}
Closest(l, t) == data[l][Max(Writers(l, t))]
IsEstimate(l, t) == Writers(l, t) # {} /\ Closest(l, t).kind = "estimate"
HasData(l, t) == Writers(l, t) # {} /\ Closest(l, t).kind = "data"
Origin(l, t) == IF HasData(l, t) THEN FromTx(Max(Writers(l, t)), Closest(l, t).inc) ELSE FromStorage
Value(l, t) == IF HasData(l, t) THEN Closest(l, t).val ELSE Initially(l)

\* An ESTIMATE stops a read; get_code_hash takes the hash in storage instead.
Blocked(l, t) == IsEstimate(l, t) /\ l \notin CodeHashes

ResetLocals(w) ==
  /\ mpc' = [mpc EXCEPT ![w] = "idle"]
  /\ vals' = [vals EXCEPT ![w] = <<>>]
  /\ reads' = [reads EXCEPT ![w] = NoReads]
  /\ todo' = [todo EXCEPT ![w] = {}]
  /\ wrote' = [wrote EXCEPT ![w] = FALSE]

\* What the execution of worker w does next, and that it does op.
Now(w) == Behaviour(block[tx[w]], tx[w], vals[w])
Does(w, op) == pc[w] = "execute" /\ mpc[w] = "idle" /\ Now(w).op = op

-----------------------------------------------------------------------------
(* VmDb: the reads of an execution *)

\* Read an absolute value; push_origin accepts the first origin or the same.
VmRead(w) ==
  /\ Does(w, "read")
  /\ LET l == Now(w).loc
     IN /\ ~Blocked(l, tx[w])
        /\ reads[w][l] \in {Unread, Origin(l, tx[w])}
        /\ reads' = [reads EXCEPT ![w][l] = Origin(l, tx[w])]
        /\ vals' = [vals EXCEPT ![w] = Append(@, Value(l, tx[w]))]
  /\ UNCHANGED <<vars, block, shared, mpc, todo, wrote>>

\* The second read of l has another origin than the first.
IsInconsistent(w, l) == ~Blocked(l, tx[w]) /\ reads[w][l] \notin {Unread, Origin(l, tx[w])}

\* get_code_hash looks whether the account was destroyed before it compares the
\* origins, so that an inconsistent read may find that first.
ReadsDestroyed(w, l) ==
  /\ l \in CodeHashes /\ HasData(l, tx[w])
  /\ Behaviour(block[tx[w]], tx[w], Append(vals[w], Value(l, tx[w]))).op = "fallback"

\* ReadError::InconsistentRead.
VmReadInconsistent(w) ==
  /\ Does(w, "read")
  /\ IsInconsistent(w, Now(w).loc) /\ ~ReadsDestroyed(w, Now(w).loc)
  /\ VmRetry(w)
  /\ ResetLocals(w)
  /\ UNCHANGED <<block, shared>>

\* ReadError::Blocking on an ESTIMATE.
VmReadEstimate(w) ==
  /\ Does(w, "read")
  /\ Blocked(Now(w).loc, tx[w])
  /\ VmBlocking(w, Max(Writers(Now(w).loc, tx[w])))
  /\ ResetLocals(w)
  /\ UNCHANGED <<block, shared>>

\* Mutant: give the block up at once.
VmNotYetFatal(w) ==
  /\ Does(w, "notYet")
  /\ VmFatal(w)
  /\ UNCHANGED memVars

\* The nonce does not match or the sender lacks funds: wait for the
\* transaction before, if there is one.
VmNotYet(w) ==
  /\ Does(w, "notYet")
  /\ IF tx[w] > 0 THEN VmBlocking(w, tx[w] - 1) /\ ResetLocals(w)
                  ELSE VmFatal(w) /\ UNCHANGED memLocals
  /\ UNCHANGED <<block, shared>>

\* ReadError::SelfDestructedAccount, or an error that no transaction below can
\* have caused.
VmStop(w) ==
  /\ \/ Does(w, "fallback") \/ Does(w, "invalid")
     \/ Does(w, "read") /\ IsInconsistent(w, Now(w).loc) /\ ReadsDestroyed(w, Now(w).loc)
  /\ VmFatal(w)
  /\ UNCHANGED memVars

\* The error that get_or_init keeps, and the end of a failed execution.
GiveUp(w) ==
  /\ SetAbortReason(w, IF Now(w).op \in {"fallback", "read"}
                         THEN "FallbackToSequential" ELSE "ExecutionError")
  /\ ResetLocals(w)
  /\ UNCHANGED <<block, shared>>

-----------------------------------------------------------------------------
(* MvMemory::record *)

RecordReads(w) ==
  /\ Does(w, "ok")
  /\ LastFree(tx[w])
  /\ last_reads' = [last_reads EXCEPT ![tx[w]] = reads[w]]
  /\ mpc' = [mpc EXCEPT ![w] = "remove"]
  /\ UNCHANGED <<vars, block, data, last_writes, results, vals, reads, todo, wrote>>

\* Mutant: forget the old location, but leave its entry in the memory.
RecordRemoveKeeps(w) ==
  /\ mpc[w] = "remove"
  /\ todo' = [todo EXCEPT ![w] = DOMAIN Now(w).writes]
  /\ last_writes' = [last_writes EXCEPT ![tx[w]] = @ \cap DOMAIN Now(w).writes]
  /\ mpc' = [mpc EXCEPT ![w] = "insert"]
  /\ UNCHANGED <<vars, block, data, last_reads, results, vals, reads, wrote>>

\* Remove an old location that is not written any more, or start to write.
RecordRemove(w) ==
  /\ mpc[w] = "remove"
  /\ LET old == last_writes[tx[w]] \ DOMAIN Now(w).writes
     IN \/ \E l \in old :
             /\ data' = [data EXCEPT ![l][tx[w]] = NoEntry]
             /\ last_writes' = [last_writes EXCEPT ![tx[w]] = @ \ {l}]
             /\ UNCHANGED <<mpc, todo>>
        \/ /\ old = {}
           /\ todo' = [todo EXCEPT ![w] = DOMAIN Now(w).writes]
           /\ mpc' = [mpc EXCEPT ![w] = "insert"]
           /\ UNCHANGED <<data, last_writes>>
  /\ UNCHANGED <<vars, block, last_reads, results, vals, reads, wrote>>

\* Mutant: an entry that is there already, as the marker of an earlier
\* incarnation is, is not replaced.
RecordInsertKeeps(w) ==
  /\ mpc[w] = "insert"
  /\ \E l \in todo[w] :
       /\ data' = IF data[l][tx[w]].kind = "none"
                    THEN [data EXCEPT ![l][tx[w]] = Data(inc[w], Now(w).writes[l])] ELSE data
       /\ last_writes' = [last_writes EXCEPT ![tx[w]] = @ \cup {l}]
       /\ wrote' = [wrote EXCEPT ![w] = @ \/ l \notin last_writes[tx[w]]]
       /\ todo' = [todo EXCEPT ![w] = @ \ {l}]
  /\ UNCHANGED <<vars, block, last_reads, results, mpc, vals, reads>>

\* Mutant: a new location is not added to the last written ones.
RecordInsertForgets(w) ==
  /\ mpc[w] = "insert"
  /\ \E l \in todo[w] :
       /\ data' = [data EXCEPT ![l][tx[w]] = Data(inc[w], Now(w).writes[l])]
       /\ wrote' = [wrote EXCEPT ![w] = @ \/ l \notin last_writes[tx[w]]]
       /\ todo' = [todo EXCEPT ![w] = @ \ {l}]
  /\ UNCHANGED <<vars, block, last_reads, last_writes, results, mpc, vals, reads>>

RecordInsert(w) ==
  /\ mpc[w] = "insert"
  /\ \E l \in todo[w] :
       /\ data' = [data EXCEPT ![l][tx[w]] = Data(inc[w], Now(w).writes[l])]
       /\ last_writes' = [last_writes EXCEPT ![tx[w]] = @ \cup {l}]
       /\ wrote' = [wrote EXCEPT ![w] = @ \/ l \notin last_writes[tx[w]]]
       /\ todo' = [todo EXCEPT ![w] = @ \ {l}]
  /\ UNCHANGED <<vars, block, last_reads, results, mpc, vals, reads>>

\* Mutant: the result of an earlier incarnation is kept.
ExecuteOkFirstResult(w) ==
  /\ mpc[w] = "insert"
  /\ todo[w] = {}
  /\ VmOk(w, (IF tx[w] > 0 THEN NeedValidation ELSE {})
               \cup (IF wrote[w] THEN WroteNewLocation ELSE {}))
  /\ results' = [results EXCEPT ![tx[w]] = IF @ = Leftover THEN vals[w] ELSE @]
  /\ ResetLocals(w)
  /\ UNCHANGED <<block, data, last_reads, last_writes>>

\* Mutant: a re-execution is taken to write where the first execution did.
ExecuteOkOldLocations(w) ==
  /\ mpc[w] = "insert"
  /\ todo[w] = {}
  /\ VmOk(w, (IF tx[w] > 0 THEN NeedValidation ELSE {})
               \cup (IF wrote[w] /\ inc[w] = 0 THEN WroteNewLocation ELSE {}))
  /\ results' = [results EXCEPT ![tx[w]] = vals[w]]
  /\ ResetLocals(w)
  /\ UNCHANGED <<block, data, last_reads, last_writes>>

\* Vm::execute returns: the flags, the stored result, then finish_execution.
ExecuteOk(w) ==
  /\ mpc[w] = "insert"
  /\ todo[w] = {}
  /\ VmOk(w, (IF tx[w] > 0 THEN NeedValidation ELSE {})
               \cup (IF wrote[w] THEN WroteNewLocation ELSE {}))
  /\ results' = [results EXCEPT ![tx[w]] = vals[w]]
  /\ ResetLocals(w)
  /\ UNCHANGED <<block, data, last_reads, last_writes>>

-----------------------------------------------------------------------------
(* MvMemory::validate_read_locations *)

ValidateStart(w) ==
  /\ pc[w] = "validate" /\ mpc[w] = "idle"
  /\ LastFree(tx[w])
  /\ todo' = [todo EXCEPT ![w] = {l \in Locations : last_reads[tx[w]][l] # Unread}]
  /\ mpc' = [mpc EXCEPT ![w] = "check"]
  /\ UNCHANGED <<vars, block, shared, vals, reads, wrote>>

\* Mutant: the incarnation of the origin is not compared.
OriginHoldsAnyIncarnation(l, t) ==
  /\ ~IsEstimate(l, t)
  /\ Origin(l, t).from = last_reads[t][l].from
  /\ HasData(l, t) => Origin(l, t).tx = last_reads[t][l].tx

\* Mutant: a value from storage stands as long as there is no other value.
OriginHoldsBesideEstimate(l, t) == Origin(l, t) = last_reads[t][l]

\* Reading the location again yields the same origin; an ESTIMATE is something
\* in between.
OriginHolds(l, t) == ~IsEstimate(l, t) /\ Origin(l, t) = last_reads[t][l]

ValidateCheck(w) ==
  /\ mpc[w] = "check"
  /\ \E l \in todo[w] :
       \/ /\ OriginHolds(l, tx[w])
          /\ todo' = [todo EXCEPT ![w] = @ \ {l}]
          /\ UNCHANGED <<vars, mpc, vals, reads, wrote>>
       \/ /\ ~OriginHolds(l, tx[w])
          /\ Validate(w, FALSE)
          /\ ResetLocals(w)
  /\ UNCHANGED <<block, shared>>

ValidateEnd(w) ==
  /\ mpc[w] = "check"
  /\ todo[w] = {}
  /\ Validate(w, TRUE)
  /\ ResetLocals(w)
  /\ UNCHANGED <<block, shared>>

-----------------------------------------------------------------------------
(* MvMemory::convert_writes_to_estimates *)

ConvertStart(w) ==
  /\ pc[w] = "convert" /\ mpc[w] = "idle"
  /\ LastFree(tx[w])
  /\ todo' = [todo EXCEPT ![w] = last_writes[tx[w]]]
  /\ mpc' = [mpc EXCEPT ![w] = "mark"]
  /\ UNCHANGED <<vars, block, shared, vals, reads, wrote>>

ConvertOne(w) ==
  /\ mpc[w] = "mark"
  /\ \E l \in todo[w] :
       /\ data' = [data EXCEPT ![l][tx[w]] = Estimate]
       /\ todo' = [todo EXCEPT ![w] = @ \ {l}]
  /\ UNCHANGED <<vars, block, last_reads, last_writes, results, mpc, vals, reads, wrote>>

ConvertEnd(w) ==
  /\ mpc[w] = "mark"
  /\ todo[w] = {}
  /\ ConvertWrites(w)
  /\ ResetLocals(w)
  /\ UNCHANGED <<block, shared>>

-----------------------------------------------------------------------------
PexeStep(w) ==
  \/ pc[w] # "setReason" /\ WorkerStep(w) /\ UNCHANGED memVars
  \/ VmRead(w) \/ VmReadInconsistent(w) \/ VmReadEstimate(w)
  \/ VmNotYet(w) \/ VmStop(w) \/ GiveUp(w)
  \/ RecordReads(w) \/ RecordRemove(w) \/ RecordInsert(w) \/ ExecuteOk(w)
  \/ ValidateStart(w) \/ ValidateCheck(w) \/ ValidateEnd(w)
  \/ ConvertStart(w) \/ ConvertOne(w) \/ ConvertEnd(w)

PexeNext == (\E w \in Workers : PexeStep(w)) \/ (Joined /\ UNCHANGED memVars)

PexeSpec == PexeInit /\ [][PexeNext]_pexeVars

\* The operating system runs every thread again and again, and every mutex
\* that is free infinitely often is granted.
PexeFairSpec == PexeSpec /\ \A w \in Workers : WF_pexeVars(PexeStep(w))

-----------------------------------------------------------------------------
(* execute_revm_sequential *)

\* The values transaction t of block b reads when it runs alone on the state s.
SeqReads(b, t, s) ==
  LET v[k \in 0 .. MaxReads] ==
        IF k = 0 THEN <<>>
        ELSE LET u == v[k - 1]
                 x == Behaviour(b[t], t, u)
             IN IF x.op = "read" THEN Append(u, s[x.loc]) ELSE u
  IN v[MaxReads]

SeqLast(b, t, s) == Behaviour(b[t], t, SeqReads(b, t, s))

\* The state before each transaction, and after the last.
SeqState(b) ==
  LET s[t \in 0 .. BlockSize] ==
        IF t = 0 THEN [l \in Locations |-> Initially(l)]
        ELSE LET u == s[t - 1]
                 x == SeqLast(b, t - 1, u)
                 writes == IF x.op = "ok" THEN x.writes ELSE [l \in {} |-> 0]
             IN [l \in Locations |-> IF l \in DOMAIN writes THEN writes[l] ELSE u[l]]
  IN s

\* The final states of all blocks, so that they are computed once.
FinalStates == [b \in Blocks |-> SeqState(b)[BlockSize]]

\* The results, each told by what its transaction has read, or the error.
SequentialOutcome(b) ==
  LET s == SeqState(b)
  IN IF \E t \in Txs : SeqLast(b, t, s[t]).op \in {"notYet", "invalid"}
       THEN [tag |-> "err"]
       ELSE [tag |-> "ok", results |-> [t \in Txs |-> SeqReads(b, t, s[t])]]

\* The outcomes of all blocks, so that each is computed once.
SequentialOutcomes == [b \in Blocks |-> SequentialOutcome(b)]
OutcomeOf(b) == SequentialOutcomes[b]

\* The end of execute_revm_parallel, once the scope has joined the workers.
Outcome ==
  CASE ~AllExited                               -> [tag |-> "running"]
    [] AllExited /\ abort_reason = "None"       ->
         [tag |-> "ok", results |-> results]
    [] AllExited /\ abort_reason = "FallbackToSequential" -> OutcomeOf(block)
    [] AllExited /\ abort_reason = "ExecutionError"       -> [tag |-> "err"]

Caller == INSTANCE BlockExecution WITH out <- Outcome, SeqOutcome <- OutcomeOf

-----------------------------------------------------------------------------
(* Properties *)

\* The state of MvMemory and of the workers in it; what a transaction has read
\* comes from storage or from a lower transaction, an incarnation that this has
\* reached.
MemTypeOK ==
  /\ \A l \in Locations, t \in Txs : data[l][t].kind \in {"none", "estimate", "data"}
  /\ last_writes \in [Txs -> SUBSET Locations]
  /\ \A l \in Locations, t \in Txs :
       \/ last_reads[t][l] \in {Unread, FromStorage}
       \/ \E u \in 0 .. t - 1 : \E i \in 0 .. incarnation[u] : last_reads[t][l] = FromTx(u, i)
  /\ mpc \in [Workers -> {"idle", "remove", "insert", "check", "mark"}]
  /\ todo \in [Workers -> SUBSET Locations]
  /\ wrote \in [Workers -> BOOLEAN]

\* Whatever the interleaving, execute_revm_parallel returns what
\* execute_revm_sequential returns: the results of every transaction stem from
\* the reads of sequential execution, no slot holds a leftover, and the block
\* is given up with an error only if sequential execution fails as well.
ReturnsSequential == Caller!Spec

\* The memory that execute_revm_parallel evaluates lazy addresses from holds no
\* ESTIMATE any more (unreachable!() otherwise), and its highest entries are
\* the final state of sequential execution.
FinalMemory ==
  AllExited /\ ~aborted =>
    /\ \A l \in Locations, t \in Txs : data[l][t].kind # "estimate"
    /\ \A l \in Locations : Value(l, BlockSize) = FinalStates[block][l]

\* A reader that meets an ESTIMATE of b waits for b, so b must not be finished:
\* record replaces or removes every marker before finish_execution, and a
\* validation marks only after the status has become Aborting.
EstimateIsUnfinished ==
  \A l \in Locations, t \in Txs : data[l][t].kind = "estimate" => ~Finished(t)

\* A finished transaction left in the memory exactly what its current
\* incarnation wrote, whatever late validations of earlier incarnations do.
FinishedIsRecorded ==
  \A t \in Txs : Finished(t) =>
    \A l \in Locations :
      IF l \in last_writes[t]
        THEN data[l][t].kind = "data" /\ data[l][t].inc = incarnation[t]
        ELSE data[l][t].kind = "none"

\* A validation of t would fail at l.
Broken(l, t) == last_reads[t][l] # Unread /\ ~OriginHolds(l, t)

\* A worker that will look at l when it validates t, and one that will move
\* validation_idx back below t.
WillCheck(w, l, t) ==
  /\ tx[w] = t
  /\ \/ pc[w] \in {"inspect", "postVal", "tryAbort"}
     \/ pc[w] = "validate" /\ (mpc[w] = "check" => l \in todo[w])
WillRewind(w, t) ==
  /\ tx[w] < t
  /\ \/ pc[w] \in {"convert", "setReady", "valMin"}
     \/ mpc[w] = "insert" /\ wrote[w]
     \/ /\ pc[w] \in {"finish", "drain", "drainIdx", "finMin", "finVal", "finFetchMin"}
        /\ Contains(flags[w], WroteNewLocation)
Covered(l, t) == validation_idx <= t \/ \E w \in Workers : WillCheck(w, l, t) \/ WillRewind(w, t)

\* No validation is lost: unless the block is given up, a finished transaction
\* that has read something outdated in the meantime will be validated, by a worker
\* that is about to look at that location or through validation_idx, which has not
\* passed the transaction or is about to be moved back (finish_execution,
\* finish_validation).
ReadsAreCovered ==
  ~aborted => \A t \in Txs, l \in Locations : Finished(t) /\ Broken(l, t) => Covered(l, t)

\* Every worker leaves, however executions, validations and aborts interleave:
\* the block is completed, or given up by one of them.  This is for blocks in
\* which every nonce is reached, or that of the first transaction is wrong: any
\* other whose nonce never comes waits for the one below it again and again.
PexeTermination == <>AllExited
=============================================================================
