----------------------------- MODULE Scheduler -----------------------------
(***************************************************************************)
(* The collaborative scheduler (scheduler.rs) and the worker threads that  *)
(* drive it (the loop, try_execute and try_validate of pexe.rs).           *)
(*                                                                         *)
(* Every access to an atomic, and every acquisition of a mutex, is a step  *)
(* of its own.  A mutex that is held over several steps is not a variable: *)
(* who holds it follows from the workers' program counters (Holding).      *)
(* What the virtual machine and the multi-version memory answer is left    *)
(* open here (the Vm... and Validate... actions); module Pexe closes it.   *)
(***************************************************************************)
EXTENDS Integers, FiniteSets

CONSTANTS BlockSize,   \* block_size: the number of transactions
          Workers      \* the worker threads

ASSUME BlockSizeAssumption == BlockSize \in Nat \ {0}
ASSUME WorkersAssumption == IsFiniteSet(Workers) /\ Workers # {}

VARIABLES
  status,              \* transactions_status[t].status
  incarnation,         \* transactions_status[t].incarnation
  dependents,          \* transactions_dependents[t], as a set
  execution_idx, validation_idx, min_validation_idx, num_validated,
  aborted,             \* Scheduler.aborted
  abort_reason,        \* Pexe.abort_reason
  pc,                  \* where each worker is
  tx, inc,             \* the TxVersion each worker works on
  reg,                 \* the value a worker loaded last
  flags                \* the FinishExecFlags of the execution being finished

txVars  == <<status, incarnation, dependents>>
idxVars == <<execution_idx, validation_idx, min_validation_idx, num_validated>>
endVars == <<aborted, abort_reason>>
locals  == <<tx, inc, reg, flags>>
vars    == <<txVars, idxVars, endVars, pc, locals>>

Txs == 0 .. BlockSize - 1
Statuses == {"ReadyToExecute", "Executing", "Executed", "Validated", "Aborting"}
Reasons == {"FallbackToSequential", "ExecutionError"}
Finished(t) == status[t] \in {"Executed", "Validated"}

(***************************************************************************)
(* FinishExecFlags: a flag is its set of bits.  NeedValidation is the      *)
(* constant 0, so that contains(NeedValidation) asks whether the empty set *)
(* of bits is included.                                                    *)
(***************************************************************************)
NeedValidation == {}
WroteNewLocation == {0}
Contains(f, flag) == flag \subseteq f
Flags == SUBSET {0}

(***************************************************************************)
(* The atomics.  execution_idx and validation_idx saturate at BlockSize:   *)
(* the code only compares them with each other when one of them is below   *)
(* block_size, with transaction indices and with block_size itself, so     *)
(* that no comparison tells block_size from a larger value.                *)
(***************************************************************************)
Smaller(a, b) == IF a < b THEN a ELSE b
FetchAdd(i) == IF i < BlockSize THEN i + 1 ELSE i

(***************************************************************************)
(* The program counters.                                                   *)
(***************************************************************************)
NextTaskPcs == {"next", "loadExec", "loadVal", "loadNum", "loadMin",
                "fetchVal", "inspect", "fetchExec", "tryExec"}
\* The worker is the one that executes tx[w].
ExecutePcs == {"execute", "retryCheck", "addDep", "addDepLocked",
               "setReason", "finish"}
\* finish_execution, with the mutex of transactions_status[tx[w]] held.
FinishPcs == {"drain", "drainIdx", "finMin", "finVal", "finFetchMin",
              "finBetween", "finStatus"}
ValidatePcs == {"validate", "tryAbort", "finValid"}
\* A successful try_validation_abort, up to set_ready_status.
AbortPcs == {"convert", "setReady"}
ReschedulePcs == {"valMin", "execLoad", "tryExecV"}
\* A task has returned: its follow-up is nothing, an execution, a validation.
PostPcs == {"postNone", "postExec", "postVal"}
Pcs == NextTaskPcs \cup ExecutePcs \cup FinishPcs \cup ValidatePcs \cup AbortPcs
         \cup ReschedulePcs \cup PostPcs \cup {"exited"}

ExecutingPcs == ExecutePcs \cup FinishPcs \cup {"postExec"}
Executes(w, t) == tx[w] = t /\ pc[w] \in ExecutingPcs

\* The transactions whose status mutex a worker keeps from step to step.
Holding(w) == CASE pc[w] \in FinishPcs      -> {tx[w]}
                [] pc[w] = "addDepLocked"   -> {reg[w]}
                [] OTHER                    -> {}
Free(t) == \A w \in Workers : t \notin Holding(w)

Goto(w, l) == pc' = [pc EXCEPT ![w] = l]
\* Go to l with no task left: the dead locals take their default.
Clear(w, l) == /\ Goto(w, l)
               /\ tx' = [tx EXCEPT ![w] = 0]
               /\ inc' = [inc EXCEPT ![w] = 0]
               /\ reg' = [reg EXCEPT ![w] = 0]
               /\ flags' = [flags EXCEPT ![w] = {}]
SetStatus(t, s) == status' = [status EXCEPT ![t] = s]

TypeOK ==
  /\ status \in [Txs -> Statuses]
  /\ incarnation \in [Txs -> Nat]
  /\ dependents \in [Txs -> SUBSET Txs]
  /\ execution_idx \in 0 .. BlockSize
  /\ validation_idx \in 0 .. BlockSize
  /\ min_validation_idx \in 0 .. BlockSize
  /\ num_validated \in Int
  /\ aborted \in BOOLEAN
  /\ abort_reason \in Reasons \cup {"None"}
  /\ pc \in [Workers -> Pcs]
  /\ tx \in [Workers -> Txs]
  /\ inc \in [Workers -> Nat]
  /\ reg \in [Workers -> Int]
  /\ flags \in [Workers -> Flags]

\* Scheduler::new; every worker starts by asking for a task.
Init ==
  /\ status = [t \in Txs |-> "ReadyToExecute"]
  /\ incarnation = [t \in Txs |-> 0]
  /\ dependents = [t \in Txs |-> {}]
  /\ execution_idx = 0
  /\ validation_idx = BlockSize
  /\ min_validation_idx = BlockSize
  /\ num_validated = 0
  /\ aborted = FALSE
  /\ abort_reason = "None"
  /\ pc = [w \in Workers |-> "next"]
  /\ tx = [w \in Workers |-> 0]
  /\ inc = [w \in Workers |-> 0]
  /\ reg = [w \in Workers |-> 0]
  /\ flags = [w \in Workers |-> {}]

-----------------------------------------------------------------------------
(* next_task *)

\* The loop condition: an aborted scheduler hands out no more tasks.
NextTask(w) ==
  /\ pc[w] = "next"
  /\ Goto(w, IF aborted THEN "exited" ELSE "loadExec")
  /\ UNCHANGED <<txVars, idxVars, endVars, locals>>

LoadExecutionIdx(w) ==
  /\ pc[w] = "loadExec"
  /\ reg' = [reg EXCEPT ![w] = execution_idx]
  /\ Goto(w, "loadVal")
  /\ UNCHANGED <<txVars, idxVars, endVars, tx, inc, flags>>

\* Mutant: leave as soon as every transaction has been handed out.
LoadValidationIdxHasty(w) ==
  /\ pc[w] = "loadVal"
  /\ Clear(w, CASE reg[w] >= BlockSize      -> "exited"
                [] validation_idx < reg[w]  -> "fetchVal"
                [] OTHER                    -> "fetchExec")
  /\ UNCHANGED <<txVars, idxVars, endVars>>

\* Load validation_idx and choose: done?, a validation task, an execution task.
LoadValidationIdx(w) ==
  /\ pc[w] = "loadVal"
  /\ Clear(w, CASE reg[w] >= BlockSize /\ validation_idx >= BlockSize -> "loadNum"
                [] validation_idx < reg[w]                            -> "fetchVal"
                [] OTHER                                              -> "fetchExec")
  /\ UNCHANGED <<txVars, idxVars, endVars>>

LoadNumValidated(w) ==
  /\ pc[w] = "loadNum"
  /\ reg' = [reg EXCEPT ![w] = num_validated]
  /\ Goto(w, "loadMin")
  /\ UNCHANGED <<txVars, idxVars, endVars, tx, inc, flags>>

\* Leave when everything from min_validation_idx on has been validated.
LoadMinValidationIdx(w) ==
  /\ pc[w] = "loadMin"
  /\ Clear(w, IF reg[w] >= BlockSize - min_validation_idx THEN "exited" ELSE "next")
  /\ UNCHANGED <<txVars, idxVars, endVars>>

FetchValidationIdx(w) ==
  /\ pc[w] = "fetchVal"
  /\ validation_idx' = FetchAdd(validation_idx)
  /\ IF validation_idx < BlockSize
       THEN tx' = [tx EXCEPT ![w] = validation_idx] /\ Goto(w, "inspect")
       ELSE tx' = tx /\ Goto(w, "fetchExec")
  /\ UNCHANGED <<txVars, execution_idx, min_validation_idx, num_validated,
                 endVars, inc, reg, flags>>

\* Mutant: take the transaction whatever its status is.
IncarnateUnchecked(w, l) ==
  /\ SetStatus(tx[w], "Executing")
  /\ inc' = [inc EXCEPT ![w] = incarnation[tx[w]]]
  /\ Goto(w, l)
  /\ UNCHANGED <<incarnation, dependents, tx, reg, flags>>

\* ReadyToExecute -> Executing: the worker gets the execution of tx[w], then
\* goes to l.
Incarnate(w, l) ==
  /\ status[tx[w]] = "ReadyToExecute"
  /\ SetStatus(tx[w], "Executing")
  /\ inc' = [inc EXCEPT ![w] = incarnation[tx[w]]]
  /\ Goto(w, l)
  /\ UNCHANGED <<incarnation, dependents, tx, reg, flags>>

\* Under the lock: steal the execution, start the validation, or go on.
InspectForValidation(w) ==
  /\ pc[w] = "inspect"
  /\ Free(tx[w])
  /\ \/ Incarnate(w, "execute")
     \/ /\ Finished(tx[w])
        /\ inc' = [inc EXCEPT ![w] = incarnation[tx[w]]]
        /\ Goto(w, "validate")
        /\ UNCHANGED <<txVars, tx, reg, flags>>
     \/ /\ status[tx[w]] \in {"Aborting", "Executing"}
        /\ Clear(w, IF status[tx[w]] = "Aborting" THEN "next" ELSE "fetchExec")
        /\ UNCHANGED txVars
  /\ UNCHANGED <<idxVars, endVars>>

\* Mutant: the index is not compared with block_size.
FetchExecutionIdxUnchecked(w) ==
  /\ pc[w] = "fetchExec"
  /\ execution_idx' = FetchAdd(execution_idx)
  /\ tx' = [tx EXCEPT ![w] = execution_idx]
  /\ Goto(w, "tryExec")
  /\ UNCHANGED <<txVars, validation_idx, min_validation_idx, num_validated,
                 endVars, inc, reg, flags>>

FetchExecutionIdx(w) ==
  /\ pc[w] = "fetchExec"
  /\ execution_idx' = FetchAdd(execution_idx)
  /\ IF execution_idx < BlockSize
       THEN tx' = [tx EXCEPT ![w] = execution_idx] /\ Goto(w, "tryExec")
       ELSE tx' = tx /\ Goto(w, "next")
  /\ UNCHANGED <<txVars, validation_idx, min_validation_idx, num_validated,
                 endVars, inc, reg, flags>>

\* try_execute, called by next_task (from, with a task: to; without: none)
\* and, with other continuations, by finish_validation.
TryExecute(w, from, to, none) ==
  /\ pc[w] = from
  /\ Free(tx[w])
  /\ \/ Incarnate(w, to)
     \/ /\ status[tx[w]] # "ReadyToExecute"
        /\ Clear(w, none)
        /\ UNCHANGED txVars
  /\ UNCHANGED <<idxVars, endVars>>

-----------------------------------------------------------------------------
(* Pexe::try_execute *)

\* vm.execute succeeds.  The result is stored and finish_execution called.
VmOk(w, f) ==
  /\ pc[w] = "execute"
  /\ flags' = [flags EXCEPT ![w] = f]
  /\ Goto(w, "finish")
  /\ UNCHANGED <<txVars, idxVars, endVars, tx, inc, reg>>

\* vm.execute stops at something the lower transaction b has yet to write.
VmBlocking(w, b) ==
  /\ pc[w] = "execute"
  /\ b < tx[w]
  /\ reg' = [reg EXCEPT ![w] = b]
  /\ Goto(w, "addDep")
  /\ UNCHANGED <<txVars, idxVars, endVars, tx, inc, flags>>

\* vm.execute read a location twice and from two origins: VmExecutionError::Retry.
VmRetry(w) ==
  /\ pc[w] = "execute"
  /\ Goto(w, "retryCheck")
  /\ UNCHANGED <<txVars, idxVars, endVars, locals>>

\* Mutant: the scheduler is aborted and no reason given.
VmFatalSilent(w) ==
  /\ pc[w] = "execute"
  /\ aborted' = TRUE
  /\ Clear(w, "postNone")
  /\ UNCHANGED <<txVars, idxVars, abort_reason>>

\* FallbackToSequential or ExecutionError: scheduler.abort() comes first ...
VmFatal(w) ==
  /\ pc[w] = "execute"
  /\ aborted' = TRUE
  /\ Goto(w, "setReason")
  /\ UNCHANGED <<txVars, idxVars, abort_reason, locals>>

\* ... abort_reason.get_or_init second: the first reason stays.
SetAbortReason(w, r) ==
  /\ pc[w] = "setReason"
  /\ abort_reason' = IF abort_reason = "None" THEN r ELSE abort_reason
  /\ Clear(w, "postNone")
  /\ UNCHANGED <<txVars, idxVars, aborted>>

\* Execute again unless some worker has given up on the block.
RetryCheck(w) ==
  /\ pc[w] = "retryCheck"
  /\ IF abort_reason = "None"
       THEN Goto(w, "execute") /\ UNCHANGED locals
       ELSE Clear(w, "postNone")
  /\ UNCHANGED <<txVars, idxVars, endVars>>

\* Mutant: the status of the blocking transaction is not looked at.
AddDependencyLockBlind(w) ==
  /\ pc[w] = "addDep"
  /\ Free(reg[w])
  /\ Goto(w, "addDepLocked")
  /\ UNCHANGED <<txVars, idxVars, endVars, locals>>

\* add_dependency: lock the blocking transaction and look at its status.
AddDependencyLock(w) ==
  /\ pc[w] = "addDep"
  /\ Free(reg[w])
  /\ IF Finished(reg[w])
       THEN Goto(w, "retryCheck") /\ reg' = [reg EXCEPT ![w] = 0]
       ELSE Goto(w, "addDepLocked") /\ reg' = reg
  /\ UNCHANGED <<txVars, idxVars, endVars, tx, inc, flags>>

\* Holding that lock, suspend the own transaction until the other has executed.
AddDependency(w) ==
  /\ pc[w] = "addDepLocked"
  /\ Free(tx[w])
  /\ SetStatus(tx[w], "Aborting")
  /\ dependents' = [dependents EXCEPT ![reg[w]] = @ \cup {tx[w]}]
  /\ Clear(w, "postNone")
  /\ UNCHANGED <<incarnation, idxVars, endVars>>

-----------------------------------------------------------------------------
(* finish_execution: the mutex of the transaction is held to the end *)

FinishLock(w) ==
  /\ pc[w] = "finish"
  /\ Free(tx[w])
  /\ Goto(w, "drain")
  /\ UNCHANGED <<txVars, idxVars, endVars, locals>>

\* Mutant: the incarnation stays the same.
SetReadyStatusSameIncarnation(t) ==
  /\ SetStatus(t, "ReadyToExecute")
  /\ incarnation' = incarnation

\* set_ready_status without its lock.
SetReadyStatus(t) ==
  /\ SetStatus(t, "ReadyToExecute")
  /\ incarnation' = [incarnation EXCEPT ![t] = @ + 1]

\* Resume the dependents one by one; the order of the vector is left open.
DrainDependents(w) ==
  /\ pc[w] = "drain"
  /\ \/ \E d \in dependents[tx[w]] :
          /\ Free(d)
          /\ SetReadyStatus(d)
          /\ dependents' = [dependents EXCEPT ![tx[w]] = @ \ {d}]
          /\ reg' = [reg EXCEPT ![w] = d]
          /\ Goto(w, "drainIdx")
     \/ /\ dependents[tx[w]] = {}
        /\ Goto(w, "finMin")
        /\ UNCHANGED <<txVars, reg>>
  /\ UNCHANGED <<idxVars, endVars, tx, inc, flags>>

\* Mutant: execution_idx is not moved back to the resumed transaction.
DrainExecutionIdxForgotten(w) ==
  /\ pc[w] = "drainIdx"
  /\ reg' = [reg EXCEPT ![w] = 0]
  /\ Goto(w, "drain")
  /\ UNCHANGED <<txVars, idxVars, endVars, tx, inc, flags>>

DrainExecutionIdx(w) ==
  /\ pc[w] = "drainIdx"
  /\ execution_idx' = Smaller(execution_idx, reg[w])
  /\ reg' = [reg EXCEPT ![w] = 0]
  /\ Goto(w, "drain")
  /\ UNCHANGED <<txVars, validation_idx, min_validation_idx, num_validated,
                 endVars, tx, inc, flags>>

\* Lower min_validation_idx, and decide where validation starts from.  Under
\* tx < min the fetch_min of validation_idx follows at once.
FinishMinValidationIdx(w) ==
  /\ pc[w] = "finMin"
  /\ LET need  == Contains(flags[w], NeedValidation)
         wrote == Contains(flags[w], WroteNewLocation)
         min   == IF need THEN Smaller(min_validation_idx, tx[w]) ELSE min_validation_idx
         lower == min < BlockSize /\ tx[w] < min
     IN /\ min_validation_idx' = min
        /\ validation_idx' = IF lower /\ wrote THEN Smaller(validation_idx, min)
                                               ELSE validation_idx
        /\ Goto(w, IF min < BlockSize /\ ~lower THEN "finVal" ELSE "finStatus")
  /\ UNCHANGED <<txVars, execution_idx, num_validated, endVars, locals>>

\* Is the transaction between min_validation_idx and validation_idx?
FinishLoadValidationIdx(w) ==
  /\ pc[w] = "finVal"
  /\ Goto(w, CASE tx[w] >= validation_idx                    -> "finStatus"
               [] Contains(flags[w], WroteNewLocation)       -> "finFetchMin"
               [] OTHER                                      -> "finBetween")
  /\ UNCHANGED <<txVars, idxVars, endVars, locals>>

FinishFetchMin(w) ==
  /\ pc[w] = "finFetchMin"
  /\ validation_idx' = Smaller(validation_idx, tx[w] + 1)
  /\ Goto(w, "finBetween")
  /\ UNCHANGED <<txVars, execution_idx, min_validation_idx, num_validated,
                 endVars, locals>>

\* Set the status and unlock.  Without NeedValidation the code falls through
\* from the "between" branch to the end, and counts the transaction twice.
FinishStatus(w) ==
  /\ pc[w] \in {"finBetween", "finStatus"}
  /\ LET between == pc[w] = "finBetween"
     IN IF Contains(flags[w], NeedValidation)
          THEN /\ SetStatus(tx[w], "Executed")
               /\ num_validated' = num_validated
               /\ IF between
                    THEN /\ Goto(w, "postVal")
                         /\ flags' = [flags EXCEPT ![w] = {}]
                         /\ UNCHANGED <<tx, inc, reg>>
                    ELSE Clear(w, "postNone")
          ELSE /\ SetStatus(tx[w], "Validated")
               /\ num_validated' = num_validated + (IF between THEN 2 ELSE 1)
               /\ Clear(w, "postNone")
  /\ UNCHANGED <<incarnation, dependents, execution_idx, validation_idx,
                 min_validation_idx, endVars>>

-----------------------------------------------------------------------------
(* try_validate *)

\* validate_read_locations has found the read set valid, or not.
Validate(w, valid) ==
  /\ pc[w] = "validate"
  /\ Goto(w, IF valid THEN "finValid" ELSE "tryAbort")
  /\ UNCHANGED <<txVars, idxVars, endVars, locals>>

\* Mutant: every failed validation aborts, whatever the status is.
TryValidationAbortAlways(w) ==
  /\ pc[w] = "tryAbort"
  /\ Free(tx[w])
  /\ num_validated' = num_validated - (IF status[tx[w]] = "Validated" THEN 1 ELSE 0)
  /\ SetStatus(tx[w], "Aborting")
  /\ Goto(w, "convert")
  /\ UNCHANGED <<incarnation, dependents, execution_idx, validation_idx,
                 min_validation_idx, endVars, locals>>

TryValidationAbort(w) ==
  /\ pc[w] = "tryAbort"
  /\ Free(tx[w])
  /\ num_validated' = num_validated - (IF status[tx[w]] = "Validated" THEN 1 ELSE 0)
  /\ IF Finished(tx[w])
       THEN SetStatus(tx[w], "Aborting") /\ Goto(w, "convert")
       ELSE status' = status /\ Goto(w, "finValid")
  /\ UNCHANGED <<incarnation, dependents, execution_idx, validation_idx,
                 min_validation_idx, endVars, locals>>

\* convert_writes_to_estimates: its effect is on the multi-version memory.
ConvertWrites(w) ==
  /\ pc[w] = "convert"
  /\ Goto(w, "setReady")
  /\ UNCHANGED <<txVars, idxVars, endVars, locals>>

\* finish_validation of an aborted version.
FinishAbortSetReady(w) ==
  /\ pc[w] = "setReady"
  /\ Free(tx[w])
  /\ SetReadyStatus(tx[w])
  /\ Goto(w, "valMin")
  /\ UNCHANGED <<dependents, idxVars, endVars, locals>>

FinishAbortFetchMin(w) ==
  /\ pc[w] = "valMin"
  /\ validation_idx' = Smaller(validation_idx, tx[w] + 1)
  /\ Goto(w, "execLoad")
  /\ UNCHANGED <<txVars, execution_idx, min_validation_idx, num_validated,
                 endVars, locals>>

FinishAbortLoadIdx(w) ==
  /\ pc[w] = "execLoad"
  /\ IF execution_idx > tx[w]
       THEN Goto(w, "tryExecV") /\ UNCHANGED locals
       ELSE Clear(w, "postNone")
  /\ UNCHANGED <<txVars, idxVars, endVars>>

\* Mutant: a transaction is counted by every validation of it.
FinishValidationCountsTwice(w) ==
  /\ pc[w] = "finValid"
  /\ Free(tx[w])
  /\ IF Finished(tx[w])
       THEN SetStatus(tx[w], "Validated") /\ num_validated' = num_validated + 1
       ELSE UNCHANGED <<status, num_validated>>
  /\ Clear(w, "postNone")
  /\ UNCHANGED <<incarnation, dependents, execution_idx, validation_idx,
                 min_validation_idx, endVars>>

\* finish_validation of a version that is not aborted.
FinishValidation(w) ==
  /\ pc[w] = "finValid"
  /\ Free(tx[w])
  /\ IF status[tx[w]] = "Executed"
       THEN SetStatus(tx[w], "Validated") /\ num_validated' = num_validated + 1
       ELSE UNCHANGED <<status, num_validated>>
  /\ Clear(w, "postNone")
  /\ UNCHANGED <<incarnation, dependents, execution_idx, validation_idx,
                 min_validation_idx, endVars>>

-----------------------------------------------------------------------------
(* The worker loop of execute_revm_parallel *)

\* After every task: leave if the block is given up, else the follow-up task.
AfterTask(w) ==
  /\ pc[w] \in PostPcs
  /\ IF abort_reason # "None"
       THEN Clear(w, "exited")
       ELSE /\ Goto(w, CASE pc[w] = "postNone" -> "next"
                         [] pc[w] = "postExec" -> "execute"
                         [] pc[w] = "postVal"  -> "validate")
            /\ UNCHANGED locals
  /\ UNCHANGED <<txVars, idxVars, endVars>>

\* The answers of the virtual machine and of the multi-version memory.
Environment(w) ==
  \/ \E f \in Flags : VmOk(w, f)
  \/ \E b \in Txs : VmBlocking(w, b)
  \/ VmRetry(w)
  \/ VmFatal(w)
  \/ \E valid \in BOOLEAN : Validate(w, valid)

\* The steps that do not depend on them.
WorkerStep(w) ==
  \/ NextTask(w)
  \/ LoadExecutionIdx(w)
  \/ LoadValidationIdx(w)
  \/ LoadNumValidated(w)
  \/ LoadMinValidationIdx(w)
  \/ FetchValidationIdx(w)
  \/ InspectForValidation(w)
  \/ FetchExecutionIdx(w)
  \/ TryExecute(w, "tryExec", "execute", "next")
  \/ \E r \in Reasons : SetAbortReason(w, r)
  \/ RetryCheck(w)
  \/ AddDependencyLock(w)
  \/ AddDependency(w)
  \/ FinishLock(w)
  \/ DrainDependents(w)
  \/ DrainExecutionIdx(w)
  \/ FinishMinValidationIdx(w)
  \/ FinishLoadValidationIdx(w)
  \/ FinishFetchMin(w)
  \/ FinishStatus(w)
  \/ TryValidationAbort(w)
  \/ FinishAbortSetReady(w)
  \/ FinishAbortFetchMin(w)
  \/ FinishAbortLoadIdx(w)
  \/ TryExecute(w, "tryExecV", "postExec", "postNone")
  \/ FinishValidation(w)
  \/ AfterTask(w)

AllExited == \A w \in Workers : pc[w] = "exited"

\* The scope of execute_revm_parallel joins the workers and nothing moves.
Joined == AllExited /\ UNCHANGED vars

Next == (\E w \in Workers : Environment(w) \/ WorkerStep(w) \/ ConvertWrites(w)) \/ Joined

Spec == Init /\ [][Next]_vars
-----------------------------------------------------------------------------
(* Properties *)

\* The debug_asserts of finish_execution and add_dependency: a worker that
\* executes a version works on the current incarnation of a transaction that
\* is Executing, and no other worker executes it.
ExecutorOwns ==
  \A w \in Workers : pc[w] \in ExecutingPcs =>
    /\ status[tx[w]] = "Executing"
    /\ inc[w] = incarnation[tx[w]]
    /\ \A u \in Workers : Executes(u, tx[w]) => u = w

\* try_execute and the worker loop: a transaction is Executing only while a
\* worker executes it (a worker that leaves because the block is given up
\* abandons its transaction).
ExecutingHasOwner ==
  \A t \in Txs : status[t] = "Executing" => aborted \/ \E w \in Workers : Executes(w, t)

\* What the status mutexes are for: a transaction has at most one executor,
\* and is Executing only while it has one.
ExclusiveExecution == ExecutorOwns /\ ExecutingHasOwner

\* Who will make a suspended transaction ready again: the list of a blocking
\* transaction, or a worker whose validation aborted it.
Waits(t, b) == t \in dependents[b]
Aborts(w, t) == pc[w] \in AbortPcs /\ tx[w] = t

\* add_dependency and try_validation_abort: whoever makes a transaction
\* Aborting sees to it that it becomes ready again.
AbortingHasResumer ==
  \A t \in Txs : status[t] = "Aborting" =>
    (\E b \in Txs : Waits(t, b)) \/ (\E w \in Workers : Aborts(w, t))

\* The debug_assert of set_ready_status: whoever is to make a transaction
\* ready finds it Aborting, for nobody else is going to.
ResumersAreUnique ==
  \A t \in Txs :
    /\ \A b \in Txs : Waits(t, b) =>
         /\ status[t] = "Aborting"
         /\ \A c \in Txs : Waits(t, c) => c = b
         /\ \A w \in Workers : ~Aborts(w, t)
    /\ \A w \in Workers : Aborts(w, t) =>
         /\ status[t] = "Aborting"
         /\ \A u \in Workers : Aborts(u, t) => u = w

\* A transaction is Aborting exactly when one, and only one, party will make it
\* ready.  Two would skip an incarnation, none would lose the transaction.
ResumedExactlyOnce == AbortingHasResumer /\ ResumersAreUnique

\* add_dependency's lock on the blocking transaction: nobody waits for a
\* transaction that has already executed, and waiting points down the block,
\* so that neither the waits nor the nested locks can form a cycle.
WaitsForUnfinished ==
  \A t, b \in Txs : Waits(t, b) => b < t /\ ~Finished(b)

\* num_validated is the number of validated transactions, although two
\* validations of one transaction, and its abort, may run at the same time.
NumValidatedIsExact == num_validated = Cardinality({t \in Txs : status[t] = "Validated"})

\* No task is lost between the two counters and the workers: a transaction
\* that is ready is ahead of execution_idx or in the hands of a worker that
\* has yet to look at it, and one that is executed but not validated is ahead
\* of validation_idx or in the hands of a worker that validates it.
NoLostTask ==
  ~aborted => \A t \in Txs :
    /\ status[t] = "ReadyToExecute" =>
         \/ execution_idx <= t
         \/ \E w \in Workers :
              \/ tx[w] = t /\ pc[w] \in {"tryExec", "inspect", "valMin", "execLoad", "tryExecV"}
              \/ reg[w] = t /\ pc[w] = "drainIdx"
    /\ status[t] = "Executed" =>
         \/ validation_idx <= t
         \/ \E w \in Workers : tx[w] = t /\ pc[w] \in {"inspect", "postVal"} \cup ValidatePcs

\* Workers leave next_task one by one, on values loaded one after the other
\* while others may still abort transactions.  Nevertheless, when the last has
\* left and the block was not given up, every transaction is validated: the
\* results that execute_revm_parallel then takes are final.
CompletionIsTotal ==
  AllExited /\ ~aborted => \A t \in Txs : status[t] = "Validated"

\* scheduler.abort() and abort_reason are set one after the other and read
\* separately: workers may leave in between, but once all have left, an
\* aborted block has its reason, so that no partial results are taken.
AbortHasReason == AllExited => (aborted <=> abort_reason # "None")

\* The life cycle of lib.rs:127-135, for steps of any worker: an incarnation
\* number advances by one, and only when the transaction turns from Aborting
\* to ReadyToExecute; every other change of status is one of the diagram's.
LifeCycle ==
  [][\A t \in Txs :
       \/ status'[t] = status[t] /\ incarnation'[t] = incarnation[t]
       \/ /\ status[t] = "Aborting" /\ status'[t] = "ReadyToExecute"
          /\ incarnation'[t] = incarnation[t] + 1
       \/ /\ incarnation'[t] = incarnation[t]
          /\ <<status[t], status'[t]>> \in
               {<<"ReadyToExecute", "Executing">>, <<"Executing", "Executed">>,
                <<"Executing", "Aborting">>, <<"Executed", "Validated">>,
                <<"Executed", "Aborting">>, <<"Validated", "Aborting">>}]_vars

\* scheduler.rs:264-265, "The scheduler ensures that only one failing
\* validation per version can lead to a successful abort".  A version that is
\* no longer the current incarnation was aborted before, so the abort must be
\* of the version that was validated.
OneAbortPerVersion ==
  [][\A w \in Workers : pc[w] = "tryAbort" /\ pc'[w] = "convert"
       => inc[w] = incarnation[tx[w]]]_vars
=============================================================================
