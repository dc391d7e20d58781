-------------------------- MODULE SchedulerProofs --------------------------
(***************************************************************************)
(* Proofs about Scheduler, for every block size and every set of workers:  *)
(* the inductive invariant IInv, one lemma per part of it with one case    *)
(* per action, and the properties that follow from it.                     *)
(***************************************************************************)
EXTENDS Scheduler, TLAPS, FiniteSetTheorems, WellFoundedInduction

-----------------------------------------------------------------------------
(* Facts about the constant sets, so that they need not be expanded below. *)

\* Indices below BlockSize are transactions, and transactions are integers.
LEMMA TxsFacts ==
  /\ \A i \in 0 .. BlockSize : i < BlockSize => i \in Txs
  /\ 0 \in Txs
  /\ Txs \subseteq Int
  /\ \A t \in Txs : t \in 0 .. BlockSize /\ t < BlockSize /\ t + 1 \in 0 .. BlockSize
  BY BlockSizeAssumption DEF Txs

\* The five statuses.
LEMMA StatusNames ==
  /\ "ReadyToExecute" \in Statuses /\ "Executing" \in Statuses /\ "Executed" \in Statuses
  /\ "Validated" \in Statuses /\ "Aborting" \in Statuses
  BY DEF Statuses

\* The program counters that occur in the actions.
LEMMA PcNames ==
  /\ "next" \in Pcs /\ "loadExec" \in Pcs /\ "loadVal" \in Pcs /\ "loadNum" \in Pcs
  /\ "loadMin" \in Pcs /\ "fetchVal" \in Pcs /\ "inspect" \in Pcs
  /\ "fetchExec" \in Pcs /\ "tryExec" \in Pcs /\ "execute" \in Pcs
  /\ "retryCheck" \in Pcs /\ "addDep" \in Pcs /\ "addDepLocked" \in Pcs
  /\ "setReason" \in Pcs /\ "finish" \in Pcs /\ "drain" \in Pcs
  /\ "drainIdx" \in Pcs /\ "finMin" \in Pcs /\ "finVal" \in Pcs
  /\ "finFetchMin" \in Pcs /\ "finBetween" \in Pcs /\ "finStatus" \in Pcs
  /\ "validate" \in Pcs /\ "tryAbort" \in Pcs /\ "finValid" \in Pcs
  /\ "convert" \in Pcs /\ "setReady" \in Pcs /\ "valMin" \in Pcs
  /\ "execLoad" \in Pcs /\ "tryExecV" \in Pcs /\ "postNone" \in Pcs
  /\ "postExec" \in Pcs /\ "postVal" \in Pcs /\ "exited" \in Pcs
  BY DEF Pcs, NextTaskPcs, ExecutePcs, FinishPcs, ValidatePcs, AbortPcs, ReschedulePcs, PostPcs

-----------------------------------------------------------------------------
(* Types *)

\* A register that will be used as an index holds a transaction, and a
\* blocking transaction is a lower one.
RegOK ==
  \A w \in Workers :
    /\ pc[w] \in {"addDep", "addDepLocked"} => reg[w] \in Txs /\ reg[w] < tx[w]
    /\ pc[w] = "drainIdx" => reg[w] \in Txs

\* A step of w leaves the locals of the other workers alone.
Others(w) ==
  \A v \in Workers \ {w} :
    pc'[v] = pc[v] /\ tx'[v] = tx[v] /\ inc'[v] = inc[v] /\ reg'[v] = reg[v]

\* set_ready_status keeps statuses statuses and incarnations numbers.
LEMMA SetReadyType ==
  ASSUME TypeOK, NEW t \in Txs, SetReadyStatus(t)
  PROVE  status' \in [Txs -> Statuses] /\ incarnation' \in [Txs -> Nat]
<1>1. incarnation[t] \in Nat
  BY DEF TypeOK
<1>2. incarnation[t] + 1 \in Nat
  BY <1>1
<1> QED
  BY <1>2, StatusNames DEF TypeOK, SetReadyStatus, SetStatus

\* The types hold initially.
LEMMA TypeInit == Init => TypeOK /\ RegOK
<1> SUFFICES ASSUME Init PROVE TypeOK /\ RegOK
  OBVIOUS
<1>1. status \in [Txs -> Statuses] /\ incarnation \in [Txs -> Nat] /\ dependents \in [Txs -> SUBSET Txs]
  BY DEF Init, Statuses
<1>2. execution_idx \in 0 .. BlockSize /\ validation_idx \in 0 .. BlockSize /\ min_validation_idx \in 0 .. BlockSize
  BY BlockSizeAssumption DEF Init
<1>3. num_validated \in Int /\ abort_reason \in Reasons \cup {"None"}
  BY DEF Init
<1>9. aborted \in BOOLEAN
  BY DEF Init
<1>4. pc \in [Workers -> Pcs]
  BY PcNames DEF Init
<1>5. tx \in [Workers -> Txs]
  BY TxsFacts DEF Init
<1>6. inc \in [Workers -> Nat] /\ reg \in [Workers -> Int]
  BY DEF Init
<1>7. flags \in [Workers -> Flags]
  BY DEF Init, Flags
<1>8. RegOK
  BY DEF Init, RegOK
<1> QED
  BY <1>1, <1>2, <1>3, <1>4, <1>5, <1>6, <1>7, <1>8, <1>9 DEF TypeOK

\* Every step of a worker keeps indices, registers and statuses in their ranges,
\* and touches no other worker's locals.
LEMMA TypeStep ==
  ASSUME TypeOK, RegOK,
         NEW w \in Workers, Environment(w) \/ WorkerStep(w) \/ ConvertWrites(w)
  PROVE  TypeOK' /\ RegOK' /\ Others(w)
<1> USE BlockSizeAssumption, PcNames, StatusNames, TxsFacts
    DEF TypeOK, RegOK, Others, Flags, Reasons, PostPcs,
        Goto, Clear, SetStatus, Incarnate, SetReadyStatus, txVars, idxVars, endVars, locals
<1>1. CASE NextTask(w) BY <1>1 DEF NextTask
<1>2. CASE LoadExecutionIdx(w) BY <1>2 DEF LoadExecutionIdx
<1>3. CASE LoadValidationIdx(w) BY <1>3 DEF LoadValidationIdx
<1>4. CASE LoadNumValidated(w) BY <1>4 DEF LoadNumValidated
<1>5. CASE LoadMinValidationIdx(w) BY <1>5 DEF LoadMinValidationIdx
<1>6. CASE FetchValidationIdx(w) BY <1>6 DEF FetchValidationIdx, FetchAdd
<1>7. CASE InspectForValidation(w)
  <2>1. ASSUME Incarnate(w, "execute"), UNCHANGED <<idxVars, endVars>>
        PROVE  TypeOK' /\ RegOK' /\ Others(w)
    BY <2>1
  <2>2. ASSUME inc' = [inc EXCEPT ![w] = incarnation[tx[w]]], Goto(w, "validate"),
               UNCHANGED <<txVars, idxVars, endVars, tx, reg, flags>>
        PROVE  TypeOK' /\ RegOK' /\ Others(w)
    BY <2>2
  <2>3. CASE UNCHANGED txVars /\ (Clear(w, "next") \/ Clear(w, "fetchExec"))
    BY <1>7, <2>3 DEF InspectForValidation
  <2> QED
    BY <1>7, <2>1, <2>2, <2>3 DEF InspectForValidation
<1>8. CASE FetchExecutionIdx(w) BY <1>8 DEF FetchExecutionIdx, FetchAdd
<1>9. CASE TryExecute(w, "tryExec", "execute", "next")
  <2>1. ASSUME Incarnate(w, "execute"), UNCHANGED <<idxVars, endVars>>
        PROVE  TypeOK' /\ RegOK' /\ Others(w)
    BY <2>1
  <2>2. CASE UNCHANGED txVars
    BY <1>9, <2>2 DEF TryExecute
  <2> QED
    BY <1>9, <2>1, <2>2 DEF TryExecute
<1>10. CASE TryExecute(w, "tryExecV", "postExec", "postNone")
  <2>1. ASSUME Incarnate(w, "postExec"), UNCHANGED <<idxVars, endVars>>
        PROVE  TypeOK' /\ RegOK' /\ Others(w)
    BY <2>1
  <2>2. CASE UNCHANGED txVars
    BY <1>10, <2>2 DEF TryExecute
  <2> QED
    BY <1>10, <2>1, <2>2 DEF TryExecute
<1>11. CASE \E f \in Flags : VmOk(w, f) BY <1>11 DEF VmOk
<1>12. CASE \E b \in Txs : VmBlocking(w, b) BY <1>12 DEF VmBlocking
<1>13. CASE VmRetry(w) BY <1>13 DEF VmRetry
<1>14. CASE VmFatal(w) BY <1>14 DEF VmFatal
<1>15. CASE \E r \in Reasons : SetAbortReason(w, r) BY <1>15 DEF SetAbortReason
<1>16. CASE RetryCheck(w) BY <1>16 DEF RetryCheck
<1>17. CASE AddDependencyLock(w) BY <1>17 DEF AddDependencyLock
<1>18. CASE AddDependency(w) BY <1>18 DEF AddDependency
<1>19. CASE FinishLock(w) BY <1>19 DEF FinishLock
<1>20. CASE DrainDependents(w)
  <2>1. CASE UNCHANGED txVars
    BY <1>20, <2>1 DEF DrainDependents
  <2>2. ASSUME NEW d \in dependents[tx[w]], SetReadyStatus(d), Goto(w, "drainIdx"),
               dependents' = [dependents EXCEPT ![tx[w]] = @ \ {d}],
               reg' = [reg EXCEPT ![w] = d], UNCHANGED <<idxVars, endVars, tx, inc, flags>>
        PROVE  TypeOK' /\ RegOK' /\ Others(w)
    <3>1. d \in Txs
      OBVIOUS
    <3>2. dependents' \in [Txs -> SUBSET Txs]
      BY <2>2
    <3> QED
      BY <2>2, <3>1, <3>2
  <2> QED
    BY <1>20, <2>1, <2>2 DEF DrainDependents
<1>21. CASE DrainExecutionIdx(w) BY <1>21 DEF DrainExecutionIdx, Smaller
<1>22. CASE FinishMinValidationIdx(w) BY <1>22 DEF FinishMinValidationIdx, Smaller
<1>23. CASE FinishLoadValidationIdx(w) BY <1>23 DEF FinishLoadValidationIdx
<1>24. CASE FinishFetchMin(w) BY <1>24 DEF FinishFetchMin, Smaller
<1>25. CASE FinishStatus(w) BY <1>25 DEF FinishStatus
<1>26. CASE \E valid \in BOOLEAN : Validate(w, valid) BY <1>26 DEF Validate
<1>27. CASE TryValidationAbort(w) BY <1>27 DEF TryValidationAbort
<1>28. CASE ConvertWrites(w) BY <1>28 DEF ConvertWrites
<1>29. CASE FinishAbortSetReady(w)
  <2>1. tx[w] \in Txs
    OBVIOUS
  <2>2. status' \in [Txs -> Statuses] /\ incarnation' \in [Txs -> Nat]
    BY <1>29, <2>1, SetReadyType DEF FinishAbortSetReady
  <2> QED
    BY <1>29, <2>2 DEF FinishAbortSetReady
<1>30. CASE FinishAbortFetchMin(w) BY <1>30 DEF FinishAbortFetchMin, Smaller
<1>31. CASE FinishAbortLoadIdx(w) BY <1>31 DEF FinishAbortLoadIdx
<1>32. CASE FinishValidation(w) BY <1>32 DEF FinishValidation
<1>33. CASE AfterTask(w) BY <1>33 DEF AfterTask
<1> QED
  BY <1>1, <1>2, <1>3, <1>4, <1>5, <1>6, <1>7, <1>8, <1>9, <1>10, <1>11, <1>12, <1>13, <1>14, <1>15, <1>16, <1>17, <1>18, <1>19, <1>20, <1>21, <1>22, <1>23, <1>24, <1>25, <1>26, <1>27, <1>28, <1>29, <1>30, <1>31, <1>32, <1>33 DEF Environment, WorkerStep

-----------------------------------------------------------------------------
(* The parts of the inductive invariant that no run states on its own *)

\* What scheduler.abort() and abort_reason have to do with each other while
\* workers are running.
AbortInv ==
  /\ \A w \in Workers : pc[w] = "setReason" => aborted
  /\ abort_reason # "None" => aborted
  /\ aborted => abort_reason # "None" \/ \E w \in Workers : pc[w] = "setReason"

\* The status mutexes: nobody shares one, a locked blocking transaction stays
\* unfinished, and nobody is added to the dependents once they are drained.
LocksAreExclusive ==
  \A v, u \in Workers : \A t \in Txs : t \in Holding(v) /\ t \in Holding(u) => u = v
BlockerIsUnfinished ==
  \A w \in Workers : pc[w] = "addDepLocked" => ~Finished(reg[w])
DrainedPcs == {"finMin", "finVal", "finFetchMin", "finBetween", "finStatus"}
DrainedIsEmpty ==
  \A w \in Workers : pc[w] \in DrainedPcs => dependents[tx[w]] = {}

\* A worker that leaves its transaction to validation_idx will be right: the
\* index is not past it, or the worker that took it waits for the mutex.
FinishIsCovered ==
  ~aborted => \A w \in Workers : pc[w] = "finStatus" =>
    \/ validation_idx <= tx[w]
    \/ \E u \in Workers : pc[u] = "inspect" /\ tx[u] = tx[w]

\* An index below BlockSize is noticed by a worker that has yet to load it.
ExecutionIdxIsSeen ==
  aborted \/ execution_idx >= BlockSize \/ \E w \in Workers :
    /\ pc[w] \notin {"loadNum", "loadMin", "exited"}
    /\ pc[w] = "loadVal" => reg[w] < BlockSize
ValidationIdxIsSeen ==
  aborted \/ validation_idx >= BlockSize \/ \E w \in Workers :
    pc[w] \notin {"loadNum", "loadMin", "exited"}

-----------------------------------------------------------------------------
(* Exclusive execution *)

\* A step of w that changes the status of no transaction but t, which nobody
\* executes once the step is done, preserves ExecutorOwns.
LEMMA OwnsFrame ==
  ASSUME TypeOK, TypeOK', ExecutorOwns, NEW w \in Workers, Others(w), NEW t \in Txs,
         \A u \in Txs \ {t} : status'[u] = status[u] /\ incarnation'[u] = incarnation[u],
         \A v \in Workers \ {w} : pc[v] \in ExecutingPcs => tx[v] # t,
         pc'[w] \in ExecutingPcs =>
           pc[w] \in ExecutingPcs /\ tx'[w] = tx[w] /\ inc'[w] = inc[w] /\ tx[w] # t
  PROVE  ExecutorOwns'
  BY DEF TypeOK, ExecutorOwns, Executes, Others

\* ReadyToExecute -> Executing gives the transaction its only executor.
LEMMA OwnsIncarnate ==
  ASSUME TypeOK, TypeOK', ExecutorOwns, NEW w \in Workers, Others(w), NEW l, Incarnate(w, l)
  PROVE  ExecutorOwns'
<1>1. \A v \in Workers : pc[v] \in ExecutingPcs => tx[v] # tx[w]
  BY DEF TypeOK, ExecutorOwns, Incarnate
<1>2. /\ tx' = tx /\ inc'[w] = incarnation[tx[w]] /\ incarnation' = incarnation
      /\ status'[tx[w]] = "Executing"
      /\ \A u \in Txs \ {tx[w]} : status'[u] = status[u]
  BY DEF TypeOK, Incarnate, SetStatus
<1> QED
  BY <1>1, <1>2 DEF TypeOK, ExecutorOwns, Executes, Others

\* try_execute takes only ready transactions, and only their executor ends an
\* execution: every action preserves ExecutorOwns.
LEMMA OwnsStep ==
  ASSUME TypeOK, TypeOK', RegOK, ExecutorOwns, ResumersAreUnique,
         NEW w \in Workers, Environment(w) \/ WorkerStep(w) \/ ConvertWrites(w), Others(w)
  PROVE  ExecutorOwns'
<1> USE TxsFacts
    DEF TypeOK, ExecutorOwns, Executes, ExecutingPcs, ExecutePcs, FinishPcs, Finished,
        Goto, Clear, SetStatus, Incarnate, SetReadyStatus, txVars, idxVars, endVars, locals
<1>1. CASE NextTask(w) BY <1>1 DEF NextTask
<1>2. CASE LoadExecutionIdx(w) BY <1>2 DEF LoadExecutionIdx
<1>3. CASE LoadValidationIdx(w) BY <1>3 DEF LoadValidationIdx
<1>4. CASE LoadNumValidated(w) BY <1>4 DEF LoadNumValidated
<1>5. CASE LoadMinValidationIdx(w) BY <1>5 DEF LoadMinValidationIdx
<1>6. CASE FetchValidationIdx(w) BY <1>6 DEF FetchValidationIdx, FetchAdd
<1>7. CASE InspectForValidation(w)
  <2>1. CASE Incarnate(w, "execute")
    BY <2>1, OwnsIncarnate
  <2>2. CASE ~Incarnate(w, "execute")
    BY <1>7, <2>2 DEF InspectForValidation
  <2> QED
    BY <2>1, <2>2
<1>8. CASE FetchExecutionIdx(w) BY <1>8 DEF FetchExecutionIdx, FetchAdd
<1>9. CASE TryExecute(w, "tryExec", "execute", "next")
  <2>1. CASE Incarnate(w, "execute")
    BY <2>1, OwnsIncarnate
  <2>2. CASE ~Incarnate(w, "execute")
    BY <1>9, <2>2 DEF TryExecute
  <2> QED
    BY <2>1, <2>2
<1>10. CASE TryExecute(w, "tryExecV", "postExec", "postNone")
  <2>1. CASE Incarnate(w, "postExec")
    BY <2>1, OwnsIncarnate
  <2>2. CASE ~Incarnate(w, "postExec")
    BY <1>10, <2>2 DEF TryExecute
  <2> QED
    BY <2>1, <2>2
<1>11. CASE \E f \in Flags : VmOk(w, f) BY <1>11 DEF VmOk
<1>12. CASE \E b \in Txs : VmBlocking(w, b) BY <1>12 DEF VmBlocking
<1>13. CASE VmRetry(w) BY <1>13 DEF VmRetry
<1>14. CASE VmFatal(w) BY <1>14 DEF VmFatal
<1>15. CASE \E r \in Reasons : SetAbortReason(w, r) BY <1>15 DEF SetAbortReason
<1>16. CASE RetryCheck(w) BY <1>16 DEF RetryCheck
<1>17. CASE AddDependencyLock(w) BY <1>17 DEF AddDependencyLock
<1>18. CASE AddDependency(w)
  <2>1. \A u \in Txs \ {tx[w]} : status'[u] = status[u] /\ incarnation'[u] = incarnation[u]
    BY <1>18 DEF AddDependency
  <2>2. \A v \in Workers \ {w} : pc[v] \in ExecutingPcs => tx[v] # tx[w]
    BY <1>18 DEF AddDependency
  <2>3. pc'[w] \notin ExecutingPcs
    BY <1>18 DEF AddDependency
  <2>4. tx[w] \in Txs
    OBVIOUS
  <2> QED
    BY ONLY <2>1, <2>2, <2>3, <2>4, OwnsFrame, TypeOK, TypeOK', ExecutorOwns, Others(w), w \in Workers
<1>19. CASE FinishLock(w) BY <1>19 DEF FinishLock
<1>20. CASE DrainDependents(w)
  <2>1. CASE UNCHANGED txVars
    BY <1>20, <2>1 DEF DrainDependents
  <2>2. ASSUME NEW d \in dependents[tx[w]], SetReadyStatus(d), Goto(w, "drainIdx"),
               UNCHANGED <<tx, inc>>
        PROVE  ExecutorOwns'
    <3>1. d \in Txs /\ status[d] = "Aborting"
      BY DEF ResumersAreUnique, Waits
    <3>2. \A u \in Txs \ {d} : status'[u] = status[u] /\ incarnation'[u] = incarnation[u]
      BY <2>2
    <3>3. \A v \in Workers : pc[v] \in ExecutingPcs => tx[v] # d
      BY <3>1
    <3>4. pc[w] \in ExecutingPcs /\ tx'[w] = tx[w] /\ inc'[w] = inc[w]
      BY <1>20, <2>2 DEF DrainDependents
    <3> QED
      BY <3>1, <3>2, <3>3, <3>4, OwnsFrame
  <2> QED
    BY <1>20, <2>1, <2>2 DEF DrainDependents
<1>21. CASE DrainExecutionIdx(w) BY <1>21 DEF DrainExecutionIdx, Smaller
<1>22. CASE FinishMinValidationIdx(w) BY <1>22 DEF FinishMinValidationIdx, Smaller
<1>23. CASE FinishLoadValidationIdx(w) BY <1>23 DEF FinishLoadValidationIdx
<1>24. CASE FinishFetchMin(w) BY <1>24 DEF FinishFetchMin, Smaller
<1>25. CASE FinishStatus(w)
  <2>1. \A u \in Txs \ {tx[w]} : status'[u] = status[u] /\ incarnation'[u] = incarnation[u]
    BY <1>25 DEF FinishStatus
  <2>2. \A v \in Workers \ {w} : pc[v] \in ExecutingPcs => tx[v] # tx[w]
    BY <1>25 DEF FinishStatus
  <2>3. pc'[w] \notin ExecutingPcs
    BY <1>25 DEF FinishStatus
  <2>4. tx[w] \in Txs
    OBVIOUS
  <2> QED
    BY ONLY <2>1, <2>2, <2>3, <2>4, OwnsFrame, TypeOK, TypeOK', ExecutorOwns, Others(w), w \in Workers
<1>26. CASE \E valid \in BOOLEAN : Validate(w, valid) BY <1>26 DEF Validate
<1>27. CASE TryValidationAbort(w)
  <2>1. CASE Finished(tx[w])
    <3>1. \A u \in Txs \ {tx[w]} : status'[u] = status[u] /\ incarnation'[u] = incarnation[u]
      BY <1>27, <2>1 DEF TryValidationAbort
    <3>2. \A v \in Workers \ {w} : pc[v] \in ExecutingPcs => tx[v] # tx[w]
      BY <1>27, <2>1 DEF TryValidationAbort
    <3>3. pc'[w] \notin ExecutingPcs
      BY <1>27, <2>1 DEF TryValidationAbort
    <3>4. tx[w] \in Txs
      OBVIOUS
    <3> QED
      BY ONLY <3>1, <3>2, <3>3, <3>4, OwnsFrame, TypeOK, TypeOK', ExecutorOwns, Others(w), w \in Workers
  <2>2. CASE ~(Finished(tx[w]))
    BY <1>27, <2>2 DEF TryValidationAbort
  <2> QED
    BY <2>1, <2>2
<1>28. CASE ConvertWrites(w) BY <1>28 DEF ConvertWrites
<1>29. CASE FinishAbortSetReady(w)
  <2>0. status[tx[w]] = "Aborting"
    BY <1>29 DEF FinishAbortSetReady, ResumersAreUnique, Aborts, AbortPcs
  <2>1. \A u \in Txs \ {tx[w]} : status'[u] = status[u] /\ incarnation'[u] = incarnation[u]
    BY <1>29, <2>0 DEF FinishAbortSetReady
  <2>2. \A v \in Workers \ {w} : pc[v] \in ExecutingPcs => tx[v] # tx[w]
    BY <1>29, <2>0 DEF FinishAbortSetReady
  <2>3. pc'[w] \notin ExecutingPcs
    BY <1>29, <2>0 DEF FinishAbortSetReady
  <2>4. tx[w] \in Txs
    OBVIOUS
  <2> QED
    BY ONLY <2>1, <2>2, <2>3, <2>4, OwnsFrame, TypeOK, TypeOK', ExecutorOwns, Others(w), w \in Workers
<1>30. CASE FinishAbortFetchMin(w) BY <1>30 DEF FinishAbortFetchMin, Smaller
<1>31. CASE FinishAbortLoadIdx(w) BY <1>31 DEF FinishAbortLoadIdx
<1>32. CASE FinishValidation(w)
  <2>1. CASE status[tx[w]] = "Executed"
    <3>1. \A u \in Txs \ {tx[w]} : status'[u] = status[u] /\ incarnation'[u] = incarnation[u]
      BY <1>32, <2>1 DEF FinishValidation
    <3>2. \A v \in Workers \ {w} : pc[v] \in ExecutingPcs => tx[v] # tx[w]
      BY <1>32, <2>1 DEF FinishValidation
    <3>3. pc'[w] \notin ExecutingPcs
      BY <1>32, <2>1 DEF FinishValidation
    <3>4. tx[w] \in Txs
      OBVIOUS
    <3> QED
      BY ONLY <3>1, <3>2, <3>3, <3>4, OwnsFrame, TypeOK, TypeOK', ExecutorOwns, Others(w), w \in Workers
  <2>2. CASE ~(status[tx[w]] = "Executed")
    BY <1>32, <2>2 DEF FinishValidation
  <2> QED
    BY <2>1, <2>2
<1>33. CASE AfterTask(w) BY <1>33 DEF AfterTask, PostPcs
<1> QED
  BY <1>1, <1>2, <1>3, <1>4, <1>5, <1>6, <1>7, <1>8, <1>9, <1>10, <1>11, <1>12, <1>13, <1>14, <1>15, <1>16, <1>17, <1>18, <1>19, <1>20, <1>21, <1>22, <1>23, <1>24, <1>25, <1>26, <1>27, <1>28, <1>29, <1>30, <1>31, <1>32, <1>33 DEF Environment, WorkerStep

\* An executor lets go of its transaction only when it has changed its status,
\* or when the block is given up: every action preserves ExecutingHasOwner.
LEMMA OwnerStep ==
  ASSUME TypeOK, ExecutorOwns, ExecutingHasOwner, AbortInv,
         NEW w \in Workers, Environment(w) \/ WorkerStep(w) \/ ConvertWrites(w), Others(w)
  PROVE  ExecutingHasOwner'
<1> USE TxsFacts
    DEF TypeOK, ExecutorOwns, ExecutingHasOwner, AbortInv, Executes, ExecutingPcs, ExecutePcs, FinishPcs, Finished,
        Goto, Clear, SetStatus, Incarnate, SetReadyStatus, txVars, idxVars, endVars, locals
<1>1. CASE NextTask(w) BY <1>1 DEF NextTask
<1>2. CASE LoadExecutionIdx(w) BY <1>2 DEF LoadExecutionIdx
<1>3. CASE LoadValidationIdx(w) BY <1>3 DEF LoadValidationIdx
<1>4. CASE LoadNumValidated(w) BY <1>4 DEF LoadNumValidated
<1>5. CASE LoadMinValidationIdx(w) BY <1>5 DEF LoadMinValidationIdx
<1>6. CASE FetchValidationIdx(w) BY <1>6 DEF FetchValidationIdx, FetchAdd
<1>7. CASE InspectForValidation(w) BY <1>7 DEF InspectForValidation
<1>8. CASE FetchExecutionIdx(w) BY <1>8 DEF FetchExecutionIdx, FetchAdd
<1>9. CASE TryExecute(w, "tryExec", "execute", "next") BY <1>9 DEF TryExecute
<1>10. CASE TryExecute(w, "tryExecV", "postExec", "postNone") BY <1>10 DEF TryExecute
<1>11. CASE \E f \in Flags : VmOk(w, f) BY <1>11 DEF VmOk
<1>12. CASE \E b \in Txs : VmBlocking(w, b) BY <1>12 DEF VmBlocking
<1>13. CASE VmRetry(w) BY <1>13 DEF VmRetry
<1>14. CASE VmFatal(w) BY <1>14 DEF VmFatal
<1>15. CASE \E r \in Reasons : SetAbortReason(w, r) BY <1>15 DEF SetAbortReason
<1>16. CASE RetryCheck(w) BY <1>16 DEF RetryCheck
<1>17. CASE AddDependencyLock(w) BY <1>17 DEF AddDependencyLock
<1>18. CASE AddDependency(w) BY <1>18 DEF AddDependency
<1>19. CASE FinishLock(w) BY <1>19 DEF FinishLock
<1>20. CASE DrainDependents(w) BY <1>20 DEF DrainDependents
<1>21. CASE DrainExecutionIdx(w) BY <1>21 DEF DrainExecutionIdx, Smaller
<1>22. CASE FinishMinValidationIdx(w) BY <1>22 DEF FinishMinValidationIdx, Smaller
<1>23. CASE FinishLoadValidationIdx(w) BY <1>23 DEF FinishLoadValidationIdx
<1>24. CASE FinishFetchMin(w) BY <1>24 DEF FinishFetchMin, Smaller
<1>25. CASE FinishStatus(w) BY <1>25 DEF FinishStatus
<1>26. CASE \E valid \in BOOLEAN : Validate(w, valid) BY <1>26 DEF Validate
<1>27. CASE TryValidationAbort(w) BY <1>27 DEF TryValidationAbort
<1>28. CASE ConvertWrites(w) BY <1>28 DEF ConvertWrites
<1>29. CASE FinishAbortSetReady(w) BY <1>29 DEF FinishAbortSetReady
<1>30. CASE FinishAbortFetchMin(w) BY <1>30 DEF FinishAbortFetchMin, Smaller
<1>31. CASE FinishAbortLoadIdx(w) BY <1>31 DEF FinishAbortLoadIdx
<1>32. CASE FinishValidation(w) BY <1>32 DEF FinishValidation
<1>33. CASE AfterTask(w) BY <1>33 DEF AfterTask, PostPcs
<1> QED
  BY <1>1, <1>2, <1>3, <1>4, <1>5, <1>6, <1>7, <1>8, <1>9, <1>10, <1>11, <1>12, <1>13, <1>14, <1>15, <1>16, <1>17, <1>18, <1>19, <1>20, <1>21, <1>22, <1>23, <1>24, <1>25, <1>26, <1>27, <1>28, <1>29, <1>30, <1>31, <1>32, <1>33 DEF Environment, WorkerStep

-----------------------------------------------------------------------------
(* Suspended transactions *)

\* add_dependency and try_validation_abort take over a transaction that nobody
\* else is to resume: every action preserves ResumersAreUnique.
LEMMA UniqueStep ==
  ASSUME TypeOK, RegOK, ExecutorOwns, ResumersAreUnique,
         NEW w \in Workers, Environment(w) \/ WorkerStep(w) \/ ConvertWrites(w), Others(w)
  PROVE  ResumersAreUnique'
<1> USE TxsFacts
    DEF TypeOK, RegOK, ExecutorOwns, Executes, ExecutingPcs, ExecutePcs, FinishPcs, ResumersAreUnique, Waits, Aborts, AbortPcs, Finished,
        Goto, Clear, SetStatus, Incarnate, SetReadyStatus, txVars, idxVars, endVars, locals
<1>1. CASE NextTask(w) BY <1>1 DEF NextTask
<1>2. CASE LoadExecutionIdx(w) BY <1>2 DEF LoadExecutionIdx
<1>3. CASE LoadValidationIdx(w) BY <1>3 DEF LoadValidationIdx
<1>4. CASE LoadNumValidated(w) BY <1>4 DEF LoadNumValidated
<1>5. CASE LoadMinValidationIdx(w) BY <1>5 DEF LoadMinValidationIdx
<1>6. CASE FetchValidationIdx(w) BY <1>6 DEF FetchValidationIdx, FetchAdd
<1>7. CASE InspectForValidation(w) BY <1>7 DEF InspectForValidation
<1>8. CASE FetchExecutionIdx(w) BY <1>8 DEF FetchExecutionIdx, FetchAdd
<1>9. CASE TryExecute(w, "tryExec", "execute", "next") BY <1>9 DEF TryExecute
<1>10. CASE TryExecute(w, "tryExecV", "postExec", "postNone") BY <1>10 DEF TryExecute
<1>11. CASE \E f \in Flags : VmOk(w, f) BY <1>11 DEF VmOk
<1>12. CASE \E b \in Txs : VmBlocking(w, b) BY <1>12 DEF VmBlocking
<1>13. CASE VmRetry(w) BY <1>13 DEF VmRetry
<1>14. CASE VmFatal(w) BY <1>14 DEF VmFatal
<1>15. CASE \E r \in Reasons : SetAbortReason(w, r) BY <1>15 DEF SetAbortReason
<1>16. CASE RetryCheck(w) BY <1>16 DEF RetryCheck
<1>17. CASE AddDependencyLock(w) BY <1>17 DEF AddDependencyLock
<1>18. CASE AddDependency(w) BY <1>18 DEF AddDependency
<1>19. CASE FinishLock(w) BY <1>19 DEF FinishLock
<1>20. CASE DrainDependents(w)
  <2>1. CASE UNCHANGED txVars
    BY <1>20, <2>1 DEF DrainDependents
  <2>2. ASSUME NEW d \in dependents[tx[w]], SetReadyStatus(d), Goto(w, "drainIdx"),
               dependents' = [dependents EXCEPT ![tx[w]] = @ \ {d}], pc[w] = "drain",
               UNCHANGED <<tx, inc>>
        PROVE  ResumersAreUnique'
    <3>0. tx[w] \in Txs /\ d \in Txs
      OBVIOUS
    <3>1. ASSUME NEW t \in Txs, NEW b \in Txs, Waits(t, b)' PROVE Waits(t, b) /\ t # d
      <4>1. CASE b = tx[w]
        <5>1. dependents'[tx[w]] = dependents[tx[w]] \ {d}
          BY <2>2, <3>0
        <5> QED
          BY <3>1, <4>1, <5>1
      <4>2. CASE b # tx[w]
        <5>1. dependents'[b] = dependents[b]
          BY <2>2, <4>2
        <5>2. Waits(d, tx[w]) /\ Waits(t, b)
          BY <3>1, <5>1
        <5> QED
          BY ONLY <3>0, <4>2, <5>2, b \in Txs, ResumersAreUnique DEF ResumersAreUnique
      <4> QED
        BY <4>1, <4>2
    <3>2. \A t \in Txs, v \in Workers : Aborts(v, t)' => Aborts(v, t) /\ t # d
      BY <2>2, ZenonT(40)
    <3>3. \A t \in Txs \ {d} : status'[t] = status[t]
      BY <2>2
    <3> HIDE DEF Waits, Aborts
    <3> QED
      BY <3>1, <3>2, <3>3
  <2> QED
    BY <1>20, <2>1, <2>2 DEF DrainDependents
<1>21. CASE DrainExecutionIdx(w) BY <1>21 DEF DrainExecutionIdx, Smaller
<1>22. CASE FinishMinValidationIdx(w) BY <1>22 DEF FinishMinValidationIdx, Smaller
<1>23. CASE FinishLoadValidationIdx(w) BY <1>23 DEF FinishLoadValidationIdx
<1>24. CASE FinishFetchMin(w) BY <1>24 DEF FinishFetchMin, Smaller
<1>25. CASE FinishStatus(w) BY <1>25 DEF FinishStatus
<1>26. CASE \E valid \in BOOLEAN : Validate(w, valid) BY <1>26 DEF Validate
<1>27. CASE TryValidationAbort(w) BY <1>27 DEF TryValidationAbort
<1>28. CASE ConvertWrites(w) BY <1>28 DEF ConvertWrites
<1>29. CASE FinishAbortSetReady(w) BY <1>29 DEF FinishAbortSetReady
<1>30. CASE FinishAbortFetchMin(w) BY <1>30 DEF FinishAbortFetchMin, Smaller
<1>31. CASE FinishAbortLoadIdx(w) BY <1>31 DEF FinishAbortLoadIdx
<1>32. CASE FinishValidation(w) BY <1>32 DEF FinishValidation
<1>33. CASE AfterTask(w) BY <1>33 DEF AfterTask, PostPcs
<1> QED
  BY <1>1, <1>2, <1>3, <1>4, <1>5, <1>6, <1>7, <1>8, <1>9, <1>10, <1>11, <1>12, <1>13, <1>14, <1>15, <1>16, <1>17, <1>18, <1>19, <1>20, <1>21, <1>22, <1>23, <1>24, <1>25, <1>26, <1>27, <1>28, <1>29, <1>30, <1>31, <1>32, <1>33 DEF Environment, WorkerStep

\* The list of dependents, or the aborting worker, keeps a suspended transaction
\* until it is ready: every action preserves AbortingHasResumer.
LEMMA ResumerStep ==
  ASSUME TypeOK, RegOK, ExecutorOwns, ResumersAreUnique, AbortingHasResumer,
         NEW w \in Workers, Environment(w) \/ WorkerStep(w) \/ ConvertWrites(w), Others(w)
  PROVE  AbortingHasResumer'
<1> USE TxsFacts
    DEF TypeOK, RegOK, AbortingHasResumer, ResumersAreUnique, Waits, Aborts, AbortPcs, Finished,
        Goto, Clear, SetStatus, Incarnate, SetReadyStatus, txVars, idxVars, endVars, locals
<1>1. CASE NextTask(w) BY <1>1 DEF NextTask
<1>2. CASE LoadExecutionIdx(w) BY <1>2 DEF LoadExecutionIdx
<1>3. CASE LoadValidationIdx(w) BY <1>3 DEF LoadValidationIdx
<1>4. CASE LoadNumValidated(w) BY <1>4 DEF LoadNumValidated
<1>5. CASE LoadMinValidationIdx(w) BY <1>5 DEF LoadMinValidationIdx
<1>6. CASE FetchValidationIdx(w) BY <1>6 DEF FetchValidationIdx, FetchAdd
<1>7. CASE InspectForValidation(w) BY <1>7 DEF InspectForValidation
<1>8. CASE FetchExecutionIdx(w) BY <1>8 DEF FetchExecutionIdx, FetchAdd
<1>9. CASE TryExecute(w, "tryExec", "execute", "next") BY <1>9 DEF TryExecute
<1>10. CASE TryExecute(w, "tryExecV", "postExec", "postNone") BY <1>10 DEF TryExecute
<1>11. CASE \E f \in Flags : VmOk(w, f) BY <1>11 DEF VmOk
<1>12. CASE \E b \in Txs : VmBlocking(w, b) BY <1>12 DEF VmBlocking
<1>13. CASE VmRetry(w) BY <1>13 DEF VmRetry
<1>14. CASE VmFatal(w) BY <1>14 DEF VmFatal
<1>15. CASE \E r \in Reasons : SetAbortReason(w, r) BY <1>15 DEF SetAbortReason
<1>16. CASE RetryCheck(w) BY <1>16 DEF RetryCheck
<1>17. CASE AddDependencyLock(w) BY <1>17 DEF AddDependencyLock
<1>18. CASE AddDependency(w) BY <1>18 DEF AddDependency
<1>19. CASE FinishLock(w) BY <1>19 DEF FinishLock
<1>20. CASE DrainDependents(w) BY <1>20 DEF DrainDependents
<1>21. CASE DrainExecutionIdx(w) BY <1>21 DEF DrainExecutionIdx, Smaller
<1>22. CASE FinishMinValidationIdx(w) BY <1>22 DEF FinishMinValidationIdx, Smaller
<1>23. CASE FinishLoadValidationIdx(w) BY <1>23 DEF FinishLoadValidationIdx
<1>24. CASE FinishFetchMin(w) BY <1>24 DEF FinishFetchMin, Smaller
<1>25. CASE FinishStatus(w) BY <1>25 DEF FinishStatus
<1>26. CASE \E valid \in BOOLEAN : Validate(w, valid) BY <1>26 DEF Validate
<1>27. CASE TryValidationAbort(w) BY <1>27 DEF TryValidationAbort
<1>28. CASE ConvertWrites(w) BY <1>28 DEF ConvertWrites
<1>29. CASE FinishAbortSetReady(w) BY <1>29 DEF FinishAbortSetReady
<1>30. CASE FinishAbortFetchMin(w) BY <1>30 DEF FinishAbortFetchMin, Smaller
<1>31. CASE FinishAbortLoadIdx(w) BY <1>31 DEF FinishAbortLoadIdx
<1>32. CASE FinishValidation(w) BY <1>32 DEF FinishValidation
<1>33. CASE AfterTask(w) BY <1>33 DEF AfterTask, PostPcs
<1> QED
  BY <1>1, <1>2, <1>3, <1>4, <1>5, <1>6, <1>7, <1>8, <1>9, <1>10, <1>11, <1>12, <1>13, <1>14, <1>15, <1>16, <1>17, <1>18, <1>19, <1>20, <1>21, <1>22, <1>23, <1>24, <1>25, <1>26, <1>27, <1>28, <1>29, <1>30, <1>31, <1>32, <1>33 DEF Environment, WorkerStep

\* A mutex is taken only when it is free: every action preserves
\* LocksAreExclusive.
LEMMA LockStep ==
  ASSUME TypeOK, RegOK, ExecutorOwns, LocksAreExclusive,
         NEW w \in Workers, Environment(w) \/ WorkerStep(w) \/ ConvertWrites(w), Others(w)
  PROVE  LocksAreExclusive'
<1> USE TxsFacts
    DEF TypeOK, RegOK, LocksAreExclusive, Holding, Free, FinishPcs,
        Goto, Clear, SetStatus, Incarnate, SetReadyStatus, txVars, idxVars, endVars, locals
<1>1. CASE NextTask(w) BY <1>1 DEF NextTask
<1>2. CASE LoadExecutionIdx(w) BY <1>2 DEF LoadExecutionIdx
<1>3. CASE LoadValidationIdx(w) BY <1>3 DEF LoadValidationIdx
<1>4. CASE LoadNumValidated(w) BY <1>4 DEF LoadNumValidated
<1>5. CASE LoadMinValidationIdx(w) BY <1>5 DEF LoadMinValidationIdx
<1>6. CASE FetchValidationIdx(w) BY <1>6 DEF FetchValidationIdx, FetchAdd
<1>7. CASE InspectForValidation(w) BY <1>7 DEF InspectForValidation
<1>8. CASE FetchExecutionIdx(w) BY <1>8 DEF FetchExecutionIdx, FetchAdd
<1>9. CASE TryExecute(w, "tryExec", "execute", "next") BY <1>9, SMTT(30) DEF TryExecute
<1>10. CASE TryExecute(w, "tryExecV", "postExec", "postNone") BY <1>10, SMTT(30) DEF TryExecute
<1>11. CASE \E f \in Flags : VmOk(w, f) BY <1>11 DEF VmOk
<1>12. CASE \E b \in Txs : VmBlocking(w, b) BY <1>12 DEF VmBlocking
<1>13. CASE VmRetry(w) BY <1>13 DEF VmRetry
<1>14. CASE VmFatal(w) BY <1>14 DEF VmFatal
<1>15. CASE \E r \in Reasons : SetAbortReason(w, r) BY <1>15 DEF SetAbortReason
<1>16. CASE RetryCheck(w) BY <1>16, SMTT(30) DEF RetryCheck
<1>17. CASE AddDependencyLock(w) BY <1>17 DEF AddDependencyLock
<1>18. CASE AddDependency(w) BY <1>18 DEF AddDependency
<1>19. CASE FinishLock(w) BY <1>19 DEF FinishLock
<1>20. CASE DrainDependents(w) BY <1>20 DEF DrainDependents
<1>21. CASE DrainExecutionIdx(w) BY <1>21 DEF DrainExecutionIdx, Smaller
<1>22. CASE FinishMinValidationIdx(w) BY <1>22 DEF FinishMinValidationIdx, Smaller
<1>23. CASE FinishLoadValidationIdx(w) BY <1>23 DEF FinishLoadValidationIdx
<1>24. CASE FinishFetchMin(w) BY <1>24 DEF FinishFetchMin, Smaller
<1>25. CASE FinishStatus(w) BY <1>25 DEF FinishStatus
<1>26. CASE \E valid \in BOOLEAN : Validate(w, valid) BY <1>26 DEF Validate
<1>27. CASE TryValidationAbort(w) BY <1>27 DEF TryValidationAbort
<1>28. CASE ConvertWrites(w) BY <1>28 DEF ConvertWrites
<1>29. CASE FinishAbortSetReady(w) BY <1>29 DEF FinishAbortSetReady
<1>30. CASE FinishAbortFetchMin(w) BY <1>30 DEF FinishAbortFetchMin, Smaller
<1>31. CASE FinishAbortLoadIdx(w) BY <1>31 DEF FinishAbortLoadIdx
<1>32. CASE FinishValidation(w) BY <1>32 DEF FinishValidation
<1>33. CASE AfterTask(w) BY <1>33, SMTT(30) DEF AfterTask, PostPcs
<1> QED
  BY <1>1, <1>2, <1>3, <1>4, <1>5, <1>6, <1>7, <1>8, <1>9, <1>10, <1>11, <1>12, <1>13, <1>14, <1>15, <1>16, <1>17, <1>18, <1>19, <1>20, <1>21, <1>22, <1>23, <1>24, <1>25, <1>26, <1>27, <1>28, <1>29, <1>30, <1>31, <1>32, <1>33 DEF Environment, WorkerStep

\* The mutex that add_dependency holds keeps finish_execution out: every action
\* preserves BlockerIsUnfinished.
LEMMA BlockerStep ==
  ASSUME TypeOK, RegOK, LocksAreExclusive, BlockerIsUnfinished,
         NEW w \in Workers, Environment(w) \/ WorkerStep(w) \/ ConvertWrites(w), Others(w)
  PROVE  BlockerIsUnfinished'
<1> USE TxsFacts
    DEF TypeOK, RegOK, BlockerIsUnfinished, LocksAreExclusive, Holding, FinishPcs, Free, Finished,
        Goto, Clear, SetStatus, Incarnate, SetReadyStatus, txVars, idxVars, endVars, locals
<1>1. CASE NextTask(w) BY <1>1 DEF NextTask
<1>2. CASE LoadExecutionIdx(w) BY <1>2 DEF LoadExecutionIdx
<1>3. CASE LoadValidationIdx(w) BY <1>3 DEF LoadValidationIdx
<1>4. CASE LoadNumValidated(w) BY <1>4 DEF LoadNumValidated
<1>5. CASE LoadMinValidationIdx(w) BY <1>5 DEF LoadMinValidationIdx
<1>6. CASE FetchValidationIdx(w) BY <1>6 DEF FetchValidationIdx, FetchAdd
<1>7. CASE InspectForValidation(w) BY <1>7 DEF InspectForValidation
<1>8. CASE FetchExecutionIdx(w) BY <1>8 DEF FetchExecutionIdx, FetchAdd
<1>9. CASE TryExecute(w, "tryExec", "execute", "next") BY <1>9 DEF TryExecute
<1>10. CASE TryExecute(w, "tryExecV", "postExec", "postNone") BY <1>10 DEF TryExecute
<1>11. CASE \E f \in Flags : VmOk(w, f) BY <1>11 DEF VmOk
<1>12. CASE \E b \in Txs : VmBlocking(w, b) BY <1>12 DEF VmBlocking
<1>13. CASE VmRetry(w) BY <1>13 DEF VmRetry
<1>14. CASE VmFatal(w) BY <1>14 DEF VmFatal
<1>15. CASE \E r \in Reasons : SetAbortReason(w, r) BY <1>15 DEF SetAbortReason
<1>16. CASE RetryCheck(w) BY <1>16 DEF RetryCheck
<1>17. CASE AddDependencyLock(w) BY <1>17 DEF AddDependencyLock
<1>18. CASE AddDependency(w) BY <1>18 DEF AddDependency
<1>19. CASE FinishLock(w) BY <1>19 DEF FinishLock
<1>20. CASE DrainDependents(w) BY <1>20 DEF DrainDependents
<1>21. CASE DrainExecutionIdx(w) BY <1>21 DEF DrainExecutionIdx, Smaller
<1>22. CASE FinishMinValidationIdx(w) BY <1>22 DEF FinishMinValidationIdx, Smaller
<1>23. CASE FinishLoadValidationIdx(w) BY <1>23 DEF FinishLoadValidationIdx
<1>24. CASE FinishFetchMin(w) BY <1>24 DEF FinishFetchMin, Smaller
<1>25. CASE FinishStatus(w) BY <1>25 DEF FinishStatus
<1>26. CASE \E valid \in BOOLEAN : Validate(w, valid) BY <1>26 DEF Validate
<1>27. CASE TryValidationAbort(w) BY <1>27 DEF TryValidationAbort
<1>28. CASE ConvertWrites(w) BY <1>28 DEF ConvertWrites
<1>29. CASE FinishAbortSetReady(w) BY <1>29 DEF FinishAbortSetReady
<1>30. CASE FinishAbortFetchMin(w) BY <1>30 DEF FinishAbortFetchMin, Smaller
<1>31. CASE FinishAbortLoadIdx(w) BY <1>31 DEF FinishAbortLoadIdx
<1>32. CASE FinishValidation(w) BY <1>32 DEF FinishValidation
<1>33. CASE AfterTask(w) BY <1>33 DEF AfterTask, PostPcs
<1> QED
  BY <1>1, <1>2, <1>3, <1>4, <1>5, <1>6, <1>7, <1>8, <1>9, <1>10, <1>11, <1>12, <1>13, <1>14, <1>15, <1>16, <1>17, <1>18, <1>19, <1>20, <1>21, <1>22, <1>23, <1>24, <1>25, <1>26, <1>27, <1>28, <1>29, <1>30, <1>31, <1>32, <1>33 DEF Environment, WorkerStep

\* The mutex that finish_execution holds keeps add_dependency out: every action
\* preserves DrainedIsEmpty.
LEMMA DrainedStep ==
  ASSUME TypeOK, RegOK, LocksAreExclusive, DrainedIsEmpty,
         NEW w \in Workers, Environment(w) \/ WorkerStep(w) \/ ConvertWrites(w), Others(w)
  PROVE  DrainedIsEmpty'
<1> USE TxsFacts
    DEF TypeOK, RegOK, DrainedIsEmpty, DrainedPcs, LocksAreExclusive, Holding, FinishPcs, Free,
        Goto, Clear, SetStatus, Incarnate, SetReadyStatus, txVars, idxVars, endVars, locals
<1>1. CASE NextTask(w) BY <1>1 DEF NextTask
<1>2. CASE LoadExecutionIdx(w) BY <1>2 DEF LoadExecutionIdx
<1>3. CASE LoadValidationIdx(w) BY <1>3 DEF LoadValidationIdx
<1>4. CASE LoadNumValidated(w) BY <1>4 DEF LoadNumValidated
<1>5. CASE LoadMinValidationIdx(w) BY <1>5 DEF LoadMinValidationIdx
<1>6. CASE FetchValidationIdx(w) BY <1>6 DEF FetchValidationIdx, FetchAdd
<1>7. CASE InspectForValidation(w) BY <1>7 DEF InspectForValidation
<1>8. CASE FetchExecutionIdx(w) BY <1>8 DEF FetchExecutionIdx, FetchAdd
<1>9. CASE TryExecute(w, "tryExec", "execute", "next") BY <1>9 DEF TryExecute
<1>10. CASE TryExecute(w, "tryExecV", "postExec", "postNone") BY <1>10 DEF TryExecute
<1>11. CASE \E f \in Flags : VmOk(w, f) BY <1>11 DEF VmOk
<1>12. CASE \E b \in Txs : VmBlocking(w, b) BY <1>12 DEF VmBlocking
<1>13. CASE VmRetry(w) BY <1>13 DEF VmRetry
<1>14. CASE VmFatal(w) BY <1>14 DEF VmFatal
<1>15. CASE \E r \in Reasons : SetAbortReason(w, r) BY <1>15 DEF SetAbortReason
<1>16. CASE RetryCheck(w) BY <1>16 DEF RetryCheck
<1>17. CASE AddDependencyLock(w) BY <1>17 DEF AddDependencyLock
<1>18. CASE AddDependency(w) BY <1>18 DEF AddDependency
<1>19. CASE FinishLock(w) BY <1>19 DEF FinishLock
<1>20. CASE DrainDependents(w) BY <1>20 DEF DrainDependents
<1>21. CASE DrainExecutionIdx(w) BY <1>21 DEF DrainExecutionIdx, Smaller
<1>22. CASE FinishMinValidationIdx(w) BY <1>22 DEF FinishMinValidationIdx, Smaller
<1>23. CASE FinishLoadValidationIdx(w) BY <1>23 DEF FinishLoadValidationIdx
<1>24. CASE FinishFetchMin(w) BY <1>24 DEF FinishFetchMin, Smaller
<1>25. CASE FinishStatus(w) BY <1>25 DEF FinishStatus
<1>26. CASE \E valid \in BOOLEAN : Validate(w, valid) BY <1>26 DEF Validate
<1>27. CASE TryValidationAbort(w) BY <1>27 DEF TryValidationAbort
<1>28. CASE ConvertWrites(w) BY <1>28 DEF ConvertWrites
<1>29. CASE FinishAbortSetReady(w) BY <1>29 DEF FinishAbortSetReady
<1>30. CASE FinishAbortFetchMin(w) BY <1>30 DEF FinishAbortFetchMin, Smaller
<1>31. CASE FinishAbortLoadIdx(w) BY <1>31 DEF FinishAbortLoadIdx
<1>32. CASE FinishValidation(w) BY <1>32 DEF FinishValidation
<1>33. CASE AfterTask(w) BY <1>33 DEF AfterTask, PostPcs
<1> QED
  BY <1>1, <1>2, <1>3, <1>4, <1>5, <1>6, <1>7, <1>8, <1>9, <1>10, <1>11, <1>12, <1>13, <1>14, <1>15, <1>16, <1>17, <1>18, <1>19, <1>20, <1>21, <1>22, <1>23, <1>24, <1>25, <1>26, <1>27, <1>28, <1>29, <1>30, <1>31, <1>32, <1>33 DEF Environment, WorkerStep

\* finish_execution drains the dependents before the transaction is finished:
\* every action preserves WaitsForUnfinished.
LEMMA WaitsStep ==
  ASSUME TypeOK, RegOK, ExecutorOwns, ResumersAreUnique, WaitsForUnfinished, BlockerIsUnfinished, DrainedIsEmpty,
         NEW w \in Workers, Environment(w) \/ WorkerStep(w) \/ ConvertWrites(w), Others(w)
  PROVE  WaitsForUnfinished'
<1> USE TxsFacts
    DEF TypeOK, RegOK, WaitsForUnfinished, BlockerIsUnfinished, DrainedIsEmpty, DrainedPcs, Waits, Finished,
        Goto, Clear, SetStatus, Incarnate, SetReadyStatus, txVars, idxVars, endVars, locals
<1>1. CASE NextTask(w) BY <1>1 DEF NextTask
<1>2. CASE LoadExecutionIdx(w) BY <1>2 DEF LoadExecutionIdx
<1>3. CASE LoadValidationIdx(w) BY <1>3 DEF LoadValidationIdx
<1>4. CASE LoadNumValidated(w) BY <1>4 DEF LoadNumValidated
<1>5. CASE LoadMinValidationIdx(w) BY <1>5 DEF LoadMinValidationIdx
<1>6. CASE FetchValidationIdx(w) BY <1>6 DEF FetchValidationIdx, FetchAdd
<1>7. CASE InspectForValidation(w) BY <1>7 DEF InspectForValidation
<1>8. CASE FetchExecutionIdx(w) BY <1>8 DEF FetchExecutionIdx, FetchAdd
<1>9. CASE TryExecute(w, "tryExec", "execute", "next") BY <1>9 DEF TryExecute
<1>10. CASE TryExecute(w, "tryExecV", "postExec", "postNone") BY <1>10 DEF TryExecute
<1>11. CASE \E f \in Flags : VmOk(w, f) BY <1>11 DEF VmOk
<1>12. CASE \E b \in Txs : VmBlocking(w, b) BY <1>12 DEF VmBlocking
<1>13. CASE VmRetry(w) BY <1>13 DEF VmRetry
<1>14. CASE VmFatal(w) BY <1>14 DEF VmFatal
<1>15. CASE \E r \in Reasons : SetAbortReason(w, r) BY <1>15 DEF SetAbortReason
<1>16. CASE RetryCheck(w) BY <1>16 DEF RetryCheck
<1>17. CASE AddDependencyLock(w) BY <1>17 DEF AddDependencyLock
<1>18. CASE AddDependency(w) BY <1>18 DEF AddDependency
<1>19. CASE FinishLock(w) BY <1>19 DEF FinishLock
<1>20. CASE DrainDependents(w) BY <1>20 DEF DrainDependents
<1>21. CASE DrainExecutionIdx(w) BY <1>21 DEF DrainExecutionIdx, Smaller
<1>22. CASE FinishMinValidationIdx(w) BY <1>22 DEF FinishMinValidationIdx, Smaller
<1>23. CASE FinishLoadValidationIdx(w) BY <1>23 DEF FinishLoadValidationIdx
<1>24. CASE FinishFetchMin(w) BY <1>24 DEF FinishFetchMin, Smaller
<1>25. CASE FinishStatus(w) BY <1>25 DEF FinishStatus
<1>26. CASE \E valid \in BOOLEAN : Validate(w, valid) BY <1>26 DEF Validate
<1>27. CASE TryValidationAbort(w) BY <1>27 DEF TryValidationAbort
<1>28. CASE ConvertWrites(w) BY <1>28 DEF ConvertWrites
<1>29. CASE FinishAbortSetReady(w) BY <1>29 DEF FinishAbortSetReady
<1>30. CASE FinishAbortFetchMin(w) BY <1>30 DEF FinishAbortFetchMin, Smaller
<1>31. CASE FinishAbortLoadIdx(w) BY <1>31 DEF FinishAbortLoadIdx
<1>32. CASE FinishValidation(w) BY <1>32 DEF FinishValidation
<1>33. CASE AfterTask(w) BY <1>33 DEF AfterTask, PostPcs
<1> QED
  BY <1>1, <1>2, <1>3, <1>4, <1>5, <1>6, <1>7, <1>8, <1>9, <1>10, <1>11, <1>12, <1>13, <1>14, <1>15, <1>16, <1>17, <1>18, <1>19, <1>20, <1>21, <1>22, <1>23, <1>24, <1>25, <1>26, <1>27, <1>28, <1>29, <1>30, <1>31, <1>32, <1>33 DEF Environment, WorkerStep

-----------------------------------------------------------------------------
(* Giving up *)

\* scheduler.abort() comes before the reason, and the worker in between stays:
\* every action preserves AbortInv.
LEMMA AbortStep ==
  ASSUME TypeOK, AbortInv,
         NEW w \in Workers, Environment(w) \/ WorkerStep(w) \/ ConvertWrites(w), Others(w)
  PROVE  AbortInv'
<1> USE TxsFacts
    DEF TypeOK, AbortInv,
        Goto, Clear, SetStatus, Incarnate, SetReadyStatus, txVars, idxVars, endVars, locals
<1>1. CASE NextTask(w) BY <1>1 DEF NextTask
<1>2. CASE LoadExecutionIdx(w) BY <1>2 DEF LoadExecutionIdx
<1>3. CASE LoadValidationIdx(w) BY <1>3 DEF LoadValidationIdx
<1>4. CASE LoadNumValidated(w) BY <1>4 DEF LoadNumValidated
<1>5. CASE LoadMinValidationIdx(w) BY <1>5 DEF LoadMinValidationIdx
<1>6. CASE FetchValidationIdx(w) BY <1>6 DEF FetchValidationIdx, FetchAdd
<1>7. CASE InspectForValidation(w) BY <1>7 DEF InspectForValidation
<1>8. CASE FetchExecutionIdx(w) BY <1>8 DEF FetchExecutionIdx, FetchAdd
<1>9. CASE TryExecute(w, "tryExec", "execute", "next") BY <1>9 DEF TryExecute
<1>10. CASE TryExecute(w, "tryExecV", "postExec", "postNone") BY <1>10 DEF TryExecute
<1>11. CASE \E f \in Flags : VmOk(w, f) BY <1>11 DEF VmOk
<1>12. CASE \E b \in Txs : VmBlocking(w, b) BY <1>12 DEF VmBlocking
<1>13. CASE VmRetry(w) BY <1>13 DEF VmRetry
<1>14. CASE VmFatal(w) BY <1>14 DEF VmFatal
<1>15. CASE \E r \in Reasons : SetAbortReason(w, r) BY <1>15 DEF SetAbortReason, Reasons
<1>16. CASE RetryCheck(w) BY <1>16 DEF RetryCheck
<1>17. CASE AddDependencyLock(w) BY <1>17 DEF AddDependencyLock
<1>18. CASE AddDependency(w) BY <1>18 DEF AddDependency
<1>19. CASE FinishLock(w) BY <1>19 DEF FinishLock
<1>20. CASE DrainDependents(w) BY <1>20 DEF DrainDependents
<1>21. CASE DrainExecutionIdx(w) BY <1>21 DEF DrainExecutionIdx, Smaller
<1>22. CASE FinishMinValidationIdx(w) BY <1>22 DEF FinishMinValidationIdx, Smaller
<1>23. CASE FinishLoadValidationIdx(w) BY <1>23 DEF FinishLoadValidationIdx
<1>24. CASE FinishFetchMin(w) BY <1>24 DEF FinishFetchMin, Smaller
<1>25. CASE FinishStatus(w) BY <1>25 DEF FinishStatus
<1>26. CASE \E valid \in BOOLEAN : Validate(w, valid) BY <1>26 DEF Validate
<1>27. CASE TryValidationAbort(w) BY <1>27 DEF TryValidationAbort
<1>28. CASE ConvertWrites(w) BY <1>28 DEF ConvertWrites
<1>29. CASE FinishAbortSetReady(w) BY <1>29 DEF FinishAbortSetReady
<1>30. CASE FinishAbortFetchMin(w) BY <1>30 DEF FinishAbortFetchMin, Smaller
<1>31. CASE FinishAbortLoadIdx(w) BY <1>31 DEF FinishAbortLoadIdx
<1>32. CASE FinishValidation(w) BY <1>32 DEF FinishValidation
<1>33. CASE AfterTask(w) BY <1>33 DEF AfterTask, PostPcs
<1> QED
  BY <1>1, <1>2, <1>3, <1>4, <1>5, <1>6, <1>7, <1>8, <1>9, <1>10, <1>11, <1>12, <1>13, <1>14, <1>15, <1>16, <1>17, <1>18, <1>19, <1>20, <1>21, <1>22, <1>23, <1>24, <1>25, <1>26, <1>27, <1>28, <1>29, <1>30, <1>31, <1>32, <1>33 DEF Environment, WorkerStep

-----------------------------------------------------------------------------
(* Tasks *)

\* After its fetch_min, min_validation_idx is not above the transaction.
LEMMA MinFact ==
  ASSUME NEW t \in Txs, NEW i \in 0 .. BlockSize
  PROVE  Smaller(i, t) < BlockSize /\ ~(t < Smaller(i, t))
  BY BlockSizeAssumption DEF Txs, Smaller

\* fetch_add hands a transaction to the worker that passes it: every action
\* preserves FinishIsCovered.
LEMMA CoveredStep ==
  ASSUME TypeOK, FinishIsCovered,
         NEW w \in Workers, Environment(w) \/ WorkerStep(w) \/ ConvertWrites(w), Others(w)
  PROVE  FinishIsCovered'
<1> USE TxsFacts
    DEF TypeOK, FinishIsCovered, Holding, FinishPcs, Free, Contains, NeedValidation,
        Goto, Clear, SetStatus, Incarnate, SetReadyStatus, txVars, idxVars, endVars, locals
<1>1. CASE NextTask(w) BY <1>1 DEF NextTask
<1>2. CASE LoadExecutionIdx(w) BY <1>2 DEF LoadExecutionIdx
<1>3. CASE LoadValidationIdx(w) BY <1>3 DEF LoadValidationIdx
<1>4. CASE LoadNumValidated(w) BY <1>4 DEF LoadNumValidated
<1>5. CASE LoadMinValidationIdx(w) BY <1>5 DEF LoadMinValidationIdx
<1>6. CASE FetchValidationIdx(w)
  <2>1. \A t \in Txs : validation_idx <= t => validation_idx' <= t \/ (t = tx'[w] /\ pc'[w] = "inspect")
    BY <1>6 DEF FetchValidationIdx, FetchAdd
  <2>2. pc[w] = "fetchVal" /\ pc'[w] \in {"inspect", "fetchExec"} /\ aborted' = aborted
    BY <1>6 DEF FetchValidationIdx
  <2>3. \A v \in Workers \ {w} : pc'[v] = pc[v] /\ tx'[v] = tx[v]
    BY DEF Others
  <2> QED
    BY <2>1, <2>2, <2>3
<1>7. CASE InspectForValidation(w) BY <1>7 DEF InspectForValidation
<1>8. CASE FetchExecutionIdx(w) BY <1>8 DEF FetchExecutionIdx, FetchAdd
<1>9. CASE TryExecute(w, "tryExec", "execute", "next") BY <1>9 DEF TryExecute
<1>10. CASE TryExecute(w, "tryExecV", "postExec", "postNone") BY <1>10 DEF TryExecute
<1>11. CASE \E f \in Flags : VmOk(w, f) BY <1>11 DEF VmOk
<1>12. CASE \E b \in Txs : VmBlocking(w, b) BY <1>12 DEF VmBlocking
<1>13. CASE VmRetry(w) BY <1>13 DEF VmRetry
<1>14. CASE VmFatal(w) BY <1>14 DEF VmFatal
<1>15. CASE \E r \in Reasons : SetAbortReason(w, r) BY <1>15 DEF SetAbortReason
<1>16. CASE RetryCheck(w) BY <1>16 DEF RetryCheck
<1>17. CASE AddDependencyLock(w) BY <1>17 DEF AddDependencyLock
<1>18. CASE AddDependency(w) BY <1>18 DEF AddDependency
<1>19. CASE FinishLock(w) BY <1>19 DEF FinishLock
<1>20. CASE DrainDependents(w) BY <1>20 DEF DrainDependents
<1>21. CASE DrainExecutionIdx(w) BY <1>21 DEF DrainExecutionIdx, Smaller
<1>22. CASE FinishMinValidationIdx(w)
  <2>1. Contains(flags[w], NeedValidation)
    OBVIOUS
  <2> HIDE DEF Contains, NeedValidation
  <2>2. tx[w] \in Txs /\ min_validation_idx \in 0 .. BlockSize
    BY DEF TypeOK
  <2>3. Smaller(min_validation_idx, tx[w]) < BlockSize /\ ~(tx[w] < Smaller(min_validation_idx, tx[w]))
    BY ONLY <2>2, MinFact
  <2> HIDE DEF Smaller
  <2>4. pc'[w] = "finVal" /\ validation_idx' = validation_idx
    BY <1>22, <2>1, <2>2, <2>3 DEF FinishMinValidationIdx
  <2>5. aborted' = aborted /\ tx' = tx /\ pc[w] = "finMin" /\ \A v \in Workers \ {w} : pc'[v] = pc[v]
    BY <1>22 DEF FinishMinValidationIdx, Others
  <2> QED
    BY <2>4, <2>5
<1>23. CASE FinishLoadValidationIdx(w) BY <1>23 DEF FinishLoadValidationIdx
<1>24. CASE FinishFetchMin(w)
  <2>1. \A t \in Txs : validation_idx <= t => validation_idx' <= t
    BY <1>24 DEF FinishFetchMin, Smaller
  <2>2. aborted' = aborted /\ tx' = tx
    BY <1>24 DEF FinishFetchMin
  <2>3. pc[w] = "finFetchMin" /\ pc'[w] = "finBetween" /\ \A v \in Workers \ {w} : pc'[v] = pc[v]
    BY <1>24 DEF FinishFetchMin, Others
  <2> QED
    BY <2>1, <2>2, <2>3
<1>25. CASE FinishStatus(w) BY <1>25 DEF FinishStatus
<1>26. CASE \E valid \in BOOLEAN : Validate(w, valid) BY <1>26 DEF Validate
<1>27. CASE TryValidationAbort(w) BY <1>27 DEF TryValidationAbort
<1>28. CASE ConvertWrites(w) BY <1>28 DEF ConvertWrites
<1>29. CASE FinishAbortSetReady(w) BY <1>29 DEF FinishAbortSetReady
<1>30. CASE FinishAbortFetchMin(w)
  <2>1. \A t \in Txs : validation_idx <= t => validation_idx' <= t
    BY <1>30 DEF FinishAbortFetchMin, Smaller
  <2>2. aborted' = aborted /\ tx' = tx
    BY <1>30 DEF FinishAbortFetchMin
  <2>3. pc[w] = "valMin" /\ pc'[w] = "execLoad" /\ \A v \in Workers \ {w} : pc'[v] = pc[v]
    BY <1>30 DEF FinishAbortFetchMin, Others
  <2> QED
    BY <2>1, <2>2, <2>3
<1>31. CASE FinishAbortLoadIdx(w) BY <1>31 DEF FinishAbortLoadIdx
<1>32. CASE FinishValidation(w) BY <1>32 DEF FinishValidation
<1>33. CASE AfterTask(w) BY <1>33 DEF AfterTask, PostPcs
<1> QED
  BY <1>1, <1>2, <1>3, <1>4, <1>5, <1>6, <1>7, <1>8, <1>9, <1>10, <1>11, <1>12, <1>13, <1>14, <1>15, <1>16, <1>17, <1>18, <1>19, <1>20, <1>21, <1>22, <1>23, <1>24, <1>25, <1>26, <1>27, <1>28, <1>29, <1>30, <1>31, <1>32, <1>33 DEF Environment, WorkerStep

\* A counter passes a transaction only into the hands of a worker, and whoever
\* makes one ready moves the counter back: every action preserves NoLostTask.
LEMMA TaskStep ==
  ASSUME TypeOK, RegOK, ResumersAreUnique, FinishIsCovered, AbortInv, NoLostTask,
         NEW w \in Workers, Environment(w) \/ WorkerStep(w) \/ ConvertWrites(w), Others(w)
  PROVE  NoLostTask'
<1> USE TxsFacts
    DEF TypeOK, RegOK, FinishIsCovered, AbortInv, NoLostTask, ValidatePcs, Finished,
        Goto, Clear, SetStatus, Incarnate, SetReadyStatus, txVars, idxVars, endVars, locals
<1>1. CASE NextTask(w) BY <1>1 DEF NextTask
<1>2. CASE LoadExecutionIdx(w) BY <1>2 DEF LoadExecutionIdx
<1>3. CASE LoadValidationIdx(w) BY <1>3 DEF LoadValidationIdx
<1>4. CASE LoadNumValidated(w) BY <1>4 DEF LoadNumValidated
<1>5. CASE LoadMinValidationIdx(w) BY <1>5 DEF LoadMinValidationIdx
<1>6. CASE FetchValidationIdx(w)
  <2>1. \A t \in Txs : validation_idx <= t => validation_idx' <= t \/ (t = tx'[w] /\ pc'[w] = "inspect")
    BY <1>6 DEF FetchValidationIdx, FetchAdd
  <2>2. pc[w] = "fetchVal" /\ pc'[w] \in {"inspect", "fetchExec"} /\ aborted' = aborted
    BY <1>6 DEF FetchValidationIdx
  <2>3. \A v \in Workers \ {w} : pc'[v] = pc[v] /\ tx'[v] = tx[v]
    BY DEF Others
  <2>4. status' = status /\ execution_idx' = execution_idx
    BY <1>6 DEF FetchValidationIdx
  <2>5. reg' = reg
    BY <1>6 DEF FetchValidationIdx
  <2>6. ASSUME ~aborted, NEW t \in Txs, status[t] = "ReadyToExecute", ~(execution_idx <= t)
        PROVE  \E v \in Workers :
                 \/ tx'[v] = t /\ pc'[v] \in {"tryExec", "inspect", "valMin", "execLoad", "tryExecV"}
                 \/ reg'[v] = t /\ pc'[v] = "drainIdx"
    <3>1. PICK v \in Workers :
            \/ tx[v] = t /\ pc[v] \in {"tryExec", "inspect", "valMin", "execLoad", "tryExecV"}
            \/ reg[v] = t /\ pc[v] = "drainIdx"
      BY <2>6
    <3> QED
      BY ONLY <2>2, <2>3, <2>5, <3>1
  <2>7. ASSUME ~aborted, NEW t \in Txs, status[t] = "Executed", ~(validation_idx' <= t)
        PROVE  \E v \in Workers : tx'[v] = t /\ pc'[v] \in {"inspect", "postVal"} \cup ValidatePcs
    <3>1. CASE validation_idx <= t
      BY <2>1, <2>7, <3>1
    <3>2. CASE ~(validation_idx <= t)
      <4>1. PICK v \in Workers : tx[v] = t /\ pc[v] \in {"inspect", "postVal"} \cup ValidatePcs
        BY <2>7, <3>2
      <4> QED
        BY ONLY <2>2, <2>3, <4>1 DEF ValidatePcs
    <3> QED
      BY <3>1, <3>2
  <2> QED
    BY ONLY <2>2, <2>4, <2>6, <2>7 DEF NoLostTask
<1>7. CASE InspectForValidation(w) BY <1>7 DEF InspectForValidation
<1>8. CASE FetchExecutionIdx(w) BY <1>8 DEF FetchExecutionIdx, FetchAdd
<1>9. CASE TryExecute(w, "tryExec", "execute", "next") BY <1>9 DEF TryExecute
<1>10. CASE TryExecute(w, "tryExecV", "postExec", "postNone") BY <1>10 DEF TryExecute
<1>11. CASE \E f \in Flags : VmOk(w, f) BY <1>11 DEF VmOk
<1>12. CASE \E b \in Txs : VmBlocking(w, b) BY <1>12 DEF VmBlocking
<1>13. CASE VmRetry(w) BY <1>13 DEF VmRetry
<1>14. CASE VmFatal(w) BY <1>14 DEF VmFatal
<1>15. CASE \E r \in Reasons : SetAbortReason(w, r) BY <1>15 DEF SetAbortReason
<1>16. CASE RetryCheck(w) BY <1>16 DEF RetryCheck
<1>17. CASE AddDependencyLock(w) BY <1>17 DEF AddDependencyLock
<1>18. CASE AddDependency(w) BY <1>18 DEF AddDependency
<1>19. CASE FinishLock(w) BY <1>19 DEF FinishLock
<1>20. CASE DrainDependents(w) BY <1>20 DEF DrainDependents
<1>21. CASE DrainExecutionIdx(w) BY <1>21 DEF DrainExecutionIdx, Smaller
<1>22. CASE FinishMinValidationIdx(w) BY <1>22 DEF FinishMinValidationIdx, Smaller
<1>23. CASE FinishLoadValidationIdx(w) BY <1>23 DEF FinishLoadValidationIdx
<1>24. CASE FinishFetchMin(w) BY <1>24 DEF FinishFetchMin, Smaller
<1>25. CASE FinishStatus(w) BY <1>25 DEF FinishStatus
<1>26. CASE \E valid \in BOOLEAN : Validate(w, valid) BY <1>26 DEF Validate
<1>27. CASE TryValidationAbort(w) BY <1>27 DEF TryValidationAbort
<1>28. CASE ConvertWrites(w) BY <1>28 DEF ConvertWrites
<1>29. CASE FinishAbortSetReady(w) BY <1>29 DEF FinishAbortSetReady
<1>30. CASE FinishAbortFetchMin(w) BY <1>30 DEF FinishAbortFetchMin, Smaller
<1>31. CASE FinishAbortLoadIdx(w) BY <1>31 DEF FinishAbortLoadIdx
<1>32. CASE FinishValidation(w) BY <1>32 DEF FinishValidation
<1>33. CASE AfterTask(w) BY <1>33 DEF AfterTask, PostPcs
<1> QED
  BY <1>1, <1>2, <1>3, <1>4, <1>5, <1>6, <1>7, <1>8, <1>9, <1>10, <1>11, <1>12, <1>13, <1>14, <1>15, <1>16, <1>17, <1>18, <1>19, <1>20, <1>21, <1>22, <1>23, <1>24, <1>25, <1>26, <1>27, <1>28, <1>29, <1>30, <1>31, <1>32, <1>33 DEF Environment, WorkerStep

\* Who lowers a counter goes on to ask for a task: every action preserves
\* ExecutionIdxIsSeen and ValidationIdxIsSeen.
LEMMA SeenStep ==
  ASSUME TypeOK, AbortInv, ExecutionIdxIsSeen, ValidationIdxIsSeen,
         NEW w \in Workers, Environment(w) \/ WorkerStep(w) \/ ConvertWrites(w), Others(w)
  PROVE  ExecutionIdxIsSeen' /\ ValidationIdxIsSeen'
<1> USE TxsFacts, BlockSizeAssumption
    DEF TypeOK, AbortInv, ExecutionIdxIsSeen, ValidationIdxIsSeen,
        Goto, Clear, SetStatus, Incarnate, SetReadyStatus, txVars, idxVars, endVars, locals
<1>1. CASE NextTask(w) BY <1>1 DEF NextTask
<1>2. CASE LoadExecutionIdx(w) BY <1>2 DEF LoadExecutionIdx
<1>3. CASE LoadValidationIdx(w) BY <1>3 DEF LoadValidationIdx
<1>4. CASE LoadNumValidated(w) BY <1>4 DEF LoadNumValidated
<1>5. CASE LoadMinValidationIdx(w) BY <1>5 DEF LoadMinValidationIdx
<1>6. CASE FetchValidationIdx(w) BY <1>6 DEF FetchValidationIdx, FetchAdd
<1>7. CASE InspectForValidation(w) BY <1>7 DEF InspectForValidation
<1>8. CASE FetchExecutionIdx(w) BY <1>8 DEF FetchExecutionIdx, FetchAdd
<1>9. CASE TryExecute(w, "tryExec", "execute", "next") BY <1>9 DEF TryExecute
<1>10. CASE TryExecute(w, "tryExecV", "postExec", "postNone") BY <1>10 DEF TryExecute
<1>11. CASE \E f \in Flags : VmOk(w, f) BY <1>11 DEF VmOk
<1>12. CASE \E b \in Txs : VmBlocking(w, b) BY <1>12 DEF VmBlocking
<1>13. CASE VmRetry(w) BY <1>13 DEF VmRetry
<1>14. CASE VmFatal(w) BY <1>14 DEF VmFatal
<1>15. CASE \E r \in Reasons : SetAbortReason(w, r) BY <1>15 DEF SetAbortReason
<1>16. CASE RetryCheck(w) BY <1>16 DEF RetryCheck
<1>17. CASE AddDependencyLock(w) BY <1>17 DEF AddDependencyLock
<1>18. CASE AddDependency(w) BY <1>18 DEF AddDependency
<1>19. CASE FinishLock(w) BY <1>19 DEF FinishLock
<1>20. CASE DrainDependents(w) BY <1>20 DEF DrainDependents
<1>21. CASE DrainExecutionIdx(w) BY <1>21 DEF DrainExecutionIdx, Smaller
<1>22. CASE FinishMinValidationIdx(w) BY <1>22 DEF FinishMinValidationIdx, Smaller
<1>23. CASE FinishLoadValidationIdx(w) BY <1>23 DEF FinishLoadValidationIdx
<1>24. CASE FinishFetchMin(w) BY <1>24 DEF FinishFetchMin, Smaller
<1>25. CASE FinishStatus(w) BY <1>25 DEF FinishStatus
<1>26. CASE \E valid \in BOOLEAN : Validate(w, valid) BY <1>26 DEF Validate
<1>27. CASE TryValidationAbort(w) BY <1>27 DEF TryValidationAbort
<1>28. CASE ConvertWrites(w) BY <1>28 DEF ConvertWrites
<1>29. CASE FinishAbortSetReady(w) BY <1>29 DEF FinishAbortSetReady
<1>30. CASE FinishAbortFetchMin(w) BY <1>30 DEF FinishAbortFetchMin, Smaller
<1>31. CASE FinishAbortLoadIdx(w) BY <1>31 DEF FinishAbortLoadIdx
<1>32. CASE FinishValidation(w) BY <1>32 DEF FinishValidation
<1>33. CASE AfterTask(w) BY <1>33 DEF AfterTask, PostPcs
<1> QED
  BY <1>1, <1>2, <1>3, <1>4, <1>5, <1>6, <1>7, <1>8, <1>9, <1>10, <1>11, <1>12, <1>13, <1>14, <1>15, <1>16, <1>17, <1>18, <1>19, <1>20, <1>21, <1>22, <1>23, <1>24, <1>25, <1>26, <1>27, <1>28, <1>29, <1>30, <1>31, <1>32, <1>33 DEF Environment, WorkerStep

-----------------------------------------------------------------------------
(* The number of validated transactions *)

\* The transactions that num_validated counts.
ValidatedTxs == {t \in Txs : status[t] = "Validated"}

\* Giving t a status moves it into or out of the validated transactions, and
\* nothing else.
LEMMA CountStep ==
  ASSUME TypeOK, NEW t \in Txs, NEW s, SetStatus(t, s)
  PROVE  /\ (status[t] = "Validated" <=> s = "Validated")
              => Cardinality(ValidatedTxs') = Cardinality(ValidatedTxs)
         /\ status[t] # "Validated" /\ s = "Validated"
              => Cardinality(ValidatedTxs') = Cardinality(ValidatedTxs) + 1
         /\ status[t] = "Validated" /\ s # "Validated"
              => Cardinality(ValidatedTxs') = Cardinality(ValidatedTxs) - 1
<1>1. IsFiniteSet(Txs)
  BY FS_Interval, BlockSizeAssumption DEF Txs
<1>2. IsFiniteSet(ValidatedTxs)
  BY <1>1, FS_Subset DEF ValidatedTxs
<1>3. \A u \in Txs : status'[u] = IF u = t THEN s ELSE status[u]
  BY DEF TypeOK, SetStatus
<1>4. CASE status[t] = "Validated" <=> s = "Validated"
  <2>1. ValidatedTxs' = ValidatedTxs
    BY <1>3, <1>4 DEF ValidatedTxs
  <2> QED
    BY <1>4, <2>1
<1>5. CASE status[t] # "Validated" /\ s = "Validated"
  <2>1. ValidatedTxs' = ValidatedTxs \cup {t} /\ t \notin ValidatedTxs
    BY <1>3, <1>5 DEF ValidatedTxs
  <2>2. Cardinality(ValidatedTxs \cup {t}) = Cardinality(ValidatedTxs) + 1
    BY <1>2, <2>1, FS_AddElement
  <2> QED
    BY <1>5, <2>1, <2>2
<1>6. CASE status[t] = "Validated" /\ s # "Validated"
  <2>1. ValidatedTxs' = ValidatedTxs \ {t} /\ t \in ValidatedTxs
    BY <1>3, <1>6 DEF ValidatedTxs
  <2>2. Cardinality(ValidatedTxs \ {t}) = Cardinality(ValidatedTxs) - 1
    BY <1>2, <2>1, FS_RemoveElement
  <2> QED
    BY <1>6, <2>1, <2>2
<1> QED
  BY <1>4, <1>5, <1>6

\* Status and count change under one mutex: every action preserves
\* NumValidatedIsExact.
LEMMA NumStep ==
  ASSUME TypeOK, RegOK, ExecutorOwns, ResumersAreUnique, NumValidatedIsExact,
         NEW w \in Workers, Environment(w) \/ WorkerStep(w) \/ ConvertWrites(w), Others(w)
  PROVE  NumValidatedIsExact'
<1> USE TxsFacts
    DEF TypeOK, NumValidatedIsExact,
        Goto, Clear, SetStatus, Incarnate, SetReadyStatus, txVars, idxVars, endVars, locals
<1>1. CASE NextTask(w) BY <1>1 DEF NextTask
<1>2. CASE LoadExecutionIdx(w) BY <1>2 DEF LoadExecutionIdx
<1>3. CASE LoadValidationIdx(w) BY <1>3 DEF LoadValidationIdx
<1>4. CASE LoadNumValidated(w) BY <1>4 DEF LoadNumValidated
<1>5. CASE LoadMinValidationIdx(w) BY <1>5 DEF LoadMinValidationIdx
<1>6. CASE FetchValidationIdx(w) BY <1>6 DEF FetchValidationIdx, FetchAdd
<1>7. CASE InspectForValidation(w)
  <2>1. CASE Incarnate(w, "execute")
    <3>1. tx[w] \in Txs /\ status[tx[w]] # "Validated" /\ SetStatus(tx[w], "Executing") /\ num_validated' = num_validated
      BY <1>7, <2>1 DEF InspectForValidation
    <3> QED
      BY ONLY TypeOK, NumValidatedIsExact, <3>1, CountStep DEF NumValidatedIsExact, ValidatedTxs
  <2>2. CASE ~Incarnate(w, "execute")
    BY <1>7, <2>2 DEF InspectForValidation
  <2> QED
    BY <2>1, <2>2
<1>8. CASE FetchExecutionIdx(w) BY <1>8 DEF FetchExecutionIdx, FetchAdd
<1>9. CASE TryExecute(w, "tryExec", "execute", "next")
  <2>1. CASE Incarnate(w, "execute")
    <3>1. tx[w] \in Txs /\ status[tx[w]] # "Validated" /\ SetStatus(tx[w], "Executing") /\ num_validated' = num_validated
      BY <1>9, <2>1 DEF TryExecute
    <3> QED
      BY ONLY TypeOK, NumValidatedIsExact, <3>1, CountStep DEF NumValidatedIsExact, ValidatedTxs
  <2>2. CASE ~Incarnate(w, "execute")
    BY <1>9, <2>2 DEF TryExecute
  <2> QED
    BY <2>1, <2>2
<1>10. CASE TryExecute(w, "tryExecV", "postExec", "postNone")
  <2>1. CASE Incarnate(w, "postExec")
    <3>1. tx[w] \in Txs /\ status[tx[w]] # "Validated" /\ SetStatus(tx[w], "Executing") /\ num_validated' = num_validated
      BY <1>10, <2>1 DEF TryExecute
    <3> QED
      BY ONLY TypeOK, NumValidatedIsExact, <3>1, CountStep DEF NumValidatedIsExact, ValidatedTxs
  <2>2. CASE ~Incarnate(w, "postExec")
    BY <1>10, <2>2 DEF TryExecute
  <2> QED
    BY <2>1, <2>2
<1>11. CASE \E f \in Flags : VmOk(w, f) BY <1>11 DEF VmOk
<1>12. CASE \E b \in Txs : VmBlocking(w, b) BY <1>12 DEF VmBlocking
<1>13. CASE VmRetry(w) BY <1>13 DEF VmRetry
<1>14. CASE VmFatal(w) BY <1>14 DEF VmFatal
<1>15. CASE \E r \in Reasons : SetAbortReason(w, r) BY <1>15 DEF SetAbortReason
<1>16. CASE RetryCheck(w) BY <1>16 DEF RetryCheck
<1>17. CASE AddDependencyLock(w) BY <1>17 DEF AddDependencyLock
<1>18. CASE AddDependency(w)
  <2>1. tx[w] \in Txs /\ status[tx[w]] # "Validated"
    BY <1>18 DEF AddDependency, ExecutorOwns, ExecutingPcs, ExecutePcs
  <2>2. SetStatus(tx[w], "Aborting") /\ num_validated' = num_validated
    BY <1>18 DEF AddDependency
  <2> QED
    BY ONLY TypeOK, NumValidatedIsExact, <2>1, <2>2, CountStep DEF NumValidatedIsExact, ValidatedTxs
<1>19. CASE FinishLock(w) BY <1>19 DEF FinishLock
<1>20. CASE DrainDependents(w)
  <2>1. CASE UNCHANGED txVars
    BY <1>20, <2>1 DEF DrainDependents
  <2>2. ASSUME NEW d \in dependents[tx[w]], SetReadyStatus(d), num_validated' = num_validated
        PROVE  NumValidatedIsExact'
    <3>1. d \in Txs /\ status[d] # "Validated"
      BY DEF ResumersAreUnique, Waits
    <3>2. SetStatus(d, "ReadyToExecute")
      BY <2>2
    <3> QED
      BY ONLY TypeOK, NumValidatedIsExact, <2>2, <3>1, <3>2, CountStep DEF NumValidatedIsExact, ValidatedTxs
  <2> QED
    BY <1>20, <2>1, <2>2 DEF DrainDependents
<1>21. CASE DrainExecutionIdx(w) BY <1>21 DEF DrainExecutionIdx, Smaller
<1>22. CASE FinishMinValidationIdx(w) BY <1>22 DEF FinishMinValidationIdx, Smaller
<1>23. CASE FinishLoadValidationIdx(w) BY <1>23 DEF FinishLoadValidationIdx
<1>24. CASE FinishFetchMin(w) BY <1>24 DEF FinishFetchMin, Smaller
<1>25. CASE FinishStatus(w)
  <2>1. tx[w] \in Txs /\ status[tx[w]] # "Validated"
    BY <1>25 DEF FinishStatus, ExecutorOwns, ExecutingPcs, FinishPcs
  <2>2. SetStatus(tx[w], "Executed") /\ num_validated' = num_validated
    BY <1>25 DEF FinishStatus, Contains, NeedValidation
  <2> QED
    BY ONLY TypeOK, NumValidatedIsExact, <2>1, <2>2, CountStep DEF NumValidatedIsExact, ValidatedTxs
<1>26. CASE \E valid \in BOOLEAN : Validate(w, valid) BY <1>26 DEF Validate
<1>27. CASE TryValidationAbort(w)
  <2>1. tx[w] \in Txs /\ num_validated \in Int
    OBVIOUS
  <2>2. CASE Finished(tx[w])
    <3>1. SetStatus(tx[w], "Aborting")
      BY <1>27, <2>2 DEF TryValidationAbort
    <3>2. CASE status[tx[w]] = "Validated"
      <4>1. num_validated' = num_validated - 1
        BY <1>27, <3>2 DEF TryValidationAbort
      <4> QED
        <5>1. Cardinality(ValidatedTxs') = Cardinality(ValidatedTxs) - 1
          BY ONLY TypeOK, <2>1, <3>1, <3>2, CountStep, "Aborting" # "Validated"
        <5> QED
          BY ONLY NumValidatedIsExact, <4>1, <5>1 DEF NumValidatedIsExact, ValidatedTxs
    <3>3. CASE status[tx[w]] # "Validated"
      <4>1. num_validated' = num_validated
        BY <1>27, <2>1, <3>3 DEF TryValidationAbort
      <4> QED
        BY ONLY TypeOK, NumValidatedIsExact, <2>1, <3>1, <3>3, <4>1, CountStep DEF NumValidatedIsExact, ValidatedTxs
    <3> QED
      BY <3>2, <3>3
  <2>3. CASE ~Finished(tx[w])
    BY <1>27, <2>1, <2>3 DEF TryValidationAbort, Finished
  <2> QED
    BY <2>2, <2>3
<1>28. CASE ConvertWrites(w) BY <1>28 DEF ConvertWrites
<1>29. CASE FinishAbortSetReady(w)
  <2>1. tx[w] \in Txs /\ status[tx[w]] # "Validated"
    BY <1>29 DEF FinishAbortSetReady, ResumersAreUnique, Aborts, AbortPcs
  <2>2. SetStatus(tx[w], "ReadyToExecute") /\ num_validated' = num_validated
    BY <1>29 DEF FinishAbortSetReady
  <2> QED
    BY ONLY TypeOK, NumValidatedIsExact, <2>1, <2>2, CountStep DEF NumValidatedIsExact, ValidatedTxs
<1>30. CASE FinishAbortFetchMin(w) BY <1>30 DEF FinishAbortFetchMin, Smaller
<1>31. CASE FinishAbortLoadIdx(w) BY <1>31 DEF FinishAbortLoadIdx
<1>32. CASE FinishValidation(w)
  <2>1. tx[w] \in Txs
    OBVIOUS
  <2>2. CASE status[tx[w]] = "Executed"
    <3>1. SetStatus(tx[w], "Validated") /\ num_validated' = num_validated + 1
      BY <1>32, <2>2 DEF FinishValidation
    <3> QED
      BY ONLY TypeOK, NumValidatedIsExact, <2>1, <2>2, <3>1, CountStep DEF NumValidatedIsExact, ValidatedTxs
  <2>3. CASE status[tx[w]] # "Executed"
    BY <1>32, <2>3 DEF FinishValidation
  <2> QED
    BY <2>2, <2>3
<1>33. CASE AfterTask(w) BY <1>33 DEF AfterTask, PostPcs
<1> QED
  BY <1>1, <1>2, <1>3, <1>4, <1>5, <1>6, <1>7, <1>8, <1>9, <1>10, <1>11, <1>12, <1>13, <1>14, <1>15, <1>16, <1>17, <1>18, <1>19, <1>20, <1>21, <1>22, <1>23, <1>24, <1>25, <1>26, <1>27, <1>28, <1>29, <1>30, <1>31, <1>32, <1>33 DEF Environment, WorkerStep

-----------------------------------------------------------------------------
(* The life cycle *)

\* The changes that LifeCycle allows for transaction t.
Moves(t) ==
  \/ status'[t] = status[t] /\ incarnation'[t] = incarnation[t]
  \/ /\ status[t] = "Aborting" /\ status'[t] = "ReadyToExecute"
     /\ incarnation'[t] = incarnation[t] + 1
  \/ /\ incarnation'[t] = incarnation[t]
     /\ <<status[t], status'[t]>> \in
          {<<"ReadyToExecute", "Executing">>, <<"Executing", "Executed">>,
           <<"Executing", "Aborting">>, <<"Executed", "Validated">>,
           <<"Executed", "Aborting">>, <<"Validated", "Aborting">>}

\* Every step of a worker moves every transaction along the life cycle.
LEMMA MovesStep ==
  ASSUME TypeOK, RegOK, ExecutorOwns, ResumersAreUnique,
         NEW w \in Workers, Environment(w) \/ WorkerStep(w) \/ ConvertWrites(w), Others(w)
  PROVE  \A t \in Txs : Moves(t)
<1> USE TxsFacts
    DEF TypeOK, Moves, ExecutorOwns, ExecutingPcs, ExecutePcs, FinishPcs, ResumersAreUnique, Waits, Aborts, AbortPcs, Finished, Contains, NeedValidation,
        Goto, Clear, SetStatus, Incarnate, SetReadyStatus, txVars, idxVars, endVars, locals
<1>1. CASE NextTask(w) BY <1>1 DEF NextTask
<1>2. CASE LoadExecutionIdx(w) BY <1>2 DEF LoadExecutionIdx
<1>3. CASE LoadValidationIdx(w) BY <1>3 DEF LoadValidationIdx
<1>4. CASE LoadNumValidated(w) BY <1>4 DEF LoadNumValidated
<1>5. CASE LoadMinValidationIdx(w) BY <1>5 DEF LoadMinValidationIdx
<1>6. CASE FetchValidationIdx(w) BY <1>6 DEF FetchValidationIdx, FetchAdd
<1>7. CASE InspectForValidation(w) BY <1>7 DEF InspectForValidation
<1>8. CASE FetchExecutionIdx(w) BY <1>8 DEF FetchExecutionIdx, FetchAdd
<1>9. CASE TryExecute(w, "tryExec", "execute", "next") BY <1>9 DEF TryExecute
<1>10. CASE TryExecute(w, "tryExecV", "postExec", "postNone") BY <1>10 DEF TryExecute
<1>11. CASE \E f \in Flags : VmOk(w, f) BY <1>11 DEF VmOk
<1>12. CASE \E b \in Txs : VmBlocking(w, b) BY <1>12 DEF VmBlocking
<1>13. CASE VmRetry(w) BY <1>13 DEF VmRetry
<1>14. CASE VmFatal(w) BY <1>14 DEF VmFatal
<1>15. CASE \E r \in Reasons : SetAbortReason(w, r) BY <1>15 DEF SetAbortReason
<1>16. CASE RetryCheck(w) BY <1>16 DEF RetryCheck
<1>17. CASE AddDependencyLock(w) BY <1>17 DEF AddDependencyLock
<1>18. CASE AddDependency(w) BY <1>18 DEF AddDependency
<1>19. CASE FinishLock(w) BY <1>19 DEF FinishLock
<1>20. CASE DrainDependents(w)
  <2>1. CASE UNCHANGED txVars
    BY <2>1
  <2>2. ASSUME NEW d \in dependents[tx[w]], SetReadyStatus(d)
        PROVE  \A t \in Txs : Moves(t)
    <3>1. d \in Txs /\ tx[w] \in Txs
      BY <2>2
    <3>2. status[d] = "Aborting"
      BY <3>1
    <3> QED
      BY <2>2, <3>1, <3>2
  <2> QED
    BY <1>20, <2>1, <2>2 DEF DrainDependents
<1>21. CASE DrainExecutionIdx(w) BY <1>21 DEF DrainExecutionIdx, Smaller
<1>22. CASE FinishMinValidationIdx(w) BY <1>22 DEF FinishMinValidationIdx, Smaller
<1>23. CASE FinishLoadValidationIdx(w) BY <1>23 DEF FinishLoadValidationIdx
<1>24. CASE FinishFetchMin(w) BY <1>24 DEF FinishFetchMin, Smaller
<1>25. CASE FinishStatus(w) BY <1>25 DEF FinishStatus
<1>26. CASE \E valid \in BOOLEAN : Validate(w, valid) BY <1>26 DEF Validate
<1>27. CASE TryValidationAbort(w) BY <1>27 DEF TryValidationAbort
<1>28. CASE ConvertWrites(w) BY <1>28 DEF ConvertWrites
<1>29. CASE FinishAbortSetReady(w) BY <1>29 DEF FinishAbortSetReady
<1>30. CASE FinishAbortFetchMin(w) BY <1>30 DEF FinishAbortFetchMin, Smaller
<1>31. CASE FinishAbortLoadIdx(w) BY <1>31 DEF FinishAbortLoadIdx
<1>32. CASE FinishValidation(w) BY <1>32 DEF FinishValidation
<1>33. CASE AfterTask(w) BY <1>33 DEF AfterTask, PostPcs
<1> QED
  BY <1>1, <1>2, <1>3, <1>4, <1>5, <1>6, <1>7, <1>8, <1>9, <1>10, <1>11, <1>12, <1>13, <1>14, <1>15, <1>16, <1>17, <1>18, <1>19, <1>20, <1>21, <1>22, <1>23, <1>24, <1>25, <1>26, <1>27, <1>28, <1>29, <1>30, <1>31, <1>32, <1>33 DEF Environment, WorkerStep

-----------------------------------------------------------------------------
(* The inductive invariant *)

IInv ==
  /\ TypeOK
  /\ RegOK
  /\ ExclusiveExecution
  /\ ResumedExactlyOnce
  /\ WaitsForUnfinished
  /\ NumValidatedIsExact
  /\ NoLostTask
  /\ AbortInv
  /\ LocksAreExclusive
  /\ BlockerIsUnfinished
  /\ DrainedIsEmpty
  /\ FinishIsCovered
  /\ ExecutionIdxIsSeen
  /\ ValidationIdxIsSeen

\* Scheduler::new establishes the invariant.
LEMMA InitIInv == Init => IInv
<1> SUFFICES ASSUME Init PROVE IInv
  OBVIOUS
<1> USE TxsFacts
<1>1. TypeOK /\ RegOK
  BY TypeInit
<1>2. ExclusiveExecution
  BY DEF Init, ExclusiveExecution, ExecutorOwns, ExecutingHasOwner, ExecutingPcs, ExecutePcs, FinishPcs
<1>3. ResumedExactlyOnce /\ WaitsForUnfinished
  BY DEF Init, ResumedExactlyOnce, AbortingHasResumer, ResumersAreUnique, WaitsForUnfinished,
         Waits, Aborts, AbortPcs
<1>4. NumValidatedIsExact
  <2>1. {t \in Txs : status[t] = "Validated"} = {}
    BY DEF Init
  <2> QED
    BY <2>1, FS_EmptySet DEF Init, NumValidatedIsExact
<1>5. NoLostTask
  BY BlockSizeAssumption DEF Init, NoLostTask, Txs
<1>6. AbortInv
  BY DEF Init, AbortInv
<1>7. LocksAreExclusive
  BY DEF Init, LocksAreExclusive, Holding, FinishPcs
<1>8. BlockerIsUnfinished /\ DrainedIsEmpty /\ FinishIsCovered
  BY DEF Init, BlockerIsUnfinished, DrainedIsEmpty, DrainedPcs, FinishIsCovered
<1>9. ExecutionIdxIsSeen /\ ValidationIdxIsSeen
  BY BlockSizeAssumption, WorkersAssumption DEF Init, ExecutionIdxIsSeen, ValidationIdxIsSeen
<1> QED
  BY <1>1, <1>2, <1>3, <1>4, <1>5, <1>6, <1>7, <1>8, <1>9 DEF IInv

\* A step of any worker preserves the invariant.
LEMMA WorkerIInv ==
  ASSUME IInv, NEW w \in Workers, Environment(w) \/ WorkerStep(w) \/ ConvertWrites(w)
  PROVE  IInv' /\ \A t \in Txs : Moves(t)
<1> USE DEF IInv, ExclusiveExecution, ResumedExactlyOnce
<1>1. TypeOK' /\ RegOK' /\ Others(w)
  BY TypeStep
<1>2. ExecutorOwns'
  BY <1>1, OwnsStep
<1>3. ExecutingHasOwner'
  BY <1>1, OwnerStep
<1>4. ResumersAreUnique'
  BY <1>1, UniqueStep
<1>5. AbortingHasResumer'
  BY <1>1, ResumerStep
<1>6. WaitsForUnfinished'
  BY <1>1, WaitsStep
<1>7. NumValidatedIsExact'
  BY <1>1, NumStep
<1>8. NoLostTask'
  BY <1>1, TaskStep
<1>9. AbortInv'
  BY <1>1, AbortStep
<1>10. LocksAreExclusive'
  BY <1>1, LockStep
<1>11. BlockerIsUnfinished'
  BY <1>1, BlockerStep
<1>12. DrainedIsEmpty'
  BY <1>1, DrainedStep
<1>13. FinishIsCovered'
  BY <1>1, CoveredStep
<1>14. ExecutionIdxIsSeen' /\ ValidationIdxIsSeen'
  BY <1>1, SeenStep
<1>15. \A t \in Txs : Moves(t)
  BY <1>1, MovesStep
<1> QED
  BY <1>1, <1>2, <1>3, <1>4, <1>5, <1>6, <1>7, <1>8, <1>9, <1>10, <1>11, <1>12, <1>13, <1>14, <1>15

\* A step that changes nothing preserves the invariant.
LEMMA StutterIInv == IInv /\ UNCHANGED vars => IInv'
  BY DEF IInv, vars, txVars, idxVars, endVars, locals, TypeOK, RegOK, ExclusiveExecution, ExecutorOwns,
         ExecutingHasOwner, Executes, ResumedExactlyOnce, AbortingHasResumer, ResumersAreUnique,
         Waits, Aborts, WaitsForUnfinished, Finished, NumValidatedIsExact, NoLostTask, AbortInv,
         LocksAreExclusive, Holding, BlockerIsUnfinished, DrainedIsEmpty, FinishIsCovered,
         ExecutionIdxIsSeen, ValidationIdxIsSeen

\* Every step, stuttering included, preserves the invariant.
LEMMA NextIInv == IInv /\ [Next]_vars => IInv'
<1> SUFFICES ASSUME IInv, [Next]_vars PROVE IInv'
  OBVIOUS
<1>1. CASE UNCHANGED vars BY <1>1, StutterIInv
<1>2. ASSUME NEW w \in Workers, Environment(w) \/ WorkerStep(w) \/ ConvertWrites(w) PROVE IInv'
  BY <1>2, WorkerIInv
<1> QED
  BY <1>1, <1>2 DEF Next, Joined

\* The invariant holds in every reachable state.
THEOREM Invariance == Spec => []IInv
  BY InitIInv, NextIInv, PTL DEF Spec

-----------------------------------------------------------------------------
(* The properties *)

\* Every variable keeps its type; no index or register leaves the block.
THEOREM TypeCorrect == Spec => []TypeOK
<1>1. IInv => TypeOK
  BY DEF IInv
<1> QED
  BY <1>1, Invariance, PTL

\* try_execute, the status mutexes and finish_execution: each transaction has
\* at most one executor, which works on its current incarnation, and is
\* Executing only while it has one.
THEOREM ExclusiveExecutionHolds == Spec => []ExclusiveExecution
<1>1. IInv => ExclusiveExecution
  BY DEF IInv
<1> QED
  BY <1>1, Invariance, PTL

\* add_dependency, try_validation_abort and set_ready_status: an Aborting
\* transaction is made ready by exactly one party.
THEOREM ResumedExactlyOnceHolds == Spec => []ResumedExactlyOnce
<1>1. IInv => ResumedExactlyOnce
  BY DEF IInv
<1> QED
  BY <1>1, Invariance, PTL

\* add_dependency against finish_execution: nobody waits for a transaction
\* that has executed, and waiting points down the block.
THEOREM WaitsForUnfinishedHolds == Spec => []WaitsForUnfinished
<1>1. IInv => WaitsForUnfinished
  BY DEF IInv
<1> QED
  BY <1>1, Invariance, PTL

\* finish_validation against try_validation_abort: num_validated counts the
\* validated transactions.
THEOREM NumValidatedIsExactHolds == Spec => []NumValidatedIsExact
<1>1. IInv => NumValidatedIsExact
  BY DEF IInv
<1> QED
  BY <1>1, Invariance, PTL

\* fetch_add against fetch_min of the two counters: no task is lost.
THEOREM NoLostTaskHolds == Spec => []NoLostTask
<1>1. IInv => NoLostTask
  BY DEF IInv
<1> QED
  BY <1>1, Invariance, PTL

\* No worker is between scheduler.abort() and the reason once all have left.
LEMMA ReasonFromIInv == IInv => AbortHasReason
  BY WorkersAssumption DEF IInv, AbortInv, AbortHasReason, AllExited

\* Once all workers have left, the block is given up exactly if it has a
\* reason for it.
THEOREM AbortHasReasonHolds == Spec => []AbortHasReason
  BY ReasonFromIInv, Invariance, PTL

\* A nonempty set of natural numbers has a least element.
LEMMA Least ==
  ASSUME NEW S \in SUBSET Nat, S # {}
  PROVE  \E m \in S : \A n \in S : ~(n < m)
<1>1. PICK m \in S : \A n \in S : ~(<<n, m>> \in OpToRel(<, Nat))
  BY NatLessThanWellFounded, WFMin
<1> QED
  BY <1>1 DEF OpToRel

\* The invariant leaves no room for a transaction that is not validated once
\* every worker has left: the counters have passed the block, nobody holds a
\* task, and the least Aborting transaction would wait for an unfinished one
\* below it.
LEMMA TotalFromIInv == IInv => CompletionIsTotal
<1> SUFFICES ASSUME IInv, AllExited, ~aborted PROVE \A t \in Txs : status[t] = "Validated"
  BY DEF CompletionIsTotal
<1> USE DEF AllExited
<1>1. execution_idx \in Int /\ execution_idx >= BlockSize
  BY BlockSizeAssumption DEF IInv, TypeOK, ExecutionIdxIsSeen
<1>2. validation_idx \in Int /\ validation_idx >= BlockSize
  BY BlockSizeAssumption DEF IInv, TypeOK, ValidationIdxIsSeen
<1>3. \A t \in Txs : status[t] # "ReadyToExecute"
  BY <1>1, BlockSizeAssumption DEF IInv, NoLostTask, Txs
<1>4. \A t \in Txs : status[t] # "Executed"
  BY <1>2, BlockSizeAssumption DEF IInv, NoLostTask, ValidatePcs, Txs
<1>5. \A t \in Txs : status[t] # "Executing"
  BY DEF IInv, ExclusiveExecution, ExecutingHasOwner, Executes, ExecutingPcs, ExecutePcs, FinishPcs
<1>6. \A t \in Txs : status[t] \in {"Validated", "Aborting"}
  BY <1>3, <1>4, <1>5 DEF IInv, TypeOK, Statuses
<1>7. \A t \in Txs : status[t] = "Aborting" => \E b \in Txs : b < t /\ ~Finished(b)
  BY DEF IInv, ResumedExactlyOnce, AbortingHasResumer, Aborts, AbortPcs, WaitsForUnfinished
<1>8. \A t \in Txs : status[t] # "Aborting"
  <2> DEFINE A == {t \in Txs : status[t] = "Aborting"}
  <2> SUFFICES ASSUME A # {} PROVE FALSE
    OBVIOUS
  <2>1. A \in SUBSET Nat
    BY DEF Txs
  <2>2. PICK m \in A : \A n \in A : ~(n < m)
    BY <2>1, Least
  <2>3. PICK b \in Txs : b < m /\ ~Finished(b)
    BY <1>7
  <2>4. b \in A
    BY <1>6, <2>3 DEF Finished
  <2> QED
    BY <2>2, <2>3, <2>4
<1> QED
  BY <1>6, <1>8

\* next_task lets the last worker leave only when every transaction of a block
\* that is not given up is validated.
THEOREM CompletionIsTotalHolds == Spec => []CompletionIsTotal
  BY TotalFromIInv, Invariance, PTL

\* Statuses and incarnations follow the life cycle documented in lib.rs.
THEOREM LifeCycleHolds == Spec => LifeCycle
<1>1. IInv /\ [Next]_vars => [\A t \in Txs : Moves(t)]_vars
  <2> SUFFICES ASSUME IInv, Next PROVE (\A t \in Txs : Moves(t)) \/ UNCHANGED vars
    OBVIOUS
  <2>1. ASSUME NEW w \in Workers, Environment(w) \/ WorkerStep(w) \/ ConvertWrites(w)
        PROVE  \A t \in Txs : Moves(t)
    BY <2>1, WorkerIInv
  <2> QED
    BY <2>1 DEF Next, Joined
<1> QED
  BY <1>1, Invariance, PTL DEF Spec, LifeCycle, Moves
-----------------------------------------------------------------------------
(* What an executor over this scheduler relies on *)

\* A nonempty set of transactions has a greatest element.
LEMMA Greatest ==
  ASSUME NEW S \in SUBSET Txs, S # {}
  PROVE  \E u \in S : \A v \in S : u >= v
<1> DEFINE D == {BlockSize - u : u \in S}
<1>0. \A u \in S : u \in Int /\ BlockSize - u \in Nat
  BY BlockSizeAssumption DEF Txs
<1>1. D \in SUBSET Nat /\ D # {}
  <2>1. D \subseteq Nat
    BY <1>0
  <2>2. PICK u \in S : TRUE
    OBVIOUS
  <2>3. BlockSize - u \in D
    OBVIOUS
  <2> QED
    BY <2>1, <2>3
<1>2. PICK m \in D : \A n \in D : ~(n < m)
  BY <1>1, Least
<1>3. PICK u \in S : m = BlockSize - u
  OBVIOUS
<1>4. \A v \in S : u >= v
  <2> SUFFICES ASSUME NEW v \in S PROVE u >= v
    OBVIOUS
  <2>1. ~(BlockSize - v < BlockSize - u)
    BY <1>2, <1>3
  <2> QED
    BY <2>1, BlockSizeAssumption DEF Txs
<1> QED
  BY <1>4

\* The steps of the scheduler alone do not start from where a worker is in the
\* virtual machine or in the memory, and leave other workers' flags.
LEMMA WorkerOutside ==
  ASSUME TypeOK, NEW w \in Workers, WorkerStep(w), pc[w] # "setReason"
  PROVE  /\ pc[w] \notin {"execute", "validate", "convert"}
         /\ pc'[w] # "setReason"
         /\ \A v \in Workers \ {w} : flags'[v] = flags[v]
<1> USE DEF TypeOK, PostPcs, Goto, Clear, SetStatus, Incarnate, SetReadyStatus, txVars, idxVars, endVars, locals
<1>1. CASE NextTask(w) BY <1>1 DEF NextTask
<1>2. CASE LoadExecutionIdx(w) BY <1>2 DEF LoadExecutionIdx
<1>3. CASE LoadValidationIdx(w) BY <1>3 DEF LoadValidationIdx
<1>4. CASE LoadNumValidated(w) BY <1>4 DEF LoadNumValidated
<1>5. CASE LoadMinValidationIdx(w) BY <1>5 DEF LoadMinValidationIdx
<1>6. CASE FetchValidationIdx(w) BY <1>6 DEF FetchValidationIdx
<1>7. CASE InspectForValidation(w) BY <1>7 DEF InspectForValidation
<1>8. CASE FetchExecutionIdx(w) BY <1>8 DEF FetchExecutionIdx
<1>9. CASE TryExecute(w, "tryExec", "execute", "next") BY <1>9 DEF TryExecute
<1>10. CASE TryExecute(w, "tryExecV", "postExec", "postNone") BY <1>10 DEF TryExecute
<1>16. CASE RetryCheck(w) BY <1>16 DEF RetryCheck
<1>17. CASE AddDependencyLock(w) BY <1>17 DEF AddDependencyLock
<1>18. CASE AddDependency(w) BY <1>18 DEF AddDependency
<1>19. CASE FinishLock(w) BY <1>19 DEF FinishLock
<1>20. CASE DrainDependents(w) BY <1>20 DEF DrainDependents
<1>21. CASE DrainExecutionIdx(w) BY <1>21 DEF DrainExecutionIdx
<1>22. CASE FinishMinValidationIdx(w) BY <1>22 DEF FinishMinValidationIdx
<1>23. CASE FinishLoadValidationIdx(w) BY <1>23 DEF FinishLoadValidationIdx
<1>24. CASE FinishFetchMin(w) BY <1>24 DEF FinishFetchMin
<1>25. CASE FinishStatus(w) BY <1>25 DEF FinishStatus
<1>27. CASE TryValidationAbort(w) BY <1>27 DEF TryValidationAbort
<1>29. CASE FinishAbortSetReady(w) BY <1>29 DEF FinishAbortSetReady
<1>30. CASE FinishAbortFetchMin(w) BY <1>30 DEF FinishAbortFetchMin
<1>31. CASE FinishAbortLoadIdx(w) BY <1>31 DEF FinishAbortLoadIdx
<1>32. CASE FinishValidation(w) BY <1>32 DEF FinishValidation
<1>33. CASE AfterTask(w) BY <1>33 DEF AfterTask
<1> QED
  BY <1>1, <1>2, <1>3, <1>4, <1>5, <1>6, <1>7, <1>8, <1>9, <1>10, <1>16, <1>17, <1>18, <1>19, <1>20, <1>21, <1>22, <1>23, <1>24, <1>25, <1>27, <1>29, <1>30, <1>31, <1>32, <1>33 DEF WorkerStep, SetAbortReason

\* From the end of an execution until its writes are converted, the memory
\* holds what the execution wrote.
DonePcs == {"finish"} \cup FinishPcs
HasRecord(t) == Finished(t) \/ \E w \in Workers : tx[w] = t /\ pc[w] \in DonePcs \cup {"convert"}

\* The scheduler's own steps give no transaction a record and take none away,
\* and begin no new incarnation of one that has it.
LEMMA WorkerRecords ==
  ASSUME IInv, NEW w \in Workers, WorkerStep(w), pc[w] # "setReason", Others(w), NEW t \in Txs
  PROVE  /\ HasRecord(t)' <=> HasRecord(t)
         /\ HasRecord(t) => incarnation'[t] = incarnation[t]
<1>a. /\ TypeOK
      /\ \A v \in Workers : pc[v] \in ExecutingPcs =>
           status[tx[v]] = "Executing" /\ \A u \in Workers : Executes(u, tx[v]) => u = v
      /\ \A v \in Workers : pc[v] \in {"convert", "setReady"} =>
           status[tx[v]] = "Aborting" /\ \A u \in Workers : Aborts(u, tx[v]) => u = v
      /\ \A b, d \in Txs : d \in dependents[b] => status[d] = "Aborting" /\ \A u \in Workers : ~Aborts(u, d)
  BY DEF IInv, TypeOK, ExclusiveExecution, ExecutorOwns, ResumedExactlyOnce, ResumersAreUnique,
         AbortPcs, Aborts, Waits
<1> USE <1>a, TxsFacts DEF TypeOK, HasRecord, DonePcs, FinishPcs, Finished, ExecutingPcs, ExecutePcs, PostPcs, AbortPcs, Aborts,
        Others, Executes, Goto, Clear, SetStatus, Incarnate, SetReadyStatus, txVars, idxVars, endVars, locals
<1>1. CASE NextTask(w) BY <1>1 DEF NextTask
<1>2. CASE LoadExecutionIdx(w) BY <1>2 DEF LoadExecutionIdx
<1>3. CASE LoadValidationIdx(w) BY <1>3 DEF LoadValidationIdx
<1>4. CASE LoadNumValidated(w) BY <1>4 DEF LoadNumValidated
<1>5. CASE LoadMinValidationIdx(w) BY <1>5 DEF LoadMinValidationIdx
<1>6. CASE FetchValidationIdx(w) BY <1>6 DEF FetchValidationIdx
<1>7. CASE InspectForValidation(w) BY <1>7 DEF InspectForValidation
<1>8. CASE FetchExecutionIdx(w) BY <1>8 DEF FetchExecutionIdx
<1>9. CASE TryExecute(w, "tryExec", "execute", "next") BY <1>9 DEF TryExecute
<1>10. CASE TryExecute(w, "tryExecV", "postExec", "postNone") BY <1>10 DEF TryExecute
<1>16. CASE RetryCheck(w) BY <1>16 DEF RetryCheck
<1>17. CASE AddDependencyLock(w) BY <1>17 DEF AddDependencyLock
<1>18. CASE AddDependency(w) BY <1>18 DEF AddDependency
<1>19. CASE FinishLock(w) BY <1>19 DEF FinishLock
<1>20. CASE DrainDependents(w)
  <2>1. CASE UNCHANGED txVars
    BY <1>20, <2>1 DEF DrainDependents
  <2>2. ASSUME NEW d \in dependents[tx[w]], SetReadyStatus(d), Goto(w, "drainIdx"), UNCHANGED <<tx, inc>>
        PROVE  (HasRecord(t)' <=> HasRecord(t)) /\ (HasRecord(t) => incarnation'[t] = incarnation[t])
    <3>1. d \in Txs /\ status[d] = "Aborting" /\ \A u \in Workers : ~Aborts(u, d)
      BY ZenonT(40)
    <3>2. ~HasRecord(d)
      BY ONLY <1>a, <3>1 DEF HasRecord, Finished, DonePcs, FinishPcs, ExecutingPcs, ExecutePcs, Aborts, AbortPcs
    <3>3. ~HasRecord(d)'
      <4>1. status'[d] = "ReadyToExecute"
        BY <2>2, <3>1
      <4>2. \A v \in Workers : pc'[v] \in DonePcs \cup {"convert"} => tx'[v] # d
        <5>1. pc[w] = "drain" /\ pc'[w] = "drainIdx" /\ tx' = tx
          BY <1>20, <2>2 DEF DrainDependents
        <5> QED
          BY <3>1, <5>1
      <4> QED
        BY <4>1, <4>2
    <3>4. CASE t # d
      <4>1. status'[t] = status[t] /\ incarnation'[t] = incarnation[t]
        BY <2>2, <3>4
      <4>2. pc[w] = "drain" /\ pc'[w] = "drainIdx" /\ tx' = tx
        BY <1>20, <2>2 DEF DrainDependents
      <4> QED
        BY <4>1, <4>2
    <3> QED
      BY <3>2, <3>3, <3>4
  <2> QED
    BY <1>20, <2>1, <2>2 DEF DrainDependents
<1>21. CASE DrainExecutionIdx(w) BY <1>21 DEF DrainExecutionIdx
<1>22. CASE FinishMinValidationIdx(w) BY <1>22 DEF FinishMinValidationIdx
<1>23. CASE FinishLoadValidationIdx(w) BY <1>23 DEF FinishLoadValidationIdx
<1>24. CASE FinishFetchMin(w) BY <1>24 DEF FinishFetchMin
<1>25. CASE FinishStatus(w) BY <1>25 DEF FinishStatus
<1>27. CASE TryValidationAbort(w) BY <1>27 DEF TryValidationAbort
<1>29. CASE FinishAbortSetReady(w) BY <1>29 DEF FinishAbortSetReady
<1>30. CASE FinishAbortFetchMin(w) BY <1>30 DEF FinishAbortFetchMin
<1>31. CASE FinishAbortLoadIdx(w) BY <1>31 DEF FinishAbortLoadIdx
<1>32. CASE FinishValidation(w) BY <1>32 DEF FinishValidation
<1>33. CASE AfterTask(w) BY <1>33 DEF AfterTask
<1> QED
  BY ONLY WorkerStep(w), pc[w] # "setReason", <1>1, <1>2, <1>3, <1>4, <1>5, <1>6, <1>7, <1>8, <1>9, <1>10, <1>16, <1>17, <1>18, <1>19, <1>20, <1>21, <1>22, <1>23, <1>24, <1>25, <1>27, <1>29, <1>30, <1>31, <1>32, <1>33 DEF WorkerStep, SetAbortReason

\* A transaction that is being executed has no record, nor has one whose
\* abort has converted its writes.
LEMMA NoRecordYet ==
  ASSUME IInv, NEW w \in Workers
  PROVE  /\ pc[w] = "execute" => ~HasRecord(tx[w]) /\ inc[w] = incarnation[tx[w]]
         /\ pc[w] = "setReady" => ~HasRecord(tx[w])
  BY DEF IInv, TypeOK, ExclusiveExecution, ExecutorOwns, ResumedExactlyOnce, ResumersAreUnique,
         AbortPcs, Aborts, HasRecord, Finished, DonePcs, FinishPcs, ExecutingPcs, ExecutePcs, Executes

-----------------------------------------------------------------------------
(* Who validates a transaction, and who moves validation_idx back *)

\* A worker that is at the validation of t, and one that is about to move
\* validation_idx back below t.
ToValidate(w, t) == tx[w] = t /\ pc[w] \in {"inspect", "postVal", "validate", "tryAbort"}
ToRewind(w, t) ==
  /\ tx[w] < t
  /\ \/ pc[w] \in {"convert", "setReady", "valMin"}
     \/ /\ pc[w] \in {"finish", "drain", "drainIdx", "finMin", "finVal", "finFetchMin"}
        /\ Contains(flags[w], WroteNewLocation)

\* The steps of the scheduler alone: validation_idx passes t only in the hands
\* of a worker that will look at it, and whoever was to validate t or to move
\* validation_idx back still is, or has done it.
LEMMA WorkerCovers ==
  ASSUME IInv, IInv', ~aborted, NEW w \in Workers, WorkerStep(w), pc[w] # "setReason", NEW t \in Txs
  PROVE  /\ validation_idx <= t => validation_idx' <= t \/ ToValidate(w, t)'
         /\ ToValidate(w, t) /\ Finished(t)' => ToValidate(w, t)'
         /\ ToRewind(w, t) => ToRewind(w, t)' \/ validation_idx' <= t
         /\ Finished(t)' => Finished(t) \/ (FinishStatus(w) /\ tx[w] = t)
<1>a. /\ TypeOK /\ tx[w] \in Txs /\ validation_idx \in 0 .. BlockSize /\ validation_idx' \in 0 .. BlockSize
      /\ min_validation_idx \in 0 .. BlockSize /\ abort_reason = "None"
  BY DEF IInv, TypeOK, AbortInv
<1>b. /\ tx[w] \in Int /\ t \in Int /\ tx[w] < BlockSize /\ validation_idx \in Int /\ min_validation_idx \in Int
  <2>1. tx[w] \in Txs /\ t \in Txs /\ validation_idx \in 0 .. BlockSize /\ min_validation_idx \in 0 .. BlockSize
    BY <1>a
  <2> QED
    BY ONLY <2>1, BlockSizeAssumption DEF Txs
<1> USE <1>a, TxsFacts, BlockSizeAssumption
    DEF TypeOK, ToValidate, ToRewind, Finished, PostPcs, Contains, NeedValidation,
        Goto, Clear, SetStatus, Incarnate, SetReadyStatus, txVars, idxVars, endVars, locals
<1>1. CASE NextTask(w) BY <1>1 DEF NextTask
<1>2. CASE LoadExecutionIdx(w) BY <1>2 DEF LoadExecutionIdx
<1>3. CASE LoadValidationIdx(w) BY <1>3 DEF LoadValidationIdx
<1>4. CASE LoadNumValidated(w) BY <1>4 DEF LoadNumValidated
<1>5. CASE LoadMinValidationIdx(w) BY <1>5 DEF LoadMinValidationIdx
<1>6. CASE FetchValidationIdx(w) BY <1>6 DEF FetchValidationIdx, FetchAdd
<1>7. CASE InspectForValidation(w) BY <1>7 DEF InspectForValidation
<1>8. CASE FetchExecutionIdx(w) BY <1>8 DEF FetchExecutionIdx
<1>9. CASE TryExecute(w, "tryExec", "execute", "next") BY <1>9 DEF TryExecute
<1>10. CASE TryExecute(w, "tryExecV", "postExec", "postNone") BY <1>10 DEF TryExecute
<1>16. CASE RetryCheck(w) BY <1>16 DEF RetryCheck
<1>17. CASE AddDependencyLock(w) BY <1>17 DEF AddDependencyLock
<1>18. CASE AddDependency(w) BY <1>18 DEF AddDependency
<1>19. CASE FinishLock(w) BY <1>19 DEF FinishLock
<1>20. CASE DrainDependents(w) BY <1>20 DEF DrainDependents
<1>21. CASE DrainExecutionIdx(w) BY <1>21 DEF DrainExecutionIdx
<1>22. CASE FinishMinValidationIdx(w)
  <2>1. tx[w] \in Int /\ t \in Int /\ tx[w] < BlockSize /\ Smaller(min_validation_idx, tx[w]) \in Int
        /\ Smaller(min_validation_idx, tx[w]) <= tx[w]
    BY ONLY <1>b DEF Smaller
  <2>2. pc[w] = "finMin" /\ pc'[w] = "finVal" /\ validation_idx' = validation_idx
    BY <1>22, <2>1 DEF FinishMinValidationIdx
  <2> QED
    BY <1>22, <2>2 DEF FinishMinValidationIdx
<1>23. CASE FinishLoadValidationIdx(w) BY <1>23 DEF FinishLoadValidationIdx
<1>24. CASE FinishFetchMin(w)
  <2>1. /\ tx[w] < t => Smaller(validation_idx, tx[w] + 1) <= t
        /\ validation_idx <= t => Smaller(validation_idx, tx[w] + 1) <= t
    BY ONLY <1>b DEF Smaller
  <2> QED
    BY <1>24, <2>1 DEF FinishFetchMin
<1>25. CASE FinishStatus(w) BY <1>25 DEF FinishStatus
<1>27. CASE TryValidationAbort(w) BY <1>27 DEF TryValidationAbort
<1>29. CASE FinishAbortSetReady(w) BY <1>29 DEF FinishAbortSetReady
<1>30. CASE FinishAbortFetchMin(w)
  <2>1. /\ tx[w] < t => Smaller(validation_idx, tx[w] + 1) <= t
        /\ validation_idx <= t => Smaller(validation_idx, tx[w] + 1) <= t
    BY ONLY <1>b DEF Smaller
  <2> QED
    BY <1>30, <2>1 DEF FinishAbortFetchMin
<1>31. CASE FinishAbortLoadIdx(w) BY <1>31 DEF FinishAbortLoadIdx
<1>32. CASE FinishValidation(w) BY <1>32 DEF FinishValidation
<1>33. CASE AfterTask(w) BY <1>33 DEF AfterTask
<1> QED
  BY ONLY WorkerStep(w), pc[w] # "setReason", <1>1, <1>2, <1>3, <1>4, <1>5, <1>6, <1>7, <1>8, <1>9, <1>10, <1>16, <1>17, <1>18, <1>19, <1>20, <1>21, <1>22, <1>23, <1>24, <1>25, <1>27, <1>29, <1>30, <1>31, <1>32, <1>33 DEF WorkerStep, SetAbortReason

\* The scheduler's own steps neither call scheduler.abort() nor take it back.
LEMMA WorkerAbortsOnce ==
  ASSUME NEW w \in Workers, WorkerStep(w)
  PROVE  aborted' = aborted
  BY DEF endVars, vars, WorkerStep, NextTask, LoadExecutionIdx, LoadValidationIdx, LoadNumValidated, LoadMinValidationIdx,
     FetchValidationIdx, InspectForValidation, FetchExecutionIdx, TryExecute, SetAbortReason, RetryCheck,
     AddDependencyLock, AddDependency, FinishLock, DrainDependents, DrainExecutionIdx, FinishMinValidationIdx,
     FinishLoadValidationIdx, FinishFetchMin, FinishStatus, TryValidationAbort, FinishAbortSetReady,
     FinishAbortFetchMin, FinishAbortLoadIdx, FinishValidation, AfterTask

\* Only get_or_init sets the reason, and a worker that has left stays away.
LEMMA ReasonStays ==
  ASSUME NEW w \in Workers, WorkerStep(w), pc[w] # "setReason"
  PROVE  abort_reason' = abort_reason /\ pc[w] # "exited"
<1> USE DEF endVars
<1>1. CASE NextTask(w) BY <1>1 DEF NextTask
<1>2. CASE LoadExecutionIdx(w) BY <1>2 DEF LoadExecutionIdx
<1>3. CASE LoadValidationIdx(w) BY <1>3 DEF LoadValidationIdx
<1>4. CASE LoadNumValidated(w) BY <1>4 DEF LoadNumValidated
<1>5. CASE LoadMinValidationIdx(w) BY <1>5 DEF LoadMinValidationIdx
<1>6. CASE FetchValidationIdx(w) BY <1>6 DEF FetchValidationIdx
<1>7. CASE InspectForValidation(w) BY <1>7 DEF InspectForValidation
<1>8. CASE FetchExecutionIdx(w) BY <1>8 DEF FetchExecutionIdx
<1>9. CASE TryExecute(w, "tryExec", "execute", "next") BY <1>9 DEF TryExecute
<1>10. CASE TryExecute(w, "tryExecV", "postExec", "postNone") BY <1>10 DEF TryExecute
<1>16. CASE RetryCheck(w) BY <1>16 DEF RetryCheck
<1>17. CASE AddDependencyLock(w) BY <1>17 DEF AddDependencyLock
<1>18. CASE AddDependency(w) BY <1>18 DEF AddDependency
<1>19. CASE FinishLock(w) BY <1>19 DEF FinishLock
<1>20. CASE DrainDependents(w) BY <1>20 DEF DrainDependents
<1>21. CASE DrainExecutionIdx(w) BY <1>21 DEF DrainExecutionIdx
<1>22. CASE FinishMinValidationIdx(w) BY <1>22 DEF FinishMinValidationIdx
<1>23. CASE FinishLoadValidationIdx(w) BY <1>23 DEF FinishLoadValidationIdx
<1>24. CASE FinishFetchMin(w) BY <1>24 DEF FinishFetchMin
<1>25. CASE FinishStatus(w) BY <1>25 DEF FinishStatus
<1>27. CASE TryValidationAbort(w) BY <1>27 DEF TryValidationAbort
<1>29. CASE FinishAbortSetReady(w) BY <1>29 DEF FinishAbortSetReady
<1>30. CASE FinishAbortFetchMin(w) BY <1>30 DEF FinishAbortFetchMin
<1>31. CASE FinishAbortLoadIdx(w) BY <1>31 DEF FinishAbortLoadIdx
<1>32. CASE FinishValidation(w) BY <1>32 DEF FinishValidation
<1>33. CASE AfterTask(w) BY <1>33 DEF AfterTask, PostPcs
<1> QED
  BY <1>1, <1>2, <1>3, <1>4, <1>5, <1>6, <1>7, <1>8, <1>9, <1>10, <1>16, <1>17, <1>18, <1>19, <1>20, <1>21, <1>22, <1>23, <1>24, <1>25, <1>27, <1>29, <1>30, <1>31, <1>32, <1>33 DEF WorkerStep, SetAbortReason
=============================================================================
