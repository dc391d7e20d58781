----------------------------- MODULE PexeProofs -----------------------------
(***************************************************************************)
(* The executor has the safety properties of the scheduler that it is      *)
(* built on; and what the multi-version memory holds at any time:          *)
(* the entries of a transaction are the writes of its current incarnation, *)
(* ESTIMATEs, or what is in between while a worker records or marks them.  *)
(* For every set of locations and of workers, and every block of           *)
(* transactions, for the memory of ones that keep to VmKeeps.              *)
(***************************************************************************)
EXTENDS Pexe, SchedulerProofs

-----------------------------------------------------------------------------
(* The scheduler's protocol *)

\* range(..t).next_back() is a transaction of the block: the greatest element
\* of a nonempty set of transactions.
LEMMA MaxIsTx ==
  ASSUME NEW S \in SUBSET Txs, S # {}
  PROVE  Max(S) \in Txs
  BY Greatest DEF Max

\* Every step of the executor is a step of the scheduler's workers or leaves
\* the scheduler alone; the transactions it waits for are lower ones of the
\* block.
LEMMA PexeStepImplements ==
  ASSUME TypeOK, NEW w \in Workers, PexeStep(w)
  PROVE  Environment(w) \/ WorkerStep(w) \/ ConvertWrites(w) \/ UNCHANGED vars
<1>1. tx[w] \in Txs
  BY DEF TypeOK
<1>2. CASE VmReadInconsistent(w)
  BY <1>2 DEF VmReadInconsistent, Environment
<1>3. CASE VmReadEstimate(w)
  <2> DEFINE S == Writers(Now(w).loc, tx[w])
  <2>1. S \in SUBSET Txs /\ S # {}
    BY <1>3 DEF VmReadEstimate, Blocked, IsEstimate, Writers
  <2>2. Max(S) \in Txs
    BY <2>1, MaxIsTx
  <2> QED
    BY <1>3, <2>2 DEF VmReadEstimate, Environment
<1>4. CASE VmNotYet(w)
  <2>1. CASE tx[w] > 0
    <3>1. tx[w] - 1 \in Txs
      BY <1>1, <2>1, BlockSizeAssumption DEF Txs
    <3> QED
      BY <1>4, <2>1, <3>1 DEF VmNotYet, Environment
  <2>2. CASE ~(tx[w] > 0)
    BY <1>4, <2>2 DEF VmNotYet, Environment
  <2> QED
    BY <2>1, <2>2
<1>5. CASE VmStop(w)
  BY <1>5 DEF VmStop, Environment
<1>6. CASE GiveUp(w)
  BY <1>6 DEF GiveUp, WorkerStep, Reasons
<1>7. CASE ExecuteOk(w)
  BY <1>7 DEF ExecuteOk, Environment, Flags, NeedValidation, WroteNewLocation
<1>8. CASE ValidateCheck(w) \/ ValidateEnd(w)
  BY <1>8 DEF ValidateCheck, ValidateEnd, Environment
<1>9. CASE ConvertEnd(w)
  BY <1>9 DEF ConvertEnd
<1>10. CASE VmRead(w) \/ RecordReads(w) \/ RecordRemove(w) \/ RecordInsert(w)
             \/ ValidateStart(w) \/ ConvertStart(w) \/ ConvertOne(w)
  BY <1>10 DEF VmRead, RecordReads, RecordRemove, RecordInsert, ValidateStart, ConvertStart, ConvertOne
<1> QED
  BY <1>2, <1>3, <1>4, <1>5, <1>6, <1>7, <1>8, <1>9, <1>10 DEF PexeStep

\* The variables of the scheduler behave as Scheduler allows: its theorems hold of
\* the executor.
LEMMA PexeImplementsScheduler == PexeSpec => Spec
<1>1. PexeInit => Init
  BY DEF PexeInit
<1>2. IInv /\ [PexeNext]_pexeVars => [Next]_vars
  <2> SUFFICES ASSUME IInv, [PexeNext]_pexeVars PROVE [Next]_vars
    OBVIOUS
  <2>1. TypeOK
    BY DEF IInv
  <2>2. CASE UNCHANGED pexeVars
    BY <2>2 DEF pexeVars
  <2>3. ASSUME NEW w \in Workers, PexeStep(w) PROVE [Next]_vars
    BY <2>1, <2>3, PexeStepImplements DEF Next
  <2> QED
    BY <2>2, <2>3 DEF PexeNext, Next
<1>3. IInv /\ [PexeNext]_pexeVars => IInv'
  BY <1>2, NextIInv
<1> QED
  BY <1>1, <1>2, <1>3, InitIInv, PTL DEF PexeSpec, Spec

\* When the threads of execute_revm_parallel have joined, either the block was
\* given up for a reason or every transaction is validated: take().unwrap()
\* meets no slot that this block has not filled.
THEOREM PexeCompletes == PexeSpec => [](AbortHasReason /\ CompletionIsTotal)
<1>1. IInv => AbortHasReason /\ CompletionIsTotal
  BY TotalFromIInv, ReasonFromIInv
<1> QED
  BY <1>1, PexeImplementsScheduler, Invariance, PTL

-----------------------------------------------------------------------------
(* The memory *)

\* A sequence, of whatever values.
IsSeq(v) == v \in Seq({v[j] : j \in DOMAIN v})

\* The virtual machine keeps to its contract.
VmContract == \A b \in Blocks, t \in Txs : \A v : IsSeq(v) => VmKeeps(b[t], t, v)

-----------------------------------------------------------------------------
(* The shape of the state, and what a step of one worker leaves alone *)

Mpcs == {"idle", "remove", "insert", "check", "mark"}

Shape ==
  /\ block \in Blocks
  /\ DOMAIN data = Locations /\ \A l \in Locations : DOMAIN data[l] = Txs
  /\ DOMAIN last_reads = Txs /\ \A t \in Txs : DOMAIN last_reads[t] = Locations
  /\ last_writes \in [Txs -> SUBSET Locations]
  /\ results = [t \in Txs |-> results[t]] /\ \A t \in Txs : IsSeq(results[t])
  /\ mpc \in [Workers -> Mpcs]
  /\ DOMAIN vals = Workers /\ \A w \in Workers : IsSeq(vals[w])
  /\ DOMAIN reads = Workers /\ \A w \in Workers : DOMAIN reads[w] = Locations
  /\ todo \in [Workers -> SUBSET Locations]
  /\ wrote \in [Workers -> BOOLEAN]

\* Which operation a worker can be in where, with the read set of a recorded
\* execution, and the locals at rest.
MpcAt(w) ==
  /\ mpc[w] \in {"remove", "insert"} =>
       pc[w] = "execute" /\ Now(w).op = "ok" /\ last_reads[tx[w]] = reads[w]
  /\ mpc[w] = "check" => pc[w] = "validate"
  /\ mpc[w] = "mark" => pc[w] = "convert"
  /\ pc[w] \notin {"execute", "setReason"} => vals[w] = <<>> /\ reads[w] = NoReads
  /\ mpc[w] \in {"idle", "remove"} => ~wrote[w]
  /\ mpc[w] = "idle" => todo[w] = {}

\* The mutex of last_locations: one operation on a transaction at a time.
LastIsExclusive ==
  \A v, u \in Workers : mpc[v] # "idle" /\ mpc[u] # "idle" /\ tx[u] = tx[v] => u = v

MpcOK == (\A w \in Workers : MpcAt(w)) /\ LastIsExclusive

\* The other workers' places in VmDb and MvMemory.
Elsewhere(w) ==
  \A v \in Workers \ {w} :
    /\ mpc'[v] = mpc[v] /\ vals'[v] = vals[v] /\ reads'[v] = reads[v]
    /\ todo'[v] = todo[v] /\ wrote'[v] = wrote[v] /\ flags'[v] = flags[v]

\* The other transactions' entries, read sets and results.
Apart(w) ==
  /\ block' = block
  /\ \A t \in Txs \ {tx[w]} :
       /\ last_reads'[t] = last_reads[t] /\ last_writes'[t] = last_writes[t]
       /\ results'[t] = results[t] /\ \A l \in Locations : data'[l][t] = data[l][t]

\* The empty sequence, and a sequence with one more value.
LEMMA EmptyIsSeq == IsSeq(<<>>) /\ IsSeq(Leftover)
<1>1. IsSeq(<<>>)
  BY DEF IsSeq
<1>2. IsSeq(Leftover)
  BY DEF IsSeq, Leftover
<1> QED
  BY <1>1, <1>2

LEMMA AppendIsSeq ==
  ASSUME NEW v, IsSeq(v), NEW x
  PROVE  /\ IsSeq(Append(v, x))
         /\ Len(v) \in Nat /\ DOMAIN v = 1 .. Len(v)
         /\ Len(Append(v, x)) = Len(v) + 1 /\ DOMAIN Append(v, x) = 1 .. Len(v) + 1
         /\ Append(v, x)[Len(v) + 1] = x
         /\ \A j \in 1 .. Len(v) : Append(v, x)[j] = v[j]
<1> DEFINE S == {v[j] : j \in DOMAIN v}
           u == Append(v, x)
           T == {u[j] : j \in DOMAIN u}
<1>1. v \in Seq(S \cup {x})
  BY DEF IsSeq
<1>2. Len(v) \in Nat /\ DOMAIN v = 1 .. Len(v)
  BY <1>1
<1>3. Len(u) = Len(v) + 1 /\ u \in Seq(S \cup {x})
  BY <1>1
<1>4. DOMAIN u = 1 .. Len(u)
  BY <1>3
<1>5. u[Len(v) + 1] = x /\ \A j \in 1 .. Len(v) : u[j] = v[j]
  BY <1>1
<1> HIDE DEF u
<1>6. u \in [1 .. Len(u) -> T]
  <2>1. u = [j \in 1 .. Len(u) |-> u[j]]
    BY <1>3, <1>4
  <2>2. \A j \in 1 .. Len(u) : u[j] \in T
    BY <1>4
  <2> HIDE DEF T
  <2> QED
    BY <2>1, <2>2
<1>7. u \in Seq(T)
  BY <1>2, <1>3, <1>6
<1> QED
  BY <1>2, <1>3, <1>4, <1>5, <1>7 DEF IsSeq, u

\* The steps of the executor that are not those of the scheduler alone.
MemStep(w) ==
  \/ VmRead(w) \/ VmReadInconsistent(w) \/ VmReadEstimate(w)
  \/ VmNotYet(w) \/ VmStop(w) \/ GiveUp(w)
  \/ RecordReads(w) \/ RecordRemove(w) \/ RecordInsert(w) \/ ExecuteOk(w)
  \/ ValidateStart(w) \/ ValidateCheck(w) \/ ValidateEnd(w)
  \/ ConvertStart(w) \/ ConvertOne(w) \/ ConvertEnd(w)

\* A step of the executor keeps what the scheduler's steps keep.
LEMMA PexeKeepsIInv ==
  ASSUME IInv, NEW w \in Workers, PexeStep(w)
  PROVE  IInv' /\ (\A t \in Txs : Moves(t)) /\ Others(w)
<1>1. TypeOK /\ RegOK
  BY DEF IInv
<1>2. CASE UNCHANGED vars
  BY <1>2, StutterIInv DEF Moves, Others, vars, txVars, locals
<1>3. CASE Environment(w) \/ WorkerStep(w) \/ ConvertWrites(w)
  BY <1>1, <1>3, TypeStep, WorkerIInv
<1> QED
  BY <1>1, <1>2, <1>3, PexeStepImplements

\* The executor starts in that shape, with nobody in the memory.
LEMMA ShapeInit == PexeInit => Shape /\ MpcOK
<1> SUFFICES ASSUME PexeInit PROVE Shape /\ MpcOK
  OBVIOUS
<1>1. \A w \in Workers : IsSeq(vals[w])
  BY EmptyIsSeq DEF PexeInit
<1>4. \A t \in Txs : IsSeq(results[t])
  BY EmptyIsSeq DEF PexeInit
<1>2. Shape
  BY <1>1, <1>4 DEF PexeInit, Shape, Mpcs, NoReads
<1>3. MpcOK
  BY DEF PexeInit, MpcOK, MpcAt, LastIsExclusive
<1> QED
  BY <1>2, <1>3

\* A worker that resets its locals keeps the shape of those of all workers.
LEMMA ResetShape ==
  ASSUME Shape, NEW w \in Workers, ResetLocals(w)
  PROVE  /\ mpc' \in [Workers -> Mpcs]
         /\ DOMAIN vals' = Workers /\ \A v \in Workers : IsSeq(vals'[v])
         /\ DOMAIN reads' = Workers /\ \A v \in Workers : DOMAIN reads'[v] = Locations
         /\ todo' \in [Workers -> SUBSET Locations]
         /\ wrote' \in [Workers -> BOOLEAN]
         /\ mpc'[w] = "idle" /\ vals'[w] = <<>> /\ reads'[w] = NoReads
         /\ todo'[w] = {} /\ wrote'[w] = FALSE
         /\ \A v \in Workers \ {w} :
              /\ mpc'[v] = mpc[v] /\ vals'[v] = vals[v] /\ reads'[v] = reads[v]
              /\ todo'[v] = todo[v] /\ wrote'[v] = wrote[v]
  BY EmptyIsSeq DEF Shape, ResetLocals, Mpcs, NoReads

\* What a transaction that has run to its end writes are locations, with those
\* that it was expected to write among them.
LEMMA WritesOK ==
  ASSUME VmContract, TypeOK, Shape, NEW w \in Workers
  PROVE  /\ Now(w).op = "ok" => /\ DOMAIN Now(w).writes \subseteq Locations
                                /\ {l \in Locations : tx[w] \in Estimated[l]} \subseteq DOMAIN Now(w).writes
         /\ Now(w).op = "read" => Now(w).loc \in Locations /\ Len(vals[w]) < MaxReads
<1>1. VmKeeps(block[tx[w]], tx[w], vals[w])
  BY DEF VmContract, TypeOK, Shape
<1> QED
  BY <1>1 DEF VmKeeps, Now

\* Every step keeps the shape, and leaves alone the other workers' places and
\* the other transactions' entries.
LEMMA ShapeStep ==
  ASSUME VmContract, TypeOK, Shape, MpcOK, NEW w \in Workers, PexeStep(w)
  PROVE  Shape' /\ Elsewhere(w) /\ Apart(w)
<1> DEFINE Goal == Shape' /\ Elsewhere(w) /\ Apart(w)
<1>0. tx[w] \in Txs
  BY DEF TypeOK
<1>a. ASSUME ResetLocals(w), UNCHANGED <<block, shared>>, flags' = flags PROVE Goal
  BY <1>a, ResetShape DEF Shape, Elsewhere, Apart, shared
<1>b. ASSUME UNCHANGED memVars, \A v \in Workers \ {w} : flags'[v] = flags[v] PROVE Goal
  BY <1>b DEF Shape, Elsewhere, Apart, shared, memVars, memLocals
<1>1. CASE pc[w] # "setReason" /\ WorkerStep(w) /\ UNCHANGED memVars
  BY <1>1, <1>b, WorkerOutside
<1>2. CASE VmRead(w)
  <2> DEFINE l == Now(w).loc
             x == Value(l, tx[w])
  <2>1. reads' = [reads EXCEPT ![w][l] = Origin(l, tx[w])] /\ vals' = [vals EXCEPT ![w] = Append(@, x)]
        /\ UNCHANGED <<vars, block, shared, mpc, todo, wrote>>
    BY <1>2 DEF VmRead
  <2> HIDE DEF l, x
  <2>2. IsSeq(Append(vals[w], x))
    BY AppendIsSeq DEF Shape
  <2>3. DOMAIN vals' = Workers /\ \A v \in Workers : IsSeq(vals'[v])
    BY <2>1, <2>2 DEF Shape
  <2>4. DOMAIN reads' = Workers /\ \A v \in Workers : DOMAIN reads'[v] = Locations
    BY <2>1 DEF Shape
  <2> QED
    BY <2>1, <2>3, <2>4 DEF Shape, Elsewhere, Apart, shared, vars, locals
<1>3. CASE VmReadInconsistent(w) BY <1>3, <1>a DEF VmReadInconsistent, VmRetry, locals
<1>4. CASE VmReadEstimate(w) BY <1>4, <1>a DEF VmReadEstimate, VmBlocking, locals
<1>5. CASE VmNotYet(w)
  <2>1. CASE tx[w] > 0 BY <1>5, <2>1, <1>a DEF VmNotYet, VmBlocking, locals
  <2>2. CASE ~(tx[w] > 0) BY <1>5, <2>2, <1>b DEF VmNotYet, VmFatal, locals, memVars
  <2> QED BY <2>1, <2>2
<1>6. CASE VmStop(w) BY <1>6, <1>b DEF VmStop, VmFatal, locals
<1>7. CASE GiveUp(w)
  <2>1. \A v \in Workers \ {w} : flags'[v] = flags[v]
    BY <1>7 DEF GiveUp, SetAbortReason, Clear, TypeOK
  <2> QED
    BY <1>7, <2>1, ResetShape DEF GiveUp, Shape, Elsewhere, Apart, shared
<1>8. CASE RecordReads(w)
  BY <1>0, <1>8 DEF RecordReads, Shape, Mpcs, Elsewhere, Apart, vars, locals
<1>9. CASE RecordRemove(w)
  <2>1. DOMAIN Now(w).writes \subseteq Locations
    BY <1>9, WritesOK DEF RecordRemove, MpcOK, MpcAt
  <2>2. UNCHANGED <<vars, block, last_reads, results, vals, reads, wrote>>
    BY <1>9 DEF RecordRemove
  <2>3. ASSUME NEW l \in last_writes[tx[w]], UNCHANGED <<mpc, todo>>,
               data' = [data EXCEPT ![l][tx[w]] = NoEntry],
               last_writes' = [last_writes EXCEPT ![tx[w]] = @ \ {l}]
        PROVE  Goal
    <3>1. last_writes' \in [Txs -> SUBSET Locations]
      BY <1>0, <2>3 DEF Shape
    <3>2. DOMAIN data' = Locations /\ \A k \in Locations : DOMAIN data'[k] = Txs
      BY <2>3 DEF Shape
    <3>3. Shape'
      BY <2>2, <2>3, <3>1, <3>2 DEF Shape
    <3>4. Apart(w)
      BY <1>0, <2>2, <2>3 DEF Shape, Apart
    <3> QED
      BY <2>2, <2>3, <3>3, <3>4 DEF Elsewhere, vars, locals
  <2>4. ASSUME todo' = [todo EXCEPT ![w] = DOMAIN Now(w).writes],
               mpc' = [mpc EXCEPT ![w] = "insert"], UNCHANGED <<data, last_writes>>
        PROVE  Goal
    BY <2>1, <2>2, <2>4 DEF Shape, Mpcs, Elsewhere, Apart, vars, locals
  <2> QED
    BY <1>9, <2>3, <2>4 DEF RecordRemove
<1>10. CASE RecordInsert(w)
  <2>1. PICK l \in todo[w] :
          /\ data' = [data EXCEPT ![l][tx[w]] = Data(inc[w], Now(w).writes[l])]
          /\ last_writes' = [last_writes EXCEPT ![tx[w]] = @ \cup {l}]
          /\ wrote' = [wrote EXCEPT ![w] = @ \/ l \notin last_writes[tx[w]]]
          /\ todo' = [todo EXCEPT ![w] = @ \ {l}]
    BY <1>10 DEF RecordInsert
  <2>2. UNCHANGED <<vars, block, last_reads, results, mpc, vals, reads>>
    BY <1>10 DEF RecordInsert
  <2>3. l \in Locations
    BY <2>1 DEF Shape
  <2>4. last_writes' \in [Txs -> SUBSET Locations] /\ todo' \in [Workers -> SUBSET Locations]
    BY <1>0, <2>1, <2>3 DEF Shape
  <2>5. wrote' \in [Workers -> BOOLEAN]
    BY <2>1 DEF Shape
  <2>6. DOMAIN data' = Locations /\ \A k \in Locations : DOMAIN data'[k] = Txs
    BY <2>1 DEF Shape
  <2>7. Shape'
    BY <2>2, <2>4, <2>5, <2>6 DEF Shape
  <2>8. Elsewhere(w)
    BY <2>1, <2>2 DEF Shape, Elsewhere, vars, locals
  <2>9. Apart(w)
    BY <1>0, <2>1, <2>2, <2>3 DEF Shape, Apart
  <2> QED
    BY <2>7, <2>8, <2>9
<1>11. CASE ExecuteOk(w)
  <2>1. \A v \in Workers \ {w} : flags'[v] = flags[v]
    BY <1>11 DEF ExecuteOk, VmOk, TypeOK
  <2> QED
    BY <1>0, <1>11, <2>1, ResetShape DEF ExecuteOk, Shape, Elsewhere, Apart
<1>12. CASE ValidateStart(w)
  BY <1>0, <1>12 DEF ValidateStart, Shape, Mpcs, Elsewhere, Apart, vars, locals, shared
<1>13. CASE ValidateCheck(w)
  <2>1. CASE mpc' = mpc
    BY <1>0, <1>13, <2>1, ZenonT(40) DEF ValidateCheck, Validate, ResetLocals, Shape, Elsewhere, Apart, vars, locals, shared
  <2>2. CASE Validate(w, FALSE) /\ ResetLocals(w) /\ UNCHANGED <<block, shared>>
    BY <2>2, <1>a DEF Validate, locals
  <2> QED
    BY <1>13, <2>1, <2>2 DEF ValidateCheck
<1>14. CASE ValidateEnd(w) BY <1>14, <1>a DEF ValidateEnd, Validate, locals
<1>15. CASE ConvertStart(w)
  BY <1>0, <1>15 DEF ConvertStart, Shape, Mpcs, Elsewhere, Apart, vars, locals, shared
<1>16. CASE ConvertOne(w)
  BY <1>0, <1>16 DEF ConvertOne, Shape, Elsewhere, Apart, vars, locals
<1>17. CASE ConvertEnd(w) BY <1>17, <1>a DEF ConvertEnd, ConvertWrites, locals
<1> QED
  BY <1>1, <1>2, <1>3, <1>4, <1>5, <1>6, <1>7, <1>8, <1>9, <1>10, <1>11, <1>12, <1>13, <1>14, <1>15, <1>16, <1>17 DEF PexeStep

\* A step of w in the memory keeps the places of the others consistent, if w
\* writes a read set or starts an operation only when nobody is at it.
LEMMA MpcFrame ==
  ASSUME TypeOK, Shape, MpcOK, NEW w \in Workers, Elsewhere(w), Apart(w), Others(w),
         last_reads' = last_reads \/ LastFree(tx[w]),
         mpc'[w] # "idle" => tx'[w] = tx[w] /\ (mpc[w] # "idle" \/ LastFree(tx[w])),
         MpcAt(w)'
  PROVE  MpcOK'
<1>1. ASSUME NEW v \in Workers, v # w PROVE MpcAt(v)'
  <2>1. /\ pc'[v] = pc[v] /\ tx'[v] = tx[v] /\ mpc'[v] = mpc[v] /\ vals'[v] = vals[v]
        /\ reads'[v] = reads[v] /\ todo'[v] = todo[v] /\ wrote'[v] = wrote[v] /\ block' = block
    BY <1>1 DEF Others, Elsewhere, Apart
  <2>2. Now(v)' = Now(v)
    BY <2>1 DEF Now
  <2>3. tx[v] \in Txs
    BY DEF TypeOK
  <2>4. mpc[v] # "idle" => last_reads'[tx[v]] = last_reads[tx[v]]
    BY <1>1, <2>3 DEF LastFree, Apart
  <2> QED
    BY <2>1, <2>2, <2>4 DEF MpcOK, MpcAt
<1>2. LastIsExclusive'
  BY DEF MpcOK, LastIsExclusive, LastFree, Elsewhere, Others
<1> QED
  BY <1>1, <1>2 DEF MpcOK

\* Every step keeps the workers' places consistent: the mutex of a
\* transaction's last_locations keeps a second operation on it out.
LEMMA MpcStep ==
  ASSUME VmContract, TypeOK, Shape, MpcOK, NEW w \in Workers, PexeStep(w),
         Shape', Elsewhere(w), Apart(w), Others(w)
  PROVE  MpcOK'
<1>0. tx[w] \in Txs
  BY DEF TypeOK
<1>a. ASSUME ResetLocals(w), last_reads' = last_reads PROVE MpcOK'
  <2>1. mpc'[w] = "idle" /\ vals'[w] = <<>> /\ reads'[w] = NoReads /\ todo'[w] = {} /\ wrote'[w] = FALSE
    BY <1>a, ResetShape
  <2>2. MpcAt(w)'
    BY <2>1 DEF MpcAt
  <2> QED
    BY <1>a, <2>1, <2>2, MpcFrame
<1>b. ASSUME UNCHANGED memVars, mpc[w] = "idle",
             pc'[w] \in {"execute", "setReason"} \/ (vals[w] = <<>> /\ reads[w] = NoReads)
      PROVE  MpcOK'
  <2>1. MpcAt(w)'
    BY <1>b DEF MpcOK, MpcAt, memVars, memLocals
  <2> QED
    BY <1>b, <2>1, MpcFrame DEF memVars, memLocals, shared
<1>c. ASSUME UNCHANGED vars, MpcAt(w)', last_reads' = last_reads, mpc[w] # "idle" \/ LastFree(tx[w])
      PROVE  MpcOK'
  BY <1>c, MpcFrame DEF vars, locals
<1>1. CASE pc[w] # "setReason" /\ WorkerStep(w) /\ UNCHANGED memVars
  <2>1. pc[w] \notin {"execute", "validate", "convert", "setReason"}
    BY <1>1, WorkerOutside
  <2>2. mpc[w] = "idle" /\ vals[w] = <<>> /\ reads[w] = NoReads
    BY <2>1 DEF MpcOK, MpcAt, Shape, Mpcs
  <2> QED
    BY <1>1, <1>b, <2>2
<1>2. CASE VmRead(w)
  <2>1. pc[w] = "execute" /\ mpc[w] = "idle" /\ UNCHANGED <<vars, mpc, todo, wrote, block, shared>>
    BY <1>2 DEF VmRead, Does
  <2>2. MpcAt(w)'
    BY <2>1 DEF MpcOK, MpcAt, vars
  <2> QED
    BY <2>1, <2>2, MpcFrame DEF vars, locals, shared
<1>3. CASE VmReadInconsistent(w) BY <1>3, <1>a DEF VmReadInconsistent, shared
<1>4. CASE VmReadEstimate(w) BY <1>4, <1>a DEF VmReadEstimate, shared
<1>5. CASE VmNotYet(w)
  <2>1. CASE tx[w] > 0 BY <1>5, <2>1, <1>a DEF VmNotYet, shared
  <2>2. CASE ~(tx[w] > 0) BY <1>5, <2>2, <1>b DEF VmNotYet, VmFatal, Goto, Does, memVars, TypeOK
  <2> QED BY <2>1, <2>2
<1>6. CASE VmStop(w) BY <1>6, <1>b DEF VmStop, VmFatal, Goto, Does, TypeOK
<1>7. CASE GiveUp(w) BY <1>7, <1>a DEF GiveUp, shared
<1>8. CASE RecordReads(w)
  <2>1. /\ pc[w] = "execute" /\ mpc[w] = "idle" /\ Now(w).op = "ok" /\ LastFree(tx[w])
        /\ last_reads'[tx[w]] = reads[w] /\ mpc'[w] = "remove"
        /\ UNCHANGED <<vars, block, vals, reads, wrote>>
    BY <1>0, <1>8 DEF RecordReads, Does, Shape
  <2>2. Now(w)' = Now(w) /\ tx' = tx /\ pc' = pc
    BY <2>1 DEF Now, vars, locals
  <2>3. MpcAt(w)'
    BY <2>1, <2>2 DEF MpcOK, MpcAt
  <2> QED
    BY <2>1, <2>2, <2>3, MpcFrame
<1>9. CASE RecordRemove(w)
  <2>1. /\ mpc[w] = "remove" /\ mpc'[w] \in {"remove", "insert"}
        /\ UNCHANGED <<vars, block, last_reads, vals, reads, wrote>>
    BY <1>9 DEF RecordRemove, Shape
  <2>2. Now(w)' = Now(w) /\ tx' = tx /\ pc' = pc
    BY <2>1 DEF Now, vars, locals
  <2>3. MpcAt(w)'
    BY <2>1, <2>2 DEF MpcOK, MpcAt
  <2> QED
    BY <1>c, <2>1, <2>3
<1>10. CASE RecordInsert(w)
  <2>1. mpc[w] = "insert" /\ UNCHANGED <<vars, block, last_reads, vals, reads, mpc>>
    BY <1>10 DEF RecordInsert
  <2>2. Now(w)' = Now(w) /\ tx' = tx /\ pc' = pc
    BY <2>1 DEF Now, vars, locals
  <2>3. MpcAt(w)'
    BY <2>1, <2>2 DEF MpcOK, MpcAt
  <2> QED
    BY <1>c, <2>1, <2>3
<1>11. CASE ExecuteOk(w) BY <1>11, <1>a DEF ExecuteOk
<1>12. CASE ValidateStart(w)
  <2>1. /\ pc[w] = "validate" /\ mpc[w] = "idle" /\ mpc'[w] = "check" /\ LastFree(tx[w])
        /\ UNCHANGED <<vars, block, last_reads, vals, reads, wrote>>
    BY <1>12 DEF ValidateStart, Shape, shared
  <2>2. MpcAt(w)'
    BY <2>1 DEF MpcOK, MpcAt, vars
  <2> QED
    BY <1>c, <2>1, <2>2
<1>13. CASE ValidateCheck(w)
  <2>1. CASE mpc' = mpc /\ UNCHANGED <<vars, vals, reads, wrote>>
    <3>1. mpc[w] = "check" /\ last_reads' = last_reads
      BY <1>13 DEF ValidateCheck, shared
    <3>2. MpcAt(w)'
      BY <2>1, <3>1 DEF MpcOK, MpcAt, vars
    <3> QED
      BY <1>c, <2>1, <3>1, <3>2
  <2>2. CASE ResetLocals(w)
    BY <1>13, <2>2, <1>a DEF ValidateCheck, shared
  <2> QED
    BY <1>13, <2>1, <2>2 DEF ValidateCheck
<1>14. CASE ValidateEnd(w) BY <1>14, <1>a DEF ValidateEnd, shared
<1>15. CASE ConvertStart(w)
  <2>1. /\ pc[w] = "convert" /\ mpc[w] = "idle" /\ mpc'[w] = "mark" /\ LastFree(tx[w])
        /\ UNCHANGED <<vars, block, last_reads, vals, reads, wrote>>
    BY <1>15 DEF ConvertStart, Shape, shared
  <2>2. MpcAt(w)'
    BY <2>1 DEF MpcOK, MpcAt, vars
  <2> QED
    BY <1>c, <2>1, <2>2
<1>16. CASE ConvertOne(w)
  <2>1. mpc[w] = "mark" /\ UNCHANGED <<vars, block, last_reads, vals, reads, wrote, mpc>>
    BY <1>16 DEF ConvertOne
  <2>2. MpcAt(w)'
    BY <2>1 DEF MpcOK, MpcAt, vars
  <2> QED
    BY <1>c, <2>1, <2>2
<1>17. CASE ConvertEnd(w) BY <1>17, <1>a DEF ConvertEnd, shared
<1> QED
  BY <1>1, <1>2, <1>3, <1>4, <1>5, <1>6, <1>7, <1>8, <1>9, <1>10, <1>11, <1>12, <1>13, <1>14, <1>15, <1>16, <1>17 DEF PexeStep

-----------------------------------------------------------------------------
(* What the memory holds of a transaction *)

Marking(t) == \E w \in Workers : mpc[w] = "mark" /\ tx[w] = t
Writing(t) == \E w \in Workers : mpc[w] = "insert" /\ tx[w] = t

\* The locations build_mv_memory expects t to write; what the execution whose
\* result is stored did at its end.
Est(t) == {l \in Locations : t \in Estimated[l]}
Ran(t) == Behaviour(block[t], t, results[t])

\* The entries of a transaction whose record is complete, of one that has none,
\* and those in between.
Recorded(t) ==
  /\ Ran(t).op = "ok" /\ last_writes[t] = DOMAIN Ran(t).writes
  /\ \A l \in Locations :
       data[l][t] = IF l \in last_writes[t] THEN Data(incarnation[t], Ran(t).writes[l]) ELSE NoEntry
Marked(t) ==
  \A l \in Locations : data[l][t] = IF l \in last_writes[t] \cup Est(t) THEN Estimate ELSE NoEntry
PartlyWritten(w) ==
  LET t == tx[w]
      writes == Now(w).writes
  IN /\ todo[w] \subseteq DOMAIN writes
     /\ DOMAIN writes \ todo[w] \subseteq last_writes[t]
     /\ last_writes[t] \subseteq DOMAIN writes
     /\ \A l \in Locations :
          data[l][t] = IF l \in DOMAIN writes \ todo[w] THEN Data(inc[w], writes[l])
                       ELSE IF l \in last_writes[t] \cup Est(t) THEN Estimate ELSE NoEntry
PartlyMarked(w) ==
  LET t == tx[w]
  IN /\ Est(t) \subseteq last_writes[t] /\ todo[w] \subseteq last_writes[t]
     /\ \A l \in Locations \ todo[w] :
          data[l][t] = IF l \in last_writes[t] THEN Estimate ELSE NoEntry
     /\ \A l \in todo[w] : data[l][t] = Data(incarnation[t], Ran(t).writes[l])
     /\ Ran(t).op = "ok" /\ last_writes[t] = DOMAIN Ran(t).writes

EntriesOK ==
  /\ \A t \in Txs : HasRecord(t) /\ ~Marking(t) => Recorded(t)
  /\ \A t \in Txs : ~HasRecord(t) /\ ~Writing(t) => Marked(t)
  /\ \A w \in Workers : mpc[w] = "insert" => PartlyWritten(w)
  /\ \A w \in Workers : mpc[w] = "mark" => PartlyMarked(w)

\* The executor's steps in the virtual machine and in the memory leave the
\* transactions' statuses and incarnations and the counters alone; the end of
\* an execution gives a record, the end of the conversion takes it away.
LEMMA MemFrame ==
  ASSUME TypeOK, MpcOK, NEW w \in Workers, MemStep(w)
  PROVE  /\ UNCHANGED <<txVars, idxVars>>
         /\ pc[w] \in {"execute", "setReason", "validate", "convert"}
         /\ \/ pc'[w] = pc[w]
            \/ pc'[w] = "finish" /\ ExecuteOk(w)
            \/ pc'[w] = "setReady" /\ ConvertEnd(w)
            \/ /\ pc'[w] \in {"retryCheck", "addDep", "setReason", "postNone", "tryAbort", "finValid"}
               /\ pc[w] # "convert"
         /\ (tx'[w] = tx[w] /\ inc'[w] = inc[w]) \/ pc'[w] = "postNone"
<1>a. /\ mpc[w] \in {"remove", "insert"} => pc[w] = "execute"
      /\ mpc[w] = "check" => pc[w] = "validate"
      /\ mpc[w] = "mark" => pc[w] = "convert"
  BY DEF MpcOK, MpcAt
<1> USE <1>a DEF TypeOK, Goto, Clear, txVars, idxVars, locals, vars
<1>2. CASE VmRead(w) BY <1>2 DEF VmRead, Does
<1>3. CASE VmReadInconsistent(w) BY <1>3 DEF VmReadInconsistent, VmRetry
<1>4. CASE VmReadEstimate(w) BY <1>4 DEF VmReadEstimate, VmBlocking
<1>5. CASE VmNotYet(w) BY <1>5 DEF VmNotYet, VmBlocking, VmFatal
<1>6. CASE VmStop(w) BY <1>6 DEF VmStop, VmFatal
<1>7. CASE GiveUp(w) BY <1>7 DEF GiveUp, SetAbortReason
<1>8. CASE RecordReads(w) BY <1>8 DEF RecordReads, Does
<1>9. CASE RecordRemove(w) BY <1>9 DEF RecordRemove
<1>10. CASE RecordInsert(w) BY <1>10 DEF RecordInsert
<1>11. CASE ExecuteOk(w) BY <1>11 DEF ExecuteOk, VmOk
<1>12. CASE ValidateStart(w) BY <1>12 DEF ValidateStart
<1>13. CASE ValidateCheck(w) BY <1>13 DEF ValidateCheck, Validate
<1>14. CASE ValidateEnd(w) BY <1>14 DEF ValidateEnd, Validate
<1>15. CASE ConvertStart(w) BY <1>15 DEF ConvertStart
<1>16. CASE ConvertOne(w) BY <1>16 DEF ConvertOne
<1>17. CASE ConvertEnd(w) BY <1>17 DEF ConvertEnd, ConvertWrites
<1> QED
  BY <1>2, <1>3, <1>4, <1>5, <1>6, <1>7, <1>8, <1>9, <1>10, <1>11, <1>12, <1>13, <1>14, <1>15, <1>16, <1>17 DEF MemStep

\* Which transactions gain and lose their record in the other steps.
LEMMA MemRecords ==
  ASSUME IInv, MpcOK, Shape, NEW w \in Workers, MemStep(w), Others(w), NEW t \in Txs
  PROVE  /\ t # tx[w] \/ ~(ExecuteOk(w) \/ ConvertEnd(w)) => (HasRecord(t)' <=> HasRecord(t))
         /\ incarnation' = incarnation
<1>0. TypeOK
  BY DEF IInv
<1>1. /\ UNCHANGED <<status, incarnation>>
      /\ pc[w] \in {"execute", "setReason", "validate", "convert"}
  BY <1>0, MemFrame DEF txVars
<1>2. CASE pc'[w] = pc[w]
  <2>1. tx'[w] = tx[w]
    BY <1>0, <1>1, <1>2, MemFrame
  <2> QED
    BY <1>1, <1>2, <2>1 DEF HasRecord, Finished, Others
<1>3. CASE pc'[w] # pc[w]
  <2>1. \/ pc'[w] \in {"finish", "setReady"} /\ tx'[w] = tx[w] /\ (ExecuteOk(w) \/ ConvertEnd(w))
        \/ pc'[w] \notin DonePcs \cup {"convert"} /\ pc[w] # "convert"
    BY <1>0, <1>1, <1>3, MemFrame DEF DonePcs, FinishPcs
  <2> QED
    BY <1>1, <2>1 DEF HasRecord, Finished, Others, DonePcs, FinishPcs
<1> QED
  BY <1>2, <1>3

\* Before the block, the memory holds an ESTIMATE of every expected write.
LEMMA EntriesInit == PexeInit => EntriesOK
<1> SUFFICES ASSUME PexeInit PROVE EntriesOK
  OBVIOUS
<1>1. \A t \in Txs : ~HasRecord(t)
  BY DEF PexeInit, Init, HasRecord, Finished, DonePcs, FinishPcs
<1>2. \A t \in Txs : Marked(t)
  BY DEF PexeInit, Marked, Est
<1> QED
  BY <1>1, <1>2 DEF PexeInit, EntriesOK

\* A step that writes no entry, gives no transaction a record or takes it away,
\* and begins no new incarnation of a transaction with a record, preserves
\* EntriesOK, if w neither writes nor marks.
LEMMA EntriesFrame ==
  ASSUME TypeOK, EntriesOK, NEW w \in Workers, Others(w), Elsewhere(w),
         UNCHANGED <<block, data, last_writes, results>>,
         \A t \in Txs : (HasRecord(t)' <=> HasRecord(t)) /\ (HasRecord(t) => incarnation'[t] = incarnation[t]),
         mpc[w] \notin {"insert", "mark"}, mpc'[w] \notin {"insert", "mark"},
         \A v \in Workers : mpc[v] = "mark" => HasRecord(tx[v])
  PROVE  EntriesOK'
<1>1. \A t \in Txs : (Marking(t)' <=> Marking(t)) /\ (Writing(t)' <=> Writing(t))
  BY DEF Marking, Writing, Others, Elsewhere
<1>2. ASSUME NEW t \in Txs, HasRecord(t)', ~Marking(t)' PROVE Recorded(t)'
  <2>1. HasRecord(t) /\ ~Marking(t) /\ incarnation'[t] = incarnation[t]
    BY <1>1, <1>2
  <2>2. Recorded(t)
    BY <2>1 DEF EntriesOK
  <2> QED
    BY <2>1, <2>2 DEF Recorded, Ran
<1>3. ASSUME NEW t \in Txs, ~HasRecord(t)', ~Writing(t)' PROVE Marked(t)'
  BY <1>1, <1>3 DEF EntriesOK, Marked
<1>4. ASSUME NEW v \in Workers, mpc'[v] = "insert" PROVE PartlyWritten(v)'
  <2>1. v # w /\ tx'[v] = tx[v] /\ inc'[v] = inc[v] /\ todo'[v] = todo[v] /\ vals'[v] = vals[v] /\ mpc[v] = "insert"
    BY <1>4 DEF Others, Elsewhere
  <2>2. PartlyWritten(v)
    BY <2>1 DEF EntriesOK
  <2>3. Now(v)' = Now(v)
    BY <2>1 DEF Now
  <2> QED
    BY <2>1, <2>2, <2>3 DEF PartlyWritten
<1>5. ASSUME NEW v \in Workers, mpc'[v] = "mark" PROVE PartlyMarked(v)'
  <2>1. v # w /\ tx'[v] = tx[v] /\ todo'[v] = todo[v] /\ mpc[v] = "mark"
    BY <1>5 DEF Others, Elsewhere
  <2>2. PartlyMarked(v)
    BY <2>1 DEF EntriesOK
  <2>3. tx[v] \in Txs /\ incarnation'[tx[v]] = incarnation[tx[v]]
    BY <2>1 DEF TypeOK
  <2>4. Ran(tx[v])' = Behaviour(block'[tx[v]], tx[v], results'[tx[v]])
    BY <2>1 DEF Ran
  <2> QED
    BY <2>1, <2>2, <2>3 DEF PartlyMarked, Ran
<1> QED
  BY <1>2, <1>3, <1>4, <1>5 DEF EntriesOK

\* A step of w on the entries of tx[w] alone preserves EntriesOK if it does so
\* for tx[w].
LEMMA EntriesAtOne ==
  ASSUME TypeOK, MpcOK, Shape, EntriesOK, NEW w \in Workers, Others(w), Elsewhere(w), Apart(w),
         incarnation' = incarnation, tx'[w] = tx[w], mpc[w] # "idle" \/ LastFree(tx[w]),
         \A t \in Txs \ {tx[w]} : HasRecord(t)' <=> HasRecord(t),
         HasRecord(tx[w])' => mpc'[w] = "mark" \/ Recorded(tx[w])',
         ~HasRecord(tx[w])' => mpc'[w] = "insert" \/ Marked(tx[w])',
         mpc'[w] = "insert" => PartlyWritten(w)',
         mpc'[w] = "mark" => PartlyMarked(w)'
  PROVE  EntriesOK'
<1>0. \A v \in Workers : tx[v] \in Txs
  BY DEF TypeOK
<1>1. \A t \in Txs \ {tx[w]} : (Marking(t)' <=> Marking(t)) /\ (Writing(t)' <=> Writing(t))
  BY DEF Marking, Writing, Others, Elsewhere
<1>2. \A v \in Workers \ {w} : mpc[v] # "idle" => tx[v] # tx[w]
  BY DEF MpcOK, LastIsExclusive, LastFree
<1>3. ASSUME NEW t \in Txs, HasRecord(t)', ~Marking(t)' PROVE Recorded(t)'
  <2>1. CASE t = tx[w]
    BY <1>3, <2>1 DEF Marking
  <2>2. CASE t # tx[w]
    <3>1. Recorded(t)
      BY <1>1, <1>3, <2>2 DEF EntriesOK
    <3> QED
      BY <2>2, <3>1 DEF Recorded, Ran, Apart
  <2> QED
    BY <2>1, <2>2
<1>4. ASSUME NEW t \in Txs, ~HasRecord(t)', ~Writing(t)' PROVE Marked(t)'
  <2>1. CASE t = tx[w]
    BY <1>4, <2>1 DEF Writing
  <2>2. CASE t # tx[w]
    <3>1. Marked(t)
      BY <1>1, <1>4, <2>2 DEF EntriesOK
    <3> QED
      BY <2>2, <3>1 DEF Marked, Apart
  <2> QED
    BY <2>1, <2>2
<1>5. ASSUME NEW v \in Workers, v # w, mpc'[v] = "insert" PROVE PartlyWritten(v)'
  <2>1. tx'[v] = tx[v] /\ inc'[v] = inc[v] /\ todo'[v] = todo[v] /\ vals'[v] = vals[v] /\ mpc[v] = "insert"
    BY <1>5 DEF Others, Elsewhere
  <2>2. PartlyWritten(v)
    BY <2>1 DEF EntriesOK
  <2>3. Now(v)' = Now(v)
    BY <2>1 DEF Now, Apart
  <2>4. tx[v] \in Txs \ {tx[w]}
    BY <1>0, <1>2, <1>5, <2>1
  <2>5. last_writes'[tx[v]] = last_writes[tx[v]] /\ \A l \in Locations : data'[l][tx[v]] = data[l][tx[v]]
    BY <2>4 DEF Apart
  <2> QED
    BY <2>1, <2>2, <2>3, <2>5 DEF PartlyWritten
<1>6. ASSUME NEW v \in Workers, v # w, mpc'[v] = "mark" PROVE PartlyMarked(v)'
  <2>1. tx'[v] = tx[v] /\ todo'[v] = todo[v] /\ mpc[v] = "mark"
    BY <1>6 DEF Others, Elsewhere
  <2>2. PartlyMarked(v) /\ todo[v] \subseteq Locations
    BY <2>1 DEF EntriesOK, Shape
  <2>3. tx[v] \in Txs \ {tx[w]}
    BY <1>0, <1>2, <1>6, <2>1
  <2>4. last_writes'[tx[v]] = last_writes[tx[v]] /\ (\A l \in Locations : data'[l][tx[v]] = data[l][tx[v]])
        /\ results'[tx[v]] = results[tx[v]] /\ block' = block
    BY <2>3 DEF Apart
  <2> QED
    BY <2>1, <2>2, <2>4 DEF PartlyMarked, Ran
<1> QED
  BY <1>3, <1>4, <1>5, <1>6 DEF EntriesOK

\* Every step preserves EntriesOK: record writes only entries of an executing
\* transaction, whose entries are all ESTIMATEs, and a conversion marks what
\* the record has left.
LEMMA EntriesStep ==
  ASSUME VmContract, IInv, Shape, MpcOK, EntriesOK, NEW w \in Workers, PexeStep(w),
         Shape', MpcOK', IInv', Elsewhere(w), Apart(w), Others(w)
  PROVE  EntriesOK'
<1>0. TypeOK /\ tx[w] \in Txs
  BY DEF IInv, TypeOK
<1> DEFINE t == tx[w]
<1>a. \A v \in Workers : mpc[v] = "mark" => HasRecord(tx[v])
  BY DEF MpcOK, MpcAt, HasRecord
<1>b. ASSUME MemStep(w), ~ExecuteOk(w), ~ConvertEnd(w), UNCHANGED <<block, data, last_writes, results>>,
             mpc[w] \notin {"insert", "mark"}, mpc'[w] \notin {"insert", "mark"}
      PROVE  EntriesOK'
  BY <1>0, <1>a, <1>b, MemRecords, EntriesFrame
<1>c. ASSUME ResetLocals(w) PROVE mpc'[w] = "idle"
  BY <1>c, ResetShape
<1>1. CASE pc[w] # "setReason" /\ WorkerStep(w) /\ UNCHANGED memVars
  <2>1. \A s \in Txs : (HasRecord(s)' <=> HasRecord(s)) /\ (HasRecord(s) => incarnation'[s] = incarnation[s])
    BY <1>1, WorkerRecords
  <2>2. mpc[w] \notin {"insert", "mark"}
    BY <1>0, <1>1, WorkerOutside DEF MpcOK, MpcAt
  <2> QED
    BY <1>0, <1>1, <1>a, <2>1, <2>2, EntriesFrame DEF memVars, memLocals, shared
<1>2. CASE VmRead(w) \/ RecordReads(w)
  <2>1. mpc[w] = "idle" /\ mpc'[w] \in {"idle", "remove"} /\ UNCHANGED <<block, data, last_writes, results>>
    BY <1>2 DEF VmRead, RecordReads, Does, Shape, shared
  <2>2. MemStep(w) /\ ~ExecuteOk(w) /\ ~ConvertEnd(w)
    BY <1>2, <2>1 DEF MemStep, ExecuteOk, ConvertEnd
  <2> QED
    BY <1>b, <2>1, <2>2
<1>3. CASE VmReadInconsistent(w) \/ VmReadEstimate(w) \/ VmNotYet(w) \/ VmStop(w)
  <2>1. mpc[w] = "idle" /\ mpc'[w] = "idle" /\ UNCHANGED <<block, data, last_writes, results>>
    BY <1>3, <1>c DEF VmReadInconsistent, VmReadEstimate, VmNotYet, VmStop, Does, shared, memVars, memLocals
  <2>2. MemStep(w) /\ ~ExecuteOk(w) /\ ~ConvertEnd(w)
    BY <1>3, <2>1 DEF MemStep, ExecuteOk, ConvertEnd
  <2> QED
    BY <1>b, <2>1, <2>2
<1>4. CASE GiveUp(w)
  <2>1. pc[w] = "setReason" /\ mpc'[w] = "idle" /\ UNCHANGED <<block, data, last_writes, results>>
    BY <1>4, <1>c DEF GiveUp, SetAbortReason, shared
  <2>2. MemStep(w) /\ mpc[w] = "idle"
    BY <1>4, <2>1 DEF MemStep, MpcOK, MpcAt, Shape, Mpcs
  <2> QED
    BY <1>b, <2>1, <2>2 DEF ExecuteOk, ConvertEnd
<1>5. CASE RecordRemove(w) \/ RecordInsert(w) \/ ExecuteOk(w)
  <2> DEFINE writes == Now(w).writes
  <2>1. /\ mpc[w] \in {"remove", "insert"} /\ pc[w] = "execute" /\ Now(w).op = "ok"
        /\ ~HasRecord(t) /\ inc[w] = incarnation[t]
    BY <1>5, NoRecordYet DEF RecordRemove, RecordInsert, ExecuteOk, MpcOK, MpcAt
  <2>2. DOMAIN writes \subseteq Locations /\ Est(t) \subseteq DOMAIN writes
    BY <1>0, <2>1, WritesOK DEF Est
  <2>3. /\ incarnation' = incarnation /\ tx'[w] = tx[w] /\ inc'[w] = inc[w]
        /\ \A s \in Txs : s # t \/ ~ExecuteOk(w) => (HasRecord(s)' <=> HasRecord(s))
    <3>1. MemStep(w) /\ ~ConvertEnd(w)
      BY <1>5, <2>1 DEF MemStep, ConvertEnd
    <3>2. /\ incarnation' = incarnation
          /\ \A s \in Txs : s # t \/ ~ExecuteOk(w) => (HasRecord(s)' <=> HasRecord(s))
      <4>1. \A s \in Txs : /\ s # tx[w] \/ ~(ExecuteOk(w) \/ ConvertEnd(w)) => (HasRecord(s)' <=> HasRecord(s))
                      /\ incarnation' = incarnation
        BY <3>1, MemRecords
      <4> QED
        BY <1>0, <3>1, <4>1
    <3>3. tx'[w] = tx[w] /\ inc'[w] = inc[w]
      BY <1>5 DEF RecordRemove, RecordInsert, ExecuteOk, VmOk, vars, locals
    <3> QED
      BY <3>2, <3>3
  <2>4. CASE RecordRemove(w)
    <3>1. mpc[w] = "remove" /\ UNCHANGED <<vars, block, vals>>
      BY <2>4 DEF RecordRemove
    <3>2. Now(w)' = Now(w) /\ ~HasRecord(t)' /\ (HasRecord(t)' => FALSE)
      BY <1>0, <2>1, <2>3, <3>1 DEF Now, vars, locals, ExecuteOk
    <3>3. Marked(t)
      BY <1>0, <2>1, <3>1 DEF EntriesOK, Writing, MpcOK, LastIsExclusive
    <3>4. ASSUME NEW l \in last_writes[t] \ DOMAIN writes, mpc' = mpc,
                 data' = [data EXCEPT ![l][t] = NoEntry],
                 last_writes' = [last_writes EXCEPT ![t] = @ \ {l}]
          PROVE  EntriesOK'
      <4>1. last_writes'[t] = last_writes[t] \ {l} /\ l \in Locations
            /\ \A k \in Locations : data'[k][t] = IF k = l THEN NoEntry ELSE data[k][t]
        BY <1>0, <3>4 DEF Shape
      <4>2. l \notin Est(t)
        BY <2>2
      <4>3. Marked(t)'
        BY <2>3, <3>3, <4>1, <4>2 DEF Marked
      <4> QED
        BY <1>0, <2>1, <2>3, <3>1, <3>2, <3>4, <4>3, EntriesAtOne
    <3>5. ASSUME last_writes[t] \ DOMAIN writes = {}, todo' = [todo EXCEPT ![w] = DOMAIN writes],
                 mpc' = [mpc EXCEPT ![w] = "insert"], UNCHANGED <<data, last_writes>>
          PROVE  EntriesOK'
      <4>1. todo'[w] = DOMAIN writes /\ mpc'[w] = "insert"
        BY <3>5 DEF Shape
      <4>2. PartlyWritten(w)'
        BY <2>3, <3>2, <3>3, <3>5, <4>1 DEF PartlyWritten, Marked
      <4> QED
        BY <1>0, <2>1, <2>3, <3>1, <3>2, <4>1, <4>2, EntriesAtOne
    <3> QED
      BY <2>4, <3>4, <3>5 DEF RecordRemove
  <2>5. CASE RecordInsert(w)
    <3>1. mpc[w] = "insert" /\ UNCHANGED <<vars, block, vals, mpc>>
      BY <2>5 DEF RecordInsert
    <3>2. Now(w)' = Now(w) /\ ~HasRecord(t)'
      BY <1>0, <2>1, <2>3, <2>5, <3>1 DEF Now, vars, locals, ExecuteOk, RecordInsert
    <3>3. PartlyWritten(w)
      BY <3>1 DEF EntriesOK
    <3>4. PICK l \in todo[w] :
            /\ data' = [data EXCEPT ![l][t] = Data(inc[w], writes[l])]
            /\ last_writes' = [last_writes EXCEPT ![t] = @ \cup {l}]
            /\ todo' = [todo EXCEPT ![w] = @ \ {l}]
      BY <2>5 DEF RecordInsert
    <3>5. /\ l \in Locations /\ last_writes'[t] = last_writes[t] \cup {l} /\ todo'[w] = todo[w] \ {l}
          /\ \A k \in Locations : data'[k][t] = IF k = l THEN Data(inc[w], writes[l]) ELSE data[k][t]
      BY <1>0, <3>4 DEF Shape
    <3>6. PartlyWritten(w)'
      <4> HIDE DEF writes, t
      <4>1. todo[w] \subseteq DOMAIN writes /\ DOMAIN writes \ todo[w] \subseteq last_writes[t] /\ last_writes[t] \subseteq DOMAIN writes
            /\ \A k \in Locations :
               data[k][t] = IF k \in DOMAIN writes \ todo[w] THEN Data(inc[w], writes[k])
                       ELSE IF k \in last_writes[t] \cup Est(t) THEN Estimate ELSE NoEntry
        BY <3>3 DEF PartlyWritten, t, writes
      <4>2. todo'[w] \subseteq DOMAIN writes /\ DOMAIN writes \ todo'[w] \subseteq last_writes'[t] /\ last_writes'[t] \subseteq DOMAIN writes
        BY <3>5, <4>1
      <4>3. \A k \in Locations :
               data'[k][t] = IF k \in DOMAIN writes \ todo'[w] THEN Data(inc[w], writes[k])
                       ELSE IF k \in last_writes'[t] \cup Est(t) THEN Estimate ELSE NoEntry
        BY <3>4, <3>5, <4>1
      <4>4. Now(w)'.writes = writes /\ tx'[w] = t /\ inc'[w] = inc[w]
        BY <2>3, <3>2 DEF writes, t
      <4> QED
        BY <4>2, <4>3, <4>4 DEF PartlyWritten
    <3> QED
      BY <1>0, <2>1, <2>3, <3>1, <3>2, <3>6, EntriesAtOne
  <2>6. CASE ExecuteOk(w)
    <3>1. mpc[w] = "insert" /\ todo[w] = {} /\ mpc'[w] = "idle" /\ results'[t] = vals[w] /\ pc'[w] = "finish"
          /\ UNCHANGED <<block, data, last_writes>>
      BY <1>0, <1>c, <2>6 DEF ExecuteOk, VmOk, Goto, Shape, TypeOK
    <3>2. HasRecord(t)'
      BY <2>3, <3>1 DEF HasRecord, DonePcs
    <3>3. PartlyWritten(w)
      BY <3>1 DEF EntriesOK
    <3>4. Ran(t)' = Now(w)
      BY <2>3, <3>1 DEF Ran, Now
    <3>5. Recorded(t)'
      BY <2>1, <2>2, <2>3, <3>1, <3>3, <3>4 DEF Recorded, PartlyWritten
    <3> QED
      BY <1>0, <2>1, <2>3, <3>1, <3>2, <3>5, EntriesAtOne
  <2> QED
    BY <1>5, <2>4, <2>5, <2>6
<1>6. CASE ValidateStart(w) \/ ValidateCheck(w) \/ ValidateEnd(w)
  <2>1. mpc[w] \in {"idle", "check"} /\ mpc'[w] \in {"idle", "check"} /\ UNCHANGED <<block, data, last_writes, results>>
    BY <1>6, <1>c DEF ValidateStart, ValidateCheck, ValidateEnd, Shape, shared
  <2>2. MemStep(w) /\ ~ExecuteOk(w) /\ ~ConvertEnd(w)
    BY <1>6, <2>1 DEF MemStep, ExecuteOk, ConvertEnd
  <2> QED
    BY <1>b, <2>1, <2>2
<1>7. CASE ConvertStart(w) \/ ConvertOne(w) \/ ConvertEnd(w)
  <2>1. pc[w] = "convert" /\ HasRecord(t)
    BY <1>7 DEF ConvertStart, ConvertOne, ConvertEnd, MpcOK, MpcAt, HasRecord
  <2>2. MemStep(w) /\ ~ExecuteOk(w)
    BY <1>7, <2>1 DEF MemStep, ExecuteOk, VmOk
  <2>3. /\ incarnation' = incarnation /\ tx'[w] = tx[w]
        /\ \A s \in Txs : s # t \/ ~ConvertEnd(w) => (HasRecord(s)' <=> HasRecord(s))
    <3>1. \A s \in Txs : /\ s # tx[w] \/ ~(ExecuteOk(w) \/ ConvertEnd(w)) => (HasRecord(s)' <=> HasRecord(s))
                      /\ incarnation' = incarnation
      BY <2>2, MemRecords
    <3>2. tx'[w] = tx[w]
      BY <1>7 DEF ConvertStart, ConvertOne, ConvertEnd, ConvertWrites, vars, locals
    <3> QED
      BY <1>0, <2>2, <3>1, <3>2
  <2>4. CASE ConvertStart(w)
    <3>1. /\ mpc[w] = "idle" /\ mpc'[w] = "mark" /\ LastFree(t) /\ todo'[w] = last_writes[t]
          /\ UNCHANGED <<block, data, last_writes, results>>
      BY <2>4 DEF ConvertStart, Shape, shared
    <3>2. Recorded(t)
      BY <1>0, <2>1, <3>1 DEF EntriesOK, Marking, LastFree
    <3>3. Est(t) \subseteq DOMAIN Ran(t).writes
      <4>1. VmKeeps(block[t], t, results[t])
        BY <1>0 DEF VmContract, Shape
      <4> QED
        BY <3>2, <4>1 DEF VmKeeps, Recorded, Ran, Est
    <3>4. last_writes[t] \subseteq Locations
      BY <1>0 DEF Shape
    <3>5. PartlyMarked(w)'
      BY <2>3, <3>1, <3>2, <3>3, <3>4 DEF PartlyMarked, Recorded, Ran
    <3>6. HasRecord(t)'
      BY <1>0, <2>1, <2>3, <3>1 DEF ConvertEnd
    <3> QED
      BY <1>0, <2>1, <2>3, <3>1, <3>5, <3>6, EntriesAtOne
  <2>5. CASE ConvertOne(w)
    <3>1. mpc[w] = "mark" /\ mpc'[w] = "mark" /\ UNCHANGED <<vars, block, last_writes, results>>
      BY <2>5 DEF ConvertOne, Shape
    <3>2. PICK l \in todo[w] : data' = [data EXCEPT ![l][t] = Estimate] /\ todo' = [todo EXCEPT ![w] = @ \ {l}]
      BY <2>5 DEF ConvertOne
    <3>3. /\ l \in Locations /\ todo'[w] = todo[w] \ {l}
          /\ \A k \in Locations : data'[k][t] = IF k = l THEN Estimate ELSE data[k][t]
      BY <1>0, <3>2 DEF Shape
    <3>4. PartlyMarked(w) /\ todo[w] \subseteq Locations
      BY <3>1 DEF EntriesOK, Shape
    <3>5. Ran(t)' = Ran(t)
      BY <3>1 DEF Ran, vars, locals
    <3>6. PartlyMarked(w)'
      BY <2>3, <3>1, <3>2, <3>3, <3>4, <3>5 DEF PartlyMarked
    <3>7. HasRecord(t)'
      BY <1>0, <2>1, <2>3, <3>1 DEF HasRecord, vars, locals
    <3> QED
      BY <1>0, <2>1, <2>3, <3>1, <3>6, <3>7, EntriesAtOne
  <2>6. CASE ConvertEnd(w)
    <3>1. mpc[w] = "mark" /\ todo[w] = {} /\ mpc'[w] = "idle" /\ UNCHANGED <<block, data, last_writes, results>> /\ pc'[w] = "setReady"
      BY <1>0, <1>c, <2>6 DEF ConvertEnd, ConvertWrites, Goto, TypeOK, shared
    <3>2. ~HasRecord(t)'
      <4>1. /\ status'[t] = "Aborting" /\ \A u \in Workers : Aborts(u, t)' => u = w
            /\ \A v \in Workers : pc'[v] \in ExecutingPcs => status'[tx'[v]] = "Executing"
        BY <1>0, <2>3, <3>1 DEF IInv, ExclusiveExecution, ExecutorOwns, ResumedExactlyOnce, ResumersAreUnique, AbortPcs, Aborts
      <4> QED
        BY <2>3, <3>1, <4>1 DEF HasRecord, Finished, DonePcs, FinishPcs, ExecutingPcs, ExecutePcs, Aborts, AbortPcs
    <3>3. PartlyMarked(w)
      BY <3>1 DEF EntriesOK
    <3>4. Marked(t)'
      BY <2>3, <3>1, <3>3 DEF PartlyMarked, Marked
    <3> QED
      BY <1>0, <2>1, <2>3, <3>1, <3>2, <3>4, EntriesAtOne
  <2> QED
    BY <1>7, <2>4, <2>5, <2>6
<1> QED
  BY <1>1, <1>2, <1>3, <1>4, <1>5, <1>6, <1>7 DEF PexeStep

-----------------------------------------------------------------------------
(* The invariant and what follows from it *)

MInv == IInv /\ Shape /\ MpcOK /\ EntriesOK

\* A step of a worker preserves the invariant, and leaves alone what the lemmas
\* above say.
LEMMA MInvWorker ==
  ASSUME VmContract, MInv, NEW w \in Workers, PexeStep(w)
  PROVE  MInv' /\ Elsewhere(w) /\ Apart(w) /\ Others(w) /\ \A t \in Txs : Moves(t)
<1>1. IInv /\ Shape /\ MpcOK /\ EntriesOK /\ TypeOK
  BY DEF MInv, IInv
<1>2. IInv' /\ (\A t \in Txs : Moves(t)) /\ Others(w)
  BY <1>1, PexeKeepsIInv
<1>3. Shape' /\ Elsewhere(w) /\ Apart(w)
  BY <1>1, ShapeStep
<1>4. MpcOK'
  BY <1>1, <1>2, <1>3, MpcStep
<1>5. EntriesOK'
  BY <1>1, <1>2, <1>3, <1>4, EntriesStep
<1> QED
  BY <1>2, <1>3, <1>4, <1>5 DEF MInv

\* So does a step that changes nothing.
LEMMA MInvStutter == MInv /\ UNCHANGED pexeVars => MInv'
<1> SUFFICES ASSUME MInv, UNCHANGED pexeVars PROVE MInv'
  OBVIOUS
<1>1. IInv'
  BY StutterIInv DEF MInv, pexeVars
<1> USE DEF pexeVars, memVars, memLocals, shared, vars, txVars, locals
<1>2. Shape'
  BY DEF MInv, Shape
<1>3. MpcOK'
  BY DEF MInv, MpcOK, MpcAt, Now, LastIsExclusive
<1>4. EntriesOK'
  <2>1. \A t \in Txs : /\ HasRecord(t)' <=> HasRecord(t)
                       /\ Marking(t)' <=> Marking(t)
                       /\ Writing(t)' <=> Writing(t)
    BY DEF HasRecord, Finished, Marking, Writing
  <2>2. \A t \in Txs : (Recorded(t)' <=> Recorded(t)) /\ (Marked(t)' <=> Marked(t))
    BY DEF Recorded, Ran, Marked
  <2>3. \A w \in Workers : PartlyWritten(w) => PartlyWritten(w)'
    BY DEF PartlyWritten, Now
  <2>4. \A w \in Workers : PartlyMarked(w) => PartlyMarked(w)'
    BY DEF PartlyMarked, Ran
  <2> QED
    BY <2>1, <2>2, <2>3, <2>4 DEF MInv, EntriesOK
<1> QED
  BY <1>1, <1>2, <1>3, <1>4 DEF MInv

\* Whatever the block and the interleaving, the memory holds of a transaction
\* the writes of its current incarnation, ESTIMATEs, or a known mixture while
\* record or convert_writes_to_estimates is at work.
THEOREM MemoryInvariance ==
  ASSUME VmContract
  PROVE  PexeSpec => []MInv
<1>1. PexeInit => MInv
  BY ShapeInit, EntriesInit, InitIInv DEF PexeInit, MInv
<1>2. MInv /\ [PexeNext]_pexeVars => MInv'
  <2> SUFFICES ASSUME MInv, [PexeNext]_pexeVars PROVE MInv'
    OBVIOUS
  <2>1. ASSUME NEW w \in Workers, PexeStep(w) PROVE MInv'
    BY <2>1, MInvWorker
  <2>2. CASE UNCHANGED pexeVars
    BY <2>2, MInvStutter
  <2> QED
    BY <2>1, <2>2 DEF PexeNext, Joined, pexeVars
<1> QED
  BY <1>1, <1>2, PTL DEF PexeSpec

\* The kinds of entries, and what an entry that holds data tells.
LEMMA EntryKinds ==
  /\ NoEntry.kind = "none" /\ Estimate.kind = "estimate"
  /\ \A i, x : Data(i, x).kind = "data" /\ Data(i, x).inc = i /\ Data(i, x).val = x
  BY DEF NoEntry, Estimate, Data

\* A finished transaction has a complete record.
LEMMA FinishedHasRecord ==
  ASSUME MInv, NEW t \in Txs, Finished(t)
  PROVE  Recorded(t)
<1>1. HasRecord(t)
  BY DEF HasRecord
<1>2. ~Marking(t)
  BY DEF MInv, MpcOK, MpcAt, Marking, IInv, ResumedExactlyOnce, ResumersAreUnique, Aborts, AbortPcs, Finished
<1> QED
  BY <1>1, <1>2 DEF MInv, EntriesOK

\* A reader that meets an ESTIMATE waits for a transaction that has yet to
\* execute: record leaves none of its own, and converting comes after Aborting.
THEOREM EstimateIsUnfinishedHolds ==
  ASSUME VmContract
  PROVE  PexeSpec => []EstimateIsUnfinished
<1>1. MInv => EstimateIsUnfinished
  <2> SUFFICES ASSUME MInv, NEW l \in Locations, NEW t \in Txs, Finished(t)
               PROVE  data[l][t].kind # "estimate"
    BY DEF EstimateIsUnfinished
  <2> QED
    BY FinishedHasRecord, EntryKinds DEF Recorded
<1> QED
  BY <1>1, MemoryInvariance, PTL

\* Late validations of earlier incarnations do not touch what a finished
\* transaction has written.
THEOREM FinishedIsRecordedHolds ==
  ASSUME VmContract
  PROVE  PexeSpec => []FinishedIsRecorded
<1>1. MInv => FinishedIsRecorded
  <2> SUFFICES ASSUME MInv, NEW l \in Locations, NEW t \in Txs, Finished(t)
               PROVE  IF l \in last_writes[t]
                        THEN data[l][t].kind = "data" /\ data[l][t].inc = incarnation[t]
                        ELSE data[l][t].kind = "none"
    BY DEF FinishedIsRecorded
  <2> QED
    BY FinishedHasRecord, EntryKinds DEF Recorded
<1> QED
  BY <1>1, MemoryInvariance, PTL
=============================================================================
