--------------------------- MODULE LazyPexeProofs ---------------------------
(***************************************************************************)
(* The addresses of lazy updates are registered, the scheduler's theorems  *)
(* hold, and no ESTIMATE is left for the evaluation: for every block       *)
(* of transfers and calls, every set of accounts and of workers.           *)
(***************************************************************************)
EXTENDS LazyPexe, SchedulerProofs

\* The transaction of a worker, and the transaction that an ESTIMATE blocks on.
LEMMA TxFacts ==
  ASSUME TypeOK, block \in Blocks, NEW w \in Workers
  PROVE  /\ tx[w] \in Txs /\ Tx(w) = block[tx[w]]
         /\ Tx(w).from \in Accounts /\ Tx(w).to \in Accounts
  BY BlocksAssumption DEF TypeOK, Tx

LEMMA EndsFacts ==
  ASSUME NEW a, NEW t, Blocked(a, t)
  PROVE  Max(Ends(a, t)) \in Txs
<1>1. Ends(a, t) \in SUBSET Txs /\ Ends(a, t) # {}
  BY DEF Blocked, Walk, Ends, Writers
<1> QED
  BY <1>1, Greatest DEF Max

\* Every step of the executor is a step of the scheduler's workers or leaves
\* the scheduler alone.
LEMMA LazyStepImplements ==
  ASSUME TypeOK, NEW w \in Workers, LazyStep(w)
  PROVE  Environment(w) \/ WorkerStep(w) \/ ConvertWrites(w) \/ UNCHANGED vars
<1>1. tx[w] \in Txs
  BY DEF TypeOK
<1>2. CASE VmReadEstimate(w)
  <2>1. PICK a \in Accounts : Blocked(a, tx[w]) /\ VmBlocking(w, Max(Ends(a, tx[w])))
    BY <1>2 DEF VmReadEstimate
  <2> QED
    BY <2>1, EndsFacts DEF Environment
<1>3. CASE VmNotYet(w)
  <2>1. CASE tx[w] > 0
    <3>1. tx[w] - 1 \in Txs
      BY <1>1, <2>1, BlockSizeAssumption DEF Txs
    <3> QED
      BY <1>3, <2>1, <3>1 DEF VmNotYet, Environment
  <2>2. CASE ~(tx[w] > 0)
    BY <1>3, <2>2 DEF VmNotYet, Environment
  <2> QED
    BY <2>1, <2>2
<1>4. CASE GiveUp(w)
  BY <1>4 DEF GiveUp, WorkerStep, Reasons
<1>5. CASE ExecuteOk(w)
  BY <1>5 DEF ExecuteOk, Environment, Flags, NeedValidation, WroteNewLocation
<1>6. CASE ValidateCheck(w) \/ ValidateEnd(w)
  BY <1>6 DEF ValidateCheck, ValidateEnd, Environment
<1>7. CASE ConvertEnd(w)
  BY <1>7 DEF ConvertEnd
<1>8. CASE VmNew(w) \/ VmReadFrom(w) \/ VmReadTo(w) \/ AddLazyAddresses(w)
  BY <1>8 DEF VmNew, VmReadFrom, VmReadTo, Got, AddLazyAddresses
<1>9. CASE RecordReads(w) \/ RecordRemove(w) \/ RecordInsert(w)
             \/ ValidateStart(w) \/ ConvertStart(w) \/ ConvertOne(w)
  BY <1>9 DEF RecordReads, RecordRemove, RecordInsert, ValidateStart, ConvertStart, ConvertOne
<1> QED
  BY <1>2, <1>3, <1>4, <1>5, <1>6, <1>7, <1>8, <1>9 DEF LazyStep

\* A step of the executor keeps what the scheduler's steps keep.
LEMMA LazyKeepsIInv ==
  ASSUME IInv, NEW w \in Workers, LazyStep(w)
  PROVE  IInv' /\ Others(w)
<1>1. TypeOK /\ RegOK
  BY DEF IInv
<1>2. CASE UNCHANGED vars
  BY <1>2, StutterIInv DEF Others, vars, txVars, locals
<1>3. CASE Environment(w) \/ WorkerStep(w) \/ ConvertWrites(w)
  BY <1>1, <1>3, TypeStep, WorkerIInv
<1> QED
  BY <1>1, <1>2, <1>3, LazyStepImplements

\* The variables of the scheduler behave as Scheduler allows here as well.
LEMMA LazyImplementsScheduler == LazySpec => Spec
<1>1. LazyInit => Init
  BY DEF LazyInit
<1>2. IInv /\ [LazyNext]_lazyVars => [Next]_vars
  <2> SUFFICES ASSUME IInv, [LazyNext]_lazyVars PROVE [Next]_vars
    OBVIOUS
  <2>1. TypeOK
    BY DEF IInv
  <2>2. CASE UNCHANGED lazyVars
    BY <2>2 DEF lazyVars
  <2>3. ASSUME NEW w \in Workers, LazyStep(w) PROVE [Next]_vars
    BY <2>1, <2>3, LazyStepImplements DEF Next
  <2> QED
    BY <2>2, <2>3 DEF LazyNext, Next
<1>3. IInv /\ [LazyNext]_lazyVars => IInv'
  BY <1>2, NextIInv
<1> QED
  BY <1>1, <1>2, <1>3, InitIInv, PTL DEF LazySpec, Spec

\* When the threads have joined, either the block was given up for a reason or
\* every transaction is validated, lazy or not.
THEOREM LazyCompletes == LazySpec => [](AbortHasReason /\ CompletionIsTotal)
<1>1. IInv => AbortHasReason /\ CompletionIsTotal
  BY TotalFromIInv, ReasonFromIInv
<1> QED
  BY <1>1, LazyImplementsScheduler, Invariance, PTL

-----------------------------------------------------------------------------
(* What is written *)

\* A transaction changes accounts it names.
LEMMA AfterDomain ==
  ASSUME NEW x, NEW acc, NEW gas
  PROVE  DOMAIN After(x, acc, gas) \subseteq {x.from, x.to}
  BY DEF After

\* The reward is written to the beneficiary, and nothing else is changed.
LEMMA RewardedShape ==
  ASSUME NEW writes, NEW n
  PROVE  /\ DOMAIN Rewarded(writes, n) = {Coinbase} \cup DOMAIN writes
         /\ \A a \in DOMAIN writes \ {Coinbase} : Rewarded(writes, n)[a] = writes[a]
  BY DEF Rewarded

\* A write set is of accounts, has the beneficiary, and amounts only for the
\* beneficiary and for the two addresses of a lazy transfer.
LEMMA WritesOK ==
  ASSUME TypeOK, block \in Blocks, NEW w \in Workers
  PROVE  /\ DOMAIN WriteSet(w) \subseteq Accounts /\ Coinbase \in DOMAIN WriteSet(w)
         /\ \A a \in DOMAIN WriteSet(w) :
              \/ WriteSet(w)[a].type = "Basic"
              \/ a = Coinbase
              \/ is_lazy[w] /\ a \in {Tx(w).from, Tx(w).to}
<1> DEFINE x == Tx(w)
           z == is_lazy[w]
           g == got[w]
           v == AccountWrites(x, z, g)
           n == Reward(x, GasUsed(x, z, g))
<1>0. x.from \in Accounts /\ x.to \in Accounts /\ Coinbase \in Accounts
  BY TxFacts, CoinbaseAssumption
<1>1. DOMAIN v \subseteq {x.from, x.to} /\ (~z => \A a \in DOMAIN v : v[a].type = "Basic")
  <2> HIDE DEF x, z, g
  <2>1. CASE z
    BY <2>1 DEF AccountWrites
  <2>2. CASE ~z
    <3> DEFINE s == StateAfter(x, z, g)
    <3>1. DOMAIN s \subseteq {x.from, x.to}
      BY AfterDomain DEF StateAfter
    <3>2. v = [a \in {b \in DOMAIN s : s[b] \notin {g[b], Empty}} |-> Basic(s[a])]
      BY <2>2 DEF AccountWrites
    <3> HIDE DEF v, s
    <3>3. DOMAIN v \subseteq {x.from, x.to}
      BY <3>1, <3>2
    <3>4. \A a \in DOMAIN v : v[a].type = "Basic"
      BY <3>2 DEF Basic
    <3> QED
      BY <2>2, <3>3, <3>4
  <2> QED
    BY <2>1, <2>2
<1>2. WriteSet(w) = Rewarded(v, n)
  BY DEF WriteSet, Writes
<1> HIDE DEF v, n
<1>3. /\ DOMAIN WriteSet(w) = {Coinbase} \cup DOMAIN v
      /\ \A a \in DOMAIN v \ {Coinbase} : WriteSet(w)[a] = v[a]
  <2> SUFFICES ASSUME NEW y, y = v, NEW k, k = n
               PROVE  /\ DOMAIN Rewarded(y, k) = {Coinbase} \cup DOMAIN y
                      /\ \A a \in DOMAIN y \ {Coinbase} : Rewarded(y, k)[a] = y[a]
    BY <1>2
  <2> QED
    BY RewardedShape, ZenonT(40)
<1> QED
  BY <1>0, <1>1, <1>3

-----------------------------------------------------------------------------
(* The shape of the state, and what a step of one worker leaves alone *)

VmPcs == {"addLazy", "from", "to", "ready", "remove", "insert"}
LastPcs == {"remove", "insert", "check", "mark"}
Mpcs == {"idle"} \cup VmPcs \cup LastPcs

Shape ==
  /\ block \in Blocks
  /\ DOMAIN data = Accounts /\ \A a \in Accounts : DOMAIN data[a] = Txs
  /\ last_writes \in [Txs -> SUBSET Accounts]
  /\ mpc \in [Workers -> Mpcs]
  /\ is_lazy \in [Workers -> BOOLEAN] /\ DOMAIN got = Workers
  /\ todo \in [Workers -> SUBSET Accounts]

\* Which operation a worker can be in where; the addresses of a lazy transfer
\* that is about to be recorded are registered.
MpcAt(w) ==
  /\ mpc[w] \in VmPcs => pc[w] = "execute"
  /\ mpc[w] = "check" => pc[w] = "validate"
  /\ mpc[w] = "mark" => pc[w] = "convert"
  /\ mpc[w] \in {"from", "to"} => ~is_lazy[w]
  /\ mpc[w] \in {"ready", "remove", "insert"} /\ is_lazy[w] => {Tx(w).from, Tx(w).to} \subseteq lazy_addresses

\* The mutex of last_locations: one operation on a transaction at a time.
LastIsExclusive ==
  \A v, u \in Workers : mpc[v] \in LastPcs /\ mpc[u] \in LastPcs /\ tx[u] = tx[v] => u = v

MpcOK == (\A w \in Workers : MpcAt(w)) /\ LastIsExclusive /\ Coinbase \in lazy_addresses

\* The other workers' places, and the other transactions' entries.
Elsewhere(w) ==
  \A v \in Workers \ {w} :
    mpc'[v] = mpc[v] /\ is_lazy'[v] = is_lazy[v] /\ got'[v] = got[v] /\ todo'[v] = todo[v]
Apart(w) ==
  /\ block' = block /\ lazy_addresses \subseteq lazy_addresses'
  /\ \A t \in Txs \ {tx[w]} :
       last_writes'[t] = last_writes[t] /\ \A a \in Accounts : data'[a][t] = data[a][t]

\* The steps of the executor that are not those of the scheduler alone.
MemStep(w) ==
  \/ VmNew(w) \/ VmReadFrom(w) \/ VmReadTo(w)
  \/ VmReadEstimate(w) \/ VmNotYet(w) \/ GiveUp(w)
  \/ AddLazyAddresses(w)
  \/ RecordReads(w) \/ RecordRemove(w) \/ RecordInsert(w) \/ ExecuteOk(w)
  \/ ValidateStart(w) \/ ValidateCheck(w) \/ ValidateEnd(w)
  \/ ConvertStart(w) \/ ConvertOne(w) \/ ConvertEnd(w)

\* The executor starts in that shape, with nobody in the memory.
LEMMA ShapeInit == LazyInit => Shape /\ MpcOK
<1> SUFFICES ASSUME LazyInit PROVE Shape /\ MpcOK
  OBVIOUS
<1>1. Shape
  BY DEF LazyInit, Shape, Mpcs
<1>2. MpcOK
  BY DEF LazyInit, MpcOK, MpcAt, LastIsExclusive, VmPcs, LastPcs
<1> QED
  BY <1>1, <1>2

\* A worker that resets its locals keeps the shape of those of all workers.
LEMMA ResetShape ==
  ASSUME Shape, NEW w \in Workers, ResetLocals(w)
  PROVE  /\ mpc' \in [Workers -> Mpcs] /\ is_lazy' \in [Workers -> BOOLEAN] /\ DOMAIN got' = Workers
         /\ todo' \in [Workers -> SUBSET Accounts]
         /\ mpc'[w] = "idle"
         /\ Elsewhere(w)
  BY DEF Shape, ResetLocals, Mpcs, Elsewhere

\* Every step keeps the shape, and leaves alone the other workers' places and
\* the other transactions' entries.
LEMMA ShapeStep ==
  ASSUME TypeOK, Shape, NEW w \in Workers, LazyStep(w)
  PROVE  Shape' /\ Elsewhere(w) /\ Apart(w)
<1> DEFINE Goal == Shape' /\ Elsewhere(w) /\ Apart(w)
<1>0. tx[w] \in Txs /\ block \in Blocks
  BY DEF TypeOK, Shape
<1>a. ASSUME ResetLocals(w), UNCHANGED <<block, data, lazy_addresses, last_writes>> PROVE Goal
  BY <1>a, ResetShape DEF Shape, Apart
<1>b. ASSUME UNCHANGED memVars PROVE Goal
  BY <1>b DEF Shape, Elsewhere, Apart, shared, memVars, memLocals
<1>1. CASE pc[w] # "setReason" /\ WorkerStep(w) /\ UNCHANGED memVars
  BY <1>1, <1>b
<1>2. CASE VmNew(w)
  <2>1. \E z \in BOOLEAN : is_lazy' = [is_lazy EXCEPT ![w] = z]
                           /\ mpc' = [mpc EXCEPT ![w] = IF z THEN "addLazy" ELSE "from"]
    BY <1>2 DEF VmNew
  <2> QED
    BY <1>2, <2>1 DEF VmNew, Shape, Mpcs, VmPcs, Elsewhere, Apart, shared
<1>3. ASSUME NEW a, NEW l \in Mpcs, Got(w, a, l) PROVE Goal
  BY <1>3 DEF Got, Shape, Elsewhere, Apart, shared
<1>4. CASE VmReadFrom(w) \/ VmReadTo(w)
  <2>1. \E a, l : l \in {"to", "ready"} /\ Got(w, a, l)
    BY <1>4 DEF VmReadFrom, VmReadTo
  <2> QED
    BY <1>3, <2>1 DEF Mpcs, VmPcs
<1>5. CASE VmReadEstimate(w) BY <1>5, <1>a DEF VmReadEstimate, shared
<1>6. CASE VmNotYet(w) BY <1>6, <1>a DEF VmNotYet, shared
<1>7. CASE GiveUp(w) BY <1>7, <1>b DEF GiveUp
<1>8. CASE AddLazyAddresses(w)
  BY <1>8 DEF AddLazyAddresses, Shape, Mpcs, VmPcs, Elsewhere, Apart
<1>9. CASE RecordReads(w)
  BY <1>9 DEF RecordReads, Shape, Mpcs, VmPcs, Elsewhere, Apart
<1>10. CASE RecordRemove(w)
  <2>1. DOMAIN WriteSet(w) \subseteq Accounts
    BY <1>0, WritesOK
  <2>2. UNCHANGED <<block, lazy_addresses, is_lazy, got>>
    BY <1>10 DEF RecordRemove
  <2>3. ASSUME NEW a \in last_writes[tx[w]], UNCHANGED <<mpc, todo>>,
               data' = [data EXCEPT ![a][tx[w]] = NoEntry],
               last_writes' = [last_writes EXCEPT ![tx[w]] = @ \ {a}]
        PROVE  Goal
    <3>1. last_writes' \in [Txs -> SUBSET Accounts]
      BY <1>0, <2>3 DEF Shape
    <3>2. DOMAIN data' = Accounts /\ \A k \in Accounts : DOMAIN data'[k] = Txs
      BY <2>3 DEF Shape
    <3>3. Shape'
      BY <2>2, <2>3, <3>1, <3>2 DEF Shape
    <3>4. Apart(w)
      BY <1>0, <2>2, <2>3 DEF Shape, Apart
    <3> QED
      BY <2>2, <2>3, <3>3, <3>4 DEF Elsewhere
  <2>4. ASSUME todo' = [todo EXCEPT ![w] = DOMAIN WriteSet(w)],
               mpc' = [mpc EXCEPT ![w] = "insert"], UNCHANGED <<data, last_writes>>
        PROVE  Goal
    BY <2>1, <2>2, <2>4 DEF Shape, Mpcs, VmPcs, Elsewhere, Apart
  <2> QED
    BY <1>10, <2>3, <2>4 DEF RecordRemove
<1>11. CASE RecordInsert(w)
  <2>1. PICK a \in todo[w] :
          /\ data' = [data EXCEPT ![a][tx[w]] = Data(inc[w], WriteSet(w)[a])]
          /\ last_writes' = [last_writes EXCEPT ![tx[w]] = @ \cup {a}]
          /\ todo' = [todo EXCEPT ![w] = @ \ {a}]
    BY <1>11 DEF RecordInsert
  <2>2. UNCHANGED <<block, lazy_addresses, mpc, is_lazy, got>>
    BY <1>11 DEF RecordInsert
  <2>3. a \in Accounts
    BY <2>1 DEF Shape
  <2>4. last_writes' \in [Txs -> SUBSET Accounts] /\ todo' \in [Workers -> SUBSET Accounts]
    BY <1>0, <2>1, <2>3 DEF Shape
  <2>5. DOMAIN data' = Accounts /\ \A k \in Accounts : DOMAIN data'[k] = Txs
    BY <2>1 DEF Shape
  <2>6. Shape'
    BY <2>2, <2>4, <2>5 DEF Shape
  <2>7. Elsewhere(w)
    BY <2>1, <2>2 DEF Shape, Elsewhere
  <2>8. Apart(w)
    BY <1>0, <2>1, <2>2, <2>3 DEF Shape, Apart
  <2> QED
    BY <2>6, <2>7, <2>8
<1>12. CASE ExecuteOk(w) BY <1>12, <1>a DEF ExecuteOk
<1>13. CASE ValidateStart(w)
  BY <1>13 DEF ValidateStart, Shape, Mpcs, LastPcs, Elsewhere, Apart, shared
<1>14. CASE ValidateCheck(w)
  <2>1. CASE \E a \in todo[w] : todo' = [todo EXCEPT ![w] = @ \ {a}] /\ UNCHANGED <<mpc, is_lazy, got>>
    BY <1>14, <2>1 DEF ValidateCheck, Shape, Elsewhere, Apart, shared
  <2>2. CASE ResetLocals(w)
    BY <1>14, <2>2, <1>a DEF ValidateCheck, shared
  <2> QED
    BY <1>14, <2>1, <2>2 DEF ValidateCheck
<1>15. CASE ValidateEnd(w) BY <1>15, <1>a DEF ValidateEnd, shared
<1>16. CASE ConvertStart(w)
  BY <1>0, <1>16 DEF ConvertStart, Shape, Mpcs, LastPcs, Elsewhere, Apart, shared
<1>17. CASE ConvertOne(w)
  BY <1>0, <1>17 DEF ConvertOne, Shape, Elsewhere, Apart
<1>18. CASE ConvertEnd(w) BY <1>18, <1>a DEF ConvertEnd, shared
<1> QED
  BY <1>1, <1>2, <1>4, <1>5, <1>6, <1>7, <1>8, <1>9, <1>10, <1>11, <1>12, <1>13, <1>14, <1>15, <1>16, <1>17, <1>18 DEF LazyStep

\* A step of w in the memory keeps the places of the others consistent, if w
\* starts an operation on a transaction only when nobody is at it.
LEMMA MpcFrame ==
  ASSUME TypeOK, Shape, MpcOK, NEW w \in Workers, Elsewhere(w), Apart(w), Others(w),
         mpc'[w] \in LastPcs => tx'[w] = tx[w] /\ (mpc[w] \in LastPcs \/ LastFree(tx[w])),
         MpcAt(w)'
  PROVE  MpcOK'
<1>1. ASSUME NEW v \in Workers, v # w PROVE MpcAt(v)'
  <2>1. /\ pc'[v] = pc[v] /\ tx'[v] = tx[v] /\ mpc'[v] = mpc[v] /\ is_lazy'[v] = is_lazy[v]
        /\ block' = block /\ lazy_addresses \subseteq lazy_addresses'
    BY <1>1 DEF Others, Elsewhere, Apart
  <2>2. Tx(v)' = Tx(v)
    BY <2>1 DEF Tx
  <2> QED
    BY <2>1, <2>2 DEF MpcOK, MpcAt
<1>2. LastIsExclusive'
  BY DEF MpcOK, LastIsExclusive, LastFree, LastPcs, Elsewhere, Others
<1> QED
  BY <1>1, <1>2 DEF MpcOK, Apart

\* Every step keeps the workers' places consistent: a transfer is recorded after
\* its addresses are registered, and the mutex of last_locations keeps a second
\* operation out.
LEMMA MpcStep ==
  ASSUME TypeOK, Shape, MpcOK, NEW w \in Workers, LazyStep(w), Elsewhere(w), Apart(w), Others(w)
  PROVE  MpcOK'
<1>a. ASSUME mpc'[w] = "idle" PROVE MpcOK'
  <2>1. MpcAt(w)'
    BY <1>a DEF MpcAt, VmPcs
  <2> QED
    BY <1>a, <2>1, MpcFrame DEF LastPcs
<1>b. ASSUME ResetLocals(w) PROVE MpcOK'
  BY <1>a, <1>b, ResetShape
<1>c. ASSUME UNCHANGED <<vars, block>>, MpcAt(w)',
             mpc'[w] \in LastPcs => mpc[w] \in LastPcs \/ LastFree(tx[w])
      PROVE  MpcOK'
  BY <1>c, MpcFrame DEF vars, locals
<1>d. ASSUME UNCHANGED <<vars, block>> PROVE pc' = pc /\ tx' = tx /\ Tx(w)' = Tx(w)
  BY <1>d DEF vars, locals, Tx
<1>1. CASE pc[w] # "setReason" /\ WorkerStep(w) /\ UNCHANGED memVars
  <2>1. pc[w] \notin {"execute", "validate", "convert"}
    BY <1>1, WorkerOutside
  <2>2. mpc[w] = "idle"
    BY <2>1 DEF MpcOK, MpcAt, Shape, Mpcs, LastPcs, VmPcs
  <2> QED
    BY <1>1, <1>a, <2>2 DEF memVars, memLocals
<1>2. CASE VmNew(w)
  <2>1. /\ pc[w] = "execute" /\ UNCHANGED <<vars, block>>
        /\ mpc'[w] = IF is_lazy'[w] THEN "addLazy" ELSE "from"
    BY <1>2 DEF VmNew, Shape
  <2> QED
    BY <1>c, <1>d, <2>1 DEF MpcAt, VmPcs, LastPcs
<1>4. CASE VmReadFrom(w) \/ VmReadTo(w)
  <2>1. /\ mpc[w] \in {"from", "to"} /\ mpc'[w] \in {"to", "ready"}
        /\ UNCHANGED <<vars, block, is_lazy, lazy_addresses>>
    BY <1>4 DEF VmReadFrom, VmReadTo, Got, Shape, shared
  <2>2. MpcAt(w)'
    BY <1>d, <2>1 DEF MpcOK, MpcAt, VmPcs
  <2> QED
    BY <1>c, <2>1, <2>2 DEF LastPcs
<1>5. CASE VmReadEstimate(w) BY <1>5, <1>b DEF VmReadEstimate
<1>6. CASE VmNotYet(w) BY <1>6, <1>b DEF VmNotYet
<1>7. CASE GiveUp(w)
  <2>1. pc[w] = "setReason" /\ mpc' = mpc
    BY <1>7 DEF GiveUp, SetAbortReason, memVars, memLocals
  <2>2. mpc[w] = "idle"
    BY <2>1 DEF MpcOK, MpcAt, Shape, Mpcs, LastPcs, VmPcs
  <2> QED
    BY <1>a, <2>1, <2>2
<1>8. CASE AddLazyAddresses(w)
  <2>1. /\ mpc[w] = "addLazy" /\ mpc'[w] = "ready" /\ UNCHANGED <<vars, block>>
        /\ {Tx(w).from, Tx(w).to} \subseteq lazy_addresses'
    BY <1>8 DEF AddLazyAddresses, Shape
  <2>2. MpcAt(w)'
    BY <1>d, <2>1 DEF MpcOK, MpcAt, VmPcs
  <2> QED
    BY <1>c, <2>1, <2>2 DEF LastPcs
<1>9. CASE RecordReads(w) \/ RecordRemove(w) \/ RecordInsert(w)
  <2>1. /\ mpc[w] \in {"ready", "remove", "insert"} /\ mpc'[w] \in {"remove", "insert"}
        /\ mpc[w] = "ready" => LastFree(tx[w])
        /\ UNCHANGED <<vars, block, is_lazy, lazy_addresses>>
    BY <1>9 DEF RecordReads, RecordRemove, RecordInsert, Shape
  <2>2. MpcAt(w)'
    BY <1>d, <2>1 DEF MpcOK, MpcAt, VmPcs
  <2> QED
    BY <1>c, <2>1, <2>2 DEF LastPcs
<1>12. CASE ExecuteOk(w) BY <1>12, <1>b DEF ExecuteOk
<1>13. CASE ValidateStart(w)
  <2>1. pc[w] = "validate" /\ mpc'[w] = "check" /\ LastFree(tx[w]) /\ UNCHANGED <<vars, block>>
    BY <1>13 DEF ValidateStart, Shape
  <2> QED
    BY <1>c, <1>d, <2>1 DEF MpcAt, VmPcs
<1>14. CASE ValidateCheck(w)
  <2>1. CASE mpc' = mpc /\ UNCHANGED <<vars, is_lazy>>
    <3>1. mpc[w] = "check" /\ UNCHANGED block
      BY <1>14 DEF ValidateCheck
    <3>2. MpcAt(w)'
      BY <1>d, <2>1, <3>1 DEF MpcOK, MpcAt, VmPcs
    <3> QED
      BY <1>c, <2>1, <3>1, <3>2
  <2> QED
    BY <1>14, <1>b, <2>1 DEF ValidateCheck
<1>15. CASE ValidateEnd(w) BY <1>15, <1>b DEF ValidateEnd
<1>16. CASE ConvertStart(w)
  <2>1. pc[w] = "convert" /\ mpc'[w] = "mark" /\ LastFree(tx[w]) /\ UNCHANGED <<vars, block>>
    BY <1>16 DEF ConvertStart, Shape
  <2> QED
    BY <1>c, <1>d, <2>1 DEF MpcAt, VmPcs
<1>17. CASE ConvertOne(w)
  <2>1. mpc[w] = "mark" /\ mpc' = mpc /\ UNCHANGED <<vars, block>>
    BY <1>17 DEF ConvertOne
  <2>2. MpcAt(w)'
    BY <1>d, <2>1 DEF MpcOK, MpcAt, VmPcs
  <2> QED
    BY <1>c, <2>1, <2>2
<1>18. CASE ConvertEnd(w) BY <1>18, <1>b DEF ConvertEnd
<1> QED
  BY <1>1, <1>2, <1>4, <1>5, <1>6, <1>7, <1>8, <1>9, <1>12, <1>13, <1>14, <1>15, <1>16, <1>17, <1>18 DEF LazyStep

\* The kinds of entries.
LEMMA EntryKinds ==
  /\ NoEntry.kind = "none" /\ Estimate.kind = "estimate"
  /\ \A i, x : Data(i, x).kind = "data" /\ Data(i, x).inc = i /\ Data(i, x).val = x
  BY DEF NoEntry, Estimate, Data

\* A step keeps the entries of the memory, marks or removes one, or inserts one of
\* the write set.
LEMMA EntryStep ==
  ASSUME Shape, TypeOK, NEW w \in Workers, LazyStep(w), NEW a \in Accounts, NEW t \in Txs
  PROVE  \/ data'[a][t] = data[a][t]
         \/ data'[a][t] \in {NoEntry, Estimate}
         \/ /\ RecordInsert(w) /\ a \in todo[w] /\ data'[a][t] = Data(inc[w], WriteSet(w)[a])
<1>0. tx[w] \in Txs
  BY DEF TypeOK
<1>1. CASE data' = data
  BY <1>1
<1>2. CASE RecordRemove(w)
  <2>1. ASSUME NEW l \in last_writes[tx[w]], data' = [data EXCEPT ![l][tx[w]] = NoEntry]
        PROVE  data'[a][t] \in {data[a][t], NoEntry}
    BY <1>0, <2>1 DEF Shape
  <2> QED
    BY <1>1, <1>2, <2>1 DEF RecordRemove
<1>3. CASE RecordInsert(w)
  <2>1. PICK l \in todo[w] : data' = [data EXCEPT ![l][tx[w]] = Data(inc[w], WriteSet(w)[l])]
    BY <1>3 DEF RecordInsert
  <2> QED
    BY <1>0, <1>3, <2>1 DEF Shape
<1>4. CASE ConvertOne(w)
  <2>1. PICK l \in todo[w] : data' = [data EXCEPT ![l][tx[w]] = Estimate]
    BY <1>4 DEF ConvertOne
  <2> QED
    BY <1>0, <2>1 DEF Shape
<1> QED
  BY <1>1, <1>2, <1>3, <1>4
  DEF LazyStep, memVars, shared, VmNew, VmReadFrom, VmReadTo, Got, VmReadEstimate, VmNotYet, GiveUp,
      AddLazyAddresses, RecordReads, ExecuteOk, ValidateStart, ValidateCheck, ValidateEnd, ConvertStart, ConvertEnd

-----------------------------------------------------------------------------
(* What the memory holds of a transaction *)

Marking(t) == \E w \in Workers : mpc[w] = "mark" /\ tx[w] = t
Writing(t) == \E w \in Workers : mpc[w] = "insert" /\ tx[w] = t

\* The entries of a transaction whose record is complete, of one that has none,
\* and those in between.  Everybody writes to the beneficiary.
IsData(entry, i) == entry.kind = "data" /\ entry.inc = i
Unwritten(t, a) == IF a \in last_writes[t] \cup {Coinbase} THEN Estimate ELSE NoEntry
Recorded(t) ==
  /\ Coinbase \in last_writes[t]
  /\ \A a \in Accounts : IF a \in last_writes[t] THEN IsData(data[a][t], incarnation[t])
                                                 ELSE data[a][t] = NoEntry
Marked(t) == \A a \in Accounts : data[a][t] = Unwritten(t, a)
PartlyWritten(w) ==
  LET t == tx[w]
      W == DOMAIN WriteSet(w)
  IN /\ todo[w] \subseteq W /\ W \ todo[w] \subseteq last_writes[t] /\ last_writes[t] \subseteq W
     /\ \A a \in Accounts : IF a \in W \ todo[w] THEN IsData(data[a][t], inc[w])
                                                 ELSE data[a][t] = Unwritten(t, a)
PartlyMarked(w) ==
  LET t == tx[w]
  IN /\ Coinbase \in last_writes[t] /\ todo[w] \subseteq last_writes[t]
     /\ \A a \in Accounts : IF a \in todo[w] THEN IsData(data[a][t], incarnation[t])
                                             ELSE data[a][t] = Unwritten(t, a)

EntriesOK ==
  /\ \A t \in Txs : HasRecord(t) /\ ~Marking(t) => Recorded(t)
  /\ \A t \in Txs : ~HasRecord(t) /\ ~Writing(t) => Marked(t)
  /\ \A w \in Workers : mpc[w] = "insert" => PartlyWritten(w)
  /\ \A w \in Workers : mpc[w] = "mark" => PartlyMarked(w)

\* What worker v is about to write depends on v and on the block only.
LEMMA SameWrites ==
  ASSUME NEW v \in Workers, tx'[v] = tx[v], is_lazy'[v] = is_lazy[v], got'[v] = got[v], block' = block
  PROVE  WriteSet(v)' = WriteSet(v)
<1>1. Tx(v)' = Tx(v)
  BY DEF Tx
<1> QED
  BY <1>1 DEF WriteSet

\* The executor's steps in the virtual machine and in the memory leave the
\* transactions' statuses and incarnations alone; the end of an execution
\* gives a record, the end of the conversion takes it away.
LEMMA MemFrame ==
  ASSUME TypeOK, MpcOK, Shape, NEW w \in Workers, MemStep(w)
  PROVE  /\ UNCHANGED txVars
         /\ pc[w] \in {"execute", "setReason", "validate", "convert"}
         /\ \/ pc'[w] = pc[w] /\ tx'[w] = tx[w]
            \/ pc'[w] = "finish" /\ tx'[w] = tx[w] /\ ExecuteOk(w)
            \/ pc'[w] = "setReady" /\ tx'[w] = tx[w] /\ ConvertEnd(w)
            \/ /\ pc'[w] \in {"addDep", "setReason", "postNone", "tryAbort", "finValid"}
               /\ pc[w] # "convert"
<1>a. /\ mpc[w] \in {"addLazy", "from", "to", "ready", "remove", "insert"} => pc[w] = "execute"
      /\ mpc[w] = "check" => pc[w] = "validate"
      /\ mpc[w] = "mark" => pc[w] = "convert"
  BY DEF MpcOK, MpcAt, VmPcs
<1> USE <1>a DEF TypeOK, Goto, Clear, txVars, locals, vars
<1>1. CASE VmNew(w) BY <1>1 DEF VmNew
<1>2. CASE VmReadFrom(w) \/ VmReadTo(w) BY <1>2 DEF VmReadFrom, VmReadTo, Got
<1>3. CASE VmReadEstimate(w) BY <1>3 DEF VmReadEstimate, VmBlocking
<1>4. CASE VmNotYet(w) BY <1>4 DEF VmNotYet, VmBlocking, VmFatal
<1>5. CASE GiveUp(w) BY <1>5 DEF GiveUp, SetAbortReason
<1>6. CASE AddLazyAddresses(w) BY <1>6 DEF AddLazyAddresses
<1>7. CASE RecordReads(w) BY <1>7 DEF RecordReads
<1>8. CASE RecordRemove(w) BY <1>8 DEF RecordRemove
<1>9. CASE RecordInsert(w) BY <1>9 DEF RecordInsert
<1>10. CASE ExecuteOk(w) BY <1>10 DEF ExecuteOk, VmOk
<1>11. CASE ValidateStart(w) BY <1>11 DEF ValidateStart
<1>12. CASE ValidateCheck(w) BY <1>12 DEF ValidateCheck, Validate
<1>13. CASE ValidateEnd(w) BY <1>13 DEF ValidateEnd, Validate
<1>14. CASE ConvertStart(w) BY <1>14 DEF ConvertStart
<1>15. CASE ConvertOne(w) BY <1>15 DEF ConvertOne
<1>16. CASE ConvertEnd(w) BY <1>16 DEF ConvertEnd, ConvertWrites
<1> QED
  BY <1>1, <1>2, <1>3, <1>4, <1>5, <1>6, <1>7, <1>8, <1>9, <1>10, <1>11, <1>12, <1>13, <1>14, <1>15, <1>16 DEF MemStep

\* Which transactions gain and lose their record in these steps.
LEMMA MemRecords ==
  ASSUME IInv, MpcOK, Shape, NEW w \in Workers, MemStep(w), Others(w), NEW t \in Txs
  PROVE  /\ t # tx[w] \/ ~(ExecuteOk(w) \/ ConvertEnd(w)) => (HasRecord(t)' <=> HasRecord(t))
         /\ incarnation' = incarnation
<1>0. TypeOK
  BY DEF IInv
<1>1. /\ UNCHANGED <<status, incarnation>>
      /\ pc[w] \in {"execute", "setReason", "validate", "convert"}
  BY <1>0, MemFrame DEF txVars
<1>2. CASE pc'[w] = pc[w] /\ tx'[w] = tx[w]
  BY <1>1, <1>2 DEF HasRecord, Finished, Others
<1>3. CASE ~(pc'[w] = pc[w] /\ tx'[w] = tx[w])
  <2>1. \/ pc'[w] \in {"finish", "setReady"} /\ tx'[w] = tx[w] /\ (ExecuteOk(w) \/ ConvertEnd(w))
        \/ pc'[w] \notin DonePcs \cup {"convert"} /\ pc[w] # "convert"
    BY <1>0, <1>1, <1>3, MemFrame DEF DonePcs, FinishPcs
  <2> QED
    BY <1>1, <2>1 DEF HasRecord, Finished, Others, DonePcs, FinishPcs
<1> QED
  BY <1>2, <1>3

\* Before the block, the memory holds an ESTIMATE of every reward.
LEMMA EntriesInit == LazyInit => EntriesOK
<1> SUFFICES ASSUME LazyInit PROVE EntriesOK
  OBVIOUS
<1>1. \A t \in Txs : ~HasRecord(t)
  BY DEF LazyInit, Init, HasRecord, Finished, DonePcs, FinishPcs
<1>2. \A t \in Txs : Marked(t)
  BY DEF LazyInit, Marked, Unwritten
<1> QED
  BY <1>1, <1>2 DEF LazyInit, EntriesOK

\* A step that writes no entry, gives no transaction a record or takes it away,
\* and begins no new incarnation of a transaction with a record, preserves
\* EntriesOK, if w neither writes nor marks.
LEMMA EntriesFrame ==
  ASSUME TypeOK, EntriesOK, NEW w \in Workers, Others(w), Elsewhere(w),
         UNCHANGED <<block, data, last_writes>>,
         \A t \in Txs : (HasRecord(t)' <=> HasRecord(t)) /\ (HasRecord(t) => incarnation'[t] = incarnation[t]),
         mpc[w] \notin {"insert", "mark"}, mpc'[w] \notin {"insert", "mark"},
         \A v \in Workers : mpc[v] = "mark" => HasRecord(tx[v])
  PROVE  EntriesOK'
<1>1. \A t \in Txs : (Marking(t)' <=> Marking(t)) /\ (Writing(t)' <=> Writing(t))
  BY DEF Marking, Writing, Others, Elsewhere
<1>2. ASSUME NEW t \in Txs, HasRecord(t)', ~Marking(t)' PROVE Recorded(t)'
  <2>1. HasRecord(t) /\ ~Marking(t) /\ incarnation'[t] = incarnation[t]
    BY <1>1, <1>2
  <2>2. Recorded(t)
    BY <2>1 DEF EntriesOK
  <2> QED
    BY <2>1, <2>2 DEF Recorded
<1>3. ASSUME NEW t \in Txs, ~HasRecord(t)', ~Writing(t)' PROVE Marked(t)'
  BY <1>1, <1>3 DEF EntriesOK, Marked, Unwritten
<1>4. ASSUME NEW v \in Workers, mpc'[v] = "insert" PROVE PartlyWritten(v)'
  <2>1. v # w /\ tx'[v] = tx[v] /\ inc'[v] = inc[v] /\ todo'[v] = todo[v] /\ mpc[v] = "insert"
    BY <1>4 DEF Others, Elsewhere
  <2>2. PartlyWritten(v)
    BY <2>1 DEF EntriesOK
  <2>3. WriteSet(v)' = WriteSet(v)
    BY <2>1, SameWrites DEF Elsewhere
  <2> QED
    BY <2>1, <2>2, <2>3 DEF PartlyWritten, Unwritten
<1>5. ASSUME NEW v \in Workers, mpc'[v] = "mark" PROVE PartlyMarked(v)'
  <2>1. v # w /\ tx'[v] = tx[v] /\ todo'[v] = todo[v] /\ mpc[v] = "mark"
    BY <1>5 DEF Others, Elsewhere
  <2>2. PartlyMarked(v)
    BY <2>1 DEF EntriesOK
  <2>3. tx[v] \in Txs /\ incarnation'[tx[v]] = incarnation[tx[v]]
    BY <2>1 DEF TypeOK
  <2> QED
    BY <2>1, <2>2, <2>3 DEF PartlyMarked, Unwritten
<1> QED
  BY <1>2, <1>3, <1>4, <1>5 DEF EntriesOK

\* A step of w on the entries of tx[w] alone preserves EntriesOK if it does so
\* for tx[w].
LEMMA EntriesAtOne ==
  ASSUME TypeOK, MpcOK, Shape, EntriesOK, NEW w \in Workers, Others(w), Elsewhere(w), Apart(w),
         incarnation' = incarnation, tx'[w] = tx[w], mpc[w] \in LastPcs \/ LastFree(tx[w]),
         \A t \in Txs \ {tx[w]} : HasRecord(t)' <=> HasRecord(t),
         HasRecord(tx[w])' => mpc'[w] = "mark" \/ Recorded(tx[w])',
         ~HasRecord(tx[w])' => mpc'[w] = "insert" \/ Marked(tx[w])',
         mpc'[w] = "insert" => PartlyWritten(w)',
         mpc'[w] = "mark" => PartlyMarked(w)'
  PROVE  EntriesOK'
<1>0. \A v \in Workers : tx[v] \in Txs
  BY DEF TypeOK
<1>1. \A t \in Txs \ {tx[w]} : (Marking(t)' <=> Marking(t)) /\ (Writing(t)' <=> Writing(t))
  BY DEF Marking, Writing, Others, Elsewhere
<1>2. \A v \in Workers \ {w} : mpc[v] \in LastPcs => tx[v] # tx[w]
  BY DEF MpcOK, LastIsExclusive, LastFree, LastPcs
<1>3. ASSUME NEW t \in Txs, HasRecord(t)', ~Marking(t)' PROVE Recorded(t)'
  <2>1. CASE t = tx[w]
    BY <1>3, <2>1 DEF Marking
  <2>2. CASE t # tx[w]
    <3>1. Recorded(t)
      BY <1>1, <1>3, <2>2 DEF EntriesOK
    <3> QED
      BY <2>2, <3>1 DEF Recorded, Apart
  <2> QED
    BY <2>1, <2>2
<1>4. ASSUME NEW t \in Txs, ~HasRecord(t)', ~Writing(t)' PROVE Marked(t)'
  <2>1. CASE t = tx[w]
    BY <1>4, <2>1 DEF Writing
  <2>2. CASE t # tx[w]
    <3>1. Marked(t)
      BY <1>1, <1>4, <2>2 DEF EntriesOK
    <3> QED
      BY <2>2, <3>1 DEF Marked, Unwritten, Apart
  <2> QED
    BY <2>1, <2>2
<1>5. ASSUME NEW v \in Workers, v # w, mpc'[v] = "insert" PROVE PartlyWritten(v)'
  <2>1. tx'[v] = tx[v] /\ inc'[v] = inc[v] /\ todo'[v] = todo[v] /\ mpc[v] = "insert"
    BY <1>5 DEF Others, Elsewhere
  <2>2. PartlyWritten(v)
    BY <2>1 DEF EntriesOK
  <2>3. WriteSet(v)' = WriteSet(v)
    BY <1>5, <2>1, SameWrites DEF Elsewhere, Apart
  <2>4. tx[v] \in Txs \ {tx[w]}
    BY <1>0, <1>2, <1>5, <2>1 DEF LastPcs
  <2>5. last_writes'[tx[v]] = last_writes[tx[v]] /\ \A a \in Accounts : data'[a][tx[v]] = data[a][tx[v]]
    BY <2>4 DEF Apart
  <2> QED
    BY <2>1, <2>2, <2>3, <2>5 DEF PartlyWritten, Unwritten
<1>6. ASSUME NEW v \in Workers, v # w, mpc'[v] = "mark" PROVE PartlyMarked(v)'
  <2>1. tx'[v] = tx[v] /\ todo'[v] = todo[v] /\ mpc[v] = "mark"
    BY <1>6 DEF Others, Elsewhere
  <2>2. PartlyMarked(v)
    BY <2>1 DEF EntriesOK
  <2>3. tx[v] \in Txs \ {tx[w]}
    BY <1>0, <1>2, <1>6, <2>1 DEF LastPcs
  <2>4. last_writes'[tx[v]] = last_writes[tx[v]] /\ (\A a \in Accounts : data'[a][tx[v]] = data[a][tx[v]])
    BY <2>3 DEF Apart
  <2> QED
    BY <2>1, <2>2, <2>4 DEF PartlyMarked, Unwritten
<1> QED
  BY <1>3, <1>4, <1>5, <1>6 DEF EntriesOK

\* Every step preserves EntriesOK.  This is where record and
\* convert_writes_to_estimates are shown to write all they have to write before
\* the transaction gets its new status.
LEMMA EntriesStep ==
  ASSUME IInv, Shape, MpcOK, EntriesOK, NEW w \in Workers, LazyStep(w),
         Shape', MpcOK', IInv', Elsewhere(w), Apart(w), Others(w)
  PROVE  EntriesOK'
<1>0. TypeOK /\ tx[w] \in Txs /\ block \in Blocks /\ Coinbase \in Accounts
  BY CoinbaseAssumption DEF IInv, TypeOK, Shape
<1> DEFINE t == tx[w]
<1>a. \A v \in Workers : mpc[v] = "mark" => HasRecord(tx[v])
  BY DEF MpcOK, MpcAt, HasRecord
<1>b. ASSUME MemStep(w), ~ExecuteOk(w), ~ConvertEnd(w), UNCHANGED <<block, data, last_writes>>,
             mpc[w] \notin {"insert", "mark"}, mpc'[w] \notin {"insert", "mark"}
      PROVE  EntriesOK'
  BY <1>0, <1>a, <1>b, MemRecords, EntriesFrame
<1>c. ASSUME ResetLocals(w) PROVE mpc'[w] = "idle"
  BY <1>c, ResetShape
<1>1. CASE pc[w] # "setReason" /\ WorkerStep(w) /\ UNCHANGED memVars
  <2>1. \A s \in Txs : (HasRecord(s)' <=> HasRecord(s)) /\ (HasRecord(s) => incarnation'[s] = incarnation[s])
    BY <1>1, WorkerRecords
  <2>2. mpc[w] \notin {"insert", "mark"}
    BY <1>0, <1>1, WorkerOutside DEF MpcOK, MpcAt, VmPcs
  <2> QED
    BY <1>0, <1>1, <1>a, <2>1, <2>2, EntriesFrame DEF memVars, memLocals, shared
<1>2. CASE VmNew(w) \/ VmReadFrom(w) \/ VmReadTo(w) \/ AddLazyAddresses(w) \/ RecordReads(w)
  <2>1. /\ mpc[w] \in {"idle", "from", "to", "addLazy", "ready"}
        /\ mpc'[w] \in {"addLazy", "from", "to", "ready", "remove"}
        /\ UNCHANGED <<block, data, last_writes>>
    BY <1>2 DEF VmNew, VmReadFrom, VmReadTo, Got, AddLazyAddresses, RecordReads, Shape, shared
  <2>2. MemStep(w) /\ ~ExecuteOk(w) /\ ~ConvertEnd(w)
    BY <1>2, <2>1 DEF MemStep, ExecuteOk, ConvertEnd
  <2> QED
    BY <1>b, <2>1, <2>2
<1>3. CASE VmReadEstimate(w) \/ VmNotYet(w)
  <2>1. mpc[w] \in {"from", "to"} /\ mpc'[w] = "idle" /\ UNCHANGED <<block, data, last_writes>>
    BY <1>3, <1>c DEF VmReadEstimate, VmNotYet, shared
  <2>2. MemStep(w) /\ ~ExecuteOk(w) /\ ~ConvertEnd(w)
    BY <1>3, <2>1 DEF MemStep, ExecuteOk, ConvertEnd
  <2> QED
    BY <1>b, <2>1, <2>2
<1>4. CASE GiveUp(w)
  <2>1. pc[w] = "setReason" /\ mpc' = mpc /\ UNCHANGED <<block, data, last_writes>>
    BY <1>4 DEF GiveUp, SetAbortReason, memVars, memLocals, shared
  <2>2. MemStep(w) /\ mpc[w] = "idle"
    BY <1>4, <2>1 DEF MemStep, MpcOK, MpcAt, Shape, Mpcs, VmPcs, LastPcs
  <2> QED
    BY <1>b, <2>1, <2>2 DEF ExecuteOk, ConvertEnd
<1>5. CASE RecordRemove(w) \/ RecordInsert(w) \/ ExecuteOk(w)
  <2> DEFINE W == DOMAIN WriteSet(w)
  <2>1. /\ mpc[w] \in {"remove", "insert"} /\ pc[w] = "execute"
        /\ ~HasRecord(t) /\ inc[w] = incarnation[t]
    BY <1>5, NoRecordYet DEF RecordRemove, RecordInsert, ExecuteOk, MpcOK, MpcAt, VmPcs
  <2>2. W \subseteq Accounts /\ Coinbase \in W
    BY <1>0, WritesOK
  <2>3. /\ incarnation' = incarnation /\ tx'[w] = tx[w] /\ inc'[w] = inc[w]
        /\ \A s \in Txs : s # t \/ ~ExecuteOk(w) => (HasRecord(s)' <=> HasRecord(s))
    <3>1. MemStep(w) /\ ~ConvertEnd(w)
      BY <1>5, <2>1 DEF MemStep, ConvertEnd
    <3>2. /\ incarnation' = incarnation
          /\ \A s \in Txs : s # t \/ ~ExecuteOk(w) => (HasRecord(s)' <=> HasRecord(s))
      <4>1. \A s \in Txs : /\ s # tx[w] \/ ~(ExecuteOk(w) \/ ConvertEnd(w)) => (HasRecord(s)' <=> HasRecord(s))
                           /\ incarnation' = incarnation
        BY <3>1, MemRecords
      <4> QED
        BY <1>0, <3>1, <4>1
    <3>3. tx'[w] = tx[w] /\ inc'[w] = inc[w]
      BY <1>5 DEF RecordRemove, RecordInsert, ExecuteOk, VmOk, vars, locals
    <3> QED
      BY <3>2, <3>3
  <2>4. CASE RecordRemove(w)
    <3>1. mpc[w] = "remove" /\ UNCHANGED <<vars, block, is_lazy, got>>
      BY <2>4 DEF RecordRemove
    <3>2. WriteSet(w)' = WriteSet(w) /\ ~HasRecord(t)'
      <4>1. WriteSet(w)' = WriteSet(w)
        BY <3>1, <2>3, SameWrites
      <4> QED
        BY <1>0, <2>1, <2>3, <3>1, <4>1 DEF ExecuteOk
    <3>3. Marked(t)
      BY <1>0, <2>1, <3>1 DEF EntriesOK, Writing, MpcOK, LastIsExclusive, LastPcs
    <3> HIDE DEF W
    <3>4. ASSUME NEW l \in last_writes[t] \ W, mpc' = mpc,
                 data' = [data EXCEPT ![l][t] = NoEntry],
                 last_writes' = [last_writes EXCEPT ![t] = @ \ {l}]
          PROVE  EntriesOK'
      <4>1. last_writes'[t] = last_writes[t] \ {l} /\ l \in Accounts
            /\ \A k \in Accounts : data'[k][t] = IF k = l THEN NoEntry ELSE data[k][t]
        BY <1>0, <3>4 DEF Shape
      <4>2. l # Coinbase
        BY <2>2
      <4>3. Marked(t)'
        BY <2>3, <3>3, <4>1, <4>2 DEF Marked, Unwritten
      <4> QED
        BY <1>0, <2>1, <2>3, <3>1, <3>2, <3>4, <4>3, EntriesAtOne DEF LastPcs
    <3>5. ASSUME last_writes[t] \ W = {}, todo' = [todo EXCEPT ![w] = W],
                 mpc' = [mpc EXCEPT ![w] = "insert"], UNCHANGED <<data, last_writes>>
          PROVE  EntriesOK'
      <4>1. todo'[w] = W /\ mpc'[w] = "insert"
        BY <3>5 DEF Shape
      <4>2. PartlyWritten(w)'
        <5>1. DOMAIN WriteSet(w)' = W /\ tx'[w] = t
          BY <2>3, <3>2 DEF W
        <5> QED
          BY <3>3, <3>5, <4>1, <5>1 DEF PartlyWritten, Marked, Unwritten
      <4> QED
        BY <1>0, <2>1, <2>3, <3>1, <3>2, <4>1, <4>2, EntriesAtOne DEF LastPcs
    <3> QED
      BY <2>4, <3>4, <3>5 DEF RecordRemove, W
  <2>5. CASE RecordInsert(w)
    <3>1. mpc[w] = "insert" /\ UNCHANGED <<vars, block, is_lazy, got, mpc>>
      BY <2>5 DEF RecordInsert
    <3>2. WriteSet(w)' = WriteSet(w) /\ ~HasRecord(t)'
      <4>1. WriteSet(w)' = WriteSet(w)
        BY <3>1, <2>3, SameWrites
      <4>2. UNCHANGED <<pc, tx, status>>
        BY <3>1 DEF vars, txVars, locals
      <4> QED
        BY <2>1, <4>1, <4>2 DEF HasRecord, Finished
    <3>3. PartlyWritten(w)
      BY <3>1 DEF EntriesOK
    <3>4. PICK l \in todo[w] :
            /\ data' = [data EXCEPT ![l][t] = Data(inc[w], WriteSet(w)[l])]
            /\ last_writes' = [last_writes EXCEPT ![t] = @ \cup {l}]
            /\ todo' = [todo EXCEPT ![w] = @ \ {l}]
      BY <2>5 DEF RecordInsert
    <3>5. /\ l \in Accounts /\ last_writes'[t] = last_writes[t] \cup {l} /\ todo'[w] = todo[w] \ {l}
          /\ \A k \in Accounts : data'[k][t] = IF k = l THEN Data(inc[w], WriteSet(w)[l]) ELSE data[k][t]
      BY <1>0, <3>4 DEF Shape
    <3>6. PartlyWritten(w)'
      <4>1. /\ todo[w] \subseteq W /\ W \ todo[w] \subseteq last_writes[t] /\ last_writes[t] \subseteq W
            /\ \A k \in Accounts : IF k \in W \ todo[w] THEN IsData(data[k][t], inc[w])
                                                        ELSE data[k][t] = Unwritten(t, k)
        BY <3>3 DEF PartlyWritten
      <4>2. DOMAIN WriteSet(w)' = W /\ tx'[w] = t /\ inc'[w] = inc[w]
        BY <2>3, <3>2
      <4> HIDE DEF W, t
      <4>3. /\ todo'[w] \subseteq W /\ W \ todo'[w] \subseteq last_writes'[t] /\ last_writes'[t] \subseteq W
        BY <3>4, <3>5, <4>1
      <4>4. ASSUME NEW k \in Accounts
            PROVE  IF k \in W \ todo'[w] THEN IsData(data'[k][t], inc[w])
                   ELSE data'[k][t] = IF k \in last_writes'[t] \cup {Coinbase} THEN Estimate ELSE NoEntry
        <5>1. CASE k = l
          <6>1. k \in W \ todo'[w] /\ data'[k][t] = Data(inc[w], WriteSet(w)[l])
            BY <3>4, <3>5, <4>1, <5>1
          <6> QED
            BY <6>1, EntryKinds DEF IsData
        <5>2. CASE k # l
          <6>1. /\ data'[k][t] = data[k][t] /\ (k \in todo'[w] <=> k \in todo[w])
                /\ (k \in last_writes'[t] <=> k \in last_writes[t])
            BY <3>5, <5>2
          <6> QED
            BY <4>1, <6>1 DEF Unwritten
        <5> QED
          BY <5>1, <5>2
      <4> QED
        BY <4>2, <4>3, <4>4 DEF PartlyWritten, Unwritten
    <3> QED
      BY <1>0, <2>1, <2>3, <3>1, <3>2, <3>6, EntriesAtOne DEF LastPcs
  <2>6. CASE ExecuteOk(w)
    <3>1. mpc[w] = "insert" /\ todo[w] = {} /\ mpc'[w] = "idle" /\ pc'[w] = "finish"
          /\ UNCHANGED <<block, data, last_writes>>
      BY <1>0, <1>c, <2>6 DEF ExecuteOk, VmOk, Goto, Shape, TypeOK
    <3>2. HasRecord(t)'
      BY <2>3, <3>1 DEF HasRecord, DonePcs
    <3>3. PartlyWritten(w)
      BY <3>1 DEF EntriesOK
    <3>5. Recorded(t)'
      BY <2>1, <2>2, <2>3, <3>1, <3>3 DEF Recorded, PartlyWritten, Unwritten
    <3> QED
      BY <1>0, <2>1, <2>3, <3>1, <3>2, <3>5, EntriesAtOne DEF LastPcs
  <2> QED
    BY <1>5, <2>4, <2>5, <2>6
<1>6. CASE ValidateStart(w) \/ ValidateCheck(w) \/ ValidateEnd(w)
  <2>1. mpc[w] \in {"idle", "check"} /\ mpc'[w] \in {"idle", "check"} /\ UNCHANGED <<block, data, last_writes>>
    BY <1>6, <1>c DEF ValidateStart, ValidateCheck, ValidateEnd, Shape, shared
  <2>2. MemStep(w) /\ ~ExecuteOk(w) /\ ~ConvertEnd(w)
    BY <1>6, <2>1 DEF MemStep, ExecuteOk, ConvertEnd
  <2> QED
    BY <1>b, <2>1, <2>2
<1>7. CASE ConvertStart(w) \/ ConvertOne(w) \/ ConvertEnd(w)
  <2>1. pc[w] = "convert" /\ HasRecord(t)
    BY <1>7 DEF ConvertStart, ConvertOne, ConvertEnd, MpcOK, MpcAt, HasRecord
  <2>2. MemStep(w) /\ ~ExecuteOk(w)
    BY <1>7, <2>1 DEF MemStep, ExecuteOk, VmOk
  <2>3. /\ incarnation' = incarnation /\ tx'[w] = tx[w]
        /\ \A s \in Txs : s # t \/ ~ConvertEnd(w) => (HasRecord(s)' <=> HasRecord(s))
    <3>1. \A s \in Txs : /\ s # tx[w] \/ ~(ExecuteOk(w) \/ ConvertEnd(w)) => (HasRecord(s)' <=> HasRecord(s))
                         /\ incarnation' = incarnation
      BY <2>2, MemRecords
    <3>2. tx'[w] = tx[w]
      BY <1>7 DEF ConvertStart, ConvertOne, ConvertEnd, ConvertWrites, vars, locals
    <3> QED
      BY <1>0, <2>2, <3>1, <3>2
  <2>4. CASE ConvertStart(w)
    <3>1. /\ mpc[w] = "idle" /\ mpc'[w] = "mark" /\ LastFree(t) /\ todo'[w] = last_writes[t]
          /\ UNCHANGED <<block, data, last_writes>>
      BY <2>4 DEF ConvertStart, Shape, shared
    <3>2. Recorded(t)
      BY <1>0, <2>1, <3>1 DEF EntriesOK, Marking, LastFree
    <3>3. last_writes[t] \subseteq Accounts
      BY <1>0 DEF Shape
    <3>4. PartlyMarked(w)'
      BY <2>3, <3>1, <3>2, <3>3 DEF PartlyMarked, Recorded, Unwritten
    <3>5. HasRecord(t)'
      BY <1>0, <2>1, <2>3, <3>1 DEF ConvertEnd
    <3> QED
      BY <1>0, <2>1, <2>3, <3>1, <3>4, <3>5, EntriesAtOne
  <2>5. CASE ConvertOne(w)
    <3>1. mpc[w] = "mark" /\ mpc'[w] = "mark" /\ UNCHANGED <<vars, block, last_writes>>
      BY <2>5 DEF ConvertOne, Shape
    <3>2. PICK l \in todo[w] : data' = [data EXCEPT ![l][t] = Estimate] /\ todo' = [todo EXCEPT ![w] = @ \ {l}]
      BY <2>5 DEF ConvertOne
    <3>3. /\ l \in Accounts /\ todo'[w] = todo[w] \ {l}
          /\ \A k \in Accounts : data'[k][t] = IF k = l THEN Estimate ELSE data[k][t]
      BY <1>0, <3>2 DEF Shape
    <3>4. PartlyMarked(w) /\ todo[w] \subseteq Accounts
      BY <3>1 DEF EntriesOK, Shape
    <3>5. PartlyMarked(w)'
      BY <2>3, <3>1, <3>2, <3>3, <3>4 DEF PartlyMarked, Unwritten
    <3>6. HasRecord(t)'
      BY <1>0, <2>1, <2>3, <3>1 DEF HasRecord, vars, locals
    <3> QED
      BY <1>0, <2>1, <2>3, <3>1, <3>5, <3>6, EntriesAtOne DEF LastPcs
  <2>6. CASE ConvertEnd(w)
    <3>1. mpc[w] = "mark" /\ todo[w] = {} /\ mpc'[w] = "idle" /\ UNCHANGED <<block, data, last_writes>> /\ pc'[w] = "setReady"
      BY <1>0, <1>c, <2>6 DEF ConvertEnd, ConvertWrites, Goto, TypeOK, shared
    <3>2. ~HasRecord(t)'
      <4>1. /\ status'[t] = "Aborting" /\ \A u \in Workers : Aborts(u, t)' => u = w
            /\ \A v \in Workers : pc'[v] \in ExecutingPcs => status'[tx'[v]] = "Executing"
        BY <1>0, <2>3, <3>1 DEF IInv, ExclusiveExecution, ExecutorOwns, ResumedExactlyOnce, ResumersAreUnique, AbortPcs, Aborts
      <4> QED
        BY <2>3, <3>1, <4>1 DEF HasRecord, Finished, DonePcs, FinishPcs, ExecutingPcs, ExecutePcs, Aborts, AbortPcs
    <3>3. PartlyMarked(w)
      BY <3>1 DEF EntriesOK
    <3>4. Marked(t)'
      BY <2>3, <3>1, <3>3 DEF PartlyMarked, Marked, Unwritten
    <3> QED
      BY <1>0, <2>1, <2>3, <3>1, <3>2, <3>4, EntriesAtOne DEF LastPcs
  <2> QED
    BY <1>7, <2>4, <2>5, <2>6
<1> QED
  BY <1>1, <1>2, <1>3, <1>4, <1>5, <1>6, <1>7 DEF LazyStep

\* Only addresses that are registered get amounts.
LEMMA ListedStep ==
  ASSUME TypeOK, Shape, MpcOK, EntriesOK, LazyIsListed, NEW w \in Workers, LazyStep(w), Apart(w)
  PROVE  LazyIsListed'
<1> SUFFICES ASSUME NEW a \in Accounts, NEW t \in Txs,
                    data'[a][t].kind = "data", data'[a][t].val.type # "Basic"
             PROVE  a \in lazy_addresses'
  BY DEF LazyIsListed
<1>1. lazy_addresses \subseteq lazy_addresses'
  BY DEF Apart
<1>2. CASE data'[a][t] = data[a][t]
  BY <1>1, <1>2 DEF LazyIsListed
<1>3. CASE data'[a][t] \in {NoEntry, Estimate}
  BY <1>3, EntryKinds
<1>4. CASE RecordInsert(w) /\ a \in todo[w] /\ data'[a][t] = Data(inc[w], WriteSet(w)[a])
  <2>1. mpc[w] = "insert" /\ block \in Blocks
    BY <1>4 DEF RecordInsert, Shape
  <2>2. a \in DOMAIN WriteSet(w)
    BY <1>4, <2>1 DEF EntriesOK, PartlyWritten
  <2>3. WriteSet(w)[a].type # "Basic"
    BY <1>4, EntryKinds
  <2>4. a = Coinbase \/ (is_lazy[w] /\ a \in {Tx(w).from, Tx(w).to})
    BY <2>1, <2>2, <2>3, WritesOK
  <2> QED
    BY <1>1, <2>1, <2>4 DEF MpcOK, MpcAt
<1> QED
  BY <1>2, <1>3, <1>4, EntryStep

-----------------------------------------------------------------------------
(* The invariant and what follows from it *)

LInv == IInv /\ Shape /\ MpcOK /\ EntriesOK /\ LazyIsListed

\* A step of a worker preserves the invariant.
LEMMA LInvWorker ==
  ASSUME LInv, NEW w \in Workers, LazyStep(w)
  PROVE  LInv'
<1>1. IInv /\ Shape /\ MpcOK /\ EntriesOK /\ TypeOK /\ LazyIsListed
  BY DEF LInv, IInv
<1>2. IInv' /\ Others(w)
  BY <1>1, LazyKeepsIInv
<1>3. Shape' /\ Elsewhere(w) /\ Apart(w)
  BY <1>1, ShapeStep
<1>4. MpcOK'
  BY <1>1, <1>2, <1>3, MpcStep
<1>5. EntriesOK'
  BY <1>1, <1>2, <1>3, <1>4, EntriesStep
<1>6. LazyIsListed'
  BY <1>1, <1>3, ListedStep
<1> QED
  BY <1>2, <1>3, <1>4, <1>5, <1>6 DEF LInv

\* So does a step that changes nothing.
LEMMA LInvStutter == LInv /\ UNCHANGED lazyVars => LInv'
<1> SUFFICES ASSUME LInv, UNCHANGED lazyVars PROVE LInv'
  OBVIOUS
<1>1. IInv'
  BY StutterIInv DEF LInv, lazyVars
<1>2. UNCHANGED <<block, data, keys, lazy_addresses, last_writes, mpc, is_lazy, got, todo>>
      /\ UNCHANGED <<status, incarnation, pc, tx, inc>>
  BY DEF lazyVars, memVars, memLocals, shared, vars, txVars, locals
<1>3. \A w \in Workers : Tx(w)' = Tx(w) /\ WriteSet(w)' = WriteSet(w)
  <2> TAKE w \in Workers
  <2>1. WriteSet(w)' = WriteSet(w)
    BY <1>2, SameWrites
  <2> QED
    BY <1>2, <2>1 DEF Tx
<1>4. Shape'
  BY <1>2 DEF LInv, Shape
<1>5. MpcOK'
  BY <1>2, <1>3 DEF LInv, MpcOK, MpcAt, LastIsExclusive
<1>6. EntriesOK'
  <2>1. \A t \in Txs : /\ HasRecord(t)' <=> HasRecord(t)
                       /\ Marking(t)' <=> Marking(t)
                       /\ Writing(t)' <=> Writing(t)
    BY <1>2 DEF HasRecord, Finished, Marking, Writing
  <2>2. \A t \in Txs : (Recorded(t)' <=> Recorded(t)) /\ (Marked(t)' <=> Marked(t))
    BY <1>2 DEF Recorded, Marked, Unwritten
  <2>3. \A w \in Workers : PartlyWritten(w) => PartlyWritten(w)'
    BY <1>2, <1>3 DEF PartlyWritten, Unwritten
  <2>4. \A w \in Workers : PartlyMarked(w) => PartlyMarked(w)'
    BY <1>2 DEF PartlyMarked, Unwritten
  <2> QED
    BY <1>2, <2>1, <2>2, <2>3, <2>4 DEF LInv, EntriesOK
<1>7. LazyIsListed'
  BY <1>2 DEF LInv, LazyIsListed
<1> QED
  BY <1>1, <1>4, <1>5, <1>6, <1>7 DEF LInv

\* Whatever the block and the interleaving, and whichever transfers are lazy,
\* the memory holds of a transaction the entries of its current incarnation,
\* ESTIMATEs, or a known mixture while record or convert_writes_to_estimates is
\* at work; the addresses of the amounts among them are registered.
THEOREM LazyInvariance == LazySpec => []LInv
<1>1. LazyInit => LInv
  <2> SUFFICES ASSUME LazyInit PROVE LInv
    OBVIOUS
  <2>1. LazyIsListed
    BY EntryKinds DEF LazyInit, LazyIsListed
  <2> QED
    BY <2>1, ShapeInit, EntriesInit, InitIInv DEF LazyInit, LInv
<1>2. LInv /\ [LazyNext]_lazyVars => LInv'
  <2> SUFFICES ASSUME LInv, [LazyNext]_lazyVars PROVE LInv'
    OBVIOUS
  <2>1. ASSUME NEW w \in Workers, LazyStep(w) PROVE LInv'
    BY <2>1, LInvWorker
  <2>2. CASE UNCHANGED lazyVars
    BY <2>2, LInvStutter
  <2> QED
    BY <2>1, <2>2 DEF LazyNext, Joined, lazyVars
<1> QED
  BY <1>1, <1>2, PTL DEF LazySpec

\* add_lazy_addresses comes before record, so that the evaluation after the join
\* overlooks no amount, also when a later incarnation is not lazy any more.
THEOREM LazyIsListedHolds == LazySpec => []LazyIsListed
  BY LazyInvariance, PTL DEF LInv

\* A finished transaction has a complete record.
LEMMA FinishedHasRecord ==
  ASSUME LInv, NEW t \in Txs, Finished(t)
  PROVE  Recorded(t)
<1>1. HasRecord(t)
  BY DEF HasRecord
<1>2. ~Marking(t)
  BY DEF LInv, MpcOK, MpcAt, Marking, IInv, ResumedExactlyOnce, ResumersAreUnique, Aborts, AbortPcs, Finished
<1> QED
  BY <1>1, <1>2 DEF LInv, EntriesOK

\* The unreachable!() of the evaluation is not reached: the last incarnation of
\* every transaction has recorded all it writes, and removed what earlier ones,
\* lazy or not, had written elsewhere.
THEOREM NoEstimateIsLeftHolds == LazySpec => []NoEstimateIsLeft
<1>1. LInv => NoEstimateIsLeft
  <2> SUFFICES ASSUME LInv, AllExited, ~aborted, NEW a \in Accounts, NEW t \in Txs
               PROVE  data[a][t].kind # "estimate"
    BY DEF NoEstimateIsLeft
  <2>1. Finished(t)
    BY TotalFromIInv DEF LInv, CompletionIsTotal, Finished
  <2>2. Recorded(t)
    BY <2>1, FinishedHasRecord
  <2> QED
    BY <2>2, EntryKinds DEF Recorded, IsData
<1> QED
  BY <1>1, LazyInvariance, PTL
=============================================================================
