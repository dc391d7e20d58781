-------------------------- MODULE PexeSerialProofs --------------------------
(***************************************************************************)
(* Why the parallel executor is serializable, for every block whose        *)
(* transactions keep to VmKeeps, every set of workers and of locations:    *)
(* every value that an execution used is still what its origin wrote, or   *)
(* the origin has moved on; a read whose origin has moved on is validated  *)
(* again before the workers leave; so that in the end every transaction    *)
(* has read what sequential execution reads.  And execute_revm_parallel    *)
(* implements BlockExecution: it returns once, and it returns what         *)
(* execute_revm_sequential makes of the block.                             *)
(***************************************************************************)
EXTENDS PexeProofs

-----------------------------------------------------------------------------
(* The entries that a read finds *)

\* The greatest element of a nonempty set of transactions.
LEMMA MaxOfTxs ==
  ASSUME NEW S \in SUBSET Txs, S # {}
  PROVE  Max(S) \in S /\ \A v \in S : v <= Max(S)
<1> DEFINE D == {BlockSize - u : u \in S}
<1>0. \A u \in S : u \in Int /\ BlockSize - u \in Nat
  BY BlockSizeAssumption DEF Txs
<1>1. D \in SUBSET Nat /\ D # {}
  <2>1. D \subseteq Nat
    BY <1>0
  <2>2. PICK u \in S : TRUE
    OBVIOUS
  <2>3. BlockSize - u \in D
    OBVIOUS
  <2> QED
    BY <2>1, <2>3
<1>2. PICK m \in D : \A n \in D : ~(n < m)
  BY <1>1, Least
<1>3. PICK u \in S : m = BlockSize - u
  OBVIOUS
<1>4. \A v \in S : u >= v
  <2> SUFFICES ASSUME NEW v \in S PROVE u >= v
    OBVIOUS
  <2>1. ~(BlockSize - v < BlockSize - u)
    BY <1>2, <1>3
  <2> QED
    BY <2>1, BlockSizeAssumption DEF Txs
<1>5. Max(S) \in S /\ \A v \in S : Max(S) >= v
  BY <1>4 DEF Max
<1> QED
  BY <1>0, <1>5

\* An entry is nothing, an ESTIMATE, or data of the current incarnation.
LEMMA EntryIsCurrent ==
  ASSUME MInv, NEW l \in Locations, NEW t \in Txs
  PROVE  /\ data[l][t].kind \in {"none", "estimate", "data"}
         /\ data[l][t].kind = "data" => data[l][t].inc = incarnation[t]
<1> USE EntryKinds
<1>1. CASE HasRecord(t) /\ ~Marking(t)
  BY <1>1 DEF MInv, EntriesOK, Recorded
<1>2. CASE ~HasRecord(t) /\ ~Writing(t)
  BY <1>2 DEF MInv, EntriesOK, Marked
<1>3. CASE Writing(t)
  <2>1. PICK w \in Workers : mpc[w] = "insert" /\ tx[w] = t
    BY <1>3 DEF Writing
  <2>2. PartlyWritten(w) /\ inc[w] = incarnation[t]
    BY <2>1, NoRecordYet DEF MInv, EntriesOK, MpcOK, MpcAt
  <2> QED
    BY <2>1, <2>2 DEF PartlyWritten
<1>4. CASE Marking(t)
  <2>1. PICK w \in Workers : mpc[w] = "mark" /\ tx[w] = t
    BY <1>4 DEF Marking
  <2>2. PartlyMarked(w)
    BY <2>1 DEF MInv, EntriesOK
  <2> QED
    BY <2>1, <2>2 DEF PartlyMarked
<1> QED
  BY <1>1, <1>2, <1>3, <1>4

\* What a read at t finds: no entry below, or the highest one.
LEMMA ClosestFacts ==
  ASSUME NEW l \in Locations, NEW t \in 0 .. BlockSize, Writers(l, t) # {}
  PROVE  LET u == Max(Writers(l, t))
         IN /\ u \in Txs /\ u < t /\ data[l][u].kind # "none"
            /\ \A v \in Txs : v < t /\ data[l][v].kind # "none" => v <= u
  BY MaxOfTxs DEF Writers

-----------------------------------------------------------------------------
(* What executions have read *)

\* The origin of a read: an incarnation that u has reached, and while u is at
\* it, its entry stands unless u is being aborted.
Past(u, i, l) ==
  /\ i <= incarnation[u]
  /\ i = incarnation[u] => data[l][u].kind = "data" \/ status[u] = "Aborting"
OriginOK(o, l, t) ==
  o \in {Unread, FromStorage} \/ \E u \in Txs : \E i \in Nat : o = FromTx(u, i) /\ u < t /\ Past(u, i, l)

\* The value read is the one in storage, or the one that the origin wrote, as
\* long as that is still in the memory.
Agrees(o, l, x) ==
  /\ o # Unread
  /\ o = FromStorage => x = Initially(l)
  /\ \A u \in Txs : o = FromTx(u, incarnation[u]) /\ data[l][u].kind = "data" => data[l][u].val = x

\* The reads rds explain the values v: each is what the transaction asked for
\* after the ones before it.
Prefix(v, n) == [j \in 1 .. n |-> v[j]]
Asked(t, v, j) == Behaviour(block[t], t, Prefix(v, j - 1))
Explains(rds, v, t) ==
  \A j \in 1 .. Len(v) :
    /\ Asked(t, v, j).op = "read"
    /\ Agrees(rds[Asked(t, v, j).loc], Asked(t, v, j).loc, v[j])

ReadsOK ==
  /\ \A w \in Workers, l \in Locations : OriginOK(reads[w][l], l, tx[w])
  /\ \A t \in Txs, l \in Locations : OriginOK(last_reads[t][l], l, t)
  /\ \A w \in Workers : Explains(reads[w], vals[w], tx[w])
  /\ \A t \in Txs : HasRecord(t) => Explains(last_reads[t], results[t], t)

\* The three kinds of origins differ.
LEMMA OriginKinds ==
  /\ Unread # FromStorage
  /\ \A u, i : FromTx(u, i) \notin {Unread, FromStorage}
  /\ \A u, i, v, j : FromTx(u, i) = FromTx(v, j) => u = v /\ i = j
<1>1. Unread.from = "none" /\ FromStorage.from = "storage" /\ \A u, i : FromTx(u, i).from = "tx"
  BY DEF Unread, FromStorage, FromTx
<1>2. \A u, i : FromTx(u, i).tx = u /\ FromTx(u, i).inc = i
  BY DEF FromTx
<1> QED
  BY <1>1, <1>2

\* A step changes an entry only if it is not data, or turns it into an
\* ESTIMATE when its transaction is being aborted.
Kept(l, u) == data'[l][u] = data[l][u]
LEMMA EntryStep ==
  ASSUME MInv, NEW w \in Workers, PexeStep(w), Apart(w), NEW l \in Locations, NEW u \in Txs
  PROVE  \/ Kept(l, u)
         \/ /\ u = tx[w] /\ pc[w] = "execute" /\ mpc[w] = "remove"
            /\ data[l][u].kind = "estimate" /\ data'[l][u].kind = "none"
         \/ /\ u = tx[w] /\ pc[w] = "execute" /\ mpc[w] = "insert" /\ mpc' = mpc /\ tx' = tx
            /\ data[l][u].kind \in {"none", "estimate"} /\ data'[l][u].kind = "data"
            /\ data[l][u].kind = "none" => wrote'[w]
         \/ /\ u = tx[w] /\ pc[w] = "convert" /\ UNCHANGED vars
            /\ data[l][u].kind = "data" /\ data'[l][u].kind = "estimate"
<1>0. TypeOK /\ Shape /\ MpcOK /\ EntriesOK /\ tx[w] \in Txs
  BY DEF MInv, IInv, TypeOK
<1>1. CASE u # tx[w]
  BY <1>1 DEF Apart, Kept
<1>2. CASE data' = data
  BY <1>2 DEF Kept
<1>3. CASE RecordRemove(w) /\ u = tx[w]
  <2>1. mpc[w] = "remove" /\ pc[w] = "execute"
    BY <1>0, <1>3 DEF RecordRemove, MpcOK, MpcAt
  <2>2. Marked(u)
    BY <1>0, <1>3, <2>1, NoRecordYet DEF MInv, EntriesOK, Writing, MpcOK, LastIsExclusive
  <2>3. ASSUME data' # data
        PROVE  \E k \in last_writes[u] : data' = [data EXCEPT ![k][u] = NoEntry]
    BY <1>3, <2>3 DEF RecordRemove
  <2>4. CASE data' # data
    <3>1. PICK k \in last_writes[u] : data' = [data EXCEPT ![k][u] = NoEntry]
      BY <2>3, <2>4
    <3>2. k \in Locations
      BY <1>0 DEF Shape
    <3>3. data'[l][u] = IF l = k THEN NoEntry ELSE data[l][u]
      BY <1>0, <3>1, <3>2 DEF Shape
    <3>4. l = k => data[l][u] = Estimate
      BY <2>2, <3>1 DEF Marked
    <3> QED
      BY <1>3, <2>1, <3>3, <3>4, EntryKinds DEF Kept
  <2> QED
    BY <1>2, <2>4
<1>4. CASE RecordInsert(w) /\ u = tx[w]
  <2>1. mpc[w] = "insert" /\ pc[w] = "execute" /\ PartlyWritten(w) /\ mpc' = mpc /\ tx' = tx
    BY <1>0, <1>4 DEF RecordInsert, MpcOK, MpcAt, EntriesOK, vars, locals
  <2>2. PICK k \in todo[w] :
          /\ data' = [data EXCEPT ![k][u] = Data(inc[w], Now(w).writes[k])]
          /\ wrote' = [wrote EXCEPT ![w] = @ \/ k \notin last_writes[u]]
    BY <1>4 DEF RecordInsert
  <2>3. k \in Locations
    BY <1>0 DEF Shape
  <2>4. data'[l][u] = IF l = k THEN Data(inc[w], Now(w).writes[k]) ELSE data[l][u]
    BY <1>0, <2>2, <2>3 DEF Shape
  <2>5. data[k][u] = IF k \in last_writes[u] \cup Est(u) THEN Estimate ELSE NoEntry
    BY <1>4, <2>1, <2>2, <2>3 DEF PartlyWritten
  <2>6. wrote'[w] = (wrote[w] \/ k \notin last_writes[u])
    BY <1>0, <2>2 DEF Shape
  <2>7. CASE k # l
    BY <2>4, <2>7 DEF Kept
  <2>8. CASE k = l
    <3>1. data'[l][u].kind = "data"
      BY <2>4, <2>8, EntryKinds
    <3>2. data[l][u].kind \in {"none", "estimate"} /\ (data[l][u].kind = "none" => l \notin last_writes[u])
      BY <2>5, <2>8, EntryKinds
    <3> QED
      BY <1>4, <2>1, <2>6, <2>8, <3>1, <3>2
  <2> QED
    BY <2>7, <2>8
<1>5. CASE ConvertOne(w) /\ u = tx[w]
  <2>1. mpc[w] = "mark" /\ pc[w] = "convert" /\ PartlyMarked(w) /\ UNCHANGED vars
    BY <1>0, <1>5 DEF ConvertOne, MpcOK, MpcAt, EntriesOK
  <2>2. PICK k \in todo[w] : data' = [data EXCEPT ![k][u] = Estimate]
    BY <1>5 DEF ConvertOne
  <2>3. k \in Locations
    BY <1>0 DEF Shape
  <2>4. data'[l][u] = IF l = k THEN Estimate ELSE data[l][u]
    BY <1>0, <2>2, <2>3 DEF Shape
  <2>5. data[k][u].kind = "data"
    BY <1>5, <2>1, <2>2, EntryKinds DEF PartlyMarked
  <2> QED
    BY <1>5, <2>1, <2>4, <2>5, EntryKinds DEF Kept
<1> QED
  BY <1>1, <1>2, <1>3, <1>4, <1>5 DEF PexeStep, memVars, shared, VmRead, VmReadInconsistent, VmReadEstimate, VmNotYet, VmStop,
     GiveUp, RecordReads, ExecuteOk, ValidateStart, ValidateCheck, ValidateEnd, ConvertStart, ConvertEnd

\* An execution's transaction, and its status.
LEMMA ExecutingStatus ==
  ASSUME MInv, NEW w \in Workers
  PROVE  /\ tx[w] \in Txs
         /\ pc[w] = "execute" => status[tx[w]] = "Executing"
         /\ pc[w] = "convert" => status[tx[w]] = "Aborting"
  BY DEF MInv, IInv, TypeOK, ExclusiveExecution, ExecutorOwns, ResumedExactlyOnce, ResumersAreUnique,
         AbortPcs, Aborts, ExecutingPcs, ExecutePcs

\* What was an origin stays one, and while its transaction is at that
\* incarnation the entry, if it is there, is the one that was read.
LEMMA PastStays ==
  ASSUME VmContract, MInv, NEW w \in Workers, PexeStep(w),
         NEW l \in Locations, NEW u \in Txs, NEW i \in Nat, Past(u, i, l)
  PROVE  /\ Past(u, i, l)'
         /\ i = incarnation'[u] /\ data'[l][u].kind = "data" =>
              data'[l][u] = data[l][u] /\ i = incarnation[u]
<1>1. Apart(w) /\ Moves(u)
  BY MInvWorker
<1>2. incarnation[u] \in Nat /\ tx[w] \in Txs
  BY DEF MInv, IInv, TypeOK
<1>3. CASE i < incarnation[u]
  BY <1>1, <1>2, <1>3 DEF Past, Moves
<1>4. CASE i = incarnation[u]
  <2>1. data[l][u].kind = "data" \/ status[u] = "Aborting"
    BY <1>4 DEF Past
  <2>2. CASE Kept(l, u)
    BY <1>1, <1>2, <1>4, <2>1, <2>2 DEF Past, Moves, Kept
  <2>3. CASE pc[w] = "execute" /\ u = tx[w] /\ data[l][u].kind # "data"
    BY <2>1, <2>3, ExecutingStatus
  <2>4. CASE u = tx[w] /\ pc[w] = "convert" /\ UNCHANGED vars /\ data'[l][u].kind = "estimate"
    <3>1. status[u] = "Aborting"
      BY <2>4, ExecutingStatus
    <3> QED
      BY <1>4, <2>4, <3>1 DEF Past, vars, txVars
  <2> QED
    BY <1>1, <2>2, <2>3, <2>4, EntryStep
<1> QED
  BY <1>2, <1>3, <1>4 DEF Past

\* So that the explanation of what an execution has read stands.
LEMMA OriginStays ==
  ASSUME VmContract, MInv, NEW w \in Workers, PexeStep(w), NEW l \in Locations, NEW t, NEW o, OriginOK(o, l, t)
  PROVE  /\ OriginOK(o, l, t)'
         /\ \A x : Agrees(o, l, x) => Agrees(o, l, x)'
<1>1. CASE o \in {Unread, FromStorage}
  <2>1. OriginOK(o, l, t)'
    BY <1>1 DEF OriginOK
  <2>2. \A u \in Txs : o # FromTx(u, incarnation[u]) /\ o # FromTx(u, incarnation'[u])
    BY <1>1, OriginKinds
  <2> QED
    BY <2>1, <2>2 DEF Agrees
<1>2. ASSUME NEW u \in Txs, NEW i \in Nat, o = FromTx(u, i), u < t, Past(u, i, l)
      PROVE  OriginOK(o, l, t)' /\ \A x : Agrees(o, l, x) => Agrees(o, l, x)'
  <2>1. /\ Past(u, i, l)'
        /\ i = incarnation'[u] /\ data'[l][u].kind = "data" => data'[l][u] = data[l][u] /\ i = incarnation[u]
    BY <1>2, PastStays
  <2>2. OriginOK(o, l, t)'
    BY <1>2, <2>1 DEF OriginOK
  <2>3. o # Unread /\ o # FromStorage
    BY <1>2, OriginKinds
  <2>4. \A v \in Txs : o = FromTx(v, incarnation'[v]) => v = u /\ i = incarnation'[u]
    BY <1>2, OriginKinds
  <2>5. ASSUME NEW x, Agrees(o, l, x) PROVE Agrees(o, l, x)'
    <3>1. \A v \in Txs : o = FromTx(v, incarnation'[v]) /\ data'[l][v].kind = "data" => data'[l][v].val = x
      BY <1>2, <2>1, <2>4, <2>5 DEF Agrees
    <3> QED
      BY <2>3, <3>1 DEF Agrees
  <2> QED
    BY <2>2, <2>5
<1> QED
  BY <1>1, <1>2 DEF OriginOK

\* Initial segments of sequences are sequences, and Append extends the last.
LEMMA PrefixFacts ==
  ASSUME NEW v, IsSeq(v)
  PROVE  /\ Len(v) \in Nat /\ DOMAIN v = 1 .. Len(v)
         /\ Prefix(v, Len(v)) = v
         /\ \A n \in 0 .. Len(v) : IsSeq(Prefix(v, n)) /\ Len(Prefix(v, n)) = n
         /\ \A x : \A n \in 0 .. Len(v) : Prefix(Append(v, x), n) = Prefix(v, n)
         /\ \A n \in 0 .. Len(v) - 1 : Append(Prefix(v, n), v[n + 1]) = Prefix(v, n + 1)
<1> DEFINE S == {v[j] : j \in DOMAIN v}
<1>1. v \in Seq(S)
  BY DEF IsSeq
<1> HIDE DEF S
<1>2. Len(v) \in Nat /\ DOMAIN v = 1 .. Len(v) /\ v = [j \in 1 .. Len(v) |-> v[j]]
  BY <1>1
<1>3. Prefix(v, Len(v)) = v
  BY <1>2 DEF Prefix
<1>4. ASSUME NEW n \in 0 .. Len(v) PROVE IsSeq(Prefix(v, n)) /\ Len(Prefix(v, n)) = n
  <2> DEFINE p == Prefix(v, n)
             T == {p[j] : j \in DOMAIN p}
  <2>1. n \in Nat /\ p = [j \in 1 .. n |-> p[j]] /\ DOMAIN p = 1 .. n
    BY <1>2 DEF Prefix
  <2> HIDE DEF p
  <2>2. \A j \in 1 .. n : p[j] \in T
    BY <2>1
  <2> HIDE DEF T
  <2>3. p \in [1 .. n -> T]
    BY <2>1, <2>2
  <2>4. p \in Seq(T) /\ Len(p) = n
    BY <2>1, <2>3
  <2> QED
    BY <2>4 DEF IsSeq, p, T
<1>5. ASSUME NEW x, NEW n \in 0 .. Len(v) PROVE Prefix(Append(v, x), n) = Prefix(v, n)
  <2>1. \A j \in 1 .. n : Append(v, x)[j] = v[j]
    BY <1>2, AppendIsSeq
  <2> QED
    BY <2>1 DEF Prefix
<1>6. ASSUME NEW n \in 0 .. Len(v) - 1 PROVE Append(Prefix(v, n), v[n + 1]) = Prefix(v, n + 1)
  <2> DEFINE p == Prefix(v, n)
             q == Append(p, v[n + 1])
  <2>0. n \in Nat /\ n \in 0 .. Len(v)
    BY <1>2
  <2>1. IsSeq(p) /\ Len(p) = n
    BY <1>4, <2>0
  <2>2. \A j \in 1 .. n : p[j] = v[j]
    BY <2>0 DEF Prefix
  <2> HIDE DEF p
  <2>3. /\ IsSeq(q) /\ DOMAIN q = 1 .. n + 1 /\ q[n + 1] = v[n + 1] /\ \A j \in 1 .. n : q[j] = p[j]
        /\ Len(q) = n + 1
    BY <2>1, AppendIsSeq
  <2> HIDE DEF q
  <2>4. q = [j \in 1 .. n + 1 |-> q[j]]
    <3> DEFINE T == {q[j] : j \in DOMAIN q}
    <3>1. q \in Seq(T)
      BY <2>3 DEF IsSeq
    <3> HIDE DEF T
    <3> QED
      BY <2>3, <3>1
  <2>5. \A j \in 1 .. n + 1 : q[j] = v[j]
    BY <2>0, <2>2, <2>3
  <2>6. Prefix(v, n + 1) = [j \in 1 .. n + 1 |-> q[j]]
    BY <2>5 DEF Prefix
  <2> QED
    BY <2>4, <2>6 DEF q, p
<1> QED
  BY <1>2, <1>3, <1>4, <1>5, <1>6

\* Every question that the explanation answers is about a location.
LEMMA AskedLocations ==
  ASSUME VmContract, Shape, NEW t \in Txs, NEW v, IsSeq(v), NEW j \in 1 .. Len(v)
  PROVE  Asked(t, v, j).op = "read" => Asked(t, v, j).loc \in Locations /\ j - 1 < MaxReads
<1>1. Len(v) \in Nat /\ j - 1 \in 0 .. Len(v)
  BY PrefixFacts
<1>2. IsSeq(Prefix(v, j - 1)) /\ Len(Prefix(v, j - 1)) = j - 1
  BY <1>1, PrefixFacts
<1>3. VmKeeps(block[t], t, Prefix(v, j - 1))
  BY <1>2 DEF VmContract, Shape
<1> QED
  BY <1>2, <1>3 DEF VmKeeps, Asked

\* An explanation stands after every step.
LEMMA ExplainsStays ==
  ASSUME VmContract, MInv, NEW w \in Workers, PexeStep(w), NEW t \in Txs, NEW v, IsSeq(v), NEW rds,
         \A l \in Locations : OriginOK(rds[l], l, t), Explains(rds, v, t)
  PROVE  Explains(rds, v, t)'
<1>1. block' = block /\ Shape
  BY MInvWorker DEF Apart, MInv
<1>2. ASSUME NEW j \in 1 .. Len(v), NEW l, l = Asked(t, v, j).loc
      PROVE  Asked(t, v, j)' = Asked(t, v, j) /\ Asked(t, v, j).op = "read" /\ Agrees(rds[l], l, v[j])'
  <2>1. Asked(t, v, j).op = "read" /\ Agrees(rds[l], l, v[j])
    BY <1>2 DEF Explains
  <2>2. l \in Locations
    BY <1>1, <1>2, <2>1, AskedLocations
  <2>3. Asked(t, v, j)' = Asked(t, v, j)
    BY <1>1 DEF Asked
  <2>4. Agrees(rds[l], l, v[j])'
    BY <2>1, <2>2, OriginStays
  <2> QED
    BY <2>1, <2>3, <2>4
<1>3. ASSUME NEW j \in 1 .. Len(v)
      PROVE  Asked(t, v, j)'.op = "read" /\ Agrees(rds[Asked(t, v, j).loc], Asked(t, v, j).loc, v[j])'
  <2>1. Asked(t, v, j)' = Asked(t, v, j)
    BY <1>1 DEF Asked
  <2>2. ASSUME NEW l, l = Asked(t, v, j).loc PROVE Agrees(rds[Asked(t, v, j).loc], Asked(t, v, j).loc, v[j])'
    <3>1. Agrees(rds[l], l, v[j])' /\ l = Asked(t, v, j)'.loc
      BY <1>2, <2>1, <2>2
    <3> QED
      BY <3>1
  <2>3. Asked(t, v, j).op = "read"
    BY DEF Explains
  <2> QED
    BY <2>1, <2>2, <2>3
<1> QED
  BY <1>3 DEF Explains

\* What a read finds explains the value it returns.
LEMMA ReadIsExplained ==
  ASSUME MInv, NEW l \in Locations, NEW t \in Txs
  PROVE  OriginOK(Origin(l, t), l, t) /\ Agrees(Origin(l, t), l, Value(l, t))
<1>0. t \in 0 .. BlockSize
  BY TxsFacts
<1>1. CASE HasData(l, t)
  <2> DEFINE u == Max(Writers(l, t))
  <2>1. u \in Txs /\ u < t
    BY <1>0, <1>1, ClosestFacts DEF HasData
  <2>2. data[l][u].kind = "data"
    BY <1>1 DEF HasData, Closest
  <2>3. Origin(l, t) = FromTx(u, incarnation[u]) /\ Value(l, t) = data[l][u].val
    BY <1>1, <2>1, <2>2, EntryIsCurrent DEF Origin, Value, Closest
  <2> HIDE DEF u
  <2>4. incarnation[u] \in Nat
    BY <2>1 DEF MInv, IInv, TypeOK
  <2>5. Past(u, incarnation[u], l)
    BY <2>2, <2>4 DEF Past
  <2>6. OriginOK(Origin(l, t), l, t)
    BY <2>1, <2>3, <2>4, <2>5 DEF OriginOK
  <2>7. Agrees(Origin(l, t), l, Value(l, t))
    BY <2>1, <2>2, <2>3, OriginKinds DEF Agrees
  <2> QED
    BY <2>6, <2>7
<1>2. CASE ~HasData(l, t)
  BY <1>2, OriginKinds DEF Origin, Value, OriginOK, Agrees
<1> QED
  BY <1>1, <1>2

\* Nothing is read yet when the block starts.
LEMMA ReadsInit == PexeInit => ReadsOK
<1> SUFFICES ASSUME PexeInit PROVE ReadsOK
  OBVIOUS
<1>1. \A t \in Txs : ~HasRecord(t)
  BY DEF PexeInit, Init, HasRecord, Finished, DonePcs, FinishPcs
<1>2. \A l \in Locations : \A t : OriginOK(NoReads[l], l, t)
  BY DEF OriginOK, NoReads
<1>3. \A w \in Workers : Explains(reads[w], vals[w], tx[w])
  BY DEF PexeInit, Explains
<1> QED
  BY <1>1, <1>2, <1>3 DEF PexeInit, ReadsOK

\* Every step keeps every read explained.
LEMMA ReadsStep ==
  ASSUME VmContract, MInv, ReadsOK, NEW w \in Workers, PexeStep(w)
  PROVE  ReadsOK'
<1>0. /\ TypeOK /\ Shape /\ MpcOK /\ EntriesOK /\ tx[w] \in Txs /\ IInv
      /\ MInv' /\ Elsewhere(w) /\ Apart(w) /\ Others(w)
  BY MInvWorker DEF MInv, IInv, TypeOK
<1>1. /\ \A v \in Workers : tx[v] \in Txs /\ IsSeq(vals[v])
      /\ \A t \in Txs : IsSeq(results[t])
  BY <1>0 DEF TypeOK, Shape
\* the reads and results so far
<1>2. ASSUME NEW v \in Workers, UNCHANGED <<reads[v], vals[v], tx[v]>>
      PROVE  Explains(reads[v], vals[v], tx[v])' /\ \A l \in Locations : OriginOK(reads[v][l], l, tx[v])'
  <2>1. ASSUME NEW r, NEW x, NEW t, r = reads[v], x = vals[v], t = tx[v]
        PROVE  Explains(reads[v], vals[v], tx[v])' /\ \A l \in Locations : OriginOK(reads[v][l], l, tx[v])'
    <3>1. t \in Txs /\ IsSeq(x) /\ (\A l \in Locations : OriginOK(r[l], l, t)) /\ Explains(r, x, t)
      BY <1>1, <2>1 DEF ReadsOK
    <3>2. Explains(r, x, t)'
      BY <3>1, ExplainsStays
    <3>3. \A l \in Locations : OriginOK(r[l], l, t)'
      BY <3>1, OriginStays
    <3>4. r = reads'[v] /\ x = vals'[v] /\ t = tx'[v]
      BY <1>2, <2>1
    <3> QED
      BY <3>2, <3>3, <3>4
  <2> QED
    BY <2>1
<1>3. ASSUME NEW t \in Txs, UNCHANGED last_reads[t] PROVE \A l \in Locations : OriginOK(last_reads[t][l], l, t)'
  <2>1. ASSUME NEW r, r = last_reads[t] PROVE \A l \in Locations : OriginOK(last_reads[t][l], l, t)'
    <3>1. \A l \in Locations : OriginOK(r[l], l, t)'
      BY <2>1, OriginStays DEF ReadsOK
    <3>2. r = last_reads'[t]
      BY <1>3, <2>1
    <3> QED
      BY <3>1, <3>2
  <2> QED
    BY <2>1
<1>4. ASSUME NEW t \in Txs, UNCHANGED <<last_reads[t], results[t]>>, HasRecord(t)
      PROVE  Explains(last_reads[t], results[t], t)'
  <2>1. ASSUME NEW r, NEW x, r = last_reads[t], x = results[t] PROVE Explains(last_reads[t], results[t], t)'
    <3>1. IsSeq(x) /\ (\A l \in Locations : OriginOK(r[l], l, t)) /\ Explains(r, x, t)
      BY <1>1, <1>4, <2>1 DEF ReadsOK
    <3>2. Explains(r, x, t)'
      BY <3>1, ExplainsStays
    <3>3. r = last_reads'[t] /\ x = results'[t]
      BY <1>4, <2>1
    <3> QED
      BY <3>2, <3>3
  <2> QED
    BY <2>1
\* a worker that starts anew has read nothing
<1>5. ASSUME reads'[w] = NoReads, vals'[w] = <<>>
      PROVE  Explains(reads[w], vals[w], tx[w])' /\ \A l \in Locations : OriginOK(reads[w][l], l, tx[w])'
  <2>1. \A l \in Locations : reads'[w][l] = Unread
    BY <1>5 DEF NoReads
  <2> QED
    BY <1>5, <2>1 DEF Explains, OriginOK
\* it is enough to look at w and its transaction
<1>6. ASSUME Explains(reads[w], vals[w], tx[w])', \A l \in Locations : OriginOK(reads[w][l], l, tx[w])',
             \/ last_reads'[tx[w]] = last_reads[tx[w]]
             \/ \A l \in Locations : OriginOK(last_reads[tx[w]][l], l, tx[w])' /\ tx'[w] = tx[w],
             \A t \in Txs : HasRecord(t)' => \/ HasRecord(t) /\ UNCHANGED <<last_reads[t], results[t]>>
                                             \/ Explains(last_reads[t], results[t], t)'
      PROVE  ReadsOK'
  <2>1. \A v \in Workers \ {w} : UNCHANGED <<reads[v], vals[v], tx[v]>>
    BY <1>0 DEF Elsewhere, Others
  <2>2. \A v \in Workers : Explains(reads[v], vals[v], tx[v])' /\ \A l \in Locations : OriginOK(reads[v][l], l, tx[v])'
    BY <1>2, <1>6, <2>1
  <2>3. \A t \in Txs : \A l \in Locations : OriginOK(last_reads[t][l], l, t)'
    <3>1. ASSUME NEW t \in Txs, t # tx[w] PROVE \A l \in Locations : OriginOK(last_reads[t][l], l, t)'
      BY <1>0, <1>3, <3>1 DEF Apart
    <3>2. ASSUME NEW t \in Txs, t = tx[w] PROVE \A l \in Locations : OriginOK(last_reads[t][l], l, t)'
      <4>1. CASE last_reads'[tx[w]] = last_reads[tx[w]]
        BY <1>3, <3>2, <4>1
      <4>2. CASE \A l \in Locations : OriginOK(last_reads[tx[w]][l], l, tx[w])' /\ tx'[w] = tx[w]
        BY <3>2, <4>2
      <4> QED
        BY <1>6, <4>1, <4>2
    <3> QED
      BY <3>1, <3>2
  <2>4. \A t \in Txs : HasRecord(t)' => Explains(last_reads[t], results[t], t)'
    BY <1>4, <1>6
  <2> QED
    BY <2>2, <2>3, <2>4 DEF ReadsOK
<1>7. ASSUME NEW t \in Txs, HasRecord(t)', ~ExecuteOk(w) PROVE HasRecord(t)
  <2>1. CASE pc[w] # "setReason" /\ WorkerStep(w)
    BY <1>0, <1>7, <2>1, WorkerRecords
  <2>2. CASE MemStep(w) /\ (t # tx[w] \/ ~ConvertEnd(w))
    BY <1>0, <1>7, <2>2, MemRecords
  <2>3. CASE ConvertEnd(w) /\ t = tx[w]
    BY <2>3 DEF ConvertEnd, ConvertWrites, HasRecord
  <2> QED
    BY <2>1, <2>2, <2>3 DEF PexeStep, MemStep
<1>8. ASSUME UNCHANGED <<last_reads, results>>, ~ExecuteOk(w),
             \/ UNCHANGED <<reads[w], vals[w], tx[w]>>
             \/ reads'[w] = NoReads /\ vals'[w] = <<>>
      PROVE  ReadsOK'
  <2>1. Explains(reads[w], vals[w], tx[w])' /\ \A l \in Locations : OriginOK(reads[w][l], l, tx[w])'
    BY <1>2, <1>5, <1>8
  <2>2. \A t \in Txs : HasRecord(t)' => HasRecord(t) /\ UNCHANGED <<last_reads[t], results[t]>>
    BY <1>7, <1>8
  <2> QED
    BY <1>6, <1>8, <2>1, <2>2
<1>9. ASSUME ResetLocals(w) PROVE reads'[w] = NoReads /\ vals'[w] = <<>>
  BY <1>0, <1>9, ResetShape
<1>11. CASE pc[w] # "setReason" /\ WorkerStep(w) /\ UNCHANGED memVars
  <2>1. pc[w] \notin {"execute", "setReason"}
    BY <1>0, <1>11, WorkerOutside
  <2>2. reads'[w] = NoReads /\ vals'[w] = <<>>
    BY <1>0, <1>11, <2>1 DEF MpcOK, MpcAt, memVars, memLocals
  <2> QED
    BY <1>8, <1>11, <2>1, <2>2 DEF memVars, shared, ExecuteOk, VmOk
<1>12. CASE VmReadInconsistent(w) \/ VmReadEstimate(w)
  <2>1. ResetLocals(w) /\ UNCHANGED <<last_reads, results>> /\ ~ExecuteOk(w)
    BY <1>12 DEF VmReadInconsistent, VmReadEstimate, Does, ExecuteOk, shared
  <2> QED
    BY <1>8, <1>9, <2>1
<1>13. CASE ValidateEnd(w) \/ ConvertEnd(w) \/ GiveUp(w)
  <2>1. ResetLocals(w) /\ UNCHANGED <<last_reads, results>> /\ ~ExecuteOk(w)
    BY <1>13 DEF ValidateEnd, ConvertEnd, ConvertWrites, Validate, GiveUp, SetAbortReason, ExecuteOk, VmOk, shared
  <2> QED
    BY <1>8, <1>9, <2>1
<1>14. CASE VmNotYet(w) \/ VmStop(w)
  <2>1. mpc[w] = "idle" /\ UNCHANGED <<last_reads, results>> /\ ~ExecuteOk(w)
    BY <1>14 DEF VmNotYet, VmStop, Does, ExecuteOk, shared, memVars
  <2>2. ResetLocals(w) \/ UNCHANGED <<reads[w], vals[w], tx[w]>>
    BY <1>14 DEF VmNotYet, VmStop, VmFatal, memVars, memLocals, locals
  <2> QED
    BY <1>8, <1>9, <2>1, <2>2
<1>15. CASE RecordRemove(w) \/ RecordInsert(w) \/ ConvertOne(w) \/ ConvertStart(w) \/ ValidateStart(w)
  <2>1. UNCHANGED <<last_reads, results, vars, reads, vals>>
    BY <1>15 DEF RecordRemove, RecordInsert, ConvertOne, ConvertStart, ValidateStart, shared
  <2>2. UNCHANGED <<reads[w], vals[w], tx[w], pc>>
    BY <2>1 DEF vars, locals
  <2>3. ~ExecuteOk(w)
    BY <1>0, <2>2 DEF ExecuteOk, VmOk, Goto, TypeOK
  <2> QED
    BY <1>8, <2>1, <2>2, <2>3
<1>16. CASE ValidateCheck(w)
  <2>1. mpc[w] = "check" /\ UNCHANGED <<last_reads, results>> /\ ~ExecuteOk(w)
    BY <1>16 DEF ValidateCheck, ExecuteOk, shared
  <2>2. ResetLocals(w) \/ UNCHANGED <<reads[w], vals[w], tx[w]>>
    BY <1>16 DEF ValidateCheck, vars, locals
  <2> QED
    BY <1>8, <1>9, <2>1, <2>2
<1>17. CASE RecordReads(w)
  <2>1. /\ pc[w] = "execute" /\ mpc[w] = "idle" /\ last_reads'[tx[w]] = reads[w]
        /\ UNCHANGED <<results, vars, reads, vals>>
    BY <1>0, <1>17 DEF RecordReads, Does, Shape
  <2>2. UNCHANGED <<reads[w], vals[w], tx[w]>> /\ ~ExecuteOk(w)
    BY <2>1 DEF vars, locals, ExecuteOk
  <2>3. Explains(reads[w], vals[w], tx[w])' /\ \A l \in Locations : OriginOK(reads[w][l], l, tx[w])'
    BY <1>2, <2>2
  <2>4. \A l \in Locations : OriginOK(last_reads[tx[w]][l], l, tx[w])'
    <3>1. last_reads'[tx'[w]] = reads'[w]
      BY <2>1, <2>2
    <3> QED
      BY <2>3, <3>1
  <2>5. ASSUME NEW t \in Txs, HasRecord(t)' PROVE HasRecord(t) /\ UNCHANGED <<last_reads[t], results[t]>>
    <3>1. HasRecord(t) /\ t # tx[w]
      BY <1>0, <1>7, <2>1, <2>2, <2>5, NoRecordYet
    <3> QED
      BY <1>0, <2>1, <3>1 DEF Apart
  <2> QED
    BY <1>6, <2>2, <2>3, <2>4, <2>5
<1>18. CASE ExecuteOk(w)
  <2>1. mpc[w] = "insert" /\ results'[tx[w]] = vals[w] /\ ResetLocals(w) /\ last_reads' = last_reads
    BY <1>0, <1>18 DEF ExecuteOk, Shape
  <2>2. Explains(reads[w], vals[w], tx[w])' /\ \A l \in Locations : OriginOK(reads[w][l], l, tx[w])'
    BY <1>5, <1>9, <2>1
  <2>3. last_reads[tx[w]] = reads[w]
    BY <1>0, <2>1 DEF MpcOK, MpcAt
  <2>4. ASSUME NEW t \in Txs, NEW r, NEW x, t = tx[w], r = reads[w], x = vals[w]
        PROVE  Explains(last_reads[t], results[t], t)'
    <3>1. t \in Txs /\ IsSeq(x) /\ (\A l \in Locations : OriginOK(r[l], l, t)) /\ Explains(r, x, t)
      BY <1>1, <2>4 DEF ReadsOK
    <3>2. Explains(r, x, t)'
      BY <3>1, ExplainsStays
    <3>3. r = last_reads'[t] /\ x = results'[t]
      BY <2>1, <2>3, <2>4
    <3> QED
      BY <3>2, <3>3
  <2>5. ASSUME NEW t \in Txs, HasRecord(t)', t # tx[w] PROVE HasRecord(t) /\ UNCHANGED <<last_reads[t], results[t]>>
    <3>1. MemStep(w)
      BY <1>18 DEF MemStep
    <3>2. HasRecord(t)
      BY <1>0, <2>5, <3>1, MemRecords
    <3> QED
      BY <1>0, <2>5, <3>2 DEF Apart
  <2> QED
    BY <1>6, <2>1, <2>2, <2>4, <2>5
<1>19. CASE VmRead(w)
  <2>1. /\ Does(w, "read") /\ reads[w][Now(w).loc] \in {Unread, Origin(Now(w).loc, tx[w])}
        /\ reads' = [reads EXCEPT ![w][Now(w).loc] = Origin(Now(w).loc, tx[w])]
        /\ vals' = [vals EXCEPT ![w] = Append(@, Value(Now(w).loc, tx[w]))]
        /\ UNCHANGED <<vars, block, shared>>
    BY <1>19 DEF VmRead
  <2>2. ASSUME NEW l, NEW t, NEW v, NEW o, NEW x, NEW r, l = Now(w).loc, t = tx[w], v = vals[w], r = reads[w],
               o = Origin(l, t), x = Value(l, t)
        PROVE  Explains(reads[w], vals[w], tx[w])' /\ \A k \in Locations : OriginOK(reads[w][k], k, tx[w])'
    <3>1. /\ l \in Locations /\ t \in Txs /\ IsSeq(v) /\ DOMAIN r = Locations
          /\ Behaviour(block[t], t, v).op = "read" /\ Behaviour(block[t], t, v).loc = l
          /\ (\A k \in Locations : OriginOK(r[k], k, t)) /\ Explains(r, v, t)
      BY <1>0, <1>1, <2>1, <2>2, WritesOK DEF Does, Now, ReadsOK, Shape
    <3>2. OriginOK(o, l, t) /\ Agrees(o, l, x)
      BY <2>2, <3>1, ReadIsExplained
    <3>3. OriginOK(o, l, t)' /\ Agrees(o, l, x)'
      BY <3>1, <3>2, OriginStays
    <3>4. Explains(r, v, t)' /\ \A k \in Locations : OriginOK(r[k], k, t)'
      BY <3>1, ExplainsStays, OriginStays
    <3>5. /\ tx'[w] = t /\ block' = block /\ vals'[w] = Append(v, x)
          /\ reads'[w] = [r EXCEPT ![l] = o]
      BY <1>0, <2>1, <2>2 DEF vars, locals, Shape
    <3>6. \A k \in Locations : reads'[w][k] = IF k = l THEN o ELSE r[k]
      BY <3>1, <3>5
    <3>7. \A k \in Locations : OriginOK(reads[w][k], k, tx[w])'
      BY <3>3, <3>4, <3>5, <3>6
    <3>8. ASSUME NEW y, y = Append(v, x), NEW j \in 1 .. Len(v) + 1, NEW k, k = Behaviour(block[t], t, Prefix(y, j - 1)).loc
          PROVE  Behaviour(block[t], t, Prefix(y, j - 1)).op = "read" /\ Agrees(reads[w][k], k, y[j])'
      <4>0. Len(v) \in Nat
        BY <3>1, PrefixFacts
      <4>1. CASE j \in 1 .. Len(v)
        <5>1. Prefix(y, j - 1) = Prefix(v, j - 1) /\ y[j] = v[j]
          BY <3>1, <3>8, <4>0, <4>1, PrefixFacts, AppendIsSeq
        <5>2. Asked(t, v, j)' = Behaviour(block[t], t, Prefix(y, j - 1)) /\ Asked(t, v, j) = Behaviour(block[t], t, Prefix(y, j - 1))
          BY <3>5, <5>1 DEF Asked
        <5>3. Behaviour(block[t], t, Prefix(y, j - 1)).op = "read" /\ Agrees(r[k], k, v[j])'
          BY <3>4, <3>8, <4>1, <5>2 DEF Explains
        <5>4. k \in Locations
          BY <1>0, <3>1, <3>8, <4>1, <5>2, <5>3, AskedLocations
        <5>5. r[k] # Unread
          BY <5>3 DEF Agrees
        <5>6. reads'[w][k] = r[k]
          BY <2>1, <2>2, <3>6, <5>4, <5>5
        <5> QED
          BY <5>1, <5>3, <5>6
      <4>2. CASE j = Len(v) + 1
        <5>1. Prefix(y, j - 1) = v /\ y[j] = x
          BY <3>1, <3>8, <4>0, <4>2, PrefixFacts, AppendIsSeq
        <5>2. k = l /\ reads'[w][k] = o
          BY <3>1, <3>6, <3>8, <5>1
        <5> QED
          BY <3>1, <3>3, <5>1, <5>2
      <4> QED
        BY <4>0, <4>1, <4>2
    <3>9. ASSUME NEW y, y = Append(v, x), NEW j \in 1 .. Len(v) + 1
          PROVE  Asked(t, y, j)'.op = "read" /\ Agrees(reads[w][Asked(t, y, j).loc], Asked(t, y, j).loc, y[j])'
      <4>1. Asked(t, y, j)' = Behaviour(block[t], t, Prefix(y, j - 1))
        BY <3>5 DEF Asked
      <4>2. ASSUME NEW k, k = Behaviour(block[t], t, Prefix(y, j - 1)).loc
            PROVE  Agrees(reads[w][Asked(t, y, j).loc], Asked(t, y, j).loc, y[j])'
        <5>1. Agrees(reads[w][k], k, y[j])' /\ k = Asked(t, y, j)'.loc
          BY <3>8, <3>9, <4>1, <4>2
        <5> QED
          BY <5>1
      <4> QED
        BY <3>8, <3>9, <4>1, <4>2
    <3>10. ASSUME NEW y, y = Append(v, x) PROVE Explains(reads[w], vals[w], tx[w])'
      <4>1. y = vals'[w] /\ t = tx'[w] /\ Len(y) = Len(v) + 1
        BY <3>1, <3>5, <3>10, AppendIsSeq
      <4>2. \A j \in 1 .. Len(y) : Asked(t, y, j)'.op = "read" /\ Agrees(reads[w][Asked(t, y, j).loc], Asked(t, y, j).loc, y[j])'
        BY <3>9, <3>10, <4>1
      <4> QED
        BY <4>1, <4>2 DEF Explains
    <3> QED
      BY <3>7, <3>10
  <2>3. Explains(reads[w], vals[w], tx[w])' /\ \A k \in Locations : OriginOK(reads[w][k], k, tx[w])'
    BY <2>2
  <2>4. UNCHANGED <<last_reads, results>> /\ ~ExecuteOk(w)
    BY <2>1 DEF shared, Does, ExecuteOk
  <2>5. \A t \in Txs : HasRecord(t)' => HasRecord(t) /\ UNCHANGED <<last_reads[t], results[t]>>
    BY <1>7, <2>4
  <2> QED
    BY <1>6, <2>3, <2>4, <2>5
<1> QED
  BY <1>11, <1>12, <1>13, <1>14, <1>15, <1>16, <1>17, <1>18, <1>19 DEF PexeStep

-----------------------------------------------------------------------------
(* Reads whose origin has moved on *)

\* The greatest element, given one.
LEMMA MaxIs ==
  ASSUME NEW S \in SUBSET Txs, NEW m \in S, \A u \in S : u <= m
  PROVE  Max(S) = m
<1>1. Max(S) \in S /\ m <= Max(S)
  BY MaxOfTxs
<1>2. \A u \in S : u \in Int
  BY DEF Txs
<1>3. ASSUME NEW x \in S, m <= x, x <= m PROVE x = m
  BY <1>2, <1>3
<1> QED
  BY <1>1, <1>3

\* A step breaks a read only by marking, or by writing a location that the
\* transaction had not written before: then its worker will move
\* validation_idx back.
LEMMA BreakerRewinds ==
  ASSUME VmContract, MInv, NEW w \in Workers, PexeStep(w), NEW l \in Locations, NEW t \in Txs,
         ~Broken(l, t), last_reads'[t] = last_reads[t]
  PROVE  ~Broken(l, t)' \/ WillRewind(w, t)'
<1> SUFFICES ASSUME OriginHolds(l, t), ~WillRewind(w, t)' PROVE OriginHolds(l, t)'
  BY DEF Broken
<1>0. Apart(w) /\ tx[w] \in Txs /\ t \in 0 .. BlockSize
  BY MInvWorker, ExecutingStatus, TxsFacts
<1> DEFINE m == Max(Writers(l, t))
<1>1. CASE \A u \in Txs : u < t => Kept(l, u)
  <2>1. Writers(l, t)' = Writers(l, t)
    BY <1>1 DEF Writers, Kept
  <2>2. CASE Writers(l, t) = {}
    BY <2>1, <2>2 DEF OriginHolds, IsEstimate, HasData, Origin
  <2>3. CASE Writers(l, t) # {}
    <3>1. m \in Txs /\ m < t /\ Max(Writers(l, t)') = m
      BY <1>0, <2>1, <2>3, ClosestFacts
    <3>2. Closest(l, t)' = Closest(l, t)
      BY <1>1, <2>1, <3>1 DEF Closest, Kept
    <3>3. (Origin(l, t)' = Origin(l, t)) /\ (IsEstimate(l, t)' <=> IsEstimate(l, t))
      BY <2>1, <3>1, <3>2 DEF Origin, HasData, IsEstimate
    <3> QED
      BY <3>3 DEF OriginHolds
  <2> QED
    BY <2>2, <2>3
<1>2. ASSUME NEW u \in Txs, u < t, ~Kept(l, u) PROVE OriginHolds(l, t)'
  <2>1. u = tx[w] /\ \A v \in Txs \ {u} : Kept(l, v)
    BY <1>0, <1>2 DEF Apart, Kept
  <2>2. data[l][u].kind = "estimate" /\ data'[l][u].kind \in {"none", "data"}
    <3>1. CASE pc[w] = "convert" /\ UNCHANGED vars
      BY <1>2, <2>1, <3>1 DEF WillRewind, vars, locals
    <3>2. CASE mpc[w] = "insert" /\ mpc' = mpc /\ tx' = tx /\ wrote'[w]
      BY <1>2, <2>1, <3>2 DEF WillRewind
    <3>3. \/ pc[w] = "convert" /\ UNCHANGED vars
          \/ mpc[w] = "insert" /\ mpc' = mpc /\ tx' = tx /\ wrote'[w]
          \/ /\ data[l][u].kind \in {"none", "estimate"} /\ data'[l][u].kind \in {"none", "data"}
             /\ data[l][u].kind # "none"
      BY <1>0, <1>2, EntryStep, SMTT(30)
    <3> QED
      BY <3>1, <3>2, <3>3
  <2>3. u \in Writers(l, t)
    BY <1>2, <2>2 DEF Writers
  <2>4. /\ m \in Txs /\ m < t /\ data[l][m].kind # "none"
        /\ \A v \in Txs : v < t /\ data[l][v].kind # "none" => v <= m
    BY <1>0, <2>3, ClosestFacts
  <2>5. m # u
    BY <2>2, <2>3 DEF OriginHolds, IsEstimate, Closest
  <2>6. u < m /\ Kept(l, m)
    <3>1. u <= m /\ u \in Int /\ m \in Int
      BY <1>2, <2>2, <2>4 DEF Txs
    <3> QED
      BY <2>1, <2>4, <2>5, <3>1
  <2>7. Writers(l, t)' \in SUBSET Txs /\ m \in Writers(l, t)' /\ \A v \in Writers(l, t)' : v <= m
    <3>1. m \in Writers(l, t)'
      BY <2>4, <2>6 DEF Writers, Kept
    <3>2. \A v \in Txs \ {u} : v < t /\ data'[l][v].kind # "none" => v <= m
      BY <2>1, <2>4 DEF Kept
    <3>3. \A v \in Writers(l, t)' : v \in Txs /\ v <= m
      <4>1. u \in Int /\ m \in Int
        BY <2>4 DEF Txs
      <4>2. u <= m
        BY <2>6, <4>1
      <4> QED
        BY <3>2, <4>2 DEF Writers
    <3> QED
      BY <3>1, <3>3
  <2> HIDE DEF m
  <2>8. Max(Writers(l, t)') = m
    BY <2>7, MaxIs
  <2>9. Closest(l, t)' = Closest(l, t)
    BY <2>6, <2>8 DEF Closest, Kept, m
  <2>10. (Origin(l, t)' = Origin(l, t)) /\ (IsEstimate(l, t)' <=> IsEstimate(l, t))
    BY <2>3, <2>7, <2>8, <2>9 DEF Origin, HasData, IsEstimate, m
  <2> QED
    BY <2>10 DEF OriginHolds
<1> QED
  BY <1>1, <1>2

\* scheduler.abort() is never taken back.
LEMMA AbortOnce ==
  ASSUME NEW w \in Workers, PexeStep(w), ~aborted'
  PROVE  ~aborted
<1> USE DEF endVars, vars
<1>a. CASE WorkerStep(w)
  BY <1>a, WorkerAbortsOnce
<1>b. CASE MemStep(w)
  BY <1>b DEF MemStep, VmRead, VmReadInconsistent, VmReadEstimate, VmNotYet, VmStop, GiveUp, RecordReads, RecordRemove,
     RecordInsert, ExecuteOk, ValidateStart, ValidateCheck, ValidateEnd, ConvertStart, ConvertOne, ConvertEnd,
     VmRetry, VmBlocking, VmFatal, SetAbortReason, VmOk, Validate, ConvertWrites
<1> QED
  BY <1>a, <1>b DEF PexeStep, MemStep

\* The other steps of the executor: a validator looks at every read that is
\* outdated before it passes, and a worker that has broken a read goes on to
\* move validation_idx back.
LEMMA MemCovers ==
  ASSUME MInv, ~aborted', NEW w \in Workers, MemStep(w), NEW t \in Txs, NEW l \in Locations
  PROVE  /\ WillCheck(w, l, t) /\ Broken(l, t) => WillCheck(w, l, t)'
         /\ WillRewind(w, t) => WillRewind(w, t)'
<1>0. TypeOK /\ Shape /\ MpcOK /\ tx[w] \in Txs
  BY DEF MInv, IInv, TypeOK
<1>a. /\ pc[w] \in {"execute", "setReason"} => ~WillCheck(w, l, t)
      /\ pc[w] \in {"execute", "setReason", "validate"} /\ mpc[w] # "insert" => ~WillRewind(w, t)
      /\ pc[w] = "convert" => ~WillCheck(w, l, t)
      /\ pc[w] = "setReason" => mpc[w] = "idle"
  BY <1>0 DEF WillCheck, WillRewind, MpcOK, MpcAt, Shape, Mpcs
<1>1. CASE VmRead(w) \/ VmReadInconsistent(w) \/ VmReadEstimate(w) \/ VmNotYet(w) \/ VmStop(w) \/ GiveUp(w) \/ RecordReads(w)
  <2>1. pc[w] \in {"execute", "setReason"} /\ mpc[w] = "idle"
    BY <1>1, <1>a DEF VmRead, VmReadInconsistent, VmReadEstimate, VmNotYet, VmStop, GiveUp, SetAbortReason, RecordReads, Does
  <2> QED
    BY <1>a, <2>1
<1>2. CASE RecordRemove(w)
  <2>1. pc[w] = "execute" /\ mpc[w] = "remove"
    BY <1>0, <1>2 DEF RecordRemove, MpcOK, MpcAt
  <2> QED
    BY <1>a, <2>1
<1>3. CASE RecordInsert(w)
  <2>1. pc[w] = "execute" /\ mpc[w] = "insert" /\ UNCHANGED <<pc, tx, mpc>>
    BY <1>0, <1>3 DEF RecordInsert, MpcOK, MpcAt, vars, locals
  <2>2. wrote[w] => wrote'[w]
    BY <1>0, <1>3 DEF RecordInsert, Shape
  <2> QED
    BY <1>a, <2>1, <2>2 DEF WillRewind
<1>4. CASE ExecuteOk(w)
  <2>1. pc[w] = "execute" /\ mpc[w] = "insert" /\ pc'[w] = "finish" /\ tx' = tx
    BY <1>0, <1>4 DEF ExecuteOk, VmOk, Goto, TypeOK
  <2>2. wrote[w] => Contains(flags'[w], WroteNewLocation)
    BY <1>0, <1>4 DEF ExecuteOk, VmOk, TypeOK, Contains
  <2> QED
    BY <1>a, <2>1, <2>2 DEF WillRewind
<1>5. CASE ValidateStart(w)
  <2>1. /\ pc[w] = "validate" /\ mpc[w] = "idle" /\ UNCHANGED <<pc, tx>> /\ mpc'[w] = "check"
        /\ todo'[w] = {k \in Locations : last_reads[tx[w]][k] # Unread}
    BY <1>0, <1>5 DEF ValidateStart, vars, locals, Shape
  <2> QED
    BY <1>a, <2>1 DEF WillCheck, Broken
<1>6. CASE ValidateCheck(w)
  <2>1. pc[w] = "validate" /\ mpc[w] = "check"
    BY <1>0, <1>6 DEF ValidateCheck, MpcOK, MpcAt
  <2>2. CASE pc'[w] = "tryAbort" /\ tx' = tx
    BY <1>a, <2>1, <2>2 DEF WillCheck
  <2>3. ASSUME NEW k \in todo[w], OriginHolds(k, tx[w]), todo' = [todo EXCEPT ![w] = @ \ {k}], UNCHANGED <<vars, mpc>>
        PROVE  WillCheck(w, l, t) /\ Broken(l, t) => WillCheck(w, l, t)'
    <3>1. UNCHANGED <<pc, tx, mpc>> /\ todo'[w] = todo[w] \ {k}
      BY <1>0, <2>3 DEF vars, locals, Shape
    <3> QED
      BY <2>1, <2>3, <3>1 DEF WillCheck, Broken
  <2>4. ASSUME Validate(w, FALSE) PROVE pc'[w] = "tryAbort" /\ tx' = tx
    BY <1>0, <2>4 DEF Validate, Goto, TypeOK, locals
  <2> QED
    BY <1>6, <1>a, <2>1, <2>2, <2>3, <2>4 DEF ValidateCheck
<1>7. CASE ValidateEnd(w)
  <2>1. pc[w] = "validate" /\ mpc[w] = "check" /\ todo[w] = {}
    BY <1>0, <1>7 DEF ValidateEnd, MpcOK, MpcAt
  <2> QED
    BY <1>a, <2>1 DEF WillCheck
<1>8. CASE ConvertStart(w) \/ ConvertOne(w) \/ ConvertEnd(w)
  <2>1. pc[w] = "convert" /\ pc'[w] \in {"convert", "setReady"} /\ tx' = tx
    BY <1>0, <1>8 DEF ConvertStart, ConvertOne, ConvertEnd, ConvertWrites, Goto, TypeOK, vars, locals, MpcOK, MpcAt
  <2> QED
    BY <1>a, <2>1 DEF WillRewind
<1> QED
  BY <1>1, <1>2, <1>3, <1>4, <1>5, <1>6, <1>7, <1>8 DEF MemStep

\* Every step preserves ReadsAreCovered.
LEMMA CoveredReadsStep ==
  ASSUME VmContract, MInv, ReadsAreCovered, NEW w \in Workers, PexeStep(w)
  PROVE  ReadsAreCovered'
<1>0. /\ IInv /\ TypeOK /\ Shape /\ MpcOK /\ tx[w] \in Txs
      /\ IInv' /\ MInv' /\ Elsewhere(w) /\ Apart(w) /\ Others(w)
  BY MInvWorker DEF MInv, IInv, TypeOK
<1> SUFFICES ASSUME ~aborted', NEW t \in Txs, NEW l \in Locations, Finished(t)', Broken(l, t)'
             PROVE  Covered(l, t)'
  BY DEF ReadsAreCovered
<1>1. ASSUME NEW v \in Workers, v # w
      PROVE  (WillCheck(v, l, t) => WillCheck(v, l, t)') /\ (WillRewind(v, t) => WillRewind(v, t)')
  BY <1>0, <1>1 DEF WillCheck, WillRewind, Elsewhere, Others
<1>2. CASE pc[w] # "setReason" /\ WorkerStep(w) /\ UNCHANGED memVars
  <2>1. mpc[w] = "idle" /\ mpc'[w] = "idle"
    BY <1>0, <1>2, WorkerOutside DEF MpcOK, MpcAt, Shape, Mpcs, memVars, memLocals
  <2>2. ~aborted
    BY <1>0, <1>2, AbortOnce
  <2>3. /\ validation_idx <= t => validation_idx' <= t \/ WillCheck(w, l, t)'
        /\ WillCheck(w, l, t) => WillCheck(w, l, t)'
        /\ WillRewind(w, t) => WillRewind(w, t)' \/ validation_idx' <= t
        /\ Finished(t) \/ (FinishStatus(w) /\ tx[w] = t)
    <3>1. /\ WillCheck(w, l, t) <=> ToValidate(w, t)
          /\ WillRewind(w, t) <=> ToRewind(w, t)
          /\ WillCheck(w, l, t)' <=> ToValidate(w, t)'
          /\ WillRewind(w, t)' <=> ToRewind(w, t)'
      BY <2>1 DEF WillCheck, WillRewind, ToValidate, ToRewind
    <3> QED
      BY <1>0, <1>2, <2>2, <3>1, WorkerCovers
  <2>4. Broken(l, t)
    BY <1>2 DEF Broken, OriginHolds, IsEstimate, Origin, HasData, Closest, Writers, memVars, shared
  <2>5. CASE Finished(t)
    <3>1. Covered(l, t)
      BY <2>2, <2>4, <2>5 DEF ReadsAreCovered
    <3> QED
      BY <1>1, <2>3, <3>1 DEF Covered
  <2>6. CASE FinishStatus(w) /\ tx[w] = t
    <3>1. CASE pc[w] = "finBetween"
      <4>1. pc'[w] = "postVal" /\ tx' = tx
        BY <1>0, <2>6, <3>1 DEF FinishStatus, Contains, NeedValidation, Goto, TypeOK
      <4> QED
        BY <2>6, <4>1 DEF Covered, WillCheck
    <3>2. CASE pc[w] = "finStatus"
      <4>1. validation_idx <= t \/ \E u \in Workers : pc[u] = "inspect" /\ tx[u] = t
        BY <1>0, <2>2, <2>6, <3>2 DEF IInv, FinishIsCovered
      <4>2. validation_idx' = validation_idx
        BY <2>6 DEF FinishStatus
      <4>3. \A u \in Workers : pc[u] = "inspect" /\ tx[u] = t => u # w /\ WillCheck(u, l, t)
        BY <3>2 DEF WillCheck
      <4> QED
        BY <1>1, <4>1, <4>2, <4>3 DEF Covered
    <3> QED
      BY <2>6, <3>1, <3>2 DEF FinishStatus
  <2> QED
    BY <2>3, <2>5, <2>6
<1>3. CASE MemStep(w)
  <2>1. validation_idx' = validation_idx /\ status' = status
    BY <1>0, <1>3, MemFrame DEF txVars, idxVars
  <2>2. Finished(t) /\ last_reads'[t] = last_reads[t] /\ ~aborted
    <3>1. Finished(t)
      BY <2>1 DEF Finished
    <3>2. CASE RecordReads(w)
      <4>1. pc[w] = "execute" /\ aborted' = aborted
        BY <3>2 DEF RecordReads, Does, vars, endVars
      <4>2. t # tx[w]
        BY <3>1, <4>1, ExecutingStatus DEF Finished
      <4> QED
        BY <1>0, <3>1, <4>1, <4>2 DEF Apart
    <3>3. CASE ~RecordReads(w)
      <4>1. last_reads' = last_reads
        BY <1>3, <3>3 DEF MemStep, VmRead, VmReadInconsistent, VmReadEstimate, VmNotYet, VmStop, GiveUp, RecordRemove,
             RecordInsert, ExecuteOk, ValidateStart, ValidateCheck, ValidateEnd, ConvertStart, ConvertOne, ConvertEnd,
             memVars, shared
      <4>2. ~aborted
        BY <1>0, <1>3, AbortOnce
      <4> QED
        BY <3>1, <4>1, <4>2
    <3> QED
      BY <3>2, <3>3
  <2>3. CASE ~Broken(l, t)
    BY <2>2, <2>3, BreakerRewinds DEF Covered
  <2>4. CASE Broken(l, t)
    <3>1. Covered(l, t)
      BY <2>2, <2>4 DEF ReadsAreCovered
    <3>2. (WillCheck(w, l, t) => WillCheck(w, l, t)') /\ (WillRewind(w, t) => WillRewind(w, t)')
      BY <1>3, <2>4, MemCovers
    <3> QED
      BY <1>1, <2>1, <3>1, <3>2 DEF Covered
  <2> QED
    BY <2>3, <2>4
<1> QED
  BY <1>2, <1>3 DEF PexeStep, MemStep

-----------------------------------------------------------------------------
(* The invariant *)

SInv == MInv /\ ReadsOK /\ ReadsAreCovered

\* Steps that change nothing preserve it as well.
LEMMA SInvStutter == SInv /\ UNCHANGED pexeVars => SInv'
<1> SUFFICES ASSUME SInv, UNCHANGED pexeVars PROVE SInv'
  OBVIOUS
<1>1. MInv'
  BY MInvStutter DEF SInv
<1> USE DEF pexeVars, memVars, memLocals, shared, vars, txVars, idxVars, endVars, locals
<1>2. ReadsOK'
  BY SMTT(60) DEF SInv, ReadsOK, OriginOK, Past, Explains, Agrees, Asked, HasRecord, Finished
<1>3. ReadsAreCovered'
  <2>1. \A l \in Locations, t \in Txs : Broken(l, t)' <=> Broken(l, t)
    BY DEF Broken, OriginHolds, IsEstimate, Origin, HasData, Closest, Writers
  <2>2. \A l \in Locations, t \in Txs : Covered(l, t) => Covered(l, t)'
    BY DEF Covered, WillCheck, WillRewind
  <2> QED
    BY <2>1, <2>2 DEF SInv, ReadsAreCovered, Finished
<1> QED
  BY <1>1, <1>2, <1>3 DEF SInv

\* For every block and every interleaving: what was read is explained, and
\* what has become outdated will be found.
THEOREM SerialInvariance ==
  ASSUME VmContract
  PROVE  PexeSpec => []SInv
<1>1. PexeInit => SInv
  <2> SUFFICES ASSUME PexeInit PROVE SInv
    OBVIOUS
  <2>1. MInv /\ ReadsOK
    BY ShapeInit, EntriesInit, InitIInv, ReadsInit DEF PexeInit, MInv
  <2>2. ReadsAreCovered
    BY DEF PexeInit, Init, ReadsAreCovered, Finished
  <2> QED
    BY <2>1, <2>2 DEF SInv
<1>2. SInv /\ [PexeNext]_pexeVars => SInv'
  <2> SUFFICES ASSUME SInv, [PexeNext]_pexeVars PROVE SInv'
    OBVIOUS
  <2>1. ASSUME NEW w \in Workers, PexeStep(w) PROVE SInv'
    BY <2>1, MInvWorker, ReadsStep, CoveredReadsStep DEF SInv
  <2>2. CASE UNCHANGED pexeVars
    BY <2>2, SInvStutter
  <2> QED
    BY <2>1, <2>2 DEF PexeNext, Joined, pexeVars
<1> QED
  BY <1>1, <1>2, PTL DEF PexeSpec

\* ReadsAreCovered: whatever is written or marked as an ESTIMATE after a transaction
\* has read it, and however validations, aborts and the counter interleave, the
\* transaction will be validated again.
THEOREM ReadsAreCoveredHolds ==
  ASSUME VmContract
  PROVE  PexeSpec => []ReadsAreCovered
<1>1. SInv => ReadsAreCovered
  BY DEF SInv
<1> QED
  BY <1>1, SerialInvariance, PTL

\* The types of the memory's state; a read's origin is a lower transaction, in
\* an incarnation that this has reached.
THEOREM MemTypeOKHolds ==
  ASSUME VmContract
  PROVE  PexeSpec => []MemTypeOK
<1>1. SInv => MemTypeOK
  <2> SUFFICES ASSUME SInv PROVE MemTypeOK
    OBVIOUS
  <2>1. \A l \in Locations, t \in Txs : data[l][t].kind \in {"none", "estimate", "data"}
    BY EntryIsCurrent DEF SInv
  <2>2. ASSUME NEW l \in Locations, NEW t \in Txs
        PROVE  \/ last_reads[t][l] \in {Unread, FromStorage}
               \/ \E u \in 0 .. t - 1 : \E i \in 0 .. incarnation[u] : last_reads[t][l] = FromTx(u, i)
    <3>1. OriginOK(last_reads[t][l], l, t)
      BY DEF SInv, ReadsOK
    <3>2. ASSUME NEW u \in Txs, NEW i \in Nat, last_reads[t][l] = FromTx(u, i), u < t, Past(u, i, l)
          PROVE  \E v \in 0 .. t - 1 : \E j \in 0 .. incarnation[v] : last_reads[t][l] = FromTx(v, j)
      <4>1. incarnation[u] \in Nat
        BY DEF SInv, MInv, IInv, TypeOK
      <4>2. u \in 0 .. t - 1 /\ i \in 0 .. incarnation[u]
        BY <3>2, <4>1 DEF Txs, Past
      <4> QED
        BY <3>2, <4>2
    <3> QED
      BY <3>1, <3>2 DEF OriginOK
  <2> QED
    BY <2>1, <2>2 DEF SInv, MInv, Shape, Mpcs, MemTypeOK
<1> QED
  BY <1>1, SerialInvariance, PTL

-----------------------------------------------------------------------------
(* Sequential execution *)

\* The values v are what transaction t of b reads, one after the other, when it
\* runs alone on the state s, and it then does something else than read.
RunsTo(b, t, s, v) ==
  /\ \A j \in 1 .. Len(v) :
       /\ Behaviour(b[t], t, Prefix(v, j - 1)).op = "read"
       /\ v[j] = s[Behaviour(b[t], t, Prefix(v, j - 1)).loc]
  /\ Behaviour(b[t], t, v).op # "read"

\* SeqReads computes them, for there is only one such run.
LEMMA SeqReadsIs ==
  ASSUME NEW b, NEW t, NEW s, NEW v, IsSeq(v), Len(v) <= MaxReads, RunsTo(b, t, s, v)
  PROVE  SeqReads(b, t, s) = v
<1> DEFINE More(u) == LET x == Behaviour(b[t], t, u)
                      IN IF x.op = "read" THEN Append(u, s[x.loc]) ELSE u
           R == CHOOSE g : g = [k \in 0 .. MaxReads |-> IF k = 0 THEN <<>> ELSE More(g[k - 1])]
           Cut(k) == IF k < Len(v) THEN k ELSE Len(v)
           F == [k \in 0 .. MaxReads |-> Prefix(v, Cut(k))]
<1>0. Len(v) \in Nat /\ MaxReads \in Nat /\ Prefix(v, Len(v)) = v
  BY PrefixFacts, MaxReadsAssumption
<1>1. Prefix(v, 0) = <<>>
  BY DEF Prefix
<1>2. ASSUME NEW k \in 0 .. MaxReads, k # 0 PROVE Prefix(v, Cut(k)) = More(Prefix(v, Cut(k - 1)))
  <2>1. k \in Nat /\ k - 1 \in Nat
    BY <1>0, <1>2
  <2>2. CASE k - 1 < Len(v)
    <3>1. Cut(k - 1) = k - 1 /\ Cut(k) = k /\ k \in 1 .. Len(v)
      BY <1>0, <2>1, <2>2
    <3>2. More(Prefix(v, k - 1)) = Append(Prefix(v, k - 1), v[k])
      BY <3>1 DEF RunsTo
    <3>3. k - 1 \in 0 .. Len(v) - 1 /\ (k - 1) + 1 = k
      BY <1>0, <2>1, <2>2
    <3>4. Append(Prefix(v, k - 1), v[k]) = Prefix(v, k)
      BY <3>3, PrefixFacts
    <3> HIDE DEF Cut, More
    <3> QED
      BY <3>1, <3>2, <3>4
  <2>3. CASE ~(k - 1 < Len(v))
    <3>1. Cut(k - 1) = Len(v) /\ Cut(k) = Len(v)
      BY <1>0, <2>1, <2>3
    <3> QED
      BY <1>0, <3>1 DEF RunsTo
  <2> QED
    BY <2>2, <2>3
<1>3. F = [k \in 0 .. MaxReads |-> IF k = 0 THEN <<>> ELSE More(F[k - 1])]
  <2> HIDE DEF More
  <2>1. ASSUME NEW k \in 0 .. MaxReads PROVE F[k] = IF k = 0 THEN <<>> ELSE More(F[k - 1])
    <3>1. CASE k = 0
      BY <1>0, <1>1, <3>1
    <3>2. CASE k # 0
      <4>1. k - 1 \in 0 .. MaxReads
        BY <1>0, <3>2
      <4> QED
        BY <1>2, <3>2, <4>1
    <3> QED
      BY <3>1, <3>2
  <2> QED
    BY <2>1
<1>4. R = [k \in 0 .. MaxReads |-> IF k = 0 THEN <<>> ELSE More(R[k - 1])]
  <2> HIDE DEF F, More
  <2> QED
    BY <1>3
<1>5. SeqReads(b, t, s) = R[MaxReads]
  BY DEF SeqReads
<1> HIDE DEF R, More
<1>6. \A k \in 0 .. MaxReads : R[k] = F[k]
  <2> DEFINE Bad == {k \in 0 .. MaxReads : R[k] # F[k]}
  <2> SUFFICES ASSUME Bad # {} PROVE FALSE
    OBVIOUS
  <2>1. Bad \in SUBSET Nat
    BY <1>0
  <2>2. PICK m \in Bad : \A n \in Bad : ~(n < m)
    BY <2>1, Least
  <2> HIDE DEF F
  <2>3. CASE m = 0
    BY <1>3, <1>4, <2>2, <2>3
  <2>4. CASE m # 0
    <3>1. m - 1 \in 0 .. MaxReads /\ m - 1 < m
      BY <1>0, <2>2, <2>4
    <3>2. R[m - 1] = F[m - 1]
      BY <2>2, <3>1
    <3> QED
      BY <1>3, <1>4, <2>2, <2>4, <3>1, <3>2
  <2> QED
    BY <2>3, <2>4
<1>7. F[MaxReads] = v
  <2>1. MaxReads \in 0 .. MaxReads /\ Cut(MaxReads) = Len(v)
    BY <1>0
  <2> QED
    BY <1>0, <2>1
<1> QED
  BY <1>0, <1>5, <1>6, <1>7

\* The state after transaction t, run alone on the state u.
After(b, t, u) ==
  LET x == SeqLast(b, t, u)
      writes == IF x.op = "ok" THEN x.writes ELSE [l \in {} |-> 0]
  IN [l \in Locations |-> IF l \in DOMAIN writes THEN writes[l] ELSE u[l]]

\* SeqState is defined for every block: one transaction after the other.
LEMMA SeqStateIs ==
  ASSUME NEW b
  PROVE  /\ SeqState(b)[0] = [l \in Locations |-> Initially(l)]
         /\ \A t \in Txs : SeqState(b)[t + 1] = After(b, t, SeqState(b)[t])
<1> DEFINE G0 == [l \in Locations |-> Initially(l)]
           Eq(g, n) == g = [t \in 0 .. n |-> IF t = 0 THEN G0 ELSE After(b, t - 1, g[t - 1])]
           R == CHOOSE g : Eq(g, BlockSize)
<1>0. BlockSize \in Nat
  BY BlockSizeAssumption
<1>1. SeqState(b) = R
  BY DEF SeqState, After
<1>2. \A n \in 0 .. BlockSize : \E g : Eq(g, n)
  <2> HIDE DEF G0
  <2> DEFINE Bad == {n \in 0 .. BlockSize : ~\E g : Eq(g, n)}
  <2> SUFFICES ASSUME Bad # {} PROVE FALSE
    OBVIOUS
  <2>1. Bad \in SUBSET Nat
    BY <1>0
  <2>2. PICK m \in Bad : \A n \in Bad : ~(n < m)
    BY <2>1, Least
  <2>3. CASE m = 0
    <3> DEFINE g == [t \in 0 .. 0 |-> G0]
    <3>1. Eq(g, 0)
      OBVIOUS
    <3> QED
      BY <2>2, <2>3, <3>1
  <2>4. CASE m # 0
    <3>1. m - 1 \in 0 .. BlockSize /\ m - 1 < m /\ m \in Nat
      BY <1>0, <2>2, <2>4
    <3>2. PICK g : Eq(g, m - 1)
      BY <2>2, <3>1
    <3> DEFINE h == [t \in 0 .. m |-> IF t = m THEN After(b, m - 1, g[m - 1]) ELSE g[t]]
    <3>3. ASSUME NEW t \in 0 .. m PROVE h[t] = IF t = 0 THEN G0 ELSE After(b, t - 1, h[t - 1])
      <4>1. CASE t = m
        <5>1. h[m - 1] = g[m - 1]
          BY <3>1
        <5> QED
          BY <2>4, <4>1, <5>1
      <4>2. CASE t # m
        <5>1. t \in 0 .. m - 1
          BY <3>1, <4>2
        <5>2. h[t] = g[t] /\ (t # 0 => h[t - 1] = g[t - 1])
          BY <3>1, <4>2, <5>1
        <5>3. g[t] = IF t = 0 THEN G0 ELSE After(b, t - 1, g[t - 1])
          BY <3>2, <5>1
        <5> QED
          BY <5>2, <5>3
      <4> QED
        BY <4>1, <4>2
    <3>4. Eq(h, m)
      BY <3>3
    <3> QED
      BY <2>2, <3>4
  <2> QED
    BY <2>3, <2>4
<1>3. Eq(R, BlockSize)
  <2> HIDE DEF Eq
  <2>1. \E g : Eq(g, BlockSize)
    BY <1>0, <1>2
  <2> QED
    BY <2>1
<1> HIDE DEF R
<1>4. R[0] = G0
  BY <1>0, <1>3
<1>5. ASSUME NEW t \in Txs PROVE R[t + 1] = After(b, t, R[t])
  <2>1. t + 1 \in 0 .. BlockSize /\ t + 1 # 0 /\ (t + 1) - 1 = t
    BY <1>0 DEF Txs
  <2> HIDE DEF G0
  <2> QED
    BY <1>3, <2>1
<1> QED
  BY <1>1, <1>4, <1>5

-----------------------------------------------------------------------------
(* The end of a block that is not given up *)

\* Then every transaction is recorded, and has read what a read would find now.
LEMMA CompleteIsCurrent ==
  ASSUME VmContract, SInv, AllExited, ~aborted, NEW t \in Txs
  PROVE  /\ Recorded(t)
         /\ IsSeq(results[t]) /\ Len(results[t]) <= MaxReads
         /\ \A j \in 1 .. Len(results[t]) :
              LET x == Asked(t, results[t], j)
              IN x.op = "read" /\ x.loc \in Locations /\ results[t][j] = Value(x.loc, t)
<1>0. MInv /\ IInv /\ TypeOK /\ Shape /\ MpcOK /\ ReadsOK /\ ReadsAreCovered
  BY DEF SInv, MInv, IInv
<1>1. Finished(t)
  BY <1>0, TotalFromIInv DEF CompletionIsTotal, Finished
<1>2. validation_idx \in Int /\ t \in Int /\ ~(validation_idx <= t)
  BY <1>0, BlockSizeAssumption DEF IInv, ValidationIdxIsSeen, AllExited, TypeOK, Txs
<1>3. \A w \in Workers : pc[w] = "exited" /\ mpc[w] = "idle"
  BY <1>0 DEF AllExited, MpcOK, MpcAt, Shape, Mpcs
<1>4. ASSUME NEW l \in Locations PROVE ~Broken(l, t)
  <2>1. ~Covered(l, t)
    BY <1>2, <1>3 DEF Covered, WillCheck, WillRewind
  <2> QED
    BY <1>0, <1>1, <2>1 DEF ReadsAreCovered
<1>5. Recorded(t) /\ HasRecord(t)
  BY <1>0, <1>1, FinishedHasRecord DEF HasRecord
<1>6. Explains(last_reads[t], results[t], t) /\ IsSeq(results[t])
  BY <1>0, <1>5 DEF ReadsOK, Shape
<1>7. ASSUME NEW j \in 1 .. Len(results[t]), NEW x, x = Asked(t, results[t], j)
      PROVE  x.op = "read" /\ x.loc \in Locations /\ j - 1 < MaxReads /\ results[t][j] = Value(x.loc, t)
  <2>1. x.op = "read" /\ Agrees(last_reads[t][x.loc], x.loc, results[t][j])
    BY <1>6, <1>7 DEF Explains
  <2>2. x.loc \in Locations /\ j - 1 < MaxReads
    BY <1>0, <1>6, <1>7, <2>1, AskedLocations
  <2> DEFINE l == x.loc
  <2>3. last_reads[t][l] # Unread /\ OriginHolds(l, t)
    BY <1>4, <2>1, <2>2 DEF Agrees, Broken
  <2>4. Agrees(Origin(l, t), l, results[t][j])
    BY <2>1, <2>3 DEF OriginHolds
  <2>5. CASE HasData(l, t)
    <3> DEFINE u == Max(Writers(l, t))
    <3>1. u \in Txs /\ data[l][u].kind = "data" /\ Closest(l, t) = data[l][u]
      BY <2>2, <2>5, TxsFacts, ClosestFacts DEF HasData, Closest
    <3>2. Origin(l, t) = FromTx(u, incarnation[u])
      BY <1>0, <2>2, <2>5, <3>1, EntryIsCurrent DEF Origin
    <3>3. Value(l, t) = data[l][u].val
      BY <2>5, <3>1 DEF Value
    <3> HIDE DEF u, l
    <3>4. data[l][u].val = results[t][j]
      BY <2>4, <3>1, <3>2 DEF Agrees
    <3> QED
      BY <2>1, <2>2, <3>3, <3>4 DEF l
  <2>6. CASE ~HasData(l, t)
    BY <2>1, <2>2, <2>4, <2>6 DEF Origin, Value, Agrees
  <2> QED
    BY <2>5, <2>6
<1>8. Len(results[t]) <= MaxReads
  <2>1. Len(results[t]) \in Nat /\ MaxReads \in Nat
    BY <1>6, PrefixFacts, MaxReadsAssumption
  <2>2. CASE Len(results[t]) = 0
    BY <2>1, <2>2
  <2>3. CASE Len(results[t]) # 0
    <3>1. Len(results[t]) \in 1 .. Len(results[t])
      BY <2>1, <2>3
    <3>2. Len(results[t]) - 1 < MaxReads
      BY <1>7, <3>1
    <3> QED
      BY <2>1, <3>2
  <2> QED
    BY <2>2, <2>3
<1> QED
  BY <1>5, <1>6, <1>7, <1>8

\* A recorded transaction leaves its writes to those after it.
LEMMA ValueAfter ==
  ASSUME NEW t \in Txs, Recorded(t), NEW l \in Locations
  PROVE  Value(l, t + 1) = IF l \in DOMAIN Ran(t).writes THEN Ran(t).writes[l] ELSE Value(l, t)
<1>0. t \in Nat /\ \A u \in Txs : u \in Nat
  BY DEF Txs
<1>1. CASE l \in last_writes[t]
  <2>1. data[l][t] = Data(incarnation[t], Ran(t).writes[l])
    BY <1>1 DEF Recorded
  <2>2. t \in Writers(l, t + 1) /\ Writers(l, t + 1) \in SUBSET Txs /\ \A u \in Writers(l, t + 1) : u <= t
    BY <1>0, <2>1, EntryKinds DEF Writers
  <2>3. Max(Writers(l, t + 1)) = t
    BY <2>2, MaxIs
  <2> QED
    BY <1>1, <2>1, <2>2, <2>3, EntryKinds DEF Recorded, Value, HasData, Closest
<1>2. CASE l \notin last_writes[t]
  <2>1. data[l][t].kind = "none"
    BY <1>2, EntryKinds DEF Recorded
  <2>2. Writers(l, t + 1) = Writers(l, t)
    <3>1. \A u \in Txs : u # t => (u < t + 1 <=> u < t)
      BY <1>0
    <3>2. \A u \in Txs : u < t + 1 /\ data[l][u].kind # "none" <=> u < t /\ data[l][u].kind # "none"
      BY <1>0, <2>1, <3>1
    <3> QED
      BY <3>2 DEF Writers
  <2>3. Value(l, t + 1) = Value(l, t)
    BY <2>2 DEF Value, HasData, Closest
  <2> QED
    BY <1>2, <2>3 DEF Recorded
<1> QED
  BY <1>1, <1>2

\* So the memory below t is the state of sequential execution before t, by
\* induction on t, and the result of t stems from the reads of sequential
\* execution.
LEMMA CompleteIsSequential ==
  ASSUME VmContract, SInv, AllExited, ~aborted
  PROVE  /\ \A t \in 0 .. BlockSize : \A l \in Locations : Value(l, t) = SeqState(block)[t][l]
         /\ \A t \in Txs : /\ SeqReads(block, t, SeqState(block)[t]) = results[t]
                           /\ SeqLast(block, t, SeqState(block)[t]).op = "ok"
<1> DEFINE s == SeqState(block)
           Same(t) == \A l \in Locations : Value(l, t) = s[t][l]
<1>0. BlockSize \in Nat
  BY BlockSizeAssumption
<1>1. s[0] = [l \in Locations |-> Initially(l)] /\ \A t \in Txs : s[t + 1] = After(block, t, s[t])
  BY SeqStateIs
<1> HIDE DEF s
<1>2. Same(0)
  <2>1. \A l \in Locations : Writers(l, 0) = {}
    BY DEF Writers, Txs
  <2> QED
    BY <1>1, <2>1 DEF Value, HasData
<1>3. ASSUME NEW t \in Txs, Same(t)
      PROVE  SeqReads(block, t, s[t]) = results[t] /\ SeqLast(block, t, s[t]) = Ran(t) /\ Ran(t).op = "ok"
  <2>1. /\ Recorded(t) /\ IsSeq(results[t]) /\ Len(results[t]) <= MaxReads
        /\ \A j \in 1 .. Len(results[t]) :
             LET x == Asked(t, results[t], j)
             IN x.op = "read" /\ x.loc \in Locations /\ results[t][j] = Value(x.loc, t)
    BY CompleteIsCurrent
  <2>2. Ran(t).op = "ok"
    BY <2>1 DEF Recorded
  <2>3. RunsTo(block, t, s[t], results[t])
    BY <1>3, <2>1, <2>2 DEF RunsTo, Asked, Ran
  <2>4. SeqReads(block, t, s[t]) = results[t]
    BY <2>1, <2>3, SeqReadsIs
  <2> QED
    BY <2>2, <2>4 DEF SeqLast, Ran
<1>4. ASSUME NEW t \in Txs, Same(t) PROVE Same(t + 1)
  <2>1. SeqLast(block, t, s[t]) = Ran(t) /\ Ran(t).op = "ok"
    BY <1>3, <1>4
  <2>2. \A l \in Locations : s[t + 1][l] = IF l \in DOMAIN Ran(t).writes THEN Ran(t).writes[l] ELSE s[t][l]
    <3>1. s[t + 1] = After(block, t, s[t])
      BY <1>1
    <3>2. ASSUME NEW u, SeqLast(block, t, u) = Ran(t)
          PROVE  After(block, t, u) =
                   [l \in Locations |-> IF l \in DOMAIN Ran(t).writes THEN Ran(t).writes[l] ELSE u[l]]
      BY <2>1, <3>2 DEF After
    <3> QED
      BY <2>1, <3>1, <3>2
  <2>3. Recorded(t)
    BY CompleteIsCurrent
  <2> QED
    BY <1>4, <2>2, <2>3, ValueAfter
<1>5. \A t \in 0 .. BlockSize : Same(t)
  <2> DEFINE Bad == {t \in 0 .. BlockSize : ~Same(t)}
  <2> HIDE DEF Same
  <2> SUFFICES ASSUME Bad # {} PROVE FALSE
    OBVIOUS
  <2>1. Bad \in SUBSET Nat
    BY <1>0
  <2>2. PICK m \in Bad : \A n \in Bad : ~(n < m)
    BY <2>1, Least
  <2>3. m # 0
    BY <1>2, <2>2
  <2>4. m - 1 \in Txs /\ m - 1 \in 0 .. BlockSize /\ m - 1 < m /\ (m - 1) + 1 = m
    BY <1>0, <2>2, <2>3 DEF Txs
  <2>5. Same(m - 1)
    BY <2>2, <2>4
  <2>6. Same((m - 1) + 1)
    BY <1>4, <2>4, <2>5
  <2> QED
    BY <2>2, <2>4, <2>6
<1>6. \A t \in Txs : Same(t)
  <2> HIDE DEF Same
  <2> QED
    BY <1>5, TxsFacts
<1>7. \A t \in 0 .. BlockSize : \A l \in Locations : Value(l, t) = s[t][l]
  BY <1>5
<1>8. \A t \in Txs : SeqReads(block, t, s[t]) = results[t] /\ SeqLast(block, t, s[t]).op = "ok"
  <2> HIDE DEF Same
  <2> QED
    BY <1>3, <1>6
<1> QED
  BY <1>7, <1>8 DEF s

\* A block that is not given up leaves in the memory the final state of
\* sequential execution, for every block, number of transactions and workers.
THEOREM FinalMemoryHolds ==
  ASSUME VmContract
  PROVE  PexeSpec => []FinalMemory
<1>1. SInv => FinalMemory
  <2> SUFFICES ASSUME SInv, AllExited, ~aborted
               PROVE  /\ \A l \in Locations, t \in Txs : data[l][t].kind # "estimate"
                      /\ \A l \in Locations : Value(l, BlockSize) = FinalStates[block][l]
    BY DEF FinalMemory
  <2>1. \A l \in Locations, t \in Txs : data[l][t].kind # "estimate"
    BY CompleteIsCurrent, EntryKinds DEF Recorded
  <2>2. FinalStates[block] = SeqState(block)[BlockSize]
    BY DEF FinalStates, SInv, MInv, Shape
  <2>3. \A l \in Locations : Value(l, BlockSize) = SeqState(block)[BlockSize][l]
    BY CompleteIsSequential, BlockSizeAssumption
  <2> QED
    BY <2>1, <2>2, <2>3
<1> QED
  BY <1>1, SerialInvariance, PTL

-----------------------------------------------------------------------------
(* What is returned *)

\* Sequential execution returns an error.
Fails(b) == SequentialOutcome(b).tag = "err"

\* An error other than a nonce mismatch or missing funds does not come from a
\* value that only a speculative execution reads.  The code has no protection
\* against one that does: it gives the block up at once.
ErrorsAreReal ==
  \A b \in Blocks, t \in Txs : \A v : IsSeq(v) /\ Behaviour(b[t], t, v).op = "invalid" => Fails(b)

\* A worker between scheduler.abort() and the reason, and the reason.
ErrInv ==
  /\ \A w \in Workers : pc[w] = "setReason" => Now(w).op \in {"fallback", "read"} \/ Fails(block)
  /\ abort_reason = "ExecutionError" => Fails(block)

\* Sequential execution fails if one of its transactions does.
LEMMA FailsIf ==
  ASSUME NEW b, NEW t \in Txs, SeqLast(b, t, SeqState(b)[t]).op \in {"notYet", "invalid"}
  PROVE  Fails(b)
<1>1. SequentialOutcome(b) = [tag |-> "err"]
  BY DEF SequentialOutcome
<1> QED
  BY <1>1 DEF Fails

\* The outcome is an error, or one result for each transaction.
LEMMA OutcomeKinds ==
  ASSUME NEW b
  PROVE  /\ SequentialOutcome(b).tag \in {"ok", "err"}
         /\ Fails(b) => SequentialOutcome(b) = [tag |-> "err"]
<1> DEFINE R == [tag |-> "ok", results |-> [t \in Txs |-> SeqReads(b, t, SeqState(b)[t])]]
<1>1. SequentialOutcome(b) = [tag |-> "err"] \/ SequentialOutcome(b) = R
  BY DEF SequentialOutcome
<1>2. R.tag = "ok"
  OBVIOUS
<1> HIDE DEF R
<1> QED
  BY <1>1, <1>2 DEF Fails

\* The first transaction reads from storage alone, so that what it does is what
\* it does in sequential execution.
LEMMA FirstIsSequential ==
  ASSUME VmContract, SInv, NEW w \in Workers, tx[w] = 0, Now(w).op # "read"
  PROVE  SeqLast(block, 0, SeqState(block)[0]) = Now(w)
<1> DEFINE v == vals[w]
           s == SeqState(block)[0]
<1>0. Shape /\ ReadsOK /\ 0 \in Txs /\ IsSeq(v)
  BY DEF SInv, MInv, IInv, TypeOK, Shape
<1>1. s = [l \in Locations |-> Initially(l)]
  BY SeqStateIs
<1>2. \A l \in Locations : reads[w][l] \in {Unread, FromStorage}
  <2>1. \A u \in Txs : ~(u < 0)
    BY DEF Txs
  <2> QED
    BY <1>0, <2>1 DEF ReadsOK, OriginOK
<1>3. Explains(reads[w], v, 0)
  BY <1>0 DEF ReadsOK
<1> HIDE DEF v, s
<1>4. ASSUME NEW j \in 1 .. Len(v), NEW x, x = Asked(0, v, j)
      PROVE  x.op = "read" /\ v[j] = s[x.loc] /\ j - 1 < MaxReads
  <2>1. x.op = "read" /\ Agrees(reads[w][x.loc], x.loc, v[j])
    BY <1>3, <1>4 DEF Explains
  <2>2. x.loc \in Locations /\ j - 1 < MaxReads
    BY <1>0, <1>4, <2>1, AskedLocations
  <2>3. v[j] = Initially(x.loc)
    BY <1>2, <2>1, <2>2 DEF Agrees
  <2> QED
    BY <1>1, <2>1, <2>2, <2>3
<1>5. Len(v) <= MaxReads
  <2>1. Len(v) \in Nat /\ MaxReads \in Nat
    BY <1>0, PrefixFacts, MaxReadsAssumption
  <2>2. CASE Len(v) = 0
    BY <2>1, <2>2
  <2>3. CASE Len(v) # 0
    <3>1. Len(v) \in 1 .. Len(v)
      BY <2>1, <2>3
    <3>2. Len(v) - 1 < MaxReads
      BY <1>4, <3>1
    <3> QED
      BY <2>1, <3>2
  <2> QED
    BY <2>2, <2>3
<1>6. RunsTo(block, 0, s, v)
  BY <1>4 DEF RunsTo, Asked, Now, v
<1>7. SeqReads(block, 0, s) = v
  BY <1>0, <1>5, <1>6, SeqReadsIs
<1> QED
  BY <1>7 DEF SeqLast, Now, v, s

\* Every step of a worker keeps it true that an error is one of sequential
\* execution too.
LEMMA ErrStep ==
  ASSUME VmContract, ErrorsAreReal, SInv, ErrInv, NEW w \in Workers, PexeStep(w)
  PROVE  ErrInv'
<1>0. TypeOK /\ Shape /\ MpcOK /\ tx[w] \in Txs
  BY DEF SInv, MInv, IInv, TypeOK
<1>1. Elsewhere(w) /\ Apart(w) /\ Others(w)
  BY MInvWorker DEF SInv
<1>2. block' = block /\ \A v \in Workers \ {w} : pc'[v] = pc[v] /\ Now(v)' = Now(v)
  BY <1>1 DEF Apart, Elsewhere, Others, Now
<1>a. ASSUME pc'[w] # "setReason", abort_reason' = abort_reason PROVE ErrInv'
  BY <1>2, <1>a DEF ErrInv
<1>b. ASSUME VmFatal(w), UNCHANGED memVars, Now(w).op \in {"fallback", "read"} \/ Fails(block) PROVE ErrInv'
  <2>1. Now(w)' = Now(w) /\ abort_reason' = abort_reason
    BY <1>b DEF VmFatal, locals, memVars, memLocals, Now
  <2> QED
    BY <1>2, <1>b, <2>1 DEF ErrInv
<1>3. CASE pc[w] # "setReason" /\ WorkerStep(w) /\ UNCHANGED memVars
  BY <1>0, <1>3, <1>a, WorkerOutside, ReasonStays
<1> USE DEF TypeOK, Goto, Clear, endVars
<1>4. CASE pc[w] \in {"execute", "validate", "convert"} /\ pc' = pc /\ abort_reason' = abort_reason
  BY <1>4, <1>a
<1>5. CASE VmReadInconsistent(w) BY <1>0, <1>5, <1>a DEF VmReadInconsistent, VmRetry
<1>6. CASE VmReadEstimate(w) BY <1>0, <1>6, <1>a DEF VmReadEstimate, VmBlocking
<1>7. CASE VmNotYet(w) /\ tx[w] > 0 BY <1>0, <1>7, <1>a DEF VmNotYet, VmBlocking
<1>8. CASE VmNotYet(w) /\ ~(tx[w] > 0)
  <2>1. tx[w] = 0 /\ Now(w).op = "notYet" /\ VmFatal(w) /\ UNCHANGED memVars
    BY <1>0, <1>8 DEF VmNotYet, Does, memVars, Txs
  <2>2. SeqLast(block, 0, SeqState(block)[0]) = Now(w)
    BY <2>1, FirstIsSequential
  <2>3. Fails(block)
    BY <1>0, <2>1, <2>2, FailsIf
  <2> QED
    BY <1>b, <2>1, <2>3
<1>9. CASE VmStop(w)
  <2>1. Now(w).op \in {"fallback", "invalid", "read"} /\ VmFatal(w) /\ UNCHANGED memVars
    BY <1>9 DEF VmStop, Does
  <2>2. Now(w).op = "invalid" => Fails(block)
    BY <1>0 DEF ErrorsAreReal, Now, Shape
  <2> QED
    BY <1>b, <2>1, <2>2
<1>10. CASE GiveUp(w)
  <2>1. pc[w] = "setReason" /\ pc'[w] # "setReason"
    BY <1>0, <1>10 DEF GiveUp, SetAbortReason
  <2>2. abort_reason' = "ExecutionError" => abort_reason = "ExecutionError" \/ Now(w).op \notin {"fallback", "read"}
    BY <1>10 DEF GiveUp, SetAbortReason
  <2> QED
    BY <1>2, <2>1, <2>2 DEF ErrInv
<1>11. CASE ExecuteOk(w) BY <1>0, <1>11, <1>a DEF ExecuteOk, VmOk
<1>12. CASE ValidateCheck(w) /\ ~(UNCHANGED vars) BY <1>0, <1>12, <1>a DEF ValidateCheck, Validate
<1>13. CASE ValidateEnd(w) BY <1>0, <1>13, <1>a DEF ValidateEnd, Validate
<1>14. CASE ConvertEnd(w) BY <1>0, <1>14, <1>a DEF ConvertEnd, ConvertWrites
<1>15. ASSUME UNCHANGED vars, pc[w] \in {"execute", "validate", "convert"} PROVE ErrInv'
  BY <1>4, <1>15 DEF vars
<1>16. CASE VmRead(w) \/ RecordReads(w) BY <1>15, <1>16 DEF VmRead, RecordReads, Does
<1>17. CASE RecordRemove(w) \/ RecordInsert(w) \/ (ValidateCheck(w) /\ UNCHANGED vars) \/ ConvertOne(w)
  <2>1. pc[w] \in {"execute", "validate", "convert"}
    BY <1>0, <1>17 DEF RecordRemove, RecordInsert, ValidateCheck, ConvertOne, MpcOK, MpcAt
  <2> QED
    BY <1>15, <1>17, <2>1 DEF RecordRemove, RecordInsert, ConvertOne
<1>18. CASE ValidateStart(w) \/ ConvertStart(w) BY <1>15, <1>18 DEF ValidateStart, ConvertStart
<1> QED
  BY <1>3, <1>5, <1>6, <1>7, <1>8, <1>9, <1>10, <1>11, <1>12, <1>13, <1>14, <1>16, <1>17, <1>18 DEF PexeStep

\* Once all workers have left, the outcome is that of sequential execution.
LEMMA OutcomeIsSequential ==
  ASSUME VmContract, SInv, ErrInv, AllExited
  PROVE  Outcome = OutcomeOf(block) /\ Outcome # [tag |-> "running"]
<1>0. IInv /\ Shape /\ block \in Blocks /\ abort_reason \in {"None", "FallbackToSequential", "ExecutionError"}
  BY DEF SInv, MInv, IInv, TypeOK, Reasons, Shape
<1>1. OutcomeOf(block) = SequentialOutcome(block)
  BY <1>0 DEF OutcomeOf, SequentialOutcomes
<1>2. OutcomeOf(block) # [tag |-> "running"]
  <2>1. [tag |-> "running"].tag = "running"
    OBVIOUS
  <2> QED
    BY <1>1, <2>1, OutcomeKinds
<1>3. CASE abort_reason = "None"
  <2>1. ~aborted
    BY <1>0, <1>3, ReasonFromIInv DEF AbortHasReason
  <2>2. \A t \in Txs : /\ SeqReads(block, t, SeqState(block)[t]) = results[t]
                       /\ SeqLast(block, t, SeqState(block)[t]).op = "ok"
    BY <2>1, CompleteIsSequential
  <2>3. [t \in Txs |-> SeqReads(block, t, SeqState(block)[t])] = results
    BY <1>0, <2>2 DEF Shape
  <2>4. ~\E t \in Txs : SeqLast(block, t, SeqState(block)[t]).op \in {"notYet", "invalid"}
    BY <2>2
  <2>5. SequentialOutcome(block) = [tag |-> "ok", results |-> results]
    BY <2>3, <2>4 DEF SequentialOutcome
  <2>6. Outcome = [tag |-> "ok", results |-> results]
    BY <1>3 DEF Outcome
  <2> QED
    BY <1>1, <1>2, <2>5, <2>6
<1>4. CASE abort_reason = "FallbackToSequential"
  BY <1>2, <1>4 DEF Outcome
<1>5. CASE abort_reason = "ExecutionError"
  <2>1. Outcome = [tag |-> "err"]
    BY <1>5 DEF Outcome
  <2>2. SequentialOutcome(block) = [tag |-> "err"]
    BY <1>5, OutcomeKinds DEF ErrInv
  <2> QED
    BY <1>1, <1>2, <2>1, <2>2
<1> QED
  BY <1>0, <1>3, <1>4, <1>5

\* Nobody moves any more once all have left.
LEMMA ExitedStays ==
  ASSUME SInv, AllExited, [PexeNext]_pexeVars
  PROVE  UNCHANGED pexeVars
<1>1. \A w \in Workers : pc[w] = "exited" /\ mpc[w] = "idle"
  BY DEF AllExited, SInv, MInv, MpcOK, MpcAt, Shape, Mpcs
<1>2. ASSUME NEW w \in Workers, PexeStep(w) PROVE FALSE
  <2>1. ~WorkerStep(w)
    BY <1>1, ReasonStays
  <2> QED
    BY <1>1, <1>2, <2>1 DEF PexeStep, VmRead, VmReadInconsistent, VmReadEstimate, VmNotYet, VmStop, GiveUp, Does,
       SetAbortReason, RecordReads, RecordRemove, RecordInsert, ExecuteOk, ValidateStart, ValidateCheck, ValidateEnd,
       ConvertStart, ConvertOne, ConvertEnd
<1> QED
  BY <1>2 DEF PexeNext, Joined, pexeVars

\* The invariant under which the executor implements its promise.
RInv == SInv /\ ErrInv /\ (AllExited => Outcome = OutcomeOf(block) /\ Outcome # [tag |-> "running"])

\* An error, and any other outcome, is that of sequential execution.
THEOREM OutcomeInvariance ==
  ASSUME VmContract, ErrorsAreReal
  PROVE  PexeSpec => []RInv
<1>1. PexeInit => ErrInv
  BY DEF PexeInit, Init, ErrInv
<1>2. SInv /\ ErrInv /\ [PexeNext]_pexeVars => ErrInv'
  <2> SUFFICES ASSUME SInv, ErrInv, [PexeNext]_pexeVars PROVE ErrInv'
    OBVIOUS
  <2>1. ASSUME NEW w \in Workers, PexeStep(w) PROVE ErrInv'
    BY <2>1, ErrStep
  <2>2. CASE UNCHANGED pexeVars
    BY <2>2 DEF ErrInv, Now, pexeVars, vars, locals, endVars, memVars, memLocals
  <2> QED
    BY <2>1, <2>2 DEF PexeNext, Joined, pexeVars
<1>3. SInv /\ ErrInv => RInv
  BY OutcomeIsSequential DEF RInv
<1> QED
  BY <1>1, <1>2, <1>3, SerialInvariance, PTL DEF PexeSpec

\* execute_revm_parallel returns once, and what it returns is what
\* execute_revm_sequential returns: for every block whose transactions keep to
\* VmKeeps and whose errors are real, and any number of workers.
THEOREM ReturnsSequentialHolds ==
  ASSUME VmContract, ErrorsAreReal
  PROVE  PexeSpec => ReturnsSequential
<1>1. PexeInit => Caller!Init
  <2> SUFFICES ASSUME PexeInit PROVE Caller!Init
    OBVIOUS
  <2>1. ~AllExited
    BY WorkersAssumption DEF PexeInit, Init, AllExited
  <2>2. Outcome = [tag |-> "running"]
    BY <2>1 DEF Outcome
  <2> QED
    BY <2>2 DEF PexeInit, Caller!Init, Caller!Running
<1>2. RInv /\ RInv' /\ [PexeNext]_pexeVars => [Caller!Return]_<<block, Outcome>>
  <2> SUFFICES ASSUME RInv, RInv', [PexeNext]_pexeVars PROVE [Caller!Return]_<<block, Outcome>>
    OBVIOUS
  <2>1. CASE UNCHANGED pexeVars
    <3>1. UNCHANGED <<pc, abort_reason, results, block>>
      BY <2>1 DEF pexeVars, vars, endVars, memVars, shared
    <3> QED
      BY <3>1 DEF Outcome, AllExited
  <2>2. CASE AllExited
    BY <2>1, <2>2, ExitedStays DEF RInv
  <2>3. ASSUME ~AllExited, NEW w \in Workers, PexeStep(w) PROVE [Caller!Return]_<<block, Outcome>>
    <3>1. block' = block
      BY <2>3, MInvWorker DEF RInv, SInv, Apart
    <3>2. Outcome = [tag |-> "running"]
      BY <2>3 DEF Outcome
    <3>3. CASE AllExited'
      <4>1. Outcome' = OutcomeOf(block) /\ Outcome' # [tag |-> "running"]
        BY <3>1, <3>3 DEF RInv
      <4> QED
        BY <3>1, <3>2, <4>1 DEF Caller!Return, Caller!Running
    <3>4. CASE ~AllExited'
      <4>1. Outcome' = [tag |-> "running"]
        BY <3>4 DEF Outcome
      <4> QED
        BY <3>1, <3>2, <4>1
    <3> QED
      BY <3>3, <3>4
  <2> QED
    BY <2>1, <2>2, <2>3 DEF PexeNext, Joined, pexeVars
<1> QED
  BY <1>1, <1>2, OutcomeInvariance, PTL DEF PexeSpec, ReturnsSequential, Caller!Spec
=============================================================================
