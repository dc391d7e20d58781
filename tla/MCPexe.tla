------------------------------ MODULE MCPexe -------------------------------
(***************************************************************************)
(* Blocks for Pexe, from a catalogue of small transactions.  A written     *)
(* value is the term of what the transaction had read, so that two         *)
(* executions write the same value only if they have read the same values. *)
(***************************************************************************)
EXTENDS Pexe, TLC

CONSTANTS Kinds,            \* the kinds of transactions a block is made of
          MaxIncarnation    \* where BoundedIncarnations, if used, stops

Symmetry == Permutations(Workers)

Read(l) == [op |-> "read", loc |-> l]
Write(t, v, ls) == [op |-> "ok", writes |-> [l \in ls |-> [by |-> t, read |-> v, loc |-> l]]]
NotYet == [op |-> "notYet"]
Fallback == [op |-> "fallback"]
Invalid == [op |-> "invalid"]
IsInitial(v) == v.by = -1

\* Read the locations of ls in their order, then write to out.
Plain(t, v, ls, out) == IF Len(v) < Len(ls) THEN Read(ls[Len(v) + 1]) ELSE Write(t, v, out)

MCBehaviour(k, t, v) ==
  CASE k = "incrA"  -> Plain(t, v, <<"a">>, {"a"})
    [] k = "bToA"   -> Plain(t, v, <<"b">>, {"a"})
    [] k = "both"   -> Plain(t, v, <<"b", "a", "b">>, {"a", "b"})
    \* writes elsewhere when it runs before anyone has written "a"
    [] k = "branch" -> IF v = <<>> THEN Read("a")
                       ELSE Write(t, v, IF IsInitial(v[1]) THEN {"b"} ELSE {"a"})
    \* account "a" sends its first, and its second, transaction; both pay "b",
    \* the beneficiary
    [] k = "nonce0" -> Plain(t, v, <<"a">>, {"a", "b"})
    [] k = "nonce1" -> IF v = <<>> THEN Read("a")
                       ELSE IF IsInitial(v[1]) THEN NotYet ELSE Write(t, v, {"a", "b"})
    \* someone else's transaction, which looks at the beneficiary's balance
    [] k = "look"   -> Plain(t, v, <<"b">>, {"b"})
    \* can never be executed
    [] k = "invalid" -> Invalid
    \* reads "a", which whoever wrote it has destroyed
    [] k = "ghost"  -> IF v = <<>> THEN Read("a")
                       ELSE IF IsInitial(v[1]) THEN Write(t, v, {"b"}) ELSE Fallback
    \* "h" is a code hash: it is written, copied to "b", or read twice by someone
    \* who finds the account destroyed by whoever wrote it
    [] k = "incrH"  -> Plain(t, v, <<"h">>, {"h"})
    [] k = "hToB"   -> Plain(t, v, <<"h">>, {"b"})
    [] k = "ghostH" -> IF v # <<>> /\ ~IsInitial(v[Len(v)]) THEN Fallback
                       ELSE Plain(t, v, <<"h", "h">>, {"b"})

MCBlocks == [Txs -> Kinds]
\* Blocks without code hashes, and blocks around one.
CodeKinds == {"incrH", "hToB", "ghostH", "invalid"}
CodeBlocks == [Txs -> Kinds \cap CodeKinds]
MixedBlocks == [Txs -> Kinds \ CodeKinds] \cup CodeBlocks
\* The sender's first transaction opens the block, so that every nonce is
\* reached; or its second does, which fails the block.
NonceBlocks == {b \in MCBlocks : b[0] = "nonce0"}
                 \cup {b \in [Txs -> {"nonce0", "nonce1"}] : b[0] = "nonce1"}

\* A reader of a code hash does not wait for the transaction that is to write
\* it, and may fail its validation and be executed again any number of times
\* meanwhile: in such blocks, nothing is looked at beyond MaxIncarnation.
BoundedIncarnations == block \in CodeBlocks => \A t \in Txs : incarnation[t] <= MaxIncarnation

NoEstimates == [l \in Locations |-> {}]
BeneficiaryEstimates == [l \in Locations |-> IF l = "b" THEN Txs ELSE {}]

\* A transaction looks at how much it has read, and at whether that is initial.
SampleReads == UNION {[1 .. n -> {[by |-> -1], [by |-> 0]}] : n \in 0 .. MaxReads + 1}
ASSUME ContractAssumption == \A k \in Kinds, t \in Txs, v \in SampleReads : VmKeeps(k, t, v)
\* What fails for another reason than a nonce or funds fails in any case.
ASSUME ErrorsAssumption == \A b \in Blocks, t \in Txs, v \in SampleReads :
  Behaviour(b[t], t, v).op = "invalid" => OutcomeOf(b).tag = "err"
=============================================================================
