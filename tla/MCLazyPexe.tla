----------------------------- MODULE MCLazyPexe -----------------------------
(***************************************************************************)
(* Blocks for LazyPexe.  "alice" is rich, "carol" is the beneficiary, and  *)
(* "fred" has no account before the block.                                 *)
(***************************************************************************)
EXTENDS LazyPexe, Functions, TLC

CONSTANTS Kinds,      \* the kinds of transactions a block is made of
          Gift        \* what fred is sent by a transfer

Symmetry == Permutations(Workers)

MCStored == [a \in Accounts |->
  CASE a = "alice" -> [balance |-> 40, nonce |-> 7]
    [] a = "carol" -> [balance |-> 30, nonce |-> 0]
    [] a = "fred"  -> Empty]

Transfer(from, to, value) ==
  [kind |-> "transfer", from |-> from, to |-> to, value |-> value, gasLimit |-> 1, price |-> 2]
Call(kind, from, to) ==
  [kind |-> kind, from |-> from, to |-> to, value |-> 1, gasLimit |-> 3, price |-> 2]

Catalogue == [
  aliceFred  |-> Transfer("alice", "fred", Gift),
  carolFred  |-> Transfer("carol", "fred", Gift),
  fredAlice  |-> Transfer("fred", "alice", 1),
  nothing    |-> Transfer("alice", "fred", 0),
  payFred    |-> Call("pay", "alice", "fred"),
  payCarol   |-> Call("pay", "alice", "carol"),
  greetFred  |-> Call("greet", "alice", "fred")]

\* The sender's nonce if all its transactions below t are executed.
NonceAt(k, t) == MCStored[Catalogue[k[t]].from].nonce
                   + Cardinality({u \in Txs : u < t /\ Catalogue[k[u]].from = Catalogue[k[t]].from})
WithNonces(k) == [t \in Txs |-> Catalogue[k[t]] @@ [nonce |-> NonceAt(k, t)]]

\* Fred sends once, after others; in some orders before he has been paid.
MixedBlocks ==
  {WithNonces(k) : k \in {f \in [Txs -> Kinds] :
                            IsInjective(f) /\ "fredAlice" \in {f[1], f[2]}}}

\* Transfers of the beneficiary, of nothing and to oneself; a payment that
\* depends on whether fred is new; fred has nothing at all; a nonce is skipped.
OddBlocks ==
  LET swept == 0 :> "carolFred" @@ 1 :> "fredAlice" @@ 2 :> "payFred"
  IN {WithNonces(0 :> "carolFred" @@ 1 :> "greetFred" @@ 2 :> "nothing"),
      [WithNonces(swept) EXCEPT ![1].to = "fred"],
      WithNonces(0 :> "fredAlice" @@ 1 :> "carolFred" @@ 2 :> "nothing"),
      [WithNonces(swept) EXCEPT ![1].nonce = 1]}

MCBlocks == MixedBlocks \cup OddBlocks

\* A gift of 3 is just what fred spends.
ASSUME GiftAssumption == Gift # 3 => NotSwept
=============================================================================
