---------------------------- MODULE MCRpcStorage ----------------------------
(***************************************************************************)
(* A contract, a precompile that nobody has paid, and a new address.       *)
(***************************************************************************)
EXTENDS RpcStorage

MCAddresses == {"contract", "precompile", "new"}

MCChain == [a \in MCAddresses |->
  IF a = "contract"
    THEN [balance |-> 3, nonce |-> 1, code |-> "push", storage |-> [i \in Slots |-> i]]
    ELSE [balance |-> 0, nonce |-> 0, code |-> "", storage |-> [i \in Slots |-> 0]]]

ASSUME ChainAssumption == NewIsEmpty

MCBlockHash == [n \in Numbers |-> [keccak |-> "block"]]

On(op, a) == [op |-> op, address |-> a, slot |-> 1, number |-> 1]

\* One account; an account that is cached next to one that never is; and the
\* calls that touch no account.
MCWorkloads ==
  {{On("basic_ref", "contract"), On("storage", "contract"), On("code_by_hash", "contract")},
   {On("code_hash", "precompile"), On("storage", "new")},
   {On("has_storage", "new"), On("has_storage", "contract"), On("block_hash", "new"),
    On("basic", "new")}}
=============================================================================
