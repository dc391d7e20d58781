--------------------------- MODULE BlockExecution ---------------------------
(***************************************************************************)
(* What Pexe::execute_revm_parallel promises its caller: it returns once,  *)
(* and what it returns is what execute_revm_sequential makes of the block, *)
(* the error included.                                                     *)
(***************************************************************************)
CONSTANTS Blocks,              \* the blocks considered
          SeqOutcome(_)        \* execute_revm_sequential

VARIABLES block,               \* the block being executed
          out                  \* what has been returned

Running == [tag |-> "running"]

Init == block \in Blocks /\ out = Running

Return ==
  /\ out = Running
  /\ out' # Running
  /\ out' = SeqOutcome(block)
  /\ block' = block

Spec == Init /\ [][Return]_<<block, out>>
=============================================================================
