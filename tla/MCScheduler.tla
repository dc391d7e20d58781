---------------------------- MODULE MCScheduler ----------------------------
(***************************************************************************)
(* Small instances of Scheduler.  The virtual machine and the memory may   *)
(* send a transaction back (a blocking read, a failed validation) only     *)
(* while its incarnation is below MaxIncarnation.  A validation that was   *)
(* started earlier may still fail later, so incarnations exceed the bound  *)
(* by the aborts in flight.                                                *)
(***************************************************************************)
EXTENDS Scheduler, TLC

CONSTANTS MaxIncarnation,   \* bound on the incarnations the environment asks for
          Faults            \* may vm.execute fail?

Symmetry == Permutations(Workers)

CanSendBack(w) == incarnation[tx[w]] < MaxIncarnation

\* An ESTIMATE of b, or a nonce that b has yet to reach, is only read while b
\* has not finished; b may finish before add_dependency looks at it.
MCBlocking(w) ==
  CanSendBack(w) /\ \E b \in Txs : ~Finished(b) /\ VmBlocking(w, b)

MCAnswer(w) ==
  \/ \E f \in Flags : VmOk(w, f)
  \/ MCBlocking(w)
  \/ Faults /\ VmFatal(w)
  \/ Validate(w, TRUE)
  \/ CanSendBack(w) /\ Validate(w, FALSE)

MCNext ==
  \/ \E w \in Workers : WorkerStep(w) \/ ConvertWrites(w) \/ MCAnswer(w) \/ VmRetry(w)
  \/ Joined

MCSpec == Init /\ [][MCNext]_vars
=============================================================================
