----------------------------- MODULE MCTxTarget -----------------------------
(***************************************************************************)
(* TxTarget with two threads on two processors and two levels of           *)
(* interruption, so that a branch can be interrupted in kernel mode and    *)
(* resumed on the other processor.                                         *)
(***************************************************************************)
EXTENDS TxTarget, TLC

Symmetry == Permutations(Cpus) \cup Permutations(Threads)
              \cup Permutations(Targets)
=============================================================================
