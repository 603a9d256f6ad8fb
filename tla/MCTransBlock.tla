---------------------------- MODULE MCTransBlock ----------------------------
(***************************************************************************)
(* TransBlock with two processors and thirteen instructions: user accesses *)
(* with an exception entry, a copied instruction with a prefix, branches   *)
(* that do not end their block and others that do, an emulated string      *)
(* instruction, and a block that does not fit into tpage.                  *)
(***************************************************************************)
EXTENDS TransBlock, TLC

MCInsn(len, ins, rep, fix) ==
  [len |-> len, rule |-> FALSE, out |-> 1, edge |-> 0, term |-> FALSE,
   ins |-> ins, rep |-> rep, fix |-> fix]
MCRule(len, out, edge, term) ==
  [len |-> len, rule |-> TRUE, out |-> out, edge |-> edge, term |-> term,
   ins |-> 0, rep |-> FALSE, fix |-> FALSE]

MCCode ==
  1 :> MCInsn(2, 3, FALSE, TRUE) @@ 3 :> MCInsn(3, 0, FALSE, FALSE)
    @@ 6 :> MCRule(2, 3, 2, FALSE) @@ 8 :> MCInsn(1, 0, FALSE, TRUE)
    @@ 9 :> MCRule(2, 1, 2, TRUE) @@ 11 :> MCInsn(1, 4, TRUE, FALSE)
    @@ 12 :> MCRule(1, 2, 0, FALSE) @@ 13 :> MCRule(1, 3, 1, TRUE)
    @@ [a \in {14, 18, 22, 26} |-> MCInsn(4, 0, FALSE, FALSE)]
    @@ 30 :> MCRule(1, 3, 0, TRUE)
MCStarts == {1, 3, 8, 11, 14}
=============================================================================
