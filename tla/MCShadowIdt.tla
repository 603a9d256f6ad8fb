---------------------------- MODULE MCShadowIdt ----------------------------
(***************************************************************************)
(* The construction of the shadow interrupt table for two vectors whose    *)
(* prologues meet:                                                         *)
(*   0: jCC 3        first handler, also of page faults                    *)
(*   1: push %es     end of both prologues                                 *)
(*   2: jmp *reg     to 5                                                  *)
(*   3: jmp 1                                                              *)
(*   4: jCC 3        second handler                                        *)
(*   5: iret                                                               *)
(* Blocks {1, 2} and {0, 1, 2} are made in either order, or only the       *)
(* second one, which is then entered in the middle.  The guest has no      *)
(* loop, so that a processor in the monitor can only stay there because    *)
(* it waits for the lock.                                                  *)
(***************************************************************************)
EXTENDS MCDispatcher

IdtEips == 0 .. 5
IdtTerm == {2, 3, 5}
IdtSucc == [i \in IdtEips |-> CASE i = 0 -> {3} [] i = 3 -> {1} [] i = 4 -> {3}
                                [] OTHER -> {}]
IdtIndirect == [i \in IdtEips |-> IF i = 2 THEN {5} ELSE {}]
=============================================================================
