---------------------------- MODULE MCDispatcher ----------------------------
(***************************************************************************)
(* Dispatcher on a small guest kernel for two processors:                  *)
(*   0: jCC 3        handler, also of page faults                          *)
(*   1: push %es     end of the prologue                                   *)
(*   2: jmp *reg     to 5                                                  *)
(*   3: jmp 1        the other way through the prologue                    *)
(*   4: a plain instruction                                                *)
(*   5: jCC 4                                                              *)
(*   6: iret                                                               *)
(* Blocks {0, 1, 2} and {3} belong to the prologue.  The processors make   *)
(* {5, 6} and {4, 5, 6}, which overlap; a processor that was on its way to *)
(* 5 when {4, 5, 6} was made enters that block in the middle.              *)
(***************************************************************************)
EXTENDS Dispatcher

MCEips == 0 .. 6
MCTerm == {2, 3, 6}
MCSucc == [i \in MCEips |-> CASE i = 0 -> {3} [] i = 3 -> {1}
                              [] i = 5 -> {4} [] OTHER -> {}]
MCIndirect == [i \in MCEips |-> IF i = 2 THEN {5} ELSE {}]

\* Values that nothing reads any more do not distinguish states: vcpu->eip and
\* prev_tb outside the monitor, tx_target once the jump is made.
View ==
  <<lock, lock_owner, tbs, jumptable2, jumps, chain, idt, phase, idtTodo, walk,
    pc, fault, jumptable1,
    [p \in Cpus |->
       <<IF pc[p] = "guest" THEN at[p] ELSE {},
         IF pc[p] = "monitor" THEN <<tx_target[p], edge[p]>> ELSE <<>>,
         IF Inside(p) \in {"native", "guest", "monitor", "boot"} THEN <<>>
         ELSE <<eip[p], prev_tb[p]>>,
         IF Inside(p) \in Owned THEN cur[p] ELSE {},
         IF Inside(p) \in {"disown", "unlock", "cache", "patch", "resume"}
         THEN tc_offset[p] ELSE {}>>]>>
=============================================================================
