---------------------------- MODULE GuestProgram ----------------------------
(***************************************************************************)
(* The guest kernel as the translator sees it: instructions in address     *)
(* order, where control may leave the straight line.  A translation block  *)
(* starts anywhere and extends to the first terminating instruction        *)
(* (translate() in peep/peep.c, insn_is_terminating() in peep/insn.c).     *)
(***************************************************************************)
EXTENDS Naturals

CONSTANTS
  Cpus,       \* the processors
  Eips,       \* addresses of instructions
  Term,       \* terminating instructions
  Succ,       \* Succ[i]: targets of the direct branches of instruction i
  Indirect,   \* Indirect[i]: possible targets if i is an indirect branch
  Iret,       \* instructions that return from the kernel
  PushEs,     \* the "push %es" of the interrupt prologues
  Handlers    \* entry points: interrupt vectors and sysenter

ASSUME GuestAssumption ==
  /\ Eips \subseteq Nat
  /\ Term \subseteq Eips /\ Iret \subseteq Term /\ PushEs \subseteq Eips
  /\ Handlers \subseteq Eips
  /\ Succ \in [Eips -> SUBSET Eips]
  /\ Indirect \in [Eips -> SUBSET Eips]

\* The instructions from e to the first terminating one.
Run == [e \in Eips |->
          {i \in Eips : e <= i /\ \A t \in Term : ~(e <= t /\ t < i)}]

\* The instructions of Run[e] in front of the first "push %es".
BeforePushEs == [e \in Eips |->
                   {i \in Run[e] : \A s \in PushEs : ~(e <= s /\ s <= i)}]

=============================================================================
