----------------------------- MODULE Instrument -----------------------------
(***************************************************************************)
(* Shadow memory (peep/instrument.c): in front of each guest instruction   *)
(* that accesses memory outside of the stack, translate() emits code that  *)
(* marks the shadow of what it accesses.  That code needs a register and   *)
(* destroys the flags, so both are saved, unless a look ahead in the guest *)
(* code finds that their values are dead.                                  *)
(*                                                                         *)
(* The guest's code is a sequence of decoded instructions that ends with a *)
(* terminating one.  What is emitted is a sequence of operations, one for  *)
(* each snippet.                                                           *)
(***************************************************************************)
EXTENDS Insn

FS == 4
GS == 5

\* The instructions that the look ahead from the first of insns comes to.
Ahead(insns) ==
  {i \in DOMAIN insns : \A j \in 1 .. i - 1 : ~insn_is_terminating(insns[j])}

\* Mutant of DeadFlags: whoever sets the flags first, they are dead.
DeadFlagsAnySetter(insns) == \E i \in Ahead(insns) : insn_sets_flags(insns[i])

\* check_if_flags_are_dead, and that part of check_dead_flags_and_tregs
DeadFlags(insns) ==
  \E i \in Ahead(insns) :
    /\ insn_sets_flags(insns[i])
    /\ \A j \in 1 .. i - 1 : ~insn_reads_flags(insns[j])

\* The registers that serve as temporary: the n first ones but esp and, in
\* the loop of a rep prefix, its counter and pointers.
Temps(n, rep) == 0 .. n - 1 \ ({ESP} \cup IF rep THEN {ECX, ESI, EDI} ELSE {})

\* The registers that an instruction ahead defines, unused until then.
DefinedUnused(insns, i, n, rep) ==
  IF insn_is_terminating(insns[i]) THEN {}
  ELSE (Temps(n, rep) \cap DefsOf(insns[i])) \ UNION {UsesOf(insns[j]) : j \in 1 .. i}

\* opt_treg of check_dead_flags_and_tregs: a dead register, or NoReg
OptTreg(insns, n, rep) ==
  LET at == {i \in Ahead(insns) : DefinedUnused(insns, i, n, rep) # {}}
  IN  IF at = {} THEN NoReg ELSE Smallest(DefinedUnused(insns, Smallest(at), n, rep))

\* treg of check_dead_flags_and_tregs
Treg(insns, n, rep) ==
  LET free == Temps(n, FALSE) \ (UsesOf(insns[1]) \cup DefsOf(insns[1]))
  IN  CASE OptTreg(insns, n, rep) # NoReg -> OptTreg(insns, n, rep)
        [] OptTreg(insns, n, rep) = NoReg /\ rep -> EBX
        [] OptTreg(insns, n, rep) = NoReg /\ ~rep -> IF free = {} THEN NoReg ELSE Smallest(free)

----------------------------------------------------------------------------
(* The snippets, numbered in the order of snippets.h: for b, w and l        *)
(* reading, then writing, with each scale; for each form of address; then   *)
(* the string instructions.  The safe ones follow in the same order.        *)
First == [remap |-> 0, rindx |-> 24, rbase |-> 48, rdisp |-> 54,
          movs |-> 60, stos |-> 63, scas |-> 66, cmps |-> 69]
SafeOnes == 72
Widths == <<1, 2, 4>>

SnippetAt(n) ==
  LET m == n % SafeOnes
      form == CHOOSE f \in DOMAIN First :
                First[f] <= m /\ \A g \in DOMAIN First : First[g] <= m => First[g] <= First[f]
      k == m - First[form]
  IN  [form |-> form, safe |-> n >= SafeOnes, width |-> Widths[(k % 3) + 1],
       perm  |-> IF k % 6 < 3 THEN "r" ELSE "w",
       scale |-> IF form \in {"remap", "rindx"} THEN 2 ^ (k \div 6) ELSE 1]

\* Mutant of calc_offset: each scale is three snippets behind the other.
calc_offset_half(scale, opcsize, perm, safe) ==
  (CASE scale \in {0, 1} -> 0 [] scale = 2 -> 3 [] scale = 4 -> 6 [] scale = 8 -> 9)
  + (CASE opcsize = 1 -> 0 [] opcsize = 2 -> 1 [] opcsize = 4 -> 2)
  + (IF perm THEN 3 ELSE 0) + (IF safe THEN SafeOnes ELSE 0)

calc_offset(scale, opcsize, perm, safe) ==
  (CASE scale \in {0, 1} -> 0 [] scale = 2 -> 6 [] scale = 4 -> 12 [] scale = 8 -> 18)
  + (CASE opcsize = 1 -> 0 [] opcsize = 2 -> 1 [] opcsize = 4 -> 2)
  + (IF perm THEN 3 ELSE 0) + (IF safe THEN SafeOnes ELSE 0)

\* gen_shadow_code: the label, the registers vr0 and vr1, and tr0.  The
\* start of the shadow is added to the displacement.
gen_shadow_code(insn, i, safe, treg, opc_size) ==
  LET op == insn.op[i]
      label == calc_offset(op.scale, opc_size, writes_operand(insn, i), safe)
      emit(form, vr) == [kind |-> "shadow", label |-> label + First[form], vr |-> vr,
                         treg |-> treg, disp |-> op.disp]
  IN  CASE op.base # NoReg /\ op.index # NoReg -> emit("remap", <<op.base, op.index>>)
        [] op.base # NoReg /\ op.index = NoReg -> emit("rbase", <<op.base>>)
        [] op.base = NoReg /\ op.index # NoReg -> emit("rindx", <<op.index>>)
        [] op.base = NoReg /\ op.index = NoReg -> emit("rdisp", <<>>)

\* gen_shadow_str_code
gen_shadow_str_code(insn, safe, treg, opc_size) ==
  LET off == (CASE opc_size = 1 -> 0 [] opc_size = 2 -> 1 [] opc_size = 4 -> 2)
             + (IF safe THEN SafeOnes ELSE 0)
      form == CHOOSE f \in {"movs", "stos", "cmps", "scas"} : StrStart(insn.name, f)
  IN  [kind |-> "string", label |-> First[form] + off, treg |-> treg]

----------------------------------------------------------------------------
\* The accesses that instrument_memory leaves alone.
NotInstrumented(insn) ==
  \/ ~insn_accesses_mem(insn)
  \/ LET op1 == insn.op[Smallest(Mems(insn))]
     IN  op1.base \in {ESP, EBP} \/ op1.seg \in {FS, GS}
  \/ insn_is_prefetch(insn)
  \/ insn_has_rep_prefix(insn) /\ ~insn_has_translation(insn)

If(cond, ops) == IF cond THEN ops ELSE <<>>

(* instrument_memory and what translate() puts behind it: the instruction   *)
(* itself, unless the snippet of a string instruction stands for it.  entry *)
(* is whether the kernel has an exception table entry for the instruction.  *)
(* A failed assertion ends the translation.                                 *)
instrument_memory(insns, entry) ==
  LET insn == insns[1]
      guest == [kind |-> "guest"]
      rep   == insn_has_rep_prefix(insn)
      size  == get_opcode_size(insn)
      n     == IF size = 4 THEN 8 ELSE 4
      treg  == Treg(insns, n, rep)
      saved == OptTreg(insns, n, rep) = NoReg
      dead  == DeadFlags(insns)
      asserts == treg # NoReg /\ (rep \/ Cardinality(Mems(insn)) = 1)
  IN  IF NotInstrumented(insn) THEN <<guest>>
      ELSE If(~dead, <<[kind |-> "pushfl"]>>)
           \o If(saved, <<[kind |-> "push", treg |-> treg]>>)
           \o (CASE ~asserts -> <<[kind |-> "failed"]>>
                 [] asserts /\ rep -> <<gen_shadow_str_code(insn, entry, treg, size)>>
                 [] asserts /\ ~rep -> <<gen_shadow_code(insn, Smallest(Mems(insn)), entry, treg, size)>>)
           \o If(saved, <<[kind |-> "pop", treg |-> treg]>>)
           \o If(~dead, <<[kind |-> "popfl"]>>)
           \o If(~rep, <<guest>>)

=============================================================================
