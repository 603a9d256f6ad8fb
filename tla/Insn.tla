-------------------------------- MODULE Insn --------------------------------
(***************************************************************************)
(* What peep/insn.c and peep/regset.c tell of a decoded instruction: from  *)
(* its name and operands, without a table of the instructions.  The        *)
(* predicates of insn.c that nothing calls are left out.                   *)
(*                                                                         *)
(* Operands are numbered from 1 here and from 0 in the code.               *)
(***************************************************************************)
EXTENDS Decode, FiniteSets

EAX == 0
ECX == 1
EDX == 2
EBX == 3
ESP == 4
EBP == 5
ESI == 6
EDI == 7

\* strstart, strcmp and what strstart leaves of the name
StrStart(name, p) == Len(name) >= Len(p) /\ SubSeq(name, 1, Len(p)) = p
StartsWithOne(name, ps) == \E p \in ps : StrStart(name, p)
LastChar(name) == SubSeq(name, Len(name), Len(name))

insn_is_terminating(insn) ==
  \/ StartsWithOne(insn.name, {"j", "lj", "call", "lcall", "loop", "ret", "lret"})
  \/ insn.name \in {"iret", "int", "hlt"}

Mems(insn) == {i \in 1 .. 3 : insn.op[i].type = "mem"}
insn_accesses_mem(insn) == insn.name # "lea" /\ Mems(insn) # {}
Smallest(S) == CHOOSE i \in S : \A j \in S : i <= j

insn_is_prefetch(insn) == StartsWithOne(insn.name, {"prefe", "invlpg"})

insn_has_rep_prefix(insn) ==
  \E i \in 1 .. 3 : insn.op[i].type = "prefix" /\ insn.op[i].prefix \in {{"REPZ"}, {"REPNZ"}}

insn_has_translation(insn) == ~StartsWithOne(insn.name, {"outs", "ins"})

\* get_opcode_size; 8 fails the assertion of the code.
get_opcode_size(insn) ==
  LET sizes == {insn.op[i].size : i \in 1 .. 3} \ {0}
      size == Smallest(sizes \cup {4})
      len == Len(insn.name)
  IN  IF LastChar(insn.name) = "b" /\ (len \in 4 .. 7 \/ StrStart(insn.name, "orb")) THEN 1 ELSE size

----------------------------------------------------------------------------
\* regset_mark: the register of an operand; ah to bh are parts of eax to ebx.
RegNumber(op) == IF op.size = 1 THEN op.reg % 4 ELSE op.reg

(* __insn_get_usedef.  Without a use of its own, what an instruction        *)
(* defines is a use, too, unless it is a move.                              *)
OperandDefs(insn) == IF insn.op[1].type = "reg" THEN {RegNumber(insn.op[1])} ELSE {}

OperandUses(insn) ==
  {RegNumber(insn.op[i]) : i \in {j \in 2 .. 3 : insn.op[j].type = "reg"}}
  \cup (({insn.op[i].base : i \in Mems(insn)} \cup {insn.op[i].index : i \in Mems(insn)}) \ {NoReg})
  \cup (IF insn_has_rep_prefix(insn) THEN {ECX, ESI, EDI} ELSE {})

ImplicitUses(insn) ==
  CASE StartsWithOne(insn.name, {"idiv", "imul", "div", "mul"}) -> {EDX, EAX}
    [] StartsWithOne(insn.name, {"shrd", "shld"}) -> {ECX}
    [] StrStart(insn.name, "sahf")      -> {EAX}
    [] StrStart(insn.name, "scas")      -> {EAX, EDI}
    [] StrStart(insn.name, "cmpxchg8b") -> {EAX, EBX, ECX, EDX}
    [] StrStart(insn.name, "cmpxchg") /\ ~StrStart(insn.name, "cmpxchg8b") -> {EAX}
    [] StrStart(insn.name, "xsave")     -> {EAX, EDX}
    [] OTHER -> {}

DefsOf(insn) == OperandDefs(insn)
UsesOf(insn) ==
  OperandUses(insn) \cup ImplicitUses(insn)
  \cup (IF StartsWithOne(insn.name, {"mov", "lea"}) THEN {} ELSE OperandDefs(insn))

----------------------------------------------------------------------------
\* Flags.  A name is in a list with at most one letter behind it.
InList(name, list) ==
  \E p \in list : StrStart(name, p) /\ Len(name) <= Len(p) + 1

FlagSetters == {"cmp", "cmpxchg", "test", "and", "or", "xor", "ret", "imul", "div", "sub", "scas"}
NotReaders == {"mov", "xchg", "push", "pop", "cld", "call", "ret", "jmp", "shl", "shr", "sal", "sar",
               "inc", "dec", "add", "sub", "and", "or", "xor", "cmp", "test", "bt", "lea", "sti",
               "cli", "mfence", "sfence", "nop", "not", "imul", "div", "set", "scas"}

insn_sets_flags(insn)  == InList(insn.name, FlagSetters)
insn_reads_flags(insn) == ~InList(insn.name, NotReaders) /\ ~insn_sets_flags(insn)

----------------------------------------------------------------------------
\* writes_operand
insn_is_indirect_branch(insn) == StartsWithOne(insn.name, {"jmp", "call", "ret"})
insn_is_comparison(insn)      == StartsWithOne(insn.name, {"test", "cmp"})
SameReg(insn) ==
  /\ insn.op[1].type = "reg" /\ insn.op[2].type = "reg"
  /\ insn.op[1].reg = insn.op[2].reg
insn_is_nop(insn) ==
  \/ StartsWithOne(insn.name, {"xchg", "mov"}) /\ SameReg(insn) /\ insn.op[1].size = insn.op[2].size
  \/ insn.name = "lea"
is_xor_to_zero(insn) == StrStart(insn.name, "xor") /\ SameReg(insn)

writes_operand(insn, i) ==
  \/ i = 1 /\ ~insn_is_indirect_branch(insn) /\ ~insn_is_comparison(insn) /\ ~insn_is_nop(insn)
  \/ i = 2 /\ (is_xor_to_zero(insn) \/ StrStart(insn.name, "pop"))

=============================================================================
