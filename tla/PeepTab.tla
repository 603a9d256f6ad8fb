------------------------------- MODULE PeepTab -------------------------------
(***************************************************************************)
(* The rules of peep.tab with the code they emit, written with operators   *)
(* named like the macros of peep/peeptab_defs.h, and the pairs of          *)
(* registers that the rule compiler finds must differ (nomatch pairs).     *)
(*                                                                         *)
(* Code is a sequence of instructions and labels.  Operands are in the     *)
(* order of the disassembler, destination first.  PROFILING is off and     *)
(* JUMPTABLE_OPTMIZATION on.  The conditions of jCC are one opcode.  With  *)
(* CALL_OPT calls push addresses of translated code.                       *)
(***************************************************************************)
EXTENDS Integers, SequencesExt

----------------------------------------------------------------------------
(* Operands of templates *)

None       == [type |-> "invalid", size |-> 0, val |-> 0, tag |-> "const"]
Op(t, size, val, tag) == [type |-> t, size |-> size, val |-> val, tag |-> tag]
RegVar(n, tag)        == Op("reg", 4, n, tag)
NoReg      == Op("reg", 4, -1, "const")
ImmVar(n)  == Op("imm", 4, n, "var")
MemOp(seg, base, index, scale, disp) ==
  [type |-> "mem", size |-> 4, addrsize |-> 4, seg |-> seg, base |-> base,
   index |-> index, scale |-> scale, disp |-> disp]

\* gen_mem_modes32: the ten addressing modes, with esp no index.  An operand
\* without an index has no scale.
Mem32 ==
  LET M(base, index, scale) ==
        MemOp(Op("seg", 4, 0, "var"), base, index, scale, Op("imm", 0, 0, "var"))
      Scales == <<1, 2, 4, 8>>
  IN  <<M(RegVar(0, "var"), NoReg, 0)>>
      \o [i \in 1 .. 4 |-> M(RegVar(0, "var"), RegVar(1, "no_esp"), Scales[i])]
      \o [i \in 1 .. 4 |-> M(NoReg, RegVar(0, "no_esp"), Scales[i])]
      \o <<M(NoReg, NoReg, 0)>>

----------------------------------------------------------------------------
(* Emitted code *)

\* A register: a constant one, a variable or a temporary of the rule.
R(kind, n) == [at |-> "reg", reg |-> <<kind, n>>]
vr0 == R("var", 0)
tr0 == R("temp", 0)
tr1 == R("temp", 1)
eax == R("const", 0)
esi == R("const", 6)
edi == R("const", 7)

tx_target  == [at |-> "tx"]            \* %fs:tx_target
MEM32      == [at |-> "mem"]           \* the memory operand of the instruction
C0         == [at |-> "C0"]
Imm(x)     == [at |-> "imm", val |-> x]
SReg(s)    == [at |-> "sreg", seg |-> s]
fallthrough_addr == Imm(<<"eip", "next">>)
\* Word eip or tc of slot k of the set that a register has the index of:
\* %fs:jumptable1+8k(,reg,8) and %fs:jumptable1+8k+4(,reg,8).
Slot(k, word, idx) == [at |-> "slot", k |-> k, word |-> word, idx |-> idx]

I0(op)       == <<[op |-> op, a |-> [at |-> "none"], b |-> [at |-> "none"]]>>
I1(op, a)    == <<[op |-> op, a |-> a, b |-> [at |-> "none"]]>>
I2(op, a, b) == <<[op |-> op, a |-> a, b |-> b]>>
Push(a)      == I1("push", a)
Pop(a)       == I1("pop", a)
Mov(a, b)    == I2("mov", a, b)
Cmp(a, b)    == I2("cmp", a, b)
\* A label, and jumps to the next or the last label of a name.
L(name)          == I1("label", [at |-> "label", name |-> name])
Jump(op, name)   == I1(op, [at |-> "fwd", name |-> name])
JumpB(op, name)  == I1(op, [at |-> "back", name |-> name])

\* Where a jump goes that chaining replaces: target_C0, tc_next_eip, end_Block.
Edge(op, n) == I1(op, [at |-> "edge", edge |-> n])
EdgeLabel(n) == I1("label", [at |-> "edge", edge |-> n])

EXIT_TB == I0("exit")
set_jtarget_eip(eip) == I0("pushf") \o I0("cli") \o Mov(tx_target, eip)
EDGE(n, eip) ==
  EdgeLabel(n) \o set_jtarget_eip(eip) \o Push([at |-> "joff", edge |-> n])
EDGE3 == Push(Imm(<<"nochain">>))
EMIT_EDGE1 == Edge("jmp", 1) \o EDGE(1, fallthrough_addr) \o EXIT_TB

----------------------------------------------------------------------------
(* Indirect jumps and calls *)

\* ONE_TEMP_JUMP, ONE_TEMP_CALL and the like: transfer is the last instruction.
ONE_TEMP(transfer, target, temp1) ==
  Pop(temp1) \o I0("popf") \o I1(transfer, tx_target)
TWO_TEMPS(transfer, target, temp1) ==
  Pop(target) \o ONE_TEMP(transfer, target, temp1)

INDIRECT_PART1(target, temp1, miss) ==
  Mov(temp1, target) \o I1("mask", temp1)
  \o Cmp(Slot(0, "eip", temp1), target) \o miss
  \o Mov(temp1, Slot(0, "tc", temp1)) \o Mov(tx_target, temp1)

\* Mutant of EXCHANGE: the word tc of slot k is not replaced.
EXCHANGE_HALF(k, target, temp1) ==
  Push(target)
  \o Mov(target, Slot(0, "eip", temp1)) \o Mov(Slot(k, "eip", temp1), target)
  \o Mov(target, Slot(k, "tc", temp1))  \o Mov(tx_target, target)
  \o Mov(target, tx_target)             \o Mov(Slot(0, "tc", temp1), target)

\* The exchange of slot k with the first, found at slot k.
EXCHANGE(k, target, temp1) ==
  Push(target)
  \o Mov(target, Slot(0, "eip", temp1)) \o Mov(Slot(k, "eip", temp1), target)
  \o Mov(target, Slot(k, "tc", temp1))  \o Mov(tx_target, target)
  \o Mov(target, Slot(0, "tc", temp1))  \o Mov(Slot(k, "tc", temp1), target)
  \o Mov(target, tx_target)             \o Mov(Slot(0, "tc", temp1), target)

SEARCH_HASH_TABLE(target, temp1) ==
  Cmp(target, Slot(1, "eip", temp1)) \o Jump("jne", "2")
  \o EXCHANGE(1, target, temp1) \o Jump("jmp", "3") \o L("2")
  \o Cmp(target, Slot(2, "eip", temp1)) \o Jump("jne", "2")
  \o EXCHANGE(2, target, temp1) \o Jump("jmp", "3") \o L("2")
  \o Cmp(target, Slot(3, "eip", temp1)) \o Jump("jne", "1")
  \o EXCHANGE(3, target, temp1)
  \o L("3") \o Pop(target) \o Mov(Slot(0, "eip", temp1), target)

INDIRECT_PART2(target) == Mov(tx_target, target)

JUMP_INDIRECT(Leave(_, _, _), target, temp1) ==
  INDIRECT_PART1(target, temp1, Jump("jne", "1")) \o Leave("jmpi", target, temp1)
  \o L("1") \o SEARCH_HASH_TABLE(target, temp1) \o Leave("jmpi", target, temp1)
  \o L("1") \o INDIRECT_PART2(target)
JUMP_INDIRECT_1_TEMP(target, temp1) ==
  JUMP_INDIRECT(ONE_TEMP, target, temp1) \o Pop(temp1) \o EDGE3 \o EXIT_TB
JUMP_INDIRECT_2_TEMP(target, temp1) ==
  JUMP_INDIRECT(TWO_TEMPS, target, temp1)
  \o Pop(target) \o Pop(temp1) \o EDGE3 \o EXIT_TB

CALL_INDIRECT(Leave(_, _, _), target, temp1, restore) ==
  INDIRECT_PART1(target, temp1, Edge("jne", 2)) \o Leave("calli", target, temp1)
  \o EdgeLabel(2) \o SEARCH_HASH_TABLE(target, temp1)
  \o Leave("calli", target, temp1)
  \o L("2") \o EMIT_EDGE1
  \o L("1") \o INDIRECT_PART2(target) \o restore \o I0("popf")
  \o Jump("call", "2") \o JumpB("jmp", "2")
  \o L("2") \o I0("pushf") \o I0("cli") \o EDGE3 \o EXIT_TB
CALL_INDIRECT_1_TEMP(target, temp1) ==
  CALL_INDIRECT(ONE_TEMP, target, temp1, Pop(tr0))
\* Mutant of CALL_INDIRECT_2_TEMP: the temporaries are restored in the order in
\* which they were saved.
CALL_INDIRECT_2_SWAPPED(target, temp1) ==
  CALL_INDIRECT(TWO_TEMPS, target, temp1, Pop(tr0) \o Pop(tr1))

CALL_INDIRECT_2_TEMP(target, temp1) ==
  CALL_INDIRECT(TWO_TEMPS, target, temp1, Pop(tr1) \o Pop(tr0))

----------------------------------------------------------------------------
(* The code of the rules *)

HANDLE_RET(CALL_OPT) ==
  IF CALL_OPT THEN I0("ret")
  ELSE Pop(tx_target) \o I0("pushf") \o I0("cli") \o Push(edi) \o Push(esi)
       \o Mov(esi, tx_target) \o JUMP_INDIRECT_2_TEMP(esi, edi)

\* Mutant of JUMP_REG: interrupts stay enabled.
JUMP_REG_STI ==
  I0("pushf") \o Push(tr0) \o JUMP_INDIRECT_1_TEMP(vr0, tr0)

JUMP_REG ==
  I0("pushf") \o I0("cli") \o Push(tr0) \o JUMP_INDIRECT_1_TEMP(vr0, tr0)

JUMP_MEM ==
  I0("pushf") \o I0("cli") \o Push(tr0) \o Push(tr1) \o Mov(tr1, MEM32)
  \o JUMP_INDIRECT_2_TEMP(tr1, tr0)

HANDLE_CALL_C0(CALL_OPT) ==
  IF CALL_OPT THEN Edge("call", 2) \o EDGE(2, C0) \o EXIT_TB
  ELSE Push(fallthrough_addr) \o Edge("jmp", 0) \o EDGE(0, C0) \o EXIT_TB

HANDLE_CALL_REG(CALL_OPT) ==
  IF CALL_OPT
  THEN I0("pushf") \o I0("cli") \o Push(tr0) \o CALL_INDIRECT_1_TEMP(vr0, tr0)
  ELSE Push(fallthrough_addr) \o JUMP_REG

HANDLE_CALL_MEM(CALL_OPT) ==
  Mov(tx_target, tr1) \o Mov(tr1, MEM32)
  \o (IF CALL_OPT THEN <<>> ELSE Push(fallthrough_addr))
  \o I0("pushf") \o I0("cli") \o Push(tr0) \o Push(tx_target)
  \o (IF CALL_OPT THEN CALL_INDIRECT_2_TEMP(tr1, tr0)
      ELSE JUMP_INDIRECT_2_TEMP(tr1, tr0))

JCC   == Edge("jcc", 2) \o EDGE(2, C0) \o EXIT_TB
JECXZ == Jump("jecxz", "1") \o Edge("jmp", 1) \o L("1") \o Edge("jmp", 0)
         \o EDGE(0, C0) \o EXIT_TB \o EDGE(1, fallthrough_addr) \o EXIT_TB
JMP   == Edge("jmp", 0) \o EDGE(0, C0) \o EXIT_TB

PUSH_DS ==
  I0("pushf") \o Push(eax) \o Mov(eax, SReg("fs"))
  \o Cmp(eax, Imm(<<"sel", "percpu">>)) \o Pop(eax) \o Jump("jne", "1")
  \o I0("popf") \o Push(tx_target) \o Jump("jmp", "2")
  \o L("1") \o I0("popf") \o Push(SReg("ds")) \o L("2")

----------------------------------------------------------------------------
(* Nomatch pairs *)

RegsOf(o) == IF o.at = "reg" THEN {o.reg}
             ELSE IF o.at = "slot" THEN {o.idx.reg} ELSE {}

\* insn_get_usedef: a register that is the first operand is set and not used,
\* whatever the instruction does.
Defs(i) == IF i.a.at = "reg" THEN {i.a.reg} ELSE {}
Uses(i, mem) ==
  (IF i.a.at = "reg" THEN {} ELSE RegsOf(i.a)) \cup RegsOf(i.b)
  \cup (IF "mem" \in {i.a.at, i.b.at} THEN mem ELSE {})

\* output_nomatch_pairs_for_entry, regset_output_nomatch_pairs: no register
\* is set that one used later is matched to.  The code is taken in its order,
\* from the last instruction to the first, whatever the jumps.  mem has the
\* registers of the memory operand.
NomatchPairs(code, mem) ==
  FoldRight(
    LAMBDA i, acc :
      [use   |-> (acc.use \ Defs(i)) \cup Uses(i, mem),
       pairs |-> acc.pairs
                 \cup UNION {{{d, u} : u \in acc.use \ {d}} :
                                 d \in {x \in Defs(i) : x[1] # "const"}}],
    code, [use |-> {}, pairs |-> {}]).pairs

----------------------------------------------------------------------------
(* The rules *)

Rule(opc, op, temps, code) ==
  LET memRegs == IF op.type # "mem" THEN {}
                 ELSE {<<"var", o.val>> : o \in {x \in {op.base, op.index} :
                                                    x.tag # "const"}}
  IN  [opc |-> opc, op |-> <<op, None, None>>, temps |-> temps, code |-> code,
       nomatch |-> NomatchPairs(code, memRegs)]

\* One rule for each addressing mode.
MemRules(opc, temps, code) ==
  [i \in DOMAIN Mem32 |-> Rule(opc, Mem32[i], temps, code)]

\* The table of a build.
Rules(CALL_OPT) ==
  <<Rule("ret", None, <<>>, HANDLE_RET(CALL_OPT)),
    Rule("jmp", RegVar(0, "no_esp"), <<"no_esp">>, JUMP_REG)>>
  \o MemRules("jmp", <<"no_esp", "no_esp">>, JUMP_MEM)
  \o <<Rule("jcc", ImmVar(0), <<>>, JCC),
       Rule("jecxz", ImmVar(0), <<>>, JECXZ),
       Rule("jmp", ImmVar(0), <<>>, JMP),
       Rule("call", ImmVar(0), <<>>, HANDLE_CALL_C0(CALL_OPT)),
       Rule("call", RegVar(0, "no_esp"), <<"no_esp">>, HANDLE_CALL_REG(CALL_OPT))>>
  \o MemRules("call", <<"no_esp", "no_esp">>, HANDLE_CALL_MEM(CALL_OPT))
  \o <<Rule("iret", None, <<>>, I0("iret")),
       Rule("push", Op("seg", 0, 3, "const"), <<>>, PUSH_DS),
       Rule("pop", Op("seg", 0, 3, "const"), <<>>, Pop(tx_target))>>
=============================================================================
