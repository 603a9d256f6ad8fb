------------------------------- MODULE Decode -------------------------------
(***************************************************************************)
(* disas_insn of peep/i386-dis.c in 32-bit mode: from the bytes at a guest *)
(* address to an instruction, its length and up to three operands.         *)
(*                                                                         *)
(* code is a sequence of bytes, and codep an index of it.  A DIS_ routine  *)
(* gives the operand and the codep behind what it has read.  c is what the *)
(* decoder knows by then: the prefixes, the operand and address size flags *)
(* DFLAG and AFLAG, and the fields of the modrm byte.  Numbers of 32 bits  *)
(* are sequences of four bytes, the lowest one first.                      *)
(***************************************************************************)
EXTENDS OpcodeMap

NoReg == -1
Invalid == [type |-> "invalid", size |-> 0]

RegOp(reg, size) == [type |-> "reg", size |-> size, reg |-> reg]
SegOp(seg)       == [type |-> "seg", size |-> 0, seg |-> seg]
ImmOp(value)     == [type |-> "imm", size |-> 0, imm |-> value]
StOp(st)         == [type |-> "st", size |-> 0, st |-> st]

Zeros == <<0, 0, 0, 0>>

\* A memory operand; what is not given is as operand_init leaves it.
MemOp(size, addrsize, seg) ==
  [type |-> "mem", size |-> size, addrsize |-> addrsize, seg |-> seg,
   base |-> NoReg, index |-> NoReg, scale |-> 0, disp |-> Zeros]

Got(op, at) == [op |-> op, at |-> at]

Sign(byte) == IF byte >= 128 THEN 255 ELSE 0

Get8(c, at)   == <<c.code[at], 0, 0, 0>>
Get8s(c, at)  == <<c.code[at]>> \o [i \in 1 .. 3 |-> Sign(c.code[at])]
Get16(c, at)  == <<c.code[at], c.code[at + 1], 0, 0>>
Get16s(c, at) == <<c.code[at], c.code[at + 1], Sign(c.code[at + 1]), Sign(c.code[at + 1])>>
Get32(c, at)  == SubSeq(c.code, at, at + 3)

\* BadOp: throw away prefixes and the first byte of the opcode.
BadOp(c) == Got(Invalid, c.insn_codep + 1)

\* get_seg: the last one of this order wins.
SegOrder == <<"CS", "DS", "SS", "ES", "FS", "GS">>
SegNumber == [ES |-> 0, CS |-> 1, SS |-> 2, DS |-> 3, FS |-> 4, GS |-> 5]
GetSeg(c, default) ==
  LET given == {i \in 1 .. 6 : SegOrder[i] \in c.prefixes}
  IN  IF given = {} THEN SegNumber[default]
      ELSE SegNumber[SegOrder[CHOOSE i \in given : \A j \in given : j <= i]]

\* get_operand_size
OperandSize(c, mode) ==
  CASE mode \in {"b", "dqb"}              -> 1
    [] mode \in {"w", "dqw"}              -> 2
    [] mode \in {"v", "stack_v", "z"}     -> IF c.DFLAG THEN 4 ELSE 2
    [] mode \in {"d", "dq", "dqd", "m"}   -> 4
    [] mode = "q"                         -> 8

----------------------------------------------------------------------------
\* DIS_E

\* The modrm byte names a register.
DisEReg(c, at, mode) ==
  LET r(size) == Got(RegOp(c.rm, size), at + 1)
  IN  CASE mode = "b" -> r(1)
        [] mode = "w" -> r(2)
        [] mode \in {"d", "m", "dq", "dqb", "dqd", "dqw"} -> r(4)
        [] mode = "q" -> r(8)
        [] mode \in {"v", "stack_v"} -> r(IF c.DFLAG THEN 4 ELSE 2)
        [] mode = "none" -> Got(Invalid, at + 1)
        [] OTHER -> BadOp(c)

\* The displacement of a memory operand, from at on: its bytes and value.
Disp(c, at, has32) ==
  CASE c.mod = 1                       -> [len |-> 1, value |-> Get8s(c, at)]
    [] c.mod = 2 \/ (c.mod = 0 /\ has32) -> [len |-> 4, value |-> Get32(c, at)]
    [] OTHER                           -> [len |-> 0, value |-> Zeros]

\* Mutant of DisEMem32: a scaled index does without a base in any mode.
DisEMem32Base(c, at) ==
  LET sib  == IF c.rm = 4 THEN 1 ELSE 0
      byte == c.code[at]
      base == IF sib = 1 THEN byte % 8 ELSE c.rm
      index == (byte \div 8) % 8
      disp == Disp(c, at + sib, base = 5)
      mem  == [MemOp(4, 4, GetSeg(c, "DS")) EXCEPT
                 !.base  = IF base = 5 /\ (c.mod = 0 \/ sib = 1) THEN NoReg ELSE base,
                 !.index = IF sib = 1 /\ index # 4 THEN index ELSE NoReg,
                 !.scale = IF sib = 1 /\ index # 4 THEN 2 ^ (byte \div 64) ELSE 0,
                 !.disp  = disp.value]
  IN  Got(mem, at + sib + disp.len)

\* 32-bit addresses; the segment of esp and ebp is ds, too.
DisEMem32(c, at) ==
  LET sib  == IF c.rm = 4 THEN 1 ELSE 0
      byte == c.code[at]
      base == IF sib = 1 THEN byte % 8 ELSE c.rm
      index == (byte \div 8) % 8
      disp == Disp(c, at + sib, base = 5)
      mem  == [MemOp(4, 4, GetSeg(c, "DS")) EXCEPT
                 !.base  = IF base = 5 /\ c.mod = 0 THEN NoReg ELSE base,
                 !.index = IF sib = 1 /\ index # 4 THEN index ELSE NoReg,
                 !.scale = IF sib = 1 /\ index # 4 THEN 2 ^ (byte \div 64) ELSE 0,
                 !.disp  = disp.value]
  IN  Got(mem, at + sib + disp.len)

\* 16-bit addresses: bx, bp, si and di are registers 3, 5, 6 and 7.
DisEMem16(c, at) ==
  LET direct == c.mod = 0 /\ c.rm = 6
      disp == CASE c.mod = 1           -> [len |-> 1, value |-> Get8s(c, at)]
                [] c.mod = 2 \/ direct -> [len |-> 2, value |-> Get16s(c, at)]
                [] OTHER               -> [len |-> 0, value |-> Zeros]
      base == IF direct THEN NoReg ELSE PickFrom(<<3, 3, 5, 5, 6, 7, 5, 3>>, c.rm)
      mem  == [MemOp(2, 2, GetSeg(c, IF base = 5 THEN "SS" ELSE "DS")) EXCEPT
                 !.base = base, !.disp = disp.value,
                 !.index = IF c.rm < 4 THEN 6 + (c.rm % 2) ELSE NoReg,
                 !.scale = IF c.rm < 4 THEN 1 ELSE 0]
  IN  Got(mem, at + disp.len)

DisE(c, at, mode) ==
  CASE c.mod = 3 -> DisEReg(c, at, mode)
    [] c.AFLAG /\ c.mod # 3  -> DisEMem32(c, at + 1)
    [] ~c.AFLAG /\ c.mod # 3 -> DisEMem16(c, at + 1)

DisM(c, at, mode) ==
  IF c.mod = 3 THEN BadOp(c)
  ELSE LET e == DisE(c, at, mode) IN [e EXCEPT !.op.size = 4]

DisR(c, at, mode) == IF c.mod = 3 THEN DisE(c, at, mode) ELSE BadOp(c)

DisSEG(c, at, mode) ==
  IF mode = "w" THEN Got(IF c.reg < 6 THEN SegOp(c.reg) ELSE Invalid, at)
  ELSE DisE(c, at, IF c.mod = 3 THEN mode ELSE "w")

----------------------------------------------------------------------------
\* Registers

DisG(c, at, mode) ==
  Got(RegOp(c.reg, IF mode \in {"dqb", "dqw"} THEN 4 ELSE OperandSize(c, mode)), at)

\* DIS_REG and DIS_IMREG
DisREG(c, at, code) ==
  LET size == CASE code[1] \in {"indir_dx", "w"}   -> 2
                [] code[1] = "b"                   -> 1
                [] code[1] \in {"e", "r", "z"}     -> IF c.DFLAG THEN 4 ELSE 2
                [] code[1] = "seg"                 -> 0
  IN  Got(IF code[1] = "seg" THEN SegOp(code[2]) ELSE RegOp(code[2], size), at)

\* DIS_C, DIS_D and DIS_T; a lock prefix names the registers above 7.
DisSystemReg(c, at, kind) ==
  Got([type |-> kind, size |-> 0,
       reg |-> IF kind = "cr" /\ "LOCK" \in c.prefixes THEN c.reg + 8 ELSE c.reg], at)

\* DIS_NOP_Fixup1 and DIS_NOP_Fixup2
DisNOP(c, at, code) == DisREG(c, at, IF "DATA" \in c.prefixes THEN code ELSE <<"w", 0>>)

----------------------------------------------------------------------------
\* Immediates

\* Mutant of DisI: the operand size prefix is forgotten.
DisINoPrefix(c, at, mode) ==
  CASE mode = "b"       -> Got(ImmOp(Get8(c, at)), at + 1)
    [] mode = "const_1" -> Got(ImmOp(<<1, 0, 0, 0>>), at)
    [] mode = "w"       -> Got(ImmOp(Get16(c, at)), at + 2)
    [] mode \in {"q", "v"} -> Got(ImmOp(Get32(c, at)), at + 4)

\* DIS_I and DIS_I64
DisI(c, at, mode) ==
  CASE mode = "b"       -> Got(ImmOp(Get8(c, at)), at + 1)
    [] mode = "const_1" -> Got(ImmOp(<<1, 0, 0, 0>>), at)
    [] mode = "w" \/ (mode \in {"q", "v"} /\ ~c.DFLAG) -> Got(ImmOp(Get16(c, at)), at + 2)
    [] mode \in {"q", "v"} /\ c.DFLAG -> Got(ImmOp(Get32(c, at)), at + 4)

\* DIS_sI; no entry has another mode than b.
DisSI(c, at) == Got(ImmOp(Get8s(c, at)), at + 1)

\* DIS_J: the target is where the instruction ends plus disp, in 16 bits
\* after an operand size prefix.
Target(next, disp, mask) == [next |-> next, disp |-> disp, mask |-> mask]
DisJ(c, at, mode) ==
  CASE mode = "b" -> Got(ImmOp(Target(at + 1, Get8s(c, at), 32)), at + 1)
    [] mode = "v" /\ c.DFLAG  -> Got(ImmOp(Target(at + 4, Get32(c, at), 32)), at + 4)
    [] mode = "v" /\ ~c.DFLAG -> Got(ImmOp(Target(at + 2, Get16s(c, at), 16)), at + 2)

----------------------------------------------------------------------------
\* Memory operands without a modrm byte

\* DIS_DIR: a far pointer, its selector in the place of the segment
DisDIR(c, at) ==
  LET n == IF c.DFLAG THEN 4 ELSE 2
  IN  Got([MemOp(4, 4, Get16(c, at + n)) EXCEPT
             !.disp = IF c.DFLAG THEN Get32(c, at) ELSE Get16(c, at)], at + n + 2)

\* DIS_OFF and DIS_OFF64
DisOFF(c, at, mode) ==
  Got([MemOp(OperandSize(c, mode), 4, GetSeg(c, "DS")) EXCEPT
         !.disp = IF c.AFLAG THEN Get32(c, at) ELSE Get16(c, at)],
      IF c.AFLAG THEN at + 4 ELSE at + 2)

\* The size of a string operation, from the byte in front of codep.
StringSize(c, at, wide) ==
  OperandSize(c, IF c.code[at - 1] \in wide THEN "v" ELSE "b")

\* DIS_ESreg: %es:(%edi)
DisESreg(c, at, code) ==
  Got([MemOp(StringSize(c, at, {109, 165, 167, 171, 175}), 4, SegNumber.ES) EXCEPT
         !.base = code[2]], at)

\* DIS_DSreg: %ds:(%esi) and, of xlat, %ds:(%ebx)
DisDSreg(c, at, code) ==
  Got([MemOp(StringSize(c, at, {111, 165, 167, 173}), IF c.AFLAG THEN 4 ELSE 2,
             GetSeg(c, "DS")) EXCEPT !.base = code[2]], at)

\* DIS_REP_Fixup
DisREP(c, at, code) ==
  CASE code = EReg(7) -> DisESreg(c, at, code)
    [] code = EReg(6) -> DisDSreg(c, at, code)
    [] code \in {BReg(0), EReg(0), DxPort} -> DisREG(c, at, code)

\* DIS_Prefix: what is left of the prefixes without sizes and segments
DisPrefix(c, at) ==
  LET p == c.prefixes \cap {"REPZ", "REPNZ", "LOCK", "FWAIT"}
  IN  Got(IF p = {} THEN Invalid ELSE [type |-> "prefix", size |-> 0, prefix |-> p], at)

----------------------------------------------------------------------------
\* The fixups of system instructions

\* DIS_VMX_Fixup: sgdt, and vmcall to vmxoff
DisVMXFixup(c, at) ==
  IF c.mod = 3 /\ c.rm \in 1 .. 4 THEN Got(Invalid, at + 1) ELSE DisE(c, at, "none")

\* DIS_INVLPG_Fixup: swapgs and rdtscp share its opcode
DisINVLPG(c, at) ==
  IF c.code[at] \in {248, 249} THEN Got(Invalid, at + 1) ELSE DisM(c, at, "w")

\* DIS_0fae: fences have no operand
Dis0fae(c, at) ==
  IF c.mod = 3 /\ (c.reg < 5 \/ c.rm # 0) THEN BadOp(c) ELSE DisE(c, at, "none")

\* DIS_ST and DIS_STi
DisST(c, at, which) == Got(StOp(IF which = "ST" THEN 0 ELSE c.rm), at)

----------------------------------------------------------------------------
Dis(c, at, o) ==
  CASE o[1] \in {"E", "indirE", "VMX"} -> DisE(c, at, o[2])
    [] o[1] \in {"M", "SVME_Fixup"}    -> DisM(c, at, o[2])
    [] o[1] = "R"                      -> DisR(c, at, o[2])
    [] o[1] = "SEG"                    -> DisSEG(c, at, o[2])
    [] o[1] = "G"                      -> DisG(c, at, o[2])
    [] o[1] \in {"REG", "IMREG"}       -> DisREG(c, at, o[2])
    [] o[1] \in {"C", "D", "T"} -> DisSystemReg(c, at, [C |-> "cr", D |-> "db", T |-> "tr"][o[1]])
    [] o[1] \in {"NOP_Fixup1", "NOP_Fixup2"} -> DisNOP(c, at, o[2])
    [] o[1] = "I"      -> DisI(c, at, o[2])
    [] o[1] = "sI"     -> DisSI(c, at)
    [] o[1] = "J"      -> DisJ(c, at, o[2])
    [] o[1] = "DIR"    -> DisDIR(c, at)
    [] o[1] = "OFF"    -> DisOFF(c, at, o[2])
    [] o[1] = "ESreg"  -> DisESreg(c, at, o[2])
    [] o[1] = "DSreg"  -> DisDSreg(c, at, o[2])
    [] o[1] = "REP"    -> DisREP(c, at, o[2])
    [] o[1] = "Prefix" -> DisPrefix(c, at)
    [] o[1] = "VMX_Fixup"    -> DisVMXFixup(c, at)
    [] o[1] = "INVLPG_Fixup" -> DisINVLPG(c, at)
    [] o[1] = "0fae"         -> Dis0fae(c, at)
    [] o[1] \in {"ST", "STi"} -> DisST(c, at, o[1])

PrefixOf == [b \in {243, 242, 240, 46, 54, 62, 38, 100, 101, 102, 103} |->
  CASE b = 243 -> "REPZ"  [] b = 242 -> "REPNZ"  [] b = 240 -> "LOCK"
    [] b = 46 -> "CS"  [] b = 54 -> "SS"  [] b = 62 -> "DS"  [] b = 38 -> "ES"
    [] b = 100 -> "FS"  [] b = 101 -> "GS"  [] b = 102 -> "DATA"  [] b = 103 -> "ADDR"]
FWAIT == 155

RECURSIVE Ckprefix(_, _, _)
(* ckprefix: an fwait counts as a prefix of the next instruction; with      *)
(* prefixes in front of it, it ends them and is stepped over.               *)
Ckprefix(code, at, prefixes) ==
  CASE code[at] \in DOMAIN PrefixOf -> Ckprefix(code, at + 1, prefixes \cup {PrefixOf[code[at]]})
    [] code[at] = FWAIT /\ prefixes = {} -> Ckprefix(code, at + 1, {"FWAIT"})
    [] code[at] = FWAIT /\ prefixes # {} -> [prefixes |-> prefixes \cup {"FWAIT"}, at |-> at + 1]
    [] OTHER -> [prefixes |-> prefixes, at |-> at]

\* The entry of a table for the modrm byte or the prefixes of c.
Resolved(c, dp) ==
  CASE dp.escape \in ArithGroups  -> ArithGroup(dp.escape, c.reg)
    [] dp.escape \in SystemGroups -> SystemGroup(dp.escape, c.reg)
    [] dp.escape \in PrefixGroups -> PrefixGroup(dp.escape, c.prefixes)
    [] OTHER -> dp

RECURSIVE DisOperands(_, _, _)
\* The loop over MAX_NUM_OPERANDS operands: the operands and the last codep.
DisOperands(c, at, ops) ==
  IF ops = <<>> THEN [op |-> <<>>, at |-> at]
  ELSE LET one  == Dis(c, at, Head(ops))
           rest == DisOperands(c, one.at, Tail(ops))
       IN  [op |-> <<one.op>> \o rest.op, at |-> rest.at]

Three(ops) == [i \in 1 .. 3 |-> IF i \in DOMAIN ops THEN ops[i] ELSE Invalid]

\* disas_dofloat; fnstsw is the only one with a register.
DisFloat(c, at, sizeflag) ==
  LET floatop == c.code[at - 1]
      dp == float_reg(floatop, c.reg)
      named(name, r) == [name |-> opctable_find(Plain(name, <<>>), sizeflag), op |-> r.op, at |-> r.at]
  IN  IF c.mod # 3
      THEN LET e == DisE(c, at, float_mem_mode(floatop, c.reg))
           IN  named(float_mem(floatop, c.reg), [e EXCEPT !.op = <<e.op>>])
      ELSE IF dp.escape # "none"
      THEN named(fgrps(dp.escape, c.rm),
                 Got(IF floatop = 223 /\ c.code[at] = 224 THEN <<RegOp(0, 2)>> ELSE <<>>, at + 1))
      ELSE named(dp.stem, DisOperands(c, at + 1, dp.ops))

\* disas_insn with size 4
DisasInsn(code) ==
  LET p    == Ckprefix(code, 1, {})
      two  == code[p.at] = 15
      last == IF two THEN p.at + 1 ELSE p.at   \* the last byte of the opcode
      b    == code[last]
      has_modrm == IF two THEN twobyte_has_modrm(b) ELSE onebyte_has_modrm(b)
      modrm == IF has_modrm THEN code[last + 1] ELSE 0
      c == [code |-> code, insn_codep |-> p.at, prefixes |-> p.prefixes,
            AFLAG |-> "ADDR" \notin p.prefixes, DFLAG |-> "DATA" \notin p.prefixes,
            mod |-> modrm \div 64, reg |-> (modrm \div 8) % 8, rm |-> modrm % 8]
      dp == Resolved(c, IF two THEN dis386_twobyte(b) ELSE dis386(b))
      sizeflag == [AFLAG |-> c.AFLAG, DFLAG |-> c.DFLAG]
      read == DisOperands(c, last + 1, dp.ops)
      r  == IF dp.escape = "FLOAT" THEN DisFloat(c, last + 1, sizeflag)
            ELSE [name |-> opctable_find(dp, sizeflag), op |-> read.op, at |-> read.at]
  IN  [name |-> r.name, op |-> Three(r.op), length |-> r.at - 1]

=============================================================================
