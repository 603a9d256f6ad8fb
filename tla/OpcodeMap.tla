------------------------------ MODULE OpcodeMap ------------------------------
(***************************************************************************)
(* The opcode tables of peep/i386-dis.c for 32-bit code.  An entry is the  *)
(* template of the name, its letters kept apart from the stem, and the     *)
(* operands, each of which is the DIS_ routine and its bytemode.  An       *)
(* escape names the table that another byte or a prefix indexes.           *)
(*                                                                         *)
(* The instructions of SSE (the other prefix groups, the three byte        *)
(* opcodes) are left out; kernels do not use them.                         *)
(***************************************************************************)
EXTENDS Integers, Sequences

Eb == <<"E", "b">>
Ev == <<"E", "v">>
Ew == <<"E", "w">>
stackEv == <<"E", "stack_v">>
indirEv == <<"indirE", "stack_v">>
indirEp == <<"indirE", "f">>
M == <<"M", "none">>
Ma == <<"M", "v">>
Mp == <<"M", "f">>
Mq == <<"M", "q">>
Gb == <<"G", "b">>
Gv == <<"G", "v">>
Gw == <<"G", "w">>
Rd == <<"R", "d">>
Rm == <<"R", "m">>
Cm == <<"C", "m">>
Dm == <<"D", "m">>
Td == <<"T", "d">>
Ib == <<"I", "b">>
Iv == <<"I", "v">>
Iw == <<"I", "w">>
Iq == <<"I", "q">>
I1 == <<"I", "const_1">>
sIb == <<"sI", "b">>
Jb == <<"J", "b">>
Jv == <<"J", "v">>
Ap == <<"DIR", "none">>
Sw == <<"SEG", "w">>
Sv == <<"SEG", "v">>
Ob == <<"OFF", "b">>
Ov == <<"OFF", "v">>
Pre == <<"Prefix", "none">>

\* Registers of the opcode: kind and number.
EReg(r) == <<"e", r>>
RReg(r) == <<"r", r>>
BReg(r) == <<"b", r>>
SReg(s) == <<"seg", s>>
DxPort == <<"indir_dx", 2>>
ZAx == <<"z", 0>>
REG(k)   == <<"REG", k>>
IMREG(k) == <<"IMREG", k>>
AL == IMREG(BReg(0))
CL == IMREG(BReg(1))
eAX == IMREG(EReg(0))
zAX == IMREG(ZAx)
indirDX == IMREG(DxPort)
Xs == <<"DSreg", EReg(6)>>
Ys == <<"ESreg", EReg(7)>>
DSBX == <<"DSreg", EReg(3)>>
Yr == <<"REP", EReg(7)>>
indirDXr == <<"REP", DxPort>>
ALr == <<"REP", BReg(0)>>
eAXr == <<"REP", EReg(0)>>
FS_ == 4
GS_ == 5

\* An entry: stem, letters of the template and operands.
Entry(stem, letters, ops) == [stem |-> stem, letters |-> letters, ops |-> ops, escape |-> "none"]
Plain(stem, ops)    == Entry(stem, "", ops)
Escape(table)       == [stem |-> "", letters |-> "", ops |-> <<>>, escape |-> table]
Bad                 == Plain("(bad)", <<>>)
PickFrom(names, i)  == names[i + 1]

AluNames == <<"add", "or", "adc", "sbb", "and", "sub", "xor", "cmp">>
CondNames == <<"o", "no", "b", "ae", "e", "ne", "be", "a",
               "s", "ns", "p", "np", "l", "ge", "le", "g">>

AluForm(r) == PickFrom(<<<<Eb, Gb>>, <<Ev, Gv>>, <<Gb, Eb>>, <<Gv, Ev>>,
                         <<AL, Ib>>, <<eAX, Iv>>>>, r)

\* dis386, 00 to 3f
AluRows(b) ==
  LET row == b \div 8  r == b % 8
  IN  CASE r < 6 -> Plain(PickFrom(AluNames, row), AluForm(r))
        [] r = 6 /\ row < 4 -> Plain("push", <<REG(SReg(row))>>)
        [] r = 7 /\ row < 4 /\ row # 1 -> Plain("pop", <<REG(SReg(row))>>)
        [] r = 7 /\ row >= 4 -> Plain(PickFrom(<<"daa", "das", "aaa", "aas">>, row - 4), <<>>)
        [] OTHER -> Bad

\* dis386, 40 to 8f, with x86_64_table
MiddleRows(b) ==
  LET r == b % 8
  IN  CASE b < 72  -> Plain("inc", <<REG(EReg(r))>>)
        [] b \in 72 .. 79 -> Plain("dec", <<REG(EReg(r))>>)
        [] b \in 80 .. 87 -> Plain("push", <<REG(RReg(r))>>)
        [] b \in 88 .. 95 -> Plain("pop", <<REG(RReg(r))>>)
        [] b = 96 -> Plain("pusha", <<>>)  [] b = 97 -> Plain("popa", <<>>)
        [] b = 98 -> Plain("bound", <<Gv, Ma>>)  [] b = 99 -> Plain("arpl", <<Ew, Gw>>)
        [] b \in 100 .. 103 \/ b = 130 -> Bad
        [] b = 104 -> Plain("push", <<Iq>>)  [] b = 105 -> Plain("imul", <<Gv, Ev, Iv>>)
        [] b = 106 -> Plain("push", <<sIb>>) [] b = 107 -> Plain("imul", <<Gv, Ev, sIb>>)
        [] b = 108 -> Plain("insb", <<Yr, indirDX, Pre>>)
        [] b = 109 -> Entry("ins", "R", <<Yr, indirDX, Pre>>)
        [] b = 110 -> Plain("outsb", <<indirDXr, Xs, Pre>>)
        [] b = 111 -> Entry("outs", "R", <<indirDXr, Xs, Pre>>)
        [] b \in 112 .. 127 -> Plain("j" \o PickFrom(CondNames, b - 112), <<Jb>>)
        [] b = 128 -> Escape("GRP1b")  [] b = 129 -> Escape("GRP1S")
        [] b = 131 -> Escape("GRP1Ss")
        [] b \in 132 .. 133 -> Plain("test", AluForm(b - 132))
        [] b \in 134 .. 135 -> Plain("xchg", AluForm(b - 134))
        [] b \in 136 .. 139 -> Plain("mov", AluForm(b - 136))
        [] b = 140 -> Plain("mov", <<Sv, Sw>>)  [] b = 141 -> Plain("lea", <<Gv, M>>)
        [] b = 142 -> Plain("mov", <<Sw, Sv>>)  [] b = 143 -> Escape("GRP1a")

\* dis386, 90 to cf
HighRows(b) ==
  LET r == b % 8
  IN  CASE b = 144 -> Escape("PREGRP38")
        [] b \in 145 .. 151 -> Plain("xchg", <<REG(EReg(r)), eAX>>)
        [] b = 152 -> Entry("c", "WtR", <<>>)  [] b = 153 -> Entry("c", "RtO", <<>>)
        [] b = 154 -> Plain("lcall", <<Ap>>)   [] b = 155 -> Bad
        [] b \in 156 .. 159 -> Plain(PickFrom(<<"pushf", "popf", "sahf", "lahf">>, r - 4), <<>>)
        [] b = 160 -> Plain("mov", <<AL, Ob>>)  [] b = 161 -> Plain("mov", <<eAX, Ov>>)
        [] b = 162 -> Plain("mov", <<Ob, AL>>)  [] b = 163 -> Plain("mov", <<Ov, eAX>>)
        [] b = 164 -> Plain("movsb", <<Yr, Xs, Pre>>)
        [] b = 165 -> Entry("movs", "R", <<Yr, Xs, Pre>>)
        [] b = 166 -> Plain("cmpsb", <<Xs, Ys, Pre>>)
        [] b = 167 -> Entry("cmps", "R", <<Xs, Ys, Pre>>)
        [] b \in 168 .. 169 -> Plain("test", AluForm(b - 164))
        [] b = 170 -> Plain("stos", <<Yr, AL, Pre>>)   [] b = 171 -> Plain("stos", <<Yr, eAX, Pre>>)
        [] b = 172 -> Plain("lods", <<ALr, Xs, Pre>>)  [] b = 173 -> Plain("lods", <<eAXr, Xs, Pre>>)
        [] b = 174 -> Plain("scas", <<AL, Ys, Pre>>)   [] b = 175 -> Plain("scas", <<eAX, Ys, Pre>>)
        [] b \in 176 .. 183 -> Plain("mov", <<REG(BReg(r)), Ib>>)
        [] b \in 184 .. 191 -> Plain("mov", <<REG(EReg(r)), Iv>>)
        [] b = 192 -> Escape("GRP2b")  [] b = 193 -> Escape("GRP2S")
        [] b = 194 -> Plain("ret", <<Iw>>)     [] b = 195 -> Plain("ret", <<>>)
        [] b = 196 -> Plain("les", <<Gv, Mp>>) [] b = 197 -> Plain("lds", <<Gv, Mp>>)
        [] b = 198 -> Escape("GRP11_C6")  [] b = 199 -> Escape("GRP11_C7")
        [] b = 200 -> Plain("enter", <<Iw, Ib>>)  [] b = 201 -> Plain("leave", <<>>)
        [] b = 202 -> Plain("lret", <<Iw>>)    [] b = 203 -> Plain("lret", <<>>)
        [] b = 205 -> Plain("int", <<Ib>>)
        [] b \in {204, 206, 207} -> Plain(PickFrom(<<"int3", "", "into", "iret">>, b - 204), <<>>)

\* dis386, d0 to ff
TopRows(b) ==
  CASE b \in 208 .. 211 -> Escape(PickFrom(<<"GRP2b_one", "GRP2S_one", "GRP2b_cl", "GRP2S_cl">>, b - 208))
    [] b = 212 -> Plain("aam", <<sIb>>)  [] b = 213 -> Plain("aad", <<sIb>>)
    [] b = 215 -> Plain("xlat", <<DSBX>>)
    [] b \in 216 .. 223 -> Escape("FLOAT")
    [] b \in 224 .. 226 -> Entry(PickFrom(<<"loopne", "loope", "loop">>, b - 224), "F", <<Jb>>)
    [] b = 227 -> Plain("jcxz", <<Jb>>)
    [] b = 228 -> Plain("in", <<AL, Ib>>)   [] b = 229 -> Plain("in", <<zAX, Ib>>)
    [] b = 230 -> Plain("out", <<Ib, AL>>)  [] b = 231 -> Plain("out", <<Ib, zAX>>)
    [] b = 232 -> Plain("call", <<Jv>>)     [] b = 233 -> Plain("jmp", <<Jv>>)
    [] b = 234 -> Plain("ljmp", <<Ap>>)     [] b = 235 -> Plain("jmp", <<Jb>>)
    [] b = 236 -> Plain("in", <<AL, indirDX>>)   [] b = 237 -> Plain("in", <<zAX, indirDX>>)
    [] b = 238 -> Plain("out", <<indirDX, AL>>)  [] b = 239 -> Plain("out", <<indirDX, zAX>>)
    [] b = 241 -> Plain("icebp", <<>>)
    [] b \in {244, 245} \cup 248 .. 253 ->
         Plain(PickFrom(<<"hlt", "cmc", "", "", "clc", "stc", "cli", "sti", "cld", "std">>, b - 244), <<>>)
    [] b \in {246, 247, 254, 255} ->
         Escape(PickFrom(<<"GRP3b", "GRP3S", "", "", "", "", "", "", "GRP4", "GRP5">>, b - 246))
    [] OTHER -> Bad

dis386(b) ==
  CASE b < 64           -> AluRows(b)
    [] b \in 64 .. 143  -> MiddleRows(b)
    [] b \in 144 .. 207 -> HighRows(b)
    [] b \in 208 .. 255 -> TopRows(b)

\* dis386_twobyte, 00 to 7f
TwoByteLow(b) ==
  CASE b = 0 -> Escape("GRP6")  [] b = 1 -> Escape("GRP7")
    [] b = 2 -> Plain("lar", <<Gv, Ew>>)  [] b = 3 -> Plain("lsl", <<Gv, Ew>>)
    [] b \in {5, 6, 7, 8, 9, 11, 14} ->
         Plain(PickFrom(<<"syscall", "clts", "sysret", "invd", "wbinvd", "", "ud2a", "", "", "femms">>, b - 5), <<>>)
    [] b = 13 -> Escape("GRPAMD")  [] b = 24 -> Escape("GRP16")
    [] b = 31 -> Entry("nop", "Q", <<Ev>>)
    [] b = 32 -> Plain("mov", <<Rm, Cm>>)  [] b = 33 -> Plain("mov", <<Rm, Dm>>)
    [] b = 34 -> Plain("mov", <<Cm, Rm>>)  [] b = 35 -> Plain("mov", <<Dm, Rm>>)
    [] b = 36 -> Plain("mov", <<Rd, Td>>)  [] b = 38 -> Plain("mov", <<Td, Rd>>)
    [] b \in 48 .. 53 ->
         Plain(PickFrom(<<"wrmsr", "rdtsc", "rdmsr", "rdpmc", "sysenter", "sysexit">>, b - 48), <<>>)
    [] b \in 64 .. 79 -> Plain("cmov" \o PickFrom(CondNames, b - 64), <<Gv, Ev>>)
    [] b = 119 -> Plain("emms", <<>>)
    [] b \in {4, 10, 12, 37, 39, 54, 55} \cup 25 .. 30 \cup {57} \cup 59 .. 63 \cup {122, 123} -> Bad
    [] OTHER -> Escape("SSE")

\* dis386_twobyte, 80 to ff
TwoByteHigh(b) ==
  CASE b \in 128 .. 143 -> Plain("j" \o PickFrom(CondNames, b - 128), <<Jv>>)
    [] b \in 144 .. 159 -> Plain("set" \o PickFrom(CondNames, b - 144), <<Eb>>)
    [] b \in {160, 168} -> Plain("push", <<REG(SReg(IF b = 160 THEN FS_ ELSE GS_))>>)
    [] b \in {161, 169} -> Plain("pop", <<REG(SReg(IF b = 161 THEN FS_ ELSE GS_))>>)
    [] b = 162 -> Plain("cpuid", <<>>)  [] b = 170 -> Plain("rsm", <<>>)
    [] b \in {163, 171, 179, 187} ->
         Plain(PickFrom(<<"bt", "bts", "btr", "btc">>, (b - 163) \div 8), <<Ev, Gv>>)
    [] b \in {164, 172} -> Plain(IF b = 164 THEN "shld" ELSE "shrd", <<Ev, Gv, Ib>>)
    [] b \in {165, 173} -> Plain(IF b = 165 THEN "shld" ELSE "shrd", <<Ev, Gv, CL>>)
    [] b \in 166 .. 167 -> Escape("GRPPADLCK")
    [] b = 174 -> Escape("GRP15")  [] b = 175 -> Plain("imul", <<Gv, Ev>>)
    [] b \in 176 .. 177 -> Plain("cmpxchg", AluForm(b - 176))
    [] b \in {178, 180, 181} -> Plain(PickFrom(<<"lss", "", "lfs", "lgs">>, b - 178), <<Gv, Mp>>)
    [] b = 182 -> Entry("movzb", "R", <<Gv, Eb>>)  [] b = 183 -> Entry("movzw", "R", <<Gv, Ew>>)
    [] b = 184 -> Escape("PREGRP37")  [] b = 185 -> Plain("ud2b", <<>>)
    [] b = 186 -> Escape("GRP8")  [] b = 188 -> Plain("bsf", <<Gv, Ev>>)
    [] b = 189 -> Escape("PREGRP36")
    [] b = 190 -> Entry("movsb", "R", <<Gv, Eb>>)  [] b = 191 -> Entry("movsw", "R", <<Gv, Ew>>)
    [] b \in 192 .. 193 -> Plain("xadd", AluForm(b - 192))
    [] b = 195 -> Plain("movnti", <<Ev, Gv>>)  [] b = 199 -> Escape("GRP9")
    [] b \in 200 .. 207 -> Plain("bswap", <<REG(EReg(b % 8))>>)
    [] b = 255 -> Bad
    [] OTHER -> Escape("SSE")

dis386_twobyte(b) == IF b < 128 THEN TwoByteLow(b) ELSE TwoByteHigh(b)

onebyte_has_modrm(b) ==
  \/ b < 64 /\ b % 8 < 4
  \/ b \in {98, 99, 105, 107} \cup 128 .. 143
  \/ b \in {192, 193} \cup 196 .. 199 \cup 208 .. 211 \cup 216 .. 223
  \/ b \in {246, 247, 254, 255}

twobyte_has_modrm(b) ==
  b \notin 4 .. 12 \cup {14} \cup 25 .. 30 \cup {37, 39} \cup 48 .. 55 \cup {57} \cup 59 .. 63
           \cup {119, 122, 123} \cup 128 .. 143 \cup 160 .. 162 \cup 168 .. 170 \cup {185}
           \cup 200 .. 207 \cup {255}

\* grps, with the register field r; arithmetic
ShiftNames == <<"rol", "ror", "rcl", "rcr", "shl", "shr", "(bad)", "sar">>
Shift(r, letter, ops) ==
  IF r = 6 THEN Bad ELSE Entry(PickFrom(ShiftNames, r), letter, ops)
Unary(r, letter, op) ==
  IF r \in {0, 1} THEN Bad
  ELSE Entry(PickFrom(<<"", "", "not", "neg", "mul", "imul", "div", "idiv">>, r), letter, <<op>>)

ArithGroup(g, r) ==
  CASE g = "GRP1a"  -> IF r = 0 THEN Entry("pop", "U", <<stackEv>>) ELSE Bad
    [] g = "GRP1b"  -> Entry(PickFrom(AluNames, r), "A", <<Eb, Ib>>)
    [] g = "GRP1S"  -> Entry(PickFrom(AluNames, r), "Q", <<Ev, Iv>>)
    [] g = "GRP1Ss" -> Entry(PickFrom(AluNames, r), "Q", <<Ev, sIb>>)
    [] g = "GRP2b"     -> Shift(r, "A", <<Eb, Ib>>)  [] g = "GRP2S"     -> Shift(r, "Q", <<Ev, Ib>>)
    [] g = "GRP2b_one" -> Shift(r, "A", <<Eb, I1>>)  [] g = "GRP2S_one" -> Shift(r, "Q", <<Ev, I1>>)
    [] g = "GRP2b_cl"  -> Shift(r, "A", <<Eb, CL>>)  [] g = "GRP2S_cl"  -> Shift(r, "Q", <<Ev, CL>>)
    [] g = "GRP3b" -> IF r = 0 THEN Entry("test", "A", <<Eb, Ib>>)
                      ELSE IF r = 1 THEN Plain("(bad)", <<Eb>>) ELSE Unary(r, "A", Eb)
    [] g = "GRP3S" -> IF r = 0 THEN Entry("test", "Q", <<Ev, Iv>>) ELSE Unary(r, "Q", Ev)
    [] g = "GRP4"  -> IF r < 2 THEN Entry(PickFrom(<<"inc", "dec">>, r), "A", <<Eb>>) ELSE Bad
    [] g = "GRP5"  -> CASE r < 2 -> Entry(PickFrom(<<"inc", "dec">>, r), "Q", <<Ev>>)
                        [] r \in {2, 4} -> Plain(IF r = 2 THEN "call" ELSE "jmp", <<indirEv>>)
                        [] r \in {3, 5} -> Plain(IF r = 3 THEN "lcall" ELSE "ljmp", <<indirEp>>)
                        [] r = 6 -> Entry("push", "U", <<stackEv>>)
                        [] r = 7 -> Bad

\* grps, the other groups
SystemGroup(g, r) ==
  CASE g = "GRP6" -> IF r > 5 THEN Bad
                     ELSE Plain(PickFrom(<<"sldt", "str", "lldt", "ltr", "verr", "verw">>, r),
                                <<IF r < 2 THEN Sv ELSE Ew>>)
    [] g = "GRP7" ->
         PickFrom(<<Entry("sgdt", "Q", <<<<"VMX_Fixup", "none">>>>), Entry("sidt", "Q", <<>>),
                    Entry("lgdt", "Q", <<M>>), Entry("lidt", "Q", <<<<"SVME_Fixup", "none">>>>),
                    Plain("smsw", <<Sv>>), Bad, Plain("lmsw", <<Ew>>),
                    Plain("invlpg", <<<<"INVLPG_Fixup", "w">>>>)>>, r)
    [] g = "GRP8" -> IF r < 4 THEN Bad
                     ELSE Entry(PickFrom(<<"bt", "bts", "btr", "btc">>, r - 4), "Q", <<Ev, Ib>>)
    [] g = "GRP9" -> CASE r = 1 -> Plain("cmpxchg8b", <<Mq>>)
                       [] r = 6 -> Plain("", <<<<"VMX", "q">>>>)
                       [] r = 7 -> Plain("vmptrst", <<Mq>>)
                       [] OTHER -> Bad
    [] g = "GRP11_C6" -> IF r = 0 THEN Entry("mov", "A", <<Eb, Ib>>) ELSE Bad
    [] g = "GRP11_C7" -> IF r = 0 THEN Entry("mov", "Q", <<Ev, Iv>>) ELSE Bad
    [] g = "GRP15" -> IF r < 4
                      THEN Plain(PickFrom(<<"fxsave", "fxrstor", "ldmxcsr", "stmxcsr">>, r), <<Ev>>)
                      ELSE Plain(PickFrom(<<"xsave", "lfence", "mfence", "clflush">>, r - 4),
                                 <<<<"0fae", "none">>>>)
    [] g = "GRP16" -> IF r > 3 THEN Bad
                      ELSE Plain(PickFrom(<<"prefetchnta", "prefetcht0", "prefetcht1", "prefetcht2">>, r), <<Ev>>)
    [] g = "GRPAMD" -> IF r > 1 THEN Bad ELSE Plain(PickFrom(<<"prefetch", "prefetchw">>, r), <<Eb>>)

\* prefix_user_table, for the entries of other than SSE
PrefixGroup(g, prefixes) ==
  LET repz == "REPZ" \in prefixes  repnz == ~repz /\ "REPNZ" \in prefixes
      data == ~repz /\ ~repnz /\ "DATA" \in prefixes
  IN  CASE g = "PREGRP36" -> IF repnz THEN Bad ELSE Plain(IF repz THEN "lzcnt" ELSE "bsr", <<Gv, Ev>>)
        [] g = "PREGRP37" -> IF repz THEN Plain("popcnt", <<Gv, Ev>>) ELSE Bad
        [] g = "PREGRP38" -> IF repz THEN Plain("pause", <<>>)
                             ELSE IF repnz THEN Bad
                             ELSE Plain("xchg", <<<<"NOP_Fixup1", EReg(0)>>, <<"NOP_Fixup2", EReg(0)>>>>)

ArithGroups  == {"GRP1a", "GRP1b", "GRP1S", "GRP1Ss", "GRP2b", "GRP2S", "GRP2b_one", "GRP2S_one",
                 "GRP2b_cl", "GRP2S_cl", "GRP3b", "GRP3S", "GRP4", "GRP5"}
SystemGroups == {"GRP6", "GRP7", "GRP8", "GRP9", "GRP11_C6", "GRP11_C7", "GRP15", "GRP16", "GRPAMD"}
PrefixGroups == {"PREGRP36", "PREGRP37", "PREGRP38"}

\* Cases Q, U and R of disas_putop: the size of the operands.
SizeLetter(dflag) == IF dflag THEN "l" ELSE "w"
\* Case W, with the letters that follow it: cwtl and cbtw.
Widening(dflag) == (IF dflag THEN "w" ELSE "b") \o "t" \o SizeLetter(dflag)

(* disas_putop: the letters that print something.  The names are made once, *)
(* by opc_init, when no instruction has been decoded: there are no prefixes *)
(* and no register operands.                                                *)
Putop(stem, letters, aflag, dflag) ==
  CASE letters \in {"Q", "U", "R"} -> stem \o SizeLetter(dflag)
    [] letters = "A"   -> stem \o "b"
    [] letters = "F"   -> stem \o SizeLetter(aflag)
    [] letters = "WtR" -> stem \o Widening(dflag)
    [] letters = "RtO" -> stem \o SizeLetter(dflag) \o "td"
    [] letters = ""    -> stem

(* The names of an entry, one for each sizeflag.  Equal names share an opc  *)
(* (opctable_insert), which the name stands for here.                       *)
opctable_dp(dp) ==
  [sizeflag \in [AFLAG : BOOLEAN, DFLAG : BOOLEAN] |->
     Putop(dp.stem, dp.letters, sizeflag.AFLAG, sizeflag.DFLAG)]
opctable_find(dp, sizeflag) == opctable_dp(dp)[sizeflag]

----------------------------------------------------------------------------
(* The tables of x87 instructions, indexed by the byte of the opcode, d8   *)
(* to df, and the fields reg and rm of the modrm byte.  The templates are  *)
(* given as disas_putop prints them when opc_init makes the names: the     *)
(* first of {s||s|}, N as n, nothing for I and C.                          *)

ST  == <<"ST", "none">>
STi == <<"STi", "none">>

Arith == <<"fadd", "fmul", "fcom", "fcomp", "fsub", "fsubr", "fdiv", "fdivr">>
IntegerArith == <<"fiadd", "fimul", "ficom", "ficomp", "fisub", "fisubr", "fidiv", "fidivr">>

\* float_mem; d8 and dc, da and de differ in the suffix only.
float_mem(floatop, reg) ==
  LET suffixed(names, s) == PickFrom(names, reg) \o s
  IN  CASE floatop = 216 -> suffixed(Arith, "s")
        [] floatop = 217 -> PickFrom(<<"flds", "(bad)", "fsts", "fstps",
                                       "fldenv", "fldcw", "fnstenv", "fnstcw">>, reg)
        [] floatop = 218 -> suffixed(IntegerArith, "l")
        [] floatop = 219 -> PickFrom(<<"fildl", "fisttpl", "fistl", "fistpl",
                                       "(bad)", "fldt", "(bad)", "fstpt">>, reg)
        [] floatop = 220 -> suffixed(Arith, "l")
        [] floatop = 221 -> PickFrom(<<"fldl", "fisttpll", "fstl", "fstpl",
                                       "frstor", "(bad)", "fnsave", "fnstsw">>, reg)
        [] floatop = 222 -> suffixed(IntegerArith, "")
        [] floatop = 223 -> PickFrom(<<"fild", "fisttp", "fist", "fistp",
                                       "fbld", "fildll", "fbstp", "fistpll">>, reg)

float_mem_mode(floatop, reg) ==
  CASE floatop \in {216, 218} -> "d"
    [] floatop = 217 -> PickFrom(<<"d", "none", "d", "d", "none", "w", "none", "w">>, reg)
    [] floatop = 219 -> PickFrom(<<"d", "d", "d", "d", "none", "t", "none", "t">>, reg)
    [] floatop = 220 -> "q"
    [] floatop = 221 -> PickFrom(<<"q", "q", "q", "q", "none", "none", "none", "w">>, reg)
    [] floatop = 222 -> "w"
    [] floatop = 223 -> PickFrom(<<"w", "w", "w", "w", "t", "q", "t", "q">>, reg)

\* Entries of float_reg, by their operands.
FromTop(name) == Plain(name, <<ST, STi>>)
IntoReg(name) == Plain(name, <<STi, ST>>)
OnStack(name) == Plain(name, <<STi>>)

\* fcom and fcomp have one operand in d8 and are bad in dc and de.
ArithRow(reg) ==
  IF reg \in {2, 3} THEN OnStack(PickFrom(Arith, reg)) ELSE FromTop(PickFrom(Arith, reg))
ToRow(reg, suffix) == IF reg \in {2, 3} THEN Bad ELSE IntoReg(PickFrom(Arith, reg) \o suffix)

float_reg(floatop, reg) ==
  CASE floatop = 216 -> ArithRow(reg)
    [] floatop = 217 -> PickFrom(<<OnStack("fld"), OnStack("fxch"), Escape("FGRPd9_2"), Bad,
                                   Escape("FGRPd9_4"), Escape("FGRPd9_5"),
                                   Escape("FGRPd9_6"), Escape("FGRPd9_7")>>, reg)
    [] floatop = 218 -> PickFrom(<<FromTop("fcmovb"), FromTop("fcmove"), FromTop("fcmovbe"),
                                   FromTop("fcmovu"), Bad, Escape("FGRPda_5"), Bad, Bad>>, reg)
    [] floatop = 219 -> PickFrom(<<FromTop("fcmovnb"), FromTop("fcmovne"), FromTop("fcmovnbe"),
                                   FromTop("fcmovnu"), Escape("FGRPdb_4"), FromTop("fucomi"),
                                   FromTop("fcomi"), Bad>>, reg)
    [] floatop = 220 -> ToRow(reg, "")
    [] floatop = 221 -> PickFrom(<<OnStack("ffree"), Bad, OnStack("fst"), OnStack("fstp"),
                                   OnStack("fucom"), OnStack("fucomp"), Bad, Bad>>, reg)
    [] floatop = 222 -> IF reg = 3 THEN Escape("FGRPde_3") ELSE ToRow(reg, "p")
    [] floatop = 223 -> PickFrom(<<OnStack("ffreep"), Bad, Bad, Bad, Escape("FGRPdf_4"),
                                   FromTop("fucomip"), FromTop("fcomip"), Bad>>, reg)

\* A group of fgrps that starts with some names; the others are bad.
Padded(names, rm) == IF rm < Len(names) THEN PickFrom(names, rm) ELSE "(bad)"

fgrps(group, rm) ==
  CASE group = "FGRPd9_2" -> Padded(<<"fnop">>, rm)
    [] group = "FGRPd9_4" -> Padded(<<"fchs", "fabs", "(bad)", "(bad)", "ftst", "fxam">>, rm)
    [] group = "FGRPd9_5" -> Padded(<<"fld1", "fldl2t", "fldl2e", "fldpi",
                                      "fldlg2", "fldln2", "fldz">>, rm)
    [] group = "FGRPd9_6" -> Padded(<<"f2xm1", "fyl2x", "fptan", "fpatan",
                                      "fxtract", "fprem1", "fdecstp", "fincstp">>, rm)
    [] group = "FGRPd9_7" -> Padded(<<"fprem", "fyl2xp1", "fsqrt", "fsincos",
                                      "frndint", "fscale", "fsin", "fcos">>, rm)
    [] group \in {"FGRPda_5", "FGRPde_3"} ->
         Padded(<<"(bad)", IF group = "FGRPda_5" THEN "fucompp" ELSE "fcompp">>, rm)
    [] group = "FGRPdb_4" -> Padded(<<"feni(287 only)", "fdisi(287 only)", "fnclex", "fninit",
                                      "fnsetpm(287 only)">>, rm)
    [] group = "FGRPdf_4" -> Padded(<<"fnstsw">>, rm)

=============================================================================
