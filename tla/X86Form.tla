------------------------------ MODULE X86Form ------------------------------
(***************************************************************************)
(* How long an instruction is to the processor, in 32-bit code: opcode,    *)
(* modrm byte, sib byte, displacement, immediate.  And which registers,    *)
(* how often, and which displacement its memory operand adds up.  Written  *)
(* from the processor's opcode map, not from the code that is verified;    *)
(* the instructions of SSE and VMX are left out.                           *)
(***************************************************************************)
EXTENDS Integers, Sequences

DataPrefix == 102
AddrPrefix == 103
Escape0F == 15

\* An opcode is [two, byte].
HasModrm(o) ==
  IF o.two
  THEN o.byte \in {0, 1, 2, 3, 13, 24, 31} \cup 32 .. 35 \cup 64 .. 79 \cup 144 .. 159
                  \cup 163 .. 165 \cup 171 .. 184 \cup 186 .. 193 \cup {195, 199}
  ELSE \/ o.byte < 64 /\ o.byte % 8 < 4
       \/ o.byte \in {98, 99, 105, 107} \cup 128 .. 143 \cup {192, 193} \cup 196 .. 199
                     \cup 208 .. 211 \cup 216 .. 223 \cup {246, 247, 254, 255}

NoModrm(o) ==
  IF o.two THEN o.byte \in {5, 6, 8, 9, 11} \cup 48 .. 53 \cup 128 .. 143
                           \cup 160 .. 162 \cup 168 .. 170 \cup 200 .. 207
  ELSE ~HasModrm(o) /\ o.byte \notin {15, 38, 46, 54, 62, 155, 214, 240, 241, 242, 243} \cup 100 .. 103

\* The opcodes of which the field reg of the modrm byte is a part: those of
\* its values that are instructions.
Extensions(o) ==
  IF o.two
  THEN CASE o.byte = 0   -> 0 .. 5
         [] o.byte = 1   -> {0, 1, 2, 3, 4, 6, 7}
         [] o.byte = 13  -> 0 .. 1
         [] o.byte = 24  -> 0 .. 3
         [] o.byte \in {32, 34} -> {0, 2, 3, 4}
         [] o.byte \in {33, 35} -> {0, 1, 2, 3, 6, 7}
         [] o.byte = 186 -> 4 .. 7
         [] o.byte = 199 -> {1}
         [] OTHER -> 0 .. 7
  ELSE CASE o.byte \in {143, 198, 199} -> {0}
         [] o.byte \in {140, 142} -> 0 .. 5
         [] o.byte \in {192, 193} \cup 208 .. 211 -> 0 .. 7 \ {6}
         [] o.byte \in {246, 247} -> 0 .. 7 \ {1}
         [] o.byte = 254 -> 0 .. 1
         [] o.byte = 255 -> 0 .. 6
         [] OTHER -> 0 .. 7

\* The opcodes whose operand is in memory, and those that name registers
\* only.
MemoryOnly(o, reg) ==
  IF o.two THEN \/ o.byte \in {13, 24, 178, 180, 181, 195, 199}
                \/ o.byte = 174 /\ reg < 5
                \/ o.byte = 1 /\ reg \notin {4, 6}
  ELSE o.byte \in {98, 141, 196, 197} \/ (o.byte = 255 /\ reg \in {3, 5})
RegisterOnly(o, reg) == o.two /\ (o.byte \in 32 .. 35 \/ (o.byte = 174 /\ reg \in {5, 6}))

\* The size of the immediate; w is the operand size and a the address size.
Immediate(o, reg, w, a) ==
  IF o.two
  THEN CASE o.byte \in 128 .. 143 -> w
         [] o.byte \in {164, 172, 186} -> 1
         [] OTHER -> 0
  ELSE CASE o.byte < 64 /\ o.byte % 8 = 4 -> 1
         [] o.byte < 64 /\ o.byte % 8 = 5 -> w
         [] o.byte \in {104, 105, 129, 169, 199, 232, 233} \cup 184 .. 191 -> w
         [] o.byte \in {106, 107, 128, 131, 168, 192, 193, 198, 205, 212, 213, 235}
                       \cup 112 .. 127 \cup 176 .. 183 \cup 224 .. 231 -> 1
         [] o.byte \in {154, 234} -> w + 2
         [] o.byte \in 160 .. 163 -> a
         [] o.byte \in {194, 202} -> 2
         [] o.byte = 200 -> 3
         [] o.byte \in {246, 247} /\ reg = 0 -> IF o.byte = 246 THEN 1 ELSE w
         [] OTHER -> 0

\* mod, reg and rm of a modrm byte; scale, index and base of a sib byte.
Fields(byte) == <<byte \div 64, (byte \div 8) % 8, byte % 8>>

\* Whether a sib byte follows, and the size of the displacement.
HasSib(modrm, a) == a = 4 /\ Fields(modrm)[1] # 3 /\ Fields(modrm)[3] = 4
DispSize(modrm, sib, a) ==
  LET mod == Fields(modrm)[1]
      rm  == IF HasSib(modrm, a) THEN Fields(sib)[3] ELSE Fields(modrm)[3]
  IN  CASE mod = 3 -> 0
        [] mod = 1 -> 1
        [] mod = 2 -> a
        [] mod = 0 -> IF rm = (IF a = 4 THEN 5 ELSE 6) THEN a ELSE 0

\* What the address is of: how often each of the eight registers is added.
Once(r) == [i \in 0 .. 7 |-> IF i = r THEN 1 ELSE 0]
Nothing == [i \in 0 .. 7 |-> 0]
Sum2(f, g) == [i \in 0 .. 7 |-> f[i] + g[i]]
Addends16 == <<Sum2(Once(3), Once(6)), Sum2(Once(3), Once(7)), Sum2(Once(5), Once(6)),
               Sum2(Once(5), Once(7)), Once(6), Once(7), Once(5), Once(3)>>
Addends(modrm, sib, a) ==
  LET mod == Fields(modrm)[1]  rm == Fields(modrm)[3]
      s == Fields(sib)
      based(r) == IF mod = 0 /\ r = 5 THEN Nothing ELSE Once(r)
  IN  CASE a = 2 -> IF mod = 0 /\ rm = 6 THEN Nothing ELSE Addends16[rm + 1]
        [] a = 4 /\ rm # 4 -> based(rm)
        [] a = 4 /\ rm = 4 ->
             Sum2(based(s[3]),
                  IF s[2] = 4 THEN Nothing
                  ELSE [i \in 0 .. 7 |-> IF i = s[2] THEN <<1, 2, 4, 8>>[s[1] + 1] ELSE 0])

=============================================================================
