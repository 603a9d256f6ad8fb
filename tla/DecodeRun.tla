----------------------------- MODULE DecodeRun -----------------------------
(***************************************************************************)
(* Instructions put together part by part, as the processor defines them,  *)
(* and given to disas_insn.  Every opcode of one and two bytes that        *)
(* X86Form has, with prefixes, modrm and sib bytes and two rests, of which *)
(* displacements and immediates are taken.                                 *)
(***************************************************************************)
EXTENDS Decode, FiniteSets
X == INSTANCE X86Form

\* Bounds: the prefixes, the fields of modrm and sib bytes, the rests.
CONSTANTS Prefixes, Rms, Bases, Indices, Scales
RepPrefix == 243
PrefixLists == {<<>>} \cup {<<p>> : p \in Prefixes} \cup {<<X!DataPrefix, X!AddrPrefix>>}
Tails == {<<130, 18, 163, 52, 69, 86, 103, 120, 9, 10>>, <<2, 146, 163, 180, 69, 86, 103, 120, 9, 10>>}

VARIABLES
  parts,   \* what there is of the instruction
  insn     \* what disas_insn makes of it
decodeVars == <<parts, insn>>

Undecoded == [length |-> 0]
NoParts == [stage |-> "prefixes", prefixes |-> <<>>, o |-> [two |-> FALSE, byte |-> 0],
          modrm |-> 0, sib |-> 0, rest |-> <<>>]

addrSize == IF X!AddrPrefix \in {parts.prefixes[i] : i \in DOMAIN parts.prefixes} THEN 2 ELSE 4
dataSize == IF X!DataPrefix \in {parts.prefixes[i] : i \in DOMAIN parts.prefixes} THEN 2 ELSE 4
RegField == X!Fields(parts.modrm)[2]

(* Where disas_insn does not follow the processor: 82 is no opcode; sidt,    *)
(* monitor and mwait (0f 01 /1) lose the modrm byte; a fence has rm 0.       *)
NoOpcode(o) == ~o.two /\ o.byte = 130
Deviates(o, modrm) ==
  LET f == X!Fields(modrm)
  IN  \/ o.two /\ o.byte = 1 /\ f[2] = 1
      \/ o.two /\ o.byte = 174 /\ f[1] = 3 /\ f[3] # 0
\* 0f b8 is popcnt with a rep prefix only.
Popcnt == [two |-> TRUE, byte |-> 184]

DecodeInit == parts = NoParts /\ insn = Undecoded

Prefixed ==
  /\ parts.stage = "prefixes"
  /\ \E p \in PrefixLists : parts' = [parts EXCEPT !.stage = "opcode", !.prefixes = p]
  /\ UNCHANGED insn

Opcode ==
  /\ parts.stage = "opcode"
  /\ \E o \in [two : BOOLEAN, byte : 0 .. 255] :
       /\ (X!HasModrm(o) \/ X!NoModrm(o)) /\ ~NoOpcode(o)
       /\ o = Popcnt => parts.prefixes = <<RepPrefix>>
       /\ parts' = [parts EXCEPT !.o = o, !.stage = IF X!HasModrm(o) THEN "modrm" ELSE "rest"]
  /\ UNCHANGED insn

Modrm ==
  /\ parts.stage = "modrm"
  /\ \E mod \in 0 .. 3, reg \in X!Extensions(parts.o), rm \in Rms :
       LET m == 64 * mod + 8 * reg + rm
       IN  /\ mod = 3 => ~X!MemoryOnly(parts.o, reg)
           /\ mod # 3 => ~X!RegisterOnly(parts.o, reg)
           /\ ~Deviates(parts.o, m)
           /\ parts' = [parts EXCEPT !.modrm = m,
                          !.stage = IF X!HasSib(m, addrSize) THEN "sib" ELSE "rest"]
  /\ UNCHANGED insn

Sib ==
  /\ parts.stage = "sib"
  /\ \E s \in Scales, i \in Indices, b \in Bases :
       parts' = [parts EXCEPT !.sib = 64 * s + 8 * i + b, !.stage = "rest"]
  /\ UNCHANGED insn

Form == parts.prefixes \o (IF parts.o.two THEN <<X!Escape0F, parts.o.byte>> ELSE <<parts.o.byte>>)
         \o (IF X!HasModrm(parts.o) THEN <<parts.modrm>> ELSE <<>>)
         \o (IF X!HasModrm(parts.o) /\ X!HasSib(parts.modrm, addrSize) THEN <<parts.sib>> ELSE <<>>)

Whole ==
  /\ parts.stage = "rest"
  /\ \E r \in Tails :
       /\ parts' = [parts EXCEPT !.stage = "decoded", !.rest = r]
       /\ insn' = DisasInsn(Form \o r)

\* The next instruction.
Again ==
  /\ parts.stage = "decoded"
  /\ parts' = NoParts /\ insn' = Undecoded

DecodeNext == Prefixed \/ Opcode \/ Modrm \/ Sib \/ Whole \/ Again

----------------------------------------------------------------------------
DispLen == IF X!HasModrm(parts.o) THEN X!DispSize(parts.modrm, parts.sib, addrSize) ELSE 0

(* The translator decodes a guest page instruction by instruction and never *)
(* aligns again: each instruction is as long as the processor takes it for, *)
(* whatever its prefixes, addressing form and immediate (disas_insn).       *)
LengthRight ==
  parts.stage = "decoded" =>
    insn.length = Len(Form) + DispLen + X!Immediate(parts.o, RegField, dataSize, addrSize)

Addend(op) == [r \in 0 .. 7 |-> (IF op.base = r THEN 1 ELSE 0)
                                + (IF op.index = r THEN op.scale ELSE 0)]
Extended(bytes) ==
  bytes \o [i \in 1 .. 4 - Len(bytes) |-> IF bytes # <<>> /\ bytes[Len(bytes)] >= 128 THEN 255 ELSE 0]

(* The rules copy memory operands into generated code, and instrumentation   *)
(* computes their addresses: an instruction with a modrm byte of a memory    *)
(* form has one memory operand, of the registers, scale and displacement     *)
(* the processor adds (DIS_E, DIS_M).                                        *)
AddressRight ==
  parts.stage = "decoded" /\ X!HasModrm(parts.o) /\ X!Fields(parts.modrm)[1] # 3 =>
    LET mems == {i \in 1 .. 3 : insn.op[i].type = "mem"}
    IN  /\ Cardinality(mems) = 1
        /\ \A i \in mems :
             /\ insn.op[i].addrsize = addrSize
             /\ Addend(insn.op[i]) = X!Addends(parts.modrm, parts.sib, addrSize)
             /\ insn.op[i].disp = Extended(SubSeq(parts.rest, 1, DispLen))

=============================================================================
