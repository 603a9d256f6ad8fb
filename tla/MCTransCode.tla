---------------------------- MODULE MCTransCode -----------------------------
(***************************************************************************)
(* TransCode for every kind of branch, in both builds.                     *)
(***************************************************************************)
EXTENDS TransCode

\* With @@ TLC keeps the value of a function.
MCTable == [CALL_OPT \in BOOLEAN |-> Rules(CALL_OPT)] @@ <<>>

MCRegs == {0, 5, 6, 7}

Const(t, size, val) == Op(t, size, val, "const")
MCInsn(opc, o, taken, percpu, intr) ==
  [opc |-> opc, op |-> <<o, None, None>>, taken |-> taken, percpu |-> percpu,
   intr |-> intr]

\* Registers but esp, which the kernel does not branch to.
MCRegOps == {Const("reg", 4, r) : r \in Regs \ {ESP}}

\* Memory operands without, with one and with two registers.
MCMem(bases) ==
  {MemOp(Const("seg", 4, 3), Const("reg", 4, b), Const("reg", 4, i), s,
         Const("imm", 0, 8)) :
     b \in bases \cup {-1}, i \in MCRegs, s \in {1, 2, 4, 8}}
  \cup {MemOp(Const("seg", 4, 3), Const("reg", 4, b), NoReg, 0, Const("imm", 0, 8)) :
          b \in bases \cup {-1}}

MCInsns ==
  {MCInsn("jmp", o, FALSE, FALSE, i) :
     o \in MCRegOps \cup MCMem(MCRegs) \cup {Const("imm", 0, 9)}, i \in BOOLEAN}
  \cup {MCInsn("call", o, FALSE, FALSE, i) :
     o \in MCRegOps \cup MCMem(MCRegs \cup {ESP}) \cup {Const("imm", 0, 9)},
     i \in BOOLEAN}
  \cup {MCInsn(opc, Const("imm", 0, 9), t, FALSE, i) :
          opc \in {"jcc", "jecxz"}, t \in BOOLEAN, i \in BOOLEAN}
  \cup {MCInsn(opc, None, FALSE, FALSE, i) : opc \in {"ret", "iret"}, i \in BOOLEAN}
  \cup {MCInsn(opc, Const("seg", 0, 3), FALSE, p, i) :
          opc \in {"push", "pop"}, p \in BOOLEAN, i \in BOOLEAN}

\* Without CALL_OPT, indirect branches through memory at esp.
MCPlain == [CALL_OPT \in {FALSE} |-> Rules(CALL_OPT)] @@ <<>>
MCEspInsns ==
  {MCInsn(opc, o, FALSE, FALSE, TRUE) :
     opc \in {"jmp", "call"}, o \in {m \in MCMem({ESP}) : m.base.val = ESP}}

MCSlotSets == {{}, {0}, {1}, {2}, {3}, {0, 2}, {1, 3}}
=============================================================================
