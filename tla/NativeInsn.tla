----------------------------- MODULE NativeInsn -----------------------------
(***************************************************************************)
(* What the processor does for one branch of the guest, or for one         *)
(* instruction that saves or restores %ds: the promise that the emitted    *)
(* code keeps.  Values are terms, so that two values are equal only when   *)
(* they are for every content of the registers and of memory.              *)
(***************************************************************************)
EXTENDS Integers, Sequences

VARIABLES
  insn,    \* the instruction, with what decides it: condition, fs
  eip,     \* where it is, and where it went
  reg,     \* registers other than esp
  stack,   \* the words that esp points to and above
  flags,   \* whose arithmetic flags there are, and the interrupt flag
  saved    \* for pushl and popl %ds, the target of the branch interrupted

vars == <<insn, eip, reg, stack, flags, saved>>

ESP   == 4
Depth == 4   \* words of the stack at first
Here  == <<"eip", "here">>
Following == <<"eip", "next">>
Word(k)   == <<"stk", k>>

\* The value of a register: that of esp is its distance from where it was.
RegVal(r) == IF r = ESP THEN <<"esp", Depth - Len(stack)>> ELSE reg[r]
BaseVal(r) == IF r = -1 THEN <<"none">> ELSE RegVal(r)

OpVal(o) ==
  CASE o.type = "imm" -> <<"imm", o.val>>
    [] o.type = "reg" -> RegVal(o.val)
    [] o.type = "mem" -> <<"mem", o.seg.val, BaseVal(o.base.val),
                           BaseVal(o.index.val), o.scale, o.disp.val>>

\* What pushl %ds saves: the entry code of the guest saves the target of the
\* branch interrupted, in place of ds, when fs is the kernel's.
SavedWord == IF insn.percpu THEN saved ELSE <<"seg", "ds">>

InitReg   == [r \in 0 .. 7 \ {ESP} |-> <<"reg", r>>]
InitStack == [k \in 1 .. Depth |-> Word(k)]

Init ==
  /\ eip = Here
  /\ reg = InitReg
  /\ stack = InitStack
  /\ flags = [owner |-> "guest", intr |-> insn.intr]
  /\ saved = <<"tx">>

Goto(target) == eip' = target /\ UNCHANGED <<insn, reg>>

Jump ==
  /\ insn.opc = "jmp"
  /\ Goto(OpVal(insn.op[1]))
  /\ UNCHANGED <<stack, flags, saved>>

CondJump ==
  /\ insn.opc \in {"jcc", "jecxz"}
  /\ Goto(IF insn.taken THEN OpVal(insn.op[1]) ELSE Following)
  /\ UNCHANGED <<stack, flags, saved>>

Call ==
  /\ insn.opc = "call"
  /\ Goto(OpVal(insn.op[1]))
  /\ stack' = <<Following>> \o stack
  /\ UNCHANGED <<flags, saved>>

Return ==
  /\ insn.opc = "ret"
  /\ Goto(stack[1])
  /\ stack' = Tail(stack)
  /\ UNCHANGED <<flags, saved>>

InterruptReturn ==
  /\ insn.opc = "iret"
  /\ Goto(stack[1])
  /\ flags' = [flags EXCEPT !.owner = "stack"]
  /\ stack' = SubSeq(stack, 4, Len(stack))
  /\ UNCHANGED saved

PushDs ==
  /\ insn.opc = "push"
  /\ Goto(Following)
  /\ stack' = <<SavedWord>> \o stack
  /\ UNCHANGED <<flags, saved>>

PopDs ==
  /\ insn.opc = "pop"
  /\ Goto(Following)
  /\ stack' = Tail(stack)
  /\ saved' = stack[1]
  /\ UNCHANGED flags

Next ==
  /\ eip = Here
  /\ \/ Jump \/ CondJump \/ Call \/ Return \/ InterruptReturn \/ PushDs \/ PopDs

Spec == Init /\ [][Next]_vars
=============================================================================
