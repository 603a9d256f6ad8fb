----------------------------- MODULE TransCode ------------------------------
(***************************************************************************)
(* The code that the translator emits for one branch of the guest, from    *)
(* the rule that matches it and the registers chosen for its temporaries,  *)
(* executed instruction by instruction on a processor whose values are     *)
(* terms.  An interrupt comes whenever interrupts are enabled.             *)
(***************************************************************************)
EXTENDS PeepTab, PeepMatch, FiniteSets

CONSTANTS
  Insns,     \* the instructions translated
  SlotSets   \* in which of the four slots of its set the target may be

VARIABLES
  insn,      \* the instruction, with what decides it: condition, fs, IF
  match,     \* its rule, assignments and temporaries, none (rule 0) at first
  pc,        \* the place in the emitted code
  reg,       \* registers other than esp
  esp,       \* how many words esp is above where it was
  stack,     \* words of the stack, by their distance from there
  flags,     \* who set the arithmetic flags, the zero flag, IF
  tx,        \* %fs:tx_target
  slots,     \* the set of jumptable1 that the target is looked up in
  left,      \* "no", or how the code was left
  dest,      \* where it went
  before     \* history: slots when interrupts were disabled last

vars == <<call_opt, insn, match, pc, reg, esp, stack, flags, tx, slots, left, dest, before>>

Depth == 4    \* words of the stack of the guest
Below == -6   \* the code pushes at most six words

InitReg == [r \in Regs \ {ESP} |-> <<"reg", r>>]
Following == <<"eip", "next">>

----------------------------------------------------------------------------
(* The slots *)

Pair(eip) == [eip |-> eip, tc |-> <<"tc", eip>>]

\* The target of an indirect branch, in the registers it starts from.
Target ==
  LET o == insn.op[1]
      V(r) == IF r = -1 THEN <<"none">>
              ELSE IF r = ESP THEN <<"esp", 0>> ELSE InitReg[r]
  IN  CASE insn.opc = "ret" -> <<"stk", 1>>
        [] o.type = "reg"   -> V(o.val)
        [] o.type = "mem"   -> <<"mem", o.seg.val, V(o.base.val), V(o.index.val),
                                 o.scale, o.disp.val>>
        [] OTHER            -> <<"none">>

\* The target may be in any of the slots, or in several.
SlotStates ==
  {[k \in 0 .. 3 |-> IF k \in S THEN Pair(Target) ELSE Pair(<<"other", k>>)] :
     S \in IF Target = <<"none">> THEN {{}} ELSE SlotSets}

----------------------------------------------------------------------------
(* Code and operands *)

Translated == match.rule # 0
Code == peep_tab[match.rule].code
At(i) == Code[i]

\* The register that a register of a rule stands for.
RegNo(ref) ==
  CASE ref[1] = "const" -> ref[2]
    [] ref[1] = "temp"  -> match.temps[ref[2] + 1]
    [] ref[1] = "var"   -> ValueOf(match.asg, RegVar(ref[2], "var")).val

RegVal(r) == IF r = -1 THEN <<"none">> ELSE IF r = ESP THEN <<"esp", esp>>
             ELSE reg[r]

Val(o) ==
  CASE o.at = "reg"  -> RegVal(RegNo(o.reg))
    [] o.at = "tx"   -> tx
    [] o.at = "mem"  -> LET m == insn.op[1]
                        IN  <<"mem", m.seg.val, RegVal(m.base.val),
                              RegVal(m.index.val), m.scale, m.disp.val>>
    [] o.at = "C0"   -> <<"imm", ValueOf(match.asg, ImmVar(0)).val>>
    [] o.at = "imm"  -> o.val
    [] o.at = "joff" -> <<"joff", o.edge>>
    [] o.at = "sreg" -> IF o.seg = "ds" THEN <<"seg", "ds">>
                        ELSE <<"sel", IF insn.percpu THEN "percpu" ELSE "user">>
    [] o.at = "slot" -> slots[o.k][o.word]

Put(o, v) ==
  \/ /\ o.at = "reg"
     /\ reg' = [reg EXCEPT ![RegNo(o.reg)] = v]
     /\ UNCHANGED <<tx, slots>>
  \/ /\ o.at = "tx"
     /\ tx' = v
     /\ UNCHANGED <<reg, slots>>
  \/ /\ o.at = "slot"
     /\ slots' = [slots EXCEPT ![o.k][o.word] = v]
     /\ UNCHANGED <<reg, tx>>

\* Where a jump from i goes.
Labels(name) == {i \in DOMAIN Code : /\ At(i).op = "label" /\ At(i).a.at = "label"
                                     /\ At(i).a.name = name}
EdgeAt(n) == CHOOSE i \in DOMAIN Code : /\ At(i).op = "label" /\ At(i).a.at = "edge"
                                        /\ At(i).a.edge = n
Resolve(i, o) ==
  CASE o.at = "fwd"  -> Min({j \in Labels(o.name) : j > i})
    [] o.at = "back" -> Max({j \in Labels(o.name) : j < i})
    [] o.at = "edge" -> EdgeAt(o.edge) + 1

\* An edge that tells the monitor its jump, which the monitor then chains.
Chained(o) == /\ o.at = "edge"
              /\ At(EdgeAt(o.edge) + 4).a = [at |-> "joff", edge |-> o.edge]
EdgeEip(n) == Val(At(EdgeAt(n) + 3).b)

----------------------------------------------------------------------------
Init ==
  /\ call_opt \in DOMAIN Tables
  /\ insn \in Insns
  /\ match = [rule |-> 0, asg |-> <<>>, temps |-> <<>>]
  /\ pc = 1
  /\ reg = InitReg
  /\ esp = 0
  /\ stack = [k \in Below .. Depth - 1 |-> IF k < 0 THEN <<"none">>
                                           ELSE <<"stk", k + 1>>]
  /\ flags = [owner |-> "guest", zf |-> FALSE, intr |-> insn.intr]
  /\ tx = <<"tx">>
  /\ slots \in SlotStates
  /\ left = "no"
  /\ dest = <<"none">>
  /\ before = slots

\* peep_translate.  The bucket has the rule added last first.
Translate ==
  /\ ~Translated
  /\ LET k == Max(Matching(insn))
         asg == CHOOSE a \in Matches(insn, peep_tab[k]) : TRUE
     IN  match' = [rule |-> k, asg |-> asg, temps |-> Temporaries(peep_tab[k], asg)]
  /\ UNCHANGED <<insn, pc, reg, esp, stack, flags, tx, slots, left, dest, before>>

\* The next instruction is one of ops.
Executes(ops) ==
  /\ Translated /\ left = "no" /\ pc \in DOMAIN Code
  /\ At(pc).op \in ops
  /\ before' = IF At(pc).op = "cli" THEN slots ELSE before
  /\ UNCHANGED <<insn, match>>

Stays  == UNCHANGED <<left, dest>>
Steps  == pc' = pc + 1 /\ Stays
Pushed(v) == esp' = esp - 1 /\ stack' = [stack EXCEPT ![esp - 1] = v]
Popped == esp' = esp + 1 /\ UNCHANGED stack

Label ==
  /\ Executes({"label"})
  /\ At(pc).a.at = "label"
  /\ Steps
  /\ UNCHANGED <<reg, esp, stack, flags, tx, slots>>

PushWord ==
  /\ Executes({"push", "pushf"})
  /\ Pushed(IF At(pc).op = "pushf" THEN <<"flags", flags>> ELSE Val(At(pc).a))
  /\ Steps
  /\ UNCHANGED <<reg, flags, tx, slots>>

PopWord ==
  /\ Executes({"pop"})
  /\ Put(At(pc).a, stack[esp])
  /\ Popped
  /\ Steps
  /\ UNCHANGED flags

PopFlags ==
  /\ Executes({"popf"})
  /\ flags' = stack[esp][2]
  /\ Popped
  /\ Steps
  /\ UNCHANGED <<reg, tx, slots>>

Move ==
  /\ Executes({"mov"})
  /\ Put(At(pc).a, Val(At(pc).b))
  /\ Steps
  /\ UNCHANGED <<esp, stack, flags>>

\* andl $JUMPTABLE1_MASK
Mask ==
  /\ Executes({"mask"})
  /\ Put(At(pc).a, <<"mask", Val(At(pc).a)>>)
  /\ flags' = [flags EXCEPT !.owner = "code", !.zf = FALSE]
  /\ Steps
  /\ UNCHANGED <<esp, stack>>

Compare ==
  /\ Executes({"cmp"})
  /\ flags' = [flags EXCEPT !.owner = "code", !.zf = Val(At(pc).a) = Val(At(pc).b)]
  /\ Steps
  /\ UNCHANGED <<reg, esp, stack, tx, slots>>

DisableInterrupts ==
  /\ Executes({"cli"})
  /\ flags' = [flags EXCEPT !.intr = FALSE]
  /\ Steps
  /\ UNCHANGED <<reg, esp, stack, tx, slots>>

\* What decides a conditional jump, when what it tests is still the guest's.
Taken ==
  CASE At(pc).op = "jne"   -> IF flags.owner = "code" THEN {~flags.zf} ELSE BOOLEAN
    [] At(pc).op = "jcc"   -> IF flags.owner = "guest" THEN {insn.taken} ELSE BOOLEAN
    [] At(pc).op = "jecxz" -> IF reg[1] = InitReg[1] THEN {insn.taken} ELSE BOOLEAN
    [] OTHER               -> {TRUE}

\* A jump within the code, or over a chained edge to other translated code.
Goto(o) ==
  \/ /\ pc' = Resolve(pc, o)
     /\ Stays
  \/ /\ Chained(o)
     /\ left' = "chained" /\ dest' = EdgeEip(o.edge)
     /\ UNCHANGED pc

Branch ==
  /\ Executes({"jmp", "jne", "jcc", "jecxz"})
  /\ \E t \in Taken : IF t THEN Goto(At(pc).a) ELSE Steps
  /\ UNCHANGED <<reg, esp, stack, flags, tx, slots>>

\* Direct calls push the address of the code behind them.
CallCode ==
  /\ Executes({"call"})
  /\ Pushed(<<"code", pc + 1>>)
  /\ Goto(At(pc).a)
  /\ UNCHANGED <<reg, flags, tx, slots>>

Leaves(how, where) == left' = how /\ dest' = where /\ UNCHANGED pc

JumpTarget ==
  /\ Executes({"jmpi"})
  /\ Leaves("tx", tx)
  /\ UNCHANGED <<reg, esp, stack, flags, tx, slots>>

CallTarget ==
  /\ Executes({"calli"})
  /\ Pushed(<<"code", pc + 1>>)
  /\ Leaves("tx", tx)
  /\ UNCHANGED <<reg, flags, tx, slots>>

\* EXIT_TB.  The monitor pops the edge and the flags, and goes to tx_target.
ExitTb ==
  /\ Executes({"exit"})
  /\ Leaves("monitor", tx)
  /\ esp' = esp + 2
  /\ flags' = stack[esp + 1][2]
  /\ UNCHANGED <<reg, stack, tx, slots>>

\* ret and iret as they are.
ReturnAsIs ==
  /\ Executes({"ret", "iret"})
  /\ Leaves("native", stack[esp])
  /\ esp' = esp + IF At(pc).op = "ret" THEN 1 ELSE 3
  /\ flags' = IF At(pc).op = "ret" THEN flags ELSE [flags EXCEPT !.owner = "stack"]
  /\ UNCHANGED <<reg, stack, tx, slots>>

\* Edges are emitted apart: the code before the first of them runs into the
\* next instruction of the block.
RunOn ==
  /\ Translated /\ left = "no"
  /\ pc \in DOMAIN Code => At(pc).op = "label" /\ At(pc).a.at = "edge"
  /\ Leaves("next", Following)
  /\ UNCHANGED <<insn, match, reg, esp, stack, flags, tx, slots, before>>

\* An interrupt uses the stack below esp and may search and fill the table.
Interrupt ==
  /\ Translated /\ left = "no" /\ flags.intr
  /\ stack' = [k \in DOMAIN stack |-> IF k < esp THEN <<"none">> ELSE stack[k]]
  /\ slots' \in SlotStates
  /\ before' = slots'
  /\ UNCHANGED <<insn, match, pc, reg, esp, flags, tx, left, dest>>

Finished == left # "no" /\ UNCHANGED vars

Next ==
  /\ UNCHANGED call_opt
  /\ \/ Translate \/ Label \/ PushWord \/ PopWord \/ PopFlags \/ Move \/ Mask \/ Compare
     \/ DisableInterrupts \/ Branch \/ CallCode \/ JumpTarget \/ CallTarget
     \/ ExitTb \/ ReturnAsIs \/ RunOn \/ Interrupt \/ Finished

Spec == Init /\ [][Next]_vars

----------------------------------------------------------------------------
(* Properties *)

\* Exactly one rule of peep.tab matches a branch, so that the order of the
\* rules and of a bucket does not matter, and every temporary of the rule gets
\* a register of its own (peep_translate, find_temporary_regs).
OneRule ==
  /\ ~Translated => Cardinality(Matching(insn)) = 1
  /\ Translated => /\ Len(match.temps) = Len(peep_tab[match.rule].temps)
                   /\ \A i, j \in DOMAIN match.temps :
                        match.temps[i] = match.temps[j] => i = j

\* The slots of jumptable1 are read and written with interrupts disabled, and
\* with the index of the branch's own target: the emitted search is one step,
\* and touches the target's set only.
UsesSlots(i) == "slot" \in {i.a.at, i.b.at}
SlotOf(i) == IF i.a.at = "slot" THEN i.a ELSE i.b
AtomicSearch ==
  Translated /\ left = "no" /\ pc \in DOMAIN Code =>
    (UsesSlots(At(pc)) =>
       /\ ~flags.intr
       /\ RegVal(RegNo(SlotOf(At(pc)).idx.reg)) = <<"mask", Target>>)

\* A search that hits leaves the target in the first slot, and what was there
\* where the target was found first; one that misses changes no slot, and
\* misses only when no slot has the target (SEARCH_HASH_TABLE).  An indirect
\* call that pushes a translated address leaves for the monitor with
\* interrupts disabled once more, and the table may have the target by then.
Found == {k \in 0 .. 3 : before[k].eip = Target}
MovedFirst ==
  [][/\ PopFlags => slots = IF Found = {} THEN before
                            ELSE [before EXCEPT ![0] = before[Min(Found)],
                                                ![Min(Found)] = before[0]]
     /\ ExitTb => slots = before /\ (call_opt \/ Found = {})]_vars

\* A return address in translated code: execution goes on from there to the
\* instruction behind the call, by falling out of the code or over an edge.
ResumesAt[i \in 1 .. 100] ==
  IF i \notin DOMAIN Code THEN TRUE
  ELSE LET c == At(i)
       IN  CASE c.op = "label" -> c.a.at = "edge" \/ ResumesAt[i + 1]
             [] c.op = "jmp" /\ c.a.at = "edge" -> EdgeEip(c.a.edge) = Following
             [] c.op = "jmp" /\ c.a.at # "edge" -> ResumesAt[Resolve(i, c.a)]
             [] OTHER -> FALSE

\* The state of the guest: that before the branch until the code is left.  A
\* return address in translated code stands for the guest's, and the address
\* of a translation for what it translates.
AbsWord(w) == IF w[1] = "code" /\ ResumesAt[w[2]] THEN Following ELSE w
AbsEip ==
  CASE left = "no" -> <<"eip", "here">>
    [] left = "tx" -> IF dest[1] = "tc" THEN dest[2] ELSE <<"untranslated">>
    [] left = "monitor" -> IF dest[1] = "tc" THEN <<"translated">> ELSE dest
    [] OTHER -> dest

Native ==
  INSTANCE NativeInsn WITH
    eip   <- AbsEip,
    reg   <- IF left = "no" THEN InitReg ELSE reg,
    stack <- LET top == IF left = "no" THEN 0 ELSE esp
             IN  [k \in 1 .. Depth - top |->
                    IF left = "no" THEN <<"stk", k>> ELSE AbsWord(stack[top + k - 1])],
    flags <- IF left = "no" THEN [owner |-> "guest", intr |-> insn.intr]
             ELSE [owner |-> flags.owner, intr |-> flags.intr],
    saved <- IF left = "no" \/ insn.opc \notin {"push", "pop"} THEN <<"tx">> ELSE tx

\* The emitted code does to the guest what the branch itself would do: it goes
\* to the same address with the same registers, flags and stack, whether the
\* table has the target or not, edges are chained or not, and whatever
\* interrupts come.
RunsAsNative == Native!Spec
=============================================================================
