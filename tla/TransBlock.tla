----------------------------- MODULE TransBlock -----------------------------
(***************************************************************************)
(* The contents of a translation block.  translate (peep/peep.c) runs      *)
(* twice, first to measure and then to write; the offsets it records in    *)
(* the second pass are what peep/tb.c translates addresses with, in both   *)
(* directions.  Under translation_lock, so that one processor translates   *)
(* at a time, but the other ones may do a TRANSLATE_IDT meanwhile, and     *)
(* shadow_idt_loaded decides in every iteration of both passes what is     *)
(* emitted.                                                                *)
(***************************************************************************)
EXTENDS Integers, Sequences, FiniteSets

CONSTANTS
  Cpus,      \* the first of them is Boot
  Boot,      \* the processor that runs INIT_BT
  NoCpu,
  Code,      \* the instructions of the guest, by address
  Starts,    \* where blocks may begin
  CountLen,  \* bytes emitted by count_insns, 0 if not configured
  Room,      \* bytes of tpage, 16 pages
  Width,     \* 65536: boundaries are uint16_t
  MaxTu,     \* MAX_TU_SIZE, instructions of a block
  MaxLen,    \* bytes of an instruction
  MaxEx      \* entries the module's exception table has room for

Insns == DOMAIN Code

\* len:  bytes of the instruction
\* rule: a rule of peep.tab matches; it emits out bytes and edge bytes
\* term: insn_is_terminating, and the rule does not reset it
\* ins:  bytes instrument_memory emits; rep: it emulates the instruction
\* fix:  the kernel's exception table has an entry
Insn == [len : 1 .. MaxLen, rule : BOOLEAN, out : Nat \ {0}, edge : Nat,
         term : BOOLEAN, ins : Nat, rep : BOOLEAN, fix : BOOLEAN]

Terminates(a) == Code[a].rule /\ Code[a].term

ASSUME CodeAssumption ==
  /\ Boot \in Cpus /\ NoCpu \notin Cpus
  /\ Insns \subseteq Nat /\ Starts \subseteq Insns
  /\ \A a \in Insns :
       /\ Code[a] \in Insn
       /\ ~Terminates(a) => a + Code[a].len \in Insns
  /\ CountLen \in Nat /\ MaxEx \in Nat
  /\ Width \in Nat \ {0} /\ Room \in 0 .. Width
  /\ MaxTu \in Nat /\ MaxLen \in Nat /\ MaxTu * MaxLen < Width

VARIABLES
  inited,             \* INIT_BT is over
  shadow_idt_loaded,
  idt,                \* of each processor: native, lidt (executed, interrupts
                      \* still disabled) or shadow
  cpu,                \* the processor that translates
  pc,                 \* idle, measure, alloc, write or overrun
  ptr, optr, eptr, n_in,  \* local to translate, relative to the buffers
  tb,                 \* the block being made
  tbs,                \* the blocks made
  extable,            \* the module's exception table, without its own entries
  measured            \* history: <<ptr, optr, eptr>> of the first pass

idtVars  == <<inited, shadow_idt_loaded, idt>>
passVars == <<ptr, optr, eptr, n_in>>
vars == <<idtVars, cpu, pc, passVars, tb, tbs, extable, measured>>

NoTb == [eip_virt |-> 0, end_eip |-> 0, num_insns |-> 0, code_len |-> 0,
         edge_len |-> 0, tc_boundaries |-> <<>>, eip_boundaries |-> <<>>,
         tc |-> {}]

----------------------------------------------------------------------------
\* The addresses of tb.c, as offsets from tc_ptr.

\* Where the instruction of an index, from 1, begins in the guest.
InsnEip(b, i) == b.eip_virt + (IF i = 1 THEN 0 ELSE b.eip_boundaries[i - 1])

\* Mutant of TcPtrToEipVirt: the end of an instruction belongs to it.
TcPtrToEipVirtLate(b, off) ==
  LET hit(i) == b.tc_boundaries[i] <= off /\ off <= b.tc_boundaries[i + 1]
  IN  {InsnEip(b, i) : i \in {i \in 1 .. b.num_insns :
         hit(i) /\ \A j \in 1 .. i - 1 : ~hit(j)}}

\* tb_tc_ptr_to_eip_virt: the first instruction whose code holds the offset;
\* no element if there is none (NOT_REACHED).
TcPtrToEipVirt(b, off) ==
  LET hit(i) == b.tc_boundaries[i] <= off /\ off < b.tc_boundaries[i + 1]
  IN  {InsnEip(b, i) : i \in {i \in 1 .. b.num_insns :
         hit(i) /\ \A j \in 1 .. i - 1 : ~hit(j)}}

\* Mutant of EipVirtToTcPtr: an instruction ends one byte late.
EipVirtToTcPtrLate(b, eip) ==
  LET hit(i) == eip <= b.eip_virt + b.eip_boundaries[i]
  IN  {b.tc_boundaries[i] + (eip - InsnEip(b, i)) : i \in {i \in 1 .. b.num_insns :
         hit(i) /\ \A j \in 1 .. i - 1 : ~hit(j)}}

\* eip_virt_to_tc_ptr, which is called for addresses behind the first one.
EipVirtToTcPtr(b, eip) ==
  LET hit(i) == eip < b.eip_virt + b.eip_boundaries[i]
  IN  {b.tc_boundaries[i] + (eip - InsnEip(b, i)) : i \in {i \in 1 .. b.num_insns :
         hit(i) /\ \A j \in 1 .. i - 1 : ~hit(j)}}

----------------------------------------------------------------------------
Init ==
  /\ inited = FALSE /\ shadow_idt_loaded = FALSE
  /\ idt = [p \in Cpus |-> "native"]
  /\ cpu = NoCpu /\ pc = "idle"
  /\ ptr = 0 /\ optr = 0 /\ eptr = 0 /\ n_in = 0
  /\ tb = NoTb /\ tbs = {} /\ extable = <<>> /\ measured = <<>>

\* INIT_BT returns, with the blocks create_shadow_idt has made.
InitDone ==
  /\ ~inited /\ cpu = NoCpu
  /\ inited' = TRUE
  /\ UNCHANGED <<shadow_idt_loaded, idt, cpu, pc, passVars, tb, tbs, extable,
                 measured>>

\* translate_idt, with interrupts disabled: lidt ...
LoadIdt(p) ==
  /\ inited /\ idt[p] = "native"
  /\ idt' = [idt EXCEPT ![p] = "lidt"]
  /\ UNCHANGED <<inited, shadow_idt_loaded, cpu, pc, passVars, tb, tbs,
                 extable, measured>>

\* ... and later the flag.
SetLoaded(p) ==
  /\ idt[p] = "lidt"
  /\ shadow_idt_loaded' = TRUE
  /\ idt' = [idt EXCEPT ![p] = "shadow"]
  /\ UNCHANGED <<inited, cpu, pc, passVars, tb, tbs, extable, measured>>

\* load_native_idt.  The flag stays set.
LoadNative(p) ==
  /\ idt[p] = "shadow" /\ cpu # p
  /\ idt' = [idt EXCEPT ![p] = "native"]
  /\ UNCHANGED <<inited, shadow_idt_loaded, cpu, pc, passVars, tb, tbs,
                 extable, measured>>

\* Mutant of Translates: interrupts are enabled in translate_idt.
TranslatesEarly(p) ==
  IF inited THEN idt[p] \in {"lidt", "shadow"} ELSE p = Boot

\* Which processors get into the translator: that of INIT_BT, then those with
\* the shadow table.
Translates(p) == IF inited THEN idt[p] = "shadow" ELSE p = Boot

\* The beginning of translate, with count_insns.
StartPass(a) ==
  /\ ptr' = a /\ eptr' = 0 /\ n_in' = 0
  /\ optr' = IF shadow_idt_loaded THEN CountLen ELSE 0

\* What an iteration emits: instrumentation, the output of a rule or a copy of
\* the instruction, and edge code.
InsLen(a)  == IF shadow_idt_loaded THEN Code[a].ins ELSE 0
OutLen(a)  == IF Code[a].rule THEN Code[a].out
              ELSE IF shadow_idt_loaded /\ Code[a].rep THEN 0
              ELSE Code[a].len
EdgeLen(a) == IF Code[a].rule THEN Code[a].edge ELSE 0
CodeEnd    == optr + InsLen(ptr) + OutLen(ptr)
EdgeEnd    == eptr + EdgeLen(ptr)

\* ASSERT(n_in < MAX_TU_SIZE), ASSERT(optr <= oend && eptr <= eend)
Fits == n_in < MaxTu /\ CodeEnd <= Room /\ EdgeEnd <= Room

\* Both loops: the next instruction.
Advance ==
  /\ optr' = CodeEnd /\ eptr' = EdgeEnd /\ n_in' = n_in + 1
  /\ ptr' = ptr + Code[ptr].len

\* __tb_gen_translate_code finds no block with the address: the first pass
\* begins.
Begin(p, a) ==
  /\ cpu = NoCpu /\ pc = "idle" /\ Translates(p)
  /\ \A b \in tbs : a \notin b.eip_virt .. b.end_eip
  /\ cpu' = p /\ pc' = "measure"
  /\ tb' = [NoTb EXCEPT !.eip_virt = a]
  /\ StartPass(a)
  /\ measured' = <<>>
  /\ UNCHANGED <<idtVars, tbs, extable>>

\* An iteration of the first pass, and what follows the loop.
Measure ==
  /\ pc = "measure"
  /\ Fits
  /\ Advance
  /\ measured' = Append(measured, <<ptr, optr, eptr>>)
  /\ IF Terminates(ptr)
     THEN /\ pc' = "alloc"
          /\ tb' = [tb EXCEPT !.end_eip = ptr, !.num_insns = n_in + 1,
                              !.code_len = CodeEnd, !.edge_len = EdgeEnd]
     ELSE UNCHANGED <<pc, tb>>
  /\ UNCHANGED <<idtVars, cpu, tbs, extable>>

\* The block is too long: tpage or p->insns is written behind its end, and an
\* assertion, which only logs, fails.  What comes of that is not followed.
TooLong ==
  /\ pc = "measure" /\ ~Fits
  /\ pc' = "overrun"
  /\ UNCHANGED <<idtVars, cpu, passVars, tb, tbs, extable, measured>>

Part(eip, kind, lo, hi) == [eip |-> eip, kind |-> kind, lo |-> lo, hi |-> hi]

\* tb_malloc, and the beginning of the second pass.
Alloc ==
  /\ pc = "alloc"
  /\ pc' = "write"
  /\ StartPass(tb.eip_virt)
  /\ tb' = [tb EXCEPT !.tc = {Part(tb.eip_virt, "count", 0, optr')}]
  /\ UNCHANGED <<idtVars, cpu, tbs, extable, measured>>

\* Mutant of WithEntry: the entry is made after the code is emitted.
WithEntryLate(a) ==
  IF Code[a].fix /\ Len(extable) < MaxEx
  THEN Append(extable, [tb |-> tb.eip_virt, off |-> CodeEnd, fixup |-> a])
  ELSE extable

\* add_bt_exception_table.
WithEntry(a) ==
  IF Code[a].fix /\ Len(extable) < MaxEx
  THEN Append(extable, [tb |-> tb.eip_virt, off |-> optr, fixup |-> a])
  ELSE extable

\* What the iteration adds to the block.
Written(a) ==
  [tb EXCEPT
     !.tc_boundaries  = Append(@, optr % Width),
     !.eip_boundaries = Append(@, (a + Code[a].len - tb.eip_virt) % Width),
     !.tc = @ \cup {Part(a, "ins", optr, optr + InsLen(a)),
                    Part(a, IF Code[a].rule THEN "rule" ELSE "copy",
                         optr + InsLen(a), CodeEnd)}]

\* An iteration of the second pass; the block is finished with the last one.
Write ==
  /\ pc = "write"
  /\ Advance
  /\ extable' = WithEntry(ptr)
  /\ IF Terminates(ptr)
     THEN /\ tbs' = tbs \cup {[Written(ptr) EXCEPT
                                 !.tc_boundaries = Append(@, CodeEnd % Width)]}
          /\ cpu' = NoCpu /\ pc' = "idle" /\ tb' = NoTb /\ measured' = <<>>
     ELSE /\ tb' = Written(ptr)
          /\ UNCHANGED <<cpu, pc, tbs, measured>>
  /\ UNCHANGED idtVars

Next ==
  \/ InitDone
  \/ \E p \in Cpus : \/ LoadIdt(p) \/ SetLoaded(p) \/ LoadNative(p)
                     \/ \E a \in Starts : Begin(p, a)
  \/ Measure \/ TooLong \/ Alloc \/ Write

Spec == Init /\ [][Next]_vars

----------------------------------------------------------------------------
\* The second pass writes exactly what the first one has measured, although
\* other processors set shadow_idt_loaded at any time: nothing is written behind
\* the buffers of the block, and they are filled.
PassesAgree ==
  [][pc = "write" =>
       /\ optr' <= tb.code_len /\ eptr' <= tb.edge_len
       /\ pc' = "idle" =>
            optr' = tb.code_len /\ eptr' = tb.edge_len /\ n_in' = tb.num_insns]_vars

\* The address of any byte of a block, also in the middle of what a rule
\* emits, is translated back to the instruction it was emitted for.  A block
\* that fills tpage to the last of its 65536 bytes is excepted: the end of its
\* last instruction does not fit into an uint16_t.
CodeFound ==
  \A b \in tbs : b.code_len < Width =>
    \A c \in {c \in b.tc : c.kind # "count"} :
      \A off \in c.lo .. c.hi - 1 : TcPtrToEipVirt(b, off) = {c.eip}

\* The parts of a block that an instruction has.
PartsOf(b, a) == {c \in b.tc : c.eip = a /\ c.kind # "count"}

\* A branch into a block enters it in front of all code of its target; a branch
\* into the middle of an instruction, for instance behind a lock prefix, enters
\* it at the same byte, if the instruction was copied and not instrumented.
EntryLands ==
  \A b \in tbs : \A a \in {c.eip : c \in b.tc} :
    /\ a # b.eip_virt => \E off \in EipVirtToTcPtr(b, a) :
         /\ \E c \in PartsOf(b, a) : c.lo = off
         /\ \A c \in PartsOf(b, a) : c.lo >= off
    /\ \A c \in PartsOf(b, a) :
         (c.kind = "copy" /\ c.hi = c.lo + Code[a].len
            /\ \A d \in PartsOf(b, a) \ {c} : d.lo = d.hi) =>
           \A k \in 1 .. Code[a].len - 1 :
             EipVirtToTcPtr(b, a + k) = {c.lo + k}

\* Instrumentation in front of an instruction.
Instrumented(b, a) == \E c \in PartsOf(b, a) : c.kind = "ins" /\ c.lo < c.hi

\* Every fault that the guest's exception table expects finds its fixup in the
\* module's table as long as that has room, and a fault elsewhere finds none:
\* every entry is the place of such an instruction.  Instrumented instructions
\* are excepted: their entry is that of the instrumentation.
FaultFixed ==
  LET entries == {extable[i] : i \in 1 .. Len(extable)}
      Copy(b, a, off) ==
        \E c \in PartsOf(b, a) : c.kind # "ins" /\ c.lo = off
  IN  /\ \A b \in tbs : \A c \in b.tc :
           (c.kind \in {"rule", "copy"} /\ Code[c.eip].fix
              /\ ~Instrumented(b, c.eip) /\ Len(extable) < MaxEx) =>
             [tb |-> b.eip_virt, off |-> c.lo, fixup |-> c.eip] \in entries
      /\ \A e \in entries : \E b \in tbs \cup {tb} :
           b.eip_virt = e.tb /\ (Copy(b, e.fixup, e.off) \/ Instrumented(b, e.fixup))

=============================================================================
