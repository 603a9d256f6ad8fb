----------------------------- MODULE ShadowRun -----------------------------
(***************************************************************************)
(* A block of guest code that runs with the code instrument_memory puts in *)
(* front of its instructions, next to what the processor does natively.    *)
(*                                                                         *)
(* Values are not modelled, only whether they are the guest's: junk has    *)
(* the parts of registers and the flags that hold something else.  An      *)
(* instruction is a record of its bytes, of what the processor reads and   *)
(* overwrites, and of the memory it accesses: which registers its address  *)
(* adds up, the displacement, the width, and r or w.                       *)
(***************************************************************************)
EXTENDS Instrument

CONSTANTS
  Bodies,    \* the instructions of a block but for its end
  Ends,      \* terminating instructions
  MaxBody,   \* bound: how many come before the end
  MaxCount,  \* bound: the count of a rep prefix
  MinCompared   \* and the least count of a comparison

Padding == [i \in 1 .. 8 |-> 0]
Decoded == [d \in Bodies \cup Ends |-> DisasInsn(d.bytes \o Padding)]

\* A register is al, ah and the upper half; the flags are CF and the others.
Full(r) == {r} \X {"l", "h", "x"}
Half(r) == {r} \X {"l", "h"}
Low(r)  == {<<r, "l">>}
EFLAGS  == 8
Flags   == {<<EFLAGS, "c">>, <<EFLAGS, "z">>}

VARIABLES
  block,   \* the instructions of the block
  entry,   \* whether the kernel has exception table entries for them
  at,      \* the instruction that is executed; 0 before the first
  ops,     \* what is left of the code emitted for it
  junk,    \* what does not hold the guest's value
  stack,   \* what that code has pushed: which of it was junk
  marks,   \* the shadow memory that has been marked for the access to come
  loop     \* the loop of a string instruction

vars == <<block, entry, at, ops, junk, stack, marks, loop>>

NoLoop == [left |-> 0, ran |-> 0, compared |-> FALSE, strayed |-> FALSE]

Blocks == UNION {[1 .. n -> Bodies] : n \in 0 .. MaxBody}
Init ==
  /\ \E body \in Blocks, end \in Ends : block = Append(body, end)
  /\ entry \in BOOLEAN
  /\ at = 0 /\ ops = <<>> /\ junk = {} /\ stack = <<>> /\ marks = {} /\ loop = NoLoop

Current == block[at]
Kind == IF ops = <<>> THEN "none" ELSE Head(ops).kind
Op == Head(ops)

\* The next instruction: the code that translate() has emitted for it.
Fetch ==
  /\ ops = <<>> /\ at < Len(block)
  /\ at' = at + 1
  /\ ops' = instrument_memory([i \in 1 .. Len(block) - at |-> Decoded[block[at + i]]], entry)
  /\ marks' = {} /\ loop' = NoLoop
  /\ UNCHANGED <<block, entry, junk, stack>>

Pushed ==
  /\ Kind \in {"pushfl", "push"}
  /\ LET what == IF Kind = "push" THEN Full(Op.treg) ELSE Flags
     IN  stack' = <<what \cap junk>> \o stack
  /\ ops' = Tail(ops)
  /\ UNCHANGED <<block, entry, at, junk, marks, loop>>

\* popfl brings back flags from in front of a comparison.
Popped ==
  /\ Kind \in {"popfl", "pop"}
  /\ LET what == IF Kind = "pop" THEN Full(Op.treg) ELSE Flags
         stale == IF Kind = "popfl" /\ loop.compared THEN Flags ELSE Head(stack)
     IN  junk' = (junk \ what) \cup stale
  /\ stack' = Tail(stack) /\ ops' = Tail(ops)
  /\ UNCHANGED <<block, entry, at, marks, loop>>

----------------------------------------------------------------------------
\* READ, WRITE, READS and WRITES: a mask to tr0, or'd to the shadow.
Spoiled(sn, treg) ==
  Flags \cup (IF sn.safe \/ sn.width = 4 THEN Full(treg)
              ELSE IF sn.width = 2 THEN Half(treg) ELSE Low(treg))

Times(r, n) == [i \in 0 .. 7 |-> IF i = r THEN n ELSE 0]
Plus(f, g)  == [i \in 0 .. 7 |-> f[i] + g[i]]
Mark(addends, disp, sn, perm) ==
  [addends |-> addends, disp |-> disp, width |-> sn.width, perm |-> perm, safe |-> sn.safe]

\* The address of REMAP, RINDX, RBASE and RDISP.
Addends(sn, vr) ==
  CASE sn.form = "remap" -> Plus(Times(vr[1], 1), Times(vr[2], sn.scale))
    [] sn.form = "rindx" -> Times(vr[1], sn.scale)
    [] sn.form = "rbase" -> Times(vr[1], 1)
    [] sn.form = "rdisp" -> Times(0, 0)

Shadow ==
  /\ Kind = "shadow"
  /\ LET sn == SnippetAt(Op.label)
     IN  /\ marks' = marks \cup {Mark(Addends(sn, Op.vr), Op.disp, sn, sn.perm)}
         /\ junk' = junk \cup Spoiled(sn, Op.treg)
  /\ ops' = Tail(ops)
  /\ UNCHANGED <<block, entry, at, stack, loop>>

----------------------------------------------------------------------------
\* MOVS, STOS, SCAS and CMPS; STOS is always the safe one.
StringSnippet ==
  LET sn == SnippetAt(Op.label)
  IN  [sn EXCEPT !.safe = sn.safe \/ sn.form = "stos"]
StringMarks(sn) ==
  LET esi(perm) == Mark(Times(ESI, 1), Zeros, sn, perm)
      edi(perm) == Mark(Times(EDI, 1), Zeros, sn, perm)
  IN  CASE sn.form = "movs" -> {esi("r"), edi("w")}
        [] sn.form = "stos" -> {edi("w")}
        [] sn.form = "scas" -> {edi("r")}
        [] sn.form = "cmps" -> {esi("r"), edi("r")}

\* jecxz in front of the loop
StringStart ==
  /\ Kind = "string" /\ loop = NoLoop
  /\ \E n \in 0 .. MaxCount :
       /\ StringSnippet.form \in {"scas", "cmps"} => n >= MinCompared
       /\ loop' = [loop EXCEPT !.left = n]
       /\ ops' = IF n = 0 THEN Tail(ops) ELSE ops
  /\ UNCHANGED <<block, entry, at, junk, stack, marks>>

\* Once through the loop; equal is what a comparison finds.
StringOnce ==
  /\ Kind = "string" /\ loop.left > 0
  /\ \E equal \in BOOLEAN :
       LET sn == StringSnippet
           compares == sn.form \in {"scas", "cmps"}
           left == loop.left - 1
           again  == left # 0 /\ (compares => ~equal)
           native == left # 0 /\ (compares => equal = (Current.repeat = "REPZ"))
       IN  /\ marks' = StringMarks(sn)
           /\ junk' = (junk \cup Spoiled(sn, Op.treg)) \ (IF compares THEN Flags ELSE {})
           /\ loop' = [left |-> IF again THEN left ELSE 0, ran |-> loop.ran + 1,
                       compared |-> compares, strayed |-> again # native]
           /\ ops' = IF again THEN ops ELSE Tail(ops)
  /\ UNCHANGED <<block, entry, at, stack>>

----------------------------------------------------------------------------
\* The instruction itself.
Guest ==
  /\ Kind = "guest"
  /\ junk' = junk \ Current.writes
  /\ ops' = <<>>
  /\ UNCHANGED <<block, entry, at, stack, marks, loop>>

Next == Fetch \/ Pushed \/ Popped \/ Shadow \/ StringStart \/ StringOnce \/ Guest
Spec == Init /\ [][Next]_vars

----------------------------------------------------------------------------
Read == IF Kind = "guest" \/ (Kind = "string" /\ loop = NoLoop) THEN Current.reads
        ELSE IF Kind = "shadow" THEN UNION {Full(Op.vr[i]) : i \in DOMAIN Op.vr}
        ELSE {}

(* Shadow memory does not change what the guest computes: no instruction    *)
(* reads a register or a flag that the code in front of it has left behind, *)
(* the stack is the guest's when it runs, a loop that stands for a string   *)
(* instruction ends when that would, and everything is the guest's at the   *)
(* end of the block (check_dead_flags_and_tregs, instrument_memory).        *)
Transparent ==
  /\ Read \cap junk = {}
  /\ Kind = "guest" => stack = <<>>
  /\ ~loop.strayed
  /\ ops = <<>> /\ at = Len(block) => junk = {} /\ stack = <<>>

Seen(mark) == [addends |-> mark.addends, disp |-> mark.disp, width |-> mark.width, perm |-> mark.perm]

(* When the guest accesses memory outside of the stack, the shadow of just  *)
(* that memory has been marked, for reading or writing, and with the safe   *)
(* snippet where the kernel expects faults (gen_shadow_code, calc_offset).  *)
ShadowRight ==
  /\ Kind # "failed"
  /\ Kind = "guest" \/ loop.ran > 0 =>
       /\ {Seen(m) : m \in marks} = Current.accesses
       /\ entry => \A m \in marks : m.safe

=============================================================================
