-------------------------- MODULE TransBlockProofs --------------------------
(***************************************************************************)
(* The two passes of translate agree for every guest, and what they record *)
(* of a block leads from every byte of its code to the instruction it is   *)
(* of, from every instruction to its code, and from every expected fault   *)
(* to its fixup.  The history variable measured ties the second pass to    *)
(* the first one; that both emit the same rests on shadow_idt_loaded,      *)
(* which is set during a translation only when it is set already.          *)
(***************************************************************************)
EXTENDS TransBlock, TLAPS

Busy == pc \in {"measure", "alloc", "write"}

TbFields == {"eip_virt", "end_eip", "num_insns", "code_len", "edge_len",
             "tc_boundaries", "eip_boundaries", "tc"}

TbOK ==
  /\ tb = [f \in TbFields |-> tb[f]]
  /\ tb.eip_virt \in Nat /\ tb.num_insns \in Nat
  /\ tb.code_len \in Nat /\ tb.edge_len \in Nat

Pos == Insns \X Nat \X Nat  \* ptr, optr and eptr

TypeInv ==
  /\ inited \in BOOLEAN /\ shadow_idt_loaded \in BOOLEAN
  /\ idt \in [Cpus -> {"native", "lidt", "shadow"}]
  /\ cpu \in Cpus \cup {NoCpu}
  /\ pc \in {"idle", "measure", "alloc", "write", "overrun"}
  /\ TbOK
  /\ n_in \in Nat
  /\ measured \in Seq(Pos)

\* The flag is set when a processor uses the shadow table, and not before
\* INIT_BT is over.
LoadInv ==
  /\ \A p \in Cpus : idt[p] = "shadow" => shadow_idt_loaded
  /\ ~inited => ~shadow_idt_loaded /\ \A p \in Cpus : idt[p] = "native"

\* Who translates: before that, or with the shadow table.
BusyInv ==
  /\ pc = "idle" <=> cpu = NoCpu
  /\ Busy /\ inited => idt[cpu] = "shadow"

\* The state of a pass at its beginning, and after an instruction.
FirstPos == <<tb.eip_virt, IF shadow_idt_loaded THEN CountLen ELSE 0, 0>>
After(q) == <<q[1] + Code[q[1]].len, q[2] + InsLen(q[1]) + OutLen(q[1]),
              q[3] + EdgeLen(q[1])>>
Here     == <<ptr, optr, eptr>>

\* What the first pass has seen: the instructions of the block one after the
\* other, none but the last of which ends it.
TraceInv ==
  Busy =>
    /\ Len(measured) > 0 => measured[1] = FirstPos
    /\ \A i \in 1 .. Len(measured) - 1 :
         measured[i + 1] = After(measured[i]) /\ ~Terminates(measured[i][1])

MeasureInv ==
  pc = "measure" =>
    /\ ptr \in Insns /\ optr \in Nat /\ eptr \in Nat
    /\ Len(measured) = n_in
    /\ n_in = 0 => Here = FirstPos
    /\ n_in > 0 => Here = After(measured[n_in]) /\ ~Terminates(measured[n_in][1])
    /\ \A i \in 1 .. n_in : measured[i][2] <= optr /\ measured[i][3] <= eptr

MeasuredInv ==
  pc \in {"alloc", "write"} =>
    /\ tb.num_insns = Len(measured) /\ tb.num_insns > 0
    /\ Terminates(measured[tb.num_insns][1])
    /\ After(measured[tb.num_insns])[2] = tb.code_len
    /\ After(measured[tb.num_insns])[3] = tb.edge_len
    /\ \A i \in 1 .. tb.num_insns :
         measured[i][2] <= tb.code_len /\ measured[i][3] <= tb.edge_len

\* The second pass is where the first one was.
WriteInv == pc = "write" => n_in < tb.num_insns /\ Here = measured[n_in + 1]

IInv == /\ TypeInv /\ LoadInv /\ BusyInv /\ TraceInv
        /\ MeasureInv /\ MeasuredInv /\ WriteInv

----------------------------------------------------------------------------
LEMMA EmittedLen ==
  ASSUME NEW a \in Insns, shadow_idt_loaded \in BOOLEAN
  PROVE  InsLen(a) \in Nat /\ OutLen(a) \in Nat /\ EdgeLen(a) \in Nat
         /\ Code[a].len \in Nat /\ a \in Nat
  BY CodeAssumption DEF InsLen, OutLen, EdgeLen, Insn

LEMMA InsnLen ==
  ASSUME NEW a \in Insns
  PROVE  a \in Nat /\ Code[a].len \in Nat \ {0} /\ Code[a].len <= MaxLen
  BY CodeAssumption DEF Insn

LEMMA PosParts ==
  ASSUME NEW m \in Seq(Pos), NEW i \in 1 .. Len(m)
  PROVE  /\ m[i] = <<m[i][1], m[i][2], m[i][3]>>
         /\ m[i][1] \in Insns /\ m[i][2] \in Nat /\ m[i][3] \in Nat
  <1>1. m[i] \in Pos
    OBVIOUS
  <1>2. QED
    BY <1>1 DEF Pos

LEMMA InitInv == Init => IInv
  <1> SUFFICES ASSUME Init PROVE IInv
    OBVIOUS
  <1>1. TbOK
    BY DEF Init, NoTb, TbOK, TbFields
  <1>2. TypeInv /\ LoadInv
    <2>1. measured \in Seq(Pos)
      BY DEF Init
    <2>2. QED
      BY <1>1, <2>1 DEF Init, TypeInv, LoadInv
  <1>3. BusyInv /\ TraceInv /\ MeasureInv /\ MeasuredInv /\ WriteInv
    BY DEF Init, BusyInv, TraceInv, MeasureInv, MeasuredInv, WriteInv, Busy
  <1>4. QED
    BY <1>1, <1>2, <1>3 DEF IInv

\* What changes neither the translation nor the flag.
LEMMA OthersStep ==
  ASSUME IInv, UNCHANGED <<shadow_idt_loaded, cpu, pc, passVars, tb, tbs,
                           extable, measured>>
  PROVE  TraceInv' /\ MeasureInv' /\ MeasuredInv' /\ WriteInv'
  BY DEF IInv, TraceInv, MeasureInv, MeasuredInv, WriteInv, Busy, FirstPos,
    After, Here, InsLen, OutLen, EdgeLen, passVars

LEMMA InitDoneStep == IInv /\ InitDone => IInv'
  <1> SUFFICES ASSUME IInv, InitDone PROVE IInv'
    OBVIOUS
  <1>1. TraceInv' /\ MeasureInv' /\ MeasuredInv' /\ WriteInv'
    BY OthersStep DEF InitDone
  <1>2. TypeInv' /\ LoadInv'
    BY DEF InitDone, IInv, TypeInv, TbOK, LoadInv, passVars
  <1>3. BusyInv'
    BY DEF InitDone, IInv, BusyInv, Busy
  <1>4. QED
    BY <1>1, <1>2, <1>3 DEF IInv

LEMMA LoadIdtStep == \A p \in Cpus : IInv /\ LoadIdt(p) => IInv'
  <1> SUFFICES ASSUME NEW p \in Cpus, IInv, LoadIdt(p) PROVE IInv'
    OBVIOUS
  <1>1. TraceInv' /\ MeasureInv' /\ MeasuredInv' /\ WriteInv'
    BY OthersStep DEF LoadIdt
  <1>2. TypeInv' /\ LoadInv'
    BY DEF LoadIdt, IInv, TypeInv, TbOK, LoadInv, passVars
  <1>3. BusyInv'
    BY CodeAssumption DEF LoadIdt, IInv, BusyInv, Busy, TypeInv
  <1>4. QED
    BY <1>1, <1>2, <1>3 DEF IInv

\* When the flag is set during a translation, it was set already.
LEMMA SetLoadedStep == \A p \in Cpus : IInv /\ SetLoaded(p) => IInv'
  <1> SUFFICES ASSUME NEW p \in Cpus, IInv, SetLoaded(p) PROVE IInv'
    OBVIOUS
  <1>1. inited
    BY DEF SetLoaded, IInv, LoadInv, TypeInv
  <1>2. TypeInv' /\ LoadInv'
    BY <1>1 DEF SetLoaded, IInv, TypeInv, TbOK, LoadInv, passVars
  <1>3. BusyInv'
    BY CodeAssumption DEF SetLoaded, IInv, BusyInv, Busy, TypeInv
  <1>4. CASE Busy
    <2>1. cpu \in Cpus /\ idt[cpu] = "shadow"
      BY <1>1, <1>4 DEF IInv, BusyInv, Busy, TypeInv
    <2>2. shadow_idt_loaded' = shadow_idt_loaded
      BY <2>1 DEF SetLoaded, IInv, LoadInv, TypeInv
    <2>3. TraceInv' /\ MeasureInv' /\ MeasuredInv' /\ WriteInv'
      BY <2>2, OthersStep DEF SetLoaded
    <2>4. QED
      BY <1>2, <1>3, <2>3 DEF IInv
  <1>5. CASE ~Busy
    <2>1. TraceInv' /\ MeasureInv' /\ MeasuredInv' /\ WriteInv'
      BY <1>5 DEF SetLoaded, Busy, TraceInv, MeasureInv, MeasuredInv, WriteInv
    <2>2. QED
      BY <1>2, <1>3, <2>1 DEF IInv
  <1>6. QED
    BY <1>4, <1>5

LEMMA LoadNativeStep == \A p \in Cpus : IInv /\ LoadNative(p) => IInv'
  <1> SUFFICES ASSUME NEW p \in Cpus, IInv, LoadNative(p) PROVE IInv'
    OBVIOUS
  <1>1. TraceInv' /\ MeasureInv' /\ MeasuredInv' /\ WriteInv'
    BY OthersStep DEF LoadNative
  <1>2. TypeInv' /\ LoadInv'
    BY DEF LoadNative, IInv, TypeInv, TbOK, LoadInv, passVars
  <1>3. BusyInv'
    BY CodeAssumption DEF LoadNative, IInv, BusyInv, Busy, TypeInv
  <1>4. QED
    BY <1>1, <1>2, <1>3 DEF IInv

LEMMA BeginStep ==
  \A p \in Cpus, a \in Starts : IInv /\ Begin(p, a) => IInv'
  <1> SUFFICES ASSUME NEW p \in Cpus, NEW a \in Starts, IInv, Begin(p, a)
               PROVE  IInv'
    OBVIOUS
  <1>1. a \in Insns /\ a \in Nat /\ CountLen \in Nat
    BY CodeAssumption
  <1>2. TypeInv' /\ LoadInv' /\ BusyInv'
    <2>1. TbOK'
      BY <1>1 DEF Begin, NoTb, TbOK, TbFields
    <2>2. TypeInv' /\ LoadInv'
      BY <2>1 DEF Begin, StartPass, IInv, TypeInv, LoadInv, idtVars
    <2>3. BusyInv'
      BY CodeAssumption DEF Begin, Translates, BusyInv, Busy, idtVars
    <2>4. QED
      BY <2>2, <2>3
  <1>3. TraceInv' /\ MeasuredInv' /\ WriteInv'
    BY DEF Begin, TraceInv, MeasuredInv, WriteInv
  <1>4. MeasureInv'
    BY <1>1 DEF Begin, StartPass, MeasureInv, FirstPos, Here, NoTb, idtVars
  <1>5. QED
    BY <1>2, <1>3, <1>4 DEF IInv

\* The new element of the trace continues it.
LEMMA MeasureStep == IInv /\ Measure => IInv'
  <1> SUFFICES ASSUME IInv, Measure PROVE IInv'
    OBVIOUS
  <1> DEFINE n == n_in
  <1>0. n \in Nat /\ Len(measured) = n /\ measured \in Seq(Pos)
    BY DEF Measure, IInv, MeasureInv, TypeInv
  <1>1. ptr \in Insns /\ optr \in Nat /\ eptr \in Nat
    BY DEF Measure, IInv, MeasureInv
  <1>2. /\ InsLen(ptr) \in Nat /\ OutLen(ptr) \in Nat /\ EdgeLen(ptr) \in Nat
        /\ Code[ptr].len \in Nat /\ ptr \in Nat
    BY <1>1, EmittedLen DEF IInv, TypeInv
  <1>3. /\ measured' \in Seq(Pos)
        /\ Len(measured') = n + 1
        /\ measured'[n + 1] = Here
        /\ \A i \in 1 .. n : measured'[i] = measured[i]
    <2>1. Here \in Pos
      BY <1>1 DEF Here, Pos
    <2>2. measured' = Append(measured, Here)
      BY DEF Measure, Here
    <2>3. QED
      BY <1>0, <2>1, <2>2
  <1>4. /\ Here' = After(Here)
        /\ optr' \in Nat /\ eptr' \in Nat /\ ptr' \in Nat
        /\ optr <= optr' /\ eptr <= eptr'
        /\ CodeEnd = optr' /\ EdgeEnd = eptr' /\ n_in' = n + 1
    <2>1. /\ ptr' = ptr + Code[ptr].len
          /\ optr' = optr + InsLen(ptr) + OutLen(ptr)
          /\ eptr' = eptr + EdgeLen(ptr) /\ n_in' = n + 1
      BY DEF Measure, Advance, CodeEnd, EdgeEnd
    <2>2. Here' = After(Here)
      BY <2>1 DEF Here, After
    <2>3. /\ optr' \in Nat /\ eptr' \in Nat /\ ptr' \in Nat
          /\ optr <= optr' /\ eptr <= eptr'
      BY <1>1, <1>2, <2>1
    <2>4. QED
      BY <2>1, <2>2, <2>3 DEF CodeEnd, EdgeEnd
  <1>5. /\ UNCHANGED <<inited, shadow_idt_loaded, idt, cpu>>
        /\ \A q : After(q)' = After(q)
        /\ FirstPos' = FirstPos
        /\ tb'.eip_virt = tb.eip_virt
    BY DEF Measure, idtVars, After, InsLen, OutLen, EdgeLen, FirstPos, IInv,
      TypeInv, TbOK, TbFields
  <1>6. TypeInv' /\ LoadInv'
    <2>1. TbOK'
      <3>1. TbOK /\ n + 1 \in Nat /\ CodeEnd \in Nat /\ EdgeEnd \in Nat
        BY <1>0, <1>4 DEF IInv, TypeInv
      <3>2. CASE Terminates(ptr)
        <4>1. tb' = [tb EXCEPT !.end_eip = ptr, !.num_insns = n + 1,
                               !.code_len = CodeEnd, !.edge_len = EdgeEnd]
          BY <3>2 DEF Measure
        <4>2. QED
          BY <3>1, <4>1 DEF TbOK, TbFields
      <3>3. CASE ~Terminates(ptr)
        BY <3>1, <3>3 DEF Measure, TbOK
      <3>4. QED
        BY <3>2, <3>3
    <2>2. pc' \in {"measure", "alloc"}
      BY DEF Measure, IInv, TypeInv
    <2>3. QED
      BY <1>3, <1>4, <1>5, <2>1, <2>2 DEF IInv, TypeInv, LoadInv
  <1>7. BusyInv'
    BY <1>5 DEF Measure, IInv, BusyInv, Busy
  <1>8. /\ measured'[1] = FirstPos'
        /\ \A i \in 1 .. n : measured'[i + 1] = After(measured'[i])
                             /\ ~Terminates(measured'[i][1])
    <2>1. measured'[1] = FirstPos
      BY <1>0, <1>3 DEF Measure, IInv, MeasureInv, TraceInv, Busy
    <2>2. ASSUME NEW i \in 1 .. n
          PROVE  measured'[i + 1] = After(measured'[i])
                 /\ ~Terminates(measured'[i][1])
      <3>1. CASE i = n
        BY <1>0, <1>3, <3>1, SMTT(30) DEF Measure, IInv, MeasureInv
      <3>2. CASE i < n
        BY <1>0, <1>3, <3>2 DEF Measure, IInv, TraceInv, Busy
      <3>3. QED
        BY <1>0, <3>1, <3>2
    <2>3. QED
      BY <1>5, <2>1, <2>2
  <1>9. TraceInv'
    <2>1. Len(measured') - 1 = n
      BY <1>0, <1>3
    <2>2. \A i \in 1 .. n : After(measured'[i]) = After(measured[i])'
      BY <1>3, <1>5 DEF After, InsLen, OutLen, EdgeLen
    <2>3. QED
      BY <1>5, <1>8, <2>1, <2>2 DEF TraceInv, After, InsLen, OutLen, EdgeLen
  <1>10. \A i \in 1 .. n + 1 : measured'[i][2] <= optr' /\ measured'[i][3] <= eptr'
    <2>1. \A i \in 1 .. n : measured[i][2] \in Nat /\ measured[i][3] \in Nat
      BY <1>0, PosParts
    <2>2. \A i \in 1 .. n : measured[i][2] <= optr /\ measured[i][3] <= eptr
      BY DEF Measure, IInv, MeasureInv
    <2>3. QED
      <3>1. measured'[n + 1][2] = optr /\ measured'[n + 1][3] = eptr
        BY <1>3 DEF Here
      <3>2. ASSUME NEW i \in 1 .. n
            PROVE  measured'[i][2] <= optr' /\ measured'[i][3] <= eptr'
        BY <1>1, <1>3, <1>4, <2>1, <2>2, SMTT(30)
      <3>3. QED
        BY <1>0, <1>1, <1>4, <3>1, <3>2
  <1>11. CASE Terminates(ptr)
    <2>1. /\ pc' = "alloc" /\ tb'.num_insns = n + 1
          /\ tb'.code_len = optr' /\ tb'.edge_len = eptr'
      BY <1>4, <1>11 DEF Measure, IInv, TypeInv, TbOK, TbFields
    <2>2. MeasuredInv'
      BY <1>1, <1>3, <1>4, <1>10, <1>11, <2>1
        DEF MeasuredInv, After, Here, InsLen, OutLen, EdgeLen, Measure, idtVars
    <2>3. MeasureInv' /\ WriteInv'
      BY <2>1 DEF MeasureInv, WriteInv
    <2>4. QED
      BY <1>6, <1>7, <1>9, <2>2, <2>3 DEF IInv
  <1>12. CASE ~Terminates(ptr)
    <2>1. pc' = "measure"
      BY <1>12 DEF Measure
    <2>2. ptr' \in Insns
      BY <1>1, <1>12, CodeAssumption DEF Measure, Advance
    <2>3. MeasureInv'
      BY <1>1, <1>3, <1>4, <1>10, <1>12, <2>1, <2>2
        DEF MeasureInv, After, Here, InsLen, OutLen, EdgeLen, Measure, idtVars
    <2>4. MeasuredInv' /\ WriteInv'
      BY <2>1 DEF MeasuredInv, WriteInv
    <2>5. QED
      BY <1>6, <1>7, <1>9, <2>3, <2>4 DEF IInv
  <1>13. QED
    BY <1>11, <1>12

LEMMA TooLongStep == IInv /\ TooLong => IInv'
  BY DEF TooLong, IInv, TypeInv, TbOK, LoadInv, BusyInv, TraceInv, MeasureInv,
    MeasuredInv, WriteInv, Busy, idtVars, passVars

LEMMA AllocStep == IInv /\ Alloc => IInv'
  <1> SUFFICES ASSUME IInv, Alloc PROVE IInv'
    OBVIOUS
  <1>1. /\ UNCHANGED <<inited, shadow_idt_loaded, idt, cpu, measured>>
        /\ pc' = "write" /\ n_in' = 0 /\ Here' = FirstPos
        /\ tb'.eip_virt = tb.eip_virt /\ tb'.num_insns = tb.num_insns
        /\ tb'.code_len = tb.code_len /\ tb'.edge_len = tb.edge_len
        /\ optr' \in Nat
    BY CodeAssumption
      DEF Alloc, StartPass, idtVars, Here, FirstPos, IInv, TypeInv, TbOK,
      TbFields
  <1>2. TypeInv'
    <2>1. TbOK'
      BY <1>1 DEF Alloc, IInv, TypeInv, TbOK, TbFields
    <2>2. QED
      BY <1>1, <2>1 DEF IInv, TypeInv
  <1>3. LoadInv' /\ BusyInv'
    BY <1>1 DEF Alloc, IInv, LoadInv, BusyInv, Busy
  <1>4. TraceInv' /\ MeasuredInv'
    <2>1. TraceInv'
      BY <1>1 DEF Alloc, IInv, TraceInv, Busy, FirstPos, After, InsLen, OutLen,
        EdgeLen
    <2>2. MeasuredInv'
      BY <1>1 DEF Alloc, IInv, MeasuredInv, After, InsLen, OutLen, EdgeLen
    <2>3. QED
      BY <2>1, <2>2
  <1>5. MeasureInv'
    BY <1>1 DEF MeasureInv
  <1>6. WriteInv'
    BY <1>1 DEF Alloc, IInv, TraceInv, MeasuredInv, WriteInv, Busy, TypeInv
  <1>7. QED
    BY <1>2, <1>3, <1>4, <1>5, <1>6 DEF IInv

\* An iteration of the second pass ends where the one of the first pass did.
LEMMA WriteAdvance ==
  ASSUME IInv, Write
  PROVE  /\ ptr \in Insns /\ optr \in Nat /\ eptr \in Nat
         /\ n_in + 1 \in 1 .. tb.num_insns
         /\ Here' = After(Here)
         /\ ptr' \in Nat /\ optr' \in Nat /\ eptr' \in Nat
         /\ optr' = CodeEnd /\ optr <= optr'
         /\ optr' <= tb.code_len /\ eptr' <= tb.edge_len
         /\ Terminates(ptr) =>
              /\ n_in + 1 = tb.num_insns
              /\ optr' = tb.code_len /\ eptr' = tb.edge_len
         /\ ~Terminates(ptr) =>
              /\ n_in + 1 < tb.num_insns
              /\ Here' = measured[n_in + 2]
  <1>1. /\ n_in \in Nat /\ tb.num_insns \in Nat /\ n_in < tb.num_insns
        /\ Here = measured[n_in + 1]
        /\ tb.num_insns = Len(measured)
        /\ measured \in Seq(Pos)
    BY DEF Write, IInv, WriteInv, MeasuredInv, TypeInv, TbOK
  <1>2. /\ measured[n_in + 1][1] \in Insns /\ measured[n_in + 1][2] \in Nat
        /\ measured[n_in + 1][3] \in Nat
    <2>1. n_in + 1 \in 1 .. Len(measured)
      BY <1>1
    <2>2. QED
      BY <1>1, <2>1, PosParts
  <1>3. ptr \in Insns /\ optr \in Nat /\ eptr \in Nat
    BY <1>1, <1>2 DEF Here
  <1>4. /\ InsLen(ptr) \in Nat /\ OutLen(ptr) \in Nat /\ EdgeLen(ptr) \in Nat
        /\ Code[ptr].len \in Nat /\ ptr \in Nat
    BY <1>3, EmittedLen DEF IInv, TypeInv
  <1>5. /\ Here' = After(Here)
        /\ ptr' \in Nat /\ optr' \in Nat /\ eptr' \in Nat
        /\ optr' = CodeEnd /\ optr <= optr'
    BY <1>3, <1>4, SMTT(30) DEF Write, Advance, CodeEnd, EdgeEnd, Here, After
  <1>6. CASE n_in + 1 = tb.num_insns
    <2>1. /\ Terminates(ptr)
          /\ After(Here)[2] = tb.code_len /\ After(Here)[3] = tb.edge_len
      BY <1>1, <1>6 DEF Write, IInv, MeasuredInv, Here
    <2>2. optr' = tb.code_len /\ eptr' = tb.edge_len
      BY <1>5, <2>1 DEF Here, After
    <2>3. QED
      BY <1>1, <1>3, <1>5, <1>6, <2>1, <2>2
  <1>7. CASE n_in + 1 < tb.num_insns
    <2>1. /\ measured[n_in + 2] = After(measured[n_in + 1])
          /\ ~Terminates(measured[n_in + 1][1])
      <3>1. n_in + 1 \in 1 .. Len(measured) - 1 /\ (n_in + 1) + 1 = n_in + 2
        BY <1>1, <1>7
      <3>2. QED
        BY <3>1 DEF Write, IInv, TraceInv, Busy
    <2>2. Here' = measured[n_in + 2] /\ ~Terminates(ptr)
      <3>1. measured[n_in + 1][1] = ptr
        BY <1>1 DEF Here
      <3>2. After(Here) = After(measured[n_in + 1])
        BY <1>1
      <3>3. QED
        BY <1>5, <2>1, <3>1, <3>2
    <2>3. /\ measured[n_in + 2][2] <= tb.code_len
          /\ measured[n_in + 2][3] <= tb.edge_len
      <3>1. n_in + 2 \in 1 .. tb.num_insns
        BY <1>1, <1>7
      <3>2. QED
        BY <3>1 DEF Write, IInv, MeasuredInv
    <2>4. optr' <= tb.code_len /\ eptr' <= tb.edge_len
      BY <2>2, <2>3 DEF Here
    <2>5. QED
      BY <1>1, <1>3, <1>5, <1>7, <2>2, <2>4
  <1>8. QED
    BY <1>1, <1>6, <1>7

LEMMA WriteStep == IInv /\ Write => IInv'
  <1> SUFFICES ASSUME IInv, Write PROVE IInv'
    OBVIOUS
  <1>1. UNCHANGED <<inited, shadow_idt_loaded, idt>>
    BY DEF Write, idtVars
  <1>2. CASE Terminates(ptr)
    <2>1. cpu' = NoCpu /\ pc' = "idle" /\ tb' = NoTb /\ measured' = <<>>
          /\ n_in' = n_in + 1
      BY <1>2 DEF Write, Advance
    <2>2. TypeInv'
      <3>1. measured' \in Seq(Pos)
        BY <2>1
      <3>2. TbOK'
        BY <2>1 DEF TbOK, TbFields, NoTb
      <3>3. QED
        BY <1>1, <2>1, <3>1, <3>2 DEF IInv, TypeInv
    <2>3. QED
      BY <1>1, <2>1, <2>2 DEF IInv, LoadInv, BusyInv, TraceInv, MeasureInv,
        MeasuredInv, WriteInv, Busy
  <1>3. CASE ~Terminates(ptr)
    <2>1. /\ UNCHANGED <<cpu, pc, measured>> /\ pc = "write"
          /\ tb' = Written(ptr) /\ n_in' = n_in + 1
      BY <1>3 DEF Write, Advance
    <2>2. /\ ptr \in Insns /\ ptr \in Nat /\ Code[ptr].len \in Nat
          /\ InsLen(ptr) \in Nat /\ OutLen(ptr) \in Nat
          /\ optr \in Nat /\ CodeEnd \in Nat
      BY WriteAdvance, EmittedLen DEF IInv, TypeInv
    <2>3. /\ tb'.eip_virt = tb.eip_virt /\ tb'.num_insns = tb.num_insns
          /\ tb'.code_len = tb.code_len /\ tb'.edge_len = tb.edge_len
      BY <2>1 DEF Written, IInv, TypeInv
    <2>4. TypeInv'
      <3>1. TbOK'
        BY <2>1 DEF Written, IInv, TypeInv, TbOK, TbFields
      <3>2. QED
        BY <1>1, <2>1, <3>1 DEF IInv, TypeInv
    <2>5. LoadInv' /\ BusyInv'
      BY <1>1, <2>1 DEF IInv, LoadInv, BusyInv, Busy
    <2>6. TraceInv' /\ MeasuredInv'
      BY <1>1, <2>1, <2>3 DEF IInv, TraceInv, MeasuredInv, Busy, FirstPos,
        After, InsLen, OutLen, EdgeLen
    <2>7. MeasureInv'
      BY <2>1 DEF MeasureInv
    <2>8. WriteInv'
      <3>1. n_in + 1 < tb.num_insns /\ Here' = measured[n_in + 2]
        BY <1>3, WriteAdvance
      <3>2. n_in' + 1 = n_in + 2
        BY <2>1 DEF IInv, TypeInv
      <3>3. QED
        BY <2>1, <2>3, <3>1, <3>2 DEF WriteInv
    <2>9. QED
      BY <2>4, <2>5, <2>6, <2>7, <2>8 DEF IInv
  <1>4. QED
    BY <1>2, <1>3

LEMMA NextStep == IInv /\ [Next]_vars => IInv'
  <1> SUFFICES ASSUME IInv, [Next]_vars PROVE IInv'
    OBVIOUS
  <1>1. CASE UNCHANGED vars
    <2>1. TraceInv' /\ MeasureInv' /\ MeasuredInv' /\ WriteInv'
      BY <1>1, OthersStep DEF vars, idtVars
    <2>2. TypeInv' /\ LoadInv' /\ BusyInv'
      BY <1>1 DEF vars, idtVars, passVars, IInv, TypeInv, TbOK, LoadInv, BusyInv, Busy
    <2>3. QED
      BY <2>1, <2>2 DEF IInv
  <1>2. CASE Next
    BY <1>2, InitDoneStep, LoadIdtStep, SetLoadedStep, LoadNativeStep,
      BeginStep, MeasureStep, TooLongStep, AllocStep, WriteStep DEF Next
  <1>3. QED
    BY <1>1, <1>2

THEOREM Invariance == Spec => []IInv
  BY InitInv, NextStep, PTL DEF Spec

----------------------------------------------------------------------------
\* The second pass of translate fills the buffers the first one has measured,
\* whatever the guest and whenever TRANSLATE_IDT is done.
THEOREM Agreement == Spec => PassesAgree
  <1>1. IInv /\ [Next]_vars =>
          [pc = "write" =>
             /\ optr' <= tb.code_len /\ eptr' <= tb.edge_len
             /\ pc' = "idle" => /\ optr' = tb.code_len /\ eptr' = tb.edge_len
                                /\ n_in' = tb.num_insns]_vars
    <2> SUFFICES ASSUME IInv, [Next]_vars, vars' # vars, pc = "write"
                 PROVE  /\ optr' <= tb.code_len /\ eptr' <= tb.edge_len
                        /\ pc' = "idle" =>
                             /\ optr' = tb.code_len /\ eptr' = tb.edge_len
                             /\ n_in' = tb.num_insns
      BY DEF vars
    <2>1. CASE Write
      BY <2>1, WriteAdvance DEF Write, Advance
    <2>2. CASE UNCHANGED <<cpu, pc, passVars, tb>>
      <3>1. /\ Here = measured[n_in + 1] /\ n_in + 1 \in 1 .. tb.num_insns
            /\ \A i \in 1 .. tb.num_insns : measured[i][2] <= tb.code_len
                                            /\ measured[i][3] <= tb.edge_len
        BY DEF IInv, WriteInv, MeasuredInv, TypeInv
      <3>2. optr <= tb.code_len /\ eptr <= tb.edge_len
        BY <3>1 DEF Here
      <3>3. QED
        BY <2>2, <3>2 DEF passVars
    <2>3. QED
      BY <2>1, <2>2 DEF Next, InitDone, LoadIdt, SetLoaded, LoadNative, Begin,
        Measure, TooLong, Alloc, passVars
  <1>2. QED
    BY Invariance, <1>1, PTL DEF Spec, PassesAgree

----------------------------------------------------------------------------
(* What a block contains: the code of its instructions, where the          *)
(* boundaries that tb.c searches say.                                      *)

\* The first pass has seen that the block fits, and ends with code of its last
\* instruction.
SizeInv ==
  pc \in {"alloc", "write"} =>
    /\ tb.num_insns <= MaxTu /\ tb.code_len <= Room
    /\ \A i \in 1 .. tb.num_insns : measured[i][2] < tb.code_len

LEMMA SizeStep == IInv /\ SizeInv /\ [Next]_vars => SizeInv'
  <1> SUFFICES ASSUME IInv, SizeInv, [Next]_vars PROVE SizeInv'
    OBVIOUS
  <1>1. CASE Measure
    <2>1. /\ ptr \in Insns /\ optr \in Nat /\ n_in \in Nat
          /\ measured \in Seq(Pos) /\ Len(measured) = n_in
          /\ shadow_idt_loaded \in BOOLEAN /\ TbOK
          /\ \A i \in 1 .. n_in : measured[i][2] <= optr
      BY <1>1 DEF Measure, IInv, MeasureInv, TypeInv
    <2>2. /\ InsLen(ptr) \in Nat /\ OutLen(ptr) \in Nat /\ EdgeLen(ptr) \in Nat
          /\ Terminates(ptr) => OutLen(ptr) > 0
      BY <2>1, EmittedLen, CodeAssumption DEF OutLen, Terminates, Insn
    <2>3. CASE Terminates(ptr)
      <3>1. /\ tb'.num_insns = n_in + 1 /\ tb'.code_len = CodeEnd
            /\ n_in < MaxTu /\ CodeEnd <= Room
        BY <1>1, <2>1, <2>3 DEF Measure, Fits, TbOK, TbFields
      <3>2. optr < CodeEnd /\ CodeEnd \in Nat
        BY <2>1, <2>2, <2>3 DEF CodeEnd
      <3>3. measured' = Append(measured, Here) /\ Here \in Pos
        <4>1. eptr \in Nat
          BY <1>1 DEF Measure, IInv, MeasureInv
        <4>2. QED
          BY <1>1, <2>1, <4>1 DEF Measure, Here, Pos
      <3>4. ASSUME NEW i \in 1 .. n_in + 1
            PROVE  measured'[i][2] < CodeEnd
        <4>1. CASE i = n_in + 1
          BY <2>1, <3>2, <3>3, <4>1 DEF Here
        <4>2. CASE i \in 1 .. n_in
          <5>1. measured'[i] = measured[i] /\ measured[i][2] \in Nat
            BY <2>1, <3>3, <4>2, PosParts
          <5>2. QED
            BY <2>1, <3>2, <4>2, <5>1
        <4>3. QED
          BY <2>1, <4>1, <4>2
      <3>5. n_in + 1 <= MaxTu
        BY <2>1, <3>1, CodeAssumption
      <3>6. QED
        BY <3>1, <3>4, <3>5 DEF SizeInv
    <2>4. CASE ~Terminates(ptr)
      BY <1>1, <2>4 DEF Measure, SizeInv
    <2>5. QED
      BY <2>3, <2>4
  <1>2. CASE Alloc
    <2>1. /\ tb'.num_insns = tb.num_insns /\ tb'.code_len = tb.code_len
          /\ measured' = measured /\ pc = "alloc"
      BY <1>2 DEF Alloc, IInv, TypeInv, TbOK, TbFields
    <2>2. QED
      BY <2>1 DEF SizeInv
  <1>3. CASE Write
    <2>1. CASE Terminates(ptr)
      BY <1>3, <2>1 DEF Write, SizeInv
    <2>2. CASE ~Terminates(ptr)
      <3>1. /\ tb'.num_insns = tb.num_insns /\ tb'.code_len = tb.code_len
            /\ measured' = measured /\ pc = "write"
        BY <1>3, <2>2 DEF Write, Written, IInv, TypeInv, TbOK, TbFields
      <3>2. QED
        BY <3>1 DEF SizeInv
    <2>3. QED
      BY <2>1, <2>2
  <1>4. CASE TooLong \/ \E p \in Cpus, a \in Starts : Begin(p, a)
    BY <1>4 DEF TooLong, Begin, SizeInv
  <1>5. CASE UNCHANGED <<pc, tb, measured>>
    BY <1>5 DEF SizeInv
  <1>6. QED
    BY <1>1, <1>2, <1>3, <1>4, <1>5
       DEF Next, InitDone, LoadIdt, SetLoaded, LoadNative, vars

LEMMA SizeInvariance == Spec => []SizeInv
  <1>1. Init => SizeInv
    BY DEF Init, SizeInv
  <1>2. QED
    BY <1>1, SizeStep, Invariance, PTL DEF Spec

Kind(a) == IF Code[a].rule THEN "rule" ELSE "copy"

\* Where the code of instruction i of n begins, and ends.
From(b, i)       == b.tc_boundaries[i]
To(b, n, end, i) == IF i = n THEN end ELSE b.tc_boundaries[i + 1]

\* The code of an instruction is its instrumentation, if any, and what a rule
\* or the copy makes of it.
LaidInsn(b, i, to) ==
  LET a == InsnEip(b, i)
  IN  /\ a \in Insns /\ b.eip_virt + b.eip_boundaries[i] = a + Code[a].len
      /\ \E m \in From(b, i) .. to :
           PartsOf(b, a) = {Part(a, "ins", From(b, i), m), Part(a, Kind(a), m, to)}

\* The first n instructions of a block have code, one after the other, that
\* ends at "end".
Laid(b, n, end) ==
  /\ b.eip_virt \in Nat
  /\ b.tc_boundaries \in Seq(Nat) /\ n <= Len(b.tc_boundaries)
  /\ b.eip_boundaries \in Seq(Nat) /\ n = Len(b.eip_boundaries)
  /\ \A i \in 1 .. n : LaidInsn(b, i, To(b, n, end, i))
  /\ \A i, j \in 1 .. n : i < j =>
       /\ InsnEip(b, i) + Code[InsnEip(b, i)].len <= InsnEip(b, j)
       /\ To(b, n, end, i) <= From(b, j)
  /\ \A c \in b.tc : IF c.kind = "count" THEN c.eip = b.eip_virt
                     ELSE \E i \in 1 .. n : c.eip = InsnEip(b, i)

\* Where the first n instructions of a block end in the guest.
EipEnd(b, n) == b.eip_virt + (IF n = 0 THEN 0 ELSE b.eip_boundaries[n])

\* The first n instructions end before the guest's address a, and before the
\* end of the code.
Before(b, n, end, a) ==
  \A i \in 1 .. n : /\ InsnEip(b, i) + Code[InsnEip(b, i)].len <= a
                   /\ To(b, n, end, i) <= end

\* The first pass leaves the boundaries to the second one.
EmptyInv ==
  pc \in {"measure", "alloc"} =>
    tb.tc_boundaries = <<>> /\ tb.eip_boundaries = <<>>

\* The second pass goes on where the code it has written ends.
LayInv ==
  pc = "write" =>
    /\ Laid(tb, n_in, optr)
    /\ n_in = Len(tb.tc_boundaries)
    /\ ptr = EipEnd(tb, n_in) /\ ptr - tb.eip_virt <= n_in * MaxLen
    /\ Before(tb, n_in, optr, ptr)

Finished(b) ==
  /\ b.num_insns \in Nat \ {0} /\ b.code_len \in Nat
  /\ Laid(b, b.num_insns, b.code_len)
  /\ Len(b.tc_boundaries) = b.num_insns + 1
  /\ b.tc_boundaries[b.num_insns + 1] = b.code_len % Width

LaidInv == \A b \in tbs : Finished(b)

Entry(b, i) == [tb |-> b.eip_virt, off |-> From(b, i), fixup |-> InsnEip(b, i)]

Entries == {extable[i] : i \in 1 .. Len(extable)}

\* The entries for the first n instructions of a block are made.
EntriesMade(b, n) ==
  \A i \in 1 .. n : Code[InsnEip(b, i)].fix => Entry(b, i) \in Entries

\* An entry is that of an instruction of a block.
EntryOf(e, b, n) == \E i \in 1 .. n : e = Entry(b, i)

ExInv ==
  /\ extable \in Seq([tb : Nat, off : Nat, fixup : Insns])
  /\ Len(extable) < MaxEx =>
       /\ \A b \in tbs : EntriesMade(b, b.num_insns)
       /\ pc = "write" => EntriesMade(tb, n_in)
  /\ \A e \in Entries :
       \/ \E b \in tbs : EntryOf(e, b, b.num_insns)
       \/ pc = "write" /\ EntryOf(e, tb, n_in)

----------------------------------------------------------------------------
\* What the second pass adds to a block, for any block.

LEMMA AppendAt ==
  ASSUME NEW s \in Seq(Nat), NEW x \in Nat, NEW r, r = Append(s, x),
         NEW n, n = Len(s)
  PROVE  /\ r \in Seq(Nat) /\ Len(r) = n + 1 /\ r[n + 1] = x
         /\ \A i \in 1 .. n : r[i] = s[i]
  OBVIOUS

\* A block without instructions.
LEMMA LaidNone ==
  ASSUME NEW b, NEW end \in Nat, NEW a, b.eip_virt \in Nat,
         b.tc_boundaries = <<>>, b.eip_boundaries = <<>>,
         b.tc = {Part(b.eip_virt, "count", 0, end)}
  PROVE  /\ Laid(b, 0, end) /\ Len(b.tc_boundaries) = 0
         /\ EipEnd(b, 0) = b.eip_virt /\ Before(b, 0, end, a)
  <1>1. \A i \in 1 .. 0 : FALSE
    OBVIOUS
  <1>2. Len(b.tc_boundaries) = 0 /\ Len(b.eip_boundaries) = 0
        /\ b.tc_boundaries \in Seq(Nat) /\ b.eip_boundaries \in Seq(Nat)
    OBVIOUS
  <1>3. \A c \in b.tc : c.kind = "count" /\ c.eip = b.eip_virt
    BY DEF Part
  <1>4. Laid(b, 0, end)
    BY <1>1, <1>2, <1>3 DEF Laid
  <1>5. QED
    BY <1>1, <1>2, <1>4 DEF EipEnd, Before

\* One more instruction at the end of the code.
LEMMA LaidAppend ==
  ASSUME NEW b, NEW b2, NEW n \in Nat, NEW end \in Nat, NEW end2 \in Nat,
         NEW a \in Insns, NEW m \in end .. end2,
         Laid(b, n, end), n = Len(b.tc_boundaries),
         a = EipEnd(b, n), Before(b, n, end, a),
         b2.eip_virt = b.eip_virt,
         b2.tc_boundaries = Append(b.tc_boundaries, end),
         b2.eip_boundaries
           = Append(b.eip_boundaries, a + Code[a].len - b.eip_virt),
         b2.tc = b.tc \cup {Part(a, "ins", end, m), Part(a, Kind(a), m, end2)}
  PROVE  /\ Laid(b2, n + 1, end2)
         /\ n + 1 = Len(b2.tc_boundaries)
         /\ Before(b2, n + 1, end2, a + Code[a].len)
  <1> DEFINE e(i) == InsnEip(b, i)
  <1>1. /\ b.eip_virt \in Nat /\ a \in Nat
        /\ \A x \in Insns : x \in Nat /\ Code[x].len \in Nat \ {0}
        /\ a + Code[a].len - b.eip_virt \in Nat
    <2>1. b.eip_virt \in Nat /\ b.eip_boundaries \in Seq(Nat)
          /\ n = Len(b.eip_boundaries)
      BY DEF Laid
    <2>2. \A x \in Insns : x \in Nat /\ Code[x].len \in Nat \ {0}
      BY CodeAssumption, SMTT(30) DEF Insn
    <2>3. a - b.eip_virt \in Nat
      BY <2>1 DEF EipEnd
    <2>4. a \in Nat /\ Code[a].len \in Nat
      BY <2>2
    <2>5. a + Code[a].len - b.eip_virt \in Nat
      BY <2>1, <2>3, <2>4
    <2>6. QED
      BY <2>1, <2>2, <2>4, <2>5
  <1>2. /\ b2.tc_boundaries \in Seq(Nat) /\ b2.eip_boundaries \in Seq(Nat)
        /\ Len(b2.tc_boundaries) = n + 1 /\ Len(b2.eip_boundaries) = n + 1
        /\ \A i \in 1 .. n : /\ b2.tc_boundaries[i] = b.tc_boundaries[i]
                             /\ b2.eip_boundaries[i] = b.eip_boundaries[i]
        /\ b2.tc_boundaries[n + 1] = end
        /\ b2.eip_boundaries[n + 1] = a + Code[a].len - b.eip_virt
    <2>1. /\ b.tc_boundaries \in Seq(Nat) /\ b.eip_boundaries \in Seq(Nat)
          /\ n = Len(b.eip_boundaries)
      BY DEF Laid
    <2>2. /\ b2.tc_boundaries \in Seq(Nat) /\ Len(b2.tc_boundaries) = n + 1
          /\ b2.tc_boundaries[n + 1] = end
          /\ \A i \in 1 .. n : b2.tc_boundaries[i] = b.tc_boundaries[i]
      <3>1. b.tc_boundaries \in Seq(Nat) /\ end \in Nat
        BY <2>1
      <3>2. n = Len(b.tc_boundaries)
        OBVIOUS
      <3>3. b2.tc_boundaries = Append(b.tc_boundaries, end)
        OBVIOUS
      <3>4. QED
        BY ONLY <3>1, <3>2, <3>3, AppendAt
    <2>3. /\ b2.eip_boundaries \in Seq(Nat) /\ Len(b2.eip_boundaries) = n + 1
          /\ b2.eip_boundaries[n + 1] = a + Code[a].len - b.eip_virt
          /\ \A i \in 1 .. n : b2.eip_boundaries[i] = b.eip_boundaries[i]
      BY <1>1, <2>1, AppendAt
    <2>4. QED
      BY <2>2, <2>3
  <1>3. /\ InsnEip(b2, n + 1) = a
        /\ From(b2, n + 1) = end /\ To(b2, n + 1, end2, n + 1) = end2
    <2>1. CASE n = 0
      BY <1>2, <2>1 DEF InsnEip, From, To, EipEnd
    <2>2. CASE n # 0
      <3>1. (n + 1) - 1 = n /\ n + 1 # 1 /\ n \in 1 .. n
        BY <2>2
      <3>2. QED
        BY <1>2, <2>2, <3>1 DEF InsnEip, From, To, EipEnd
    <2>3. QED
      BY <2>1, <2>2
  <1>4. ASSUME NEW i \in 1 .. n
        PROVE  /\ InsnEip(b2, i) = e(i) /\ From(b2, i) = From(b, i)
               /\ To(b2, n + 1, end2, i) = To(b, n, end, i)
               /\ e(i) \in Insns /\ e(i) \in Nat /\ e(i) < a
    <2>1. InsnEip(b2, i) = e(i)
      <3>1. CASE i = 1
        BY <3>1 DEF InsnEip
      <3>2. CASE i # 1
        <4>1. i - 1 \in 1 .. n
          BY <3>2
        <4>2. QED
          BY <1>2, <3>2, <4>1 DEF InsnEip
      <3>3. QED
        BY <3>1, <3>2
    <2>2. From(b2, i) = From(b, i)
      BY <1>2 DEF From
    <2>3. To(b2, n + 1, end2, i) = To(b, n, end, i)
      <3>1. CASE i = n
        BY <1>2, <3>1 DEF To
      <3>2. CASE i # n
        <4>1. i + 1 \in 1 .. n /\ i # n + 1
          BY <3>2
        <4>2. QED
          BY <1>2, <3>2, <4>1 DEF To
      <3>3. QED
        BY <3>1, <3>2
    <2>4. e(i) \in Insns
      BY DEF Laid, LaidInsn
    <2>5. e(i) + Code[e(i)].len <= a
      BY DEF Before
    <2>6. e(i) \in Nat /\ e(i) < a
      <3>1. e(i) \in Nat /\ Code[e(i)].len \in Nat \ {0}
        BY <1>1, <2>4
      <3>2. a \in Nat
        BY <1>1
      <3> HIDE DEF e
      <3>3. QED
        BY ONLY <2>5, <3>1, <3>2
    <2>7. QED
      BY <2>1, <2>2, <2>3, <2>4, <2>6
  <1>5. \A c \in b.tc : c.kind # "count" => c.eip # a
    BY <1>4 DEF Laid
  <1>6. ASSUME NEW i \in 1 .. n
        PROVE  LaidInsn(b2, i, To(b2, n + 1, end2, i))
    <2>1. LaidInsn(b, i, To(b, n, end, i))
      BY DEF Laid
    <2>2. PartsOf(b2, e(i)) = PartsOf(b, e(i))
      BY <1>1, <1>4, SMTT(30) DEF PartsOf, Part
    <2>3. b2.eip_boundaries[i] = b.eip_boundaries[i]
      BY <1>2
    <2>4. QED
      BY <1>4, <2>1, <2>2, <2>3 DEF LaidInsn
  <1>7. LaidInsn(b2, n + 1, end2)
    <2>1. PartsOf(b2, a) = {Part(a, "ins", end, m), Part(a, Kind(a), m, end2)}
      BY <1>5 DEF PartsOf, Part, Kind
    <2>2. b2.eip_virt + b2.eip_boundaries[n + 1] = a + Code[a].len
      BY <1>1, <1>2
    <2>3. QED
      BY <1>3, <2>1, <2>2 DEF LaidInsn
  <1>8. \A i \in 1 .. n + 1 : LaidInsn(b2, i, To(b2, n + 1, end2, i))
    BY <1>3, <1>6, <1>7
  <1>9. ASSUME NEW i \in 1 .. n + 1, NEW j \in 1 .. n + 1, i < j
        PROVE  /\ InsnEip(b2, i) + Code[InsnEip(b2, i)].len <= InsnEip(b2, j)
               /\ To(b2, n + 1, end2, i) <= From(b2, j)
    <2>1. i \in 1 .. n
      BY <1>9
    <2>2. CASE j = n + 1
      <3>1. e(i) + Code[e(i)].len <= a /\ To(b, n, end, i) <= end
        BY <2>1 DEF Before
      <3>2. QED
        BY <1>3, <1>4, <2>1, <2>2, <3>1
    <2>3. CASE j # n + 1
      <3>1. j \in 1 .. n
        BY <2>3
      <3>2. e(i) + Code[e(i)].len <= e(j) /\ To(b, n, end, i) <= From(b, j)
        BY <1>9, <2>1, <3>1 DEF Laid
      <3>3. QED
        BY <1>4, <2>1, <3>1, <3>2
    <2>4. QED
      BY <2>2, <2>3
  <1>10. ASSUME NEW c \in b2.tc
         PROVE  IF c.kind = "count" THEN c.eip = b2.eip_virt
                ELSE \E i \in 1 .. n + 1 : c.eip = InsnEip(b2, i)
    <2>1. CASE c \in b.tc
      <3>1. CASE c.kind = "count"
        BY <2>1, <3>1 DEF Laid
      <3>2. CASE c.kind # "count"
        <4>1. PICK i \in 1 .. n : c.eip = e(i)
          BY <2>1, <3>2 DEF Laid
        <4>2. i \in 1 .. n + 1
          OBVIOUS
        <4>3. QED
          BY <1>4, <3>2, <4>1, <4>2
      <3>3. QED
        BY <3>1, <3>2
    <2>2. CASE c \in {Part(a, "ins", end, m), Part(a, Kind(a), m, end2)}
      BY <1>3, <2>2 DEF Part, Kind
    <2>3. QED
      BY <2>1, <2>2
  <1>11. Laid(b2, n + 1, end2)
    BY <1>1, <1>2, <1>8, <1>9, <1>10 DEF Laid
  <1>12. ASSUME NEW i \in 1 .. n + 1
         PROVE  /\ InsnEip(b2, i) + Code[InsnEip(b2, i)].len <= a + Code[a].len
                /\ To(b2, n + 1, end2, i) <= end2
    <2>1. CASE i = n + 1
      BY <1>1, <1>3, <2>1
    <2>2. CASE i # n + 1
      <3>1. i \in 1 .. n
        BY <2>2
      <3>2. e(i) + Code[e(i)].len <= a /\ To(b, n, end, i) <= end
        BY <3>1 DEF Before
      <3>3. To(b, n, end, i) \in Nat
        BY <3>1 DEF Laid, To
      <3>4. InsnEip(b2, i) = e(i) /\ To(b2, n + 1, end2, i) = To(b, n, end, i)
        BY <1>4, <3>1
      <3>5. e(i) \in Nat /\ Code[e(i)].len \in Nat /\ Code[a].len \in Nat
            /\ a \in Nat
        BY <1>1, <1>4, <3>1
      <3>6. e(i) + Code[e(i)].len <= a + Code[a].len
        BY ONLY <3>2, <3>5
      <3>7. To(b, n, end, i) <= end2
        <4>1. end <= end2
          OBVIOUS
        <4>2. QED
          BY <3>2, <3>3, <4>1
      <3>8. QED
        BY <3>4, <3>6, <3>7
    <2>3. QED
      BY <2>1, <2>2
  <1>13. QED
    BY <1>2, <1>11, <1>12 DEF Before

\* b2 is b, of n laid instructions, with its last boundary x,
Bounded(b, b2, n, end, x) ==
  /\ n \in Nat /\ end \in Nat /\ x \in Nat
  /\ Laid(b, n, end) /\ n = Len(b.tc_boundaries)
  /\ b2.eip_virt = b.eip_virt /\ b2.eip_boundaries = b.eip_boundaries
  /\ b2.tc = b.tc /\ b2.tc_boundaries = Append(b.tc_boundaries, x)

\* and its n instructions lie where they lay.
StillLaid(b, b2, n, end, x) ==
  /\ Laid(b2, n, end) /\ Len(b2.tc_boundaries) = n + 1
  /\ b2.tc_boundaries[n + 1] = x
  /\ \A i \in 1 .. n : InsnEip(b2, i) = InsnEip(b, i)
                      /\ From(b2, i) = From(b, i)

\* The last boundary is of no instruction's beginning.
LEMMA LaidFinish ==
  ASSUME NEW b, NEW b2, NEW n, NEW end, NEW x, Bounded(b, b2, n, end, x)
  PROVE  StillLaid(b, b2, n, end, x)
  <1> USE DEF Bounded
  <1>1. /\ b2.tc_boundaries \in Seq(Nat) /\ Len(b2.tc_boundaries) = n + 1
        /\ b2.tc_boundaries[n + 1] = x
        /\ \A i \in 1 .. n : b2.tc_boundaries[i] = b.tc_boundaries[i]
    BY DEF Laid
  <1>2. ASSUME NEW i \in 1 .. n
        PROVE  /\ InsnEip(b2, i) = InsnEip(b, i) /\ From(b2, i) = From(b, i)
               /\ To(b2, n, end, i) = To(b, n, end, i)
    <2>1. i # n => i + 1 \in 1 .. n
      OBVIOUS
    <2>2. QED
      BY <1>1, <2>1 DEF InsnEip, From, To
  <1>3. ASSUME NEW i \in 1 .. n
        PROVE  LaidInsn(b2, i, To(b2, n, end, i))
    <2>1. LaidInsn(b, i, To(b, n, end, i))
      BY DEF Laid
    <2>2. QED
      BY <1>2, <2>1 DEF LaidInsn, PartsOf
  <1>4. ASSUME NEW i \in 1 .. n, NEW j \in 1 .. n, i < j
        PROVE  /\ InsnEip(b2, i) + Code[InsnEip(b2, i)].len <= InsnEip(b2, j)
               /\ To(b2, n, end, i) <= From(b2, j)
    <2>1. /\ InsnEip(b, i) + Code[InsnEip(b, i)].len <= InsnEip(b, j)
          /\ To(b, n, end, i) <= From(b, j)
      BY <1>4 DEF Laid
    <2>2. QED
      BY <1>2, <2>1
  <1>5. \A c \in b2.tc : IF c.kind = "count" THEN c.eip = b2.eip_virt
                         ELSE \E i \in 1 .. n : c.eip = InsnEip(b2, i)
    BY <1>2 DEF Laid
  <1>6. n <= Len(b2.tc_boundaries) /\ n = Len(b2.eip_boundaries)
        /\ b2.eip_virt \in Nat /\ b2.eip_boundaries \in Seq(Nat)
    <2>1. n = Len(b.eip_boundaries) /\ b.eip_virt \in Nat
          /\ b.eip_boundaries \in Seq(Nat)
      BY DEF Laid
    <2>2. QED
      BY <1>1, <2>1
  <1>7. Laid(b2, n, end)
    BY <1>1, <1>3, <1>4, <1>5, <1>6 DEF Laid
  <1>8. QED
    BY <1>1, <1>2, <1>7 DEF StillLaid

----------------------------------------------------------------------------
\* No boundary wraps but the last one of a block that fills tpage.
LEMMA NoWrap ==
  ASSUME IInv, SizeInv, LayInv, Write
  PROVE  /\ optr % Width = optr /\ CodeEnd % Width \in Nat
         /\ ptr + Code[ptr].len - tb.eip_virt \in Nat
         /\ (ptr + Code[ptr].len - tb.eip_virt) % Width
              = ptr + Code[ptr].len - tb.eip_virt
         /\ ptr + Code[ptr].len - tb.eip_virt <= (n_in + 1) * MaxLen
  <1>1. /\ ptr \in Insns /\ optr \in Nat /\ n_in \in Nat /\ tb.num_insns \in Nat
        /\ n_in + 1 \in 1 .. tb.num_insns /\ CodeEnd \in Nat
        /\ Here = measured[n_in + 1] /\ tb.code_len \in Nat
    BY WriteAdvance DEF Write, IInv, TypeInv, TbOK, WriteInv
  <1>2. /\ Width \in Nat \ {0} /\ Room \in 0 .. Width /\ MaxTu \in Nat
        /\ MaxLen \in Nat /\ MaxTu * MaxLen < Width
        /\ ptr \in Nat /\ Code[ptr].len \in 1 .. MaxLen
    BY <1>1, CodeAssumption DEF Insn
  <1>3. /\ tb.num_insns <= MaxTu /\ tb.code_len <= Room /\ optr < tb.code_len
    BY <1>1 DEF Write, SizeInv, Here
  <1>4. optr % Width = optr /\ CodeEnd % Width \in Nat
    BY <1>1, <1>2, <1>3
  <1>5. /\ tb.eip_virt \in Nat
        /\ ptr = tb.eip_virt + (IF n_in = 0 THEN 0 ELSE tb.eip_boundaries[n_in])
        /\ ptr - tb.eip_virt <= n_in * MaxLen
        /\ n_in # 0 => tb.eip_boundaries[n_in] \in Nat
    BY <1>1 DEF Write, LayInv, Laid, EipEnd
  <1> DEFINE x == ptr + Code[ptr].len - tb.eip_virt
  <1>6. ptr - tb.eip_virt \in Nat
    BY <1>2, <1>5
  <1>7. x \in Nat /\ x <= n_in * MaxLen + MaxLen
    <2>1. Code[ptr].len \in Nat /\ Code[ptr].len <= MaxLen
      BY <1>2
    <2>2. x = (ptr - tb.eip_virt) + Code[ptr].len
      <3>1. tb.eip_virt \in Nat /\ ptr \in Nat
        BY <1>2, <1>5
      <3>2. QED
        BY ONLY <2>1, <3>1
    <2>3. n_in * MaxLen \in Nat /\ MaxLen \in Nat
      BY <1>1, <1>2
    <2>4. ptr - tb.eip_virt <= n_in * MaxLen
      BY <1>5
    <2> DEFINE y == n_in * MaxLen
               z == ptr - tb.eip_virt
    <2>5. y \in Nat /\ z \in Nat /\ z <= y
      BY <1>6, <2>3, <2>4
    <2> HIDE DEF x, y, z
    <2>6. x = z + Code[ptr].len
      BY <2>2 DEF z
    <2>7. x \in Nat /\ x <= y + MaxLen
      BY ONLY <2>1, <2>3, <2>5, <2>6
    <2>8. QED
      BY <2>7 DEF y
  <1>8. n_in * MaxLen + MaxLen = (n_in + 1) * MaxLen
    BY <1>1, <1>2
  <1>9. (n_in + 1) * MaxLen <= MaxTu * MaxLen
    <2>1. n_in + 1 <= MaxTu
      BY <1>1, <1>2, <1>3
    <2>2. PICK k \in Nat : MaxTu = (n_in + 1) + k
      <3>1. MaxTu - (n_in + 1) \in Nat
        BY <1>1, <1>2, <2>1
      <3>2. MaxTu = (n_in + 1) + (MaxTu - (n_in + 1))
        BY <1>1, <1>2
      <3>3. QED
        BY <3>1, <3>2
    <2>3. MaxTu * MaxLen = (n_in + 1) * MaxLen + k * MaxLen
      BY <1>1, <1>2, <2>2
    <2>4. k * MaxLen \in Nat /\ (n_in + 1) * MaxLen \in Nat
      BY <1>1, <1>2
    <2>5. QED
      BY <2>3, <2>4
  <1>10. x < Width
    <2>1. MaxTu * MaxLen \in Nat /\ (n_in + 1) * MaxLen \in Nat
      BY <1>1, <1>2
    <2>2. QED
      BY <1>2, <1>7, <1>8, <1>9, <2>1
  <1>11. x % Width = x
    BY <1>2, <1>7, <1>10
  <1>12. QED
    BY <1>4, <1>7, <1>8, <1>11

\* What an iteration of the second pass makes of the block.
LEMMA WrittenLaid ==
  ASSUME IInv, SizeInv, LayInv, Write
  PROVE  LET b2 == Written(ptr)
         IN  /\ Laid(b2, n_in + 1, optr')
             /\ n_in + 1 = Len(b2.tc_boundaries)
             /\ b2.eip_virt = tb.eip_virt
             /\ ptr' = EipEnd(b2, n_in + 1)
             /\ ptr' - b2.eip_virt <= (n_in + 1) * MaxLen
             /\ Before(b2, n_in + 1, optr', ptr')
             /\ InsnEip(b2, n_in + 1) = ptr /\ From(b2, n_in + 1) = optr
             /\ \A i \in 1 .. n_in : InsnEip(b2, i) = InsnEip(tb, i)
                                     /\ From(b2, i) = From(tb, i)
  <1> DEFINE b2 == Written(ptr)
             m  == optr + InsLen(ptr)
             x  == ptr + Code[ptr].len - tb.eip_virt
  <1>1. /\ ptr \in Insns /\ optr \in Nat /\ n_in \in Nat /\ CodeEnd \in Nat
        /\ optr' = CodeEnd /\ ptr' = ptr + Code[ptr].len /\ TbOK
    BY WriteAdvance DEF Write, Advance, IInv, TypeInv
  <1>2. InsLen(ptr) \in Nat /\ OutLen(ptr) \in Nat /\ Code[ptr].len \in Nat
        /\ ptr \in Nat
    BY <1>1, EmittedLen DEF IInv, TypeInv
  <1>3. m \in optr .. CodeEnd
    BY <1>1, <1>2 DEF CodeEnd
  <1>4. /\ b2.eip_virt = tb.eip_virt
        /\ b2.tc_boundaries = Append(tb.tc_boundaries, optr)
        /\ b2.eip_boundaries = Append(tb.eip_boundaries, x)
        /\ b2.tc = tb.tc \cup {Part(ptr, "ins", optr, m),
                               Part(ptr, Kind(ptr), m, CodeEnd)}
    <2>1. optr % Width = optr /\ x % Width = x
      BY NoWrap
    <2>2. QED
      BY <1>1, <2>1 DEF Written, Kind, TbOK, TbFields
  <1>5. /\ Laid(tb, n_in, optr) /\ n_in = Len(tb.tc_boundaries)
        /\ ptr = EipEnd(tb, n_in) /\ Before(tb, n_in, optr, ptr)
    BY DEF Write, LayInv
  <1> HIDE DEF b2, m, x
  <1>6. /\ Laid(b2, n_in + 1, CodeEnd)
        /\ n_in + 1 = Len(b2.tc_boundaries)
        /\ Before(b2, n_in + 1, CodeEnd, ptr + Code[ptr].len)
    <2>1. b2.eip_boundaries
            = Append(tb.eip_boundaries, ptr + Code[ptr].len - tb.eip_virt)
      BY <1>4 DEF x
    <2>2. QED
      BY ONLY <1>1, <1>3, <1>4, <1>5, <2>1, LaidAppend
  <1>7. /\ tb.tc_boundaries \in Seq(Nat) /\ tb.eip_boundaries \in Seq(Nat)
        /\ tb.eip_virt \in Nat /\ n_in = Len(tb.eip_boundaries)
    BY <1>5 DEF Laid
  <1>8. x \in Nat /\ x <= (n_in + 1) * MaxLen
    BY NoWrap DEF x
  <1>9. /\ b2.eip_boundaries[n_in + 1] = x
        /\ \A i \in 1 .. n_in : b2.eip_boundaries[i] = tb.eip_boundaries[i]
    BY ONLY <1>4, <1>7, <1>8, AppendAt
  <1>10. /\ b2.tc_boundaries[n_in + 1] = optr
         /\ \A i \in 1 .. n_in : b2.tc_boundaries[i] = tb.tc_boundaries[i]
    <2>1. n_in = Len(tb.tc_boundaries)
      BY <1>5
    <2>2. QED
      BY ONLY <1>1, <1>4, <1>7, <2>1, AppendAt
  <1>11. /\ ptr' = EipEnd(b2, n_in + 1)
         /\ ptr' - b2.eip_virt <= (n_in + 1) * MaxLen
    <2>1. ptr' = tb.eip_virt + x /\ ptr' - tb.eip_virt = x
      BY <1>1, <1>2, <1>7 DEF x
    <2>2. EipEnd(b2, n_in + 1) = tb.eip_virt + x
      BY <1>1, <1>4, <1>9 DEF EipEnd
    <2>3. QED
      BY <1>4, <1>8, <2>1, <2>2
  <1>12. InsnEip(b2, n_in + 1) = ptr /\ From(b2, n_in + 1) = optr
    <2>1. CASE n_in = 0
      BY <1>4, <1>5, <1>7, <1>10, <2>1 DEF InsnEip, From, EipEnd
    <2>2. CASE n_in # 0
      <3>1. (n_in + 1) - 1 = n_in /\ n_in + 1 # 1 /\ n_in \in 1 .. n_in
        BY <1>1, <2>2
      <3>2. QED
        BY <1>4, <1>5, <1>9, <1>10, <2>2, <3>1, ZenonT(60)
          DEF InsnEip, From, EipEnd
    <2>3. QED
      BY <2>1, <2>2
  <1>13. ASSUME NEW i \in 1 .. n_in
         PROVE  InsnEip(b2, i) = InsnEip(tb, i) /\ From(b2, i) = From(tb, i)
    <2>1. i # 1 => i - 1 \in 1 .. n_in
      BY <1>1
    <2>2. QED
      BY <1>4, <1>9, <1>10, <2>1 DEF InsnEip, From
  <1>14. QED
    BY <1>1, <1>4, <1>6, <1>11, <1>12, <1>13 DEF b2

\* The last iteration finishes the block.
LEMMA BlockDone ==
  ASSUME IInv, SizeInv, LayInv, Write, Terminates(ptr)
  PROVE  \E b3 : /\ tbs' = tbs \cup {b3} /\ pc' = "idle"
                 /\ Finished(b3) /\ b3.num_insns = n_in + 1
                 /\ b3.eip_virt = tb.eip_virt
                 /\ \A i \in 1 .. n_in + 1 :
                      /\ InsnEip(b3, i) = InsnEip(Written(ptr), i)
                      /\ From(b3, i) = From(Written(ptr), i)
  <1> DEFINE b2 == Written(ptr)
             b3 == [b2 EXCEPT !.tc_boundaries = Append(@, CodeEnd % Width)]
  <1>1. /\ Laid(b2, n_in + 1, optr')
        /\ n_in + 1 = Len(b2.tc_boundaries)
        /\ b2.eip_virt = tb.eip_virt
    BY WrittenLaid
  <1>2. tbs' = tbs \cup {b3} /\ pc' = "idle"
    BY DEF Write
  <1>3. /\ n_in + 1 = tb.num_insns /\ optr' = tb.code_len /\ optr' = CodeEnd
        /\ tb.code_len \in Nat /\ tb.num_insns \in Nat \ {0} /\ TbOK
        /\ n_in \in Nat
    BY WriteAdvance DEF IInv, TypeInv, TbOK
  <1>4. /\ b3.eip_virt = b2.eip_virt /\ b3.tc = b2.tc
        /\ b3.eip_boundaries = b2.eip_boundaries
        /\ b3.tc_boundaries = Append(b2.tc_boundaries, CodeEnd % Width)
        /\ b3.num_insns = tb.num_insns /\ b3.code_len = tb.code_len
    BY <1>3 DEF Written, TbOK, TbFields
  <1> HIDE DEF b2, b3
  <1>5. CodeEnd % Width \in Nat
    BY NoWrap
  <1>6. n_in + 1 \in Nat /\ optr' \in Nat /\ (n_in + 1) + 1 = tb.num_insns + 1
    BY <1>3
  <1>7. /\ Laid(b3, n_in + 1, optr')
        /\ Len(b3.tc_boundaries) = (n_in + 1) + 1
        /\ b3.tc_boundaries[(n_in + 1) + 1] = CodeEnd % Width
        /\ \A i \in 1 .. n_in + 1 : /\ InsnEip(b3, i) = InsnEip(b2, i)
                                    /\ From(b3, i) = From(b2, i)
    <2>1. Bounded(b2, b3, n_in + 1, optr', CodeEnd % Width)
      BY <1>1, <1>4, <1>5, <1>6 DEF Bounded
    <2>2. StillLaid(b2, b3, n_in + 1, optr', CodeEnd % Width)
      BY <2>1, LaidFinish
    <2>3. QED
      BY <2>2 DEF StillLaid
  <1>8. Finished(b3)
    BY <1>3, <1>4, <1>6, <1>7 DEF Finished
  <1>9. WITNESS b3
  <1>10. QED
    BY <1>1, <1>2, <1>3, <1>4, <1>7, <1>8 DEF b2

LEMMA EmptyStep == IInv /\ EmptyInv /\ [Next]_vars => EmptyInv'
  <1> SUFFICES ASSUME IInv, EmptyInv, [Next]_vars PROVE EmptyInv'
    OBVIOUS
  <1>1. CASE Measure
    BY <1>1 DEF Measure, EmptyInv, IInv, TypeInv, TbOK, TbFields
  <1>2. CASE Write \/ Alloc \/ TooLong
    BY <1>2 DEF Write, Alloc, TooLong, EmptyInv
  <1>3. CASE \E p \in Cpus, a \in Starts : Begin(p, a)
    BY <1>3 DEF Begin, NoTb, EmptyInv
  <1>4. CASE UNCHANGED <<pc, tb>>
    BY <1>4 DEF EmptyInv
  <1>5. QED
    BY <1>1, <1>2, <1>3, <1>4
       DEF Next, InitDone, LoadIdt, SetLoaded, LoadNative, vars

\* An iteration keeps to the layout, and a block is finished with it.
LEMMA LayStep ==
  IInv /\ SizeInv /\ EmptyInv /\ LayInv /\ LaidInv /\ [Next]_vars
    => LayInv' /\ LaidInv'
  <1> SUFFICES ASSUME IInv, SizeInv, EmptyInv, LayInv, LaidInv, [Next]_vars
               PROVE  LayInv' /\ LaidInv'
    OBVIOUS
  <1>1. CASE Alloc
    <2>1. /\ pc = "alloc" /\ TbOK /\ n_in' = 0 /\ optr' \in Nat
          /\ ptr' = tb.eip_virt /\ tbs' = tbs
      BY <1>1, CodeAssumption DEF Alloc, StartPass, IInv, TypeInv
    <2>2. /\ tb'.eip_virt = tb.eip_virt
          /\ tb'.tc_boundaries = tb.tc_boundaries
          /\ tb'.eip_boundaries = tb.eip_boundaries
          /\ tb'.tc = {Part(tb.eip_virt, "count", 0, optr')}
      BY <1>1, <2>1 DEF Alloc, TbOK, TbFields
    <2>3. tb.tc_boundaries = <<>> /\ tb.eip_boundaries = <<>>
      BY <1>1 DEF Alloc, EmptyInv
    <2>4. tb.eip_virt \in Nat
      BY <2>1 DEF TbOK
    <2>5. /\ Laid(tb', 0, optr') /\ Len(tb'.tc_boundaries) = 0
          /\ EipEnd(tb', 0) = tb.eip_virt /\ Before(tb', 0, optr', ptr')
      BY ONLY <2>1, <2>2, <2>3, <2>4, LaidNone
    <2>6. tb.eip_virt - tb.eip_virt <= 0 * MaxLen
      BY <2>4, CodeAssumption
    <2>7. QED
      BY <2>1, <2>2, <2>5, <2>6 DEF LayInv, LaidInv
  <1>2. CASE Write
    <2> DEFINE b2 == Written(ptr)
    <2>1. /\ Laid(b2, n_in + 1, optr')
          /\ n_in + 1 = Len(b2.tc_boundaries)
          /\ b2.eip_virt = tb.eip_virt
          /\ ptr' = EipEnd(b2, n_in + 1)
          /\ ptr' - b2.eip_virt <= (n_in + 1) * MaxLen
          /\ Before(b2, n_in + 1, optr', ptr')
      BY <1>2, WrittenLaid
    <2>2. n_in' = n_in + 1
      BY <1>2 DEF Write, Advance
    <2>3. CASE ~Terminates(ptr)
      <3>1. tb' = b2 /\ tbs' = tbs
        BY <1>2, <2>3 DEF Write
      <3> HIDE DEF b2
      <3>2. QED
        BY <2>1, <2>2, <3>1 DEF LayInv, LaidInv
    <2>4. CASE Terminates(ptr)
      BY <1>2, <2>4, BlockDone DEF LayInv, LaidInv
    <2>5. QED
      BY <2>3, <2>4
  <1>3. CASE Measure \/ TooLong \/ \E p \in Cpus, a \in Starts : Begin(p, a)
    <2>1. pc' # "write" /\ tbs' = tbs
      BY <1>3 DEF Measure, TooLong, Begin
    <2>2. QED
      BY <2>1 DEF LayInv, LaidInv
  <1>4. CASE UNCHANGED <<pc, passVars, tb, tbs>>
    BY <1>4 DEF LayInv, LaidInv, passVars
  <1>5. QED
    BY <1>1, <1>2, <1>3, <1>4
       DEF Next, InitDone, LoadIdt, SetLoaded, LoadNative, vars

LEMMA LayInvariance == Spec => [](IInv /\ SizeInv /\ EmptyInv /\ LayInv /\ LaidInv)
  <1>1. Init => EmptyInv /\ LayInv /\ LaidInv
    BY DEF Init, EmptyInv, LayInv, LaidInv
  <1>2. QED
    BY <1>1, EmptyStep, LayStep, SizeInvariance, Invariance, PTL DEF Spec

----------------------------------------------------------------------------
\* What the searches of tb.c find in a block that is finished.

\* The code of a block is that of its instructions.
LEMMA PartOfInsn ==
  ASSUME NEW b, Finished(b), NEW c \in b.tc, c.kind # "count"
  PROVE  \E i \in 1 .. b.num_insns : \E m \in Int :
           LET n  == b.num_insns
               to == To(b, n, b.code_len, i)
           IN  /\ c.eip = InsnEip(b, i)
               /\ From(b, i) \in Nat /\ to \in Nat
               /\ From(b, i) <= m /\ m <= to
               /\ PartsOf(b, c.eip) = {Part(c.eip, "ins", From(b, i), m),
                                       Part(c.eip, Kind(c.eip), m, to)}
               /\ c \in PartsOf(b, c.eip)
  <1> DEFINE n == b.num_insns
             to(i) == To(b, n, b.code_len, i)
  <1>1. Laid(b, n, b.code_len) /\ n \in Nat /\ b.code_len \in Nat
    BY DEF Finished
  <1>2. PICK i \in 1 .. n : c.eip = InsnEip(b, i)
    BY <1>1 DEF Laid
  <1>3. PICK m \in From(b, i) .. to(i) :
          PartsOf(b, c.eip) = {Part(c.eip, "ins", From(b, i), m),
                               Part(c.eip, Kind(c.eip), m, to(i))}
    BY <1>1, <1>2 DEF Laid, LaidInsn
  <1>4. From(b, i) \in Nat /\ to(i) \in Nat
    <2>1. b.tc_boundaries \in Seq(Nat) /\ n <= Len(b.tc_boundaries)
      BY <1>1 DEF Laid
    <2>2. i \in 1 .. Len(b.tc_boundaries)
          /\ (i # n => i + 1 \in 1 .. Len(b.tc_boundaries))
      BY <1>1, <2>1
    <2>3. From(b, i) \in Nat
      BY <2>1, <2>2 DEF From
    <2>4. To(b, n, b.code_len, i) \in Nat
      BY <1>1, <2>1, <2>2 DEF To
    <2>5. QED
      BY <2>3, <2>4
  <1>5. c \in PartsOf(b, c.eip)
    BY DEF PartsOf
  <1>6. m \in Int /\ From(b, i) <= m /\ m <= to(i)
    BY <1>3, <1>4
  <1>7. QED
    BY <1>2, <1>3, <1>4, <1>5, <1>6

\* The first boundary behind an offset is that of its instruction.
LEMMA FoundInsn ==
  ASSUME NEW b, Finished(b), b.code_len < Width,
         NEW i \in 1 .. b.num_insns, NEW off \in Nat,
         From(b, i) <= off, off < To(b, b.num_insns, b.code_len, i)
  PROVE  TcPtrToEipVirt(b, off) = {InsnEip(b, i)}
  <1> DEFINE n == b.num_insns
             to(j) == To(b, n, b.code_len, j)
             hit(j) == b.tc_boundaries[j] <= off /\ off < b.tc_boundaries[j + 1]
  <1>1. /\ Laid(b, n, b.code_len) /\ n \in Nat /\ b.code_len \in Nat
        /\ b.tc_boundaries[n + 1] = b.code_len
        /\ b.tc_boundaries \in Seq(Nat) /\ Len(b.tc_boundaries) = n + 1
    <2>1. /\ Laid(b, n, b.code_len) /\ n \in Nat /\ b.code_len \in Nat
          /\ b.tc_boundaries[n + 1] = b.code_len % Width
          /\ Len(b.tc_boundaries) = n + 1
      BY DEF Finished
    <2>2. b.code_len % Width = b.code_len
      <3>1. Width \in Nat
        BY CodeAssumption
      <3>2. QED
        BY <2>1, <3>1
    <2>3. b.tc_boundaries \in Seq(Nat)
      BY <2>1 DEF Laid
    <2>4. QED
      BY <2>1, <2>2, <2>3
  <1>2. ASSUME NEW j \in 1 .. n
        PROVE  /\ b.tc_boundaries[j] \in Nat
               /\ b.tc_boundaries[j + 1] = to(j) /\ to(j) \in Nat
    <2>1. /\ b.tc_boundaries \in Seq(Nat)
          /\ j \in 1 .. Len(b.tc_boundaries) /\ j + 1 \in 1 .. Len(b.tc_boundaries)
      BY <1>1
    <2>2. b.tc_boundaries[j] \in Nat /\ b.tc_boundaries[j + 1] \in Nat
      BY ONLY <2>1
    <2>3. b.tc_boundaries[j + 1] = to(j)
      BY <1>1 DEF To
    <2>4. QED
      BY <2>2, <2>3
  <1>3. hit(i)
    BY <1>2 DEF From
  <1>4. \A j \in 1 .. i - 1 : ~hit(j)
    <2> SUFFICES ASSUME NEW j \in 1 .. i - 1 PROVE ~hit(j)
      OBVIOUS
    <2>1. j \in 1 .. n /\ j < i
      BY <1>1
    <2>2. to(j) <= From(b, i)
      BY <1>1, <2>1 DEF Laid
    <2>3. b.tc_boundaries[j + 1] = to(j) /\ to(j) \in Nat /\ From(b, i) \in Nat
      BY <1>2, <2>1 DEF From
    <2>4. QED
      BY <2>2, <2>3
  <1>5. ASSUME NEW j \in 1 .. n, hit(j), \A k \in 1 .. j - 1 : ~hit(k)
        PROVE  j = i
    <2>1. ~(j < i)
      BY <1>1, <1>4, <1>5
    <2>2. ~(i < j)
      BY <1>1, <1>3, <1>5
    <2>3. QED
      BY <1>1, <2>1, <2>2
  <1> DEFINE S == {j \in 1 .. n : hit(j) /\ \A k \in 1 .. j - 1 : ~hit(k)}
  <1>6. TcPtrToEipVirt(b, off) = {InsnEip(b, j) : j \in S}
    BY Zenon DEF TcPtrToEipVirt
  <1> HIDE DEF hit
  <1>7. S = {i}
    BY <1>3, <1>4, <1>5
  <1> HIDE DEF S
  <1>8. QED
    BY <1>6, <1>7

\* tb_tc_ptr_to_eip_virt finds for every byte of a block's code, also in the
\* middle of what a rule emits, the instruction it was emitted for, in a block
\* of any length.
THEOREM AddressesFound == Spec => []CodeFound
  <1>1. LaidInv => CodeFound
    <2> SUFFICES ASSUME LaidInv, NEW b \in tbs, b.code_len < Width,
                        NEW c \in {c \in b.tc : c.kind # "count"},
                        NEW off \in c.lo .. c.hi - 1
                 PROVE  TcPtrToEipVirt(b, off) = {c.eip}
      BY DEF CodeFound
    <2>1. Finished(b)
      BY DEF LaidInv
    <2>2. PICK i \in 1 .. b.num_insns, m \in Int :
            /\ c.eip = InsnEip(b, i)
            /\ From(b, i) \in Nat /\ To(b, b.num_insns, b.code_len, i) \in Nat
            /\ From(b, i) <= m /\ m <= To(b, b.num_insns, b.code_len, i)
            /\ PartsOf(b, c.eip)
                 = {Part(c.eip, "ins", From(b, i), m),
                    Part(c.eip, Kind(c.eip), m,
                         To(b, b.num_insns, b.code_len, i))}
            /\ c \in PartsOf(b, c.eip)
      BY <2>1, PartOfInsn
    <2> DEFINE from == From(b, i)
               to   == To(b, b.num_insns, b.code_len, i)
    <2>3. (c.lo = from /\ c.hi = m) \/ (c.lo = m /\ c.hi = to)
      BY <2>2 DEF Part
    <2>4. off \in Nat /\ from <= off /\ off < to
      BY <2>2, <2>3
    <2>5. QED
      BY <2>1, <2>2, <2>4, FoundInsn
  <1>2. QED
    BY <1>1, LayInvariance, PTL

\* The first instruction that ends behind an address is the one it is in.
LEMMA LandedInsn ==
  ASSUME NEW b, Finished(b), NEW i \in 1 .. b.num_insns, NEW eip \in Nat,
         InsnEip(b, i) <= eip, eip < InsnEip(b, i) + Code[InsnEip(b, i)].len
  PROVE  EipVirtToTcPtr(b, eip) = {From(b, i) + (eip - InsnEip(b, i))}
  <1> DEFINE n      == b.num_insns
             end(j) == b.eip_virt + b.eip_boundaries[j]
             hit(j) == eip < end(j)
  <1>1. Laid(b, n, b.code_len) /\ n \in Nat
    BY DEF Finished
  <1>2. ASSUME NEW j \in 1 .. n
        PROVE  /\ InsnEip(b, j) \in Nat /\ Code[InsnEip(b, j)].len \in Nat
               /\ end(j) = InsnEip(b, j) + Code[InsnEip(b, j)].len
    <2>1. LaidInsn(b, j, To(b, n, b.code_len, j))
      BY <1>1 DEF Laid
    <2>2. InsnEip(b, j) \in Insns
          /\ end(j) = InsnEip(b, j) + Code[InsnEip(b, j)].len
      BY <2>1 DEF LaidInsn
    <2>3. InsnEip(b, j) \in Nat /\ Code[InsnEip(b, j)].len \in Nat
      BY <2>2, InsnLen
    <2>4. QED
      BY <2>2, <2>3
  <1>3. hit(i)
    BY <1>2
  <1>4. \A j \in 1 .. i - 1 : ~hit(j)
    <2> SUFFICES ASSUME NEW j \in 1 .. i - 1 PROVE ~hit(j)
      OBVIOUS
    <2>1. j \in 1 .. n /\ j < i
      BY <1>1
    <2>2. InsnEip(b, j) + Code[InsnEip(b, j)].len <= InsnEip(b, i)
      BY <1>1, <2>1 DEF Laid
    <2>3. /\ end(j) = InsnEip(b, j) + Code[InsnEip(b, j)].len
          /\ end(j) \in Nat /\ InsnEip(b, i) \in Nat
      BY <1>2, <2>1
    <2> HIDE DEF end
    <2>4. end(j) <= eip
      BY <2>2, <2>3
    <2>5. QED
      BY <2>3, <2>4
  <1>5. ASSUME NEW j \in 1 .. n, hit(j), \A k \in 1 .. j - 1 : ~hit(k)
        PROVE  j = i
    <2>1. ~(j < i)
      BY <1>1, <1>4, <1>5
    <2>2. ~(i < j)
      BY <1>1, <1>3, <1>5
    <2>3. QED
      BY <1>1, <2>1, <2>2
  <1> DEFINE S    == {j \in 1 .. n : hit(j) /\ \A k \in 1 .. j - 1 : ~hit(k)}
             tc(j) == b.tc_boundaries[j] + (eip - InsnEip(b, j))
  <1>6. EipVirtToTcPtr(b, eip) = {tc(j) : j \in S}
    BY Zenon DEF EipVirtToTcPtr
  <1> HIDE DEF hit
  <1>7. S = {i}
    BY <1>3, <1>4, <1>5
  <1> HIDE DEF S, tc
  <1>8. EipVirtToTcPtr(b, eip) = {tc(i)}
    BY <1>6, <1>7
  <1>9. QED
    BY <1>8 DEF tc, From

\* eip_virt_to_tc_ptr enters every block in front of all code of the
\* instruction it is asked for, and a copied instruction at any byte of it.
THEOREM EntriesLand == Spec => []EntryLands
  <1> DEFINE Lands(b, a) ==
        /\ a # b.eip_virt => \E off \in EipVirtToTcPtr(b, a) :
             /\ \E c \in PartsOf(b, a) : c.lo = off
             /\ \A c \in PartsOf(b, a) : c.lo >= off
        /\ \A c \in PartsOf(b, a) :
             (c.kind = "copy" /\ c.hi = c.lo + Code[a].len
                /\ \A d \in PartsOf(b, a) \ {c} : d.lo = d.hi) =>
               \A k \in 1 .. Code[a].len - 1 :
                 EipVirtToTcPtr(b, a + k) = {c.lo + k}
  <1>1. ASSUME NEW b, Finished(b), NEW c \in b.tc, c.kind # "count"
        PROVE  Lands(b, c.eip)
    <2> DEFINE n  == b.num_insns
               a  == c.eip
    <2>1. PICK i \in 1 .. n, m \in Int :
            /\ a = InsnEip(b, i)
            /\ From(b, i) \in Nat /\ To(b, n, b.code_len, i) \in Nat
            /\ From(b, i) <= m /\ m <= To(b, n, b.code_len, i)
            /\ PartsOf(b, a) = {Part(a, "ins", From(b, i), m),
                                Part(a, Kind(a), m, To(b, n, b.code_len, i))}
            /\ c \in PartsOf(b, a)
      BY <1>1, PartOfInsn
    <2> DEFINE from == From(b, i)
               to   == To(b, n, b.code_len, i)
               ins  == Part(a, "ins", from, m)
               out  == Part(a, Kind(a), m, to)
    <2>2. /\ ins \in PartsOf(b, a) /\ ins.lo = from /\ ins.hi = m
          /\ ins.kind = "ins"
          /\ out.lo = m /\ out.hi = to /\ out.kind \in {"rule", "copy"}
          /\ PartsOf(b, a) = {ins, out}
      BY <2>1 DEF Part, Kind
    <2>3. a \in Nat /\ Code[a].len \in Nat \ {0}
      <3>1. Laid(b, n, b.code_len)
        BY <1>1 DEF Finished
      <3>2. InsnEip(b, i) \in Insns
        BY <3>1 DEF Laid, LaidInsn
      <3>3. QED
        BY <2>1, <3>2, InsnLen
    <2>4. ASSUME NEW k \in 0 .. Code[a].len - 1
          PROVE  EipVirtToTcPtr(b, a + k) = {from + k}
      <3>1. a + k \in Nat /\ a <= a + k /\ a + k < a + Code[a].len
            /\ (a + k) - a = k
        BY <2>3
      <3>2. EipVirtToTcPtr(b, a + k) = {from + ((a + k) - a)}
        BY <1>1, <2>1, <3>1, LandedInsn
      <3>3. QED
        BY <3>1, <3>2
    <2> HIDE DEF ins, out
    <2>5. a # b.eip_virt => \E off \in EipVirtToTcPtr(b, a) :
            /\ \E d \in PartsOf(b, a) : d.lo = off
            /\ \A d \in PartsOf(b, a) : d.lo >= off
      <3>1. EipVirtToTcPtr(b, a) = {from}
        <4>1. 0 \in 0 .. Code[a].len - 1 /\ a + 0 = a /\ from + 0 = from
          BY <2>1, <2>3
        <4>2. QED
          BY <2>4, <4>1
      <3>2. \A d \in PartsOf(b, a) : d.lo >= from
        BY <2>1, <2>2
      <3>3. QED
        BY <2>2, <3>1, <3>2
    <2>6. ASSUME NEW d \in PartsOf(b, a), d.kind = "copy",
                 d.hi = d.lo + Code[a].len,
                 \A e \in PartsOf(b, a) \ {d} : e.lo = e.hi,
                 NEW k \in 1 .. Code[a].len - 1
          PROVE  EipVirtToTcPtr(b, a + k) = {d.lo + k}
      <3>1. d = out /\ ins # d
        BY <2>2, <2>6
      <3>2. d.lo = from
        BY <2>2, <2>6, <3>1
      <3>3. k \in 0 .. Code[a].len - 1
        BY <2>3
      <3>4. QED
        BY <2>4, <3>2, <3>3
    <2>7. QED
      BY <2>5, <2>6
  <1>2. LaidInv => EntryLands
    <2> SUFFICES ASSUME LaidInv, NEW b \in tbs, NEW c0 \in b.tc
                 PROVE  Lands(b, c0.eip)
      BY DEF EntryLands
    <2>1. Finished(b)
      BY DEF LaidInv
    <2>2. CASE \E c \in b.tc : c.kind # "count" /\ c.eip = c0.eip
      BY <1>1, <2>1, <2>2
    <2>3. CASE ~ \E c \in b.tc : c.kind # "count" /\ c.eip = c0.eip
      <3>1. c0.eip = b.eip_virt
        BY <2>1, <2>3 DEF Finished, Laid
      <3>2. PartsOf(b, c0.eip) = {}
        BY <2>3 DEF PartsOf
      <3>3. QED
        BY <3>1, <3>2
    <2>4. QED
      BY <2>2, <2>3
  <1>3. QED
    BY <1>2, LayInvariance, PTL

----------------------------------------------------------------------------
\* The entries of the module's exception table.

LEMMA ExWrite ==
  ASSUME IInv, SizeInv, LayInv, ExInv, Write
  PROVE  LET b2 == Written(ptr)
         IN  /\ extable' \in Seq([tb : Nat, off : Nat, fixup : Insns])
             /\ Entries \subseteq Entries'
             /\ Len(extable') < MaxEx =>
                  /\ Len(extable) < MaxEx
                  /\ \A i \in 1 .. n_in + 1 :
                       Code[InsnEip(b2, i)].fix => Entry(b2, i) \in Entries'
             /\ \A e \in Entries' :
                  \/ \E b \in tbs : EntryOf(e, b, b.num_insns)
                  \/ EntryOf(e, b2, n_in + 1)
  <1> DEFINE b2  == Written(ptr)
             new == [tb |-> tb.eip_virt, off |-> optr, fixup |-> ptr]
             ex  == extable'
  <1>1. /\ ptr \in Insns /\ optr \in Nat /\ n_in \in Nat /\ MaxEx \in Nat
        /\ tb.eip_virt \in Nat /\ pc = "write"
    BY WriteAdvance, CodeAssumption DEF Write, IInv, TypeInv, TbOK
  <1>2. /\ b2.eip_virt = tb.eip_virt
        /\ InsnEip(b2, n_in + 1) = ptr /\ From(b2, n_in + 1) = optr
        /\ \A i \in 1 .. n_in : InsnEip(b2, i) = InsnEip(tb, i)
                                /\ From(b2, i) = From(tb, i)
    BY WrittenLaid
  <1> HIDE DEF b2
  <1>3. Entry(b2, n_in + 1) = new
        /\ \A i \in 1 .. n_in : Entry(b2, i) = Entry(tb, i)
    BY <1>2 DEF Entry
  <1>4. extable \in Seq([tb : Nat, off : Nat, fixup : Insns])
        /\ new \in [tb : Nat, off : Nat, fixup : Insns]
    BY <1>1 DEF ExInv
  <1>5. ex = IF Code[ptr].fix /\ Len(extable) < MaxEx THEN Append(extable, new)
             ELSE extable
    BY DEF Write, WithEntry
  <1> HIDE DEF new, ex
  <1>6. /\ ex \in Seq([tb : Nat, off : Nat, fixup : Insns])
        /\ Entries \subseteq {ex[i] : i \in 1 .. Len(ex)}
        /\ {ex[i] : i \in 1 .. Len(ex)} \subseteq Entries \cup {new}
        /\ Len(ex) < MaxEx =>
             /\ Len(extable) < MaxEx
             /\ Code[ptr].fix => new \in {ex[i] : i \in 1 .. Len(ex)}
    <2>1. CASE Code[ptr].fix /\ Len(extable) < MaxEx
      <3>1. /\ ex \in Seq([tb : Nat, off : Nat, fixup : Insns])
            /\ Len(ex) = Len(extable) + 1 /\ ex[Len(extable) + 1] = new
            /\ \A i \in 1 .. Len(extable) : ex[i] = extable[i]
            /\ Len(extable) \in Nat
        BY <1>4, <1>5, <2>1
      <3>2. 1 .. Len(ex) = 1 .. Len(extable) \cup {Len(extable) + 1}
        BY <3>1
      <3>3. {ex[i] : i \in 1 .. Len(ex)} = Entries \cup {new}
        BY <3>1, <3>2, SMTT(30) DEF Entries
      <3>4. QED
        BY <2>1, <3>1, <3>3
    <2>2. CASE ~(Code[ptr].fix /\ Len(extable) < MaxEx)
      <3>1. ex = extable
        BY <1>5, <2>2
      <3>2. QED
        BY <1>4, <2>2, <3>1 DEF Entries
    <2>3. QED
      BY <2>1, <2>2
  <1>7. Entries' = {ex[i] : i \in 1 .. Len(ex)}
    BY DEF Entries, ex
  <1>8. ASSUME Len(ex) < MaxEx, NEW i \in 1 .. n_in + 1,
               Code[InsnEip(b2, i)].fix
        PROVE  Entry(b2, i) \in Entries'
    <2>1. CASE i = n_in + 1
      BY <1>2, <1>3, <1>6, <1>7, <1>8, <2>1
    <2>2. CASE i # n_in + 1
      <3>1. i \in 1 .. n_in
        BY <1>1, <2>2
      <3>2. Entry(tb, i) \in Entries
        BY <1>1, <1>2, <1>6, <1>8, <3>1 DEF ExInv, EntriesMade
      <3>3. QED
        BY <1>3, <1>6, <1>7, <3>1, <3>2
    <2>3. QED
      BY <2>1, <2>2
  <1>9. ASSUME NEW e \in Entries'
        PROVE  \/ \E b \in tbs : EntryOf(e, b, b.num_insns)
               \/ EntryOf(e, b2, n_in + 1)
    <2>1. n_in + 1 \in 1 .. n_in + 1 /\ 1 .. n_in \subseteq 1 .. n_in + 1
      BY <1>1
    <2>2. CASE e = new
      BY <1>3, <2>1, <2>2 DEF EntryOf
    <2>3. CASE e \in Entries
      <3>1. CASE \E b \in tbs : EntryOf(e, b, b.num_insns)
        BY <3>1
      <3>2. CASE EntryOf(e, tb, n_in)
        BY <1>3, <2>1, <3>2 DEF EntryOf
      <3>3. QED
        BY <2>3, <3>1, <3>2 DEF ExInv
    <2>4. QED
      BY <1>6, <1>7, <2>2, <2>3
  <1>10. QED
    BY <1>6, <1>7, <1>8, <1>9 DEF b2, ex

LEMMA ExStep ==
  IInv /\ SizeInv /\ LayInv /\ ExInv /\ [Next]_vars => ExInv'
  <1> SUFFICES ASSUME IInv, SizeInv, LayInv, ExInv, [Next]_vars PROVE ExInv'
    OBVIOUS
  <1>1. CASE Write
    <2> DEFINE b2 == Written(ptr)
    <2>1. /\ extable' \in Seq([tb : Nat, off : Nat, fixup : Insns])
          /\ Entries \subseteq Entries'
          /\ Len(extable') < MaxEx =>
               /\ Len(extable) < MaxEx
               /\ \A i \in 1 .. n_in + 1 :
                    Code[InsnEip(b2, i)].fix => Entry(b2, i) \in Entries'
          /\ \A e \in Entries' :
               \/ \E b \in tbs : EntryOf(e, b, b.num_insns)
               \/ EntryOf(e, b2, n_in + 1)
      BY <1>1, ExWrite
    <2>2. Len(extable') < MaxEx =>
            \A b \in tbs : EntriesMade(b, b.num_insns)'
      BY <2>1 DEF ExInv, EntriesMade
    <2>3. n_in' = n_in + 1
      BY <1>1 DEF Write, Advance
    <2>4. CASE ~Terminates(ptr)
      <3>1. tb' = b2 /\ tbs' = tbs /\ pc' = "write"
        BY <1>1, <2>4 DEF Write
      <3> HIDE DEF b2
      <3>2. Len(extable') < MaxEx =>
              (\A b \in tbs : EntriesMade(b, b.num_insns))'
              /\ EntriesMade(tb, n_in)'
        BY <2>1, <2>2, <2>3, <3>1 DEF EntriesMade
      <3>3. QED
        BY <2>1, <2>3, <3>1, <3>2 DEF ExInv
    <2>5. CASE Terminates(ptr)
      <3>1. PICK b3 : /\ tbs' = tbs \cup {b3} /\ pc' = "idle"
                      /\ b3.num_insns = n_in + 1
                      /\ b3.eip_virt = tb.eip_virt
                      /\ \A i \in 1 .. n_in + 1 :
                           /\ InsnEip(b3, i) = InsnEip(b2, i)
                           /\ From(b3, i) = From(b2, i)
        BY <1>1, <2>5, BlockDone
      <3>2. b2.eip_virt = tb.eip_virt
        BY <1>1, WrittenLaid
      <3> HIDE DEF b2
      <3>3. \A i \in 1 .. n_in + 1 : /\ Entry(b3, i) = Entry(b2, i)
                                     /\ InsnEip(b3, i) = InsnEip(b2, i)
        BY <3>1, <3>2 DEF Entry
      <3>4. Len(extable') < MaxEx => EntriesMade(b3, b3.num_insns)'
        BY <2>1, <3>1, <3>3 DEF EntriesMade
      <3>5. Len(extable') < MaxEx =>
              (\A b \in tbs : EntriesMade(b, b.num_insns))'
        BY <2>2, <3>1, <3>4
      <3>6. \A e \in Entries' : \E b \in tbs' : EntryOf(e, b, b.num_insns)
        <4>1. \A e : EntryOf(e, b2, n_in + 1) => EntryOf(e, b3, b3.num_insns)
          BY <3>1, <3>3 DEF EntryOf
        <4>2. QED
          BY <2>1, <3>1, <4>1
      <3>7. QED
        BY <2>1, <3>1, <3>5, <3>6 DEF ExInv
    <2>6. QED
      BY <2>4, <2>5
  <1>2. ASSUME UNCHANGED <<tbs, extable>>,
               pc' = "write" => \/ n_in' = 0 /\ pc # "write"
                                \/ UNCHANGED <<pc, tb, n_in>>,
               pc = "write" => pc' = "write"
        PROVE  ExInv'
    <2>1. Entries' = Entries
      BY <1>2 DEF Entries
    <2>2. CASE n_in' = 0 /\ pc # "write"
      BY <1>2, <2>1, <2>2 DEF ExInv, EntriesMade
    <2>3. CASE UNCHANGED <<pc, tb, n_in>>
      BY <1>2, <2>1, <2>3 DEF ExInv, EntriesMade
    <2>4. CASE pc' # "write"
      BY <1>2, <2>1, <2>4 DEF ExInv, EntriesMade
    <2>5. QED
      BY <1>2, <2>2, <2>3, <2>4
  <1>3. CASE ~Write
    <2>1. CASE Alloc
      BY <1>2, <2>1 DEF Alloc, StartPass
    <2>2. CASE Measure
      BY <1>2, <2>2 DEF Measure
    <2>3. CASE TooLong \/ \E p \in Cpus, a \in Starts : Begin(p, a)
      BY <1>2, <2>3 DEF TooLong, Begin
    <2>4. CASE UNCHANGED <<pc, passVars, tb, tbs, extable>>
      BY <1>2, <2>4 DEF passVars
    <2>5. QED
      BY <1>3, <2>1, <2>2, <2>3, <2>4
         DEF Next, InitDone, LoadIdt, SetLoaded, LoadNative, vars
  <1>4. QED
    BY <1>1, <1>3

LEMMA ExInvariance == Spec => []ExInv
  <1>1. Init => ExInv
    BY DEF Init, ExInv, Entries
  <1>2. QED
    BY <1>1, ExStep, LayInvariance, PTL DEF Spec

\* Where an entry is: at the copy of its instruction, or instrumentation.
LEMMA EntryPlace ==
  ASSUME NEW b, NEW n \in Nat, NEW end, Laid(b, n, end), NEW i \in 1 .. n
  PROVE  \/ \E c \in PartsOf(b, InsnEip(b, i)) : c.kind # "ins" /\ c.lo = From(b, i)
         \/ Instrumented(b, InsnEip(b, i))
  <1> DEFINE a    == InsnEip(b, i)
             to   == To(b, n, end, i)
             from == From(b, i)
  <1>1. PICK m \in from .. to :
          PartsOf(b, a) = {Part(a, "ins", from, m), Part(a, Kind(a), m, to)}
    BY DEF Laid, LaidInsn
  <1>2. from \in Nat
    BY DEF Laid, From
  <1>3. CASE m = from
    <2>1. /\ Part(a, Kind(a), m, to) \in PartsOf(b, a)
          /\ Part(a, Kind(a), m, to).kind # "ins"
          /\ Part(a, Kind(a), m, to).lo = from
      BY <1>1, <1>3 DEF Part, Kind
    <2>2. QED
      BY <2>1
  <1>4. CASE m # from
    <2>1. from < m
      BY <1>1, <1>2, <1>4
    <2>2. /\ Part(a, "ins", from, m) \in PartsOf(b, a)
          /\ Part(a, "ins", from, m).kind = "ins"
          /\ Part(a, "ins", from, m).lo = from /\ Part(a, "ins", from, m).hi = m
      BY <1>1 DEF Part
    <2>3. QED
      BY <2>1, <2>2 DEF Instrumented
  <1>5. QED
    BY <1>3, <1>4

\* Every expected fault of an instruction that is not instrumented has its
\* entry while the module's exception table has room, and every entry is the
\* place of an instruction it was made for.
THEOREM FaultsFixed == Spec => []FaultFixed
  <1>1. ASSUME LaidInv, ExInv, Len(extable) < MaxEx, NEW b \in tbs,
               NEW c \in b.tc, c.kind \in {"rule", "copy"}, Code[c.eip].fix,
               ~Instrumented(b, c.eip)
        PROVE  [tb |-> b.eip_virt, off |-> c.lo, fixup |-> c.eip] \in Entries
    <2> DEFINE a == c.eip
    <2>1. Finished(b) /\ c.kind # "count"
      BY <1>1 DEF LaidInv
    <2>2. PICK i \in 1 .. b.num_insns, m \in Int :
            /\ a = InsnEip(b, i) /\ From(b, i) \in Nat /\ From(b, i) <= m
            /\ PartsOf(b, a)
                 = {Part(a, "ins", From(b, i), m),
                    Part(a, Kind(a), m, To(b, b.num_insns, b.code_len, i))}
            /\ c \in PartsOf(b, a)
      BY <2>1, PartOfInsn
    <2>3. c.lo = m
      BY <1>1, <2>2 DEF Part
    <2>4. ~(From(b, i) < m)
      <3>1. /\ Part(a, "ins", From(b, i), m) \in PartsOf(b, a)
            /\ Part(a, "ins", From(b, i), m).kind = "ins"
            /\ Part(a, "ins", From(b, i), m).lo = From(b, i)
            /\ Part(a, "ins", From(b, i), m).hi = m
        BY <2>2 DEF Part
      <3>2. QED
        BY <1>1, <3>1 DEF Instrumented
    <2>5. From(b, i) = c.lo
      BY <2>2, <2>3, <2>4
    <2>6. Entry(b, i) \in Entries
      BY <1>1, <2>2 DEF ExInv, EntriesMade
    <2>7. QED
      BY <2>2, <2>5, <2>6 DEF Entry
  <1>2. ASSUME IInv, LayInv, LaidInv, ExInv, NEW e \in Entries
        PROVE  \E b \in tbs \cup {tb} :
                 /\ b.eip_virt = e.tb
                 /\ \/ \E c \in PartsOf(b, e.fixup) :
                         c.kind # "ins" /\ c.lo = e.off
                    \/ Instrumented(b, e.fixup)
    <2>1. PICK b \in tbs \cup {tb}, n \in Nat, end \in Nat :
            Laid(b, n, end) /\ EntryOf(e, b, n)
      <3>1. CASE \E b \in tbs : EntryOf(e, b, b.num_insns)
        BY <1>2, <3>1 DEF LaidInv, Finished
      <3>2. CASE pc = "write" /\ EntryOf(e, tb, n_in)
        <4>1. /\ Laid(tb, n_in, optr) /\ n_in \in Nat
              /\ n_in < tb.num_insns /\ Here = measured[n_in + 1]
              /\ tb.num_insns = Len(measured) /\ measured \in Seq(Pos)
          BY <1>2, <3>2
             DEF LayInv, IInv, TypeInv, WriteInv, MeasuredInv
        <4>2. optr \in Nat
          <5>1. n_in + 1 \in 1 .. Len(measured)
            BY <1>2, <4>1 DEF IInv, TypeInv, TbOK
          <5>2. QED
            BY <4>1, <5>1, PosParts DEF Here
        <4>3. QED
          BY <3>2, <4>1, <4>2
      <3>3. QED
        BY <1>2, <3>1, <3>2 DEF ExInv
    <2>2. PICK i \in 1 .. n : e = Entry(b, i)
      BY <2>1 DEF EntryOf
    <2>3. e.tb = b.eip_virt /\ e.off = From(b, i) /\ e.fixup = InsnEip(b, i)
      BY <2>2 DEF Entry
    <2>4. \/ \E c \in PartsOf(b, e.fixup) : c.kind # "ins" /\ c.lo = e.off
          \/ Instrumented(b, e.fixup)
      BY <2>1, <2>3, EntryPlace
    <2>5. QED
      BY <2>3, <2>4
  <1>3. IInv /\ LayInv /\ LaidInv /\ ExInv => FaultFixed
    BY <1>1, <1>2 DEF FaultFixed, Entries
  <1>4. QED
    BY <1>3, LayInvariance, ExInvariance, PTL

=============================================================================
