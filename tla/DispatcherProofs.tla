-------------------------- MODULE DispatcherProofs --------------------------
(***************************************************************************)
(* The dispatcher is correct for every guest program, every number of      *)
(* processors and every set of vectors: the translation lock excludes, a   *)
(* processor never waits for itself, branches, tables and processors lead  *)
(* to finished code only, which is generated once, and translated          *)
(* execution is native execution.  Blocks are kept in an order, with every *)
(* entry into the middle of one recorded, and the prologues behind the     *)
(* shadow table stay in translated code.                                   *)
(***************************************************************************)
EXTENDS Dispatcher, TLAPS

\* A processor in the monitor, from the time it has read its call.
Busy == Locked \cup {"lock", "cache", "patch", "resume"}

\* It knows the address to go to.
Mapped == {"disown", "unlock", "cache", "patch", "resume"}

\* While a page fault is handled only translated code runs, or nothing.
NestInv ==
  \A p \in Cpus : Nested(p) => phase = "run" /\ pc[p] \in {"guest", "monitor",
                                                           "fatal"}

\* One processor builds the shadow table, the others wait for it.
BootInv ==
  /\ phase = "idt" => /\ pc[Boot] \in Busy \cup {"boot"}
                      /\ \A p \in Cpus \ {Boot} : pc[p] = "native"
  /\ phase = "run" => \A p \in Cpus : pc[p] # "boot"

\* The handler of a vector is translated.
IdtDone(h) == idt[h].eip = h /\ Valid(idt[h])

\* It is being translated.
IdtDoing(h) == /\ phase = "idt" /\ pc[Boot] # "boot"
               /\ prev_tb[Boot] = NoSlot /\ eip[Boot] = h

IdtInv ==
  /\ \A h \in Handlers : h \in idtTodo \/ IdtDoing(h) \/ IdtDone(h)
  /\ phase = "run" => \A h \in Handlers : IdtDone(h)

StoreInv == \A b \in jumptable2 : tbs[b] = "coded"

\* The call a processor is serving.
CallOK(p) ==
  /\ pc[p] = "monitor" /\ edge[p] # NoSlot => edge[p].to = tx_target[p].eip
  /\ Inside(p) \in Busy /\ prev_tb[p] # NoSlot => prev_tb[p].to = eip[p]
  /\ Inside(p) \in {"place", "emit", "publish"} =>
       cur[p] = eip[p] /\ Hits(eip[p]) = {}
  /\ Inside(p) = "publish" => tbs[cur[p]] = "coded"
  /\ Inside(p) = "map" => cur[p] \in jumptable2 /\ eip[p] \in Run[cur[p]]
  /\ pc[p] \in Mapped => tc_offset[p].eip = eip[p] /\ Valid(tc_offset[p])

CallInv == \A p \in Cpus : CallOK(p)

IInv == /\ TypeOK /\ LockProtocol /\ NestInv /\ BootInv /\ IdtInv
        /\ StoreInv /\ CallInv /\ ChainSound /\ CacheSound /\ ExecSound

----------------------------------------------------------------------------
(* Straight lines, locations and slots.                                    *)

LEMMA RunSelf == \A e \in Eips : e \in Run[e]
  BY GuestAssumption DEF Run

\* The rest of a straight line from one of its instructions.
LEMMA RunSuffix ==
  ASSUME NEW b \in Eips, NEW e \in Run[b], NEW i \in Run[e]
  PROVE  i \in Run[b] /\ e \in Eips
  <1>1. e \in Eips
    BY DEF Run
  <1>2. i \in Eips /\ b <= e /\ e <= i
    BY <1>1 DEF Run
  <1>3. ASSUME NEW t \in Term, b <= t, t < i
        PROVE  FALSE
    <2>1. b \in Nat /\ e \in Nat /\ i \in Nat /\ t \in Nat
      BY <1>1, <1>2, GuestAssumption
    <2>2. CASE t < e
      BY <1>3, <2>2 DEF Run
    <2>3. CASE e <= t
      BY <1>1, <1>3, <2>3 DEF Run
    <2>4. QED
      BY <2>1, <2>2, <2>3
  <1>4. b <= i
    BY <1>1, <1>2, GuestAssumption
  <1>5. QED
    BY <1>1, <1>2, <1>3, <1>4 DEF Run

\* A branch taken from code that was entered at a valid location.
LEMMA ValidSlot ==
  ASSUME TypeOK, NEW l, Valid(l), NEW i \in Run[l.eip], NEW t \in Succ[i]
  PROVE  [tb |-> l.tb, from |-> i, to |-> t] \in Slot
  <1>1. l.tb \in Eips /\ l.eip \in Run[l.tb]
    BY DEF Valid, TypeOK
  <1>2. i \in Run[l.tb] /\ l.eip \in Eips
    BY <1>1, RunSuffix
  <1>3. i \in Eips
    BY <1>1, <1>2 DEF Run
  <1>4. t \in Eips
    BY <1>3, GuestAssumption
  <1>5. QED
    BY <1>1, <1>2, <1>3, <1>4 DEF Slot

LEMMA EdgesFromSlot ==
  ASSUME TypeOK, NEW l, Valid(l)
  PROVE  EdgesFrom(l) \subseteq Slot
  <1>1. l.tb \in Eips /\ l.eip \in Run[l.tb]
    BY DEF Valid, TypeOK
  <1>2. l.eip \in Eips
    BY <1>1 DEF Run
  <1>3. BeforePushEs[l.eip] \subseteq Run[l.eip]
    BY <1>2 DEF BeforePushEs
  <1>4. QED
    BY <1>3, ValidSlot DEF EdgesFrom

LEMMA SlotLoc ==
  /\ \A s \in Slot : s.tb \in Eips /\ s.from \in Eips /\ s.to \in Eips
  /\ NoSlot \notin Slot /\ Unpatched \notin Loc
  BY SlotAssumption DEF Slot

----------------------------------------------------------------------------
LEMMA InitInv == Init => IInv
  <1> SUFFICES ASSUME Init PROVE IInv
    OBVIOUS
  <1> USE DispatchAssumption, GuestAssumption, SlotAssumption DEF Init
  <1>1. TypeOK
    BY DEF TypeOK, Loc, Pcs
  <1>2. LockProtocol
    BY DEF LockProtocol, Inside, Nested, Locked, Owned
  <1>3. NestInv /\ BootInv
    BY DEF NestInv, BootInv, Nested
  <1>4. IdtInv /\ StoreInv
    BY DEF IdtInv, StoreInv
  <1>5. CallInv
    BY DEF CallInv, CallOK, Inside, Nested, Busy, Locked, Owned, Mapped
  <1>6. ChainSound /\ CacheSound /\ ExecSound
    BY DEF ChainSound, CacheSound, ExecSound
  <1>7. QED
    BY <1>1, <1>2, <1>3, <1>4, <1>5, <1>6 DEF IInv

----------------------------------------------------------------------------
LEMMA BootTypeStep ==
  ASSUME IInv, NEW p \in Cpus, Booting(p)
  PROVE  TypeOK'
  <1> USE DEF TypeOK, Transfer, Pcs, lockVars, storeVars, bootVars, guestVars,
              callVars
  <1>0. TypeOK
    BY DEF IInv
  <1>1. CASE IdtEntry(p)
    BY <1>0, <1>1, DispatchAssumption, GuestAssumption DEF IdtEntry
  <1>2. CASE WalkEdge(p)
    BY <1>0, <1>2, SlotLoc DEF WalkEdge
  <1>3. CASE WalkChained(p)
    <2>1. PICK s \in walk : /\ chain[s] # Unpatched
                            /\ walk' = (walk \ {s}) \cup EdgesFrom(chain[s])
      BY <1>3 DEF WalkChained
    <2>2. Valid(chain[s])
      BY <1>0, <2>1 DEF IInv, ChainSound
    <2>3. EdgesFrom(chain[s]) \subseteq Slot
      BY <1>0, <2>2, EdgesFromSlot
    <2>4. QED
      BY <1>0, <1>3, <2>1, <2>3 DEF WalkChained
  <1>4. CASE BootReturn(p)
    <2>1. Valid(tc_offset[p])
      BY <1>4 DEF BootReturn, IInv, CallInv, CallOK, Mapped
    <2>2. EdgesFrom(tc_offset[p]) \subseteq Slot
      BY <1>0, <2>1, EdgesFromSlot
    <2>3. idt' \in [Handlers -> Loc]
      BY <1>0, <1>4 DEF BootReturn
    <2>4. QED
      BY <1>0, <1>4, <2>2, <2>3 DEF BootReturn
  <1>5. CASE BootDone(p)
    BY <1>0, <1>5 DEF BootDone
  <1>6. QED
    BY <1>1, <1>2, <1>3, <1>4, <1>5 DEF Booting

LEMMA GuestTypeStep ==
  ASSUME IInv, NEW p \in Cpus, Guest(p)
  PROVE  TypeOK'
  <1> USE DEF TypeOK, Transfer, Pcs, lockVars, storeVars, bootVars, guestVars,
              callVars
  <1>0. TypeOK /\ (pc[p] = "guest" => Valid(at[p]))
    BY DEF IInv, ExecSound
  <1>1. CASE EnterGuest(p)
    BY <1>0, <1>1 DEF EnterGuest
  <1>2. CASE DirectJump(p)
    <2>1. PICK i \in Run[at[p].eip] : \E t \in Succ[i] :
            LET s == [tb |-> at[p].tb, from |-> i, to |-> t]
            IN  /\ chain[s] # Unpatched
                /\ at' = [at EXCEPT ![p] = chain[s]]
      BY <1>2 DEF DirectJump
    <2>2. \A t \in Succ[i] : [tb |-> at[p].tb, from |-> i, to |-> t] \in Slot
      BY <1>0, <1>2, ValidSlot DEF DirectJump
    <2>3. QED
      BY <1>0, <1>2, <2>1, <2>2 DEF DirectJump
  <1>3. CASE DirectExit(p)
    <2>1. PICK i \in Run[at[p].eip] : \E t \in Succ[i] :
            LET s == [tb |-> at[p].tb, from |-> i, to |-> t]
            IN  /\ edge' = [edge EXCEPT ![p] = s]
                /\ tx_target' =
                     [tx_target EXCEPT ![p] = [tb |-> Native, eip |-> t]]
      BY <1>3 DEF DirectExit
    <2>2. \A t \in Succ[i] :
            [tb |-> at[p].tb, from |-> i, to |-> t] \in Slot /\ t \in Eips
      BY <1>0, <1>3, ValidSlot, SlotLoc DEF DirectExit
    <2>3. \A t \in Succ[i] : [tb |-> Native, eip |-> t] \in Loc
      BY <2>2 DEF Loc
    <2>4. QED
      BY <1>0, <1>3, <2>1, <2>2, <2>3 DEF DirectExit
  <1>4. CASE IndirectHit(p)
    <2>1. PICK entry \in jumptable1[p] :
            /\ tx_target' = [tx_target EXCEPT ![p] = entry.tc]
            /\ at' = [at EXCEPT ![p] = entry.tc]
            /\ \E cache \in AfterHit(jumptable1[p], entry) :
                 jumptable1' = [jumptable1 EXCEPT ![p] = cache]
      BY <1>4 DEF IndirectHit
    <2>2. entry.tc \in Loc
      BY <1>0, <2>1
    <2>3. \A cache \in AfterHit(jumptable1[p], entry) :
            cache \in SUBSET [eip : Eips, tc : Loc]
      BY <1>0 DEF AfterHit
    <2>4. QED
      BY <1>0, <1>4, <2>1, <2>2, <2>3 DEF IndirectHit
  <1>5. CASE IndirectMiss(p)
    <2>1. PICK i \in Run[at[p].eip] : \E t \in Indirect[i] :
            tx_target' = [tx_target EXCEPT ![p] = [tb |-> Native, eip |-> t]]
      BY <1>5 DEF IndirectMiss
    <2>2. at[p].eip \in Eips
      BY <1>0 DEF Loc
    <2>3. i \in Eips
      BY <2>2 DEF Run
    <2>4. \A t \in Indirect[i] : [tb |-> Native, eip |-> t] \in Loc
      BY <2>3, GuestAssumption DEF Loc
    <2>5. QED
      BY <1>0, <1>5, <2>1, <2>4 DEF IndirectMiss
  <1>6. CASE Return(p)
    BY <1>0, <1>6 DEF Return
  <1>7. QED
    BY <1>1, <1>2, <1>3, <1>4, <1>5, <1>6 DEF Guest

LEMMA MonitorTypeStep ==
  ASSUME IInv, NEW p \in Cpus,
         Monitor(p) \/ Lock(p) \/ Fault(p) \/ FaultReturn(p)
  PROVE  TypeOK'
  <1> USE DEF TypeOK, Transfer, Pcs, lockVars, storeVars, bootVars, guestVars,
              callVars
  <1>0. TypeOK
    BY DEF IInv
  <1>1. CASE MonitorEntry(p)
    BY <1>0, <1>1 DEF MonitorEntry, Loc
  <1>2. CASE Reentry(p) \/ Lock(p) \/ Own(p)
    BY <1>0, <1>2 DEF Reentry, Lock, Own
  <1>3. CASE FindHit(p)
    BY <1>0, <1>3 DEF FindHit
  <1>4. CASE FindMiss(p)
    BY <1>0, <1>4 DEF FindMiss
  <1>5. CASE Place(p)
    BY <1>0, <1>5 DEF Place
  <1>6. CASE Emit(p)
    BY <1>0, <1>6 DEF Emit
  <1>7. CASE Publish(p)
    BY <1>0, <1>7 DEF Publish
  <1>8. CASE MapEip(p)
    BY <1>0, <1>8 DEF MapEip, Loc
  <1>9. CASE Disown(p) \/ Unlock(p)
    BY <1>0, <1>9 DEF Disown, Unlock
  <1>10. CASE CacheAdd(p)
    <2>1. PICK q \in Cpus :
            \E cache \in AfterAdd(jumptable1[q],
                           [eip |-> eip[p], tc |-> tc_offset[p]]) :
              jumptable1' = [jumptable1 EXCEPT ![q] = cache]
      BY <1>10 DEF CacheAdd
    <2>2. [eip |-> eip[p], tc |-> tc_offset[p]] \in [eip : Eips, tc : Loc]
      BY <1>0
    <2>3. \A cache \in AfterAdd(jumptable1[q],
                         [eip |-> eip[p], tc |-> tc_offset[p]]) :
            cache \in SUBSET [eip : Eips, tc : Loc]
      BY <1>0, <2>2 DEF AfterAdd
    <2>4. QED
      BY <1>0, <1>10, <2>1, <2>3 DEF CacheAdd
  <1>11. CASE Patch(p)
    BY <1>0, <1>11 DEF Patch
  <1>12. CASE Resume(p)
    BY <1>0, <1>12 DEF Resume
  <1>13. CASE Fault(p)
    BY <1>0, <1>13, DispatchAssumption DEF Fault, Faultable
  <1>14. CASE FaultReturn(p)
    BY <1>0, <1>14 DEF FaultReturn, Nested, Faultable
  <1>15. QED
    BY <1>1, <1>2, <1>3, <1>4, <1>5, <1>6, <1>7, <1>8, <1>9, <1>10, <1>11,
       <1>12, <1>13, <1>14 DEF Monitor, Translator

LEMMA TypeStep == IInv /\ [Next]_vars => TypeOK'
  <1> SUFFICES ASSUME IInv, [Next]_vars PROVE TypeOK'
    OBVIOUS
  <1>1. CASE UNCHANGED vars
    BY <1>1 DEF vars, IInv, TypeOK
  <1>2. CASE Next
    BY <1>2, BootTypeStep, GuestTypeStep, MonitorTypeStep DEF Next
  <1>3. QED
    BY <1>1, <1>2

----------------------------------------------------------------------------
(* Mutual exclusion.                                                       *)

\* A processor in the monitor entry routine does not hold the lock, one that
\* handles a fault does.
LEMMA LockFacts ==
  ASSUME IInv, NEW p \in Cpus
  PROVE  /\ Nested(p) => fault[p] \in Faultable /\ lock = p /\ lock_owner = p
         /\ ~Nested(p) => Inside(p) = pc[p]
         /\ p # NoCpu
  BY DispatchAssumption
     DEF IInv, TypeOK, LockProtocol, Inside, Nested, Owned, Locked, Faultable

\* What a step of processor p does to the lock, and to its own position.
LockEffect(p) ==
  /\ \A q \in Cpus \ {p} : pc'[q] = pc[q] /\ fault'[q] = fault[q]
  /\ \/ lock' = lock /\ (Inside(p)' \in Locked <=> Inside(p) \in Locked)
     \/ lock = NoCpu /\ lock' = p /\ Inside(p)' \in Locked
     \/ lock = p /\ lock' = NoCpu /\ Inside(p)' \notin Locked
  /\ \/ lock_owner' = lock_owner /\ (Inside(p)' \in Owned <=> Inside(p) \in Owned)
     \/ lock = p /\ lock_owner' = p /\ Inside(p)' \in Owned
     \/ lock_owner = p /\ lock_owner' = NoCpu /\ Inside(p)' \notin Owned

LEMMA LockEffects ==
  ASSUME IInv, [Next]_vars, ~UNCHANGED vars
  PROVE  \E p \in Cpus : LockEffect(p)
  <1> USE DEF Transfer, lockVars, storeVars, bootVars, guestVars, callVars,
              LockEffect, Inside, Nested, Locked, Owned
  <1>0. TypeOK
    BY DEF IInv
  <1>1. ASSUME NEW p \in Cpus, Booting(p) PROVE LockEffect(p)
    <2>1. ~Nested(p)
      BY <1>1, LockFacts
         DEF Booting, IdtEntry, WalkEdge, WalkChained, BootReturn, BootDone,
             IInv, NestInv
    <2>2. CASE WalkChained(p)
      BY <1>0, <2>1, <2>2 DEF WalkChained, TypeOK
    <2>3. CASE ~WalkChained(p)
      BY <1>0, <1>1, <2>1, <2>3
         DEF Booting, IdtEntry, WalkEdge, BootReturn, BootDone, TypeOK
    <2>4. QED
      BY <2>2, <2>3
  <1>2. ASSUME NEW p \in Cpus, Guest(p) PROVE LockEffect(p)
    <2>1. CASE EnterGuest(p)
      BY <1>0, <2>1 DEF EnterGuest, TypeOK, IInv, NestInv
    <2>2. CASE DirectJump(p) \/ IndirectHit(p)
      BY <1>0, <2>2 DEF DirectJump, IndirectHit, TypeOK
    <2>3. CASE DirectExit(p) \/ IndirectMiss(p) \/ Return(p)
      BY <1>0, <2>3 DEF DirectExit, IndirectMiss, Return, TypeOK
    <2>4. QED
      BY <1>2, <2>1, <2>2, <2>3 DEF Guest
  <1>3. ASSUME NEW p \in Cpus, Monitor(p) \/ Lock(p) PROVE LockEffect(p)
    <2>1. CASE MonitorEntry(p)
      BY <1>0, <2>1, LockFacts DEF MonitorEntry, TypeOK
    <2>2. CASE Reentry(p)
      BY <1>0, <2>2, LockFacts DEF Reentry, TypeOK, IInv, LockProtocol
    <2>3. ASSUME ~Nested(p) PROVE LockEffect(p)
      <3>1. CASE Lock(p) \/ Own(p) \/ FindHit(p) \/ FindMiss(p) \/ Place(p)
        BY <1>0, <2>3, <3>1, LockFacts
           DEF Lock, Own, FindHit, FindMiss, Place, TypeOK, IInv, LockProtocol
      <3>2. CASE Emit(p) \/ Publish(p) \/ MapEip(p) \/ Disown(p) \/ Unlock(p)
        BY <1>0, <2>3, <3>2, LockFacts
           DEF Emit, Publish, MapEip, Disown, Unlock, TypeOK, IInv,
               LockProtocol
      <3>3. CASE CacheAdd(p) \/ Patch(p) \/ Resume(p)
        BY <1>0, <2>3, <3>3 DEF CacheAdd, Patch, Resume, TypeOK
      <3>4. QED
        BY <1>3, <2>1, <2>2, <3>1, <3>2, <3>3 DEF Monitor, Translator
    <2>4. CASE Nested(p)
      <3>1. pc[p] \in {"guest", "monitor", "fatal"}
        BY <2>4 DEF IInv, NestInv
      <3>2. MonitorEntry(p) \/ Reentry(p)
        BY <1>3, <3>1
           DEF Monitor, Translator, Lock, Own, FindHit, FindMiss, Place, Emit,
               Publish, MapEip, Disown, Unlock, CacheAdd, Patch, Resume
      <3>3. QED
        BY <2>1, <2>2, <3>2
    <2>5. QED
      BY <2>3, <2>4
  <1>4. ASSUME NEW p \in Cpus, Fault(p) PROVE LockEffect(p)
    BY <1>0, <1>4 DEF Fault, TypeOK, Faultable
  <1>5. ASSUME NEW p \in Cpus, FaultReturn(p) PROVE LockEffect(p)
    BY <1>0, <1>5 DEF FaultReturn, TypeOK, Faultable
  <1>6. QED
    BY <1>1, <1>2, <1>3, <1>4, <1>5 DEF Next

LEMMA LockStep == IInv /\ [Next]_vars => LockProtocol'
  <1> SUFFICES ASSUME IInv, [Next]_vars PROVE LockProtocol'
    OBVIOUS
  <1>1. CASE UNCHANGED vars
    BY <1>1 DEF vars, IInv, LockProtocol, Inside, Nested
  <1>2. CASE ~UNCHANGED vars
    <2>1. PICK p \in Cpus : LockEffect(p)
      BY <1>2, LockEffects
    <2>2. \A q \in Cpus \ {p} : Inside(q)' = Inside(q)
      BY <2>1 DEF LockEffect, Inside, Nested
    <2>3. Owned \subseteq Locked
      BY DEF Owned, Locked
    <2>4. QED
      BY <2>1, <2>2, <2>3, DispatchAssumption
         DEF LockEffect, IInv, TypeOK, LockProtocol
  <1>3. QED
    BY <1>1, <1>2

----------------------------------------------------------------------------
(* What a step of one processor leaves alone.                              *)

LEMMA Exclusive ==
  ASSUME IInv, NEW p \in Cpus, NEW q \in Cpus,
         Inside(p) \in Locked, Inside(q) \in Locked
  PROVE  p = q
  BY DEF IInv, LockProtocol

\* The state of the other processors.
Frame(p) ==
  \A q \in Cpus \ {p} :
    /\ pc'[q] = pc[q] /\ fault'[q] = fault[q] /\ at'[q] = at[q]
    /\ tx_target'[q] = tx_target[q] /\ edge'[q] = edge[q]
    /\ eip'[q] = eip[q] /\ prev_tb'[q] = prev_tb[q]
    /\ cur'[q] = cur[q] /\ tc_offset'[q] = tc_offset[q]

LEMMA Frames ==
  ASSUME IInv, NEW p \in Cpus,
         \/ Booting(p) \/ Guest(p) \/ Monitor(p) \/ Lock(p) \/ Fault(p)
         \/ FaultReturn(p)
  PROVE  Frame(p)
  <1> USE DEF Transfer, lockVars, storeVars, bootVars, guestVars, callVars,
              Frame, TypeOK
  <1>0. TypeOK
    BY DEF IInv
  <1>1. CASE Booting(p)
    BY <1>0, <1>1
       DEF Booting, IdtEntry, WalkEdge, WalkChained, BootReturn, BootDone
  <1>2. CASE Guest(p)
    BY <1>0, <1>2
       DEF Guest, EnterGuest, DirectJump, DirectExit, IndirectHit,
           IndirectMiss, Return
  <1>3. CASE MonitorEntry(p) \/ Reentry(p) \/ Lock(p) \/ Own(p) \/ FindHit(p)
    BY <1>0, <1>3 DEF MonitorEntry, Reentry, Lock, Own, FindHit
  <1>4. CASE FindMiss(p) \/ Place(p) \/ Emit(p) \/ Publish(p) \/ MapEip(p)
    BY <1>0, <1>4 DEF FindMiss, Place, Emit, Publish, MapEip
  <1>5. CASE Disown(p) \/ Unlock(p) \/ CacheAdd(p) \/ Patch(p) \/ Resume(p)
    BY <1>0, <1>5 DEF Disown, Unlock, CacheAdd, Patch, Resume
  <1>6. CASE Fault(p) \/ FaultReturn(p)
    BY <1>0, <1>6 DEF Fault, FaultReturn
  <1>7. QED
    BY <1>1, <1>2, <1>3, <1>4, <1>5, <1>6 DEF Monitor, Translator

\* The blocks change only in the four steps that make a block.
LEMMA StoreFrame ==
  ASSUME IInv, NEW p \in Cpus,
         \/ Booting(p) \/ Guest(p) \/ Monitor(p) \/ Lock(p) \/ Fault(p)
         \/ FaultReturn(p)
  PROVE  \/ FindMiss(p) \/ Place(p) \/ Emit(p) \/ Publish(p)
         \/ tbs' = tbs /\ jumptable2' = jumptable2
  BY DEF Booting, IdtEntry, WalkEdge, WalkChained, BootReturn, BootDone,
         Guest, EnterGuest, DirectJump, DirectExit, IndirectHit,
         IndirectMiss, Return, Monitor, MonitorEntry, Reentry, Lock, Own,
         FindHit, MapEip, Disown, Unlock, CacheAdd, Patch, Resume, Fault,
         FaultReturn, Translator, lockVars, storeVars, bootVars, guestVars,
         callVars

\* A processor that is not handling a fault, where its program counter says.
LEMMA At ==
  ASSUME IInv, NEW p \in Cpus, pc[p] \notin {"guest", "monitor", "fatal"}
  PROVE  ~Nested(p) /\ Inside(p) = pc[p]
  BY DEF IInv, NestInv, Inside

\* An address in no block is not the first one of a block.
LEMMA NoHitNoBlock ==
  ASSUME TypeOK, NEW e \in Eips, Hits(e) = {}
  PROVE  e \notin jumptable2
  BY RunSelf DEF Hits, TypeOK

\* Published blocks stay, with their code.
Grows == /\ jumptable2 \subseteq jumptable2'
         /\ \A b \in jumptable2' : tbs'[b] = "coded"

LEMMA StoreGrows ==
  ASSUME IInv, [Next]_vars
  PROVE  Grows
  <1> USE DEF Grows, TypeOK
  <1>0. TypeOK /\ StoreInv
    BY DEF IInv
  <1>1. ASSUME NEW p \in Cpus, FindMiss(p) PROVE Grows
    <2>1. eip[p] \in Eips /\ eip[p] \notin jumptable2
      BY <1>0, <1>1, NoHitNoBlock DEF FindMiss
    <2>2. QED
      BY <1>0, <1>1, <2>1 DEF FindMiss, StoreInv
  <1>2. ASSUME NEW p \in Cpus, Place(p) \/ Emit(p) PROVE Grows
    <2>1. pc[p] \in {"place", "emit"}
      BY <1>2 DEF Place, Emit, Transfer
    <2>2. Inside(p) = pc[p]
      BY <2>1, At
    <2>3. cur[p] = eip[p] /\ Hits(eip[p]) = {}
      BY <2>1, <2>2 DEF IInv, CallInv, CallOK
    <2>4. cur[p] \in Eips /\ cur[p] \notin jumptable2
      BY <1>0, <2>3, NoHitNoBlock
    <2>5. jumptable2' = jumptable2
      BY <1>2 DEF Place, Emit, lockVars
    <2>6. \A b \in Eips \ {cur[p]} : tbs'[b] = tbs[b]
      BY <1>0, <1>2, <2>4 DEF Place, Emit
    <2>7. QED
      BY <1>0, <2>4, <2>5, <2>6 DEF StoreInv
  <1>3. ASSUME NEW p \in Cpus, Publish(p) PROVE Grows
    <2>1. pc[p] = "publish"
      BY <1>3 DEF Publish, Transfer
    <2>2. Inside(p) = "publish"
      BY <2>1, At
    <2>3. tbs[cur[p]] = "coded"
      BY <2>2 DEF IInv, CallInv, CallOK
    <2>4. QED
      BY <1>0, <1>3, <2>3 DEF Publish, StoreInv
  <1>4. CASE tbs' = tbs /\ jumptable2' = jumptable2
    BY <1>0, <1>4 DEF StoreInv
  <1>5. CASE UNCHANGED vars
    BY <1>4, <1>5 DEF vars
  <1>6. QED
    BY <1>1, <1>2, <1>3, <1>4, <1>5, StoreFrame DEF Next

\* A valid location stays valid.
LEMMA ValidStable ==
  ASSUME IInv, [Next]_vars
  PROVE  \A l \in Loc : Valid(l) => Valid(l)'
  BY StoreGrows DEF Grows, Valid

----------------------------------------------------------------------------
(* The steps of the invariant, one conjunct at a time.                     *)

LEMMA StoreStep == IInv /\ [Next]_vars => StoreInv'
  BY StoreGrows DEF Grows, StoreInv

LEMMA NestStep == IInv /\ [Next]_vars => NestInv'
  <1> SUFFICES ASSUME IInv, TypeOK, NestInv, [Next]_vars PROVE NestInv'
    BY DEF IInv
  <1> USE DEF Transfer, lockVars, storeVars, bootVars, guestVars, callVars,
              Nested, NestInv, TypeOK
  <1>1. ASSUME NEW p \in Cpus, Booting(p) PROVE NestInv'
    BY <1>1
       DEF Booting, IdtEntry, WalkEdge, WalkChained, BootReturn, BootDone
  <1>2. ASSUME NEW p \in Cpus, Guest(p) PROVE NestInv'
    BY <1>2
       DEF Guest, EnterGuest, DirectJump, DirectExit, IndirectHit,
           IndirectMiss, Return
  <1>3. ASSUME NEW p \in Cpus, MonitorEntry(p) PROVE NestInv'
    <2>1. ~Nested(p)
      BY <1>3, LockFacts DEF MonitorEntry
    <2>2. QED
      BY <1>3, <2>1 DEF MonitorEntry
  <1>4. ASSUME NEW p \in Cpus, Reentry(p) \/ Lock(p) \/ Own(p) \/ FindHit(p)
        PROVE  NestInv'
    BY <1>4 DEF Reentry, Lock, Own, FindHit
  <1>5. ASSUME NEW p \in Cpus,
               FindMiss(p) \/ Place(p) \/ Emit(p) \/ Publish(p) \/ MapEip(p)
        PROVE  NestInv'
    BY <1>5 DEF FindMiss, Place, Emit, Publish, MapEip
  <1>6. ASSUME NEW p \in Cpus,
               \/ Disown(p) \/ Unlock(p) \/ CacheAdd(p) \/ Patch(p)
               \/ Resume(p)
        PROVE  NestInv'
    BY <1>6 DEF Disown, Unlock, CacheAdd, Patch, Resume
  <1>7. ASSUME NEW p \in Cpus, Fault(p) \/ FaultReturn(p) PROVE NestInv'
    BY <1>7 DEF Fault, FaultReturn, Faultable
  <1>8. CASE UNCHANGED vars
    BY <1>8 DEF vars
  <1>9. QED
    BY <1>1, <1>2, <1>3, <1>4, <1>5, <1>6, <1>7, <1>8
       DEF Next, Monitor, Translator

LEMMA BootStep == IInv /\ [Next]_vars => BootInv'
  <1> SUFFICES ASSUME IInv, TypeOK, BootInv, [Next]_vars PROVE BootInv'
    BY DEF IInv
  <1> USE DispatchAssumption
      DEF Transfer, lockVars, storeVars, bootVars, guestVars, callVars,
          BootInv, TypeOK, Busy, Locked, Owned
  <1>1. ASSUME NEW p \in Cpus, Booting(p) PROVE BootInv'
    BY <1>1
       DEF Booting, IdtEntry, WalkEdge, WalkChained, BootReturn, BootDone
  <1>2. ASSUME NEW p \in Cpus, Guest(p) PROVE BootInv'
    BY <1>2
       DEF Guest, EnterGuest, DirectJump, DirectExit, IndirectHit,
           IndirectMiss, Return
  <1>3. ASSUME NEW p \in Cpus,
               \/ MonitorEntry(p) \/ Reentry(p) \/ Lock(p) \/ Own(p)
               \/ FindHit(p)
        PROVE BootInv'
    BY <1>3 DEF MonitorEntry, Reentry, Lock, Own, FindHit
  <1>4. ASSUME NEW p \in Cpus,
               FindMiss(p) \/ Place(p) \/ Emit(p) \/ Publish(p) \/ MapEip(p)
        PROVE  BootInv'
    BY <1>4 DEF FindMiss, Place, Emit, Publish, MapEip
  <1>5. ASSUME NEW p \in Cpus,
               \/ Disown(p) \/ Unlock(p) \/ CacheAdd(p) \/ Patch(p)
               \/ Resume(p)
        PROVE  BootInv'
    BY <1>5 DEF Disown, Unlock, CacheAdd, Patch, Resume
  <1>6. ASSUME NEW p \in Cpus, Fault(p) \/ FaultReturn(p) PROVE BootInv'
    BY <1>6 DEF Fault, FaultReturn, Faultable, IInv, NestInv
  <1>7. CASE UNCHANGED vars
    BY <1>7 DEF vars
  <1>8. QED
    BY <1>1, <1>2, <1>3, <1>4, <1>5, <1>6, <1>7 DEF Next, Monitor, Translator

LEMMA IdtStep == IInv /\ [Next]_vars => IdtInv'
  <1> SUFFICES ASSUME IInv, TypeOK, IdtInv, BootInv, [Next]_vars PROVE IdtInv'
    BY DEF IInv
  <1> USE DEF Transfer, lockVars, storeVars, bootVars, guestVars, callVars,
              TypeOK
  <1>0. \A h \in Handlers : IdtDone(h) /\ idt'[h] = idt[h] => IdtDone(h)'
    BY ValidStable DEF IdtDone
  <1>1. ASSUME NEW p \in Cpus, pc[p] = "boot"
        PROVE  /\ p = Boot /\ phase = "idt"
               /\ \A h \in Handlers : h \in idtTodo \/ IdtDone(h)
    BY <1>1, DispatchAssumption DEF BootInv, IdtInv, IdtDoing
  <1>2. ASSUME NEW p \in Cpus, IdtEntry(p) PROVE IdtInv'
    BY <1>0, <1>1, <1>2 DEF IdtEntry, IdtInv, IdtDoing
  <1>3. ASSUME NEW p \in Cpus, WalkEdge(p) \/ WalkChained(p) \/ BootDone(p)
        PROVE  IdtInv'
    BY <1>0, <1>1, <1>3
       DEF WalkEdge, WalkChained, BootDone, IdtInv, IdtDoing
  <1>4. ASSUME NEW p \in Cpus, BootReturn(p) PROVE IdtInv'
    <2>1. p = Boot /\ phase' = "idt"
      BY <1>4 DEF BootReturn, BootInv
    <2>2. /\ tc_offset[p].eip = eip[p] /\ Valid(tc_offset[p])
          /\ tc_offset[p] \in Loc
      BY <1>4 DEF BootReturn, IInv, CallInv, CallOK, Mapped
    <2>3. ASSUME NEW h \in Handlers
          PROVE  h \in idtTodo' \/ IdtDone(h)'
      <3>1. CASE IdtDoing(h)
        <4>1. idt'[h] = tc_offset[p] /\ eip[p] = h
          BY <1>4, <2>1, <3>1 DEF BootReturn, IdtDoing
        <4>2. QED
          BY <2>2, <4>1, ValidStable DEF IdtDone
      <3>2. CASE ~IdtDoing(h) /\ h \notin idtTodo
        <4>1. idt'[h] = idt[h]
          BY <1>4, <2>1, <3>2 DEF BootReturn, IdtDoing
        <4>2. QED
          BY <1>0, <3>2, <4>1 DEF IdtInv
      <3>3. CASE h \in idtTodo
        BY <1>4, <3>3 DEF BootReturn
      <3>4. QED
        BY <3>1, <3>2, <3>3
    <2>4. QED
      BY <2>1, <2>3 DEF IdtInv
  <1>5. ASSUME UNCHANGED <<phase, idt, idtTodo>>,
               phase = "idt" => UNCHANGED <<eip[Boot], prev_tb[Boot]>>,
               phase = "idt" => pc[Boot] # "boot" /\ pc'[Boot] # "boot"
        PROVE  IdtInv'
    BY <1>0, <1>5 DEF IdtInv, IdtDoing
  <1>6. ASSUME NEW p \in Cpus,
               \/ Guest(p) \/ MonitorEntry(p) \/ Reentry(p) \/ Fault(p)
               \/ FaultReturn(p)
        PROVE  IdtInv'
    <2>1. phase = "run" /\ UNCHANGED <<phase, idt, idtTodo>>
      <3>1. pc[p] # "boot" /\ pc[p] \notin Busy => phase = "run"
        BY <1>6, DispatchAssumption
           DEF BootInv, Guest, EnterGuest, DirectJump, DirectExit,
               IndirectHit, IndirectMiss, Return, MonitorEntry, Reentry,
               Fault, FaultReturn
      <3>2. QED
        BY <1>6, <3>1
           DEF Busy, Locked, Owned, Guest, EnterGuest, DirectJump,
               DirectExit, IndirectHit, IndirectMiss, Return, MonitorEntry,
               Reentry, Fault, FaultReturn
    <2>2. QED
      BY <1>5, <2>1
  <1>7. ASSUME NEW p \in Cpus, Lock(p) \/ Translator(p) PROVE IdtInv'
    BY <1>5, <1>7, DispatchAssumption
       DEF Lock, Translator, Own, FindHit, FindMiss, Place, Emit, Publish,
           MapEip, Disown, Unlock, BootInv
  <1>8. ASSUME NEW p \in Cpus, CacheAdd(p) \/ Patch(p) \/ Resume(p)
        PROVE  IdtInv'
    BY <1>5, <1>8, DispatchAssumption DEF CacheAdd, Patch, Resume, BootInv
  <1>9. CASE UNCHANGED vars
    <2>1. CASE phase = "idt" /\ pc[Boot] = "boot"
      BY <1>0, <1>9, <2>1 DEF vars, IdtInv, IdtDoing
    <2>2. CASE ~(phase = "idt" /\ pc[Boot] = "boot")
      BY <1>5, <1>9, <2>2 DEF vars
    <2>3. QED
      BY <2>1, <2>2
  <1>10. QED
    BY <1>2, <1>3, <1>4, <1>6, <1>7, <1>8, <1>9 DEF Next, Booting, Monitor

\* What the steps of other processors do to the call of q.
LEMMA CallFrame ==
  ASSUME IInv, [Next]_vars, NEW p \in Cpus, NEW q \in Cpus \ {p}, Frame(p),
         \/ FindMiss(p) \/ Place(p) \/ Emit(p) \/ Publish(p)
         \/ tbs' = tbs /\ jumptable2' = jumptable2
  PROVE  CallOK(q)'
  <1>0. TypeOK /\ CallOK(q)
    BY DEF IInv, CallInv
  <1>1. /\ Inside(q)' = Inside(q) /\ pc'[q] = pc[q]
        /\ UNCHANGED <<tx_target[q], edge[q], eip[q], prev_tb[q], cur[q],
                       tc_offset[q]>>
    BY DEF Frame, Inside, Nested
  <1>2. tc_offset[q] \in Loc
    BY <1>0 DEF TypeOK
  <1>3. Valid(tc_offset[q]) => Valid(tc_offset[q])'
    BY <1>1, <1>2, ValidStable
  <1>4. cur[q] \in jumptable2 => cur[q] \in jumptable2'
    BY StoreGrows DEF Grows
  <1>5. CASE tbs' = tbs /\ jumptable2' = jumptable2
    BY <1>0, <1>1, <1>3, <1>4, <1>5 DEF CallOK, Hits
  <1>6. CASE FindMiss(p) \/ Place(p) \/ Emit(p) \/ Publish(p)
    <2>1. pc[p] \in Owned
      BY <1>6 DEF FindMiss, Place, Emit, Publish, Transfer, Owned
    <2>2. Inside(p) \in Locked
      BY <2>1, At DEF Owned, Locked
    <2>3. Inside(q) \notin Locked
      BY <2>2, Exclusive
    <2>4. QED
      BY <1>0, <1>1, <1>3, <2>3 DEF CallOK, Locked, Owned
  <1>7. QED
    BY <1>5, <1>6

\* What they do to the call of the processor that takes them.
LEMMA CallOwn ==
  ASSUME IInv, [Next]_vars, NEW p \in Cpus,
         \/ Booting(p) \/ Guest(p) \/ Monitor(p) \/ Lock(p) \/ Fault(p)
         \/ FaultReturn(p)
  PROVE  CallOK(p)'
  <1> USE DEF Transfer, lockVars, storeVars, bootVars, guestVars, callVars,
              TypeOK, Busy, Locked, Owned, Mapped
  <1>0. TypeOK /\ CallOK(p)
    BY DEF IInv, CallInv
  <1>1. CASE IdtEntry(p) \/ WalkChained(p) \/ BootDone(p)
    BY <1>0, <1>1, At
       DEF IdtEntry, WalkChained, BootDone, CallOK, Inside, Nested
  <1>2. CASE WalkEdge(p) \/ BootReturn(p)
    BY <1>0, <1>2, At, SlotLoc
       DEF WalkEdge, BootReturn, CallOK, Inside, Nested
  <1>3. CASE EnterGuest(p) \/ Return(p)
    BY <1>0, <1>3, At DEF EnterGuest, Return, CallOK, Inside, Nested
  <1>4. ASSUME pc[p] = "guest", pc'[p] \in {"guest", "monitor"},
               UNCHANGED <<storeVars, callVars, fault>>,
               pc'[p] = "monitor" /\ edge'[p] # NoSlot =>
                 edge'[p].to = tx_target'[p].eip
        PROVE  CallOK(p)'
    <2>1. CASE Nested(p)
      BY <1>0, <1>4, <2>1 DEF CallOK, Inside, Nested, Hits
    <2>2. CASE ~Nested(p)
      BY <1>0, <1>4, <2>2 DEF CallOK, Inside, Nested
    <2>3. QED
      BY <2>1, <2>2
  <1>5. CASE DirectJump(p) \/ IndirectHit(p)
    BY <1>0, <1>4, <1>5 DEF DirectJump, IndirectHit
  <1>6. CASE DirectExit(p)
    BY <1>0, <1>4, <1>6 DEF DirectExit
  <1>7. CASE IndirectMiss(p)
    BY <1>0, <1>4, <1>7 DEF IndirectMiss
  <1>8. CASE MonitorEntry(p)
    <2>1. ~Nested(p)
      BY <1>8, LockFacts DEF MonitorEntry
    <2>2. QED
      BY <1>0, <1>8, <2>1 DEF MonitorEntry, CallOK, Inside, Nested
  <1>9. CASE Reentry(p)
    BY <1>0, <1>9 DEF Reentry, CallOK, Inside, Nested, Hits
  <1>10. CASE Lock(p) \/ Own(p)
    BY <1>0, <1>10, At DEF Lock, Own, CallOK, Inside, Nested
  <1>11. CASE FindHit(p)
    BY <1>0, <1>11, At DEF FindHit, Find, Hits, CallOK, Inside, Nested
  <1>12. CASE FindMiss(p)
    BY <1>0, <1>12, At DEF FindMiss, Hits, CallOK, Inside, Nested
  <1>13. CASE Place(p) \/ Emit(p)
    <2>1. CASE Place(p)
      BY <1>0, <2>1, At DEF Place, Hits, CallOK, Inside, Nested
    <2>2. CASE Emit(p)
      BY <1>0, <2>2, At DEF Emit, Hits, CallOK, Inside, Nested
    <2>3. QED
      BY <1>13, <2>1, <2>2
  <1>14. CASE Publish(p)
    BY <1>0, <1>14, At, RunSelf DEF Publish, CallOK, Inside, Nested
  <1>15. CASE MapEip(p)
    BY <1>0, <1>15, At
       DEF MapEip, CallOK, Inside, Nested, Valid, IInv, StoreInv
  <1>16. ASSUME pc[p] \in Mapped, pc'[p] \in Mapped,
                UNCHANGED <<storeVars, callVars>>, ~Nested(p)'
         PROVE  CallOK(p)'
    BY <1>0, <1>16, At DEF CallOK, Inside, Nested, Valid
  <1>17. CASE Disown(p) \/ Unlock(p) \/ CacheAdd(p) \/ Patch(p)
    BY <1>0, <1>16, <1>17, At
       DEF Disown, Unlock, CacheAdd, Patch, Nested
  <1>18. CASE Resume(p)
    BY <1>0, <1>18, At DEF Resume, CallOK, Inside, Nested
  <1>19. CASE Fault(p)
    BY <1>0, <1>19 DEF Fault, CallOK, Inside, Nested, Faultable, Hits
  <1>20. CASE FaultReturn(p)
    BY <1>0, <1>20, LockFacts
       DEF FaultReturn, CallOK, Inside, Nested, Faultable, Hits
  <1>21. QED
    BY <1>1, <1>2, <1>3, <1>5, <1>6, <1>7, <1>8, <1>9, <1>10, <1>11, <1>12,
       <1>13, <1>14, <1>15, <1>17, <1>18, <1>19, <1>20
       DEF Booting, Guest, Monitor, Translator

LEMMA CallStep == IInv /\ [Next]_vars => CallInv'
  <1> SUFFICES ASSUME IInv, [Next]_vars PROVE CallInv'
    OBVIOUS
  <1>1. CASE UNCHANGED vars
    BY <1>1 DEF vars, IInv, CallInv, CallOK, Inside, Nested, Hits, Valid
  <1>2. CASE Next
    <2>1. PICK p \in Cpus :
            \/ Booting(p) \/ Guest(p) \/ Monitor(p) \/ Lock(p) \/ Fault(p)
            \/ FaultReturn(p)
      BY <1>2 DEF Next
    <2>2. \A q \in Cpus \ {p} : CallOK(q)'
      BY <2>1, CallFrame, Frames, StoreFrame
    <2>3. CallOK(p)'
      BY <2>1, CallOwn
    <2>4. QED
      BY <2>2, <2>3 DEF CallInv
  <1>3. QED
    BY <1>1, <1>2

\* A processor about to use a translation has the one it asked for.
LEMMA MappedCall ==
  ASSUME IInv, NEW p \in Cpus, pc[p] \in Mapped
  PROVE  /\ tc_offset[p] \in Loc
         /\ tc_offset[p].eip = eip[p] /\ Valid(tc_offset[p])
         /\ prev_tb[p] # NoSlot => prev_tb[p].to = eip[p]
  <1>1. tc_offset[p] \in Loc
    BY DEF IInv, TypeOK
  <1>2. Inside(p) = pc[p]
    BY At DEF Mapped
  <1>3. pc[p] \in Busy
    BY DEF Mapped, Busy, Locked, Owned
  <1>4. QED
    BY <1>1, <1>2, <1>3 DEF IInv, CallInv, CallOK

\* Branches are redirected in two steps only.
LEMMA ChainFrame ==
  ASSUME NEW p \in Cpus,
         \/ Booting(p) \/ Guest(p) \/ Monitor(p) \/ Lock(p) \/ Fault(p)
         \/ FaultReturn(p)
  PROVE  Patch(p) \/ Emit(p) \/ chain' = chain
  BY DEF Booting, IdtEntry, WalkEdge, WalkChained, BootReturn, BootDone,
         Guest, EnterGuest, DirectJump, DirectExit, IndirectHit,
         IndirectMiss, Return, Monitor, MonitorEntry, Reentry, Lock, Own,
         FindHit, FindMiss, Place, Publish, MapEip, Disown, Unlock,
         CacheAdd, Resume, Fault, FaultReturn, Translator

LEMMA ChainStep == IInv /\ [Next]_vars => ChainSound'
  <1> SUFFICES ASSUME IInv, TypeOK, ChainSound, [Next]_vars PROVE ChainSound'
    BY DEF IInv
  <1>0. ASSUME NEW s \in Slot, chain'[s] = chain[s], chain[s] # Unpatched
        PROVE  chain'[s].eip = s.to /\ Valid(chain[s])'
    BY <1>0, ValidStable DEF TypeOK, ChainSound
  <1>1. ASSUME NEW p \in Cpus, Patch(p) PROVE ChainSound'
    <2>1. /\ tc_offset[p].eip = eip[p] /\ Valid(tc_offset[p])
          /\ tc_offset[p] \in Loc
          /\ prev_tb[p] # NoSlot => prev_tb[p].to = eip[p]
      BY <1>1, MappedCall DEF Patch, Transfer, Mapped
    <2>2. Valid(tc_offset[p])' /\ tc_offset' = tc_offset
      <3>1. tc_offset' = tc_offset
        BY <1>1 DEF Patch, callVars
      <3>2. QED
        BY <2>1, <3>1, ValidStable
    <2>3. ASSUME NEW s \in Slot, chain'[s] # Unpatched
          PROVE  chain'[s].eip = s.to /\ Valid(chain[s])'
      <3>1. CASE prev_tb[p] = s
        <4>1. chain'[s] = tc_offset[p]
          BY <1>1, <3>1, SlotLoc DEF Patch, TypeOK
        <4>2. QED
          BY <2>1, <2>2, <3>1, <4>1, SlotLoc DEF Valid
      <3>2. CASE prev_tb[p] # s
        <4>1. chain'[s] = chain[s]
          BY <1>1, <3>2 DEF Patch, TypeOK
        <4>2. QED
          BY <1>0, <2>3, <4>1
      <3>3. QED
        BY <3>1, <3>2
    <2>4. QED
      BY <2>3 DEF ChainSound
  <1>2. ASSUME NEW p \in Cpus, Emit(p) PROVE ChainSound'
    <2>1. ASSUME NEW s \in Slot
          PROVE  chain'[s] = Unpatched \/ chain'[s] = chain[s]
      BY <1>2 DEF Emit
    <2>2. QED
      BY <1>0, <2>1 DEF ChainSound
  <1>3. CASE chain' = chain
    BY <1>0, <1>3 DEF ChainSound
  <1>4. CASE UNCHANGED vars
    BY <1>3, <1>4 DEF vars
  <1>5. QED
    BY <1>1, <1>2, <1>3, <1>4, ChainFrame DEF Next

\* The per-cpu tables change in two steps only.
LEMMA CacheFrame ==
  ASSUME NEW p \in Cpus,
         \/ Booting(p) \/ Guest(p) \/ Monitor(p) \/ Lock(p) \/ Fault(p)
         \/ FaultReturn(p)
  PROVE  IndirectHit(p) \/ CacheAdd(p) \/ jumptable1' = jumptable1
  BY DEF Booting, IdtEntry, WalkEdge, WalkChained, BootReturn, BootDone,
         Guest, EnterGuest, DirectJump, DirectExit, IndirectMiss, Return,
         Monitor, MonitorEntry, Reentry, Lock, Own, FindHit, FindMiss,
         Place, Emit, Publish, MapEip, Disown, Unlock, Patch, Resume,
         Fault, FaultReturn, Translator

\* An entry of a table leads to finished code of its own target.
Sound(entry) == entry.tc.eip = entry.eip /\ Valid(entry.tc)

LEMMA CacheStep == IInv /\ [Next]_vars => CacheSound'
  <1> SUFFICES ASSUME IInv, TypeOK, [Next]_vars PROVE CacheSound'
    BY DEF IInv
  <1> DEFINE Entries == [eip : Eips, tc : Loc]
  <1>0. ASSUME NEW entry \in Entries, Sound(entry) PROVE Sound(entry)'
    BY <1>0, ValidStable DEF Sound
  <1>1. \A q \in Cpus : \A entry \in jumptable1[q] :
          entry \in Entries /\ Sound(entry)
    BY DEF IInv, CacheSound, TypeOK, Sound
  <1>2. ASSUME \A q \in Cpus : \A entry \in jumptable1'[q] :
                 entry \in jumptable1[q] \/ (entry \in Entries /\ Sound(entry))
        PROVE  CacheSound'
    BY <1>0, <1>1, <1>2 DEF CacheSound, Sound
  <1>3. ASSUME NEW p \in Cpus, IndirectHit(p) PROVE CacheSound'
    <2>1. PICK entry \in jumptable1[p] :
            \E cache \in AfterHit(jumptable1[p], entry) :
              jumptable1' = [jumptable1 EXCEPT ![p] = cache]
      BY <1>3 DEF IndirectHit
    <2>2. \A q \in Cpus : jumptable1'[q] \subseteq jumptable1[q]
      BY <2>1 DEF AfterHit, TypeOK
    <2>3. QED
      BY <1>2, <2>2
  <1>4. ASSUME NEW p \in Cpus, CacheAdd(p) PROVE CacheSound'
    <2> DEFINE new == [eip |-> eip[p], tc |-> tc_offset[p]]
    <2>1. PICK q \in Cpus :
            \E cache \in AfterAdd(jumptable1[q], new) :
              jumptable1' = [jumptable1 EXCEPT ![q] = cache]
      BY <1>4 DEF CacheAdd
    <2>2. \A r \in Cpus : jumptable1'[r] \subseteq jumptable1[r] \cup {new}
      BY <2>1 DEF AfterAdd, TypeOK
    <2>3. new \in Entries /\ Sound(new)
      BY <1>4, MappedCall DEF CacheAdd, Transfer, Mapped, TypeOK, Sound
    <2>4. QED
      BY <1>2, <2>2, <2>3
  <1>5. CASE jumptable1' = jumptable1
    BY <1>2, <1>5
  <1>6. CASE UNCHANGED vars
    BY <1>5, <1>6 DEF vars
  <1>7. QED
    BY <1>3, <1>4, <1>5, <1>6, CacheFrame DEF Next

LEMMA ExecStep == IInv /\ [Next]_vars => ExecSound'
  <1> SUFFICES ASSUME IInv, TypeOK, ExecSound, [Next]_vars PROVE ExecSound'
    BY DEF IInv
  <1>0. ASSUME NEW q \in Cpus, pc[q] = "guest", at'[q] = at[q]
        PROVE  Valid(at[q])'
    BY <1>0, ValidStable DEF ExecSound, TypeOK
  \* where the processor that takes a step continues
  <1>1. ASSUME NEW p \in Cpus, NEW l \in Loc, Valid(l), Frame(p),
               at' = [at EXCEPT ![p] = l]
        PROVE  ExecSound'
    <2>1. at'[p] = l
      BY <1>1 DEF TypeOK
    <2>2. Valid(at[p])'
      BY <1>1, <2>1, StoreGrows DEF Valid, Grows
    <2>3. QED
      BY <1>0, <1>1, <2>2 DEF Frame, ExecSound
  <1>2. ASSUME NEW p \in Cpus, Frame(p),
               pc'[p] = "guest" => pc[p] = "guest" /\ at'[p] = at[p]
        PROVE  ExecSound'
    BY <1>0, <1>2 DEF Frame, ExecSound
  <1>3. ASSUME NEW p \in Cpus, EnterGuest(p) \/ Fault(p), Frame(p)
        PROVE  ExecSound'
    <2>1. PICK h \in Handlers : at' = [at EXCEPT ![p] = idt[h]]
      BY <1>3, DispatchAssumption DEF EnterGuest, Fault
    <2>2. phase = "run"
      BY <1>3 DEF EnterGuest, Fault
    <2>3. Valid(idt[h]) /\ idt[h] \in Loc
      BY <2>2 DEF IInv, IdtInv, IdtDone, TypeOK
    <2>4. QED
      BY <1>1, <1>3, <2>1, <2>3
  <1>4. ASSUME NEW p \in Cpus, DirectJump(p), Frame(p) PROVE ExecSound'
    <2>1. PICK i \in Run[at[p].eip] : \E t \in Succ[i] :
            LET s == [tb |-> at[p].tb, from |-> i, to |-> t]
            IN  /\ chain[s] # Unpatched
                /\ at' = [at EXCEPT ![p] = chain[s]]
      BY <1>4 DEF DirectJump
    <2>2. PICK t \in Succ[i] :
            LET s == [tb |-> at[p].tb, from |-> i, to |-> t]
            IN  /\ chain[s] # Unpatched
                /\ at' = [at EXCEPT ![p] = chain[s]]
      BY <2>1
    <2> DEFINE s == [tb |-> at[p].tb, from |-> i, to |-> t]
    <2>3. Valid(at[p])
      BY <1>4 DEF DirectJump, ExecSound
    <2>4. s \in Slot
      BY <2>3, ValidSlot
    <2>5. chain[s] \in Loc /\ Valid(chain[s])
      BY <2>2, <2>4 DEF IInv, ChainSound, TypeOK
    <2>6. at' = [at EXCEPT ![p] = chain[s]]
      BY <2>2
    <2>7. QED
      BY <1>1, <1>4, <2>5, <2>6
  <1>5. ASSUME NEW p \in Cpus, IndirectHit(p), Frame(p) PROVE ExecSound'
    <2>1. PICK entry \in jumptable1[p] : at' = [at EXCEPT ![p] = entry.tc]
      BY <1>5 DEF IndirectHit
    <2>2. Valid(entry.tc) /\ entry.tc \in Loc
      BY DEF IInv, CacheSound, TypeOK
    <2>3. QED
      BY <1>1, <1>5, <2>1, <2>2
  <1>6. ASSUME NEW p \in Cpus, Resume(p), Frame(p) PROVE ExecSound'
    <2>1. Valid(tc_offset[p]) /\ tc_offset[p] \in Loc
      BY <1>6, MappedCall DEF Resume, Transfer, Mapped
    <2>2. QED
      BY <1>1, <1>6, <2>1 DEF Resume
  <1>7. ASSUME NEW p \in Cpus,
               \/ Booting(p) \/ DirectExit(p) \/ IndirectMiss(p) \/ Return(p)
               \/ MonitorEntry(p) \/ Reentry(p) \/ Translator(p)
               \/ CacheAdd(p) \/ Patch(p) \/ Lock(p) \/ FaultReturn(p)
        PROVE  pc'[p] = "guest" => pc[p] = "guest" /\ at'[p] = at[p]
    BY <1>7
       DEF Transfer, Booting, IdtEntry, WalkEdge, WalkChained, BootReturn,
           BootDone, DirectExit, IndirectMiss, Return, MonitorEntry, Reentry,
           Lock, Own, FindHit, FindMiss, Place, Emit, Publish, MapEip,
           Disown, Unlock, CacheAdd, Patch, FaultReturn, Translator,
           TypeOK, Nested, Faultable, guestVars, callVars
  <1>8. CASE UNCHANGED vars
    BY <1>8 DEF vars, ExecSound, Valid
  <1>9. QED
    BY <1>2, <1>3, <1>4, <1>5, <1>6, <1>7, <1>8, Frames
       DEF Next, Guest, Monitor

----------------------------------------------------------------------------
THEOREM Invariance == Spec => []IInv
  <1>1. IInv /\ [Next]_vars => IInv'
    BY TypeStep, LockStep, NestStep, BootStep, IdtStep, StoreStep, CallStep,
       ChainStep, CacheStep, ExecStep DEF IInv
  <1>2. QED
    BY InitInv, <1>1, PTL DEF Spec

\* The type invariant of the dispatcher for every guest program.
THEOREM TypeCorrect == Spec => []TypeOK
  BY Invariance, PTL DEF IInv

\* translation_lock and lock_owner of tb_gen_translated_code: the code between
\* spin_lock and spin_unlock is executed by one processor at a time, also
\* across page faults taken inside it.
THEOREM MutualExclusion == Spec => []LockProtocol
  BY Invariance, PTL DEF IInv

\* A page fault inside the translator that leads back to monitor_entry never
\* makes the processor spin on the lock it holds.
THEOREM ReentryDetected == Spec => []NoSelfDeadlock
  <1>1. IInv => NoSelfDeadlock
    BY At DEF IInv, LockProtocol, NoSelfDeadlock, Locked, Owned
  <1>2. QED
    BY Invariance, <1>1, PTL

\* The branches that tb_gen_translated_code patches without the lock lead to
\* finished code of their own target.
THEOREM Chaining == Spec => []ChainSound
  BY Invariance, PTL DEF IInv

\* So do the entries jumptable1_add makes.
THEOREM Caching == Spec => []CacheSound
  BY Invariance, PTL DEF IInv

\* A processor in translated code is in a published, finished block.
THEOREM Execution == Spec => []ExecSound
  BY Invariance, PTL DEF IInv

----------------------------------------------------------------------------
(* The dispatcher implements native execution.                             *)

\* A step of p either leaves GuestIp alone, or is one of the native program.
GuestStep(p) == Abstract!Enter(p) \/ Abstract!Branch(p) \/ Abstract!Return(p)

LEMMA SameRun == Abstract!Run = Run
  BY DEF Abstract!Run, Run

LEMMA SameIp ==
  ASSUME IInv, NEW p \in Cpus, Frame(p), phase' = phase,
         GuestIp[p]' = GuestIp[p]
  PROVE  GuestIp' = GuestIp
  <1>1. \A q \in Cpus : GuestIp'[q] = GuestIp[q]
    BY DEF Frame, GuestIp, Nested
  <1>2. QED
    BY <1>1 DEF GuestIp

LEMMA MovedIp ==
  ASSUME IInv, NEW p \in Cpus, Frame(p), phase' = phase, NEW v,
         GuestIp[p]' = v
  PROVE  GuestIp' = [GuestIp EXCEPT ![p] = v]
  <1>1. \A q \in Cpus \ {p} : GuestIp'[q] = GuestIp[q]
    BY DEF Frame, GuestIp, Nested
  <1>2. QED
    BY <1>1, ZenonT(60) DEF GuestIp

LEMMA BootSimulation ==
  ASSUME IInv, NEW p \in Cpus, Booting(p)
  PROVE  GuestIp' = GuestIp
  <1>1. phase = "idt" /\ \A q \in Cpus \ {p} : pc[q] = "native"
    BY At, DispatchAssumption
       DEF Booting, IdtEntry, WalkEdge, WalkChained, BootReturn, BootDone,
           Transfer, IInv, BootInv, TypeOK
  <1>2. CASE BootDone(p)
    BY <1>1, <1>2 DEF BootDone, Transfer, GuestIp, IInv, TypeOK
  <1>3. CASE phase' = "idt"
    BY <1>1, <1>3 DEF GuestIp
  <1>4. QED
    BY <1>1, <1>2, <1>3
       DEF Booting, IdtEntry, WalkEdge, WalkChained, BootReturn

LEMMA GuestSimulation ==
  ASSUME IInv, NEW p \in Cpus, Guest(p)
  PROVE  GuestStep(p) \/ GuestIp' = GuestIp
  <1> USE DEF Transfer
  <1>0. TypeOK /\ Frame(p)
    BY Frames DEF IInv
  <1>1. phase = "run" /\ phase' = "run"
    BY DispatchAssumption
       DEF Guest, EnterGuest, DirectJump, DirectExit, IndirectHit,
           IndirectMiss, Return, bootVars, IInv, BootInv, TypeOK, Busy,
           Locked, Owned
  <1>2. CASE EnterGuest(p)
    <2>1. PICK h \in Handlers : at' = [at EXCEPT ![p] = idt[h]]
      BY <1>2 DEF EnterGuest
    <2>2. idt[h].eip = h
      BY <1>1 DEF IInv, IdtInv, IdtDone
    <2>3. ~Nested(p) /\ ~Nested(p)'
      BY <1>2, At DEF EnterGuest, Nested
    <2>4. GuestIp[p] = Native /\ GuestIp[p]' = h
      BY <1>0, <1>1, <1>2, <2>1, <2>2, <2>3 DEF EnterGuest, GuestIp, TypeOK
    <2>5. GuestIp' = [GuestIp EXCEPT ![p] = h]
      BY <1>0, <1>1, <2>4, MovedIp
    <2>6. QED
      BY <2>4, <2>5 DEF GuestStep, Abstract!Enter
  <1>3. CASE Return(p)
    <2>1. /\ GuestIp[p] = at[p].eip /\ GuestIp[p]' = Native
          /\ at[p].eip \in Eips
      BY <1>0, <1>1, <1>3 DEF Return, GuestIp, TypeOK, Loc
    <2>2. GuestIp' = [GuestIp EXCEPT ![p] = Native]
      BY <1>0, <1>1, <2>1, MovedIp
    <2>3. GuestIp[p] # Native
      BY <2>1, DispatchAssumption
    <2>4. QED
      BY <1>3, <2>1, <2>2, <2>3, SameRun DEF Return, GuestStep, Abstract!Return
  \* a branch of the interrupted program
  <1>4. ASSUME ~Nested(p), pc[p] = "guest",
               NEW i \in Run[at[p].eip], NEW t \in Succ[i] \cup Indirect[i],
               GuestIp[p]' = t
        PROVE  GuestStep(p)
    <2>1. GuestIp[p] = at[p].eip /\ at[p].eip \in Eips
      BY <1>0, <1>1, <1>4 DEF GuestIp, TypeOK, Loc
    <2>2. GuestIp' = [GuestIp EXCEPT ![p] = t]
      BY <1>0, <1>1, <1>4, MovedIp
    <2>3. GuestIp[p] # Native
      BY <2>1, DispatchAssumption
    <2>4. QED
      BY <1>4, <2>1, <2>2, <2>3, SameRun DEF GuestStep, Abstract!Branch
  \* a branch of the handler of a page fault
  <1>5. ASSUME Nested(p), pc[p] = "guest", pc'[p] \in {"guest", "monitor"},
               UNCHANGED <<fault, eip>>
        PROVE  GuestIp' = GuestIp
    <2>1. GuestIp[p]' = GuestIp[p]
      BY <1>1, <1>5 DEF GuestIp, Nested
    <2>2. QED
      BY <1>0, <1>1, <2>1, SameIp
  <1>6. CASE ~Nested(p) /\ DirectJump(p)
    <2>1. PICK i \in Run[at[p].eip] : \E t \in Succ[i] :
            LET s == [tb |-> at[p].tb, from |-> i, to |-> t]
            IN  /\ chain[s] # Unpatched
                /\ at' = [at EXCEPT ![p] = chain[s]]
      BY <1>6 DEF DirectJump
    <2>2. PICK t \in Succ[i] :
            LET s == [tb |-> at[p].tb, from |-> i, to |-> t]
            IN  /\ chain[s] # Unpatched
                /\ at' = [at EXCEPT ![p] = chain[s]]
      BY <2>1
    <2> DEFINE s == [tb |-> at[p].tb, from |-> i, to |-> t]
    <2>3. s \in Slot
      BY <1>6, ValidSlot DEF DirectJump, IInv, ExecSound
    <2>4. chain[s].eip = t
      BY <2>2, <2>3 DEF IInv, ChainSound
    <2>5. GuestIp[p]' = t
      BY <1>0, <1>1, <1>6, <2>2, <2>4
         DEF DirectJump, GuestIp, TypeOK, Nested
    <2>6. QED
      BY <1>4, <1>6, <2>5 DEF DirectJump
  <1>7. CASE ~Nested(p) /\ DirectExit(p)
    <2>1. PICK i \in Run[at[p].eip] : \E t \in Succ[i] :
            tx_target' = [tx_target EXCEPT ![p] = [tb |-> Native, eip |-> t]]
      BY <1>7 DEF DirectExit
    <2>2. PICK t \in Succ[i] :
            tx_target' = [tx_target EXCEPT ![p] = [tb |-> Native, eip |-> t]]
      BY <2>1
    <2>3. GuestIp[p]' = t
      BY <1>0, <1>1, <1>7, <2>2 DEF DirectExit, GuestIp, TypeOK, Nested
    <2>4. QED
      BY <1>4, <1>7, <2>3 DEF DirectExit
  <1>8. CASE ~Nested(p) /\ IndirectHit(p)
    <2>1. PICK i \in Run[at[p].eip] : \E t \in Indirect[i] :
            \E entry \in jumptable1[p] :
              entry.eip = t /\ at' = [at EXCEPT ![p] = entry.tc]
      BY <1>8 DEF IndirectHit
    <2>2. PICK t \in Indirect[i] :
            \E entry \in jumptable1[p] :
              entry.eip = t /\ at' = [at EXCEPT ![p] = entry.tc]
      BY <2>1
    <2>3. PICK entry \in jumptable1[p] :
              entry.eip = t /\ at' = [at EXCEPT ![p] = entry.tc]
      BY <2>2
    <2>4. entry.tc.eip = t
      BY <2>3 DEF IInv, CacheSound
    <2>5. GuestIp[p]' = t
      BY <1>0, <1>1, <1>8, <2>3, <2>4 DEF IndirectHit, GuestIp, TypeOK, Nested
    <2>6. QED
      BY <1>4, <1>8, <2>5 DEF IndirectHit
  <1>9. CASE ~Nested(p) /\ IndirectMiss(p)
    <2>1. PICK i \in Run[at[p].eip] : \E t \in Indirect[i] :
            tx_target' = [tx_target EXCEPT ![p] = [tb |-> Native, eip |-> t]]
      BY <1>9 DEF IndirectMiss
    <2>2. PICK t \in Indirect[i] :
            tx_target' = [tx_target EXCEPT ![p] = [tb |-> Native, eip |-> t]]
      BY <2>1
    <2>3. GuestIp[p]' = t
      BY <1>0, <1>1, <1>9, <2>2 DEF IndirectMiss, GuestIp, TypeOK, Nested
    <2>4. QED
      BY <1>4, <1>9, <2>3 DEF IndirectMiss
  <1>10. CASE Nested(p) /\ ~EnterGuest(p) /\ ~Return(p)
    <2>1. /\ pc[p] = "guest" /\ pc'[p] \in {"guest", "monitor"}
          /\ UNCHANGED <<fault, eip>>
      BY <1>0, <1>10
         DEF Guest, DirectJump, DirectExit, IndirectHit, IndirectMiss,
             callVars, TypeOK
    <2>2. QED
      BY <1>5, <1>10, <2>1
  <1>11. QED
    BY <1>2, <1>3, <1>6, <1>7, <1>8, <1>9, <1>10 DEF Guest

LEMMA MonitorSimulation ==
  ASSUME IInv, NEW p \in Cpus,
         Monitor(p) \/ Lock(p) \/ Fault(p) \/ FaultReturn(p)
  PROVE  GuestIp' = GuestIp
  <1> USE DEF Transfer, bootVars, callVars, guestVars
  <1>0. TypeOK /\ Frame(p) /\ phase' = phase
    <2>1. phase' = phase
      BY DEF Monitor, MonitorEntry, Reentry, Lock, Own, FindHit, FindMiss,
             Place, Emit, Publish, MapEip, Disown, Unlock, CacheAdd, Patch,
             Resume, Fault, FaultReturn, Translator
    <2>2. QED
      BY <2>1, Frames DEF IInv
  <1>1. ASSUME GuestIp[p]' = GuestIp[p] PROVE GuestIp' = GuestIp
    BY <1>0, <1>1, SameIp
  <1>2. CASE MonitorEntry(p)
    <2>1. ~Nested(p) /\ ~Nested(p)'
      BY <1>2, LockFacts DEF MonitorEntry, Nested
    <2>2. QED
      BY <1>0, <1>1, <1>2, <2>1 DEF MonitorEntry, GuestIp, TypeOK
  <1>3. CASE Reentry(p)
    <2>1. Nested(p) /\ Nested(p)'
      BY <1>3, LockFacts
         DEF Reentry, Nested, IInv, LockProtocol, Inside, Owned
    <2>2. QED
      BY <1>0, <1>1, <1>3, <2>1 DEF Reentry, GuestIp, TypeOK
  <1>4. CASE Lock(p) \/ Translator(p) \/ CacheAdd(p) \/ Patch(p)
    <2>1. /\ pc[p] \notin {"native", "guest", "monitor"}
          /\ pc'[p] \notin {"native", "guest", "monitor"}
          /\ eip' = eip
      BY <1>0, <1>4
         DEF Lock, Own, FindHit, FindMiss, Place, Emit, Publish, MapEip,
             Disown, Unlock, CacheAdd, Patch, Translator, TypeOK
    <2>2. QED
      BY <1>0, <1>1, <2>1 DEF GuestIp
  <1>5. CASE Resume(p)
    <2>1. ~Nested(p) /\ ~Nested(p)' /\ tc_offset[p].eip = eip[p]
      BY <1>5, At, MappedCall DEF Resume, Nested, Mapped
    <2>2. QED
      BY <1>0, <1>1, <1>5, <2>1 DEF Resume, GuestIp, TypeOK
  <1>6. CASE Fault(p)
    <2>1. Nested(p)'
      BY <1>0, <1>6 DEF Fault, Nested, Faultable, TypeOK
    <2>2. pc[p] \notin {"native", "guest", "monitor"}
      BY <1>6 DEF Fault, Faultable
    <2>3. QED
      BY <1>0, <1>1, <1>6, <2>1, <2>2 DEF Fault, GuestIp, TypeOK
  <1>7. CASE FaultReturn(p)
    <2>1. pc'[p] \notin {"native", "guest", "monitor"}
      BY <1>0, <1>7, LockFacts DEF FaultReturn, Faultable, TypeOK
    <2>2. QED
      BY <1>0, <1>1, <1>7, <2>1 DEF FaultReturn, GuestIp, TypeOK
  <1>8. QED
    BY <1>2, <1>3, <1>4, <1>5, <1>6, <1>7 DEF Monitor

\* The translator of bt_main.c and the branches it patches execute the guest
\* kernel as the processor would: monitor_entry comes back with the
\* translation of the address it was entered for.
THEOREM Implementation == Spec => RunsAsNative
  <1>1. Init => Abstract!Init
    BY DEF Init, Abstract!Init, GuestIp
  <1>2. IInv /\ [Next]_vars => [Abstract!Next]_GuestIp
    <2> SUFFICES ASSUME IInv, [Next]_vars
                 PROVE  Abstract!Next \/ GuestIp' = GuestIp
      OBVIOUS
    <2>1. CASE UNCHANGED vars
      BY <2>1 DEF vars, GuestIp, Nested
    <2>2. CASE Next
      BY <2>2, BootSimulation, GuestSimulation, MonitorSimulation
         DEF Next, GuestStep, Abstract!Next
    <2>3. QED
      BY <2>1, <2>2
  <1>3. QED
    BY Invariance, <1>1, <1>2, PTL DEF Spec, RunsAsNative, Abstract!Spec

----------------------------------------------------------------------------
(* Blocks are made once, from the top of memory down.                      *)

\* The code of a finished block is published or about to be.
CodedInv ==
  \A b \in Eips : tbs[b] = "coded" =>
    b \in jumptable2 \/ \E p \in Cpus : Inside(p) = "publish" /\ cur[p] = b

\* Page faults and other processors do not take a block from the processor
\* that is about to publish it.
LEMMA PublisherStays ==
  ASSUME IInv, NEW p \in Cpus, NEW q \in Cpus, Inside(q) = "publish",
         \/ Booting(p) \/ Guest(p) \/ Monitor(p) \/ Lock(p) \/ Fault(p)
         \/ FaultReturn(p)
  PROVE  Publish(q) \/ (Inside(q)' = "publish" /\ cur'[q] = cur[q])
  <1> USE DEF Transfer, callVars, guestVars, TypeOK, Inside, Nested
  <1>0. TypeOK /\ Frame(p)
    BY Frames DEF IInv
  <1>1. CASE q # p
    BY <1>0, <1>1 DEF Frame
  <1>2. CASE q = p /\ ~Nested(p)
    <2>1. pc[p] = "publish"
      BY <1>2
    <2>2. Publish(p) \/ Fault(p)
      BY <2>1, <1>2
         DEF Booting, IdtEntry, WalkEdge, WalkChained, BootReturn, BootDone,
             Guest, EnterGuest, DirectJump, DirectExit, IndirectHit,
             IndirectMiss, Return, Monitor, MonitorEntry, Reentry, Lock, Own,
             FindHit, FindMiss, Place, Emit, MapEip, Disown, Unlock, CacheAdd,
             Patch, Resume, FaultReturn, Translator
    <2>3. QED
      BY <1>0, <1>2, <2>1, <2>2 DEF Fault
  <1>3. CASE q = p /\ Nested(p)
    <2>1. fault[p] = "publish" /\ lock_owner = p
      BY <1>3, LockFacts
    <2>2. pc[p] \in {"guest", "monitor", "fatal"}
      BY <1>3 DEF IInv, NestInv
    <2>3. Guest(p) \/ Reentry(p) \/ FaultReturn(p)
      BY <2>1, <2>2
         DEF Booting, IdtEntry, WalkEdge, WalkChained, BootReturn, BootDone,
             Monitor, MonitorEntry, Lock, Own, FindHit, FindMiss, Place, Emit,
             Publish, MapEip, Disown, Unlock, CacheAdd, Patch, Resume, Fault,
             Faultable, Translator
    <2>4. CASE Guest(p) \/ Reentry(p)
      BY <1>3, <2>1, <2>4
         DEF Guest, EnterGuest, DirectJump, DirectExit, IndirectHit,
             IndirectMiss, Return, Reentry
    <2>5. CASE FaultReturn(p)
      BY <1>0, <1>3, <2>1, <2>5 DEF FaultReturn
    <2>6. QED
      BY <2>3, <2>4, <2>5
  <1>4. QED
    BY <1>1, <1>2, <1>3

\* A processor that makes a block makes one that does not exist: nobody else
\* is about to publish it.
LEMMA MakesNew ==
  ASSUME IInv, CodedInv, NEW p \in Cpus,
         FindMiss(p) \/ Place(p) \/ Emit(p)
  PROVE  LET b == IF FindMiss(p) THEN eip[p] ELSE cur[p]
         IN  /\ b \in Eips /\ b \notin jumptable2 /\ tbs[b] # "coded"
             /\ \A e \in Eips \ {b} : tbs'[e] = tbs[e]
             /\ jumptable2' = jumptable2
  <1> USE DEF Transfer, TypeOK
  <1>0. TypeOK
    BY DEF IInv
  <1> DEFINE b == IF FindMiss(p) THEN eip[p] ELSE cur[p]
  <1>1. pc[p] \in {"find", "place", "emit"} /\ Inside(p) = pc[p]
    BY At DEF FindMiss, Place, Emit
  <1>2. b \in Eips /\ Hits(b) = {}
    BY <1>0, <1>1 DEF IInv, CallInv, CallOK, FindMiss, Place, Emit
  <1>3. b \notin jumptable2
    BY <1>0, <1>2, NoHitNoBlock
  <1>4. ASSUME NEW q \in Cpus, Inside(q) = "publish" PROVE FALSE
    BY <1>1, <1>4, Exclusive DEF Locked, Owned
  <1>5. tbs[b] # "coded"
    BY <1>2, <1>3, <1>4 DEF CodedInv
  <1>6. jumptable2' = jumptable2 /\ \A e \in Eips \ {b} : tbs'[e] = tbs[e]
    BY <1>0, <1>2 DEF FindMiss, Place, Emit, lockVars
  <1>7. QED
    BY <1>2, <1>3, <1>5, <1>6

LEMMA CodedStep == IInv /\ CodedInv /\ [Next]_vars => CodedInv'
  <1> SUFFICES ASSUME IInv, TypeOK, CodedInv, [Next]_vars,
                      NEW b \in Eips, tbs'[b] = "coded"
               PROVE  b \in jumptable2'
                      \/ \E q \in Cpus : Inside(q)' = "publish" /\ cur'[q] = b
    BY DEF CodedInv, IInv
  <1>1. CASE UNCHANGED vars
    BY <1>1 DEF vars, CodedInv, Inside, Nested
  <1>2. ASSUME NEW p \in Cpus,
               \/ Booting(p) \/ Guest(p) \/ Monitor(p) \/ Lock(p) \/ Fault(p)
               \/ FaultReturn(p)
        PROVE  b \in jumptable2'
               \/ \E q \in Cpus : Inside(q)' = "publish" /\ cur'[q] = b
    <2>1. CASE tbs[b] = "coded" /\ b \in jumptable2
      BY <2>1, StoreGrows DEF Grows
    <2>2. ASSUME NEW q \in Cpus, Inside(q) = "publish", cur[q] = b
          PROVE  b \in jumptable2'
                 \/ \E r \in Cpus : Inside(r)' = "publish" /\ cur'[r] = b
      BY <1>2, <2>2, PublisherStays DEF Publish
    <2>3. CASE tbs[b] # "coded" /\ ~Emit(p)
      <3>1. FindMiss(p) \/ Place(p) \/ tbs' = tbs
        BY <1>2, <2>3, StoreFrame DEF Publish
      <3>2. QED
        BY <2>3, <3>1 DEF FindMiss, Place, TypeOK
    <2>4. CASE tbs[b] # "coded" /\ Emit(p)
      <3>1. b = cur[p]
        BY <2>4 DEF Emit, TypeOK
      <3>2. ~Nested(p) /\ fault' = fault /\ cur' = cur /\ pc'[p] = "publish"
        BY <2>4, At DEF Emit, Transfer, callVars, TypeOK
      <3>3. QED
        BY <3>1, <3>2 DEF Inside, Nested
    <2>5. QED
      BY <2>1, <2>2, <2>3, <2>4 DEF CodedInv
  <1>3. QED
    BY <1>1, <1>2 DEF Next

LEMMA CodedInvariance == Spec => []CodedInv
  <1>1. Init => CodedInv
    BY DEF Init, CodedInv
  <1>2. QED
    BY <1>1, CodedStep, Invariance, PTL DEF Spec

\* tb_gen_translated_code generates the code of a block once, although the
\* first lookup of another processor for the same address may miss as well:
\* code that processors execute and branches lead to is never written again.
THEOREM GeneratedOnce == Spec => TranslatedOnce
  <1>1. ASSUME IInv, CodedInv, Next, NEW b \in Eips, tbs[b] = "coded"
        PROVE  tbs'[b] = "coded"
    <2>1. PICK p \in Cpus :
            \/ Booting(p) \/ Guest(p) \/ Monitor(p) \/ Lock(p) \/ Fault(p)
            \/ FaultReturn(p)
      BY <1>1 DEF Next
    <2>2. CASE FindMiss(p) \/ Place(p) \/ Emit(p)
      BY <1>1, <2>2, MakesNew
    <2>3. CASE tbs' = tbs
      BY <1>1, <2>3
    <2>4. QED
      BY <1>1, <2>1, <2>2, <2>3, StoreFrame DEF Publish
  <1>2. IInv /\ CodedInv /\ [Next]_vars
          => [\A b \in Eips : tbs[b] = "coded" => tbs'[b] = "coded"]_vars
    BY <1>1
  <1>3. QED
    BY <1>2, Invariance, CodedInvariance, PTL DEF Spec, TranslatedOnce

\* A straight line that does not pass through the beginning of another, but
\* meets it, begins below it and contains it.
LEMMA MeetsBelow ==
  ASSUME NEW b \in Eips, NEW c \in Eips, b \notin Run[c],
         NEW i \in Run[b], i \in Run[c]
  PROVE  b < c /\ Run[c] \subseteq Run[b]
  <1>1. b \in Nat /\ c \in Nat /\ i \in Eips /\ i \in Nat /\ Term \subseteq Nat
    BY GuestAssumption DEF Run
  <1>2. b <= i /\ c <= i /\ \A t \in Term : ~(b <= t /\ t < i)
    BY DEF Run
  <1>3. b < c
    <2>1. CASE c <= b
      <3>1. ASSUME NEW t \in Term, c <= t, t < b
            PROVE  FALSE
        <4>1. t < i
          BY <1>1, <1>2, <3>1
        <4>2. QED
          BY <3>1, <4>1 DEF Run
      <3>2. QED
        BY <2>1, <3>1 DEF Run
    <2>2. QED
      BY <1>1, <2>1
  <1>4. ASSUME NEW j \in Run[c]
        PROVE  j \in Run[b]
    <2>1. j \in Eips /\ j \in Nat /\ c <= j
      BY GuestAssumption DEF Run
    <2>2. ASSUME NEW t \in Term, b <= t, t < j
          PROVE  FALSE
      <3>1. CASE t < c
        BY <1>1, <1>2, <2>2, <3>1
      <3>2. CASE c <= t
        BY <2>2, <3>2 DEF Run
      <3>3. QED
        BY <1>1, <3>1, <3>2
    <2>3. QED
      BY <1>1, <1>3, <2>1, <2>2 DEF Run
  <1>5. QED
    BY <1>3, <1>4

\* A block enters jumptable2 below those it overlaps and contains them: the
\* tree, whose comparison takes overlapping blocks for equal, keeps an order.
THEOREM PublishedBelow == Spec => NewBlockFirst
  <1>1. ASSUME IInv, Next, NEW b \in jumptable2' \ jumptable2,
               NEW c \in jumptable2, Run[b] \cap Run[c] # {}
        PROVE  b < c /\ Run[c] \subseteq Run[b]
    <2>1. PICK p \in Cpus :
            \/ Booting(p) \/ Guest(p) \/ Monitor(p) \/ Lock(p) \/ Fault(p)
            \/ FaultReturn(p)
      BY <1>1 DEF Next
    <2>2. Publish(p)
      BY <1>1, <2>1, StoreFrame DEF FindMiss, Place, Emit, lockVars
    <2>3. pc[p] = "publish" /\ jumptable2' = jumptable2 \cup {cur[p]}
      BY <2>2 DEF Publish, Transfer
    <2>4. Inside(p) = "publish"
      BY <1>1, <2>3, At
    <2>5. b = cur[p] /\ b = eip[p] /\ Hits(b) = {}
      BY <1>1, <2>3, <2>4 DEF IInv, CallInv, CallOK
    <2>6. b \in Eips /\ c \in Eips
      BY <1>1, <2>5 DEF IInv, TypeOK
    <2>7. b \notin Run[c]
      BY <1>1, <2>5 DEF Hits
    <2>8. QED
      BY <1>1, <2>6, <2>7, MeetsBelow
  <1>2. IInv /\ [Next]_vars
          => [\A b \in jumptable2' \ jumptable2 : \A c \in jumptable2 :
                Run[b] \cap Run[c] # {} => b < c /\ Run[c] \subseteq Run[b]]_vars
    BY <1>1
  <1>3. QED
    BY <1>2, Invariance, PTL DEF Spec, NewBlockFirst

----------------------------------------------------------------------------
(* jump_boundaries.                                                        *)

\* jump_boundaries has a location in the middle of a block.
Recorded(l) == l.eip # l.tb => l.eip \in jumps[l.tb]

\* So it has every location in use, and those a processor is about to use
\* after it has called tb_add_jump.
RecordInv ==
  /\ \A s \in Slot : chain[s] # Unpatched => Recorded(chain[s])
  /\ \A p \in Cpus : \A entry \in jumptable1[p] : Recorded(entry.tc)
  /\ \A p \in Cpus : pc[p] \in Mapped => Recorded(tc_offset[p])

\* tb_add_jump only adds to a published block.
LEMMA JumpsGrow ==
  ASSUME IInv, [Next]_vars
  PROVE  \A b \in jumptable2 : jumps[b] \subseteq jumps'[b]
  <1>0. TypeOK
    BY DEF IInv
  <1>1. ASSUME NEW p \in Cpus, Place(p), NEW b \in jumptable2
        PROVE  jumps'[b] = jumps[b]
    <2>1. pc[p] = "place" /\ Inside(p) = "place"
      BY <1>1, At DEF Place, Transfer
    <2>2. cur[p] \in Eips /\ Hits(cur[p]) = {}
      BY <1>0, <2>1 DEF IInv, CallInv, CallOK, TypeOK
    <2>3. cur[p] # b
      BY <1>0, <2>2, NoHitNoBlock
    <2>4. QED
      BY <1>0, <1>1, <2>3 DEF Place, TypeOK
  <1>2. ASSUME NEW p \in Cpus, MapEip(p), NEW b \in jumptable2
        PROVE  jumps[b] \subseteq jumps'[b]
    BY <1>0, <1>2 DEF MapEip, TypeOK
  <1>3. ASSUME NEW p \in Cpus,
               \/ Booting(p) \/ Guest(p) \/ Monitor(p) \/ Lock(p) \/ Fault(p)
               \/ FaultReturn(p)
        PROVE  Place(p) \/ MapEip(p) \/ jumps' = jumps
    BY <1>3
       DEF Booting, IdtEntry, WalkEdge, WalkChained, BootReturn, BootDone,
           Guest, EnterGuest, DirectJump, DirectExit, IndirectHit,
           IndirectMiss, Return, Monitor, MonitorEntry, Reentry, Lock, Own,
           FindHit, FindMiss, Emit, Publish, Disown, Unlock, CacheAdd, Patch,
           Resume, Fault, FaultReturn, Translator, storeVars
  <1>4. CASE UNCHANGED vars
    BY <1>4 DEF vars
  <1>5. QED
    BY <1>1, <1>2, <1>3, <1>4 DEF Next

LEMMA RecordedStable ==
  ASSUME IInv, [Next]_vars, NEW l, Valid(l), Recorded(l)
  PROVE  Recorded(l)'
  BY JumpsGrow DEF Recorded, Valid

\* A processor becomes ready to use a location in MapEip only.
LEMMA MappedFrame ==
  ASSUME IInv, NEW p \in Cpus, pc'[p] \in Mapped,
         \/ Booting(p) \/ Guest(p) \/ Monitor(p) \/ Lock(p) \/ Fault(p)
         \/ FaultReturn(p)
  PROVE  MapEip(p) \/ (pc[p] \in Mapped /\ tc_offset'[p] = tc_offset[p])
  <1>0. TypeOK
    BY DEF IInv
  <1>1. CASE Booting(p) \/ Guest(p) \/ Lock(p) \/ Fault(p)
    BY <1>0, <1>1
       DEF Booting, IdtEntry, WalkEdge, WalkChained, BootReturn, BootDone,
           Guest, EnterGuest, DirectJump, DirectExit, IndirectHit,
           IndirectMiss, Return, Lock, Fault, Transfer, TypeOK, Mapped
  <1>2. CASE FaultReturn(p)
    BY <1>0, <1>2, LockFacts
       DEF FaultReturn, Transfer, TypeOK, Mapped, Faultable
  <1>3. CASE Monitor(p)
    BY <1>0, <1>3
       DEF Monitor, MonitorEntry, Reentry, Own, FindHit, FindMiss, Place,
           Emit, Publish, Disown, Unlock, CacheAdd, Patch, Resume,
           Translator, callVars, Transfer, TypeOK, Mapped
  <1>4. QED
    BY <1>1, <1>2, <1>3

LEMMA RecordStep == IInv /\ RecordInv /\ [Next]_vars => RecordInv'
  <1> SUFFICES ASSUME IInv, TypeOK, RecordInv, [Next]_vars PROVE RecordInv'
    BY DEF IInv
  <1>1. CASE UNCHANGED vars
    BY <1>1 DEF vars, RecordInv, Recorded
  <1>2. ASSUME NEW p \in Cpus,
               \/ Booting(p) \/ Guest(p) \/ Monitor(p) \/ Lock(p) \/ Fault(p)
               \/ FaultReturn(p)
        PROVE  RecordInv'
    <2>1. ASSUME NEW s \in Slot, chain'[s] # Unpatched
          PROVE  Recorded(chain[s])'
      <3>1. chain'[s] = chain[s] \/ (Patch(p) /\ chain'[s] = tc_offset[p])
        BY <1>2, <2>1, ChainFrame DEF Patch, Emit, TypeOK
      <3>2. CASE chain'[s] = chain[s]
        <4>1. Valid(chain[s]) /\ Recorded(chain[s])
          BY <2>1, <3>2 DEF IInv, ChainSound, RecordInv
        <4>2. QED
          BY <3>2, <4>1, JumpsGrow DEF Recorded, Valid
      <3>3. CASE Patch(p) /\ chain'[s] = tc_offset[p]
        <4>1. Valid(tc_offset[p]) /\ Recorded(tc_offset[p])
          BY <3>3, MappedCall DEF Patch, Transfer, Mapped, RecordInv
        <4>2. QED
          BY <3>3, <4>1, JumpsGrow DEF Recorded, Valid
      <3>4. QED
        BY <3>1, <3>2, <3>3
    <2>2. ASSUME NEW q \in Cpus, NEW entry \in jumptable1'[q]
          PROVE  Recorded(entry.tc)'
      <3>1. CASE entry \in jumptable1[q]
        <4>1. Valid(entry.tc) /\ Recorded(entry.tc)
          BY <3>1 DEF IInv, CacheSound, RecordInv
        <4>2. QED
          BY <4>1, RecordedStable DEF Recorded
      <3>2. CASE entry \notin jumptable1[q]
        <4>1. CacheAdd(p)
          <5>1. ~IndirectHit(p)
            BY <2>2, <3>2 DEF IndirectHit, AfterHit, TypeOK
          <5>2. QED
            BY <1>2, <2>2, <3>2, <5>1, CacheFrame
        <4>2. entry.tc = tc_offset[p]
          BY <2>2, <3>2, <4>1 DEF CacheAdd, AfterAdd, TypeOK
        <4>3. Valid(entry.tc) /\ Recorded(entry.tc)
          BY <4>1, <4>2, MappedCall DEF CacheAdd, Transfer, Mapped, RecordInv
        <4>4. QED
          BY <4>3, RecordedStable DEF Recorded
      <3>3. QED
        BY <3>1, <3>2
    <2>3. ASSUME NEW q \in Cpus, pc'[q] \in Mapped
          PROVE  Recorded(tc_offset[q])'
      <3>1. CASE pc[q] \in Mapped /\ tc_offset'[q] = tc_offset[q]
        <4>1. Valid(tc_offset[q]) /\ Recorded(tc_offset[q])
          BY <3>1, MappedCall DEF RecordInv
        <4>2. QED
          BY <3>1, <4>1, JumpsGrow DEF Recorded, Valid
      <3>2. CASE q = p /\ MapEip(p)
        <4>1. cur[p] \in Eips /\ tc_offset'[p] = [tb |-> cur[p], eip |-> eip[p]]
          BY <3>2 DEF MapEip, TypeOK
        <4>2. cur[p] # eip[p] => eip[p] \in jumps'[cur[p]]
          BY <3>2, <4>1 DEF MapEip, TypeOK
        <4>3. QED
          BY <3>2, <4>1, <4>2 DEF Recorded
      <3>3. QED
        BY <1>2, <2>3, <3>1, <3>2, Frames, MappedFrame DEF Frame
    <2>4. QED
      BY <2>1, <2>2, <2>3 DEF RecordInv
  <1>3. QED
    BY <1>1, <1>2 DEF Next

\* jump_boundaries of a block, which tb_add_jump fills before the branch is
\* patched, has every address in the middle of the block that a branch or a
\* table entry leads to.
THEOREM Recording == Spec => []EntriesRecorded
  <1>1. Init => RecordInv
    BY DEF Init, RecordInv, Mapped
  <1>2. IInv /\ RecordInv => EntriesRecorded
    BY DEF IInv, CacheSound, RecordInv, Recorded, EntriesRecorded
  <1>3. QED
    BY <1>1, <1>2, RecordStep, Invariance, PTL DEF Spec

----------------------------------------------------------------------------
(* The prologues of the interrupt handlers.                                *)

\* The branches the walk of patch_until_fs_seen still has to follow, and the
\* one it is having chained.
Open == walk \cup (IF phase = "idt" /\ pc[Boot] \in Busy THEN {prev_tb[Boot]}
                   ELSE {})

\* The branches in E have been followed: they are chained for good, and those
\* behind them are followed or open.
Followed(E) ==
  /\ \A s \in E : s \in Slot /\ chain[s] # Unpatched
                  /\ EdgesFrom(chain[s]) \subseteq E \cup Open
  /\ \A h \in Handlers :
       idt[h].tb # Native =>
         Valid(idt[h]) /\ EdgesFrom(idt[h]) \subseteq E \cup Open

\* Their blocks are published, so that their code is not written again, and
\* no processor is about to redirect one of them.
Settled(E) ==
  /\ \A s \in E \cup Open : s # NoSlot => s.tb \in jumptable2
  /\ \A p \in Cpus : /\ pc[p] = "monitor" => edge[p] \notin E
                     /\ Inside(p) \in Busy => prev_tb[p] \notin E

\* The walk is over when the table is put to use; before, a branch that was
\* given to the translator is chained when it comes back.
WalkOver ==
  /\ phase = "run" => walk = {}
  /\ phase = "idt" /\ pc[Boot] = "resume" /\ prev_tb[Boot] # NoSlot =>
       chain[prev_tb[Boot]] = tc_offset[Boot]

WalkInv == WalkOver /\ \E E \in SUBSET Slot : Followed(E) /\ Settled(E)

LEMMA EdgesPublished ==
  ASSUME TypeOK, NEW l, Valid(l)
  PROVE  \A s \in EdgesFrom(l) : s \in Slot /\ s.tb \in jumptable2
  <1>1. \A s \in EdgesFrom(l) : s.tb = l.tb
    BY DEF EdgesFrom
  <1>2. QED
    BY <1>1, EdgesFromSlot DEF Valid

LEMMA BooterIsBoot ==
  ASSUME IInv, NEW p \in Cpus, Booting(p)
  PROVE  p = Boot /\ phase = "idt"
  <1>1. phase \in {"idt", "run"} /\ BootInv
    BY DEF IInv, TypeOK
  <1>2. pc[p] = "boot" \/ (phase = "idt" /\ pc[p] = "resume")
    BY DEF Booting, IdtEntry, WalkEdge, WalkChained, BootReturn, BootDone,
           Transfer
  <1>3. QED
    BY <1>1, <1>2 DEF BootInv

\* While the table is built, all steps are taken by the same processor.
LEMMA BootOnly ==
  ASSUME IInv, NEW p \in Cpus, phase = "idt",
         \/ Booting(p) \/ Guest(p) \/ Monitor(p) \/ Lock(p) \/ Fault(p)
         \/ FaultReturn(p)
  PROVE  p = Boot /\ ~Guest(p) /\ ~Fault(p) /\ ~FaultReturn(p)
         /\ pc[p] \in Busy \cup {"boot"}
  <1>1. pc[Boot] \in Busy \cup {"boot"} /\ \A q \in Cpus \ {Boot} : pc[q] = "native"
    BY DEF IInv, BootInv
  <1>2. pc[p] # "native"
    BY DEF Booting, IdtEntry, WalkEdge, WalkChained, BootReturn, BootDone,
           Guest, EnterGuest, DirectJump, DirectExit, IndirectHit,
           IndirectMiss, Return, Monitor, MonitorEntry, Reentry, Lock, Own,
           FindHit, FindMiss, Place, Emit, Publish, MapEip, Disown, Unlock,
           CacheAdd, Patch, Resume, Fault, FaultReturn, Translator, Transfer,
           Faultable
  <1>3. QED
    BY <1>1, <1>2, DispatchAssumption
       DEF Guest, EnterGuest, DirectJump, DirectExit, IndirectHit,
           IndirectMiss, Return, Fault, FaultReturn, Transfer, Busy, Locked,
           Owned

LEMMA WalkOverStep == IInv /\ WalkOver /\ [Next]_vars => WalkOver'
  <1> SUFFICES ASSUME IInv, TypeOK, WalkOver, [Next]_vars PROVE WalkOver'
    BY DEF IInv
  <1>1. CASE UNCHANGED vars
    BY <1>1 DEF vars, WalkOver
  <1>2. ASSUME NEW p \in Cpus, Booting(p) PROVE WalkOver'
    <2>1. p = Boot /\ phase = "idt"
      BY <1>2, BooterIsBoot
    <2>2. pc'[p] # "resume"
      BY <1>2 DEF Booting, IdtEntry, WalkEdge, WalkChained, BootReturn,
                  BootDone, Transfer, TypeOK
    <2>3. phase' = "run" => walk' = {}
      BY <1>2, <2>1
         DEF Booting, IdtEntry, WalkEdge, WalkChained, BootReturn, BootDone
    <2>4. QED
      BY <2>1, <2>2, <2>3 DEF WalkOver
  <1>3. ASSUME NEW p \in Cpus,
               Guest(p) \/ Monitor(p) \/ Lock(p) \/ Fault(p) \/ FaultReturn(p)
        PROVE  WalkOver'
    <2>1. phase' = phase /\ walk' = walk
      BY <1>3
         DEF Guest, EnterGuest, DirectJump, DirectExit, IndirectHit,
             IndirectMiss, Return, Monitor, MonitorEntry, Reentry, Lock, Own,
             FindHit, FindMiss, Place, Emit, Publish, MapEip, Disown, Unlock,
             CacheAdd, Patch, Resume, Fault, FaultReturn, Translator,
             bootVars
    <2>2. ASSUME phase = "idt", pc'[Boot] = "resume" PROVE Patch(Boot)
      <3>1. p = Boot /\ (Monitor(p) \/ Lock(p))
        BY <1>3, <2>2, BootOnly
      <3>2. QED
        BY <1>3, <2>2, <3>1, BootOnly
           DEF Monitor, MonitorEntry, Reentry, Lock, Own, FindHit, FindMiss,
               Place, Emit, Publish, MapEip, Disown, Unlock, CacheAdd, Resume,
               Translator, Transfer, TypeOK
    <2>3. ASSUME Patch(Boot), prev_tb'[Boot] # NoSlot
          PROVE  chain'[prev_tb'[Boot]] = tc_offset'[Boot]
      BY <2>3, DispatchAssumption DEF Patch, callVars, TypeOK
    <2>4. QED
      BY <2>1, <2>2, <2>3 DEF WalkOver
  <1>4. QED
    BY <1>1, <1>2, <1>3 DEF Next

\* A branch that has been followed keeps its destination.
LEMMA ChainKept ==
  ASSUME IInv, NEW E \in SUBSET Slot, Settled(E), NEW p \in Cpus,
         \/ Booting(p) \/ Guest(p) \/ Monitor(p) \/ Lock(p) \/ Fault(p)
         \/ FaultReturn(p)
  PROVE  \A s \in E : chain'[s] = chain[s]
  <1>0. TypeOK
    BY DEF IInv
  <1>1. CASE Patch(p)
    <2>1. Inside(p) \in Busy
      BY <1>1, At DEF Patch, Transfer, Busy
    <2>2. prev_tb[p] \notin E
      BY <2>1 DEF Settled
    <2>3. QED
      BY <1>0, <1>1, <2>2 DEF Patch, TypeOK
  <1>2. CASE Emit(p)
    <2>1. pc[p] = "emit" /\ Inside(p) = "emit"
      BY <1>2, At DEF Emit, Transfer
    <2>2. cur[p] \in Eips /\ Hits(cur[p]) = {}
      BY <1>0, <2>1 DEF IInv, CallInv, CallOK, TypeOK
    <2>3. cur[p] \notin jumptable2
      BY <1>0, <2>2, NoHitNoBlock
    <2>4. \A s \in E : s.tb # cur[p]
      BY <2>3, SlotLoc DEF Settled
    <2>5. QED
      BY <1>2, <2>4 DEF Emit
  <1>3. QED
    BY <1>1, <1>2, ChainFrame

\* How a processor comes to be serving a call.
LEMMA BusyFrame ==
  ASSUME IInv, NEW p \in Cpus, Inside(p)' \in Busy,
         Guest(p) \/ Monitor(p) \/ Lock(p) \/ Fault(p) \/ FaultReturn(p)
  PROVE  \/ MonitorEntry(p)
         \/ Inside(p) \in Busy /\ prev_tb'[p] = prev_tb[p]
  <1> USE DEF Transfer, callVars, guestVars, TypeOK, Inside, Nested, Busy,
              Locked, Owned
  <1>0. TypeOK
    BY DEF IInv
  <1>1. CASE Guest(p)
    BY <1>0, <1>1
       DEF Guest, EnterGuest, DirectJump, DirectExit, IndirectHit,
           IndirectMiss, Return
  <1>2. CASE Lock(p) \/ Fault(p)
    BY <1>0, <1>2, At DEF Lock, Fault, Faultable
  <1>3. CASE FaultReturn(p)
    BY <1>0, <1>3, LockFacts DEF FaultReturn, Faultable
  <1>4. CASE Reentry(p)
    BY <1>0, <1>4 DEF Reentry
  <1>5. CASE Translator(p) \/ CacheAdd(p) \/ Patch(p) \/ Resume(p)
    BY <1>0, <1>5, At
       DEF Own, FindHit, FindMiss, Place, Emit, Publish, MapEip, Disown,
           Unlock, CacheAdd, Patch, Resume, Translator
  <1>6. QED
    BY <1>1, <1>2, <1>3, <1>4, <1>5 DEF Monitor

\* How it comes to be about to read one.
LEMMA ExitFrame ==
  ASSUME IInv, NEW p \in Cpus, pc'[p] = "monitor",
         Guest(p) \/ Monitor(p) \/ Lock(p) \/ Fault(p) \/ FaultReturn(p)
  PROVE  edge'[p] = NoSlot \/ chain[edge'[p]] = Unpatched
  <1> USE DEF Transfer, TypeOK
  <1>0. TypeOK
    BY DEF IInv
  <1>1. CASE Guest(p)
    <2>1. CASE DirectExit(p)
      BY <1>0, <2>1 DEF DirectExit
    <2>2. CASE IndirectMiss(p)
      BY <1>0, <2>2 DEF IndirectMiss
    <2>3. CASE EnterGuest(p) \/ DirectJump(p) \/ IndirectHit(p) \/ Return(p)
      BY <1>0, <2>3 DEF EnterGuest, DirectJump, IndirectHit, Return
    <2>4. QED
      BY <1>1, <2>1, <2>2, <2>3 DEF Guest
  <1>2. CASE Lock(p) \/ Fault(p) \/ FaultReturn(p)
    BY <1>0, <1>2, LockFacts DEF Lock, Fault, FaultReturn, Faultable
  <1>3. CASE Monitor(p)
    BY <1>0, <1>3
       DEF Monitor, MonitorEntry, Reentry, Own, FindHit, FindMiss, Place,
           Emit, Publish, MapEip, Disown, Unlock, CacheAdd, Patch, Resume,
           Translator
  <1>4. QED
    BY <1>1, <1>2, <1>3

LEMMA SettledStep ==
  ASSUME IInv, NEW E \in SUBSET Slot, Followed(E), Settled(E), NEW p \in Cpus,
         Guest(p) \/ Monitor(p) \/ Lock(p) \/ Fault(p) \/ FaultReturn(p)
  PROVE  \A q \in Cpus : /\ pc'[q] = "monitor" => edge'[q] \notin E
                         /\ Inside(q)' \in Busy => prev_tb'[q] \notin E
  <1>0. TypeOK /\ Frame(p)
    BY Frames DEF IInv
  <1>1. ASSUME NEW q \in Cpus \ {p}
        PROVE  /\ pc'[q] = "monitor" => edge'[q] \notin E
               /\ Inside(q)' \in Busy => prev_tb'[q] \notin E
    BY <1>0, <1>1 DEF Frame, Inside, Nested, Settled
  <1>2. ASSUME pc'[p] = "monitor" PROVE edge'[p] \notin E
    BY <1>2, ExitFrame, SlotLoc DEF Followed
  <1>3. ASSUME Inside(p)' \in Busy PROVE prev_tb'[p] \notin E
    <2>1. CASE MonitorEntry(p)
      BY <1>0, <2>1 DEF MonitorEntry, Transfer, TypeOK, Settled
    <2>2. CASE Inside(p) \in Busy /\ prev_tb'[p] = prev_tb[p]
      BY <2>2 DEF Settled
    <2>3. QED
      BY <1>3, <2>1, <2>2, BusyFrame
  <1>4. QED
    BY <1>1, <1>2, <1>3

\* When nothing is added to the shadow table, the same branches stay followed.
LEMMA SameFollowed ==
  ASSUME IInv, [Next]_vars, NEW E \in SUBSET Slot, Followed(E), Settled(E),
         NEW p \in Cpus, WalkOver,
         Guest(p) \/ Monitor(p) \/ Lock(p) \/ Fault(p) \/ FaultReturn(p)
  PROVE  Followed(E)' /\ Settled(E)'
  <1>0. TypeOK
    BY DEF IInv
  <1>1. phase' = phase /\ walk' = walk /\ idt' = idt
    BY DEF Guest, EnterGuest, DirectJump, DirectExit, IndirectHit,
           IndirectMiss, Return, Monitor, MonitorEntry, Reentry, Lock, Own,
           FindHit, FindMiss, Place, Emit, Publish, MapEip, Disown, Unlock,
           CacheAdd, Patch, Resume, Fault, FaultReturn, Translator, bootVars
  <1>2. Open' = Open
    <2>1. CASE phase = "idt"
      <3>1. p = Boot /\ (Monitor(p) \/ Lock(p)) /\ pc[p] \in Busy
        <4>1. p = Boot /\ (Monitor(p) \/ Lock(p)) /\ pc[p] \in Busy \cup {"boot"}
          BY <2>1, BootOnly
        <4>2. pc[p] # "boot"
          BY <4>1
             DEF Monitor, MonitorEntry, Reentry, Lock, Own, FindHit, FindMiss,
                 Place, Emit, Publish, MapEip, Disown, Unlock, CacheAdd,
                 Patch, Resume, Translator, Transfer
        <4>3. QED
          BY <4>1, <4>2
      <3>2. pc'[p] \in Busy /\ prev_tb' = prev_tb
        BY <1>0, <2>1, <3>1
           DEF Monitor, MonitorEntry, Reentry, Lock, Own, FindHit, FindMiss,
               Place, Emit, Publish, MapEip, Disown, Unlock, CacheAdd, Patch,
               Resume, Translator, Transfer, TypeOK, Busy, Locked, Owned,
               callVars
      <3>3. QED
        BY <1>1, <3>1, <3>2 DEF Open
    <2>2. CASE phase # "idt"
      BY <1>1, <2>2 DEF Open
    <2>3. QED
      BY <2>1, <2>2
  <1>3. \A s \in E : chain'[s] = chain[s]
    BY ChainKept
  <1>4. Followed(E)'
    <2>1. \A h \in Handlers : idt[h].tb # Native => Valid(idt[h])'
      BY <1>0, <1>1, ValidStable DEF Followed, TypeOK
    <2>2. QED
      BY <1>1, <1>2, <1>3, <2>1 DEF Followed, EdgesFrom
  <1>5. \A s \in E \cup Open : s # NoSlot => s.tb \in jumptable2'
    BY StoreGrows DEF Settled, Grows
  <1>6. QED
    BY <1>2, <1>4, <1>5, SettledStep DEF Settled

\* The steps of the walk.
LEMMA BootFollowed ==
  ASSUME IInv, [Next]_vars, NEW E \in SUBSET Slot, Followed(E), Settled(E),
         WalkOver, NEW p \in Cpus, Booting(p)
  PROVE  \E D \in SUBSET Slot : Followed(D)' /\ Settled(D)'
  <1> USE DEF Transfer, lockVars, storeVars, guestVars, callVars
  <1>0. TypeOK /\ p = Boot /\ phase = "idt" /\ BootInv
    BY BooterIsBoot DEF IInv
  <1>1. \A q \in Cpus \ {Boot} :
          /\ pc[q] = "native" /\ ~Nested(q) /\ pc'[q] = "native" /\ ~Nested(q)'
    BY <1>0, At, Frames DEF BootInv, Frame, Nested
  <1>2. UNCHANGED <<tbs, jumptable2, chain>> /\ ~Nested(p) /\ ~Nested(p)'
    <2>1. /\ UNCHANGED <<tbs, jumptable2, chain>> /\ UNCHANGED fault
          /\ pc[p] \in {"boot", "resume"}
      BY DEF Booting, IdtEntry, WalkEdge, WalkChained, BootReturn, BootDone
    <2>2. QED
      BY <2>1, At DEF Nested
  <1>3. \A l : Valid(l)' = Valid(l) /\ EdgesFrom(l)' = EdgesFrom(l)
    BY <1>2 DEF Valid, EdgesFrom
  \* only the branch the processor works at may not have been followed
  <1>4. ASSUME NEW D \in SUBSET Slot, pc'[p] \in Busy => prev_tb'[p] \notin D,
               pc'[p] # "monitor",
               \A s \in D \cup Open' : s # NoSlot => s.tb \in jumptable2
        PROVE  Settled(D)'
    BY <1>0, <1>1, <1>2, <1>4, DispatchAssumption
       DEF Settled, Inside, Busy, Locked, Owned
  <1>5. CASE IdtEntry(p)
    <2>1. /\ walk = {} /\ walk' = {} /\ idt' = idt
          /\ pc[p] = "boot" /\ pc'[p] = "lock" /\ prev_tb'[p] = NoSlot
      BY <1>0, <1>5 DEF IdtEntry, TypeOK
    <2>2. Open = {} /\ Open' \subseteq {NoSlot}
      BY <1>0, <2>1 DEF Open, Busy, Locked, Owned
    <2>3. Followed(E)'
      BY <1>2, <1>3, <2>1, <2>2 DEF Followed
    <2>4. Settled(E)'
      BY <1>4, <2>1, <2>2, SlotLoc DEF Settled
    <2>5. QED
      BY <2>3, <2>4
  <1>6. CASE WalkEdge(p)
    <2>1. PICK s \in walk : /\ chain[s] = Unpatched /\ walk' = walk \ {s}
                            /\ prev_tb' = [prev_tb EXCEPT ![p] = s]
      BY <1>6 DEF WalkEdge
    <2>2. /\ idt' = idt /\ phase' = phase
          /\ pc[p] = "boot" /\ pc'[p] = "lock" /\ prev_tb'[p] = s
      BY <1>0, <1>6, <2>1 DEF WalkEdge, TypeOK
    <2>3. Open = walk /\ Open' = walk
      BY <1>0, <2>1, <2>2 DEF Open, Busy, Locked, Owned
    <2>4. s \notin E
      BY <2>1 DEF Followed
    <2>5. Followed(E)'
      BY <1>2, <1>3, <2>2, <2>3 DEF Followed
    <2>6. Settled(E)'
      BY <1>4, <2>2, <2>3, <2>4 DEF Settled
    <2>7. QED
      BY <2>5, <2>6
  <1>7. CASE WalkChained(p)
    <2>1. PICK s \in walk : /\ chain[s] # Unpatched
                            /\ walk' = (walk \ {s}) \cup EdgesFrom(chain[s])
      BY <1>7 DEF WalkChained
    <2>2. idt' = idt /\ phase' = phase /\ pc[p] = "boot" /\ pc'[p] = "boot"
      BY <1>7 DEF WalkChained
    <2>3. Open = walk /\ Open' = (walk \ {s}) \cup EdgesFrom(chain[s])
      BY <1>0, <2>1, <2>2 DEF Open, Busy, Locked, Owned
    <2>4. s \in Slot /\ Valid(chain[s])
      BY <1>0, <2>1 DEF TypeOK, IInv, ChainSound
    <2> DEFINE D == E \cup {s}
    <2>5. Followed(D)'
      BY <1>2, <1>3, <2>1, <2>2, <2>3, <2>4 DEF Followed
    <2>6. \A r \in EdgesFrom(chain[s]) : r.tb \in jumptable2
      BY <1>0, <2>4, EdgesPublished
    <2>7. \A r \in D \cup Open' : r # NoSlot => r.tb \in jumptable2
      BY <2>1, <2>3, <2>6 DEF Settled
    <2>8. Settled(D)'
      BY <1>4, <2>2, <2>4, <2>7 DEF Busy, Locked, Owned
    <2>9. QED
      BY <2>4, <2>5, <2>8
  <1>8. CASE BootReturn(p)
    <2>1. /\ phase' = phase /\ pc[p] = "resume" /\ pc'[p] = "boot"
          /\ walk' = walk \cup EdgesFrom(tc_offset[p])
      BY <1>0, <1>8 DEF BootReturn, TypeOK
    <2>2. Open = walk \cup {prev_tb[p]} /\ Open' = walk'
      BY <1>0, <2>1 DEF Open, Busy, Locked, Owned
    <2>3. tc_offset[p] \in Loc /\ Valid(tc_offset[p])
      BY <2>1, MappedCall DEF Mapped
    <2>4. \A r \in EdgesFrom(tc_offset[p]) : r \in Slot /\ r.tb \in jumptable2
      BY <1>0, <2>3, EdgesPublished
    <2>5. \A r \in E \cup walk \cup {prev_tb[p]} : r # NoSlot => r.tb \in jumptable2
      BY <2>2 DEF Settled
    <2>6. \A l : Valid(l) => NoSlot \notin EdgesFrom(l)
      BY <1>0, EdgesPublished, SlotLoc
    <2>7. CASE prev_tb[p] = NoSlot
      <3>1. idt' = [idt EXCEPT ![eip[p]] = tc_offset[p]]
        BY <1>8, <2>7 DEF BootReturn
      <3>2. \A s \in E : Valid(chain[s])
        BY DEF Followed, IInv, ChainSound
      <3>3. \A s \in E : EdgesFrom(chain[s]) \subseteq E \cup Open'
        BY <2>1, <2>2, <2>6, <2>7, <3>2 DEF Followed
      <3>4. ASSUME NEW h \in Handlers, idt'[h].tb # Native
            PROVE  Valid(idt'[h]) /\ EdgesFrom(idt'[h]) \subseteq E \cup Open'
        <4>1. CASE idt'[h] = tc_offset[p]
          BY <2>1, <2>2, <2>3, <4>1
        <4>2. CASE idt'[h] = idt[h]
          BY <2>1, <2>2, <2>6, <2>7, <3>4, <4>2 DEF Followed
        <4>3. QED
          BY <1>0, <3>1, <4>1, <4>2 DEF TypeOK
      <3>5. Followed(E)'
        BY <1>2, <1>3, <3>3, <3>4 DEF Followed
      <3>6. Settled(E)'
        BY <1>4, <2>1, <2>2, <2>4, <2>5 DEF Busy, Locked, Owned
      <3>7. QED
        BY <3>5, <3>6
    <2>8. CASE prev_tb[p] # NoSlot
      <3>1. PICK s \in Slot : s = prev_tb[p]
        BY <1>0, <2>8 DEF TypeOK
      <3> DEFINE D == E \cup {s}
      <3>2. idt' = idt /\ chain[s] = tc_offset[p] /\ tc_offset[p] # Unpatched
        BY <1>0, <1>8, <2>1, <2>3, <2>8, <3>1, SlotLoc DEF BootReturn, WalkOver
      <3>3. E \cup Open \subseteq D \cup Open'
        BY <2>1, <2>2, <3>1
      <3>4. EdgesFrom(tc_offset[p]) \subseteq D \cup Open'
        BY <2>1, <2>2
      <3>5. \A r \in D : r \in Slot /\ chain[r] # Unpatched
                         /\ EdgesFrom(chain[r]) \subseteq D \cup Open'
        BY <3>2, <3>3, <3>4 DEF Followed
      <3>6. \A h \in Handlers :
              idt[h].tb # Native =>
                Valid(idt[h]) /\ EdgesFrom(idt[h]) \subseteq D \cup Open'
        BY <3>3 DEF Followed
      <3>7. Followed(D)'
        BY <1>2, <1>3, <3>2, <3>5, <3>6 DEF Followed
      <3>8. \A r \in D \cup Open' : r # NoSlot => r.tb \in jumptable2
        BY <2>1, <2>2, <2>4, <2>5, <3>1
      <3>9. Settled(D)'
        BY <1>4, <2>1, <3>8 DEF Busy, Locked, Owned
      <3>10. QED
        BY <3>7, <3>9
    <2>9. QED
      BY <2>7, <2>8
  <1>9. CASE BootDone(p)
    <2>1. /\ phase' = "run" /\ walk = {} /\ walk' = {} /\ idt' = idt
          /\ pc[p] = "boot" /\ pc'[p] = "native"
      BY <1>0, <1>9 DEF BootDone, TypeOK
    <2>2. Open = {} /\ Open' = {}
      BY <1>0, <2>1 DEF Open, Busy, Locked, Owned
    <2>3. Followed(E)'
      BY <1>2, <1>3, <2>1, <2>2 DEF Followed
    <2>4. Settled(E)'
      BY <1>4, <2>1, <2>2 DEF Settled, Busy, Locked, Owned
    <2>5. QED
      BY <2>3, <2>4
  <1>10. QED
    BY <1>5, <1>6, <1>7, <1>8, <1>9 DEF Booting

LEMMA WalkStep == IInv /\ WalkInv /\ [Next]_vars => WalkInv'
  <1> SUFFICES ASSUME IInv, WalkInv, [Next]_vars PROVE WalkInv'
    OBVIOUS
  <1>1. PICK E \in SUBSET Slot : Followed(E) /\ Settled(E)
    BY DEF WalkInv
  <1>2. WalkOver /\ WalkOver'
    BY WalkOverStep DEF WalkInv
  <1>3. CASE UNCHANGED vars
    <2>1. Followed(E)'
      BY <1>1, <1>3 DEF vars, Followed, Open, EdgesFrom, Valid
    <2>2. Settled(E)'
      BY <1>1, <1>3 DEF vars, Settled, Open, Inside, Nested
    <2>3. QED
      BY <1>2, <2>1, <2>2 DEF WalkInv
  <1>4. CASE Next
    BY <1>1, <1>2, <1>4, BootFollowed, SameFollowed DEF Next, WalkInv
  <1>5. QED
    BY <1>3, <1>4

\* create_shadow_idt and patch_until_fs_seen: however long the prologues are
\* and in whatever blocks they lie, no path from a vector to its "push %es"
\* leaves translated code once the shadow table is in use, and branches that
\* other processors patch later do not change that.
THEOREM ProloguesChained == Spec => []PrologueChained
  <1>1. Init => WalkInv
    <2> SUFFICES ASSUME Init PROVE WalkInv
      OBVIOUS
    <2>1. WalkOver
      BY DispatchAssumption DEF Init, WalkOver
    <2>2. Followed({})
      BY DEF Init, Followed
    <2>3. Open = {}
      BY DispatchAssumption DEF Init, Open, Busy, Locked, Owned
    <2>4. Settled({})
      BY <2>3 DEF Settled
    <2>5. QED
      BY <2>1, <2>2, <2>4 DEF WalkInv
  <1>2. IInv /\ WalkInv => PrologueChained
    <2> SUFFICES ASSUME IInv, WalkInv, phase = "run" PROVE PrologueChained
      BY DEF PrologueChained
    <2>1. PICK E \in SUBSET Slot : Followed(E)
      BY DEF WalkInv
    <2>2. Open = {}
      BY DEF WalkInv, WalkOver, Open
    <2> DEFINE L == {idt[h] : h \in Handlers} \cup {chain[s] : s \in E}
    <2>3. L \in SUBSET Targets
      BY <2>1 DEF Targets, Followed
    <2>4. ASSUME NEW h \in Handlers
          PROVE  idt[h] \in L /\ Valid(idt[h]) /\ EdgesFrom(idt[h]) \subseteq E
      <3>1. Valid(idt[h]) /\ idt[h].tb # Native
        BY DispatchAssumption DEF IInv, TypeOK, IdtInv, IdtDone, Valid
      <3>2. QED
        BY <2>1, <2>2, <3>1 DEF Followed
    <2>5. ASSUME NEW s \in E
          PROVE  Valid(chain[s]) /\ EdgesFrom(chain[s]) \subseteq E
      BY <2>1, <2>2 DEF Followed, IInv, ChainSound
    <2>6. \A l \in L : Valid(l) /\ \A s \in EdgesFrom(l) : chain[s] \in L
      BY <2>4, <2>5
    <2>7. QED
      BY <2>3, <2>4, <2>6 DEF PrologueChained
  <1>3. QED
    BY <1>1, <1>2, WalkStep, Invariance, PTL DEF Spec

=============================================================================
