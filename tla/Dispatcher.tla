----------------------------- MODULE Dispatcher -----------------------------
(***************************************************************************)
(* The dispatcher of the translator: how a processor that leaves           *)
(* translated code for an address with no known translation obtains one    *)
(* (monitor_entry, tb_gen_translated_code and __tb_gen_translate_code in   *)
(* bt_main.c), how branches are chained to it, and how INIT_BT builds the  *)
(* shadow interrupt table (create_shadow_idt, patch_until_fs_seen).        *)
(*                                                                         *)
(* A location is an address together with the block it lies in:            *)
(* [tb |-> b, eip |-> e] is the translation of instruction e in the block  *)
(* that starts at b, [tb |-> Native, eip |-> e] is the guest instruction   *)
(* itself.  How the two are laid out in memory is not modelled here; the   *)
(* memory a block lies in is the subject of PoolAlloc.                     *)
(***************************************************************************)
EXTENDS GuestProgram, JumpCache

CONSTANTS
  Boot,         \* the processor that executes INIT_BT, vcpu 0
  NoCpu,        \* a free lock; lock_owner = 0xff
  Native,       \* the "block" of untranslated code
  NoSlot,       \* prev_tb = 0: no branch to patch
  Unpatched,    \* a branch that still leads to its edge code
  FaultHandler  \* the entry point of the page fault handler

ASSUME DispatchAssumption ==
  /\ Boot \in Cpus /\ NoCpu \notin Cpus
  /\ Native \notin Eips
  /\ FaultHandler \in Handlers

Loc == [tb : Eips \cup {Native}, eip : Eips]

\* A direct branch in the code of block tb: from instruction "from" to guest
\* address "to".
Slot == {s \in [tb : Eips, from : Eips, to : Eips] :
           s.from \in Run[s.tb] /\ s.to \in Succ[s.from]}

ASSUME SlotAssumption == NoSlot \notin Slot /\ Unpatched \notin Loc

VARIABLES
  \* shared by all processors
  lock,        \* bt->translation_lock
  lock_owner,  \* the plain variable lock_owner
  tbs,         \* progress of the block starting at an address
  jumptable2,  \* the published blocks, by first address; also bt->tc_tree
  jumps,       \* jump_boundaries: entries in the middle of a block
  chain,       \* where the branch in a slot leads
  idt,         \* the shadow interrupt table
  phase,       \* "idt" during INIT_BT, then "run"
  idtTodo,     \* vectors create_shadow_idt still has to translate
  walk,        \* branches patch_until_fs_seen still has to follow; it goes
               \* depth first, the model in any order
  \* one per processor
  pc,
  at,          \* location at which translated code was entered
  tx_target,   \* per-cpu variable: address to go to
  edge,        \* the prev_tb pushed by the edge code (esp[8])
  eip,         \* vcpu->eip
  prev_tb,     \* vcpu->prev_tb
  cur,         \* the block found or made
  tc_offset,   \* its address for eip
  fault,       \* "none", the interrupted pc of a page fault, or "done"
  jumptable1   \* per-cpu cache of translations

vars == <<lock, lock_owner, tbs, jumptable2, jumps, chain, idt, phase, idtTodo,
          walk, pc, at, tx_target, edge, eip, prev_tb, cur, tc_offset, fault,
          jumptable1>>

bootVars  == <<idt, phase, idtTodo, walk>>
storeVars == <<tbs, jumptable2, jumps>>
lockVars  == <<lock, lock_owner>>
callVars  == <<eip, prev_tb, cur, tc_offset>>
guestVars == <<at, tx_target, edge>>

\* While a page fault is being handled, translated code runs on a processor
\* that is in the middle of a translation.
Nested(p) == fault[p] \notin {"none", "done"}

Transfer(p, from, to) == pc[p] = from /\ pc' = [pc EXCEPT ![p] = to]

\* Mutant of Hits: only the first instruction of a block is recognised.
HitsFirstOnly(e) == {b \in jumptable2 : e = b}

\* jumptable2_find: the first block in the tree whose range holds e.
Hits(e)      == {b \in jumptable2 : e \in Run[b]}
Find(e, b)   == b \in Hits(e) /\ \A c \in Hits(e) : b <= c

\* The branches on the straight line from location l to a "push %es".
EdgesFrom(l) ==
  UNION {{[tb |-> l.tb, from |-> i, to |-> t] : t \in Succ[i]} :
           i \in BeforePushEs[l.eip]}

----------------------------------------------------------------------------
Init ==
  /\ lock = NoCpu /\ lock_owner = NoCpu
  /\ tbs = [e \in Eips |-> "none"]
  /\ jumptable2 = {}
  /\ jumps = [e \in Eips |-> {}]
  /\ chain = [s \in Slot |-> Unpatched]
  /\ idt = [h \in Handlers |-> [tb |-> Native, eip |-> h]]
  /\ phase = "idt" /\ idtTodo = Handlers /\ walk = {}
  /\ pc = [p \in Cpus |-> IF p = Boot THEN "boot" ELSE "native"]
  /\ at = [p \in Cpus |-> [tb |-> Native, eip |-> FaultHandler]]
  /\ tx_target = at
  /\ edge = [p \in Cpus |-> NoSlot]
  /\ eip = [p \in Cpus |-> FaultHandler]
  /\ prev_tb = [p \in Cpus |-> NoSlot]
  /\ cur = eip
  /\ tc_offset = at
  /\ fault = [p \in Cpus |-> "none"]
  /\ jumptable1 = [p \in Cpus |-> {}]

----------------------------------------------------------------------------
(* create_shadow_idt, executed by one processor before any other uses the  *)
(* shadow table.                                                           *)

\* The next vector: tb_gen_translated_code_idt clears prev_tb.
IdtEntry(p) ==
  /\ phase = "idt" /\ walk = {}
  /\ Transfer(p, "boot", "lock")
  /\ \E h \in idtTodo :
       /\ eip' = [eip EXCEPT ![p] = h]
       /\ idtTodo' = idtTodo \ {h}
  /\ prev_tb' = [prev_tb EXCEPT ![p] = NoSlot]
  /\ UNCHANGED <<lockVars, storeVars, chain, idt, phase, walk, guestVars,
                 cur, tc_offset, fault, jumptable1>>

\* patch_until_fs_seen meets a branch that still leads to its edge code:
\* fetch_eip_and_prev_tb reads target and slot from the edge.
WalkEdge(p) ==
  /\ Transfer(p, "boot", "lock")
  /\ \E s \in walk :
       /\ chain[s] = Unpatched
       /\ walk' = walk \ {s}
       /\ eip' = [eip EXCEPT ![p] = s.to]
       /\ prev_tb' = [prev_tb EXCEPT ![p] = s]
  /\ UNCHANGED <<lockVars, storeVars, chain, idt, phase, idtTodo, guestVars,
                 cur, tc_offset, fault, jumptable1>>

\* It follows a branch that is chained already.
WalkChained(p) ==
  /\ pc[p] = "boot"
  /\ \E s \in walk :
       /\ chain[s] # Unpatched
       /\ walk' = (walk \ {s}) \cup EdgesFrom(chain[s])
  /\ UNCHANGED <<lockVars, storeVars, chain, idt, phase, idtTodo, pc,
                 guestVars, callVars, fault, jumptable1>>

\* Mutant of BootReturn: the walk ends at the first chained branch.
BootReturnNoWalk(p) ==
  /\ phase = "idt"
  /\ Transfer(p, "resume", "boot")
  /\ walk' = IF prev_tb[p] = NoSlot THEN walk \cup EdgesFrom(tc_offset[p])
             ELSE walk
  /\ idt' = IF prev_tb[p] = NoSlot
            THEN [idt EXCEPT ![eip[p]] = tc_offset[p]] ELSE idt
  /\ UNCHANGED <<lockVars, storeVars, chain, phase, idtTodo, guestVars,
                 callVars, fault, jumptable1>>

\* A translation made for the table is complete: it becomes the handler of
\* its vector, or the walk goes on behind the branch just chained.
BootReturn(p) ==
  /\ phase = "idt"
  /\ Transfer(p, "resume", "boot")
  /\ walk' = walk \cup EdgesFrom(tc_offset[p])
  /\ idt' = IF prev_tb[p] = NoSlot
            THEN [idt EXCEPT ![eip[p]] = tc_offset[p]] ELSE idt
  /\ UNCHANGED <<lockVars, storeVars, chain, phase, idtTodo, guestVars,
                 callVars, fault, jumptable1>>

BootDone(p) ==
  /\ Transfer(p, "boot", "native")
  /\ phase' = "run"
  /\ idtTodo = {} /\ walk = {}
  /\ UNCHANGED <<lockVars, storeVars, chain, idt, idtTodo, walk, guestVars,
                 callVars, fault, jumptable1>>

----------------------------------------------------------------------------
(* Translated code.  From where it entered a block, a processor leaves     *)
(* through some branch on the straight line.                               *)

\* An interrupt or system call through the shadow table.
EnterGuest(p) ==
  /\ phase = "run"
  /\ Transfer(p, "native", "guest")
  /\ \E h \in Handlers : at' = [at EXCEPT ![p] = idt[h]]
  /\ UNCHANGED <<lockVars, storeVars, chain, bootVars, tx_target, edge,
                 callVars, fault, jumptable1>>

DirectJump(p) ==
  /\ pc[p] = "guest"
  /\ \E i \in Run[at[p].eip] : \E t \in Succ[i] :
       LET s == [tb |-> at[p].tb, from |-> i, to |-> t]
       IN  /\ chain[s] # Unpatched
           /\ at' = [at EXCEPT ![p] = chain[s]]
  /\ UNCHANGED <<lockVars, storeVars, chain, bootVars, pc, tx_target, edge,
                 callVars, fault, jumptable1>>

\* EDGE0 to EDGE2: the edge code names the target and the slot.
DirectExit(p) ==
  /\ Transfer(p, "guest", "monitor")
  /\ \E i \in Run[at[p].eip] : \E t \in Succ[i] :
       LET s == [tb |-> at[p].tb, from |-> i, to |-> t]
       IN  /\ chain[s] = Unpatched
           /\ edge' = [edge EXCEPT ![p] = s]
           /\ tx_target' = [tx_target EXCEPT ![p] = [tb |-> Native, eip |-> t]]
  /\ UNCHANGED <<lockVars, storeVars, chain, bootVars, at, callVars, fault,
                 jumptable1>>

\* Mutant of IndirectHit: the address stored in the entry is not compared.
IndirectHitAny(p) ==
  /\ pc[p] = "guest"
  /\ \E i \in Run[at[p].eip] : \E t \in Indirect[i] :
       \E entry \in jumptable1[p] :
         /\ tx_target' = [tx_target EXCEPT ![p] = entry.tc]
         /\ at' = [at EXCEPT ![p] = entry.tc]
         /\ \E cache \in AfterHit(jumptable1[p], entry) :
              jumptable1' = [jumptable1 EXCEPT ![p] = cache]
  /\ UNCHANGED <<lockVars, storeVars, chain, bootVars, pc, edge, callVars,
                 fault>>

\* JUMP_INDIRECT and CALL_INDIRECT find the target in jumptable1.
IndirectHit(p) ==
  /\ pc[p] = "guest"
  /\ \E i \in Run[at[p].eip] : \E t \in Indirect[i] :
       \E entry \in jumptable1[p] :
         /\ entry.eip = t
         /\ tx_target' = [tx_target EXCEPT ![p] = entry.tc]
         /\ at' = [at EXCEPT ![p] = entry.tc]
         /\ \E cache \in AfterHit(jumptable1[p], entry) :
              jumptable1' = [jumptable1 EXCEPT ![p] = cache]
  /\ UNCHANGED <<lockVars, storeVars, chain, bootVars, pc, edge, callVars,
                 fault>>

\* Mutant of IndirectMiss: the 0 for prev_tb is not pushed.
IndirectMissStale(p) ==
  /\ Transfer(p, "guest", "monitor")
  /\ \E i \in Run[at[p].eip] : \E t \in Indirect[i] :
       /\ \A entry \in jumptable1[p] : entry.eip # t
       /\ tx_target' = [tx_target EXCEPT ![p] = [tb |-> Native, eip |-> t]]
  /\ UNCHANGED <<lockVars, storeVars, chain, bootVars, at, edge, callVars,
                 fault, jumptable1>>

\* They do not: EDGE3 pushes 0 for prev_tb.
IndirectMiss(p) ==
  /\ Transfer(p, "guest", "monitor")
  /\ \E i \in Run[at[p].eip] : \E t \in Indirect[i] :
       /\ \A entry \in jumptable1[p] : entry.eip # t
       /\ tx_target' = [tx_target EXCEPT ![p] = [tb |-> Native, eip |-> t]]
  /\ edge' = [edge EXCEPT ![p] = NoSlot]
  /\ UNCHANGED <<lockVars, storeVars, chain, bootVars, at, callVars, fault,
                 jumptable1>>

Return(p) ==
  /\ ~Nested(p)
  /\ Run[at[p].eip] \cap Iret # {}
  /\ Transfer(p, "guest", "native")
  /\ UNCHANGED <<lockVars, storeVars, chain, bootVars, guestVars, callVars,
                 fault, jumptable1>>

----------------------------------------------------------------------------
(* The monitor, with interrupts disabled.                                  *)

\* Mutant of MonitorEntry: re-entry is not detected.
MonitorEntryBlind(p) ==
  /\ Transfer(p, "monitor", "lock")
  /\ eip' = [eip EXCEPT ![p] = tx_target[p].eip]
  /\ prev_tb' = [prev_tb EXCEPT ![p] = edge[p]]
  /\ UNCHANGED <<lockVars, storeVars, chain, bootVars, guestVars, cur,
                 tc_offset, fault, jumptable1>>

MonitorEntry(p) ==
  /\ lock_owner # p
  /\ Transfer(p, "monitor", "lock")
  /\ eip' = [eip EXCEPT ![p] = tx_target[p].eip]
  /\ prev_tb' = [prev_tb EXCEPT ![p] = edge[p]]
  /\ UNCHANGED <<lockVars, storeVars, chain, bootVars, guestVars, cur,
                 tc_offset, fault, jumptable1>>

\* The processor is inside the translator already: "FATAL: Reentrency
\* detected" is logged and the target runs untranslated.  The call has
\* overwritten the monitor stack of the translation it interrupted, which
\* is not followed further.
Reentry(p) ==
  /\ lock_owner = p
  /\ Transfer(p, "monitor", "fatal")
  /\ at' = [at EXCEPT ![p] = tx_target[p]]
  /\ UNCHANGED <<lockVars, storeVars, chain, bootVars, tx_target, edge,
                 callVars, fault, jumptable1>>

Lock(p) ==
  /\ lock = NoCpu /\ lock' = p
  /\ Transfer(p, "lock", "own")
  /\ UNCHANGED <<lock_owner, storeVars, chain, bootVars, guestVars, callVars,
                 fault, jumptable1>>

Own(p) ==
  /\ Transfer(p, "own", "find")
  /\ lock_owner' = p
  /\ UNCHANGED <<lock, storeVars, chain, bootVars, guestVars, callVars, fault,
                 jumptable1>>

FindHit(p) ==
  /\ Transfer(p, "find", "map")
  /\ \E b \in Eips : Find(eip[p], b) /\ cur' = [cur EXCEPT ![p] = b]
  /\ UNCHANGED <<lockVars, storeVars, chain, bootVars, guestVars, eip, prev_tb,
                 tc_offset, fault, jumptable1>>

\* Mutant of FindMiss: the lookup is not repeated under the lock.
FindMissUnchecked(p) ==
  /\ Transfer(p, "find", "place")
  /\ cur' = [cur EXCEPT ![p] = eip[p]]
  /\ tbs' = [tbs EXCEPT ![eip[p]] = "sized"]
  /\ UNCHANGED <<lockVars, jumptable2, jumps, chain, bootVars, guestVars, eip,
                 prev_tb, tc_offset, fault, jumptable1>>

\* alloc_a_tb, and the first pass of translate(), which only measures.
FindMiss(p) ==
  /\ Hits(eip[p]) = {}
  /\ Transfer(p, "find", "place")
  /\ cur' = [cur EXCEPT ![p] = eip[p]]
  /\ tbs' = [tbs EXCEPT ![eip[p]] = "sized"]
  /\ UNCHANGED <<lockVars, jumptable2, jumps, chain, bootVars, guestVars, eip,
                 prev_tb, tc_offset, fault, jumptable1>>

\* tb_malloc: the block has an address, its code is not written yet.
Place(p) ==
  /\ Transfer(p, "place", "emit")
  /\ tbs' = [tbs EXCEPT ![cur[p]] = "placed"]
  /\ jumps' = [jumps EXCEPT ![cur[p]] = {}]
  /\ UNCHANGED <<lockVars, jumptable2, chain, bootVars, guestVars, callVars,
                 fault, jumptable1>>

\* The second pass of translate(): every branch leads to its edge code.
Emit(p) ==
  /\ Transfer(p, "emit", "publish")
  /\ tbs' = [tbs EXCEPT ![cur[p]] = "coded"]
  /\ chain' = [s \in Slot |-> IF s.tb = cur[p] THEN Unpatched ELSE chain[s]]
  /\ UNCHANGED <<lockVars, jumptable2, jumps, bootVars, guestVars, callVars,
                 fault, jumptable1>>

\* jumptable2_add and tb_add.
Publish(p) ==
  /\ Transfer(p, "publish", "map")
  /\ jumptable2' = jumptable2 \cup {cur[p]}
  /\ UNCHANGED <<lockVars, tbs, jumps, chain, bootVars, guestVars, callVars,
                 fault, jumptable1>>

\* Mutant of MapEip: tb_add_jump is not called.
MapEipUnrecorded(p) ==
  /\ Transfer(p, "map", "disown")
  /\ tc_offset' = [tc_offset EXCEPT ![p] = [tb |-> cur[p], eip |-> eip[p]]]
  /\ UNCHANGED <<lockVars, storeVars, chain, bootVars, guestVars, eip,
                 prev_tb, cur, fault, jumptable1>>

\* eip_virt_to_tc_ptr and tb_add_jump when eip is not the first instruction.
MapEip(p) ==
  /\ Transfer(p, "map", "disown")
  /\ tc_offset' = [tc_offset EXCEPT ![p] = [tb |-> cur[p], eip |-> eip[p]]]
  /\ jumps' = IF cur[p] = eip[p] THEN jumps
              ELSE [jumps EXCEPT ![cur[p]] = @ \cup {eip[p]}]
  /\ UNCHANGED <<lockVars, tbs, jumptable2, chain, bootVars, guestVars, eip,
                 prev_tb, cur, fault, jumptable1>>

\* Mutant of Disown: lock_owner keeps its value.
DisownStale(p) ==
  /\ Transfer(p, "disown", "unlock")
  /\ UNCHANGED <<lockVars, storeVars, chain, bootVars, guestVars, callVars,
                 fault, jumptable1>>

Disown(p) ==
  /\ Transfer(p, "disown", "unlock")
  /\ lock_owner' = NoCpu
  /\ UNCHANGED <<lock, storeVars, chain, bootVars, guestVars, callVars, fault,
                 jumptable1>>

Unlock(p) ==
  /\ Transfer(p, "unlock", "cache")
  /\ lock' = NoCpu
  /\ fault' = [fault EXCEPT ![p] = "none"]
  /\ UNCHANGED <<lock_owner, storeVars, chain, bootVars, guestVars, callVars,
                 jumptable1>>

\* Mutant of CacheAdd: the entry leads to the beginning of the block.
CacheAddBlock(p) ==
  /\ Transfer(p, "cache", "patch")
  /\ \E q \in IF phase = "idt" THEN Cpus ELSE {p} :
     \E cache \in AfterAdd(jumptable1[q],
                  [eip |-> eip[p], tc |-> [tb |-> cur[p], eip |-> cur[p]]]) :
       jumptable1' = [jumptable1 EXCEPT ![q] = cache]
  /\ UNCHANGED <<lockVars, storeVars, chain, bootVars, guestVars, callVars,
                 fault>>

\* jumptable1_add: the new entry may push old entries out.  INIT_BT runs with
\* preemption enabled, so it may add to the table of any processor.
CacheAdd(p) ==
  /\ Transfer(p, "cache", "patch")
  /\ \E q \in IF phase = "idt" THEN Cpus ELSE {p} :
     \E cache \in AfterAdd(jumptable1[q], [eip |-> eip[p],
                                           tc  |-> tc_offset[p]]) :
       jumptable1' = [jumptable1 EXCEPT ![q] = cache]
  /\ UNCHANGED <<lockVars, storeVars, chain, bootVars, guestVars, callVars,
                 fault>>

\* The branch is redirected; no lock is held.
Patch(p) ==
  /\ Transfer(p, "patch", "resume")
  /\ chain' = IF prev_tb[p] = NoSlot THEN chain
              ELSE [chain EXCEPT ![prev_tb[p]] = tc_offset[p]]
  /\ UNCHANGED <<lockVars, storeVars, bootVars, guestVars, callVars, fault,
                 jumptable1>>

\* The rest of monitor_entry: guest registers are restored, jump_to_tc.
Resume(p) ==
  /\ phase = "run"
  /\ Transfer(p, "resume", "guest")
  /\ tx_target' = [tx_target EXCEPT ![p] = tc_offset[p]]
  /\ at' = [at EXCEPT ![p] = tc_offset[p]]
  /\ UNCHANGED <<lockVars, storeVars, chain, bootVars, edge, callVars, fault,
                 jumptable1>>

----------------------------------------------------------------------------
(* Page faults inside the translator.  Guest code, the code cache and the  *)
(* blocks are reached through vmalloc mappings, which a processor may have *)
(* to fault in; a translation takes at most one such fault here.  The      *)
(* handler is translated code too.                                         *)

Faultable == {"find", "place", "emit", "publish", "map"}

Fault(p) ==
  /\ phase = "run"
  /\ pc[p] \in Faultable /\ fault[p] = "none"
  /\ fault' = [fault EXCEPT ![p] = pc[p]]
  /\ Transfer(p, pc[p], "guest")
  /\ at' = [at EXCEPT ![p] = idt[FaultHandler]]
  /\ UNCHANGED <<lockVars, storeVars, chain, bootVars, tx_target, edge,
                 callVars, jumptable1>>

FaultReturn(p) ==
  /\ Nested(p)
  /\ Run[at[p].eip] \cap Iret # {}
  /\ Transfer(p, "guest", fault[p])
  /\ fault' = [fault EXCEPT ![p] = "done"]
  /\ UNCHANGED <<lockVars, storeVars, chain, bootVars, guestVars, callVars,
                 jumptable1>>

----------------------------------------------------------------------------
Booting(p)  == IdtEntry(p) \/ WalkEdge(p) \/ WalkChained(p) \/ BootReturn(p)
               \/ BootDone(p)

Guest(p)    == EnterGuest(p) \/ DirectJump(p) \/ DirectExit(p)
               \/ IndirectHit(p) \/ IndirectMiss(p) \/ Return(p)

Translator(p) == Own(p) \/ FindHit(p) \/ FindMiss(p) \/ Place(p) \/ Emit(p)
                 \/ Publish(p) \/ MapEip(p) \/ Disown(p) \/ Unlock(p)

Monitor(p)  == MonitorEntry(p) \/ Reentry(p) \/ Translator(p) \/ CacheAdd(p)
               \/ Patch(p) \/ Resume(p)

Next == \E p \in Cpus : Booting(p) \/ Guest(p) \/ Monitor(p) \/ Lock(p)
                        \/ Fault(p) \/ FaultReturn(p)

Spec == Init /\ [][Next]_vars

\* The monitor runs with interrupts disabled, so its steps are taken, and
\* those of a page fault handler that interrupted it; the ticket spinlock of
\* the kernel serves every waiter.  Nothing is assumed about guest code
\* otherwise: it may stay in a block for ever.
Fairness ==
  \A p \in Cpus : /\ WF_vars(Monitor(p))
                  /\ SF_vars(Lock(p))
                  /\ WF_vars(Nested(p) /\ (Guest(p) \/ FaultReturn(p)))

FairSpec == Spec /\ Fairness

----------------------------------------------------------------------------
Pcs == {"native", "guest", "monitor", "lock", "own", "find", "place", "emit",
        "publish", "map", "disown", "unlock", "cache", "patch", "resume",
        "boot", "fatal"}

TypeOK ==
  /\ lock \in Cpus \cup {NoCpu} /\ lock_owner \in Cpus \cup {NoCpu}
  /\ tbs \in [Eips -> {"none", "sized", "placed", "coded"}]
  /\ jumptable2 \subseteq Eips
  /\ jumps \in [Eips -> SUBSET Eips]
  /\ chain \in [Slot -> Loc \cup {Unpatched}]
  /\ idt \in [Handlers -> Loc]
  /\ phase \in {"idt", "run"} /\ idtTodo \subseteq Handlers
  /\ walk \subseteq Slot
  /\ pc \in [Cpus -> Pcs]
  /\ at \in [Cpus -> Loc] /\ tx_target \in [Cpus -> Loc]
  /\ edge \in [Cpus -> Slot \cup {NoSlot}]
  /\ eip \in [Cpus -> Eips]
  /\ prev_tb \in [Cpus -> Slot \cup {NoSlot}]
  /\ cur \in [Cpus -> Eips] /\ tc_offset \in [Cpus -> Loc]
  /\ fault \in [Cpus -> Faultable \cup {"none", "done"}]
  /\ jumptable1 \in [Cpus -> SUBSET [eip : Eips, tc : Loc]]

\* The position of a processor in the monitor, also while it handles a fault.
Inside(p) == IF Nested(p) THEN fault[p] ELSE pc[p]

Owned   == {"find", "place", "emit", "publish", "map", "disown"}
Locked  == Owned \cup {"own", "unlock"}

\* At most one processor is between spin_lock and spin_unlock of
\* tb_gen_translated_code, even when a page fault makes it run translated
\* code in between, and lock_owner names it whenever it can fault.
LockProtocol ==
  \A p \in Cpus : /\ lock = p <=> Inside(p) \in Locked
                  /\ lock_owner = p <=> Inside(p) \in Owned

\* A processor never waits for a lock it holds itself: re-entry of the
\* monitor from a fault inside the translator is recognised.
NoSelfDeadlock == \A p \in Cpus : pc[p] = "lock" => lock # p

\* The translation of e in its block exists and other processors find it.
Valid(l) == /\ l.tb \in jumptable2 /\ tbs[l.tb] = "coded"
            /\ l.eip \in Run[l.tb]

\* A patched branch leads to finished code of its own target, although the
\* store in tb_gen_translated_code is made after the lock is released and
\* other processors may patch or take the same branch.
ChainSound ==
  \A s \in Slot : chain[s] # Unpatched => chain[s].eip = s.to /\ Valid(chain[s])

\* So does every entry of the per-cpu tables that indirect branches search.
CacheSound ==
  \A p \in Cpus : \A entry \in jumptable1[p] :
     entry.tc.eip = entry.eip /\ Valid(entry.tc)

\* Blocks never run untranslated or unfinished code.
ExecSound ==
  \A p \in Cpus : pc[p] = "guest" => Valid(at[p])

\* Overlapping blocks end at the same instruction and a new one begins below
\* those it overlaps.  The comparison function of jumptable2 treats them as
\* equal, so that the tree would lose its order otherwise.
NewBlockFirst ==
  [][\A b \in jumptable2' \ jumptable2 : \A c \in jumptable2 :
       Run[b] \cap Run[c] # {} => b < c /\ Run[c] \subseteq Run[b]]_vars

\* What jumptable2_find says of the tree: "The entries in v->jumptable2 should
\* always be unique", no block compares equal to its neighbour.  It does not
\* hold, as overlapping blocks compare equal.
EntriesUnique ==
  \A b, c \in jumptable2 : b # c => Run[b] \cap Run[c] = {}

\* The code of a finished block is not generated a second time: processors
\* may be executing it and its branches may be chained.
TranslatedOnce ==
  [][\A b \in Eips : tbs[b] = "coded" => tbs'[b] = "coded"]_vars

\* jump_boundaries of a block has every address in the middle of the block
\* that a branch or a table entry leads to.
EntriesRecorded ==
  /\ \A s \in Slot : chain[s] # Unpatched /\ chain[s].eip # chain[s].tb
                     => chain[s].eip \in jumps[chain[s].tb]
  /\ \A p \in Cpus : \A entry \in jumptable1[p] :
       entry.tc.eip # entry.tc.tb => entry.eip \in jumps[entry.tc.tb]

\* The locations the vectors of the shadow table and patched branches lead to.
Targets == {idt[h] : h \in Handlers}
           \cup {chain[s] : s \in {r \in Slot : chain[r] # Unpatched}}

\* When the shadow table is put to use, no path from a vector to its
\* "push %es" has a branch left that would enter the monitor, however many
\* branches it has: the vectors lie in a set of locations that the branches
\* in front of a "push %es" do not leave.  So the prologue saves tx_target of
\* the interrupted code before anything overwrites it.
PrologueChained ==
  phase = "run" =>
    \E L \in SUBSET Targets :
      /\ \A h \in Handlers : idt[h] \in L
      /\ \A l \in L : Valid(l) /\ \A s \in EdgesFrom(l) : chain[s] \in L

\* A processor that enters the monitor gets back to translated code, unless
\* some processor was caught in a fatal re-entry.
ExitServed ==
  \A p \in Cpus :
    pc[p] = "monitor" ~> (pc[p] = "guest" \/ \E q \in Cpus : pc[q] = "fatal")

\* The guest address at which a processor entered its present straight line,
\* wherever in the monitor it is on the way there.
GuestIp ==
  [p \in Cpus |->
     IF phase = "idt" \/ pc[p] = "native" THEN Native
     ELSE IF ~Nested(p) /\ pc[p] = "guest" THEN at[p].eip
     ELSE IF ~Nested(p) /\ pc[p] = "monitor" THEN tx_target[p].eip
     ELSE eip[p]]

\* Every processor goes through the guest kernel as it would natively: the
\* translator neither loses nor invents a branch, whatever is patched, cached
\* or translated meanwhile.  The handler of a page fault inside the
\* translator, which has no counterpart, is a detour.
Abstract == INSTANCE NativeExec WITH Outside <- Native, ip <- GuestIp

RunsAsNative == Abstract!Spec

=============================================================================
