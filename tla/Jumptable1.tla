----------------------------- MODULE Jumptable1 -----------------------------
(***************************************************************************)
(* The table of branch targets of one processor.  jumptable1_add           *)
(* (peep/jumptable1.c) is called by the translator; JUMP_INDIRECT_PART1    *)
(* and SEARCH_HASH_TABLE (peep/peeptab_defs.h) are the machine code of     *)
(* every translated indirect jump, call and return.  Interrupts are        *)
(* disabled in both, and the table is that of the processor itself, so     *)
(* that each is one step.                                                  *)
(*                                                                         *)
(* An address is looked for in its own slot and in the three slots behind  *)
(* it, so that the sets of different addresses overlap; the table has      *)
(* three slots more than addresses hash to.                                *)
(***************************************************************************)
EXTENDS Integers, JumpCache

CONSTANTS
  Size,     \* JUMPTABLE1_SIZE, 4096 in the code
  Targets,  \* addresses indirect branches go to, zero possibly among them
  Tc        \* addresses of the translations of each target, made by and by

ASSUME TableAssumption ==
  /\ Size \in Nat \ {0}
  /\ Targets \subseteq Nat
  /\ Tc \in [Targets -> SUBSET Nat]
  \* address 0 is untranslated: an empty slot sends a jump to 0 to 0
  /\ 0 \in Targets => Tc[0] = {0}

VARIABLES
  jumptable1,   \* the slots
  tx_target     \* where the branch being executed jumps

vars == <<jumptable1, tx_target>>

Slots == 0 .. Size + 2
Empty == [eip |-> 0, tc |-> 0]

\* eip & JUMPTABLE1_MASK
Hash(eip) == eip % Size

\* The place in its set where an address is found first, 0 to 3.
Matches(t, k) == jumptable1[Hash(t) + k].eip = t
FoundAt(t, k) == Matches(t, k) /\ \A j \in 0 .. k - 1 : ~Matches(t, j)
Known(t)      == \E k \in 0 .. 3 : Matches(t, k)

\* How many slots from i on jumptable1_add moves: the occupied ones, three at
\* most.
Moved(i, n) ==
  /\ \A j \in 0 .. n - 1 : jumptable1[i + j] # Empty
  /\ n < 3 => jumptable1[i + n] = Empty

----------------------------------------------------------------------------
Init ==
  /\ jumptable1 = [i \in Slots |-> Empty]   \* alloc_percpu clears it
  /\ tx_target = 0

\* Mutant of Add: an occupied slot keeps its entry.
AddKeepHead(t) ==
  /\ t # 0
  /\ \E n \in 0 .. 3, tc \in Tc[t] :
       /\ Moved(Hash(t), n)
       /\ jumptable1' = [i \in Slots |->
            IF i = Hash(t) /\ n = 0 THEN [eip |-> t, tc |-> tc]
            ELSE IF i \in Hash(t) + 1 .. Hash(t) + n THEN jumptable1[i - 1]
            ELSE jumptable1[i]]
  /\ UNCHANGED tx_target

\* Mutant of Add: one slot too many is moved, at the end of the table into
\* the memory behind it.
AddPastEnd(t) ==
  /\ t # 0
  /\ \E n \in 0 .. 3, tc \in Tc[t] :
       /\ Moved(Hash(t), n)
       /\ jumptable1' = [i \in Slots \cup {Hash(t) + n + 1} |->
            IF i = Hash(t) THEN [eip |-> t, tc |-> tc]
            ELSE IF i \in Hash(t) + 1 .. Hash(t) + n + 1 THEN jumptable1[i - 1]
            ELSE jumptable1[i]]
  /\ UNCHANGED tx_target

\* jumptable1_add.  The target may be in the table already, also with an
\* entry that a search no longer finds.
Add(t) ==
  /\ t # 0
  /\ \E n \in 0 .. 3, tc \in Tc[t] :
       /\ Moved(Hash(t), n)
       /\ jumptable1' = [i \in Slots |->
            IF i = Hash(t) THEN [eip |-> t, tc |-> tc]
            ELSE IF i \in Hash(t) + 1 .. Hash(t) + n THEN jumptable1[i - 1]
            ELSE jumptable1[i]]
  /\ UNCHANGED tx_target

\* JUMP_INDIRECT_PART1: the first slot has the target.
HitFirst(t) ==
  /\ FoundAt(t, 0)
  /\ tx_target' = jumptable1[Hash(t)].tc
  /\ UNCHANGED jumptable1

\* Mutant of HitBehind: the branch takes the address in the first slot.
HitBehindLate(t) ==
  \E k \in 1 .. 3 :
    /\ FoundAt(t, k)
    /\ tx_target' = jumptable1[Hash(t)].tc
    /\ jumptable1' = [jumptable1 EXCEPT
                        ![Hash(t)] = [eip |-> t,
                                      tc  |-> jumptable1[Hash(t) + k].tc],
                        ![Hash(t) + k] = jumptable1[Hash(t)]]

\* SEARCH_HASH_TABLE: the slot found and the first one exchange contents.
HitBehind(t) ==
  \E k \in 1 .. 3 :
    /\ FoundAt(t, k)
    /\ tx_target' = jumptable1[Hash(t) + k].tc
    /\ jumptable1' = [jumptable1 EXCEPT
                        ![Hash(t)] = [eip |-> t,
                                      tc  |-> jumptable1[Hash(t) + k].tc],
                        ![Hash(t) + k] = jumptable1[Hash(t)]]

\* INDIRECT_PART2: the branch leaves for the monitor.
Miss(t) ==
  /\ ~Known(t)
  /\ tx_target' = t
  /\ UNCHANGED jumptable1

Hit(t) == HitFirst(t) \/ HitBehind(t)

Next == \E t \in Targets : Add(t) \/ Hit(t) \/ Miss(t)

Spec == Init /\ [][Next]_vars

----------------------------------------------------------------------------
TypeOK ==
  /\ jumptable1 \in [Slots -> [eip : Nat, tc : Nat]]
  /\ tx_target \in Nat

\* Every slot pairs an address with a translation of that same address,
\* although adding and searching move the two words of entries of other sets.
Paired ==
  \A i \in Slots : jumptable1[i] # Empty =>
    /\ jumptable1[i].eip \in Targets
    /\ jumptable1[i].tc \in Tc[jumptable1[i].eip]

\* A translated indirect branch that finds an entry jumps to a translation
\* of its own target.
LandsOnTarget == [][\A t \in Targets : Hit(t) => tx_target' \in Tc[t]]_vars

\* The entries a search may find: those in the set of their own address.  An
\* older translation behind a newer one is found when exchanges in other sets
\* have brought it in front.
Stored == {jumptable1[i] : i \in {i \in Slots :
             \E k \in 0 .. 3 : i = Hash(jumptable1[i].eip) + k}} \ {Empty}

\* For the dispatcher the table is a cache: after jumptable1_add a search
\* finds an entry that was added or kept, and none is found that was not added.
ActsAsCache ==
  [][\A t \in Targets \ {0} :
       /\ Add(t) => \E tc \in Tc[t] :
            Stored' \in AfterAdd(Stored, [eip |-> t, tc |-> tc])
       /\ Hit(t) => Stored' \in AfterHit(Stored, [eip |-> t, tc |-> tx_target'])]_vars

=============================================================================
