-------------------------- MODULE ContainersProofs --------------------------
(***************************************************************************)
(* Where translations are found by the address of the guest: the table of  *)
(* branch targets, and the trees.                                          *)
(*                                                                         *)
(* The table is sound for every size and every set of targets: whatever is *)
(* moved between overlapping sets, an address stays with a translation of  *)
(* its own, and an indirect branch that finds an entry jumps to a          *)
(* translation of its target; and the table is a cache, because nothing is *)
(* ever moved in front of the set of its address.                          *)
(*                                                                         *)
(* For any number of trees and elements: after any sequence of operations  *)
(* the trees are well-formed red-black trees, searches and iterators       *)
(* answer as they should, and insertion and deletion are those of a set    *)
(* per tree.                                                               *)
(***************************************************************************)
EXTENDS Jumptable1, RBTreeShape

(***************************************************************************)
(* The table of branch targets                                             *)
(***************************************************************************)

IInv == TypeOK /\ Paired

LEMMA HashRange == \A t \in Targets : Hash(t) \in 0 .. Size - 1
  BY TableAssumption DEF Hash

\* A slot found by a search is a slot of the table, and has a translation of
\* the address searched for, also when it is an empty slot and that is 0.
LEMMA SlotFound ==
  ASSUME IInv, NEW t \in Targets, NEW k \in 0 .. 3, FoundAt(t, k)
  PROVE  /\ Hash(t) + k \in Slots /\ Hash(t) \in Slots
         /\ jumptable1[Hash(t) + k].eip = t
         /\ jumptable1[Hash(t) + k].tc \in Tc[t]
  <1>1. Hash(t) + k \in Slots /\ Hash(t) \in Slots
    BY HashRange, TableAssumption DEF Slots
  <1>2. jumptable1[Hash(t) + k].eip = t
    BY DEF FoundAt, Matches
  <1>3. jumptable1[Hash(t) + k].tc \in Tc[t]
    <2>1. CASE jumptable1[Hash(t) + k] = Empty
      BY <1>2, <2>1, TableAssumption DEF Empty
    <2>2. CASE jumptable1[Hash(t) + k] # Empty
      BY <1>1, <1>2, <2>2 DEF IInv, Paired
    <2>3. QED
      BY <2>1, <2>2
  <1>4. QED
    BY <1>1, <1>2, <1>3

LEMMA InitInv == Init => IInv
  BY DEF Init, IInv, TypeOK, Paired, Empty

\* jumptable1_add writes a pair and copies others.
LEMMA AddStep ==
  ASSUME IInv, NEW t \in Targets, Add(t)
  PROVE  IInv'
  <1>1. PICK n \in 0 .. 3, tc \in Tc[t] :
          jumptable1' = [i \in Slots |->
            IF i = Hash(t) THEN [eip |-> t, tc |-> tc]
            ELSE IF i \in Hash(t) + 1 .. Hash(t) + n THEN jumptable1[i - 1]
            ELSE jumptable1[i]]
    BY DEF Add
  <1>2. t \in Nat /\ tc \in Nat
    BY TableAssumption
  <1>3. Hash(t) \in 0 .. Size - 1 /\ Size \in Nat
    BY HashRange, TableAssumption
  <1>4. ASSUME NEW i \in Slots
        PROVE  \/ jumptable1'[i] = [eip |-> t, tc |-> tc]
               \/ \E j \in Slots : jumptable1'[i] = jumptable1[j]
    <2>1. CASE i = Hash(t)
      BY <1>1, <2>1
    <2>2. CASE i # Hash(t) /\ i \in Hash(t) + 1 .. Hash(t) + n
      <3>1. i - 1 \in Slots
        BY <1>3, <2>2 DEF Slots
      <3>2. QED
        BY <1>1, <2>2, <3>1
    <2>3. CASE i # Hash(t) /\ i \notin Hash(t) + 1 .. Hash(t) + n
      BY <1>1, <2>3
    <2>4. QED
      BY <2>1, <2>2, <2>3
  <1>5. \A i \in Slots : jumptable1'[i] \in [eip : Nat, tc : Nat]
    BY <1>2, <1>4 DEF IInv, TypeOK
  <1>6. TypeOK'
    BY <1>1, <1>5 DEF Add, IInv, TypeOK
  <1>7. Paired'
    BY <1>4 DEF IInv, Paired, Empty
  <1>8. QED
    BY <1>6, <1>7 DEF IInv

\* SEARCH_HASH_TABLE exchanges two slots.
LEMMA HitBehindStep ==
  ASSUME IInv, NEW t \in Targets, HitBehind(t)
  PROVE  IInv' /\ tx_target' \in Tc[t]
  <1>1. PICK k \in 1 .. 3 :
          /\ FoundAt(t, k)
          /\ tx_target' = jumptable1[Hash(t) + k].tc
          /\ jumptable1' =
               [jumptable1 EXCEPT
                  ![Hash(t)] = [eip |-> t, tc |-> jumptable1[Hash(t) + k].tc],
                  ![Hash(t) + k] = jumptable1[Hash(t)]]
    BY DEF HitBehind
  <1>2. /\ Hash(t) + k \in Slots /\ Hash(t) \in Slots
        /\ jumptable1[Hash(t) + k].eip = t
        /\ jumptable1[Hash(t) + k].tc \in Tc[t]
    BY <1>1, SlotFound
  <1>3. \A i \in Slots : \E j \in Slots : jumptable1'[i] = jumptable1[j]
    BY <1>1, <1>2 DEF IInv, TypeOK
  <1>4. TypeOK'
    <2>1. DOMAIN jumptable1' = Slots
      BY <1>1 DEF IInv, TypeOK
    <2>2. jumptable1' = [i \in Slots |-> jumptable1'[i]]
      BY <1>1, <2>1 DEF IInv, TypeOK
    <2>3. \A i \in Slots : jumptable1'[i] \in [eip : Nat, tc : Nat]
      BY <1>3 DEF IInv, TypeOK
    <2>4. tx_target' \in Nat
      BY <1>1, <1>2, TableAssumption
    <2>5. QED
      BY <2>2, <2>3, <2>4 DEF TypeOK
  <1>5. Paired'
    BY <1>3 DEF IInv, Paired, Empty
  <1>6. QED
    BY <1>1, <1>2, <1>4, <1>5 DEF IInv

LEMMA HitFirstStep ==
  ASSUME IInv, NEW t \in Targets, HitFirst(t)
  PROVE  IInv' /\ tx_target' \in Tc[t]
  <1>1. tx_target' = jumptable1[Hash(t)].tc /\ jumptable1' = jumptable1
    BY DEF HitFirst
  <1>2. FoundAt(t, 0) /\ 0 \in 0 .. 3
    BY DEF HitFirst
  <1>3. jumptable1[Hash(t) + 0].tc \in Tc[t]
    BY <1>2, SlotFound
  <1>4. Hash(t) + 0 = Hash(t)
    BY HashRange, TableAssumption
  <1>5. tx_target' \in Tc[t]
    BY <1>1, <1>3, <1>4
  <1>6. QED
    BY <1>1, <1>5, TableAssumption DEF IInv, TypeOK, Paired, Empty

LEMMA NextStep == IInv /\ [Next]_vars => IInv'
  <1> SUFFICES ASSUME IInv, [Next]_vars PROVE IInv'
    OBVIOUS
  <1>1. ASSUME NEW t \in Targets, Add(t) PROVE IInv'
    BY <1>1, AddStep
  <1>2. ASSUME NEW t \in Targets, Hit(t) PROVE IInv'
    BY <1>2, HitFirstStep, HitBehindStep DEF Hit
  <1>3. ASSUME NEW t \in Targets, Miss(t) PROVE IInv'
    BY <1>3, TableAssumption DEF Miss, IInv, TypeOK, Paired, Empty
  <1>4. CASE UNCHANGED vars
    BY <1>4 DEF vars, IInv, TypeOK, Paired, Empty
  <1>5. QED
    BY <1>1, <1>2, <1>3, <1>4 DEF Next

----------------------------------------------------------------------------
THEOREM Invariance == Spec => []IInv
  BY InitInv, NextStep, PTL DEF Spec

\* jumptable1_add and SEARCH_HASH_TABLE write no slot but those of the table.
THEOREM TypeCorrect == Spec => []TypeOK
  BY Invariance, PTL DEF IInv

\* No sequence of additions and searches makes a slot pair an address with
\* a translation of another one.
THEOREM Pairing == Spec => []Paired
  BY Invariance, PTL DEF IInv

\* An indirect branch that finds its target in the table jumps to a
\* translation of that target.
THEOREM Landing == Spec => LandsOnTarget
  <1>1. IInv => [\A t \in Targets : Hit(t) => tx_target' \in Tc[t]]_vars
    BY HitFirstStep, HitBehindStep DEF Hit
  <1>2. QED
    BY Invariance, <1>1, PTL DEF LandsOnTarget

----------------------------------------------------------------------------
(* The table as a cache.  Slots behind the set of an address may hold it,  *)
(* where no search looks; nothing in front of the set does, or additions   *)
(* to other sets would move it into its own.                               *)

Behind == \A i \in Slots : Hash(jumptable1[i].eip) <= i

\* The entry of slot i is where a search for its address looks.
InSet(i) == \E k \in 0 .. 3 : i = Hash(jumptable1[i].eip) + k

LEMMA HashOfEntry ==
  ASSUME TypeOK, NEW i \in Slots
  PROVE  jumptable1[i].eip \in Nat /\ Hash(jumptable1[i].eip) \in 0 .. Size - 1
  <1>1. jumptable1[i].eip \in Nat
    BY DEF TypeOK
  <1>2. QED
    BY <1>1, TableAssumption DEF Hash

LEMMA StoredSlot ==
  ASSUME NEW i \in Slots, InSet(i), jumptable1[i] # Empty
  PROVE  jumptable1[i] \in Stored
  BY DEF Stored, InSet

\* An entry that was in slot j is in slot i, behind it, in its set: so it was
\* in its set before.
LEMMA KeptEntry ==
  ASSUME TypeOK, Behind, NEW i \in Slots, NEW j \in Slots, j <= i,
         NEW k \in 0 .. 3, i = Hash(jumptable1[j].eip) + k,
         jumptable1[j] # Empty
  PROVE  jumptable1[j] \in Stored
  <1> DEFINE h == Hash(jumptable1[j].eip)
  <1>1. h \in Nat /\ i \in Nat /\ j \in Nat /\ h <= j
    BY HashOfEntry, TableAssumption DEF Behind, Slots
  <1>2. j = h + (j - h) /\ j - h \in 0 .. 3
    BY <1>1
  <1>3. InSet(j)
    BY <1>2 DEF InSet
  <1>4. QED
    BY <1>3, StoredSlot

LEMMA AddBehind ==
  ASSUME IInv, Behind, NEW t \in Targets, Add(t)
  PROVE  Behind'
  <1>1. PICK n \in 0 .. 3, tc \in Tc[t] :
          jumptable1' = [i \in Slots |->
            IF i = Hash(t) THEN [eip |-> t, tc |-> tc]
            ELSE IF i \in Hash(t) + 1 .. Hash(t) + n THEN jumptable1[i - 1]
            ELSE jumptable1[i]]
    BY DEF Add
  <1>2. Hash(t) \in 0 .. Size - 1 /\ Size \in Nat
    BY HashRange, TableAssumption
  <1>3. ASSUME NEW i \in Slots
        PROVE  Hash(jumptable1'[i].eip) <= i
    <2>1. CASE i = Hash(t)
      <3>1. jumptable1'[i] = [eip |-> t, tc |-> tc]
        BY <1>1, <2>1
      <3>2. QED
        BY <2>1, <3>1, <1>2
    <2>2. CASE i # Hash(t) /\ i \in Hash(t) + 1 .. Hash(t) + n
      <3>1. i - 1 \in Slots /\ i \in Int
        BY <1>2, <2>2 DEF Slots
      <3>2. jumptable1'[i] = jumptable1[i - 1]
        BY <1>1, <2>2
      <3>3. Hash(jumptable1[i - 1].eip) <= i - 1
        BY <3>1 DEF Behind
      <3>4. Hash(jumptable1[i - 1].eip) \in Int
        BY <3>1, HashOfEntry DEF IInv
      <3>5. Hash(jumptable1[i - 1].eip) <= i
        BY <3>1, <3>3, <3>4
      <3>6. QED
        BY <3>2, <3>5
    <2>3. CASE i # Hash(t) /\ i \notin Hash(t) + 1 .. Hash(t) + n
      BY <1>1, <2>3 DEF Behind
    <2>4. QED
      BY <2>1, <2>2, <2>3
  <1>4. QED
    BY <1>3 DEF Behind, Hash

\* SEARCH_HASH_TABLE moves the entry in the first slot of the set backwards.
LEMMA HitBehindBehind ==
  ASSUME IInv, Behind, NEW t \in Targets, HitBehind(t)
  PROVE  Behind'
  <1>1. PICK k \in 1 .. 3 :
          /\ FoundAt(t, k)
          /\ jumptable1' =
               [jumptable1 EXCEPT
                  ![Hash(t)] = [eip |-> t, tc |-> jumptable1[Hash(t) + k].tc],
                  ![Hash(t) + k] = jumptable1[Hash(t)]]
    BY DEF HitBehind
  <1>2. Hash(t) + k \in Slots /\ Hash(t) \in Slots
    BY <1>1, SlotFound
  <1>3. Hash(t) \in 0 .. Size - 1
    BY HashRange
  <1>4. ASSUME NEW i \in Slots
        PROVE  Hash(jumptable1'[i].eip) <= i
    <2>1. CASE i = Hash(t)
      <3>1. jumptable1'[i] = [eip |-> t, tc |-> jumptable1[Hash(t) + k].tc]
        BY <1>1, <1>2, <1>3, <2>1 DEF IInv, TypeOK
      <3>2. QED
        BY <2>1, <3>1, <1>3
    <2>2. CASE i = Hash(t) + k
      <3>1. jumptable1'[i] = jumptable1[Hash(t)]
        BY <1>1, <1>2, <2>2 DEF IInv, TypeOK
      <3>2. Hash(jumptable1[Hash(t)].eip) <= Hash(t)
        BY <1>2 DEF Behind
      <3>3. Hash(jumptable1[Hash(t)].eip) \in Int
        BY <1>2, HashOfEntry DEF IInv
      <3>4. Hash(jumptable1[Hash(t)].eip) <= i
        BY <1>3, <2>2, <3>2, <3>3
      <3>5. QED
        BY <3>1, <3>4
    <2>3. CASE i # Hash(t) /\ i # Hash(t) + k
      <3>1. jumptable1'[i] = jumptable1[i]
        BY <1>1, <2>3 DEF IInv, TypeOK
      <3>2. QED
        BY <3>1 DEF Behind
    <2>4. QED
      BY <2>1, <2>2, <2>3
  <1>5. QED
    BY <1>4 DEF Behind, Hash

CacheInv == IInv /\ Behind

LEMMA InitCache == Init => CacheInv
  <1> SUFFICES ASSUME Init PROVE Behind
    BY InitInv DEF CacheInv
  <1>1. \A i \in Slots : jumptable1[i].eip = 0 /\ i >= 0
    BY TableAssumption DEF Init, Empty, Slots
  <1>2. Hash(0) = 0
    BY TableAssumption DEF Hash
  <1>3. QED
    BY <1>1, <1>2 DEF Behind

LEMMA CacheStep == CacheInv /\ [Next]_vars => CacheInv'
  <1> SUFFICES ASSUME CacheInv, [Next]_vars PROVE Behind'
    BY NextStep DEF CacheInv
  <1> USE DEF CacheInv
  <1>1. ASSUME NEW t \in Targets, Add(t) PROVE Behind'
    BY <1>1, AddBehind
  <1>2. ASSUME NEW t \in Targets, HitBehind(t) PROVE Behind'
    BY <1>2, HitBehindBehind
  <1>3. ASSUME jumptable1' = jumptable1 PROVE Behind'
    BY <1>3 DEF Behind, Hash
  <1>4. QED
    BY <1>1, <1>2, <1>3 DEF Next, Hit, HitFirst, Miss, vars

\* After an addition a search finds the new entry and entries it found before.
LEMMA AddIsCache ==
  ASSUME CacheInv, NEW t \in Targets \ {0}, Add(t)
  PROVE  \E tc \in Tc[t] : Stored' \in AfterAdd(Stored, [eip |-> t, tc |-> tc])
  <1>1. PICK n \in 0 .. 3, tc \in Tc[t] :
          jumptable1' = [i \in Slots |->
            IF i = Hash(t) THEN [eip |-> t, tc |-> tc]
            ELSE IF i \in Hash(t) + 1 .. Hash(t) + n THEN jumptable1[i - 1]
            ELSE jumptable1[i]]
    BY DEF Add
  <1> DEFINE entry == [eip |-> t, tc |-> tc]
  <1>2. Hash(t) \in 0 .. Size - 1 /\ Size \in Nat /\ Hash(t) \in Slots
    BY HashRange, TableAssumption DEF Slots
  <1>3. Stored' = {jumptable1'[i] : i \in {i \in Slots :
             \E k \in 0 .. 3 : i = Hash(jumptable1'[i].eip) + k}} \ {Empty}
    BY DEF Stored, Hash, Empty, Slots
  <1>4. entry \in Stored'
    <2>1. jumptable1'[Hash(t)] = entry
      BY <1>1, <1>2
    <2>2. entry # Empty
      BY DEF Empty
    <2>3. Hash(t) = Hash(jumptable1'[Hash(t)].eip) + 0
      BY <2>1, <1>2
    <2>4. QED
      BY <1>2, <1>3, <2>1, <2>2, <2>3
  <1>5. ASSUME NEW x \in Stored', x # entry
        PROVE  x \in Stored
    <2>1. PICK i \in Slots, k \in 0 .. 3 :
            x = jumptable1'[i] /\ i = Hash(x.eip) + k /\ x # Empty
      BY <1>3
    <2>2. i # Hash(t)
      BY <1>1, <2>1, <1>5
    <2>3. CASE i \in Hash(t) + 1 .. Hash(t) + n
      <3>1. i - 1 \in Slots /\ i - 1 <= i
        BY <1>2, <2>3 DEF Slots
      <3>2. x = jumptable1[i - 1]
        BY <1>1, <2>1, <2>2, <2>3
      <3>3. QED
        BY <2>1, <3>1, <3>2, KeptEntry DEF CacheInv, IInv
    <2>4. CASE i \notin Hash(t) + 1 .. Hash(t) + n
      <3>1. x = jumptable1[i] /\ i <= i
        <4>1. jumptable1'[i] = jumptable1[i]
          BY ONLY <1>1, <2>2, <2>4, i \in Slots
        <4>2. i \in Nat
          BY <1>2 DEF Slots
        <4>3. QED
          BY <2>1, <4>1, <4>2
      <3>2. QED
        BY <2>1, <3>1, KeptEntry DEF CacheInv, IInv
    <2>5. QED
      BY <2>3, <2>4
  <1>6. Stored' = (Stored' \cap Stored) \cup {entry}
    BY <1>4, <1>5
  <1>7. QED
    BY <1>6 DEF AfterAdd

\* After a search it finds no entry that it did not find before, and still
\* the one it found.
LEMMA HitIsCache ==
  ASSUME CacheInv, NEW t \in Targets \ {0}, Hit(t)
  PROVE  Stored' \in AfterHit(Stored, [eip |-> t, tc |-> tx_target'])
  <1> DEFINE entry == [eip |-> t, tc |-> tx_target']
  <1>1. Hash(t) \in 0 .. Size - 1 /\ Size \in Nat /\ Hash(t) \in Slots
    BY HashRange, TableAssumption DEF Slots
  <1>2. entry # Empty
    BY DEF Empty
  <1>3. Stored' = {jumptable1'[i] : i \in {i \in Slots :
             \E k \in 0 .. 3 : i = Hash(jumptable1'[i].eip) + k}} \ {Empty}
    BY DEF Stored, Hash, Empty, Slots
  <1>4. CASE HitFirst(t)
    <2>1. /\ FoundAt(t, 0) /\ jumptable1' = jumptable1
          /\ tx_target' = jumptable1[Hash(t)].tc
      BY <1>4 DEF HitFirst
    <2>2. jumptable1[Hash(t)].eip = t
      BY <2>1, <1>1 DEF FoundAt, Matches
    <2>3. jumptable1[Hash(t)] = entry
      BY <1>1, <2>1, <2>2 DEF CacheInv, IInv, TypeOK
    <2>4. InSet(Hash(t))
      BY <1>1, <2>2 DEF InSet
    <2>5. entry \in Stored
      BY <1>1, <1>2, <2>3, <2>4, StoredSlot
    <2>6. Stored' = Stored
      BY <1>3, <2>1 DEF Stored
    <2>7. QED
      BY <2>5, <2>6 DEF AfterHit
  <1>5. CASE HitBehind(t)
    <2>1. PICK k \in 1 .. 3 :
            /\ FoundAt(t, k)
            /\ tx_target' = jumptable1[Hash(t) + k].tc
            /\ jumptable1' =
                 [jumptable1 EXCEPT
                    ![Hash(t)] = [eip |-> t, tc |-> jumptable1[Hash(t) + k].tc],
                    ![Hash(t) + k] = jumptable1[Hash(t)]]
      BY <1>5 DEF HitBehind
    <2>2. Hash(t) + k \in Slots /\ jumptable1[Hash(t) + k].eip = t
      BY <2>1, SlotFound DEF CacheInv
    <2>3. jumptable1[Hash(t) + k] = entry
      BY <2>1, <2>2 DEF CacheInv, IInv, TypeOK
    <2>4. InSet(Hash(t) + k)
      BY <2>2 DEF InSet
    <2>5. entry \in Stored
      BY <1>2, <2>2, <2>3, <2>4, StoredSlot
    <2>6. jumptable1'[Hash(t)] = entry
      BY <1>1, <2>1, <2>2 DEF CacheInv, IInv, TypeOK
    <2>7. entry \in Stored'
      <3>1. Hash(t) = Hash(jumptable1'[Hash(t)].eip) + 0
        BY <2>6, <1>1
      <3>2. QED
        BY <1>1, <1>2, <1>3, <2>6, <3>1
    <2>8. ASSUME NEW x \in Stored', x # entry
          PROVE  x \in Stored
      <3>1. PICK i \in Slots, j \in 0 .. 3 :
              x = jumptable1'[i] /\ i = Hash(x.eip) + j /\ x # Empty
        BY <1>3
      <3>2. i # Hash(t)
        BY <2>6, <2>8, <3>1
      <3>3. CASE i = Hash(t) + k
        <4>1. x = jumptable1[Hash(t)]
          BY <1>1, <2>1, <2>2, <3>1, <3>3 DEF CacheInv, IInv, TypeOK
        <4>2. Hash(t) <= i
          BY <1>1, <3>3
        <4>3. QED
          BY <1>1, <3>1, <4>1, <4>2, KeptEntry DEF CacheInv, IInv
      <3>4. CASE i # Hash(t) + k
        <4>1. x = jumptable1[i] /\ i <= i
          BY <1>1, <2>1, <3>1, <3>2, <3>4 DEF CacheInv, IInv, TypeOK, Slots
        <4>2. QED
          BY <3>1, <4>1, KeptEntry DEF CacheInv, IInv
      <3>5. QED
        BY <3>3, <3>4
    <2>9. QED
      BY <2>5, <2>7, <2>8 DEF AfterHit
  <1>6. QED
    BY <1>4, <1>5 DEF Hit

\* jumptable1_add and SEARCH_HASH_TABLE keep the contract of the cache that
\* the dispatcher relies on: a search finds nothing that was not added.
THEOREM Caching == Spec => ActsAsCache
  <1>1. Spec => []CacheInv
    BY InitCache, CacheStep, PTL DEF Spec
  <1>2. CacheInv =>
          [\A t \in Targets \ {0} :
             /\ Add(t) => \E tc \in Tc[t] :
                  Stored' \in AfterAdd(Stored, [eip |-> t, tc |-> tc])
             /\ Hit(t) => Stored' \in AfterHit(Stored, [eip |-> t, tc |-> tx_target'])]_vars
    BY AddIsCache, HitIsCache
  <1>3. QED
    BY <1>1, <1>2, PTL DEF ActsAsCache

(***************************************************************************)
(* Where an operation is                                                   *)
(***************************************************************************)

Begin == IF op.kind = "find" THEN node ELSE op.elem

Request ==
  /\ op \in [kind : {"none", "find", "next", "insert", "delete"}, tree : Trees \cup {Nil},
             elem : Node, addr : Int, dir : Dirs]
  /\ at \in Node /\ node \in Node /\ top \in Node
  /\ pc # "idle" => op.tree \in Trees
  /\ op.kind = "find" => op.dir = "left"
  /\ op.kind = "delete" => op.dir = "right"
  /\ op.kind \in {"next", "insert", "delete"} => op.elem \in Elems /\ op.tree = TreeOf[op.elem]
  /\ pc \in {"find", "compare"} => op.kind = "find"
  /\ pc \in {"place", "fixup"} => op.kind = "insert"
  /\ pc \in {"splice", "mend", "replace"} => op.kind = "delete"
  /\ pc = "extreme" => op.kind \in {"find", "next", "delete"}
  /\ pc \in {"climb", "answer"} => op.kind \in {"find", "next"}
  /\ pc \in {"idle", "find", "compare", "place", "fixup", "splice", "mend", "replace",
             "extreme", "climb", "answer"}

Stepped(L, D) ==
  /\ pc \in {"extreme", "climb", "compare"} => In(L, Begin, op.tree)
  /\ pc \in {"extreme", "climb", "compare"} /\ op.kind = "find" => Holds(node, op.addr)
  /\ pc \in {"extreme", "climb"} => In(L, at, op.tree)
  /\ pc = "extreme" =>
       /\ \A k \in D[at] : Beyond(op.dir, k, Begin)
       /\ \A k \in L : Kin(k, Begin) /\ Beyond(op.dir, k, Begin)
                         => k \in D[at] \/ Beyond(op.dir, k, at)
  /\ pc = "climb" => Begin \in D[at] /\ \A k \in D[at] : ~Beyond(op.dir, k, Begin)
  /\ pc = "compare" => NextTo(L, at, Begin, op.dir)

Looked(L, D) ==
  /\ pc = "find" =>
       /\ at # Nil => In(L, at, op.tree)
       /\ \A k \in L : TreeOf[k] = op.tree /\ Holds(k, op.addr) => k \in D[at]
  /\ pc = "answer" /\ op.kind = "find" => First(L, at, op.tree, op.addr)
  /\ pc = "answer" /\ op.kind = "next" => In(L, op.elem, op.tree) /\ NextTo(L, at, op.elem, op.dir)

Placed(L, D) ==
  /\ pc = "place" =>
       /\ Free(L, op.elem) /\ In(L, at, op.tree) /\ Around(L, D, at, op.elem)
       /\ child[op.elem] = NoLinks /\ parent[op.elem] = Nil /\ color[op.elem] = "red"
  /\ pc = "fixup" =>
       /\ In(L, at, op.tree) /\ ~Black(at)
       /\ root[op.tree] = top \/ (parent[at] # Nil /\ Black(parent[at]))

Removed(L) ==
  /\ pc = "splice" =>
       /\ In(L, op.elem, op.tree) /\ In(L, at, op.tree)
       /\ \E d \in Dirs : child[at][d] = Nil
       /\ at # op.elem => NextTo(L, at, op.elem, "right")
  /\ pc \in {"mend", "replace"} => Beside(L, op.elem, node)
  /\ pc = "mend" =>
       /\ at # Nil => In(L, at, op.tree)
       /\ IF top = Nil THEN at = Nil ELSE In(L, top, op.tree)
       /\ at # top => /\ parent[at] # Nil
                      /\ parent[top] = Nil \/ (~Black(top) /\ top = parent[at])

\* Where a black node lacks, and which red node may have a red parent or child.
Lacks == pc = "mend" /\ parent[at] # Nil /\ ~(at = top /\ Black(at))
LackP == IF Lacks THEN parent[at] ELSE Nil
LackD == Side(at)
RedC  == IF pc \in {"fixup", "mend"} THEN at ELSE Nil
RedP  == IF pc = "mend" THEN at ELSE Nil

Hung(L) ==
  Lacks => In(L, parent[at], op.tree) /\ child[parent[at]][Side(at)] = at

Local(L, D) ==
  Request /\ Stepped(L, D) /\ Looked(L, D) /\ Placed(L, D) /\ Removed(L) /\ Hung(L)

Good(L, D, h) ==
  /\ Shape(child, parent, root, L, D)
  /\ Weighed(child, color, L, h, LackP, LackD)
  /\ Colored(child, root, color, L, RedC, RedP)
  /\ Local(L, D)

\* The trees are well made of the elements of L.
Made(L) == \E D \in [Node -> SUBSET Elems] : \E h \in [Node -> Nat] : Good(L, D, h)

TreeInv == \E L \in SUBSET Elems : Made(L)

(***************************************************************************)
(* What is to be shown of a step                                           *)
(***************************************************************************)

\* What is to be shown of a step.
LEMMA Introduced ==
  ASSUME NEW L, NEW D, Shape(child', parent', root', L, D),
         Fits(child', root', color', L, RedC', RedP', LackP', LackD'), Local(L, D)'
  PROVE  Made(L)'
  <1>1. L \in SUBSET Elems /\ D \in [Node -> SUBSET Elems]
    BY Nodes
  <1>2. PICK h \in [Node -> Nat] : Weighed(child', color', L, h, LackP', LackD')
    BY DEF Fits
  <1>3. Colored(child', root', color', L, RedC', RedP')
    BY DEF Fits
  <1>4. Good(L, D, h)'
    BY <1>2, <1>3 DEF Good
  <1>5. QED
    BY <1>1, <1>2, <1>4 DEF Made

\* Outside of a fixup nothing is missing.
LEMMA Calm ==
  ASSUME NEW L, NEW D, NEW h, Good(L, D, h), pc \notin {"fixup", "mend"}
  PROVE  /\ Shape(child, parent, root, L, D) /\ Local(L, D)
         /\ Weighed(child, color, L, h, Nil, LackD)
         /\ Colored(child, root, color, L, Nil, Nil)
  <1>1. LackP = Nil /\ RedC = Nil /\ RedP = Nil
    BY DEF LackP, Lacks, RedC, RedP
  <1>2. QED
    BY <1>1 DEF Good

LEMMA CalmAfter ==
  ASSUME NEW L, NEW D, Shape(child', parent', root', L, D), pc' \notin {"fixup", "mend"},
         NEW d, Fits(child', root', color', L, Nil, Nil, Nil, d), Local(L, D)'
  PROVE  Made(L)'
  <1>1. LackP' = Nil /\ RedC' = Nil /\ RedP' = Nil
    BY DEF LackP, Lacks, RedC, RedP
  <1>2. Fits(child', root', color', L, RedC', RedP', LackP', LackD')
    BY <1>1, FitsNone
  <1>3. QED
    BY <1>2, Introduced

\* Steps that only look.
LEMMA Still ==
  ASSUME NEW L, NEW D, NEW h, Good(L, D, h), UNCHANGED fields,
         pc \notin {"fixup", "mend"}, pc' \notin {"fixup", "mend"}, Local(L, D)'
  PROVE  Made(L)'
  <1>1. /\ Shape(child, parent, root, L, D)
        /\ Weighed(child, color, L, h, Nil, LackD)
        /\ Colored(child, root, color, L, Nil, Nil)
    BY Calm
  <1>2. child' = child /\ parent' = parent /\ color' = color /\ root' = root
    BY DEF fields
  <1>3. h \in [Node -> Nat]
    BY <1>1 DEF Weighed
  <1>4. Shape(child', parent', root', L, D)
    BY <1>1, <1>2
  <1>5. Fits(child, root, color, L, Nil, Nil, Nil, LackD)
    BY <1>1, <1>3 DEF Fits
  <1>6. Fits(child', root', color', L, Nil, Nil, Nil, LackD)
    BY <1>2, <1>5
  <1>7. QED
    BY <1>4, <1>6, CalmAfter

\* The elements of a tree.
LEMMA Contents ==
  ASSUME NEW L, NEW D, Shape(child, parent, root, L, D)
  PROVE  \A t \in Trees : Content(t) = {e \in L : TreeOf[e] = t}
  <1>1. \A e \in Elems : Hangs(e) <=> HangsIn(child, parent, root, e)
    BY DEF Hangs, HangsIn
  <1>2. ASSUME NEW e \in Elems
        PROVE  Hangs(e) <=> e \in L
    <2>1. CASE e \in L
      BY <1>1, <2>1 DEF Shape, Tied, HangsIn
    <2>2. CASE e \notin L
      BY <1>1, <2>2 DEF Shape, Tied
    <2>3. QED
      BY <2>1, <2>2
  <1>3. L \subseteq Elems
    BY Nodes
  <1>4. QED
    BY <1>2, <1>3 DEF Content

LEMMA ContentsAfter ==
  ASSUME NEW L, NEW D, Shape(child', parent', root', L, D)
  PROVE  \A t \in Trees : Content(t)' = {e \in L : TreeOf[e] = t}
  <1>1. \A e \in Elems : Hangs(e)' <=> HangsIn(child', parent', root', e)
    BY DEF Hangs, HangsIn
  <1>2. ASSUME NEW e \in Elems
        PROVE  Hangs(e)' <=> e \in L
    <2>1. CASE e \in L
      BY <1>1, <2>1 DEF Shape, Tied, HangsIn
    <2>2. CASE e \notin L
      BY <1>1, <2>2 DEF Shape, Tied
    <2>3. QED
      BY <2>1, <2>2
  <1>3. L \subseteq Elems
    BY Nodes
  <1>4. QED
    BY <1>2, <1>3 DEF Content

(***************************************************************************)
(* Steps that look                                                         *)
(***************************************************************************)

LEMMA LookingOnly ==
  ASSUME NEW L, NEW D, pc' \in {"idle", "find", "compare", "extreme", "climb", "answer"},
         Request', Stepped(L, D)', Looked(L, D)'
  PROVE  Local(L, D)'
  BY DEF Local, Placed, Removed, Hung, Lacks

\* The state that an operation which only looks starts from.
Calmly(L, D, h) ==
  /\ Good(L, D, h) /\ Shape(child, parent, root, L, D) /\ Local(L, D)
  /\ L \in SUBSET Elems /\ L \in SUBSET Node /\ Nil \notin L /\ Nil \in Node
  /\ \A n \in L : \A d \in Dirs : child[n][d] \in L \cup {Nil} /\ child[n][d] \in Node
  /\ \A n \in L : parent[n] \in L \cup {Nil}
  /\ \A t \in Trees : root[t] \in L \cup {Nil}
  /\ \A n \in L : TreeOf[n] \in Trees

LEMMA CalmlyThen ==
  ASSUME NEW L, NEW D, NEW h, Good(L, D, h)
  PROVE  Calmly(L, D, h)
  <1>1. Shape(child, parent, root, L, D) /\ Local(L, D)
    BY DEF Good
  <1>2. L \in SUBSET Elems /\ L \in SUBSET Node /\ Nil \notin L /\ Nil \in Node
    BY <1>1, Nodes
  <1>3. /\ \A n \in L : \A d \in Dirs : child[n][d] \in L \cup {Nil} /\ child[n][d] \in Node
        /\ \A n \in L : parent[n] \in L \cup {Nil}
        /\ \A t \in Trees : root[t] \in L \cup {Nil}
        /\ \A n \in L : TreeOf[n] \in Trees
    BY <1>1, <1>2, Links
  <1>4. QED
    BY <1>1, <1>2, <1>3 DEF Calmly

\* successor and predecessor of n begin.
LEMMA SteppingStarts ==
  ASSUME NEW L, NEW D, NEW h, Calmly(L, D, h), NEW n \in L, NEW d \in Dirs,
         Stepping(n, d), UNCHANGED fields,
         op'.dir = d, op'.tree = TreeOf[n], Begin' = n,
         op'.kind = "find" => Holds(node', op'.addr)
  PROVE  pc' \in {"extreme", "climb"} /\ at' \in L /\ Stepped(L, D)' /\ Looked(L, D)'
  <1>1. Shape(child, parent, root, L, D) /\ L \subseteq Elems /\ Nil \notin L
    BY DEF Calmly
  <1>2. In(L, n, TreeOf[n])
    BY DEF In
  <1>3. CASE child[n][d] # Nil
    <2> DEFINE c == child[n][d]
    <2>1. pc' = "extreme" /\ at' = c
      BY <1>3 DEF Stepping
    <2>2. In(L, c, TreeOf[n]) /\ c \in L
      BY <1>1, <1>3, Child DEF In, Kin
    <2>3. /\ \A k \in D[c] : Beyond(d, k, n)
          /\ \A k \in L : Kin(k, n) /\ Beyond(d, k, n) => k \in D[c] \/ Beyond(d, k, c)
      BY <1>1, <1>3, BelowOrBeyond
    <2> HIDE DEF c
    <2>4. Stepped(L, D)'
      BY <1>2, <2>1, <2>2, <2>3 DEF Stepped
    <2>5. QED
      BY <2>1, <2>2, <2>4 DEF Looked
  <1>4. CASE child[n][d] = Nil
    <2>1. pc' = "climb" /\ at' = n
      BY <1>4 DEF Stepping
    <2>2. n \in D[n] /\ \A k \in D[n] : k = n \/ Beyond(Other(d), k, n)
      BY <1>1, <1>4, Nodes, NoneBeyond
    <2>3. \A k \in D[n] : k \in Elems
      BY <1>1, Nodes
    <2>4. \A k \in D[n] : ~Beyond(d, k, n)
      BY <1>1, <2>2, <2>3, OrderOfKeys
    <2>5. Stepped(L, D)'
      BY <1>2, <2>1, <2>2, <2>4 DEF Stepped
    <2>6. QED
      BY <2>1, <2>5 DEF Looked
  <1>5. QED
    BY <1>3, <1>4

LEMMA NeighbourStep ==
  ASSUME NEW L, NEW D, NEW h, Good(L, D, h), NEW e \in Elems, NEW d \in Dirs, Neighbour(e, d)
  PROVE  Made(L)'
  <1>1. Calmly(L, D, h)
    BY CalmlyThen
  <1>2. /\ pc = "idle" /\ e \in Content(TreeOf[e]) /\ Stepping(e, d)
        /\ op' = [kind |-> "next", tree |-> TreeOf[e], elem |-> e, addr |-> 0, dir |-> d]
        /\ UNCHANGED fields /\ node' = node /\ top' = top
    BY DEF Neighbour
  <1>3. e \in L /\ TreeOf[e] \in Trees /\ e \in Node
    <2>1. TreeOf[e] \in Trees
      BY TreesAssumption
    <2>2. QED
      BY <1>1, <1>2, <2>1, Contents DEF Calmly
  <1>4. Begin' = e /\ op'.dir = d /\ op'.tree = TreeOf[e] /\ op'.kind = "next"
    BY <1>2 DEF Begin
  <1>5. pc' \in {"extreme", "climb"} /\ at' \in L /\ Stepped(L, D)' /\ Looked(L, D)'
    BY <1>1, <1>2, <1>3, <1>4, SteppingStarts
  <1>6. Request
    BY <1>1 DEF Calmly, Local
  <1>7. Request'
    BY <1>1, <1>2, <1>3, <1>5, <1>6 DEF Request, Calmly
  <1>8. Local(L, D)'
    BY <1>5, <1>7, LookingOnly
  <1>9. QED
    BY <1>2, <1>5, <1>8, Still

LEMMA ExtremeStep ==
  ASSUME NEW L, NEW D, NEW h, Good(L, D, h), Extreme
  PROVE  Made(L)'
  <1> DEFINE c == child[at][Other(op.dir)]
             d == op.dir
  <1>1. Calmly(L, D, h)
    BY CalmlyThen
  <1>2. /\ pc = "extreme" /\ UNCHANGED <<fields, op, node, top>>
        /\ IF c # Nil THEN at' = c /\ pc' = pc ELSE pc' = Resume /\ at' = at
    BY DEF Extreme
  <1>3. Request /\ Stepped(L, D) /\ Shape(child, parent, root, L, D)
    BY <1>1 DEF Calmly, Local
  <1>4. d \in Dirs /\ Other(d) \in Dirs /\ op.kind \in {"find", "next", "delete"}
    BY <1>2, <1>3, Directions DEF Request
  <1>5. /\ In(L, Begin, op.tree) /\ In(L, at, op.tree) /\ at \in L /\ Begin \in L
        /\ Kin(at, Begin) /\ TreeOf[Begin] = op.tree
        /\ op.kind = "find" => Holds(node, op.addr)
        /\ \A k \in D[at] : Beyond(d, k, Begin)
        /\ \A k \in L : Kin(k, Begin) /\ Beyond(d, k, Begin) => k \in D[at] \/ Beyond(d, k, at)
    BY <1>2, <1>3 DEF Stepped, In, Kin
  <1>6. Begin' = Begin /\ UNCHANGED fields /\ op' = op /\ node' = node /\ top' = top
    BY <1>2 DEF Begin
  <1>7. CASE c # Nil
    <2>1. at' = c /\ pc' = "extreme"
      BY <1>2, <1>7
    <2>2. c \in L /\ In(L, c, op.tree) /\ D[c] \subseteq D[at]
      BY <1>3, <1>4, <1>5, <1>7, Child DEF In, Kin
    <2>3. \A k \in L : k \in D[at] \/ Beyond(d, k, at) => k \in D[c] \/ Beyond(d, k, c)
      BY <1>3, <1>4, <1>5, <1>7, NearerBelow
    <2>4. c \in Node
      BY <1>1, <2>2 DEF Calmly
    <2> HIDE DEF c
    <2>5. Stepped(L, D)' /\ Looked(L, D)'
      BY <1>5, <1>6, <2>1, <2>2, <2>3 DEF Stepped, Looked
    <2>6. Request'
      BY <1>2, <1>3, <1>6, <2>1, <2>4 DEF Request
    <2>7. Local(L, D)'
      BY <2>1, <2>5, <2>6, LookingOnly
    <2>8. QED
      BY <1>2, <1>6, <2>1, <2>7, Still
  <1>8. CASE c = Nil
    <2>1. pc' = Resume /\ at' = at
      BY <1>2, <1>8
    <2>2. NextTo(L, at, Begin, d)
      BY <1>3, <1>4, <1>5, <1>8, NearestBelow
    <2>3. CASE op.kind = "find"
      <3>1. pc' = "compare"
        BY <2>1, <2>3 DEF Resume
      <3>2. Stepped(L, D)' /\ Looked(L, D)'
        BY <1>5, <1>6, <2>1, <2>2, <2>3, <3>1 DEF Stepped, Looked
      <3>3. Request'
        BY <1>2, <1>3, <1>6, <2>1, <2>3, <3>1 DEF Request
      <3>4. Local(L, D)'
        BY <3>1, <3>2, <3>3, LookingOnly
      <3>5. QED
        BY <1>2, <1>6, <3>1, <3>4, Still
    <2>4. CASE op.kind = "next"
      <3>1. pc' = "answer" /\ Begin = op.elem
        BY <2>1, <2>4 DEF Resume, Begin
      <3>2. Stepped(L, D)' /\ Looked(L, D)'
        BY <1>5, <1>6, <2>1, <2>2, <2>4, <3>1 DEF Stepped, Looked
      <3>3. Request'
        BY <1>2, <1>3, <1>6, <2>1, <2>4, <3>1 DEF Request
      <3>4. Local(L, D)'
        BY <3>1, <3>2, <3>3, LookingOnly
      <3>5. QED
        BY <1>2, <1>6, <3>1, <3>4, Still
    <2>5. CASE op.kind = "delete"
      <3>1. pc' = "splice" /\ Begin = op.elem /\ d = "right"
        BY <1>3, <2>1, <2>5 DEF Resume, Begin, Request
      <3>2. Stepped(L, D)' /\ Looked(L, D)' /\ Placed(L, D)' /\ Hung(L)'
        BY <3>1 DEF Stepped, Looked, Placed, Hung, Lacks
      <3>3. Request'
        BY <1>2, <1>3, <1>6, <2>1, <2>5, <3>1 DEF Request
      <3>4. Removed(L)'
        <4>1. child' = child
          BY <1>6 DEF fields
        <4>2. \E s \in Dirs : child[at][s] = Nil
          BY <1>4, <1>8
        <4>3. QED
          BY <1>5, <1>6, <2>1, <2>2, <3>1, <4>1, <4>2 DEF Removed
      <3>5. Local(L, D)'
        BY <3>2, <3>3, <3>4 DEF Local
      <3>6. QED
        BY <1>2, <1>6, <3>1, <3>5, Still
    <2>6. QED
      BY <1>4, <2>3, <2>4, <2>5
  <1>9. QED
    BY <1>7, <1>8

LEMMA ClimbStep ==
  ASSUME NEW L, NEW D, NEW h, Good(L, D, h), Climb
  PROVE  Made(L)'
  <1> DEFINE p == parent[at]
             d == op.dir
  <1>1. Calmly(L, D, h)
    BY CalmlyThen
  <1>2. /\ pc = "climb" /\ UNCHANGED <<fields, op, node, top>> /\ at' = p
        /\ pc' = IF p # Nil /\ at = child[p][d] THEN pc ELSE Resume
    BY DEF Climb
  <1>3. Request /\ Stepped(L, D) /\ Shape(child, parent, root, L, D)
    BY <1>1 DEF Calmly, Local
  <1>4. d \in Dirs /\ op.kind \in {"find", "next"}
    BY <1>2, <1>3 DEF Request
  <1>5. /\ In(L, Begin, op.tree) /\ In(L, at, op.tree) /\ at \in L /\ Begin \in L
        /\ Kin(at, Begin) /\ TreeOf[Begin] = op.tree
        /\ op.kind = "find" => Holds(node, op.addr)
        /\ Begin \in D[at] /\ \A k \in D[at] : ~Beyond(d, k, Begin)
    BY <1>2, <1>3 DEF Stepped, In, Kin
  <1>6. Begin' = Begin /\ UNCHANGED fields /\ op' = op /\ node' = node /\ top' = top
    BY <1>2 DEF Begin
  <1>7. p \in L \cup {Nil} /\ p \in Node /\ at # Nil
    BY <1>1, <1>5 DEF Calmly
  <1>8. CASE p # Nil /\ at = child[p][d]
    <2>1. pc' = "climb" /\ p \in L
      BY <1>2, <1>7, <1>8
    <2>2. In(L, p, op.tree)
      BY <1>3, <1>4, <1>5, <1>7, <1>8, <2>1, Child DEF In, Kin
    <2>3. Begin \in D[p] /\ \A k \in D[p] : ~Beyond(d, k, Begin)
      BY <1>3, <1>4, <1>5, <1>7, <1>8, <2>1, Climbed
    <2> HIDE DEF p
    <2>4. Stepped(L, D)' /\ Looked(L, D)'
      BY <1>2, <1>5, <1>6, <2>1, <2>2, <2>3 DEF Stepped, Looked
    <2>5. Request'
      BY <1>2, <1>3, <1>4, <1>6, <1>7, <2>1 DEF Request
    <2>6. Local(L, D)'
      BY <2>1, <2>4, <2>5, LookingOnly
    <2>7. QED
      BY <1>2, <1>6, <2>1, <2>6, Still
  <1>9. CASE p = Nil \/ at # child[p][d]
    <2>1. pc' = Resume
      BY <1>2, <1>9
    <2>2. NextTo(L, p, Begin, d)
      BY <1>3, <1>4, <1>5, <1>9, ClimbedOut
    <2> HIDE DEF p
    <2>3. CASE op.kind = "find"
      <3>1. pc' = "compare"
        BY <2>1, <2>3 DEF Resume
      <3>2. Stepped(L, D)' /\ Looked(L, D)'
        BY <1>2, <1>5, <1>6, <2>2, <2>3, <3>1 DEF Stepped, Looked
      <3>3. Request'
        BY <1>2, <1>3, <1>6, <1>7, <2>3, <3>1 DEF Request
      <3>4. Local(L, D)'
        BY <3>1, <3>2, <3>3, LookingOnly
      <3>5. QED
        BY <1>2, <1>6, <3>1, <3>4, Still
    <2>4. CASE op.kind = "next"
      <3>1. pc' = "answer" /\ Begin = op.elem
        BY <2>1, <2>4 DEF Resume, Begin
      <3>2. Stepped(L, D)' /\ Looked(L, D)'
        BY <1>2, <1>5, <1>6, <2>2, <2>4, <3>1 DEF Stepped, Looked
      <3>3. Request'
        BY <1>2, <1>3, <1>6, <1>7, <2>4, <3>1 DEF Request
      <3>4. Local(L, D)'
        BY <3>1, <3>2, <3>3, LookingOnly
      <3>5. QED
        BY <1>2, <1>6, <3>1, <3>4, Still
    <2>5. QED
      BY <1>4, <2>3, <2>4
  <1>10. QED
    BY <1>8, <1>9

LEMMA FindStep ==
  ASSUME NEW L, NEW D, NEW h, Good(L, D, h), NEW t \in Trees, NEW x \in Addresses, Find(t, x)
  PROVE  Made(L)'
  <1>1. Calmly(L, D, h)
    BY CalmlyThen
  <1>2. /\ pc = "idle" /\ pc' = "find" /\ at' = root[t] /\ UNCHANGED fields
        /\ op' = [kind |-> "find", tree |-> t, elem |-> Nil, addr |-> x, dir |-> "left"]
        /\ node' = node /\ top' = top
    BY DEF Find
  <1>3. Request /\ Shape(child, parent, root, L, D) /\ x \in Int
    BY <1>1 DEF Calmly, Local, Addresses
  <1>4. root[t] # Nil => In(L, root[t], t)
    BY <1>3, Links DEF In
  <1>5. \A k \in L : TreeOf[k] = t => k \in D[root[t]]
    BY <1>3 DEF Shape, Counted
  <1>6. Looked(L, D)' /\ Stepped(L, D)'
    BY <1>2, <1>4, <1>5 DEF Looked, Stepped
  <1>7. Request'
    <2>1. at' \in Node /\ Nil \in Node
      BY <1>1, <1>2 DEF Calmly
    <2>2. QED
      BY <1>2, <1>3, <2>1 DEF Request, Dirs
  <1>8. Local(L, D)'
    BY <1>2, <1>6, <1>7, LookingOnly
  <1>9. QED
    BY <1>2, <1>8, Still

LEMMA SearchStep ==
  ASSUME NEW L, NEW D, NEW h, Good(L, D, h), Search
  PROVE  Made(L)'
  <1> DEFINE x == op.addr
             k0 == Point(op.addr)
  <1>1. Calmly(L, D, h)
    BY CalmlyThen
  <1>2. Request /\ Looked(L, D) /\ Shape(child, parent, root, L, D)
    BY <1>1 DEF Calmly, Local
  <1>3. pc = "find" /\ UNCHANGED fields /\ op' = op /\ top' = top
    BY DEF Search
  <1>4. /\ op.kind = "find" /\ op.dir = "left" /\ x \in Int /\ op.tree \in Trees
        /\ at # Nil => In(L, at, op.tree)
        /\ \A k \in L : TreeOf[k] = op.tree /\ Holds(k, x) => k \in D[at]
    BY <1>2, <1>3 DEF Looked, Request
  <1>5. CASE at = Nil /\ pc' = "answer" /\ at' = at /\ node' = node
    <2>1. D[Nil] = {}
      BY <1>2, Nodes
    <2>2. First(L, Nil, op.tree, x)
      BY <1>4, <1>5, <2>1 DEF First
    <2>3. Looked(L, D)' /\ Stepped(L, D)'
      BY <1>3, <1>4, <1>5, <2>2 DEF Looked, Stepped
    <2>4. Request'
      BY <1>2, <1>3, <1>4, <1>5 DEF Request
    <2>5. Local(L, D)'
      BY <1>5, <2>3, <2>4, LookingOnly
    <2>6. QED
      BY <1>3, <1>5, <2>5, Still
  <1>6. ASSUME at # Nil, NEW d \in Dirs, at' = child[at][d], pc' = pc, node' = node,
               \A k \in Elems : Kin(k, at) /\ Holds(k, x) => k # at /\ ~Beyond(Other(d), k, at)
        PROVE  Made(L)'
    <2>1. at \in L /\ TreeOf[at] = op.tree /\ at \in Elems
      BY <1>1, <1>4, <1>6 DEF In, Calmly
    <2>2. at' # Nil => In(L, at', op.tree)
      BY <1>2, <1>6, <2>1, Child DEF In, Kin
    <2>3. ASSUME NEW k \in L, TreeOf[k] = op.tree, Holds(k, x)
          PROVE  k \in D[at']
      <3>1. k \in D[at] /\ k \in Elems /\ Kin(k, at)
        BY <1>1, <1>4, <2>1, <2>3 DEF Calmly, Kin
      <3>2. k # at /\ ~Beyond(Other(d), k, at)
        BY <1>6, <2>3, <3>1
      <3>3. PICK s \in Dirs : k \in D[child[at][s]]
        BY <1>2, <2>1, <3>1, <3>2 DEF Shape, Counted
      <3>4. Beyond(s, k, at)
        BY <1>2, <2>1, <3>3 DEF Shape, Sorted
      <3>5. s = d
        BY <3>2, <3>4, Directions
      <3>6. QED
        BY <1>6, <3>3, <3>5
    <2>4. at' \in Node
      BY <1>1, <1>6, <2>1 DEF Calmly
    <2>5. Looked(L, D)' /\ Stepped(L, D)'
      BY <1>3, <1>4, <1>6, <2>2, <2>3 DEF Looked, Stepped
    <2>6. Request'
      BY <1>2, <1>3, <1>4, <1>6, <2>4 DEF Request
    <2>7. Local(L, D)'
      BY <1>3, <1>6, <2>5, <2>6, LookingOnly
    <2>8. QED
      BY <1>3, <1>6, <2>7, Still
  <1>7. at # Nil => at \in L /\ TreeOf[at] = op.tree /\ at \in Elems /\ at \in Node
    BY <1>1, <1>4 DEF In, Calmly
  <1>8. "left" \in Dirs /\ "right" \in Dirs /\ Other("left") = "right" /\ Other("right") = "left"
    BY DEF Dirs, Other
  <1>9. CASE at # Nil /\ Less(Key[at], k0) /\ at' = child[at]["right"] /\ pc' = pc /\ node' = node
    <2>1. \A k \in Elems : Kin(k, at) /\ Holds(k, x) => k # at /\ ~Beyond("left", k, at)
      BY <1>4, <1>7, <1>9, Holding
    <2>2. QED
      BY <1>6, <1>8, <1>9, <2>1
  <1>10. CASE /\ at # Nil /\ Less(k0, Key[at])
              /\ at' = child[at]["left"] /\ pc' = pc /\ node' = node
    <2>1. \A k \in Elems : Kin(k, at) /\ Holds(k, x) => k # at /\ ~Beyond("right", k, at)
      BY <1>4, <1>7, <1>10, Holding
    <2>2. QED
      BY <1>6, <1>8, <1>10, <2>1
  <1>11. CASE /\ at # Nil /\ ~Less(Key[at], k0) /\ ~Less(k0, Key[at])
              /\ node' = at /\ Stepping(at, "left")
    <2>1. Holds(at, x) /\ at \in L
      BY <1>4, <1>7, <1>11, Holding
    <2>2. Begin' = at /\ op'.dir = "left" /\ op'.tree = TreeOf[at] /\ op'.kind = "find"
      BY <1>3, <1>4, <1>7, <1>11 DEF Begin
    <2>3. Holds(node', op'.addr)
      BY <1>3, <1>11, <2>1
    <2>4. pc' \in {"extreme", "climb"} /\ at' \in L /\ Stepped(L, D)' /\ Looked(L, D)'
      BY <1>1, <1>3, <1>8, <1>11, <2>1, <2>2, <2>3, SteppingStarts
    <2>5. Request'
      BY <1>1, <1>2, <1>3, <1>4, <1>7, <1>11, <2>4 DEF Request, Calmly
    <2>6. Local(L, D)'
      BY <2>4, <2>5, LookingOnly
    <2>7. QED
      BY <1>3, <2>4, <2>6, Still
  <1>12. QED
    BY <1>5, <1>9, <1>10, <1>11 DEF Search

LEMMA CompareStep ==
  ASSUME NEW L, NEW D, NEW h, Good(L, D, h), Compare
  PROVE  Made(L)'
  <1> DEFINE x == op.addr
             k0 == Point(op.addr)
  <1>1. Calmly(L, D, h)
    BY CalmlyThen
  <1>2. Request /\ Stepped(L, D) /\ Shape(child, parent, root, L, D) /\ L \subseteq Elems
    BY <1>1 DEF Calmly, Local
  <1>3. pc = "compare" /\ UNCHANGED fields /\ op' = op /\ top' = top
    BY DEF Compare
  <1>4. /\ op.kind = "find" /\ op.dir = "left" /\ x \in Int /\ op.tree \in Trees
        /\ Begin = node /\ In(L, node, op.tree) /\ Holds(node, x) /\ node # Nil
        /\ NextTo(L, at, node, "left")
    <2>1. op.kind = "find" /\ op.dir = "left" /\ x \in Int /\ op.tree \in Trees
      BY <1>2, <1>3 DEF Request
    <2>2. Begin = node
      BY <2>1 DEF Begin
    <2>3. In(L, node, op.tree) /\ Holds(node, x) /\ NextTo(L, at, node, "left")
      BY <1>2, <1>3, <2>1, <2>2 DEF Stepped
    <2>4. QED
      BY <1>1, <2>1, <2>2, <2>3 DEF In, Calmly
  <1>5. node \in L /\ TreeOf[node] = op.tree /\ node \in Node
    BY <1>1, <1>4 DEF In, Calmly
  <1>6. at # Nil => at \in L /\ TreeOf[at] = op.tree /\ at \in Elems /\ at \in Node
                    /\ Beyond("left", at, node)
    BY <1>1, <1>4, <1>5 DEF NextTo, In, Calmly
  <1>7. CASE (at = Nil \/ Less(Key[at], k0)) /\ pc' = "answer" /\ at' = node /\ node' = node
    <2>1. ASSUME NEW k \in L, TreeOf[k] = op.tree, Holds(k, x), k # node
          PROVE  Lt(node, k)
      <3>1. Kin(k, node) /\ k \in Elems /\ (at # Nil => Kin(k, at))
        BY <1>2, <1>5, <1>6, <2>1 DEF Kin
      <3>2. Lt(node, k) \/ Beyond("left", k, node)
        BY <1>2, <1>5, <2>1, <3>1 DEF Shape, Sorted, Beyond, Lt
      <3>3. ASSUME Beyond("left", k, node)
            PROVE  FALSE
        <4>1. at # Nil /\ (k = at \/ Beyond("left", k, at))
          BY <1>4, <3>1, <3>3 DEF NextTo
        <4>2. QED
          BY <1>4, <1>6, <1>7, <2>1, <3>1, <4>1, Holding
      <3>4. QED
        BY <3>2, <3>3
    <2>2. First(L, node, op.tree, x)
      BY <1>4, <2>1 DEF First
    <2>3. Looked(L, D)' /\ Stepped(L, D)'
      BY <1>3, <1>4, <1>7, <2>2 DEF Looked, Stepped
    <2>4. Request'
      BY <1>2, <1>3, <1>4, <1>5, <1>7 DEF Request
    <2>5. Local(L, D)'
      BY <1>7, <2>3, <2>4, LookingOnly
    <2>6. QED
      BY <1>3, <1>7, <2>5, Still
  <1>8. CASE at # Nil /\ ~Less(Key[at], k0) /\ node' = at /\ Stepping(at, "left")
    <2>1. Holds(at, x)
      <3>1. Key[at].lo < Key[node].lo /\ Key[node].lo <= x /\ ~(Key[at].hi < x)
        BY <1>4, <1>6, <1>8 DEF Beyond, Holds, Less, Point
      <3>2. Key[at].lo \in Int /\ Key[at].hi \in Int /\ Key[node].lo \in Int
        BY <1>2, <1>5, <1>6, <1>8, TreesAssumption DEF Addresses
      <3>3. QED
        BY <1>4, <3>1, <3>2 DEF Holds
    <2>2. Begin' = at /\ op'.dir = "left" /\ op'.tree = TreeOf[at] /\ op'.kind = "find"
      BY <1>3, <1>4, <1>6, <1>8 DEF Begin
    <2>3. Holds(node', op'.addr) /\ at \in L /\ "left" \in Dirs
      BY <1>3, <1>6, <1>8, <2>1 DEF Dirs
    <2>4. pc' \in {"extreme", "climb"} /\ at' \in L /\ Stepped(L, D)' /\ Looked(L, D)'
      BY <1>1, <1>3, <1>8, <2>2, <2>3, SteppingStarts
    <2>5. Request'
      BY <1>1, <1>2, <1>3, <1>4, <1>6, <1>8, <2>4 DEF Request, Calmly
    <2>6. Local(L, D)'
      BY <2>4, <2>5, LookingOnly
    <2>7. QED
      BY <1>3, <2>4, <2>6, Still
  <1>9. QED
    BY <1>7, <1>8 DEF Compare

\* Nothing is said of a tree at rest.
LEMMA Finished ==
  ASSUME NEW L, NEW D, Finish
  PROVE  Local(L, D)' /\ pc' = "idle"
  <1>1. pc' = "idle" /\ op' = NoOp /\ at' = Nil /\ node' = Nil /\ top' = Nil
    BY DEF Finish
  <1>2. Request'
    BY <1>1 DEF Request, NoOp, Node, Dirs
  <1>3. Stepped(L, D)' /\ Looked(L, D)'
    BY <1>1 DEF Stepped, Looked
  <1>4. QED
    BY <1>1, <1>2, <1>3, LookingOnly

LEMMA AnswerStep ==
  ASSUME NEW L, NEW D, NEW h, Good(L, D, h), Answer
  PROVE  Made(L)'
  <1>1. pc = "answer" /\ Finish /\ UNCHANGED fields
    BY DEF Answer
  <1>2. Local(L, D)' /\ pc' = "idle"
    BY <1>1, Finished
  <1>3. QED
    BY <1>1, <1>2, Still

LEMMA DeleteStep ==
  ASSUME NEW L, NEW D, NEW h, Good(L, D, h), NEW e \in Elems, Delete(e)
  PROVE  Made(L)'
  <1>1. Calmly(L, D, h)
    BY CalmlyThen
  <1>2. /\ pc = "idle" /\ e \in Content(TreeOf[e])
        /\ op' = [kind |-> "delete", tree |-> TreeOf[e], elem |-> e, addr |-> 0, dir |-> "right"]
        /\ UNCHANGED fields /\ node' = node /\ top' = top /\ child' = child
        /\ IF child[e]["left"] = Nil \/ child[e]["right"] = Nil
           THEN pc' = "splice" /\ at' = e
           ELSE pc' = "extreme" /\ at' = child[e]["right"]
    BY DEF Delete, fields
  <1>3. e \in L /\ TreeOf[e] \in Trees /\ e \in Node /\ e # Nil /\ "right" \in Dirs /\ "left" \in Dirs
    <2>1. TreeOf[e] \in Trees
      BY TreesAssumption
    <2>2. QED
      BY <1>1, <1>2, <2>1, Contents DEF Calmly, Dirs
  <1>4. Request /\ Shape(child, parent, root, L, D)
    BY <1>1 DEF Calmly, Local
  <1>5. at' \in Node /\ pc' \in {"splice", "extreme"}
    BY <1>1, <1>2, <1>3 DEF Calmly
  <1>6. Request'
    BY <1>2, <1>3, <1>4, <1>5 DEF Request, Dirs
  <1>7. Begin' = e
    BY <1>2 DEF Begin
  <1>8. CASE child[e]["left"] = Nil \/ child[e]["right"] = Nil
    <2>1. pc' = "splice" /\ at' = e
      BY <1>2, <1>8
    <2>2. Stepped(L, D)' /\ Looked(L, D)' /\ Placed(L, D)' /\ Hung(L)'
      BY <2>1 DEF Stepped, Looked, Placed, Hung, Lacks
    <2>3. Removed(L)'
      BY <1>2, <1>3, <1>8, <2>1 DEF Removed, In
    <2>4. Local(L, D)'
      BY <1>6, <2>2, <2>3 DEF Local
    <2>5. QED
      BY <1>2, <2>1, <2>4, Still
  <1>9. CASE child[e]["left"] # Nil /\ child[e]["right"] # Nil
    <2> DEFINE c == child[e]["right"]
    <2>1. pc' = "extreme" /\ at' = c
      BY <1>2, <1>9
    <2>2. In(L, c, TreeOf[e]) /\ In(L, e, TreeOf[e])
      BY <1>3, <1>4, <1>9, Child DEF In, Kin
    <2>3. /\ \A k \in D[c] : Beyond("right", k, e)
          /\ \A k \in L : Kin(k, e) /\ Beyond("right", k, e) => k \in D[c] \/ Beyond("right", k, c)
      BY <1>3, <1>4, <1>9, BelowOrBeyond
    <2> HIDE DEF c
    <2>4. Stepped(L, D)' /\ Looked(L, D)'
      BY <1>2, <1>7, <2>1, <2>2, <2>3 DEF Stepped, Looked
    <2>5. Local(L, D)'
      BY <1>6, <2>1, <2>4, LookingOnly
    <2>6. QED
      BY <1>2, <2>1, <2>5, Still
  <1>10. QED
    BY <1>8, <1>9

(***************************************************************************)
(* Insertions                                                              *)
(***************************************************************************)

LEMMA PlacingOnly ==
  ASSUME NEW L, NEW D, pc' \in {"place", "fixup"}, Request', Placed(L, D)'
  PROVE  Local(L, D)'
  BY DEF Local, Stepped, Looked, Removed, Hung, Lacks

LEMMA InFixup ==
  ASSUME NEW L, NEW D, Shape(child', parent', root', L, D), pc' = "fixup",
         NEW d, Fits(child', root', color', L, at', Nil, Nil, d), Request', Placed(L, D)'
  PROVE  Made(L)'
  <1>1. LackP' = Nil /\ RedC' = at' /\ RedP' = Nil
    BY DEF LackP, Lacks, RedC, RedP
  <1>2. Fits(child', root', color', L, RedC', RedP', LackP', LackD')
    BY <1>1, FitsNone
  <1>3. Local(L, D)'
    BY PlacingOnly
  <1>4. QED
    BY <1>2, <1>3, Introduced

LEMMA InsertStep ==
  ASSUME NEW L, NEW D, NEW h, Good(L, D, h), NEW e \in Elems, Insert(e)
  PROVE  IF pc' = "place" THEN Made(L)' ELSE pc' = "fixup" /\ Made(L \cup {e})'
  <1> DEFINE t == TreeOf[e]
             d == LackD
  <1>1. Calmly(L, D, h)
    BY CalmlyThen
  <1>2. /\ pc = "idle" /\ e \notin Content(t) /\ \A f \in Content(t) : ~Holds(f, Key[e].lo)
        /\ op' = [kind |-> "insert", tree |-> t, elem |-> e, addr |-> 0, dir |-> "left"]
        /\ child' = [child EXCEPT ![e] = NoLinks] /\ parent' = [parent EXCEPT ![e] = Nil]
        /\ color' = [color EXCEPT ![e] = "red"] /\ node' = node
        /\ IF root[t] = Nil
           THEN pc' = "fixup" /\ at' = e /\ top' = e /\ root' = [root EXCEPT ![t] = e]
           ELSE pc' = "place" /\ at' = root[t] /\ root' = root /\ top' = top
    BY DEF Insert
  <1>3. /\ Shape(child, parent, root, L, D) /\ Request
        /\ Weighed(child, color, L, h, Nil, d) /\ Colored(child, root, color, L, Nil, Nil)
    BY <1>1, <1>2, Calm DEF Calmly, Local
  <1>4. e \in Elems \ L /\ t \in Trees /\ e \in Node /\ Free(L, e) /\ L \subseteq Elems
    <2>1. t \in Trees
      BY TreesAssumption
    <2>2. Content(t) = {f \in L : TreeOf[f] = t}
      BY <1>3, <2>1, Contents
    <2>3. QED
      BY <1>1, <1>2, <2>1, <2>2 DEF Free, Kin, Calmly, Node
  <1>5. Shape(child', parent', root, L, D) /\ child'[e] = NoLinks /\ parent'[e] = Nil
    <2>1. child' = [child EXCEPT ![e] = NoLinks] /\ parent' = [parent EXCEPT ![e] = Nil]
      BY <1>2
    <2>2. Shape(child, parent, root, L, D) /\ e \in Elems \ L
      BY <1>3, <1>4
    <2>3. Shape(child', parent', root, L, D)
      BY <2>1, <2>2, ResetShape
    <2>4. child'[e] = NoLinks /\ parent'[e] = Nil
      BY <1>4, <2>1, <2>2 DEF Shape, Typed
    <2>5. QED
      BY <2>3, <2>4
  <1>6. Weighed(child', color', L, h, Nil, d) /\ Colored(child', root, color', L, Nil, Nil)
    BY <1>2, <1>3, <1>4, ResetFits
  <1>7. color'[e] = "red"
    BY <1>2, <1>3, <1>4 DEF Colored
  <1>8. /\ op'.elem = e /\ op'.tree = t /\ op'.kind = "insert" /\ pc' \in {"place", "fixup"}
        /\ at' \in Node /\ top' \in Node
    <2>1. root[t] \in Node /\ top \in Node
      BY <1>1, <1>3, <1>4 DEF Calmly, Request
    <2>2. QED
      BY <1>2, <1>4, <2>1
  <1>9. Request'
    BY <1>2, <1>3, <1>4, <1>8 DEF Request, Dirs
  <1> HIDE DEF d
  <1>10. CASE root[t] = Nil
    <2>1. pc' = "fixup" /\ at' = e /\ top' = e /\ root' = [root EXCEPT ![t] = e]
      BY <1>2, <1>10
    <2>2. PICK D2 \in [Node -> SUBSET (L \cup {e})] :
            Shape(child', parent', root', L \cup {e}, D2)
      BY <1>4, <1>5, <1>10, <2>1, RootedShape
    <2>3. root' \in [Trees -> Node] /\ root'[t] = e /\ \A u \in Trees : root'[u] = root[u] \/ root'[u] = e
      BY <1>3, <1>4, <2>1 DEF Shape, Typed
    <2>4. Fits(child', root', color', L \cup {e}, e, Nil, Nil, d)
      BY <1>4, <1>5, <1>6, <1>7, <2>3, LeafFits
    <2>5. Placed(L \cup {e}, D2)'
      <3>1. In(L \cup {e}, at', op'.tree) /\ ~Black(at)' /\ root'[op'.tree] = top'
        BY <1>7, <1>8, <2>1, <2>3 DEF In, Black
      <3>2. QED
        BY <2>1, <3>1 DEF Placed
    <2>6. Made(L \cup {e})'
      BY <1>9, <2>1, <2>2, <2>4, <2>5, InFixup
    <2>7. QED
      BY <2>1, <2>6
  <1>11. CASE root[t] # Nil
    <2>1. pc' = "place" /\ at' = root[t] /\ root' = root
      BY <1>2, <1>11
    <2>2. root[t] \in L /\ In(L, root[t], t)
      BY <1>3, <1>4, <1>11, Links DEF In
    <2>3. Around(L, D, root[t], e)
      BY <1>3 DEF Around, Shape, Counted, Kin
    <2>4. Placed(L, D)'
      BY <1>4, <1>5, <1>7, <1>8, <2>1, <2>2, <2>3 DEF Placed
    <2>5. Fits(child', root', color', L, Nil, Nil, Nil, d)
      BY <1>6, <2>1 DEF Fits, Weighed
    <2>6. Local(L, D)'
      BY <1>8, <1>9, <2>4, PlacingOnly
    <2>7. Made(L)'
      BY <1>5, <2>1, <2>5, <2>6, CalmAfter
    <2>8. QED
      BY <2>1, <2>7
  <1>12. QED
    BY <1>10, <1>11

LEMMA PlaceStep ==
  ASSUME NEW L, NEW D, NEW h, Good(L, D, h), NEW e, e = op.elem, Place
  PROVE  /\ e \in Elems /\ Free(L, e)
         /\ IF pc' = "place" THEN Made(L)' ELSE pc' = "fixup" /\ Made(L \cup {e})'
  <1>0. e = op.elem
    OBVIOUS
  <1> DEFINE d == IF Less(Key[at], Key[e]) THEN "right" ELSE "left"
             t == op.tree
  <1>1. Calmly(L, D, h)
    BY CalmlyThen
  <1>2. /\ pc = "place" /\ color' = color /\ root' = root /\ op' = op /\ node' = node
        /\ IF child[at][d] = Nil
           THEN /\ child' = [child EXCEPT ![at][d] = e] /\ parent' = [parent EXCEPT ![e] = at]
                /\ pc' = "fixup" /\ at' = e /\ top' = root[op.tree]
           ELSE at' = child[at][d] /\ child' = child /\ parent' = parent /\ pc' = pc /\ top' = top
    BY <1>0 DEF Place
  <1>3. /\ Shape(child, parent, root, L, D) /\ Request
        /\ Weighed(child, color, L, h, Nil, LackD) /\ Colored(child, root, color, L, Nil, Nil)
    BY <1>1, <1>2, Calm DEF Calmly, Local
  <1>4. /\ Free(L, e) /\ In(L, at, t) /\ Around(L, D, at, e)
        /\ child[e] = NoLinks /\ parent[e] = Nil /\ color[e] = "red"
    BY <1>0, <1>1, <1>2 DEF Calmly, Local, Placed
  <1>5. /\ op.kind = "insert" /\ e \in Elems /\ t = TreeOf[e] /\ at \in L /\ Kin(at, e)
        /\ e \in Elems \ L /\ at \in Elems /\ at \in Node /\ e \in Node /\ t \in Trees /\ at # e
    <2>1. op.kind = "insert" /\ e \in Elems /\ t = TreeOf[e] /\ t \in Trees
      BY <1>0, <1>2, <1>3 DEF Request
    <2>2. QED
      BY <1>1, <1>4, <2>1 DEF Calmly, In, Free, Kin, Node
  <1>6. d \in Dirs /\ Beyond(d, e, at)
    BY <1>4, <1>5, PlaceSide DEF Free
  <1> HIDE DEF d
  <1>7. CASE child[at][d] = Nil
    <2>1. /\ child' = [child EXCEPT ![at][d] = e] /\ parent' = [parent EXCEPT ![e] = at]
          /\ pc' = "fixup" /\ at' = e /\ top' = root[op.tree]
      BY <1>2, <1>7
    <2>2. PICK D2 \in [Node -> SUBSET (L \cup {e})] :
            Shape(child', parent', root, L \cup {e}, D2)
      BY <1>3, <1>4, <1>5, <1>6, <1>7, <2>1, LinkedShape
    <2>3. /\ child'[e] = NoLinks
          /\ \A m \in L : \A s \in Dirs : child'[m][s] = child[m][s]
                                          \/ (child[m][s] = Nil /\ child'[m][s] = e)
      <3>1. child \in [Node -> [Dirs -> Node]]
        BY <1>3 DEF Shape, Typed
      <3>2. child'[e] = NoLinks
        BY <1>4, <1>5, <2>1, <3>1
      <3>3. \A m \in L : m \in Node
        BY <1>1 DEF Calmly
      <3>4. QED
        BY <1>5, <1>6, <1>7, <2>1, <3>1, <3>2, <3>3
    <2>4. Fits(child', root, color, L \cup {e}, e, Nil, Nil, LackD)
      BY <1>3, <1>4, <1>5, <2>3, LeafFits
    <2>5. Request'
      <3>1. root[t] \in Node
        BY <1>1, <1>5 DEF Calmly
      <3>2. QED
        BY <1>2, <1>3, <1>5, <2>1, <3>1 DEF Request
    <2>6. Placed(L \cup {e}, D2)'
      <3>1. In(L \cup {e}, at', op'.tree) /\ ~Black(at)' /\ root'[op'.tree] = top'
        BY <1>2, <1>4, <1>5, <2>1 DEF In, Black
      <3>2. QED
        BY <2>1, <3>1 DEF Placed
    <2>7. Made(L \cup {e})'
      BY <1>2, <2>1, <2>2, <2>4, <2>5, <2>6, InFixup
    <2>8. QED
      BY <1>4, <1>5, <2>1, <2>7
  <1>8. CASE child[at][d] # Nil
    <2> DEFINE c == child[at][d]
    <2>1. /\ at' = c /\ UNCHANGED fields /\ pc' = "place" /\ top' = top
          /\ child' = child /\ parent' = parent
      BY <1>2, <1>8 DEF fields
    <2>2. In(L, c, t) /\ c \in Node
      BY <1>1, <1>3, <1>4, <1>5, <1>6, <1>8, Child DEF In, Kin, Calmly
    <2>3. Around(L, D, c, e)
      BY <1>3, <1>4, <1>5, <1>6, <1>8, AroundBelow
    <2> HIDE DEF c
    <2>4. Request'
      BY <1>2, <1>3, <1>5, <2>1, <2>2 DEF Request
    <2>5. Placed(L, D)'
      BY <1>0, <1>2, <1>4, <2>1, <2>2, <2>3 DEF Placed
    <2>6. Local(L, D)'
      BY <2>1, <2>4, <2>5, PlacingOnly
    <2>7. Made(L)'
      BY <1>2, <2>1, <2>6, Still
    <2>8. QED
      BY <1>4, <1>5, <2>1, <2>7
  <1>9. QED
    BY <1>7, <1>8

\* A rotation of the model is one of the lemmas.
LEMMA RotateTurned ==
  ASSUME NEW L, NEW D, Shape(child, parent, root, L, D),
         NEW n \in L, NEW d \in Dirs, child[n][Other(d)] # Nil, op.tree = TreeOf[n], Rotate(d, n)
  PROVE  Turned(child, parent, root, L, d, n, parent[n], Side(n), TreeOf[n],
                child', parent', root')
  <1>1. Side(n) = SideIn(child, parent, n)
    BY DEF Side, SideIn
  <1>2. Side(n) \in Dirs /\ (parent[n] # Nil => child[parent[n]][Side(n)] = n)
    BY <1>1, SideRight
  <1>3. /\ child' = [child EXCEPT ![n][Other(d)] = child[child[n][Other(d)]][d],
                       ![parent[n]][Side(n)] = IF parent[n] = Nil THEN @ ELSE child[n][Other(d)],
                       ![child[n][Other(d)]][d] = n]
        /\ parent' = [parent EXCEPT
                        ![child[child[n][Other(d)]][d]] =
                             IF child[child[n][Other(d)]][d] = Nil THEN @ ELSE n,
                        ![child[n][Other(d)]] = parent[n], ![n] = child[n][Other(d)]]
        /\ root' = IF parent[n] = Nil THEN [root EXCEPT ![TreeOf[n]] = child[n][Other(d)]]
                   ELSE root
    BY DEF Rotate
  <1>4. QED
    BY <1>2, <1>3 DEF Turned

\* What is known after one: n goes down under c, which takes g from it.
Rotated(L, D, d, n, c, g) ==
  /\ c = child[n][Other(d)] /\ g = child[c][d]
  /\ Apart(child, parent, L, D, d, n, parent[n], Side(n), c, g)
  /\ Relinked(child, parent, root, d, n, parent[n], Side(n), TreeOf[n], c, g,
              child', parent', root')
  /\ \E D2 \in [Node -> SUBSET L] : Shape(child', parent', root', L, D2)

LEMMA RotateRotated ==
  ASSUME NEW L, NEW D, Shape(child, parent, root, L, D),
         NEW n \in L, NEW d \in Dirs, NEW c, c = child[n][Other(d)], c # Nil,
         op.tree = TreeOf[n], Rotate(d, n)
  PROVE  Rotated(L, D, d, n, c, child[c][d])
  <1>1. Turned(child, parent, root, L, d, n, parent[n], Side(n), TreeOf[n],
               child', parent', root')
    BY RotateTurned
  <1>2. Apart(child, parent, L, D, d, n, parent[n], Side(n), c, child[c][d])
    BY <1>1, TurnedApart
  <1>3. Relinked(child, parent, root, d, n, parent[n], Side(n), TreeOf[n], c, child[c][d],
                 child', parent', root')
    BY <1>1, <1>2, TurnedRelinked
  <1>4. \E D2 \in [Node -> SUBSET L] : Shape(child', parent', root', L, D2)
    BY <1>1, TurnedShape
  <1>5. QED
    BY <1>2, <1>3, <1>4 DEF Rotated

\* Where a fixup is.
AtFixup(L, D, h) ==
  /\ Calmly(L, D, h) /\ Request
  /\ Weighed(child, color, L, h, Nil, LackD) /\ LackD \in Dirs
  /\ Colored(child, root, color, L, at, Nil)
  /\ at \in L /\ TreeOf[at] = op.tree /\ op.tree \in Trees /\ op.kind = "insert"
  /\ In(L, at, op.tree) /\ color[at] # "black"
  /\ root[op.tree] = top \/ (parent[at] # Nil /\ color[parent[at]] = "black")

LEMMA FixupThen ==
  ASSUME NEW L, NEW D, NEW h, Good(L, D, h), pc = "fixup"
  PROVE  AtFixup(L, D, h)
  <1>1. Calmly(L, D, h)
    BY CalmlyThen
  <1>2. Request /\ Placed(L, D)
    BY <1>1 DEF Calmly, Local
  <1>3. LackP = Nil /\ RedC = at /\ RedP = Nil /\ LackD \in Dirs
    BY DEF LackP, LackD, Lacks, RedC, RedP, Side, Dirs
  <1>4. Weighed(child, color, L, h, Nil, LackD) /\ Colored(child, root, color, L, at, Nil)
    BY <1>3 DEF Good
  <1>5. /\ In(L, at, op.tree) /\ color[at] # "black" /\ op.tree \in Trees /\ op.kind = "insert"
        /\ root[op.tree] = top \/ (parent[at] # Nil /\ color[parent[at]] = "black")
    BY <1>2 DEF Placed, Request, Black
  <1>6. at \in L /\ TreeOf[at] = op.tree
    BY <1>5 DEF In
  <1>7. QED
    BY <1>1, <1>2, <1>3, <1>4, <1>5, <1>6 DEF AtFixup

LEMMA FixDoneStep ==
  ASSUME NEW L, NEW D, NEW h, Good(L, D, h), FixDone
  PROVE  Made(L)'
  <1>1. /\ pc = "fixup" /\ (at = top \/ color[parent[at]] = "black") /\ Finish
        /\ color' = [color EXCEPT ![root[op.tree]] = "black"]
        /\ child' = child /\ parent' = parent /\ root' = root
    BY DEF FixDone, Black
  <1>2. AtFixup(L, D, h)
    BY <1>1, FixupThen
  <1>3. /\ Shape(child, parent, root, L, D) /\ Weighed(child, color, L, h, Nil, LackD)
        /\ LackD \in Dirs /\ Colored(child, root, color, L, at, Nil) /\ at \in L
        /\ TreeOf[at] = op.tree
    BY <1>2 DEF AtFixup, Calmly
  <1>4. root[TreeOf[at]] = at \/ (parent[at] # Nil /\ color[parent[at]] = "black")
    <2>1. CASE parent[at] = Nil
      BY <1>3, <2>1 DEF Shape, Tied
    <2>2. CASE parent[at] # Nil
      BY <1>1, <1>2, <1>3, <2>2 DEF AtFixup
    <2>3. QED
      BY <2>1, <2>2
  <1>5. color' = [color EXCEPT ![root[TreeOf[at]]] = "black"]
    BY <1>1, <1>3
  <1>6. Fits(child, root, color', L, Nil, Nil, Nil, LackD)
    BY <1>3, <1>4, <1>5, BlackRootFits
  <1>7. Local(L, D)' /\ pc' = "idle"
    BY <1>1, Finished
  <1>8. QED
    BY <1>1, <1>3, <1>6, <1>7, CalmAfter

\* A red node whose parent is red, its parent p and its grandparent g.
AtRed(L, D, h, a, p, g) ==
  /\ AtFixup(L, D, h) /\ a = at /\ p = parent[a] /\ g = parent[p]
  /\ a \in L /\ p \in L /\ g \in L /\ p # a /\ g # p /\ g # a
  /\ TreeOf[p] = op.tree /\ TreeOf[g] = op.tree
  /\ color[p] = "red" /\ color[g] = "black" /\ root[op.tree] = top /\ root[op.tree] # Nil
  /\ Side(p) = SideIn(child, parent, p) /\ Side(p) \in Dirs /\ Other(Side(p)) \in Dirs
  /\ child[g][Side(p)] = p /\ child[g][Other(Side(p))] = Uncle /\ Uncle # p
  /\ child \in [Node -> [Dirs -> Node]] /\ color \in [Node -> {"red", "black"}]
  /\ color[Nil] = "black" /\ p \in Node /\ g \in Node /\ a \in Node /\ Nil \notin L

LEMMA FixingThen ==
  ASSUME NEW L, NEW D, NEW h, Good(L, D, h), Fixing
  PROVE  AtRed(L, D, h, at, parent[at], parent[parent[at]])
  <1> DEFINE a == at
             p == parent[at]
             g == parent[parent[at]]
  <1>1. pc = "fixup" /\ color[p] # "black"
    BY DEF Fixing, Black
  <1>2. AtFixup(L, D, h)
    BY <1>1, FixupThen
  <1>3. /\ Shape(child, parent, root, L, D) /\ Colored(child, root, color, L, at, Nil)
        /\ at \in L /\ TreeOf[at] = op.tree /\ root[op.tree] = top
    BY <1>1, <1>2 DEF AtFixup, Calmly
  <1>4. LET s == SideIn(child, parent, p) IN
          /\ p \in L /\ g \in L /\ color[p] = "red" /\ color[g] = "black"
          /\ p # a /\ g # p /\ g # a
          /\ s \in Dirs /\ Other(s) \in Dirs /\ Other(s) # s
          /\ child[g][s] = p /\ child[g][Other(s)] # p
    BY <1>1, <1>3, Grandparent
  <1>5. Side(p) = SideIn(child, parent, p)
    BY DEF Side, SideIn
  <1>6. /\ p \in L /\ g \in L /\ color[p] = "red" /\ color[g] = "black"
        /\ p # a /\ g # p /\ g # a
        /\ Side(p) \in Dirs /\ Other(Side(p)) \in Dirs
        /\ child[g][Side(p)] = p /\ child[g][Other(Side(p))] # p
    BY <1>4, <1>5
  <1>7. Uncle = child[g][Other(Side(p))]
    BY DEF Uncle
  <1>8. TreeOf[p] = op.tree /\ TreeOf[g] = op.tree
    <2>1. /\ \E s \in Dirs : child[p][s] = at
          /\ \A x \in L : x # Nil
      BY <1>2, <1>3, <1>6 DEF Shape, Tied, AtFixup, Calmly
    <2>2. Kin(at, p) /\ Kin(p, g)
      BY <1>3, <1>6, <2>1 DEF Shape, Tied
    <2>3. QED
      BY <1>3, <2>2 DEF Kin
  <1>9. /\ child \in [Node -> [Dirs -> Node]] /\ color \in [Node -> {"red", "black"}]
        /\ color[Nil] = "black" /\ p \in Node /\ g \in Node /\ a \in Node /\ Nil \notin L
    BY <1>2, <1>3, <1>6 DEF Shape, Typed, Colored, AtFixup, Calmly
  <1>10. root[op.tree] # Nil
    <2>1. root[TreeOf[at]] \in L
      BY <1>3, Links
    <2>2. QED
      BY <1>3, <1>9, <2>1
  <1>11. QED
    BY <1>2, <1>3, <1>5, <1>6, <1>7, <1>8, <1>9, <1>10 DEF AtRed

LEMMA FixRecolorStep ==
  ASSUME NEW L, NEW D, NEW h, Good(L, D, h), FixRecolor
  PROVE  Made(L)'
  <1> DEFINE a == at
             p == parent[a]
             g == parent[p]
             u == Uncle
  <1>1. /\ Fixing /\ pc = "fixup" /\ u # Nil /\ color[u] # "black"
        /\ color' = [color EXCEPT ![p] = "black", ![u] = "black", ![g] = "red"]
        /\ at' = g /\ child' = child /\ parent' = parent /\ root' = root
        /\ pc' = pc /\ op' = op /\ node' = node /\ top' = top
    BY DEF FixRecolor, RedUncle, Black, Fixing
  <1>2. AtRed(L, D, h, a, p, g)
    BY <1>1, FixingThen
  <1>3. /\ Shape(child, parent, root, L, D) /\ Weighed(child, color, L, h, Nil, LackD)
        /\ Colored(child, root, color, L, a, Nil) /\ a \in L /\ g \in L /\ Request
        /\ op.tree \in Trees /\ op.kind = "insert" /\ TreeOf[g] = op.tree
        /\ root[op.tree] = top /\ g \in Node /\ color \in [Node -> {"red", "black"}]
    BY <1>2 DEF AtRed, AtFixup, Calmly
  <1>4. u = child[parent[parent[a]]][Other(SideIn(child, parent, parent[a]))]
        /\ color[parent[a]] # "black"
    BY <1>2 DEF AtRed
  <1>5. Fits(child, root, color', L, parent[parent[a]], Nil, Nil, LackD)
    BY <1>1, <1>3, <1>4, Recolored
  <1>6. Request'
    BY <1>1, <1>3 DEF Request
  <1>7. Placed(L, D)'
    <2>1. color'[g] = "red"
      BY <1>1, <1>3
    <2>2. QED
      BY <1>1, <1>3, <2>1 DEF Placed, In, Black
  <1>8. pc' = "fixup" /\ Shape(child', parent', root', L, D)
    BY <1>1, <1>3
  <1>9. Fits(child', root', color', L, at', Nil, Nil, LackD)
    BY <1>1, <1>5
  <1>10. QED
    BY <1>6, <1>7, <1>8, <1>9, InFixup

LEMMA FixInnerStep ==
  ASSUME NEW L, NEW D, NEW h, Good(L, D, h), FixInner
  PROVE  Made(L)'
  <1> DEFINE a == at
             p == parent[a]
             g == parent[p]
             d == Side(p)
             b == child[a][d]
  <1>1. /\ Fixing /\ pc = "fixup" /\ a = child[p][Other(d)] /\ Rotate(d, p) /\ at' = p
        /\ color' = color /\ pc' = pc /\ op' = op /\ node' = node /\ top' = top
    BY DEF FixInner, Fixing
  <1>2. AtRed(L, D, h, a, p, g)
    BY <1>1, FixingThen
  <1>3. /\ Shape(child, parent, root, L, D) /\ Weighed(child, color, L, h, Nil, LackD)
        /\ Colored(child, root, color, L, a, Nil) /\ a \in L /\ p \in L /\ g \in L /\ Request
        /\ op.tree \in Trees /\ op.kind = "insert" /\ TreeOf[p] = op.tree
        /\ root[op.tree] = top /\ p \in Node /\ color[p] = "red" /\ d \in Dirs
        /\ Nil \notin L /\ color[a] # "black" /\ a # Nil /\ g # Nil
    BY <1>2 DEF AtRed, AtFixup, Calmly
  <1>4. Rotated(L, D, d, p, a, b)
    BY <1>1, <1>3, RotateRotated
  <1>5. /\ Apart(child, parent, L, D, d, p, g, Side(p), a, b)
        /\ Relinked(child, parent, root, d, p, g, Side(p), TreeOf[p], a, b,
                    child', parent', root')
    BY <1>4 DEF Rotated
  <1>6. Weighed(child', color, L, h, Nil, LackD) /\ Colored(child', root', color, L, p, Nil)
    BY <1>1, <1>3, <1>5, InnerFits, SMTT(30)
  <1>7. PICK D2 \in [Node -> SUBSET L] : Shape(child', parent', root', L, D2)
    BY <1>4 DEF Rotated
  <1>8. Fits(child', root', color', L, at', Nil, Nil, LackD)
    BY <1>1, <1>6 DEF Fits, Weighed
  <1>9. Request'
    BY <1>1, <1>3 DEF Request
  <1>10. Placed(L, D2)'
    <2>1. root' = root
      BY <1>3, <1>5 DEF Relinked
    <2>2. QED
      BY <1>1, <1>3, <2>1 DEF Placed, In, Black
  <1>11. QED
    BY <1>1, <1>7, <1>8, <1>9, <1>10, InFixup

LEMMA FixOuterStep ==
  ASSUME NEW L, NEW D, NEW h, Good(L, D, h), FixOuter
  PROVE  Made(L)'
  <1> DEFINE a == at
             p == parent[a]
             g == parent[p]
             s == Side(p)
             d == Other(s)
             b == child[p][d]
             f == child[p][Other(d)]
  <1>1. /\ Fixing /\ pc = "fixup" /\ ~RedUncle /\ a # child[p][d] /\ Rotate(d, g) /\ at' = at
        /\ color' = [color EXCEPT ![p] = "black", ![g] = "red"]
        /\ pc' = pc /\ op' = op /\ node' = node /\ top' = top
    BY DEF FixOuter, Fixing
  <1>2. AtRed(L, D, h, a, p, g)
    BY <1>1, FixingThen
  <1>3. /\ Shape(child, parent, root, L, D) /\ Weighed(child, color, L, h, Nil, LackD)
        /\ Colored(child, root, color, L, a, Nil) /\ a \in L /\ p \in L /\ g \in L /\ Request
        /\ op.tree \in Trees /\ op.kind = "insert" /\ TreeOf[g] = op.tree /\ TreeOf[a] = op.tree
        /\ p \in Node /\ g \in Node /\ a \in Node /\ s \in Dirs /\ d \in Dirs /\ Nil \notin L
        /\ color \in [Node -> {"red", "black"}] /\ color[p] = "red" /\ color[g] = "black"
        /\ color[a] # "black" /\ color[Nil] = "black" /\ p # a /\ g # p /\ g # a
        /\ child[g][s] = p /\ child[g][d] = Uncle
    BY <1>2 DEF AtRed, AtFixup, Calmly
  <1>4. Other(d) = s /\ child[g][Other(d)] = p /\ p # Nil /\ parent[a] = p /\ a # Nil
    BY <1>3, Directions
  <1>5. Rotated(L, D, d, g, p, b)
    BY <1>1, <1>3, <1>4, RotateRotated
  <1>6. /\ Apart(child, parent, L, D, d, g, parent[g], Side(g), p, b)
        /\ Relinked(child, parent, root, d, g, parent[g], Side(g), TreeOf[g], p, b,
                    child', parent', root')
    BY <1>5 DEF Rotated
  <1>7. color[child[g][d]] = "black"
    BY <1>1, <1>3 DEF RedUncle, Black
  <1>8. color[b] = "black"
    <2>1. color[p] = "black" \/ color[child[p][d]] = "black" \/ child[p][d] = a \/ p = Nil
      BY <1>3 DEF Colored
    <2>2. QED
      BY <1>1, <1>3, <1>4, <2>1
  <1> DEFINE q == Nil
             r == LackD
  <1>9. /\ q # p /\ (f = Nil \/ q # f) /\ (q = g => r = d) /\ Weighed(child, color, L, h, q, r)
    BY <1>3, <1>4
  <1> HIDE DEF q, r
  <1>10. Fits(child', root', color', L, a, Nil, q, r)
    BY <1>1, <1>3, <1>6, <1>7, <1>8, <1>9, SwapFits
  <1>11. PICK D2 \in [Node -> SUBSET L] : Shape(child', parent', root', L, D2)
    BY <1>5 DEF Rotated
  <1>12. Fits(child', root', color', L, at', Nil, Nil, r)
    BY <1>1, <1>10 DEF q
  <1>13. Request'
    BY <1>1, <1>3 DEF Request
  <1>14. Placed(L, D2)'
    <2>1. a # g /\ a # p /\ a # b
      BY <1>1, <1>3
    <2>2. parent'[a] = p
      BY <1>3, <1>4, <1>6, <2>1 DEF Relinked
    <2>3. color'[p] = "black" /\ color'[a] # "black"
      BY <1>1, <1>3
    <2>4. QED
      BY <1>1, <1>3, <1>4, <2>2, <2>3 DEF Placed, In, Black
  <1>15. QED
    BY <1>1, <1>11, <1>12, <1>13, <1>14, InFixup

(***************************************************************************)
(* Deletions                                                               *)
(***************************************************************************)

LEMMA InMend ==
  ASSUME NEW L, NEW D, Shape(child', parent', root', L, D), pc' = "mend",
         Fits(child', root', color', L, at', at', LackP', LackD'),
         Request', Removed(L)', Hung(L)'
  PROVE  Made(L)'
  <1>1. RedC' = at' /\ RedP' = at'
    BY DEF RedC, RedP
  <1>2. Local(L, D)'
    BY DEF Local, Stepped, Looked, Placed
  <1>3. QED
    BY <1>1, <1>2, Introduced

LEMMA InReplace ==
  ASSUME NEW L, NEW D, Shape(child', parent', root', L, D), pc' = "replace",
         NEW d, Fits(child', root', color', L, Nil, Nil, Nil, d), Request', Removed(L)'
  PROVE  Made(L)'
  <1>1. Local(L, D)'
    BY DEF Local, Stepped, Looked, Placed, Hung, Lacks
  <1>2. QED
    BY <1>1, CalmAfter

LEMMA SpliceStep ==
  ASSUME NEW L, NEW D, NEW h, Good(L, D, h), Splice
  PROVE  \E n \in L : n = at /\ op.elem \in L /\ Made(L \ {n})'
  <1>0. PICK n, p, s, c : /\ n = at /\ p = parent[at] /\ s = Side(at)
                          /\ c = IF child[at]["left"] # Nil THEN child[at]["left"]
                                 ELSE child[at]["right"]
    OBVIOUS
  <1> DEFINE t == TreeOf[n]
             M == L \ {n}
  <1>1. Calmly(L, D, h)
    BY CalmlyThen
  <1>2. /\ pc = "splice" /\ pc' = IF color[n] = "black" THEN "mend" ELSE "replace"
        /\ parent' = [parent EXCEPT ![c] = p]
        /\ IF p = Nil
           THEN root' = [root EXCEPT ![op.tree] = c] /\ child' = child
           ELSE child' = [child EXCEPT ![p][s] = c] /\ root' = root
        /\ node' = n /\ at' = c /\ top' = root'[op.tree] /\ color' = color /\ op' = op
    BY <1>0 DEF Splice, Black
  <1>3. /\ Shape(child, parent, root, L, D) /\ Request
        /\ Weighed(child, color, L, h, Nil, LackD) /\ Colored(child, root, color, L, Nil, Nil)
    BY <1>1, <1>2, Calm DEF Calmly, Local
  <1>4. /\ In(L, op.elem, op.tree) /\ In(L, n, op.tree)
        /\ \E d \in Dirs : child[n][d] = Nil
        /\ n # op.elem => NextTo(L, n, op.elem, "right")
    BY <1>0, <1>1, <1>2 DEF Calmly, Local, Removed
  <1>5. /\ n \in L /\ op.tree = t /\ t \in Trees /\ op.elem \in L /\ TreeOf[op.elem] = t
        /\ op.kind = "delete" /\ n \in Node /\ n # Nil
        /\ "left" \in Dirs /\ "right" \in Dirs /\ s = SideIn(child, parent, n)
    BY <1>0, <1>1, <1>2, <1>3, <1>4 DEF Calmly, In, Request, Dirs, Side, SideIn
  <1>6. \E r \in Dirs : child[n][r] = Nil /\ child[n][Other(r)] = c
    <2>1. Other("left") = "right" /\ Other("right") = "left"
      BY DEF Other
    <2>2. child[n]["left"] = Nil \/ child[n]["right"] = Nil
      BY <1>4 DEF Dirs
    <2>3. QED
      BY <1>0, <1>5, <2>1, <2>2
  <1>7. s \in Dirs /\ (p # Nil => child[p][s] = n)
    BY <1>0, <1>3, <1>5, SideRight
  <1>8. Spliced(child, parent, root, L, n, p, s, c, child', parent', root')
    BY <1>0, <1>2, <1>5, <1>6, <1>7 DEF Spliced
  <1>9. Unlinked(child, parent, root, L, n, p, s, c, child', parent', root')
    BY <1>3, <1>8, SplicedUnlinked
  <1>10. PICK D2 \in [Node -> SUBSET M] : Shape(child', parent', root', M, D2)
    BY <1>3, <1>8, SplicedShape
  <1>11. /\ color[n] = "black" => /\ Weighed(child', color, M, h, p, s)
                                  /\ Colored(child', root', color, M, c, c)
                                  /\ p # Nil => child'[p][Other(s)] # c
         /\ color[n] # "black" => /\ \A f : Weighed(child', color, M, h, Nil, f)
                                  /\ Colored(child', root', color, M, Nil, Nil)
    BY <1>3, <1>6, <1>9, SplicedFits
  <1>12. /\ c # Nil => c \in M /\ parent[c] = n /\ TreeOf[c] = t
         /\ p # Nil => p \in M /\ TreeOf[p] = t /\ child'[p][s] = c /\ root' = root /\ p # c
         /\ p = Nil => root'[t] = c
         /\ parent'[c] = p /\ root' \in [Trees -> Node] /\ h \in [Node -> Nat]
    BY <1>3, <1>5, <1>9 DEF Unlinked, Kin, Weighed
  <1>13. Beside(M, op.elem, n)
    BY <1>3, <1>4, <1>5, BesideNext DEF Kin
  <1>14. top' \in Node /\ at' \in Node /\ top' = root'[t]
    BY <1>1, <1>2, <1>5, <1>12 DEF Calmly
  <1>15. Request'
    BY <1>2, <1>3, <1>5, <1>14 DEF Request
  \* The tree is empty only after its last element.
  <1>16. /\ p # Nil => root'[t] \in L /\ root'[t] # c
         /\ root'[t] # Nil => root'[t] \in M /\ TreeOf[root'[t]] = t /\ parent'[root'[t]] = Nil
    <2>1. root'[t] # Nil => root'[t] \in M /\ TreeOf[root'[t]] = t /\ parent'[root'[t]] = Nil
      BY <1>5, <1>10, Links
    <2>2. ASSUME p # Nil
          PROVE  root'[t] \in L /\ root'[t] # c
      <3>1. root[t] \in L /\ parent[root[t]] = Nil
        <4>1. root[t] \in L
          BY <1>3, <1>5, Links
        <4>2. QED
          BY <1>1, <1>3, <1>5, <4>1, Links DEF Calmly
      <3>2. QED
        BY <1>1, <1>5, <1>12, <2>2, <3>1 DEF Calmly
    <2>3. QED
      BY <2>1, <2>2
  <1>17. ASSUME color[n] = "black"
         PROVE  Made(M)'
    <2>1. pc' = "mend"
      BY <1>2, <1>17
    <2>2. Lacks' <=> p # Nil
      BY <1>2, <1>5, <1>12, <1>16, <2>1 DEF Lacks
    <2>3. LackP' = p
      BY <1>2, <1>12, <2>2 DEF LackP
    <2>4. LackD' = SideIn(child', parent', c)
      BY <1>2 DEF LackD, Side, SideIn
    <2>5. p # Nil => SideIn(child', parent', c) = s
      <3>1. ASSUME p # Nil
            PROVE  child'[parent'[c]][s] = c /\ child'[parent'[c]][Other(s)] # c
        BY <1>11, <1>12, <1>17, <3>1
      <3>2. QED
        BY <1>7, <3>1, SideUnique
    <2>6. Fits(child', root', color', M, c, c, p, s)
      BY <1>2, <1>11, <1>12, <1>17 DEF Fits
    <2>7. Fits(child', root', color', M, at', at', LackP', LackD')
      <3>1. CASE p = Nil
        BY <1>2, <1>10, <2>3, <2>6, <3>1, FitsNone
      <3>2. CASE p # Nil
        BY <1>2, <2>3, <2>4, <2>5, <2>6, <3>2
      <3>3. QED
        BY <3>1, <3>2
    <2>8. Hung(M)'
      BY <1>2, <1>5, <1>12, <2>2, <2>4, <2>5 DEF Hung, In, LackD
    <2>9. Removed(M)'
      <3>1. c # Nil => In(M, c, t)
        BY <1>12 DEF In
      <3>2. IF top' = Nil THEN c = Nil ELSE In(M, top', t)
        BY <1>1, <1>5, <1>12, <1>14, <1>16 DEF In, Calmly
      <3>3. c # top' => parent'[c] # Nil /\ parent'[top'] = Nil
        BY <1>1, <1>12, <1>14, <1>16 DEF Calmly
      <3>4. QED
        BY <1>2, <1>5, <1>13, <2>1, <3>1, <3>2, <3>3 DEF Removed
    <2>10. QED
      BY <1>10, <1>15, <2>1, <2>7, <2>8, <2>9, InMend
  <1>18. ASSUME color[n] # "black"
         PROVE  Made(M)'
    <2>1. pc' = "replace"
      BY <1>2, <1>18
    <2>2. Fits(child', root', color', M, Nil, Nil, Nil, s)
      BY <1>2, <1>11, <1>12, <1>18 DEF Fits
    <2>3. Removed(M)'
      BY <1>2, <1>13, <2>1 DEF Removed
    <2>4. QED
      BY <1>10, <1>15, <2>1, <2>2, <2>3, InReplace
  <1>19. QED
    BY <1>0, <1>5, <1>17, <1>18

\* Where rb_delete_fixup is.
AtMend(L, D, h) ==
  /\ Calmly(L, D, h) /\ Request
  /\ Weighed(child, color, L, h, LackP, LackD) /\ LackD \in Dirs /\ h \in [Node -> Nat]
  /\ Colored(child, root, color, L, at, at) /\ color \in [Node -> {"red", "black"}]
  /\ op.tree \in Trees /\ op.kind = "delete"
  /\ Beside(L, op.elem, node) /\ at \in L \cup {Nil}
  /\ at # Nil => In(L, at, op.tree)
  /\ IF top = Nil THEN at = Nil ELSE In(L, top, op.tree)
  /\ at # top => /\ parent[at] # Nil
                 /\ parent[top] = Nil \/ (color[top] # "black" /\ top = parent[at])
  /\ Lacks => In(L, parent[at], op.tree) /\ child[parent[at]][LackD] = at

LEMMA MendThen ==
  ASSUME NEW L, NEW D, NEW h, Good(L, D, h), pc = "mend"
  PROVE  AtMend(L, D, h)
  <1>1. Calmly(L, D, h)
    BY CalmlyThen
  <1>2. Request /\ Removed(L) /\ Hung(L)
    BY <1>1 DEF Calmly, Local
  <1>3. RedC = at /\ RedP = at /\ LackD \in Dirs
    BY DEF LackD, RedC, RedP, Side, Dirs
  <1>4. Weighed(child, color, L, h, LackP, LackD) /\ Colored(child, root, color, L, at, at)
    BY <1>3 DEF Good
  <1>5. h \in [Node -> Nat] /\ color \in [Node -> {"red", "black"}]
    BY <1>4 DEF Weighed, Colored
  <1>6. /\ op.tree \in Trees /\ op.kind = "delete"
        /\ Beside(L, op.elem, node) /\ at \in L \cup {Nil}
        /\ at # Nil => In(L, at, op.tree)
        /\ IF top = Nil THEN at = Nil ELSE In(L, top, op.tree)
        /\ at # top => /\ parent[at] # Nil
                       /\ parent[top] = Nil \/ (color[top] # "black" /\ top = parent[at])
    BY <1>2 DEF Removed, Request, Black, In
  <1>7. Lacks => In(L, parent[at], op.tree) /\ child[parent[at]][LackD] = at
    BY <1>2 DEF Hung, LackD
  <1>8. QED
    BY <1>1, <1>2, <1>3, <1>4, <1>5, <1>6, <1>7 DEF AtMend

LEMMA MendDoneStep ==
  ASSUME NEW L, NEW D, NEW h, Good(L, D, h), MendDone
  PROVE  Made(L)'
  <1>1. /\ pc = "mend" /\ (at = top \/ color[at] # "black") /\ pc' = "replace"
        /\ color' = [color EXCEPT ![at] = "black"]
        /\ child' = child /\ parent' = parent /\ root' = root
        /\ op' = op /\ at' = at /\ node' = node /\ top' = top
    BY DEF MendDone, Black
  <1>2. AtMend(L, D, h)
    BY <1>1, MendThen
  <1>3. /\ Shape(child, parent, root, L, D) /\ Request
        /\ Weighed(child, color, L, h, LackP, LackD) /\ LackD \in Dirs
        /\ Colored(child, root, color, L, at, at) /\ at \in L \cup {Nil}
        /\ op.kind = "delete" /\ Beside(L, op.elem, node)
    BY <1>2 DEF AtMend, Calmly
  <1>4. color[at] = "black" => LackP = Nil
    BY <1>1 DEF LackP, Lacks, Black
  <1>5. color[at] # "black" => LackP = parent[at] /\ (LackP # Nil => child[LackP][LackD] = at)
    BY <1>1, <1>2 DEF LackP, Lacks, Black, AtMend
  <1>6. Ending(child, parent, color, L, h, LackP, LackD, at, color')
    BY <1>1, <1>3, <1>4, <1>5 DEF Ending
  <1>7. Fits(child, root, color', L, Nil, Nil, Nil, LackD)
    BY <1>3, <1>6, DoneFits
  <1>8. Request'
    BY <1>1, <1>3 DEF Request
  <1>9. Removed(L)'
    BY <1>1, <1>3 DEF Removed
  <1>10. QED
    BY <1>1, <1>3, <1>7, <1>8, <1>9, InReplace

\* A black node a, on side d of p, whose subtree lacks one, and its sibling w.
AtLack(L, D, h, a, p, d, w) ==
  /\ AtMend(L, D, h) /\ a = at /\ p = parent[a] /\ d = Side(a) /\ w = Sibling
  /\ Lacking(child, parent, root, color, L, h, p, a, w)
  /\ Weighed(child, color, L, h, p, d) /\ color[a] = "black" /\ a # top /\ top # Nil
  /\ (parent[top] = Nil \/ (color[top] # "black" /\ top = p)) /\ In(L, top, op.tree)
  /\ d \in Dirs /\ Other(d) \in Dirs /\ Other(Other(d)) = d /\ Other(d) # d
  /\ p \in L /\ TreeOf[p] = op.tree /\ p # Nil
  /\ child[p][d] = a /\ child[p][Other(d)] = w
  /\ w \in L /\ TreeOf[w] = op.tree /\ parent[w] = p /\ w # a /\ w # p /\ a # p /\ w # Nil
  /\ a \in Node /\ p \in Node /\ w \in Node /\ (a # Nil => a \in L)

LEMMA MendingThen ==
  ASSUME NEW L, NEW D, NEW h, Good(L, D, h), Mending
  PROVE  AtLack(L, D, h, at, parent[at], Side(at), Sibling)
  <1> DEFINE a == at
             p == parent[at]
             d == Side(at)
             w == Sibling
  <1>1. pc = "mend" /\ a # top /\ color[a] = "black" /\ w = child[p][Other(d)]
    BY DEF Mending, Black, Sibling
  <1>2. AtMend(L, D, h)
    BY <1>1, MendThen
  <1>3. /\ p # Nil /\ top # Nil /\ In(L, top, op.tree)
        /\ parent[top] = Nil \/ (color[top] # "black" /\ top = p)
    BY <1>1, <1>2 DEF AtMend
  <1>4. Lacks
    BY <1>1, <1>3 DEF Lacks
  <1>5. LackP = p /\ LackD = d
    BY <1>4 DEF LackP, LackD
  <1>6. /\ Shape(child, parent, root, L, D) /\ p \in L /\ TreeOf[p] = op.tree
        /\ d \in Dirs /\ child[p][d] = a /\ Weighed(child, color, L, h, p, d)
        /\ Colored(child, root, color, L, a, a)
    BY <1>2, <1>4, <1>5 DEF AtMend, Calmly, In
  <1>7. Other(d) \in Dirs /\ Other(Other(d)) = d /\ Other(d) # d
    BY <1>6, Directions
  <1>8. Lacking(child, parent, root, color, L, h, p, a, w)
    BY <1>1, <1>6, SiblingThere
  <1>9. w \in L /\ parent[w] = p /\ w # a /\ w # p /\ a # p /\ a \in Node
    BY <1>8 DEF Lacking
  <1>10. w # Nil /\ TreeOf[w] = op.tree /\ p \in Node /\ w \in Node /\ (a # Nil => a \in L)
    <2>1. w # Nil /\ p \in Node /\ w \in Node /\ (a # Nil => a \in L)
      BY <1>2, <1>6, <1>9 DEF AtMend, Calmly
    <2>2. Kin(w, p)
      BY <1>1, <1>6, <1>7, <2>1, Child
    <2>3. QED
      BY <1>6, <2>1, <2>2 DEF Kin
  <1>11. QED
    BY <1>1, <1>2, <1>3, <1>6, <1>7, <1>8, <1>9, <1>10 DEF AtLack

LEMMA MendUpStep ==
  ASSUME NEW L, NEW D, NEW h, Good(L, D, h), MendUp
  PROVE  Made(L)'
  <1> DEFINE a == at
             p == parent[at]
             d == Side(at)
             w == Sibling
  <1>1. /\ Mending /\ pc = "mend" /\ pc' = pc /\ color[w] = "black"
        /\ color[Near] = "black" /\ color[Far] = "black"
        /\ color' = [color EXCEPT ![w] = "red"] /\ at' = p
        /\ child' = child /\ parent' = parent /\ root' = root
        /\ op' = op /\ node' = node /\ top' = top
    BY DEF MendUp, Mending, Black
  <1>2. AtLack(L, D, h, a, p, d, w)
    BY <1>1, MendingThen
  <1>3. AtMend(L, D, h)
    BY <1>2 DEF AtLack
  <1>4. /\ Shape(child, parent, root, L, D) /\ Request /\ Nil \notin L
        /\ Colored(child, root, color, L, a, a) /\ Beside(L, op.elem, node)
        /\ op.kind = "delete" /\ op.tree \in Trees /\ color \in [Node -> {"red", "black"}]
    BY <1>3 DEF AtMend, Calmly
  <1>5. /\ Weighed(child, color, L, h, p, d) /\ color[a] = "black" /\ a # top /\ top # Nil
        /\ parent[top] = Nil \/ (color[top] # "black" /\ top = p)
        /\ In(L, top, op.tree) /\ d \in Dirs /\ p \in L /\ TreeOf[p] = op.tree /\ p # Nil
        /\ child[p][d] = a /\ w = child[p][Other(d)] /\ w # p /\ p \in Node /\ w \in Node
    BY <1>2, <1>3 DEF AtLack, AtMend
  <1>6. \A s \in Dirs : color[child[w][s]] = "black"
    <2>1. Near = child[w][d] /\ Far = child[w][Other(d)]
      BY DEF Near, Far
    <2>2. QED
      BY <1>1, <1>5, <2>1, Directions
  <1>7. Fits(child, root, color', L, p, p, parent[p], SideIn(child, parent, p))
    BY <1>1, <1>4, <1>5, <1>6, UpFits
  <1>8. color'[p] = color[p]
    BY <1>1, <1>4, <1>5
  <1>9. p = top /\ color[p] = "black" => parent[p] = Nil
    BY <1>5
  <1>10. LackP' = parent[p] /\ LackD' = SideIn(child, parent, p) /\ (Lacks' <=> parent[p] # Nil)
    <2>1. Lacks' <=> parent[p] # Nil /\ ~(p = top /\ color[p] = "black")
      BY <1>1, <1>8 DEF Lacks, Black
    <2>2. Lacks' <=> parent[p] # Nil
      BY <1>9, <2>1
    <2>3. LackP' = IF Lacks' THEN parent[p] ELSE Nil
      BY <1>1 DEF LackP
    <2>4. LackD' = SideIn(child, parent, p)
      BY <1>1 DEF LackD, Side, SideIn
    <2>5. QED
      BY <2>2, <2>3, <2>4
  <1>11. Request'
    BY <1>1, <1>4, <1>5 DEF Request
  <1>12. Hung(L)'
    <2>1. ASSUME parent[p] # Nil
          PROVE  In(L, parent[p], op.tree) /\ child[parent[p]][SideIn(child, parent, p)] = p
      <3>1. parent[p] \in L /\ child[parent[p]][SideIn(child, parent, p)] = p
            /\ SideIn(child, parent, p) \in Dirs
        BY <1>4, <1>5, <2>1, SideRight
      <3>2. Kin(p, parent[p])
        BY <1>4, <1>5, <3>1 DEF Shape, Tied
      <3>3. QED
        BY <1>5, <3>1, <3>2 DEF In, Kin
    <2>2. Lacks' => In(L, parent'[at'], op'.tree)
                    /\ child'[parent'[at']][SideIn(child', parent', at')] = at'
      BY <1>1, <1>10, <2>1
    <2>3. QED
      BY <2>2 DEF Hung, Side, SideIn
  <1>13. Removed(L)'
    <2>1. In(L, p, op.tree)
      BY <1>5 DEF In
    <2>2. ASSUME p # top
          PROVE  parent[p] # Nil /\ parent[top] = Nil
      <3>1. top \in L /\ TreeOf[top] = op.tree /\ parent[top] = Nil
        BY <1>5, <2>2 DEF In
      <3>2. \A m \in L : parent[m] = Nil => root[TreeOf[m]] = m
        BY <1>4 DEF Shape, Tied
      <3>3. QED
        BY <1>5, <2>2, <3>1, <3>2
    <2>3. QED
      BY <1>1, <1>4, <1>5, <2>1, <2>2 DEF Removed
  <1>14. Fits(child', root', color', L, at', at', LackP', LackD')
    BY <1>1, <1>7, <1>10
  <1>15. QED
    BY <1>1, <1>4, <1>11, <1>12, <1>13, <1>14, InMend

LEMMA MendRedStep ==
  ASSUME NEW L, NEW D, NEW h, Good(L, D, h), MendRed
  PROVE  Made(L)'
  <1> DEFINE a == at
             p == parent[at]
             d == Side(at)
             w == Sibling
             b == child[w][d]
             f == child[w][Other(d)]
  <1>1. /\ Mending /\ pc = "mend" /\ pc' = pc /\ color[w] # "black"
        /\ color' = [color EXCEPT ![w] = "black", ![p] = "red"] /\ Rotate(d, p)
        /\ op' = op /\ node' = node /\ top' = top /\ at' = at
    BY DEF MendRed, Mending, Black
  <1>2. AtLack(L, D, h, a, p, d, w)
    BY <1>1, MendingThen
  <1>3. AtMend(L, D, h)
    BY <1>2 DEF AtLack
  <1>4. /\ Shape(child, parent, root, L, D) /\ Request /\ Nil \notin L
        /\ Colored(child, root, color, L, a, a) /\ Beside(L, op.elem, node)
        /\ op.kind = "delete" /\ op.tree \in Trees /\ color \in [Node -> {"red", "black"}]
        /\ a # Nil => In(L, a, op.tree)
    BY <1>3 DEF AtMend, Calmly
  <1>5. /\ Weighed(child, color, L, h, p, d) /\ color[a] = "black" /\ a # top /\ top # Nil
        /\ parent[top] = Nil \/ (color[top] # "black" /\ top = p)
        /\ In(L, top, op.tree) /\ d \in Dirs /\ p \in L /\ TreeOf[p] = op.tree /\ p # Nil
        /\ Other(d) \in Dirs /\ parent[a] = p /\ parent[w] = p /\ a \in Node
        /\ w \in L /\ w # Nil /\ w # a /\ a # p /\ w # p /\ p \in Node /\ w \in Node
        /\ child[p][d] = a /\ w = child[p][Other(d)]
    BY <1>2, <1>3 DEF AtLack, AtMend
  <1>6. /\ \A m \in L : \A s \in Dirs : color[m] = "black" \/ color[child[m][s]] = "black"
        /\ \A m \in L : m # p => \A s \in Dirs : h[m] = h[child[m][s]] + Weight(color[m])
        /\ h[w] = h[a] + 1 /\ h[a] \in Nat
    BY <1>2 DEF AtLack, Lacking
  <1>7. color[p] = "black" /\ color[b] = "black" /\ color[child[p][d]] = "black"
    BY <1>1, <1>5, <1>6
  <1>8. Rotated(L, D, d, p, w, b)
    BY <1>1, <1>4, <1>5, RotateRotated
  <1>9. /\ Apart(child, parent, L, D, d, p, parent[p], Side(p), w, b)
        /\ Relinked(child, parent, root, d, p, parent[p], Side(p), TreeOf[p], w, b,
                    child', parent', root')
    BY <1>8 DEF Rotated
  <1>10. PICK D2 \in [Node -> SUBSET L] : Shape(child', parent', root', L, D2)
    BY <1>8 DEF Rotated
  <1>11. f = Nil \/ p # f
    BY <1>4, <1>5, Links
  <1>12. Fits(child', root', color', L, a, a, p, d)
    BY <1>1, <1>4, <1>5, <1>7, <1>9, <1>11, SwapFits
  <1>13. b # a
    <2>1. h[w] = h[b] + Weight(color[w])
      BY <1>5, <1>6
    <2>2. Weight(color[w]) = 0
      BY <1>1 DEF Weight
    <2>3. b \in Node
      BY <1>3, <1>5 DEF AtMend, Calmly
    <2>4. h[b] \in Nat
      BY <1>3, <2>3 DEF AtMend
    <2>5. QED
      BY <1>6, <2>1, <2>2, <2>4
  <1>14. parent'[a] = p /\ child'[p][d] = a /\ child'[p][Other(d)] = b
    BY <1>5, <1>9, <1>13 DEF Relinked
  <1>15. SideIn(child', parent', a) = d
    BY <1>5, <1>13, <1>14, SideUnique
  <1>16. Lacks' /\ LackP' = p /\ LackD' = d
    <2>1. Lacks'
      BY <1>1, <1>5, <1>14 DEF Lacks
    <2>2. QED
      BY <1>1, <1>14, <1>15, <2>1 DEF LackP, LackD, Side, SideIn
  <1>17. Request'
    BY <1>1, <1>4 DEF Request
  <1>18. Hung(L)'
    BY <1>1, <1>5, <1>14, <1>16 DEF Hung, In, LackD
  <1>19. Removed(L)'
    <2>1. color'[p] = "red"
      BY <1>1, <1>4, <1>5
    <2>2. top # p => parent'[top] = Nil
      <3>1. b = Nil \/ (b \in L /\ parent[b] = w)
        BY <1>4, <1>5, Links
      <3>2. ASSUME top # p
            PROVE  parent'[top] = Nil
        <4>1. parent[top] = Nil /\ top # w /\ (top # b \/ b = Nil) /\ top \in Node
          BY <1>3, <1>5, <3>1, <3>2 DEF In, AtMend, Calmly
        <4>2. QED
          BY <1>9, <3>2, <4>1 DEF Relinked
      <3>3. QED
        BY <3>2
    <2>3. QED
      BY <1>1, <1>4, <1>5, <1>14, <2>1, <2>2 DEF Removed, Black
  <1>20. Fits(child', root', color', L, at', at', LackP', LackD')
    BY <1>1, <1>12, <1>16
  <1>21. QED
    BY <1>1, <1>10, <1>17, <1>18, <1>19, <1>20, InMend

LEMMA MendNearStep ==
  ASSUME NEW L, NEW D, NEW h, Good(L, D, h), MendNear
  PROVE  Made(L)'
  <1> DEFINE a == at
             p == parent[at]
             d == Side(at)
             w == Sibling
             o == Other(d)
             c == child[w][d]
             b == child[c][o]
             f == child[c][Other(o)]
  <1>1. /\ Mending /\ pc = "mend" /\ pc' = pc /\ color[w] = "black"
        /\ color[c] # "black" /\ color[child[w][o]] = "black"
        /\ color' = [color EXCEPT ![c] = "black", ![w] = "red"] /\ Rotate(o, w)
        /\ op' = op /\ node' = node /\ top' = top /\ at' = at
    BY DEF MendNear, Mending, Black, Near, Far
  <1>2. AtLack(L, D, h, a, p, d, w)
    BY <1>1, MendingThen
  <1>3. AtMend(L, D, h)
    BY <1>2 DEF AtLack
  <1>4. /\ Shape(child, parent, root, L, D) /\ Request /\ Nil \notin L
        /\ Colored(child, root, color, L, a, a) /\ Beside(L, op.elem, node)
        /\ op.kind = "delete" /\ op.tree \in Trees /\ color \in [Node -> {"red", "black"}]
        /\ a # Nil => In(L, a, op.tree)
    BY <1>3 DEF AtMend, Calmly
  <1>5. /\ Weighed(child, color, L, h, p, d) /\ color[a] = "black" /\ a # top /\ top # Nil
        /\ parent[top] = Nil \/ (color[top] # "black" /\ top = p)
        /\ In(L, top, op.tree) /\ d \in Dirs /\ p \in L /\ TreeOf[p] = op.tree /\ p # Nil
        /\ o \in Dirs /\ Other(o) = d /\ o # d /\ parent[a] = p /\ parent[w] = p /\ a \in Node
        /\ w \in L /\ w # Nil /\ w # a /\ a # p /\ w # p /\ p \in Node /\ w \in Node
        /\ child[p][d] = a /\ w = child[p][o] /\ TreeOf[w] = op.tree
    BY <1>2, <1>3 DEF AtLack, AtMend
  <1>6. /\ \A m \in L : \A s \in Dirs : color[m] = "black" \/ color[child[m][s]] = "black"
        /\ color[Nil] = "black"
    BY <1>2 DEF AtLack, Lacking
  <1>7. c # Nil /\ c \in L /\ parent[c] = w /\ c # a /\ c = child[w][Other(o)]
    <2>1. c # Nil /\ c # a
      BY <1>1, <1>5, <1>6
    <2>2. QED
      BY <1>4, <1>5, <2>1, Links
  <1>8. color[b] = "black" /\ color[child[w][o]] = "black"
    BY <1>1, <1>5, <1>6, <1>7
  <1>9. Rotated(L, D, o, w, c, b)
    BY <1>1, <1>4, <1>5, <1>7, RotateRotated
  <1>10. /\ Apart(child, parent, L, D, o, w, p, Side(w), c, b)
         /\ Relinked(child, parent, root, o, w, p, Side(w), TreeOf[w], c, b,
                     child', parent', root')
    BY <1>5, <1>9 DEF Rotated
  <1>11. PICK D2 \in [Node -> SUBSET L] : Shape(child', parent', root', L, D2)
    BY <1>9 DEF Rotated
  \* Neither is p under its own children.
  <1>12. p # c /\ (f = Nil \/ p # f)
    <2>1. p \notin D[w]
      BY <1>4, <1>5, Child
    <2>2. c \in D[w] /\ D[c] \subseteq D[w]
      BY <1>4, <1>5, <1>7, Child, SMTT(30)
    <2>3. f # Nil => f \in D[c]
      BY <1>4, <1>5, <1>7, Child, SMTT(30)
    <2>4. QED
      BY <2>1, <2>2, <2>3
  <1>13. p = w => d = o
    BY <1>5
  <1>14. Fits(child', root', color', L, a, a, p, d)
    BY <1>1, <1>4, <1>5, <1>7, <1>8, <1>10, <1>12, <1>13, SwapFits
  <1>15. Side(w) = o /\ Other(Side(w)) = d
    <2>1. child[parent[w]][o] = w /\ child[parent[w]][Other(o)] # w
      BY <1>5
    <2>2. SideIn(child, parent, w) = o
      BY <1>5, <2>1, SideUnique
    <2>3. QED
      BY <1>5, <2>2 DEF Side, SideIn
  <1>16. b = Nil \/ (b \in L /\ parent[b] = c)
    BY <1>4, <1>5, <1>7, Links, SMTT(30)
  <1>17. parent'[a] = p /\ child'[p][d] = a /\ child'[p][o] = c
    <2>1. a # b \/ b = Nil
      BY <1>5, <1>12, <1>16
    <2>2. QED
      BY <1>5, <1>7, <1>10, <1>15, <2>1, ZenonT(60) DEF Relinked
  <1>18. SideIn(child', parent', a) = d
    BY <1>5, <1>7, <1>17, SideUnique
  <1>19. Lacks' /\ LackP' = p /\ LackD' = d
    <2>1. Lacks'
      BY <1>1, <1>5, <1>17 DEF Lacks
    <2>2. QED
      BY <1>1, <1>17, <1>18, <2>1 DEF LackP, LackD, Side, SideIn
  <1>20. Request'
    BY <1>1, <1>4 DEF Request
  <1>21. Hung(L)'
    BY <1>1, <1>5, <1>17, <1>19 DEF Hung, In, LackD
  <1>22. Removed(L)'
    <2>1. color'[p] = color[p]
      BY <1>1, <1>4, <1>5, <1>12
    <2>2. ASSUME parent[top] = Nil
          PROVE  parent'[top] = Nil
      <3>1. top # w /\ top # c /\ (top # b \/ b = Nil) /\ top \in Node
        BY <1>3, <1>4, <1>5, <1>7, <1>16, <2>2 DEF In, AtMend, Calmly
      <3>2. QED
        BY <1>10, <2>2, <3>1 DEF Relinked
    <2>3. QED
      BY <1>1, <1>4, <1>5, <1>17, <2>1, <2>2 DEF Removed, Black
  <1>23. Fits(child', root', color', L, at', at', LackP', LackD')
    BY <1>1, <1>14, <1>19
  <1>24. QED
    BY <1>1, <1>11, <1>20, <1>21, <1>22, <1>23, InMend

LEMMA MendFarStep ==
  ASSUME NEW L, NEW D, NEW h, Good(L, D, h), MendFar
  PROVE  Made(L)'
  <1> DEFINE a == at
             p == parent[at]
             d == Side(at)
             w == Sibling
             b == child[w][d]
  <1>0. PICK f : f = child[w][Other(d)]
    OBVIOUS
  <1>1. /\ Mending /\ pc = "mend" /\ pc' = pc /\ color[w] = "black" /\ color[f] # "black"
        /\ color' = [color EXCEPT ![w] = color[p], ![p] = "black", ![f] = "black"]
        /\ Rotate(d, p) /\ op' = op /\ node' = node /\ top' = top /\ at' = top
    BY <1>0 DEF MendFar, Mending, Black, Far
  <1>2. AtLack(L, D, h, a, p, d, w)
    BY <1>1, MendingThen
  <1>3. AtMend(L, D, h)
    BY <1>2 DEF AtLack
  <1>4. /\ Shape(child, parent, root, L, D) /\ Request /\ Nil \notin L
        /\ Colored(child, root, color, L, a, a) /\ Beside(L, op.elem, node)
        /\ op.kind = "delete" /\ op.tree \in Trees /\ color \in [Node -> {"red", "black"}]
    BY <1>3 DEF AtMend, Calmly
  <1>5. /\ Weighed(child, color, L, h, p, d) /\ color[a] = "black" /\ a # top /\ top # Nil
        /\ parent[top] = Nil \/ (color[top] # "black" /\ top = p)
        /\ In(L, top, op.tree) /\ d \in Dirs /\ p \in L /\ TreeOf[p] = op.tree /\ p # Nil
        /\ Other(d) \in Dirs /\ parent[a] = p /\ parent[w] = p /\ a \in Node
        /\ w \in L /\ w # Nil /\ w # a /\ a # p /\ w # p /\ p \in Node /\ w \in Node
        /\ child[p][d] = a /\ w = child[p][Other(d)]
    BY <1>2, <1>3 DEF AtLack, AtMend
  <1>6. Rotated(L, D, d, p, w, b)
    BY <1>1, <1>4, <1>5, RotateRotated
  <1>7. /\ Apart(child, parent, L, D, d, p, parent[p], Side(p), w, b)
        /\ Relinked(child, parent, root, d, p, parent[p], Side(p), TreeOf[p], w, b,
                    child', parent', root')
    BY <1>6 DEF Rotated
  <1>8. PICK D2 \in [Node -> SUBSET L] : Shape(child', parent', root', L, D2)
    BY <1>6 DEF Rotated
  <1>9. Fits(child', root', color', L, top, top, Nil, d)
    <2>1. color' = [color EXCEPT ![w] = color[p], ![p] = "black", ![f] = "black"]
      BY <1>1
    <2>2. Weighed(child, color, L, h, p, d) /\ child[p][d] = a /\ color[a] = "black"
      BY <1>5
    <2>3. Lifted(child, color, d, p, a, w, f, color')
      BY <1>0, <1>1, <2>1, <2>2 DEF Lifted
    <2>4. QED
      BY <1>4, <1>5, <1>7, <2>2, <2>3, FarFits
  <1>10. color'[p] = "black"
    <2>1. f \in Node
      BY <1>0, <1>3, <1>5 DEF AtMend, Calmly
    <2>2. QED
      BY <1>1, <1>4, <1>5, <2>1
  <1>11. parent'[top] = Nil \/ color'[top] = "black"
    <2>1. CASE top = p
      BY <1>10, <2>1
    <2>2. CASE top # p
      <3>1. parent[top] = Nil /\ top \in L
        BY <1>5, <2>2 DEF In
      <3>2. b = Nil \/ (b \in L /\ parent[b] = w)
        BY <1>4, <1>5, Links
      <3>3. top # w /\ (top # b \/ b = Nil) /\ top \in Node
        BY <1>3, <1>5, <3>1, <3>2 DEF AtMend, Calmly
      <3>4. QED
        BY <1>7, <2>2, <3>1, <3>3 DEF Relinked
    <2>3. QED
      BY <2>1, <2>2
  <1>12. ~Lacks' /\ LackP' = Nil
    BY <1>1, <1>11 DEF Lacks, LackP, Black
  <1>13. Request'
    BY <1>1, <1>4 DEF Request
  <1>14. Hung(L)'
    BY <1>12 DEF Hung
  <1>15. Removed(L)'
    BY <1>1, <1>4, <1>5 DEF Removed
  <1>16. Fits(child', root', color', L, at', at', LackP', LackD')
    BY <1>1, <1>8, <1>9, <1>12, FitsNone
  <1>17. QED
    BY <1>1, <1>8, <1>13, <1>14, <1>15, <1>16, InMend

LEMMA ReplaceStep ==
  ASSUME NEW L, NEW D, NEW h, Good(L, D, h), Replace
  PROVE  \E a, b : /\ a = op.elem /\ b = node
                   /\ IF b = a THEN Made(L)'
                      ELSE a \in L /\ b \in Elems \ L /\ Made((L \ {a}) \cup {b})'
  <1>0. PICK a, b, p : a = op.elem /\ b = node /\ p = parent[a]
    OBVIOUS
  <1>1. Calmly(L, D, h)
    BY CalmlyThen
  <1>2. /\ pc = "replace" /\ Finish
        /\ IF b = a THEN UNCHANGED fields
           ELSE /\ child' = [child EXCEPT
                     ![b] = child[a],
                     ![p] = [d \in Dirs |-> IF p # Nil /\ child[p][d] = a THEN b ELSE @[d]],
                     ![a] = NoLinks]
                /\ parent' = [n \in Node |->
                     CASE n = a -> Nil
                       [] n = b -> p
                       [] n \notin {a, b, Nil} /\ (\E d \in Dirs : child[a][d] = n) -> b
                       [] OTHER -> parent[n]]
                /\ color' = [color EXCEPT ![b] = color[a]]
                /\ root' = [root EXCEPT ![op.tree] = IF @ = a THEN b ELSE @]
    BY <1>0 DEF Replace
  <1>3. /\ Shape(child, parent, root, L, D) /\ Request
        /\ Weighed(child, color, L, h, Nil, LackD) /\ Colored(child, root, color, L, Nil, Nil)
    BY <1>1, <1>2, Calm DEF Calmly, Local
  <1>4. Beside(L, a, b) /\ op.tree = TreeOf[a]
    BY <1>0, <1>1, <1>2, <1>3 DEF Calmly, Local, Removed, Request
  <1>5. CASE b = a
    <2>1. UNCHANGED fields
      BY <1>2, <1>5
    <2>2. Local(L, D)' /\ pc' = "idle"
      BY <1>2, Finished
    <2>3. Made(L)'
      BY <1>2, <2>1, <2>2, Still
    <2>4. QED
      BY <1>0, <1>5, <2>3
  <1>6. CASE b # a
    <2> DEFINE M == (L \ {a}) \cup {b}
    <2>1. /\ child' = [child EXCEPT
               ![b] = child[a],
               ![p] = [d \in Dirs |-> IF p # Nil /\ child[p][d] = a THEN b ELSE @[d]],
               ![a] = NoLinks]
          /\ parent' = [n \in Node |->
               CASE n = a -> Nil
                 [] n = b -> p
                 [] n \notin {a, b, Nil} /\ (\E d \in Dirs : child[a][d] = n) -> b
                 [] OTHER -> parent[n]]
          /\ root' = [root EXCEPT ![TreeOf[a]] = IF @ = a THEN b ELSE @]
          /\ color' = [color EXCEPT ![b] = color[a]]
      BY <1>2, <1>4, <1>6
    <2>2. a \in L /\ b \in Elems /\ b \notin L /\ Kin(a, b)
      BY <1>4, <1>6 DEF Beside
    <2>3. Replaced(child, parent, root, L, a, b, p, child', parent', root')
      BY <1>0, <1>4, <1>6, <2>1, <2>2 DEF Replaced
    <2>4. Renamed(child, parent, root, L, a, b, child', parent', root')
      BY <1>3, <2>3, ReplacedRenamed
    <2>5. PICK D2 \in [Node -> SUBSET M] : Shape(child', parent', root', M, D2)
      <3>1. Shaped(child', parent', root', M)
        BY <1>3, <2>3, ReplacedShape
      <3>2. QED
        BY <3>1 DEF Shaped
    <2>6. Fits(child', root', color', M, Nil, Nil, Nil, LackD)
      <3>1. color' = [color EXCEPT ![b] = color[a]]
        BY <2>1
      <3>2. Fits(child', root', color', (L \ {a}) \cup {b}, Nil, Nil, Nil, LackD)
        BY <1>3, <2>2, <2>4, <3>1, ReplacedFits
      <3>3. QED
        BY <3>2
    <2>7. Local(M, D2)' /\ pc' = "idle"
      BY <1>2, Finished
    <2>8. Made(M)'
      BY <2>5, <2>6, <2>7, CalmAfter
    <2>9. QED
      BY <1>0, <1>6, <2>2, <2>8
  <1>7. QED
    BY <1>5, <1>6

(***************************************************************************)
(* Every step: the trees stay well made, and what they hold together with  *)
(* the node that a deletion moves changes as a set per tree may            *)
(***************************************************************************)

Effect(S, T) ==
  \/ T = S
  \/ \E e \in Elems : Free(S, e) /\ T = S \cup {e}
  \/ \E e \in S : T = S \ {e}

StepTo(L) == \E M \in SUBSET Elems : Made(M)' /\ Effect(L \cup Moving, M \cup Moving')

LEMMA Unmoved ==
  ASSUME NEW L \in SUBSET Elems, Made(L)', Moving' = Moving
  PROVE  StepTo(L)
  BY DEF StepTo, Effect

LEMMA NoneMoving ==
  /\ pc \notin {"mend", "replace"} => Moving = {}
  /\ pc' \notin {"mend", "replace"} => Moving' = {}
  BY DEF Moving

LEMMA MovingStill ==
  ASSUME pc = "mend", pc' \in {"mend", "replace"}, op' = op, node' = node
  PROVE  Moving' = Moving
  BY DEF Moving

LEMMA LookingStepTo ==
  ASSUME NEW L \in SUBSET Elems, NEW D, NEW h, Good(L, D, h), Looking
  PROVE  StepTo(L)
  <1>1. CASE Extreme
    <2>1. Made(L)'
      BY <1>1, ExtremeStep
    <2>2. Moving = {} /\ Moving' = {}
      BY <1>1, NoneMoving DEF Extreme, Resume
    <2>3. QED
      BY <2>1, <2>2, Unmoved
  <1>2. CASE Climb
    <2>1. Made(L)'
      BY <1>2, ClimbStep
    <2>2. Moving = {} /\ Moving' = {}
      BY <1>2, NoneMoving DEF Climb, Resume
    <2>3. QED
      BY <2>1, <2>2, Unmoved
  <1>3. CASE Search
    <2>1. Made(L)'
      BY <1>3, SearchStep
    <2>2. Moving = {} /\ Moving' = {}
      BY <1>3, NoneMoving DEF Search, Stepping
    <2>3. QED
      BY <2>1, <2>2, Unmoved
  <1>4. CASE Compare
    <2>1. Made(L)'
      BY <1>4, CompareStep
    <2>2. Moving = {} /\ Moving' = {}
      BY <1>4, NoneMoving DEF Compare, Stepping
    <2>3. QED
      BY <2>1, <2>2, Unmoved
  <1>5. CASE Answer
    <2>1. Made(L)'
      BY <1>5, AnswerStep
    <2>2. Moving = {} /\ Moving' = {}
      BY <1>5, NoneMoving DEF Answer, Finish
    <2>3. QED
      BY <2>1, <2>2, Unmoved
  <1>6. QED
    BY <1>1, <1>2, <1>3, <1>4, <1>5 DEF Looking

LEMMA BeginningStepTo ==
  ASSUME NEW L \in SUBSET Elems, NEW D, NEW h, Good(L, D, h)
  PROVE  /\ \A e \in Elems : Insert(e) \/ Delete(e) \/ (\E d \in Dirs : Neighbour(e, d)) => StepTo(L)
         /\ \A t \in Trees, x \in Addresses : Find(t, x) => StepTo(L)
  <1>1. ASSUME NEW e \in Elems, Insert(e)
        PROVE  StepTo(L)
    <2>1. IF pc' = "place" THEN Made(L)' ELSE pc' = "fixup" /\ Made(L \cup {e})'
      BY <1>1, InsertStep
    <2>2. pc = "idle" /\ e \notin Content(TreeOf[e]) /\ \A f \in Content(TreeOf[e]) : ~Holds(f, Key[e].lo)
      BY <1>1 DEF Insert
    <2>3. Moving = {} /\ Moving' = {}
      BY <2>1, <2>2, NoneMoving
    <2>4. Free(L, e)
      <3>1. Shape(child, parent, root, L, D) /\ TreeOf[e] \in Trees
        BY TreesAssumption DEF Good
      <3>2. Content(TreeOf[e]) = {f \in L : TreeOf[f] = TreeOf[e]}
        BY <3>1, Contents
      <3>3. QED
        BY <2>2, <3>2 DEF Free, Kin
    <2>5. CASE pc' = "place"
      BY <2>1, <2>3, <2>5, Unmoved
    <2>6. CASE pc' # "place"
      <3>1. Effect(L, L \cup {e})
        BY <2>4 DEF Effect
      <3>2. L \cup {e} \in SUBSET Elems /\ L \cup Moving = L /\ (L \cup {e}) \cup Moving' = L \cup {e}
        BY <2>3
      <3>3. QED
        BY <2>1, <2>6, <3>1, <3>2 DEF StepTo
    <2>7. QED
      BY <2>5, <2>6
  <1>2. ASSUME NEW e \in Elems, Delete(e)
        PROVE  StepTo(L)
    <2>1. Made(L)'
      BY <1>2, DeleteStep
    <2>2. Moving = {} /\ Moving' = {}
      BY <1>2, NoneMoving DEF Delete
    <2>3. QED
      BY <2>1, <2>2, Unmoved
  <1>3. ASSUME NEW e \in Elems, NEW d \in Dirs, Neighbour(e, d)
        PROVE  StepTo(L)
    <2>1. Made(L)'
      BY <1>3, NeighbourStep
    <2>2. Moving = {} /\ Moving' = {}
      BY <1>3, NoneMoving DEF Neighbour, Stepping
    <2>3. QED
      BY <2>1, <2>2, Unmoved
  <1>4. ASSUME NEW t \in Trees, NEW x \in Addresses, Find(t, x)
        PROVE  StepTo(L)
    <2>1. Made(L)'
      BY <1>4, FindStep
    <2>2. Moving = {} /\ Moving' = {}
      BY <1>4, NoneMoving DEF Find
    <2>3. QED
      BY <2>1, <2>2, Unmoved
  <1>5. QED
    BY <1>1, <1>2, <1>3, <1>4

LEMMA InsertingStepTo ==
  ASSUME NEW L \in SUBSET Elems, NEW D, NEW h, Good(L, D, h), Inserting
  PROVE  StepTo(L)
  <1>1. CASE Place
    <2>0. PICK e : e = op.elem
      OBVIOUS
    <2>1. /\ e \in Elems /\ Free(L, e)
          /\ IF pc' = "place" THEN Made(L)' ELSE pc' = "fixup" /\ Made(L \cup {e})'
      BY <1>1, <2>0, PlaceStep
    <2>2. Moving = {} /\ Moving' = {}
      BY <1>1, <2>1, NoneMoving DEF Place
    <2>3. CASE pc' = "place"
      BY <2>1, <2>2, <2>3, Unmoved
    <2>4. CASE pc' # "place"
      <3>1. Effect(L, L \cup {e})
        BY <2>1 DEF Effect
      <3>2. L \cup {e} \in SUBSET Elems /\ L \cup Moving = L /\ (L \cup {e}) \cup Moving' = L \cup {e}
        BY <2>1, <2>2
      <3>3. QED
        BY <2>1, <2>4, <3>1, <3>2 DEF StepTo
    <2>5. QED
      BY <2>3, <2>4
  <1>2. CASE FixDone
    <2>1. Made(L)'
      BY <1>2, FixDoneStep
    <2>2. Moving = {} /\ Moving' = {}
      BY <1>2, NoneMoving DEF FixDone, Finish
    <2>3. QED
      BY <2>1, <2>2, Unmoved
  <1>3. CASE FixRecolor
    <2>1. Made(L)'
      BY <1>3, FixRecolorStep
    <2>2. Moving = {} /\ Moving' = {}
      BY <1>3, NoneMoving DEF FixRecolor, Fixing
    <2>3. QED
      BY <2>1, <2>2, Unmoved
  <1>4. CASE FixInner
    <2>1. Made(L)'
      BY <1>4, FixInnerStep
    <2>2. Moving = {} /\ Moving' = {}
      BY <1>4, NoneMoving DEF FixInner, Fixing
    <2>3. QED
      BY <2>1, <2>2, Unmoved
  <1>5. CASE FixOuter
    <2>1. Made(L)'
      BY <1>5, FixOuterStep
    <2>2. Moving = {} /\ Moving' = {}
      BY <1>5, NoneMoving DEF FixOuter, Fixing
    <2>3. QED
      BY <2>1, <2>2, Unmoved
  <1>6. QED
    BY <1>1, <1>2, <1>3, <1>4, <1>5 DEF Inserting

LEMMA DeletingStepTo ==
  ASSUME NEW L \in SUBSET Elems, NEW D, NEW h, Good(L, D, h), Deleting
  PROVE  StepTo(L)
  <1>1. CASE Splice
    <2>0. PICK n \in L : n = at /\ op.elem \in L /\ Made(L \ {n})'
      BY <1>1, SpliceStep
    <2>1. /\ pc = "splice" /\ pc' \in {"mend", "replace"} /\ node' = n /\ op' = op
      BY <1>1, <2>0 DEF Splice
    <2>2. Moving = {} /\ Moving' = IF n # op.elem THEN {n} ELSE {}
      BY <2>1 DEF Moving
    <2>3. Effect(L \cup Moving, (L \ {n}) \cup Moving')
      <3>1. CASE n = op.elem
        BY <2>0, <2>2, <3>1 DEF Effect
      <3>2. CASE n # op.elem
        <4>1. (L \ {n}) \cup Moving' = L /\ L \cup Moving = L
          BY <2>0, <2>2, <3>2
        <4>2. QED
          BY <4>1 DEF Effect
      <3>3. QED
        BY <3>1, <3>2
    <2>4. QED
      BY <2>0, <2>3 DEF StepTo
  <1>2. CASE MendDone
    <2>1. Made(L)'
      BY <1>2, MendDoneStep
    <2>2. QED
      BY <1>2, <2>1, MovingStill, Unmoved DEF MendDone
  <1>3. CASE MendRed
    <2>1. Made(L)'
      BY <1>3, MendRedStep
    <2>2. QED
      BY <1>3, <2>1, MovingStill, Unmoved DEF MendRed, Mending
  <1>4. CASE MendUp
    <2>1. Made(L)'
      BY <1>4, MendUpStep
    <2>2. QED
      BY <1>4, <2>1, MovingStill, Unmoved DEF MendUp, Mending
  <1>5. CASE MendNear
    <2>1. Made(L)'
      BY <1>5, MendNearStep
    <2>2. QED
      BY <1>5, <2>1, MovingStill, Unmoved DEF MendNear, Mending
  <1>6. CASE MendFar
    <2>1. Made(L)'
      BY <1>6, MendFarStep
    <2>2. QED
      BY <1>6, <2>1, MovingStill, Unmoved DEF MendFar, Mending
  <1>7. CASE Replace
    <2>0. PICK a, b : /\ a = op.elem /\ b = node
                      /\ IF b = a THEN Made(L)'
                         ELSE a \in L /\ b \in Elems \ L /\ Made((L \ {a}) \cup {b})'
      BY <1>7, ReplaceStep
    <2>1. pc = "replace" /\ pc' = "idle"
      BY <1>7 DEF Replace, Finish
    <2>2. Moving' = {} /\ Moving = IF b # a THEN {b} ELSE {}
      BY <2>0, <2>1 DEF Moving
    <2>3. CASE b = a
      BY <2>0, <2>2, <2>3, Unmoved
    <2>4. CASE b # a
      <3> DEFINE M == (L \ {a}) \cup {b}
      <3>1. M \cup Moving' = (L \cup Moving) \ {a} /\ a \in L /\ M \in SUBSET Elems
        BY <2>0, <2>2, <2>4
      <3>2. Effect(L \cup Moving, M \cup Moving')
        BY <3>1 DEF Effect
      <3>3. Made(M)'
        BY <2>0, <2>4
      <3> HIDE DEF M
      <3>4. QED
        BY <3>1, <3>2, <3>3 DEF StepTo
    <2>5. QED
      BY <2>3, <2>4
  <1>8. QED
    BY <1>1, <1>2, <1>3, <1>4, <1>5, <1>6, <1>7 DEF Deleting

LEMMA NextStepTo ==
  ASSUME NEW L \in SUBSET Elems, Made(L), [TreeNext]_treeVars
  PROVE  StepTo(L)
  <1>1. PICK D \in [Node -> SUBSET Elems], h \in [Node -> Nat] : Good(L, D, h)
    BY DEF Made
  <1>2. CASE TreeNext
    BY <1>1, <1>2, LookingStepTo, BeginningStepTo, InsertingStepTo, DeletingStepTo DEF TreeNext
  <1>3. CASE UNCHANGED treeVars
    <2>1. /\ child' = child /\ parent' = parent /\ color' = color /\ root' = root /\ pc' = pc
          /\ op' = op /\ at' = at /\ node' = node /\ top' = top
      BY <1>3 DEF treeVars, fields
    <2>2. Moving' = Moving
      BY <2>1 DEF Moving
    <2>3. Shape(child, parent, root, L, D)' /\ Local(L, D)'
      BY <1>1, <2>1 DEF Good, Local, Request, Stepped, Looked, Placed, Removed, Hung, Lacks,
                        Side, Black, Begin
    <2>4. /\ Weighed(child, color, L, h, LackP, LackD)'
          /\ Colored(child, root, color, L, RedC, RedP)'
      BY <1>1, <2>1 DEF Good, LackP, LackD, Lacks, Side, Black, RedC, RedP
    <2>5. Made(L)'
      BY <1>1, <2>3, <2>4 DEF Made, Good
    <2>6. QED
      BY <2>2, <2>5, Unmoved
  <1>4. QED
    BY <1>2, <1>3

(***************************************************************************)
(* The trees are well made, balanced, and answer as they should            *)
(***************************************************************************)

LEMMA InitMade ==
  ASSUME TreeInit
  PROVE  Made({})
  <1> DEFINE D == [n \in Node |-> {}]
             h == [n \in Node |-> 0]
  <1>1. /\ child = [n \in Node |-> NoLinks] /\ parent = [n \in Node |-> Nil]
        /\ color = [n \in Node |-> "black"] /\ root = [t \in Trees |-> Nil]
        /\ pc = "idle" /\ op = NoOp /\ at = Nil /\ node = Nil /\ top = Nil
    BY DEF TreeInit
  <1>2. Nil \in Node /\ NoLinks \in [Dirs -> Node] /\ Elems \subseteq Node /\ Nil \notin Elems
        /\ TreeOf \in [Elems -> Trees]
    BY TreesAssumption DEF Node, NoLinks
  <1>3. Shape(child, parent, root, {}, D)
    <2>1. Typed(child, parent, root, {}, D)
      BY <1>1, <1>2 DEF Typed
    <2>2. Tied(child, parent, root, {})
      BY <1>1, <1>2 DEF Tied, HangsIn
    <2>3. Counted(child, root, {}, D) /\ Sorted(child, {}, D)
      BY <1>2 DEF Counted, Sorted
    <2>4. QED
      BY <2>1, <2>2, <2>3 DEF Shape
  <1>4. LackP = Nil /\ RedC = Nil /\ RedP = Nil
    BY <1>1 DEF LackP, Lacks, RedC, RedP
  <1>5. Weighed(child, color, {}, h, LackP, LackD)
    BY <1>2 DEF Weighed
  <1>6. Colored(child, root, color, {}, RedC, RedP)
    BY <1>1, <1>2 DEF Colored
  <1>7. Local({}, D)
    <2>1. Request
      BY <1>1, <1>2 DEF Request, NoOp, Dirs
    <2>2. QED
      BY <1>1, <2>1 DEF Local, Stepped, Looked, Placed, Removed, Hung, Lacks
  <1>8. D \in [Node -> SUBSET Elems] /\ h \in [Node -> Nat]
    OBVIOUS
  <1>9. Good({}, D, h)
    BY <1>3, <1>5, <1>6, <1>7 DEF Good
  <1> HIDE DEF D, h
  <1>10. QED
    BY <1>8, <1>9 DEF Made

\* The invariant: at every step of every operation the trees are as Good says.
THEOREM TreeInvariant == TreeSpec => []TreeInv
  <1>1. TreeInit => TreeInv
    BY InitMade DEF TreeInv
  <1>2. TreeInv /\ [TreeNext]_treeVars => TreeInv'
    <2> SUFFICES ASSUME TreeInv, [TreeNext]_treeVars
                 PROVE  TreeInv'
      OBVIOUS
    <2>1. PICK L \in SUBSET Elems : Made(L)
      BY DEF TreeInv
    <2>2. StepTo(L)
      BY <2>1, NextStepTo
    <2>3. QED
      BY <2>2 DEF StepTo, TreeInv
  <1>3. QED
    BY <1>1, <1>2, PTL DEF TreeSpec

IsHeight(t, g) ==
  g = [n \in Content(t) \cup {Nil} |->
         IF n = Nil THEN 0 ELSE g[child[n]["left"]] + (IF Black(n) THEN 1 ELSE 0)]

\* The black nodes on the way down to the left are those on every way down.
LEMMA Heights ==
  ASSUME NEW L, NEW D, NEW h, NEW d, Shape(child, parent, root, L, D),
         Weighed(child, color, L, h, Nil, d), NEW t \in Trees
  PROVE  \A n \in Content(t) \cup {Nil} : Height(t)[n] = h[n]
  <1> DEFINE S == Content(t) \cup {Nil}
             g == [n \in S |-> h[n]]
  <1>1. /\ Content(t) = {e \in L : TreeOf[e] = t} /\ L \subseteq Elems /\ Nil \notin L
        /\ L \subseteq Node /\ Nil \in Node /\ D[Nil] = {} /\ \A n \in L : n \in D[n]
    BY Contents, Nodes
  <1>2. "left" \in Dirs /\ S \subseteq Node
    BY <1>1 DEF Dirs
  <1>3. ASSUME NEW n \in Content(t)
        PROVE  /\ child[n]["left"] \in S /\ D[child[n]["left"]] \subseteq D[n]
               /\ D[child[n]["left"]] # D[n]
    <2>1. n \in L /\ TreeOf[n] = t
      BY <1>1
    <2>2. CASE child[n]["left"] = Nil
      BY <1>1, <2>1, <2>2
    <2>3. CASE child[n]["left"] # Nil
      BY <1>1, <1>2, <2>1, <2>3, Child DEF Kin
    <2>4. QED
      BY <2>2, <2>3
  <1>4. ASSUME NEW n \in Content(t)
        PROVE  h[n] = h[child[n]["left"]] + (IF Black(n) THEN 1 ELSE 0)
    <2>1. n \in L /\ n # Nil
      BY <1>1
    <2>2. h[n] = h[child[n]["left"]] + Gap(n, "left", Nil, d) + Weight(color[n])
      BY <1>2, <2>1 DEF Weighed
    <2>3. h[child[n]["left"]] \in Nat
      BY <1>2, <1>3 DEF Weighed
    <2>4. QED
      BY <2>1, <2>2, <2>3 DEF Gap, Weight, Black
  <1>5. IsHeight(t, g)
    <2>1. h[Nil] = 0
      BY DEF Weighed
    <2>2. \A n \in S : g[n] = IF n = Nil THEN 0
                              ELSE g[child[n]["left"]] + (IF Black(n) THEN 1 ELSE 0)
      <3>1. ASSUME NEW n \in S, n # Nil
            PROVE  g[n] = g[child[n]["left"]] + (IF Black(n) THEN 1 ELSE 0)
        BY <1>3, <1>4, <3>1
      <3>2. QED
        BY <2>1, <3>1
    <2>3. QED
      BY <2>2 DEF IsHeight
  <1>6. Height(t) = CHOOSE k : IsHeight(t, k)
    BY DEF Height, IsHeight
  <1>7. IsHeight(t, Height(t))
    <2> HIDE DEF g
    <2>1. QED
      BY <1>5, <1>6
  <1> DEFINE k == Height(t)
             T == {n \in S : k[n] # h[n]}
  <1>8. \A n \in S : k[n] = IF n = Nil THEN 0
                            ELSE k[child[n]["left"]] + (IF Black(n) THEN 1 ELSE 0)
    <2> HIDE DEF k
    <2>1. IsHeight(t, k)
      BY <1>7 DEF k
    <2>2. QED
      BY <2>1 DEF IsHeight
  <1> HIDE DEF k
  <1>9. T = {}
    <2> SUFFICES ASSUME T # {}
                 PROVE  FALSE
      OBVIOUS
    <2>1. PICK n \in T : \A m \in T : ~(D[m] \subseteq D[n] /\ D[m] # D[n])
      <3>1. T \in SUBSET Node
        BY <1>2
      <3> HIDE DEF T
      <3>2. QED
        BY <3>1, Deepest
    <2>2. n # Nil
      BY <1>8 DEF Weighed
    <2>3. n \in Content(t)
      BY <2>2
    <2>4. child[n]["left"] \notin T
      BY <1>3, <2>1, <2>3
    <2>5. QED
      BY <1>3, <1>4, <1>8, <2>1, <2>2, <2>3, <2>4
  <1>10. QED
    BY <1>9 DEF k

LEMMA MadeLinked ==
  ASSUME NEW L, NEW D, NEW h, Good(L, D, h), pc = "idle"
  PROVE  LinksAgree
  <1>1. /\ Shape(child, parent, root, L, D) /\ Colored(child, root, color, L, Nil, Nil)
    BY Calm
  <1>2. Black(Nil) /\ child[Nil] = NoLinks
    BY <1>1 DEF Colored, Black, Shape, Tied
  <1>3. \A t \in Trees : Content(t) = {e \in L : TreeOf[e] = t}
    BY <1>1, Contents
  <1>4. ASSUME NEW t \in Trees, root[t] # Nil
        PROVE  root[t] \in Content(t) /\ parent[root[t]] = Nil
    BY <1>1, <1>3, <1>4, Links
  <1>5. ASSUME NEW t \in Trees, NEW n \in Content(t)
        PROVE  /\ IF n = root[t] THEN parent[n] = Nil ELSE parent[n] \in Content(t)
               /\ child[n]["left"] # child[n]["right"] \/ child[n]["left"] = Nil
               /\ \A d \in Dirs : child[n][d] # Nil =>
                    child[n][d] \in Content(t) /\ parent[child[n][d]] = n
    <2>1. n \in L /\ TreeOf[n] = t /\ n # Nil
      BY <1>1, <1>3, Nodes
    <2>2. n = root[t] => parent[n] = Nil
      BY <1>4, <2>1
    <2>3. ASSUME n # root[t]
          PROVE  parent[n] \in Content(t)
      <3>1. parent[n] # Nil
        BY <1>1, <2>1, <2>3 DEF Shape, Tied
      <3>2. parent[n] \in L /\ \E d \in Dirs : child[parent[n]][d] = n
        BY <1>1, <2>1, <3>1 DEF Shape, Tied
      <3>3. Kin(n, parent[n])
        BY <1>1, <2>1, <3>2 DEF Shape, Tied
      <3>4. QED
        BY <1>3, <2>1, <3>2, <3>3 DEF Kin
    <2>4. child[n]["left"] # child[n]["right"] \/ child[n]["left"] = Nil
      BY <1>1, <2>1, Links DEF Dirs
    <2>5. \A d \in Dirs : child[n][d] # Nil =>
            child[n][d] \in Content(t) /\ parent[child[n][d]] = n
      BY <1>1, <1>3, <2>1 DEF Shape, Tied, Kin
    <2>6. QED
      BY <2>2, <2>3, <2>4, <2>5
  <1>6. QED
    BY <1>2, <1>4, <1>5 DEF LinksAgree

LEMMA MadeBalanced ==
  ASSUME NEW L, NEW D, NEW h, Good(L, D, h), pc = "idle"
  PROVE  Balanced
  <1>1. /\ Shape(child, parent, root, L, D) /\ Weighed(child, color, L, h, Nil, LackD)
        /\ Colored(child, root, color, L, Nil, Nil) /\ Nil \notin L
    BY Calm, Nodes
  <1>2. \A t \in Trees : Content(t) = {e \in L : TreeOf[e] = t}
    BY <1>1, Contents
  <1>3. ASSUME NEW t \in Trees
        PROVE  Black(root[t])
    BY <1>1 DEF Colored, Black
  <1>4. ASSUME NEW t \in Trees, NEW n \in Content(t)
        PROVE  Height(t)[child[n]["left"]] = Height(t)[child[n]["right"]]
    <2>1. n \in L /\ n # Nil /\ "left" \in Dirs /\ "right" \in Dirs
      BY <1>1, <1>2 DEF Dirs
    <2>2. \A d \in Dirs : child[n][d] \in Content(t) \cup {Nil}
      BY <1>1, <1>2, <1>4, <2>1 DEF Shape, Tied, Kin
    <2>3. \A d \in Dirs : Height(t)[child[n][d]] = h[child[n][d]]
      BY <1>1, <2>2, Heights
    <2>4. \A d \in Dirs : h[child[n][d]] \in Nat
      <3>1. \A m \in Content(t) \cup {Nil} : m \in Node
        BY <1>1, <1>2, Nodes
      <3>2. QED
        BY <1>1, <2>2, <3>1 DEF Weighed
    <2>5. \A d \in Dirs : h[n] = h[child[n][d]] + Weight(color[n])
      <3>1. \A d \in Dirs : h[n] = h[child[n][d]] + 0 + Weight(color[n])
        BY <1>1, <2>1 DEF Weighed, Gap
      <3>2. QED
        BY <2>4, <3>1
    <2>6. Weight(color[n]) \in Nat
      BY DEF Weight
    <2>7. h[child[n]["left"]] = h[child[n]["right"]]
      BY <2>1, <2>4, <2>5, <2>6
    <2>8. QED
      BY <2>1, <2>3, <2>7
  <1>5. ASSUME NEW t \in Trees, NEW n \in Content(t), ~Black(n), NEW d \in Dirs
        PROVE  Black(child[n][d])
    <2>1. n \in L /\ n # Nil
      BY <1>1, <1>2
    <2>2. color[child[n][d]] = "black" \/ child[n][d] = Nil
      BY <1>1, <1>5, <2>1 DEF Colored, Black
    <2>3. QED
      BY <1>1, <2>2 DEF Colored, Black
  <1>6. QED
    BY <1>3, <1>4, <1>5 DEF Balanced

\* lib/rbtree.c: after any sequence of insertions and deletions, whatever the
\* number of elements and of trees that share nil, links and parents agree and
\* the trees are red-black trees.
THEOREM TreesWellFormed == TreeSpec => []WellFormed
  <1>1. TreeInv => WellFormed
    <2> SUFFICES ASSUME TreeInv, pc = "idle"
                 PROVE  LinksAgree /\ Balanced
      BY DEF WellFormed
    <2>1. PICK L \in SUBSET Elems, D \in [Node -> SUBSET Elems], h \in [Node -> Nat] :
            Good(L, D, h)
      BY DEF TreeInv, Made
    <2>2. QED
      BY <2>1, MadeLinked, MadeBalanced
  <1>2. QED
    BY <1>1, TreeInvariant, PTL

\* rbtree_find, rbtree_next and rbtree_prev: whatever is in the trees, a search
\* ends at the first block that holds the address, an iterator at the neighbour.
THEOREM LookupsRight == TreeSpec => []LookupsAgree
  <1>1. TreeInv => LookupsAgree
    <2> DEFINE hits == {e \in Content(op.tree) :
                          IF op.kind = "find" THEN Holds(e, op.addr)
                          ELSE Beyond(op.dir, e, op.elem)}
               toward == IF op.kind = "find" THEN "right" ELSE op.dir
    <2> SUFFICES ASSUME TreeInv, pc = "answer"
                 PROVE  IF hits = {} THEN at = Nil
                        ELSE at \in hits /\ \A e \in hits : e = at \/ Beyond(toward, e, at)
      BY DEF LookupsAgree
    <2>1. PICK L \in SUBSET Elems, D \in [Node -> SUBSET Elems], h \in [Node -> Nat] :
            Good(L, D, h)
      BY DEF TreeInv, Made
    <2>2. Shape(child, parent, root, L, D) /\ Request /\ Looked(L, D) /\ Nil \notin L
      BY <2>1, Nodes DEF Good, Local
    <2>3. op.tree \in Trees /\ op.kind \in {"find", "next"}
      BY <2>2 DEF Request
    <2>4. Content(op.tree) = {e \in L : TreeOf[e] = op.tree}
      BY <2>2, <2>3, Contents
    <2>5. CASE op.kind = "find"
      <3>1. First(L, at, op.tree, op.addr)
        BY <2>2, <2>5 DEF Looked
      <3>2. hits = {e \in L : TreeOf[e] = op.tree /\ Holds(e, op.addr)} /\ toward = "right"
        BY <2>4, <2>5
      <3> HIDE DEF hits, toward
      <3>3. QED
        BY <2>2, <3>1, <3>2 DEF First, In, Beyond, Lt
    <2>6. CASE op.kind = "next"
      <3>1. In(L, op.elem, op.tree) /\ NextTo(L, at, op.elem, op.dir)
        BY <2>2, <2>6 DEF Looked
      <3>2. hits = {e \in L : TreeOf[e] = op.tree /\ Beyond(op.dir, e, op.elem)} /\ toward = op.dir
        BY <2>4, <2>6
      <3> HIDE DEF hits, toward
      <3>3. QED
        BY <2>2, <3>1, <3>2 DEF NextTo, In, Kin
    <2>7. QED
      BY <2>3, <2>5, <2>6
  <1>2. QED
    BY <1>1, TreeInvariant, PTL

(***************************************************************************)
(* A set of blocks per tree                                                *)
(***************************************************************************)

\* What the refinement maps to the variable of BlockIndex.
Blocks == [t \in Trees |-> Content(t) \cup {e \in Moving : TreeOf[e] = t}]

ByTree(S) == [t \in Trees |-> {e \in S : TreeOf[e] = t}]

LEMMA BlocksByTree ==
  ASSUME NEW L
  PROVE  /\ Made(L) => Blocks = ByTree(L \cup Moving) /\ Moving \subseteq Elems
         /\ Made(L)' => Blocks' = ByTree(L \cup Moving')
  <1>1. ASSUME Made(L)
        PROVE  Blocks = ByTree(L \cup Moving) /\ Moving \subseteq Elems
    <2>1. PICK D \in [Node -> SUBSET Elems], h \in [Node -> Nat] : Good(L, D, h)
      BY <1>1 DEF Made
    <2>2. \A t \in Trees : Content(t) = {e \in L : TreeOf[e] = t}
      BY <2>1, Contents DEF Good
    <2>3. Moving \subseteq Elems
      BY <2>1 DEF Good, Local, Removed, Beside, Moving
    <2>4. QED
      BY <2>2, <2>3 DEF Blocks, ByTree
  <1>2. ASSUME Made(L)'
        PROVE  Blocks' = ByTree(L \cup Moving')
    <2>1. PICK D \in [Node -> SUBSET Elems], h \in [Node -> Nat] : Good(L, D, h)'
      BY <1>2 DEF Made
    <2>2. Shape(child', parent', root', L, D)
      BY <2>1 DEF Good
    <2>3. \A t \in Trees : Content(t)' = {e \in L : TreeOf[e] = t}
      BY <2>2, ContentsAfter
    <2>4. Blocks' = [t \in Trees |-> Content(t)' \cup {e \in Moving' : TreeOf[e] = t}]
      BY DEF Blocks
    <2> DEFINE M == Moving'
    <2>5. Blocks' = [t \in Trees |-> {e \in L : TreeOf[e] = t} \cup {e \in M : TreeOf[e] = t}]
      BY <2>3, <2>4
    <2> HIDE DEF M
    <2>6. Blocks' = ByTree(L \cup M)
      BY <2>5 DEF ByTree
    <2>7. QED
      BY <2>6 DEF M
  <1>3. QED
    BY <1>1, <1>2

LEMMA EffectOnBlocks ==
  ASSUME NEW S \in SUBSET Elems, NEW T, Effect(S, T), NEW a, NEW b, a = ByTree(S), b = ByTree(T)
  PROVE  \/ b = a
         \/ \E e \in Elems : /\ e \notin a[TreeOf[e]]
                             /\ \A f \in a[TreeOf[e]] : ~Holds(f, Key[e].lo)
                             /\ b = [a EXCEPT ![TreeOf[e]] = @ \cup {e}]
         \/ \E e \in Elems : e \in a[TreeOf[e]] /\ b = [a EXCEPT ![TreeOf[e]] = @ \ {e}]
  <1>1. \A e \in Elems : TreeOf[e] \in Trees
    BY TreesAssumption
  <1>2. \A t \in Trees : a[t] = {e \in S : TreeOf[e] = t}
    BY DEF ByTree
  <1>3. ASSUME NEW e \in Elems, Free(S, e), T = S \cup {e}
        PROVE  /\ e \notin a[TreeOf[e]] /\ \A f \in a[TreeOf[e]] : ~Holds(f, Key[e].lo)
               /\ b = [a EXCEPT ![TreeOf[e]] = @ \cup {e}]
    <2>1. e \notin a[TreeOf[e]] /\ \A f \in a[TreeOf[e]] : ~Holds(f, Key[e].lo)
      BY <1>1, <1>2, <1>3 DEF Free, Kin
    <2>2. \A t \in Trees : {f \in T : TreeOf[f] = t}
                           = IF t = TreeOf[e] THEN a[t] \cup {e} ELSE a[t]
      BY <1>2, <1>3
    <2>3. b = [t \in Trees |-> IF t = TreeOf[e] THEN a[t] \cup {e} ELSE a[t]]
      BY <2>2 DEF ByTree
    <2>4. b = [a EXCEPT ![TreeOf[e]] = @ \cup {e}]
      BY <1>1, <2>3 DEF ByTree
    <2>5. QED
      BY <2>1, <2>4
  <1>4. ASSUME NEW e \in S, T = S \ {e}
        PROVE  e \in a[TreeOf[e]] /\ b = [a EXCEPT ![TreeOf[e]] = @ \ {e}]
    <2>1. e \in a[TreeOf[e]]
      BY <1>1, <1>2
    <2>2. \A t \in Trees : {f \in T : TreeOf[f] = t}
                           = IF t = TreeOf[e] THEN a[t] \ {e} ELSE a[t]
      BY <1>2, <1>4
    <2>3. b = [t \in Trees |-> IF t = TreeOf[e] THEN a[t] \ {e} ELSE a[t]]
      BY <2>2 DEF ByTree
    <2>4. b = [a EXCEPT ![TreeOf[e]] = @ \ {e}]
      BY <1>1, <2>3 DEF ByTree
    <2>5. QED
      BY <2>1, <2>4
  <1>5. QED
    BY <1>3, <1>4 DEF Effect

\* BlockIndex: for any number of blocks a search tree is a set: only the call of
\* rbtree_insert adds its element, only that of rbtree_delete takes its own out,
\* and no step of either, none of their rotations and no search does anything
\* else to what any tree holds.
THEOREM TreesAreSets == TreeSpec => ImplementsIndex
  <1>1. TreeInit => Index!Init
    <2> SUFFICES ASSUME TreeInit
                 PROVE  Index!Init
      OBVIOUS
    <2>1. Blocks = ByTree({} \cup Moving)
      BY InitMade, BlocksByTree
    <2>2. Moving = {}
      BY NoneMoving DEF TreeInit
    <2>3. Blocks = [t \in Trees |-> {}]
      BY <2>1, <2>2 DEF ByTree
    <2>4. QED
      BY <2>3 DEF Index!Init, Blocks
  <1>2. TreeInv /\ [TreeNext]_treeVars => [Index!Next]_Blocks
    <2> SUFFICES ASSUME TreeInv, [TreeNext]_treeVars
                 PROVE  Index!Next \/ Blocks' = Blocks
      OBVIOUS
    <2>1. PICK L \in SUBSET Elems : Made(L)
      BY DEF TreeInv
    <2>2. PICK M \in SUBSET Elems : Made(M)' /\ Effect(L \cup Moving, M \cup Moving')
      BY <2>1, NextStepTo DEF StepTo
    <2>3. /\ Blocks = ByTree(L \cup Moving) /\ Moving \subseteq Elems
          /\ Blocks' = ByTree(M \cup Moving')
      BY <2>1, <2>2, BlocksByTree
    <2>4. \/ Blocks' = Blocks
          \/ \E e \in Elems : /\ e \notin Blocks[TreeOf[e]]
                              /\ \A f \in Blocks[TreeOf[e]] : ~Holds(f, Key[e].lo)
                              /\ Blocks' = [Blocks EXCEPT ![TreeOf[e]] = @ \cup {e}]
          \/ \E e \in Elems : /\ e \in Blocks[TreeOf[e]]
                              /\ Blocks' = [Blocks EXCEPT ![TreeOf[e]] = @ \ {e}]
      <3> DEFINE S == L \cup Moving
                 T == M \cup Moving'
      <3>1. S \in SUBSET Elems /\ Effect(S, T) /\ Blocks = ByTree(S) /\ Blocks' = ByTree(T)
        BY <2>2, <2>3
      <3> HIDE DEF S, T
      <3>2. QED
        BY <3>1, EffectOnBlocks
    <2>5. ASSUME NEW e \in Elems, e \notin Blocks[TreeOf[e]],
                 \A f \in Blocks[TreeOf[e]] : ~Holds(f, Key[e].lo),
                 Blocks' = [Blocks EXCEPT ![TreeOf[e]] = @ \cup {e}]
          PROVE  Index!Next
      <3>1. Index!Insert(e)
        BY <2>5 DEF Index!Insert, Index!Holds, Holds, Blocks
      <3>2. QED
        BY <3>1 DEF Index!Next
    <2>6. ASSUME NEW e \in Elems, e \in Blocks[TreeOf[e]],
                 Blocks' = [Blocks EXCEPT ![TreeOf[e]] = @ \ {e}]
          PROVE  Index!Next
      <3>1. Index!Delete(e)
        BY <2>6 DEF Index!Delete, Blocks
      <3>2. QED
        BY <3>1 DEF Index!Next
    <2>7. QED
      BY <2>4, <2>5, <2>6
  <1>3. TreeSpec => Index!Init /\ [][Index!Next]_Blocks
    BY <1>1, <1>2, TreeInvariant, PTL DEF TreeSpec
  <1>4. QED
    BY <1>3, PTL DEF ImplementsIndex, Index!Spec, Blocks

=============================================================================
