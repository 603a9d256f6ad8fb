---------------------------- MODULE ModuleProofs ----------------------------
(***************************************************************************)
(* The module from insmod to rmmod (Lifecycle), the stacks of the threads, *)
(* which are cleaned when it stops (StopBT), and the exception table that  *)
(* it is given when it starts (ExTable).                                   *)
(*                                                                         *)
(* For every number of processors and chunks and whatever allocation or    *)
(* thread of launch fails: a processor on the shadow table has all that    *)
(* translated code needs, until terminate cannot create one of its         *)
(* threads; stop_bt frees what init_bt allocated, and no part of the table *)
(* of branch targets is left behind, also after that.                      *)
(*                                                                         *)
(* For any number of threads and frames, and for every code of calls that  *)
(* ends a block with the call unless it is edge code: a thread that sleeps *)
(* while its stack is walked and since returns to the guest's addresses.   *)
(* The stack of a thread that the walk has not come to has, for each of    *)
(* its calls, what that call pushed or the address of the guest behind it. *)
(* That of a thread which does not sleep while it is walked may be written *)
(* with the address that another call left in the same place, and nothing  *)
(* is said of it: the walk does not come to a thread twice.                *)
(*                                                                         *)
(* For tables of any length, any number of chunks and every order in which *)
(* instructions are translated, a fault in translated code reaches the     *)
(* fixup of its instruction: bisection finds a key in any ascending table, *)
(* that of the guest is ascending because it is sorted, and that of the    *)
(* module because blocks are laid out in ascending chunks one behind the   *)
(* other.                                                                  *)
(***************************************************************************)
EXTENDS Lifecycle, StopBT, ExTable, FiniteSetTheorems, WellFoundedInduction, TLAPS

(***************************************************************************)
(* What is held while the module is used                                   *)
(***************************************************************************)

\* All that init_bt allocates is there.
AllHeld == \A i \in DOMAIN Ladder : Ladder[i] \in held
Complete == module.in /\ module.native /\ module.inited /\ AllHeld
NoShadow == \A c \in Cpu : idt[c] # "shadow"

LifeTypes ==
  /\ at \in Nat /\ node \in BOOLEAN
  /\ module \in [in : BOOLEAN, inited : BOOLEAN, extable_inited : BOOLEAN, native : BOOLEAN]
  /\ thread \in [Cpu -> {"none", "TRANSLATE_IDT", "LOAD_NATIVE_IDT"}]
  /\ idt \in [Cpu -> {"native", "shadow", "none"}]

\* Nothing is set in a module that is not inserted, and there is a device
\* while it is; extable runs after insmod.
Inserted ==
  module.extable_inited \/ module.inited \/ module.in \/ shell = "extable" => module.in /\ node

\* init_bt runs while no processor is on the shadow table, and holds what it
\* has come past.
Initialising ==
  shell = "init" => /\ module.inited /\ module.in /\ NoShadow
                    /\ \A i \in DOMAIN Ladder : i < at => Ladder[i] \in held

\* launch starts threads when all of init_bt is done.
Starting == shell = "start" => Complete

\* terminate has come to a processor when it is off the shadow table or its
\* thread is about to take it off; stop_bt and rmmod find none on it.
TakingBack ==
  /\ shell = "restore" => \A c \in Cpu : c < at => idt[c] # "shadow" \/ thread[c] = "LOAD_NATIVE_IDT"
  /\ shell \in {"stop", "rmmod"} => NoShadow

\* A tool's threads run while the tool does.
ThreadsOf(tool, ioctl) == \A c \in Cpu : thread[c] = ioctl => shell = tool
Launching == ThreadsOf("start", "TRANSLATE_IDT") /\ ThreadsOf("restore", "LOAD_NATIVE_IDT")

Backed == \A c \in Cpu : idt[c] = "shadow" => Complete

Good == LifeTypes /\ Inserted /\ Initialising /\ Starting /\ TakingBack /\ Launching /\ Backed

\* Once terminate has left its loop nothing is claimed, and nothing undoes that.
IInv == left \/ Good

----------------------------------------------------------------------------
\* What the pieces are, to see that Ladder and StopOrder are sequences.
Pieces == {<<"bt", 0>>, <<"v", 0>>, <<"buckets", 0>>, <<"tpage", 0>>, <<"extable", 0>>}
          \cup {Area(i) : i \in Int} \cup {<<"chunk", i>> : i \in Int}
          \cup {<<"mon_stack", i>> : i \in Int}

Elems(s) == {s[i] : i \in 1 .. Len(s)}
Once(s)  == \A i, j \in 1 .. Len(s) : s[i] = s[j] => i = j

\* The two sequences have the same elements, each of them once, and the areas
\* of jumptable1 are the third to the sixth of Ladder.

LEMMA Concat ==
  ASSUME NEW S, NEW s \in Seq(S), NEW t \in Seq(S)
  PROVE  /\ s \o t \in Seq(S) /\ Len(s \o t) = Len(s) + Len(t)
         /\ \A i \in 1 .. Len(s) : (s \o t)[i] = s[i]
         /\ \A i \in 1 .. Len(t) : (s \o t)[Len(s) + i] = t[i]
  OBVIOUS

\* An index of a concatenation is one of its parts.
LEMMA ConcatIndex ==
  ASSUME NEW S, NEW s \in Seq(S), NEW t \in Seq(S),
         NEW i \in 1 .. Len(s \o t)
  PROVE  \/ i \in 1 .. Len(s) /\ (s \o t)[i] = s[i]
         \/ /\ i - Len(s) \in 1 .. Len(t) /\ i > Len(s)
            /\ (s \o t)[i] = t[i - Len(s)]
  <1>1. Len(s) \in Nat /\ Len(t) \in Nat /\ i \in 1 .. Len(s) + Len(t)
    BY Concat
  <1>2. CASE i <= Len(s)
    BY <1>1, <1>2, Concat
  <1>3. CASE i > Len(s)
    <2>1. i - Len(s) \in 1 .. Len(t) /\ Len(s) + (i - Len(s)) = i
      BY <1>1, <1>3
    <2>2. (s \o t)[Len(s) + (i - Len(s))] = t[i - Len(s)]
      BY <2>1, Concat
    <2>3. QED
      BY <1>3, <2>1, <2>2
  <1>4. QED
    BY <1>1, <1>2, <1>3

LEMMA ConcatElems ==
  ASSUME NEW S, NEW s \in Seq(S), NEW t \in Seq(S)
  PROVE  Elems(s \o t) = Elems(s) \cup Elems(t)
  <1>1. ASSUME NEW i \in 1 .. Len(s \o t)
        PROVE  (s \o t)[i] \in Elems(s) \cup Elems(t)
    BY ConcatIndex DEF Elems
  <1>2. ASSUME NEW i \in 1 .. Len(s) PROVE s[i] \in Elems(s \o t)
    <2>1. i \in 1 .. Len(s \o t) /\ (s \o t)[i] = s[i]
      BY Concat
    <2>2. QED
      BY <2>1 DEF Elems
  <1>3. ASSUME NEW i \in 1 .. Len(t) PROVE t[i] \in Elems(s \o t)
    <2>1. Len(s) + i \in 1 .. Len(s \o t) /\ (s \o t)[Len(s) + i] = t[i]
      BY Concat
    <2>2. QED
      BY <2>1 DEF Elems
  <1>4. QED
    BY <1>1, <1>2, <1>3 DEF Elems

LEMMA ConcatOnce ==
  ASSUME NEW S, NEW s \in Seq(S), NEW t \in Seq(S), Once(s), Once(t),
         Elems(s) \cap Elems(t) = {}
  PROVE  Once(s \o t)
  <1> SUFFICES ASSUME NEW i \in 1 .. Len(s \o t), NEW j \in 1 .. Len(s \o t),
                      (s \o t)[i] = (s \o t)[j]
               PROVE  i = j
    BY DEF Once
  <1>1. Len(s) \in Nat /\ Len(t) \in Nat /\ Len(s \o t) = Len(s) + Len(t)
    BY Concat
  <1>2. CASE i \in 1 .. Len(s) /\ (s \o t)[i] = s[i]
    <2>1. s[i] \in Elems(s)
      BY <1>2 DEF Elems
    <2>2. CASE j \in 1 .. Len(s) /\ (s \o t)[j] = s[j]
      BY <1>2, <2>2 DEF Once
    <2>3. CASE j - Len(s) \in 1 .. Len(t) /\ (s \o t)[j] = t[j - Len(s)]
      BY <1>2, <2>1, <2>3 DEF Elems
    <2>4. QED
      BY <2>2, <2>3, ConcatIndex
  <1>3. CASE i - Len(s) \in 1 .. Len(t) /\ (s \o t)[i] = t[i - Len(s)]
    <2>1. t[i - Len(s)] \in Elems(t)
      BY <1>3 DEF Elems
    <2>2. CASE j \in 1 .. Len(s) /\ (s \o t)[j] = s[j]
      BY <1>3, <2>1, <2>2 DEF Elems
    <2>3. CASE j - Len(s) \in 1 .. Len(t) /\ (s \o t)[j] = t[j - Len(s)]
      <3>1. i - Len(s) = j - Len(s)
        BY <1>3, <2>3 DEF Once
      <3>2. QED
        BY <1>1, <3>1
    <2>4. QED
      BY <2>2, <2>3, ConcatIndex
  <1>4. QED
    BY <1>2, <1>3, ConcatIndex

\* The parts of both sequences.
VmFirst  == <<<<"bt", 0>>, <<"v", 0>>>>
VmLast   == <<<<"v", 0>>, <<"bt", 0>>>>
AreaSeq  == [i \in 1 .. 4 |-> Area(i - 1)]
Index    == <<<<"buckets", 0>>, <<"tpage", 0>>>>
Faults   == <<<<"extable", 0>>>>
Tables   == <<<<"tpage", 0>>, <<"buckets", 0>>, <<"extable", 0>>>>
ChunkSeq == Many("chunk", Chunks)
StackSeq == Many("mon_stack", Cpus)

LEMMA Segments ==
  /\ VmFirst \in Seq(Pieces) /\ VmLast \in Seq(Pieces)
  /\ AreaSeq \in Seq(Pieces) /\ Index \in Seq(Pieces)
  /\ Faults \in Seq(Pieces) /\ Tables \in Seq(Pieces)
  /\ ChunkSeq \in Seq(Pieces) /\ StackSeq \in Seq(Pieces)
  <1>1. ASSUME NEW x \in Pieces, NEW y \in Pieces, NEW z \in Pieces
        PROVE  <<x>> \in Seq(Pieces) /\ <<x, y>> \in Seq(Pieces)
               /\ <<x, y, z>> \in Seq(Pieces)
    OBVIOUS
  <1>2. /\ <<"bt", 0>> \in Pieces /\ <<"v", 0>> \in Pieces
        /\ <<"buckets", 0>> \in Pieces /\ <<"tpage", 0>> \in Pieces
        /\ <<"extable", 0>> \in Pieces
    BY DEF Pieces
  <1>3. AreaSeq \in Seq(Pieces)
    <2>1. \A i \in 1 .. 4 : Area(i - 1) \in Pieces
      BY DEF Pieces
    <2>2. QED
      BY <2>1 DEF AreaSeq
  <1>4. ChunkSeq \in Seq(Pieces)
    <2>1. \A i \in 1 .. Chunks : <<"chunk", i>> \in Pieces
      BY DEF Pieces
    <2>2. QED
      BY <2>1, LifecycleAssumption DEF ChunkSeq, Many
  <1>5. StackSeq \in Seq(Pieces)
    <2>1. \A i \in 1 .. Cpus : <<"mon_stack", i>> \in Pieces
      BY DEF Pieces
    <2>2. QED
      BY <2>1, LifecycleAssumption DEF StackSeq, Many
  <1>6. QED
    BY <1>1, <1>2, <1>3, <1>4, <1>5 DEF VmFirst, VmLast, Index, Faults, Tables

\* What they contain.
LEMMA VmElems ==
  /\ Elems(VmFirst) = {<<"bt", 0>>, <<"v", 0>>}
  /\ Elems(VmLast) = {<<"bt", 0>>, <<"v", 0>>} /\ Once(VmLast)
  <1>1. ASSUME NEW x, NEW y
        PROVE  Elems(<<x, y>>) = {x, y} /\ (x # y => Once(<<x, y>>))
    BY DEF Elems, Once
  <1>2. <<"v", 0>> # <<"bt", 0>>
    OBVIOUS
  <1>3. QED
    BY <1>1, <1>2 DEF VmFirst, VmLast

LEMMA TableElems ==
  /\ Elems(Index) = {<<"buckets", 0>>, <<"tpage", 0>>}
  /\ Elems(Faults) = {<<"extable", 0>>}
  /\ Elems(Tables) = {<<"tpage", 0>>, <<"buckets", 0>>, <<"extable", 0>>}
  /\ Once(Tables)
  <1>1. ASSUME NEW x, NEW y
        PROVE  Elems(<<x>>) = {x} /\ Elems(<<x, y>>) = {x, y}
    BY DEF Elems
  <1>2. ASSUME NEW x, NEW y, NEW z
        PROVE  /\ Elems(<<x, y, z>>) = {x, y, z}
               /\ x # y /\ x # z /\ y # z => Once(<<x, y, z>>)
    BY DEF Elems, Once
  <1>3. /\ <<"tpage", 0>> # <<"buckets", 0>> /\ <<"tpage", 0>> # <<"extable", 0>>
        /\ <<"buckets", 0>> # <<"extable", 0>>
    OBVIOUS
  <1>4. /\ Elems(Index) = {<<"buckets", 0>>, <<"tpage", 0>>}
        /\ Elems(Faults) = {<<"extable", 0>>}
    BY <1>1 DEF Index, Faults
  <1>5. /\ Elems(Tables) = {<<"tpage", 0>>, <<"buckets", 0>>, <<"extable", 0>>}
        /\ Once(Tables)
    BY <1>2, <1>3, Zenon DEF Tables
  <1>6. QED
    BY <1>4, <1>5

LEMMA AreaElems == /\ Len(AreaSeq) = 4 /\ Elems(AreaSeq) = Areas /\ Once(AreaSeq)
                   /\ \A i \in 1 .. 4 : AreaSeq[i] = Area(i - 1)
  <1>1. Len(AreaSeq) = 4 /\ \A i \in 1 .. 4 : AreaSeq[i] = Area(i - 1)
    BY DEF AreaSeq
  <1>2. Elems(AreaSeq) = {Area(i - 1) : i \in 1 .. 4}
    BY <1>1 DEF Elems
  <1>3. {Area(i - 1) : i \in 1 .. 4} = {Area(i) : i \in 0 .. 3}
    <2>1. \A i \in 1 .. 4 : i - 1 \in 0 .. 3
      OBVIOUS
    <2>2. \A i \in 0 .. 3 : i + 1 \in 1 .. 4 /\ (i + 1) - 1 = i
      OBVIOUS
    <2>3. QED
      BY <2>1, <2>2
  <1>4. Once(AreaSeq)
    BY <1>1 DEF Once, Area
  <1>5. QED
    BY <1>1, <1>2, <1>3, <1>4 DEF Areas

LEMMA ManyElems ==
  /\ Elems(ChunkSeq) = {<<"chunk", i>> : i \in 1 .. Chunks} /\ Once(ChunkSeq)
  /\ Elems(StackSeq) = {<<"mon_stack", i>> : i \in 1 .. Cpus} /\ Once(StackSeq)
  <1>1. ASSUME NEW name, NEW n \in Nat
        PROVE  /\ Elems(Many(name, n)) = {<<name, i>> : i \in 1 .. n}
               /\ Once(Many(name, n))
    BY DEF Elems, Once, Many
  <1>2. Chunks \in Nat /\ Cpus \in Nat
    BY LifecycleAssumption
  <1>3. QED
    BY <1>1, <1>2 DEF ChunkSeq, StackSeq

\* The names of the pieces differ.
LEMMA Apart ==
  LET vm     == {<<"bt", 0>>, <<"v", 0>>}
      tables == {<<"tpage", 0>>, <<"buckets", 0>>, <<"extable", 0>>}
      pieces == {<<"chunk", i>> : i \in 1 .. Chunks}
      stacks == {<<"mon_stack", i>> : i \in 1 .. Cpus}
  IN  /\ Areas \cap vm = {} /\ Areas \cap tables = {}
      /\ Areas \cap pieces = {} /\ Areas \cap stacks = {}
      /\ vm \cap tables = {} /\ vm \cap pieces = {} /\ vm \cap stacks = {}
      /\ tables \cap pieces = {} /\ tables \cap stacks = {}
      /\ pieces \cap stacks = {}
      /\ UserTable \notin vm \cup tables \cup pieces \cup stacks \cup Areas
  BY DEF Areas, Area, UserTable

LEMMA PieceConcat ==
  ASSUME NEW s \in Seq(Pieces), NEW t \in Seq(Pieces)
  PROVE  /\ s \o t \in Seq(Pieces) /\ Elems(s \o t) = Elems(s) \cup Elems(t)
         /\ Once(s) /\ Once(t) /\ Elems(s) \cap Elems(t) = {} => Once(s \o t)
  <1>1. s \o t \in Seq(Pieces)
    OBVIOUS
  <1>2. Elems(s \o t) = Elems(s) \cup Elems(t)
    BY ConcatElems
  <1>3. Once(s) /\ Once(t) /\ Elems(s) \cap Elems(t) = {} => Once(s \o t)
    BY ConcatOnce
  <1>4. QED
    BY <1>1, <1>2, <1>3

LEMMA LadderElems ==
  /\ Ladder \in Seq(Pieces)
  /\ Elems(Ladder) = Elems(VmFirst) \cup Elems(AreaSeq) \cup Elems(Index)
       \cup Elems(ChunkSeq) \cup Elems(Faults) \cup Elems(StackSeq)
  <1> DEFINE l1 == VmFirst \o AreaSeq
             l2 == l1 \o Index
             l3 == l2 \o ChunkSeq
             l4 == l3 \o Faults
             l5 == l4 \o StackSeq
  <1>1. Ladder = l5
    BY DEF Ladder, VmFirst, AreaSeq, Index, Faults, ChunkSeq, StackSeq
  <1>2. l1 \in Seq(Pieces) /\ Elems(l1) = Elems(VmFirst) \cup Elems(AreaSeq)
    BY Segments, PieceConcat
  <1> HIDE DEF l1
  <1>3. l2 \in Seq(Pieces) /\ Elems(l2) = Elems(l1) \cup Elems(Index)
    BY <1>2, Segments, PieceConcat
  <1> HIDE DEF l2
  <1>4. l3 \in Seq(Pieces) /\ Elems(l3) = Elems(l2) \cup Elems(ChunkSeq)
    BY <1>3, Segments, PieceConcat
  <1> HIDE DEF l3
  <1>5. l4 \in Seq(Pieces) /\ Elems(l4) = Elems(l3) \cup Elems(Faults)
    BY <1>4, Segments, PieceConcat
  <1> HIDE DEF l4
  <1>6. l5 \in Seq(Pieces) /\ Elems(l5) = Elems(l4) \cup Elems(StackSeq)
    BY <1>5, Segments, PieceConcat
  <1> HIDE DEF l5
  <1>7. QED
    BY <1>1, <1>2, <1>3, <1>4, <1>5, <1>6

LEMMA StopOrderElems ==
  /\ StopOrder \in Seq(Pieces) /\ Once(StopOrder)
  /\ Elems(StopOrder) = Elems(StackSeq) \cup Elems(ChunkSeq) \cup Elems(Tables)
       \cup Elems(AreaSeq) \cup Elems(VmLast)
  <1> DEFINE s1 == StackSeq \o ChunkSeq
             s2 == s1 \o Tables
             s3 == s2 \o AreaSeq
             s4 == s3 \o VmLast
  <1>1. StopOrder = s4
    BY DEF StopOrder, VmLast, AreaSeq, Tables, ChunkSeq, StackSeq
  <1>2. /\ Elems(StackSeq) \cap Elems(ChunkSeq) = {}
        /\ (Elems(StackSeq) \cup Elems(ChunkSeq)) \cap Elems(Tables) = {}
        /\ (Elems(StackSeq) \cup Elems(ChunkSeq) \cup Elems(Tables))
             \cap Elems(AreaSeq) = {}
        /\ (Elems(StackSeq) \cup Elems(ChunkSeq) \cup Elems(Tables)
             \cup Elems(AreaSeq)) \cap Elems(VmLast) = {}
    BY ManyElems, TableElems, AreaElems, VmElems, Apart
  <1>3. /\ s1 \in Seq(Pieces) /\ Elems(s1) = Elems(StackSeq) \cup Elems(ChunkSeq)
        /\ Once(s1)
    BY <1>2, Segments, ManyElems, PieceConcat
  <1> HIDE DEF s1
  <1>4. /\ s2 \in Seq(Pieces) /\ Elems(s2) = Elems(s1) \cup Elems(Tables)
        /\ Once(s2)
    BY <1>2, <1>3, Segments, TableElems, PieceConcat
  <1> HIDE DEF s2
  <1>5. /\ s3 \in Seq(Pieces) /\ Elems(s3) = Elems(s2) \cup Elems(AreaSeq)
        /\ Once(s3)
    BY <1>2, <1>3, <1>4, Segments, AreaElems, PieceConcat
  <1> HIDE DEF s3
  <1>6. /\ s4 \in Seq(Pieces) /\ Elems(s4) = Elems(s3) \cup Elems(VmLast)
        /\ Once(s4)
    BY <1>2, <1>3, <1>4, <1>5, Segments, VmElems, PieceConcat
  <1> HIDE DEF s4
  <1>7. QED
    BY <1>1, <1>3, <1>4, <1>5, <1>6

\* stop_bt goes over what init_bt has gone over.
LEMMA SameElems ==
  /\ Elems(StopOrder) = Elems(Ladder)
  /\ UserTable \notin Elems(Ladder) /\ Areas \subseteq Elems(Ladder)
  <1>1. Elems(Tables) = Elems(Index) \cup Elems(Faults)
    BY TableElems
  <1>2. Elems(StopOrder) = Elems(Ladder)
    BY <1>1, LadderElems, StopOrderElems, VmElems
  <1>3. UserTable \notin Elems(Ladder) /\ Areas \subseteq Elems(Ladder)
    BY LadderElems, VmElems, TableElems, ManyElems, AreaElems, Apart
  <1>4. QED
    BY <1>2, <1>3

\* Where the areas are in a sequence that begins as Ladder does.
AreasAt(s) ==
  \A i \in 1 .. Len(s) : IF i \in 3 .. 6 THEN s[i] = Area(i - 3)
                         ELSE s[i] \notin Areas

LEMMA AreasAtConcat ==
  ASSUME NEW s \in Seq(Pieces), NEW t \in Seq(Pieces), Len(s) >= 6,
         AreasAt(s), Elems(t) \cap Areas = {}
  PROVE  s \o t \in Seq(Pieces) /\ Len(s \o t) >= 6 /\ AreasAt(s \o t)
  <1>1. s \o t \in Seq(Pieces) /\ Len(s \o t) = Len(s) + Len(t)
        /\ Len(s) \in Nat /\ Len(t) \in Nat
    OBVIOUS
  <1>2. ASSUME NEW i \in 1 .. Len(s \o t)
        PROVE  IF i \in 3 .. 6 THEN (s \o t)[i] = Area(i - 3)
               ELSE (s \o t)[i] \notin Areas
    <2>1. CASE i \in 1 .. Len(s) /\ (s \o t)[i] = s[i]
      BY <2>1 DEF AreasAt
    <2>2. CASE /\ i - Len(s) \in 1 .. Len(t) /\ i > Len(s)
               /\ (s \o t)[i] = t[i - Len(s)]
      <3>1. i \notin 3 .. 6
        BY <1>1, <2>2
      <3>2. t[i - Len(s)] \in Elems(t)
        BY <2>2 DEF Elems
      <3>3. QED
        BY <2>2, <3>1, <3>2
    <2>3. QED
      BY <2>1, <2>2, ConcatIndex
  <1>3. QED
    BY <1>1, <1>2 DEF AreasAt

LEMMA AreaPlaces == AreasAt(Ladder) /\ Len(Ladder) >= 6
  <1> DEFINE l1 == VmFirst \o AreaSeq
             l2 == l1 \o Index
             l3 == l2 \o ChunkSeq
             l4 == l3 \o Faults
             l5 == l4 \o StackSeq
  <1>1. Ladder = l5
    BY DEF Ladder, VmFirst, AreaSeq, Index, Faults, ChunkSeq, StackSeq
  <1>2. l1 \in Seq(Pieces) /\ Len(l1) >= 6 /\ AreasAt(l1)
    <2>1. Len(VmFirst) = 2 /\ Len(AreaSeq) = 4 /\ l1 \in Seq(Pieces)
          /\ Len(l1) = 6
      <3>1. Len(VmFirst) = 2
        BY DEF VmFirst
      <3>2. l1 \in Seq(Pieces) /\ Len(l1) = Len(VmFirst) + Len(AreaSeq)
        BY Segments, Concat
      <3>3. QED
        BY <3>1, <3>2, AreaElems
    <2>2. ASSUME NEW i \in 1 .. 6
          PROVE  IF i \in 3 .. 6 THEN l1[i] = Area(i - 3) ELSE l1[i] \notin Areas
      <3>1. CASE i \in 1 .. Len(VmFirst) /\ l1[i] = VmFirst[i]
        <4>1. VmFirst[i] \in Elems(VmFirst)
          BY <3>1 DEF Elems
        <4>2. QED
          BY <2>1, <3>1, <4>1, VmElems, Apart
      <3>2. CASE /\ i - Len(VmFirst) \in 1 .. Len(AreaSeq) /\ i > Len(VmFirst)
                 /\ l1[i] = AreaSeq[i - Len(VmFirst)]
        <4>1. i - 2 \in 1 .. 4 /\ (i - 2) - 1 = i - 3 /\ i \in 3 .. 6
          BY <2>1, <3>2
        <4>2. AreaSeq[i - 2] = Area((i - 2) - 1)
          BY <4>1, AreaElems
        <4>3. QED
          BY <2>1, <3>2, <4>1, <4>2
      <3>3. QED
        BY <2>1, <3>1, <3>2, Segments, ConcatIndex, ZenonT(60)
    <2>3. QED
      BY <2>1, <2>2 DEF AreasAt
  <1> HIDE DEF l1
  <1>3. l2 \in Seq(Pieces) /\ Len(l2) >= 6 /\ AreasAt(l2)
    <2>1. Elems(Index) \cap Areas = {}
      BY TableElems, Apart
    <2>2. QED
      BY <1>2, <2>1, Segments, AreasAtConcat
  <1> HIDE DEF l2
  <1>4. l3 \in Seq(Pieces) /\ Len(l3) >= 6 /\ AreasAt(l3)
    <2>1. Elems(ChunkSeq) \cap Areas = {}
      BY ManyElems, Apart
    <2>2. QED
      BY <1>3, <2>1, Segments, AreasAtConcat
  <1> HIDE DEF l3
  <1>5. l4 \in Seq(Pieces) /\ Len(l4) >= 6 /\ AreasAt(l4)
    <2>1. Elems(Faults) \cap Areas = {}
      BY TableElems, Apart
    <2>2. QED
      BY <1>4, <2>1, Segments, AreasAtConcat
  <1> HIDE DEF l4
  <1>6. l5 \in Seq(Pieces) /\ Len(l5) >= 6 /\ AreasAt(l5)
    <2>1. Elems(StackSeq) \cap Areas = {}
      BY ManyElems, Apart
    <2>2. QED
      BY <1>5, <2>1, Segments, AreasAtConcat
  <1>7. QED
    BY <1>1, <1>6

\* However far init_bt has come, it holds no area, or those before the one it
\* comes to, or all.
LEMMA AreasBelow ==
  ASSUME NEW k \in 1 .. Len(Ladder) + 1
  PROVE  LET below == {Ladder[i] : i \in 1 .. k - 1}
         IN  /\ k <= 3 => Areas \cap below = {}
             /\ k \in 3 .. 6 => below \cap Areas = Unwound(k - 3)
             /\ k > 6 => Areas \subseteq below
  <1> DEFINE below == {Ladder[i] : i \in 1 .. k - 1}
  <1>1. /\ \A i \in 1 .. Len(Ladder) : i \notin 3 .. 6 => Ladder[i] \notin Areas
        /\ \A i \in 3 .. 6 : Ladder[i] = Area(i - 3)
        /\ Len(Ladder) \in Nat /\ Len(Ladder) >= 6
    BY AreaPlaces, LadderElems DEF AreasAt
  <1>2. ASSUME k <= 3 PROVE Areas \cap below = {}
    <2>1. \A i \in 1 .. k - 1 : i \in 1 .. Len(Ladder) /\ i \notin 3 .. 6
      BY <1>1, <1>2
    <2>2. QED
      BY <1>1, <2>1
  <1>3. ASSUME k \in 3 .. 6 PROVE below \cap Areas = Unwound(k - 3)
    <2>1. ASSUME NEW i \in 1 .. k - 1, Ladder[i] \in Areas
          PROVE  Ladder[i] \in Unwound(k - 3)
      <3>1. i \in 1 .. Len(Ladder)
        BY <1>1
      <3>2. i \in 3 .. 6
        BY <1>1, <2>1, <3>1
      <3>3. i - 3 \in 0 .. (k - 3) - 1 /\ Ladder[i] = Area(i - 3)
        BY <1>1, <1>3, <3>2
      <3>4. QED
        BY <3>3 DEF Unwound
    <2>2. ASSUME NEW j \in 0 .. (k - 3) - 1
          PROVE  Area(j) \in below /\ Area(j) \in Areas
      <3>1. j + 3 \in 3 .. 6 /\ j + 3 \in 1 .. k - 1 /\ (j + 3) - 3 = j
            /\ j \in 0 .. 3
        BY <1>3
      <3>2. Ladder[j + 3] = Area(j)
        BY <1>1, <3>1
      <3>3. QED
        BY <3>1, <3>2 DEF Areas
    <2>3. QED
      BY <2>1, <2>2 DEF Unwound
  <1>4. ASSUME k > 6 PROVE Areas \subseteq below
    <2>1. ASSUME NEW j \in 0 .. 3 PROVE Area(j) \in below
      <3>1. j + 3 \in 3 .. 6 /\ j + 3 \in 1 .. k - 1 /\ (j + 3) - 3 = j
        BY <1>4
      <3>2. Ladder[j + 3] = Area(j)
        BY <1>1, <3>1
      <3>3. QED
        BY <3>1, <3>2
    <2>2. QED
      BY <2>1 DEF Areas
  <1>5. QED
    BY <1>2, <1>3, <1>4

LEMMA LadderIsSequence == DOMAIN Ladder = 1 .. Len(Ladder) /\ Len(Ladder) \in Nat
  BY LadderElems

----------------------------------------------------------------------------
LEMMA InitGood == Init => Good
  <1> SUFFICES ASSUME Init PROVE Good
    OBVIOUS
  <1>1. LifeTypes /\ ~module.in /\ ~module.inited /\ ~module.extable_inited
    BY DEF Init, Out, LifeTypes
  <1>2. QED
    BY <1>1 DEF Init, Good, Inserted, Initialising, Starting, TakingBack, NoShadow,
         Launching, ThreadsOf, Backed

----------------------------------------------------------------------------
\* ./load

LEMMA InsmodStep == Good /\ Insmod => Good'
  BY DEF Insmod, Goes, Out, Good, LifeTypes, Inserted, Initialising, Starting, TakingBack, NoShadow,
         Launching, ThreadsOf, Backed, Complete, AllHeld

LEMMA LoadExtableStep == Good /\ InitExtable => Good'
  <1> SUFFICES ASSUME Good, InitExtable PROVE Good'
    OBVIOUS
  <1>1. LifeTypes' /\ module'.inited = module.inited /\ module'.in = module.in /\ module'.native = module.native
    BY DEF InitExtable, Goes, Good, LifeTypes
  <1>2. Inserted'
    BY <1>1 DEF InitExtable, Goes, Good, LifeTypes, Inserted
  <1>3. (Initialising /\ Starting /\ TakingBack /\ Launching)'
    BY <1>1 DEF InitExtable, Goes, Good, LifeTypes, Inserted, Initialising, Starting, TakingBack, NoShadow,
         Launching, ThreadsOf, Backed, Complete, AllHeld
  <1>4. Backed'
    BY <1>1 DEF InitExtable, Goes, Good, LifeTypes, Inserted, Initialising, Starting, TakingBack, NoShadow,
         Launching, ThreadsOf, Backed, Complete, AllHeld
  <1>5. QED
    BY <1>1, <1>2, <1>3, <1>4 DEF Good

LEMMA RefusedStep == Good /\ Refused => Good'
  BY DEF Refused, Goes, Good, LifeTypes, Inserted, Initialising, Starting, TakingBack, NoShadow,
         Launching, ThreadsOf, Backed, Complete, AllHeld

\* Nothing is on the shadow table while the module is not initialised.
LEMMA InitBtStep == Good /\ InitBt => Good'
  <1> SUFFICES ASSUME Good, InitBt PROVE Good'
    OBVIOUS
  <1>1. LifeTypes' /\ module'.inited /\ module'.in = module.in
    BY DEF InitBt, Goes, Good, LifeTypes
  <1>2. Inserted'
    BY <1>1 DEF InitBt, Goes, Good, LifeTypes, Inserted
  <1>3. (Initialising /\ Starting /\ TakingBack /\ Launching)'
    BY <1>1, LadderIsSequence DEF InitBt, Goes, Good, LifeTypes, Inserted, Initialising, Starting, TakingBack, NoShadow,
         Launching, ThreadsOf, Backed, Complete, AllHeld
  <1>4. Backed'
    BY <1>1, LadderIsSequence DEF InitBt, Goes, Good, LifeTypes, Inserted, Initialising, Starting, TakingBack, NoShadow,
         Launching, ThreadsOf, Backed, Complete, AllHeld
  <1>5. QED
    BY <1>1, <1>2, <1>3, <1>4 DEF Good

LEMMA AllocateStep == Good /\ Allocate => Good'
  BY LadderIsSequence
     DEF Allocate, Goes, Good, LifeTypes, Inserted, Initialising, Starting, TakingBack, NoShadow,
         Launching, ThreadsOf, Backed, Complete, AllHeld

LEMMA AllocateFailsStep == Good /\ AllocateFails => Good'
  BY DEF AllocateFails, Goes, Good, LifeTypes, Inserted, Initialising, Starting, TakingBack, NoShadow,
         Launching, ThreadsOf, Backed, Complete, AllHeld

LEMMA ShadowMadeStep == Good /\ ShadowMade => Good'
  <1> SUFFICES ASSUME Good, ShadowMade PROVE Good'
    OBVIOUS
  <1>1. LifeTypes' /\ module'.inited = module.inited /\ module'.in = module.in /\ module'.native
    BY DEF ShadowMade, Goes, Good, LifeTypes
  <1>2. Inserted'
    BY <1>1 DEF ShadowMade, Goes, Good, LifeTypes, Inserted
  <1>3. (Initialising /\ Starting /\ TakingBack /\ Launching)'
    BY <1>1, LadderIsSequence DEF ShadowMade, Goes, Good, LifeTypes, Inserted, Initialising, Starting, TakingBack, NoShadow,
         Launching, ThreadsOf, Backed, Complete, AllHeld
  <1>4. Backed'
    BY <1>1, LadderIsSequence DEF ShadowMade, Goes, Good, LifeTypes, Inserted, Initialising, Starting, TakingBack, NoShadow,
         Launching, ThreadsOf, Backed, Complete, AllHeld
  <1>5. QED
    BY <1>1, <1>2, <1>3, <1>4 DEF Good

LEMMA StartThreadStep == Good /\ StartThread => Good'
  BY DEF StartThread, Create, Cpu, Good, LifeTypes, Inserted, Initialising, Starting, TakingBack,
         NoShadow, Launching, ThreadsOf, Backed, Complete, AllHeld

LEMMA StartFailsStep == Good /\ StartFails => Good'
  BY DEF StartFails, Goes, Cpu, Good, LifeTypes, Inserted, Initialising, Starting, TakingBack,
         NoShadow, Launching, ThreadsOf, Backed, Complete, AllHeld

LEMMA LaunchedStep == Good /\ Launched => Good'
  BY DEF Launched, Joined, Goes, Good, LifeTypes, Inserted, Initialising, Starting, TakingBack,
         NoShadow, Launching, ThreadsOf, Backed, Complete, AllHeld

LEMMA TranslateIdtStep == ASSUME NEW c \in Cpu, Good, TranslateIdt(c) PROVE Good'
  BY DEF TranslateIdt, Good, LifeTypes, Inserted, Initialising, Starting, TakingBack, NoShadow,
         Launching, ThreadsOf, Backed, Complete, AllHeld

LEMMA LoadStep == Good /\ Load => Good'
  BY InsmodStep, LoadExtableStep, RefusedStep, InitBtStep, AllocateStep, AllocateFailsStep,
     ShadowMadeStep, StartThreadStep, StartFailsStep, LaunchedStep DEF Load

----------------------------------------------------------------------------
\* ./unload

\* Without a device or a module there is no processor on the shadow table.
LEMMA TerminateStep == Good /\ Terminate => Good'
  BY DEF Terminate, Goes, Cpu, Good, LifeTypes, Inserted, Initialising, Starting, TakingBack, NoShadow,
         Launching, ThreadsOf, Backed, Complete, AllHeld

LEMMA RestoreThreadStep == Good /\ RestoreThread => Good'
  BY DEF RestoreThread, Create, Cpu, Good, LifeTypes, Inserted, Initialising, Starting, TakingBack,
         NoShadow, Launching, ThreadsOf, Backed, Complete, AllHeld

LEMMA LoadNativeIdtStep == ASSUME NEW c \in Cpu, Good, LoadNativeIdt(c) PROVE Good'
  BY DEF LoadNativeIdt, Good, LifeTypes, Inserted, Initialising, Starting, TakingBack, NoShadow,
         Launching, ThreadsOf, Backed, Complete, AllHeld

\* All threads have been made and are done: no processor is left.
LEMMA RestoredStep == Good /\ Restored => Good'
  <1> SUFFICES ASSUME Good, Restored PROVE Good'
    OBVIOUS
  <1>1. NoShadow
    BY LifecycleAssumption DEF Restored, Joined, Goes, Good, TakingBack, NoShadow, Cpu
  <1>2. QED
    BY <1>1 DEF Restored, Joined, Goes, Good, LifeTypes, Inserted, Initialising, Starting, TakingBack,
         NoShadow, Launching, ThreadsOf, Backed, Complete, AllHeld

LEMMA FreeStep == Good /\ Free => Good'
  BY DEF Free, Goes, Good, LifeTypes, Inserted, Initialising, Starting, TakingBack, NoShadow,
         Launching, ThreadsOf, Backed, Complete, AllHeld

LEMMA StoppedStep == Good /\ Stopped => Good'
  BY DEF Stopped, Goes, Good, LifeTypes, Inserted, Initialising, Starting, TakingBack, NoShadow,
         Launching, ThreadsOf, Backed, Complete, AllHeld

LEMMA RmmodStep == Good /\ Rmmod => Good'
  <1> SUFFICES ASSUME Good, Rmmod PROVE Good'
    OBVIOUS
  <1>1. LifeTypes' /\ ~module'.in /\ ~module'.inited /\ ~module'.extable_inited
    BY DEF Rmmod, Goes, Out, Good, LifeTypes
  <1>2. Inserted'
    BY <1>1 DEF Rmmod, Goes, Good, LifeTypes, Inserted
  <1>3. (Initialising /\ Starting /\ TakingBack /\ Launching)'
    BY <1>1 DEF Rmmod, Goes, Good, LifeTypes, Inserted, Initialising, Starting, TakingBack, NoShadow,
         Launching, ThreadsOf, Backed, Complete, AllHeld
  <1>4. Backed'
    BY <1>1 DEF Rmmod, Goes, Good, LifeTypes, Inserted, Initialising, Starting, TakingBack, NoShadow,
         Launching, ThreadsOf, Backed, Complete, AllHeld
  <1>5. QED
    BY <1>1, <1>2, <1>3, <1>4 DEF Good

LEMMA UnloadStep == Good /\ Unload => Good' \/ left'
  BY TerminateStep, RestoreThreadStep, RestoredStep, FreeStep, StoppedStep, RmmodStep
     DEF Unload, RestoreFails

----------------------------------------------------------------------------
\* No step takes back that terminate has left its loop.
LEMMA LeftStays == left /\ [Next]_vars => left'
  <1> SUFFICES ASSUME left, [Next]_vars PROVE left'
    OBVIOUS
  <1>1. CASE Load
    BY <1>1 DEF Load, Insmod, InitExtable, Refused, InitBt, Allocate, AllocateFails, ShadowMade,
         StartThread, Create, StartFails, Launched
  <1>2. CASE Unload
    BY <1>2 DEF Unload, Terminate, RestoreThread, Create, RestoreFails, Restored, Free, Stopped, Rmmod
  <1>3. CASE \E c \in Cpu : TranslateIdt(c) \/ LoadNativeIdt(c)
    BY <1>3 DEF TranslateIdt, LoadNativeIdt
  <1>4. CASE UNCHANGED vars
    BY <1>4 DEF vars
  <1>5. QED
    BY <1>1, <1>2, <1>3, <1>4 DEF Next

LEMMA GoodStep == Good /\ [Next]_vars => Good' \/ left'
  <1> SUFFICES ASSUME Good, [Next]_vars PROVE Good' \/ left'
    OBVIOUS
  <1>1. CASE Load
    BY <1>1, LoadStep
  <1>2. CASE Unload
    BY <1>2, UnloadStep
  <1>3. ASSUME NEW c \in Cpu, TranslateIdt(c) \/ LoadNativeIdt(c) PROVE Good'
    BY <1>3, TranslateIdtStep, LoadNativeIdtStep
  <1>4. CASE UNCHANGED vars
    BY <1>4 DEF vars, Good, LifeTypes, Inserted, Initialising, Starting, TakingBack, NoShadow,
         Launching, ThreadsOf, Backed, Complete, AllHeld
  <1>5. QED
    BY <1>1, <1>2, <1>3, <1>4 DEF Next

\* launch, terminate and the scripts around them never leave a processor on
\* a shadow table whose module or memory is gone, until terminate leaves its
\* loop because it cannot create a thread.
THEOREM ShadowIsBacked == Spec => []ShadowBacked
  <1>1. Init => IInv
    BY InitGood DEF IInv
  <1>2. IInv /\ [Next]_vars => IInv'
    BY LeftStays, GoodStep DEF IInv
  <1>3. IInv => ShadowBacked
    BY DEF IInv, Good, Launching, ThreadsOf, Starting, Backed, Complete, AllHeld, ShadowBacked
  <1>4. QED
    BY <1>1, <1>2, <1>3, PTL DEF Spec

----------------------------------------------------------------------------
(* What init_bt has allocated and stop_bt frees, also when terminate has   *)
(* left its loop.                                                          *)

\* The table of the user is not init_bt's.
Kept == held \ {UserTable}

\* Nothing is held before init_bt, what it has come past while it runs, and
\* all once the native table is stored, which is what it does last.
Allocated ==
  /\ Kept \subseteq Elems(Ladder)
  /\ module.extable_inited \/ module.inited \/ shell = "extable" => module.in
  /\ ~module.inited => Kept = {}
  /\ shell = "init" => /\ module.inited /\ at \in 1 .. Len(Ladder) + 1
                       /\ Kept = {Ladder[i] : i \in 1 .. at - 1}
  /\ module.native => /\ module.inited /\ shell # "init"
                      /\ shell \notin {"stop", "rmmod"} => Kept = Elems(Ladder)

\* terminate gets past a processor only when there was a native table.
Passed ==
  shell = "restore" => \A c \in Cpu : c < at /\ thread[c] = "none"
                                        => module.native \/ idt[c] = "none"

Freeing ==
  shell = "stop" => /\ at \in 1 .. Len(StopOrder) + 1
                    /\ Kept = {StopOrder[i] : i \in at .. Len(StopOrder)}

HeldInv == LifeTypes /\ Launching /\ Allocated /\ Passed /\ Freeing /\ AreasWhole

----------------------------------------------------------------------------
\* The steps, again without regard to left.

LEMMA InitHeld == Init => HeldInv
  <1> SUFFICES ASSUME Init PROVE HeldInv
    OBVIOUS
  <1>1. LifeTypes /\ ~module.in /\ ~module.inited /\ ~module.native
        /\ ~module.extable_inited
    BY DEF Init, Out, LifeTypes
  <1>2. Launching
    BY DEF Init, Launching, ThreadsOf
  <1>3. Allocated /\ Passed /\ Freeing /\ AreasWhole
    BY <1>1 DEF Init, Allocated, Passed, Freeing, AreasWhole, Kept
  <1>4. QED
    BY <1>1, <1>2, <1>3 DEF HeldInv

LEMMA TypesStep == LifeTypes /\ [Next]_vars => LifeTypes'
  <1> SUFFICES ASSUME LifeTypes, [Next]_vars PROVE LifeTypes'
    OBVIOUS
  <1>1. CASE Load
    <2>1. CASE Insmod
      BY <2>1 DEF Insmod, Goes, Out, LifeTypes
    <2>2. CASE InitExtable
      BY <2>2 DEF InitExtable, Goes, LifeTypes
    <2>3. CASE InitBt
      BY <2>3 DEF InitBt, Goes, LifeTypes
    <2>4. CASE ShadowMade
      BY <2>4 DEF ShadowMade, Goes, LifeTypes
    <2>5. CASE StartThread
      BY <2>5 DEF StartThread, Create, Cpu, LifeTypes
    <2>6. CASE Refused \/ Allocate \/ AllocateFails \/ StartFails \/ Launched
      <3>1. UNCHANGED <<thread, node, module, idt>> /\ at' \in {at, at + 1}
        BY <2>6 DEF Refused, Allocate, AllocateFails, StartFails, Launched
      <3>2. QED
        BY <3>1 DEF LifeTypes
    <2>7. QED
      BY <1>1, <2>1, <2>2, <2>3, <2>4, <2>5, <2>6 DEF Load
  <1>2. CASE Unload
    <2>1. CASE RestoreThread
      BY <2>1 DEF RestoreThread, Create, Cpu, LifeTypes
    <2>2. CASE RestoreFails
      BY <2>2 DEF RestoreFails, Goes, LifeTypes
    <2>3. CASE Rmmod
      BY <2>3 DEF Rmmod, Goes, Out, LifeTypes
    <2>4. CASE Terminate \/ Restored \/ Free \/ Stopped
      <3>1. UNCHANGED <<thread, node, module, idt>>
            /\ at' \in {0, 1, at, at + 1}
        BY <2>4 DEF Terminate, Restored, Free, Stopped
      <3>2. QED
        BY <3>1 DEF LifeTypes
    <2>5. QED
      BY <1>2, <2>1, <2>2, <2>3, <2>4 DEF Unload
  <1>3. CASE \E c \in Cpu : TranslateIdt(c) \/ LoadNativeIdt(c)
    BY <1>3 DEF TranslateIdt, LoadNativeIdt, LifeTypes
  <1>4. CASE UNCHANGED vars
    BY <1>4 DEF vars, LifeTypes
  <1>5. QED
    BY <1>1, <1>2, <1>3, <1>4 DEF Next

LEMMA ThreadsStep == LifeTypes /\ Launching /\ [Next]_vars => Launching'
  <1> SUFFICES ASSUME LifeTypes, Launching, [Next]_vars PROVE Launching'
    OBVIOUS
  <1>1. CASE Load
    BY <1>1 DEF Load, Insmod, InitExtable, Refused, InitBt, Allocate,
      AllocateFails, ShadowMade, StartThread, Create, StartFails, Launched,
      Joined, Goes, Cpu, LifeTypes, Launching, ThreadsOf
  <1>2. CASE Unload
    BY <1>2 DEF Unload, Terminate, RestoreThread, Create, RestoreFails,
      Restored, Free, Stopped, Rmmod, Joined, Goes, Cpu, LifeTypes, Launching,
      ThreadsOf
  <1>3. CASE \E c \in Cpu : TranslateIdt(c) \/ LoadNativeIdt(c)
    BY <1>3 DEF TranslateIdt, LoadNativeIdt, LifeTypes, Launching, ThreadsOf
  <1>4. CASE UNCHANGED vars
    BY <1>4 DEF vars, Launching, ThreadsOf
  <1>5. QED
    BY <1>1, <1>2, <1>3, <1>4 DEF Next

LEMMA PassedStep == LifeTypes /\ Launching /\ Passed /\ [Next]_vars => Passed'
  <1> SUFFICES ASSUME LifeTypes, Launching, Passed, [Next]_vars PROVE Passed'
    OBVIOUS
  <1>1. CASE Load
    BY <1>1 DEF Load, Insmod, InitExtable, Refused, InitBt, Allocate,
      AllocateFails, ShadowMade, StartThread, Create, StartFails, Launched,
      Goes, Passed
  <1>2. CASE Terminate
    BY <1>2 DEF Terminate, Cpu, Passed
  <1>3. CASE RestoreThread
    BY <1>3 DEF RestoreThread, Create, Cpu, LifeTypes, Passed
  <1>4. CASE RestoreFails \/ Restored \/ Free \/ Stopped \/ Rmmod
    BY <1>4 DEF RestoreFails, Restored, Free, Stopped, Rmmod, Goes, Passed
  <1>5. ASSUME NEW c \in Cpu, TranslateIdt(c) PROVE Passed'
    BY <1>5 DEF TranslateIdt, Launching, ThreadsOf, Passed
  <1>6. ASSUME NEW c \in Cpu, LoadNativeIdt(c) PROVE Passed'
    BY <1>6 DEF LoadNativeIdt, LifeTypes, Passed
  <1>7. CASE UNCHANGED vars
    BY <1>7 DEF vars, Passed
  <1>8. QED
    BY <1>1, <1>2, <1>3, <1>4, <1>5, <1>6, <1>7 DEF Next, Unload

\* What changes neither what is held nor the module.
LEMMA HeldFrame ==
  ASSUME HeldInv, UNCHANGED <<held, module>>,
         shell \notin {"init", "stop"}, shell' \notin {"init", "stop"},
         shell # "rmmod", shell' = "extable" => module.in
  PROVE  Allocated' /\ Freeing' /\ AreasWhole'
  BY DEF HeldInv, Allocated, Freeing, AreasWhole, Kept

LEMMA FieldsOf ==
  ASSUME LifeTypes
  PROVE  /\ \A f \in {"in", "inited", "extable_inited", "native"} :
              module[f] \in BOOLEAN
         /\ [module EXCEPT !.extable_inited = TRUE].in = module.in
         /\ [module EXCEPT !.extable_inited = TRUE].inited = module.inited
         /\ [module EXCEPT !.extable_inited = TRUE].native = module.native
         /\ [module EXCEPT !.inited = TRUE].in = module.in
         /\ [module EXCEPT !.inited = TRUE].inited
         /\ [module EXCEPT !.inited = TRUE].native = module.native
         /\ [module EXCEPT !.native = TRUE].in = module.in
         /\ [module EXCEPT !.native = TRUE].inited = module.inited
         /\ [module EXCEPT !.native = TRUE].native
  BY DEF LifeTypes

\* ./load
LEMMA LoadHeld ==
  ASSUME HeldInv, Load PROVE Allocated' /\ Freeing' /\ AreasWhole'
  <1> USE DEF HeldInv
  <1>1. Len(Ladder) \in Nat /\ DOMAIN Ladder = 1 .. Len(Ladder)
    BY LadderElems
  <1>2. CASE Insmod
    <2>1. CASE module.in
      <3>1. UNCHANGED <<held, module>> /\ shell = "prompt" /\ shell' = "extable"
        BY <1>2, <2>1 DEF Insmod, Goes
      <3>2. QED
        BY <2>1, <3>1, HeldFrame
    <2>2. CASE ~module.in
      <3>1. /\ ~module.inited /\ ~module'.inited /\ ~module'.native /\ held' = held
            /\ shell' = "extable" /\ shell = "prompt" /\ module'.in
        BY <1>2, <2>2 DEF Insmod, Goes, Out, Allocated
      <3>2. QED
        BY <3>1 DEF Allocated, Freeing, AreasWhole, Kept
    <2>3. QED
      BY <2>1, <2>2
  <1>3. CASE InitExtable
    <2>1. /\ shell = "extable" /\ shell' = "launch"
          /\ module'.in = module.in /\ module'.inited = module.inited
          /\ module'.native = module.native /\ module.in
          /\ held' \in {held, held \cup {UserTable}}
      BY <1>3, FieldsOf DEF InitExtable, Goes, Allocated
    <2>2. UserTable \notin Areas
      BY SameElems
    <2>3. QED
      BY <2>1, <2>2 DEF Allocated, Freeing, AreasWhole, Kept
  <1>4. CASE Refused \/ Launched
    BY <1>4, HeldFrame DEF Refused, Launched, Goes
  <1>5. CASE StartThread \/ StartFails
    BY <1>5, HeldFrame DEF StartThread, Create, StartFails, Goes
  <1>6. CASE InitBt
    <2>1. /\ shell = "launch" /\ shell' = "init" /\ at' = 1 /\ held' = held
          /\ ~module.inited /\ module'.inited /\ module'.native = module.native
          /\ module'.in = module.in /\ module.in
      BY <1>6, FieldsOf DEF InitBt, Goes, Allocated
    <2>2. Kept = {} /\ ~module.native
      BY <2>1 DEF Allocated
    <2>3. {Ladder[i] : i \in 1 .. 1 - 1} = {}
      OBVIOUS
    <2>4. QED
      BY <1>1, <2>1, <2>2, <2>3 DEF Allocated, Freeing, AreasWhole, Kept
  <1>7. CASE Allocate
    <2>1. /\ shell = "init" /\ shell' = "init" /\ at \in 1 .. Len(Ladder)
          /\ held' = held \cup {Ladder[at]} /\ at' = at + 1 /\ module' = module
      BY <1>1, <1>7 DEF Allocate, Goes
    <2>2. Ladder[at] \in Elems(Ladder) /\ Ladder[at] # UserTable
      BY <2>1, SameElems DEF Elems
    <2>3. Kept' = Kept \cup {Ladder[at]}
      BY <2>1, <2>2 DEF Kept
    <2>4. Kept = {Ladder[i] : i \in 1 .. at - 1} /\ module.inited /\ ~module.native
      BY <2>1 DEF Allocated
    <2>5. {Ladder[i] : i \in 1 .. at' - 1} = Kept \cup {Ladder[at]}
      <3>1. 1 .. at' - 1 = (1 .. at - 1) \cup {at}
        BY <2>1
      <3>2. QED
        BY <2>4, <3>1
    <2>6. at' \in 1 .. Len(Ladder) + 1
      BY <1>1, <2>1
    <2>7. QED
      BY <2>1, <2>2, <2>3, <2>4, <2>5, <2>6 DEF Allocated, Freeing, AreasWhole
  <1>8. CASE AllocateFails
    <2>1. /\ shell = "init" /\ shell' = "prompt" /\ at \in 1 .. Len(Ladder)
          /\ module' = module
          /\ held' = IF Ladder[at] \in Areas THEN held \ Unwound(Ladder[at][2])
                     ELSE held
      BY <1>1, <1>8 DEF AllocateFails, Goes
    <2>2. /\ Kept = {Ladder[i] : i \in 1 .. at - 1} /\ module.inited
          /\ ~module.native /\ Kept \subseteq Elems(Ladder) /\ module.in
      BY <2>1 DEF Allocated
    <2>3. held' \subseteq held
      BY <2>1
    <2>4. UserTable \notin Areas
      BY SameElems
    <2>5. Areas \subseteq held' \/ Areas \cap held' = {}
      <3>1. CASE at \in 3 .. 6
        <4>1. Ladder[at] = Area(at - 3) /\ at - 3 \in 0 .. 3
          BY <2>1, <3>1, AreaPlaces DEF AreasAt
        <4>2. Ladder[at] \in Areas /\ Ladder[at][2] = at - 3
          BY <4>1 DEF Areas, Area
        <4>3. held' = held \ Unwound(at - 3)
          BY <2>1, <4>2
        <4>4. Kept \cap Areas = Unwound(at - 3)
          BY <1>1, <2>1, <2>2, <3>1, AreasBelow
        <4>5. QED
          BY <2>4, <4>3, <4>4 DEF Kept
      <3>2. CASE at < 3
        <4>1. Areas \cap Kept = {}
          BY <1>1, <2>1, <2>2, <3>2, AreasBelow
        <4>2. QED
          BY <2>3, <2>4, <4>1 DEF Kept
      <3>3. CASE at > 6
        <4>1. Areas \subseteq Kept
          BY <1>1, <2>1, <2>2, <3>3, AreasBelow
        <4>2. Ladder[at] \notin Areas
          BY <2>1, <3>3, AreaPlaces DEF AreasAt
        <4>3. QED
          BY <2>1, <4>1, <4>2 DEF Kept
      <3>4. QED
        BY <2>1, <3>1, <3>2, <3>3
    <2>6. QED
      BY <2>1, <2>2, <2>3, <2>5 DEF Allocated, Freeing, AreasWhole, Kept
  <1>9. CASE ShadowMade
    <2>1. /\ shell = "init" /\ shell' = "start" /\ at = Len(Ladder) + 1
          /\ module'.in = module.in /\ module'.inited = module.inited
          /\ module'.native /\ held' = held
      BY <1>9, FieldsOf DEF ShadowMade, Goes
    <2>2. Kept = Elems(Ladder) /\ module.inited /\ module.in
      BY <1>1, <2>1 DEF Allocated, Elems
    <2>3. Areas \subseteq held
      BY <2>2, SameElems DEF Kept
    <2>4. QED
      BY <2>1, <2>2, <2>3 DEF Allocated, Freeing, AreasWhole, Kept
  <1>10. QED
    BY <1>2, <1>3, <1>4, <1>5, <1>6, <1>7, <1>8, <1>9 DEF Load

\* ./unload
LEMMA UnloadHeld ==
  ASSUME HeldInv, Unload PROVE Allocated' /\ Freeing' /\ AreasWhole'
  <1> USE DEF HeldInv
  <1>1. /\ Len(StopOrder) \in Nat /\ DOMAIN StopOrder = 1 .. Len(StopOrder)
        /\ Once(StopOrder) /\ Elems(StopOrder) = Elems(Ladder)
    BY StopOrderElems, SameElems
  <1>2. CASE Terminate \/ RestoreFails
    BY <1>2, HeldFrame DEF Terminate, RestoreFails, Goes
  <1>3. CASE RestoreThread
    BY <1>3, HeldFrame DEF RestoreThread, Create
  <1>4. CASE Restored
    <2>1. /\ shell = "restore" /\ shell' = "stop" /\ at' = 1 /\ at = Cpus
          /\ UNCHANGED <<held, module>> /\ Up /\ \A c \in Cpu : thread[c] = "none"
      BY <1>4 DEF Restored, Joined, Goes
    <2>2. 0 \in Cpu /\ 0 < at
      BY <2>1, LifecycleAssumption DEF Cpu
    <2>3. module.native
      BY <2>1, <2>2 DEF Passed, Up
    <2>4. Kept = Elems(StopOrder)
      BY <1>1, <2>1, <2>3 DEF Allocated
    <2>5. Kept = {StopOrder[i] : i \in 1 .. Len(StopOrder)}
      BY <2>4 DEF Elems
    <2>6. 1 \in 1 .. Len(StopOrder) + 1
      BY <1>1
    <2>7. QED
      BY <2>1, <2>5, <2>6 DEF Allocated, Freeing, AreasWhole, Kept
  <1>5. CASE Free
    <2>1. /\ shell = "stop" /\ shell' = "stop" /\ at \in 1 .. Len(StopOrder)
          /\ held' = held \ {StopOrder[at]} /\ at' = at + 1 /\ module' = module
      BY <1>1, <1>5 DEF Free, Goes
    <2>2. Kept' = Kept \ {StopOrder[at]}
      BY <2>1 DEF Kept
    <2>3. Kept = {StopOrder[i] : i \in at .. Len(StopOrder)}
      BY <2>1 DEF Freeing
    <2>4. Kept \ {StopOrder[at]} = {StopOrder[i] : i \in at' .. Len(StopOrder)}
      <3>1. at .. Len(StopOrder) = {at} \cup (at' .. Len(StopOrder))
        BY <1>1, <2>1
      <3>2. \A i \in at' .. Len(StopOrder) : StopOrder[i] # StopOrder[at]
        BY <1>1, <2>1 DEF Once
      <3>3. QED
        BY <2>3, <3>1, <3>2
    <2>5. at' \in 1 .. Len(StopOrder) + 1
      BY <1>1, <2>1
    <2>6. QED
      BY <2>1, <2>2, <2>4, <2>5 DEF Allocated, Freeing, AreasWhole
  <1>6. CASE Stopped
    <2>1. /\ shell = "stop" /\ shell' = "rmmod" /\ at = Len(StopOrder) + 1
          /\ UNCHANGED <<held, module>>
      BY <1>6 DEF Stopped, Goes
    <2>2. Kept = {}
      BY <1>1, <2>1 DEF Freeing
    <2>3. Areas \cap held = {}
      BY <2>2, SameElems DEF Kept
    <2>4. QED
      BY <2>1, <2>2, <2>3 DEF Allocated, Freeing, AreasWhole, Kept
  <1>7. CASE Rmmod
    <2>1. /\ shell' = "prompt" /\ held' = {}
          /\ ~module'.inited /\ ~module'.native /\ ~module'.extable_inited
      BY <1>7 DEF Rmmod, Goes, Out
    <2>2. QED
      BY <2>1 DEF Allocated, Freeing, AreasWhole, Kept
  <1>8. QED
    BY <1>2, <1>3, <1>4, <1>5, <1>6, <1>7 DEF Unload

LEMMA HeldStep == HeldInv /\ [Next]_vars => HeldInv'
  <1> SUFFICES ASSUME HeldInv, [Next]_vars PROVE HeldInv'
    OBVIOUS
  <1>1. LifeTypes' /\ Launching' /\ Passed'
    BY TypesStep, ThreadsStep, PassedStep DEF HeldInv
  <1>2. Allocated' /\ Freeing' /\ AreasWhole'
    <2>1. CASE Load
      BY <2>1, LoadHeld
    <2>2. CASE Unload
      BY <2>2, UnloadHeld
    <2>3. CASE UNCHANGED <<shell, at, module, held>>
      BY <2>3 DEF HeldInv, Allocated, Freeing, AreasWhole, Kept
    <2>4. QED
      BY <2>1, <2>2, <2>3 DEF Next, TranslateIdt, LoadNativeIdt, vars
  <1>3. QED
    BY <1>1, <1>2 DEF HeldInv

LEMMA HeldInvariance == Spec => []HeldInv
  BY InitHeld, HeldStep, PTL DEF Spec

\* stop_bt frees what init_bt allocated, each piece once, and all of it, for
\* every number of processors and chunks and whatever failed before.
THEOREM AllIsFreed == Spec => []StopFreesAll
  <1>1. HeldInv => StopFreesAll
    BY DEF HeldInv, Freeing, Kept, StopFreesAll
  <1>2. QED
    BY <1>1, HeldInvariance, PTL

\* Every way out of alloc_jumptable1 leaves all of the table or nothing.
THEOREM AreasAreWhole == Spec => []AreasWhole
  <1>1. HeldInv => AreasWhole
    BY DEF HeldInv
  <1>2. QED
    BY <1>1, HeldInvariance, PTL

(***************************************************************************)
(* The stacks of the threads: the invariant                                *)
(***************************************************************************)

\* What the stacks hold for a call: a place it pushes, or the guest's address.
Places(call) == Pushes(call) \cup {Guest(call)}
Address      == UNION {Places(call) : call \in Calls}

Fields(r) ==
  /\ r = [phase |-> r.phase, at |-> r.at, frame |-> r.frame, eip |-> r.eip,
          left |-> r.left, slept |-> r.slept]
  /\ r.eip = [call |-> r.eip.call, line |-> r.eip.line]
  /\ r.at \in Nat /\ r.frame \in Nat /\ r.slept \in BOOLEAN

Types ==
  /\ frames \in [Thread -> Seq(Address)]
  /\ calls \in [Thread -> Seq(Calls)]
  /\ sp \in [Thread -> Nat]
  /\ mode \in [Thread -> {"user", "translated", "native", "asleep"}]
  /\ passed \subseteq Thread
  /\ Fields(walk)

\* A thread has one return address for each of its calls, and sleeps with
\* the stack pointer it had then.
Lengths ==
  \A t \in Thread : /\ Len(frames[t]) = Len(calls[t])
                    /\ mode[t] = "asleep" => sp[t] = Len(frames[t])

\* Every return address is one that its call pushed, or the guest's.
Matches(t) ==
  \A i \in DOMAIN frames[t] :
    frames[t][i] \in Places(calls[t][i])

\* The stacks of threads that the walk has not come to.
Ahead == \A i \in DOMAIN Threads : i > walk.at => Matches(Threads[i])

Position ==
  /\ walk.phase = "off" => walk.at = 0
  /\ walk.phase = "fetch" =>
       walk.at \in DOMAIN Threads /\ walk.frame > 0 /\ walk.eip.call \in Calls

\* The thread that is walked, if it sleeps since: the frames the walk has come
\* past are the guest's, and what it follows into edge code is of this frame.
Asleep ==
  walk.at \in DOMAIN Threads /\ walk.slept =>
    /\ mode[Walked] = "asleep" /\ Matches(Walked)
    /\ walk.frame <= Len(frames[Walked])
    /\ \A i \in DOMAIN frames[Walked] :
         i > walk.frame => frames[Walked][i] = Guest(calls[Walked][i])
    /\ walk.phase = "fetch" => walk.eip.call = calls[Walked][walk.frame]

GivenBack(t) == \A i \in DOMAIN frames[t] : frames[t][i] = Guest(calls[t][i])

\* Threads that were walked asleep and sleep since.
Behind ==
  \A t \in passed :
    /\ mode[t] = "asleep" /\ GivenBack(t)
    /\ \A i \in DOMAIN Threads : Threads[i] = t => i < walk.at

Inv == Types /\ Lengths /\ Ahead /\ Position /\ Asleep /\ Behind

----------------------------------------------------------------------------
(* Threads and addresses *)

LEMMA ThreadAt ==
  ASSUME CallEndsBlock, NEW i \in DOMAIN Threads
  PROVE  i \in Nat /\ Threads[i] \in Thread
  BY DEF CallEndsBlock

LEMMA OneThread ==
  ASSUME CallEndsBlock, NEW i \in DOMAIN Threads, NEW j \in DOMAIN Threads,
         Threads[i] = Threads[j]
  PROVE  i = j
  BY DEF CallEndsBlock, IsInjective

LEMMA OfItsCall ==
  ASSUME NEW call, NEW a \in Places(call)
  PROVE  a.call = call /\ a = [call |-> a.call, line |-> a.line]
  BY DEF Places, Pushes, Guest, Place

\* push_orig_eips finds the address of the guest for a place in the block.
LEMMA GuestOfPlace ==
  ASSUME CallEndsBlock, NEW call \in Calls, NEW a \in Places(call)
  PROVE  /\ IsGuest(a) => a = Guest(call)
         /\ ~IsGuest(a) /\ ~InEdge(a) => TcPtrToEipVirt(a) = Guest(call)
  <1>1. CASE a \in Pushes(call)
    <2>1. ~IsGuest(a) /\ (InEdge(a) \/ IsEdge(Line(a)))
      BY <1>1 DEF CallEndsBlock
    <2>2. a.call = call
      BY OfItsCall
    <2>3. QED
      BY <2>1, <2>2 DEF TcPtrToEipVirt
  <1>2. CASE a = Guest(call)
    BY <1>2 DEF IsGuest, Guest
  <1>3. QED
    BY <1>1, <1>2 DEF Places

LEMMA PlacesOfCalls ==
  ASSUME NEW a \in Address
  PROVE  \E call \in Calls : a \in Places(call) /\ a.call = call
  BY OfItsCall DEF Address

LEMMA InitInv == CallEndsBlock /\ StacksInit => Inv
  <1> SUFFICES ASSUME CallEndsBlock, StacksInit PROVE Inv
    OBVIOUS
  <1>1. Types
    <2>1. <<>> \in Seq(Address) /\ <<>> \in Seq(Calls)
      OBVIOUS
    <2>2. Fields(walk)
      BY DEF StacksInit, Fields, Off, Guest
    <2>3. QED
      BY <2>1, <2>2 DEF StacksInit, Types
  <1>2. Lengths
    BY DEF StacksInit, Lengths
  <1>3. Ahead
    BY ThreadAt DEF StacksInit, Ahead, Matches
  <1>4. Position /\ Asleep /\ Behind
    BY DEF StacksInit, Position, Asleep, Behind, Off
  <1>5. QED
    BY <1>1, <1>2, <1>3, <1>4 DEF Inv

----------------------------------------------------------------------------
(* What threads do.  A step of a thread that is awake is about its own     *)
(* frames, and what is said of threads that sleep is not about them.       *)

\* A thread goes on with as many addresses as calls.
Own(t) ==
  /\ frames' \in [Thread -> Seq(Address)] /\ calls' \in [Thread -> Seq(Calls)]
  /\ sp' \in [Thread -> Nat]
  /\ mode' \in [Thread -> {"user", "translated", "native", "asleep"}]
  /\ \A u \in Thread \ {t} : /\ frames'[u] = frames[u] /\ calls'[u] = calls[u]
                             /\ sp'[u] = sp[u] /\ mode'[u] = mode[u]
  /\ Len(frames'[t]) = Len(calls'[t])
  /\ mode'[t] = "asleep" => sp'[t] = Len(frames'[t])
  /\ Matches(t) => Matches(t)'

LEMMA OwnStep ==
  ASSUME CallEndsBlock, Inv, NEW t \in Thread, mode[t] # "asleep", Own(t),
         UNCHANGED <<walk, passed>>
  PROVE  Inv'
  <1> USE DEF Inv, Own
  <1>1. Types'
    BY DEF Types
  <1>2. Lengths'
    BY DEF Lengths
  <1>3. ASSUME NEW u \in Thread, Matches(u) PROVE Matches(u)'
    BY <1>3 DEF Matches
  <1>4. Ahead'
    BY <1>3, ThreadAt DEF Ahead
  <1>5. Position'
    BY DEF Position
  <1>6. Asleep'
    <2> SUFFICES ASSUME walk.at \in DOMAIN Threads, walk.slept PROVE Asleep'
      BY DEF Asleep
    <2>1. Walked \in Thread /\ Walked # t
      BY ThreadAt DEF Asleep, Walked
    <2>2. /\ frames'[Walked] = frames[Walked] /\ calls'[Walked] = calls[Walked]
          /\ mode'[Walked] = mode[Walked] /\ Walked' = Walked
      BY <2>1 DEF Walked
    <2>3. Matches(Walked)'
      BY <1>3, <2>1, <2>2 DEF Asleep
    <2>4. QED
      BY <2>2, <2>3 DEF Asleep
  <1>7. Behind'
    BY DEF Behind, GivenBack, Types
  <1>8. QED
    BY <1>1, <1>2, <1>4, <1>5, <1>6, <1>7

LEMMA EntersMode ==
  ASSUME Types, NEW t \in Thread, NEW a, Enters(t, a)
  PROVE  /\ mode' \in [Thread -> {"user", "translated", "native", "asleep"}]
         /\ mode'[t] # "asleep" /\ \A u \in Thread \ {t} : mode'[u] = mode[u]
  BY DEF Types, Enters

LEMMA EnterStep ==
  ASSUME CallEndsBlock, Inv, NEW t \in Thread, Enter(t) \/ Leave(t) PROVE Inv'
  <1>1. mode[t] # "asleep"
    BY DEF Enter, Leave, Runs
  <1>2. Own(t)
    BY DEF Enter, Leave, Own, Inv, Types, Lengths, Matches
  <1>3. QED
    BY <1>1, <1>2, OwnStep DEF Enter, Leave

LEMMA SleepStep ==
  ASSUME CallEndsBlock, Inv, NEW t \in Thread, Sleep(t) PROVE Inv'
  <1>1. mode[t] # "asleep"
    BY DEF Sleep, Runs
  <1>2. Own(t)
    BY DEF Sleep, Own, Inv, Types, Lengths, Matches
  <1>3. QED
    BY <1>1, <1>2, OwnStep DEF Sleep

\* A call pushes one of its places.
LEMMA CallOutStep ==
  ASSUME CallEndsBlock, Inv, NEW t \in Thread, NEW call \in Calls, CallOut(t, call)
  PROVE  Inv'
  <1>1. mode[t] # "asleep"
    BY DEF CallOut
  <1>2. PICK a \in Pushes(call) : frames' = [frames EXCEPT ![t] = Append(@, a)]
    BY DEF CallOut
  <1>3. a \in Places(call) /\ a \in Address
    BY DEF Places, Address
  <1>4. /\ frames[t] \in Seq(Address) /\ calls[t] \in Seq(Calls)
        /\ Len(frames[t]) = Len(calls[t])
    BY DEF Inv, Types, Lengths
  <1>5. /\ frames'[t] = Append(frames[t], a) /\ calls'[t] = Append(calls[t], call)
        /\ \A u \in Thread \ {t} : frames'[u] = frames[u] /\ calls'[u] = calls[u]
    BY <1>2 DEF CallOut, Inv, Types
  <1>6. /\ frames' \in [Thread -> Seq(Address)] /\ calls' \in [Thread -> Seq(Calls)]
        /\ Len(frames'[t]) = Len(calls'[t])
    BY <1>2, <1>3, <1>4, <1>5 DEF CallOut, Inv, Types
  <1>7. ASSUME Matches(t) PROVE Matches(t)'
    <2>1. ASSUME NEW i \in DOMAIN frames'[t]
          PROVE  frames'[t][i] \in Places(calls'[t][i])
      <3>1. CASE i = Len(frames[t]) + 1
        BY <1>3, <1>4, <1>5, <3>1
      <3>2. CASE i # Len(frames[t]) + 1
        <4>1. i \in DOMAIN frames[t] /\ i \in DOMAIN calls[t]
          BY <1>4, <1>5, <2>1, <3>2
        <4>2. frames'[t][i] = frames[t][i] /\ calls'[t][i] = calls[t][i]
          BY <1>4, <1>5, <4>1
        <4>3. QED
          BY <1>7, <4>1, <4>2 DEF Matches
      <3>3. QED
        BY <3>1, <3>2
    <2>2. QED
      BY <2>1 DEF Matches, Places, Pushes, Guest
  <1>8. Own(t)
    BY <1>1, <1>5, <1>6, <1>7 DEF Own, CallOut, Inv, Types
  <1>9. QED
    BY <1>1, <1>8, OwnStep DEF CallOut

\* A return takes the last address and the last call away.
LEMMA ReturnStep ==
  ASSUME CallEndsBlock, Inv, NEW t \in Thread, Return(t) PROVE Inv'
  <1>1. mode[t] # "asleep" /\ frames[t] # <<>>
    BY DEF Return, Runs
  <1>2. /\ frames' = [frames EXCEPT ![t] = Front(@)]
        /\ calls' = [calls EXCEPT ![t] = Front(@)]
        /\ Enters(t, Last(frames[t])) /\ sp' = sp /\ UNCHANGED <<walk, passed>>
    BY DEF Return
  <1>3. /\ frames[t] \in Seq(Address) /\ calls[t] \in Seq(Calls)
        /\ Len(frames[t]) = Len(calls[t]) /\ Len(frames[t]) > 0
    BY <1>1 DEF Inv, Types, Lengths
  <1>4. /\ frames'[t] = Front(frames[t]) /\ calls'[t] = Front(calls[t])
        /\ \A u \in Thread \ {t} : frames'[u] = frames[u] /\ calls'[u] = calls[u]
    BY <1>2 DEF Inv, Types
  <1>5. /\ Front(frames[t]) \in Seq(Address) /\ Front(calls[t]) \in Seq(Calls)
        /\ Len(Front(frames[t])) = Len(frames[t]) - 1
        /\ Len(Front(calls[t])) = Len(frames[t]) - 1
        /\ \A i \in 1 .. Len(frames[t]) - 1 : /\ Front(frames[t])[i] = frames[t][i]
                                              /\ Front(calls[t])[i] = calls[t][i]
    BY <1>3 DEF Front
  <1>6. frames' \in [Thread -> Seq(Address)] /\ calls' \in [Thread -> Seq(Calls)]
    BY <1>2, <1>5 DEF Inv, Types
  <1>7. ASSUME Matches(t) PROVE Matches(t)'
    <2>1. ASSUME NEW i \in DOMAIN frames'[t]
          PROVE  frames'[t][i] \in Places(calls'[t][i])
      <3>1. i \in 1 .. Len(frames[t]) - 1 /\ i \in DOMAIN frames[t]
        BY <1>3, <1>4, <1>5, <2>1
      <3>2. QED
        BY <1>4, <1>5, <1>7, <3>1 DEF Matches
    <2>2. QED
      BY <2>1 DEF Matches, Places, Pushes, Guest
  <1>8. Own(t)
    BY <1>2, <1>4, <1>5, <1>6, <1>7, EntersMode DEF Own, Inv, Types
  <1>9. QED
    BY <1>1, <1>2, <1>8, OwnStep

\* A thread that wakes is no longer one of those the invariant is about.
LEMMA WakeStep ==
  ASSUME CallEndsBlock, Inv, NEW t \in Thread, Wake(t) PROVE Inv'
  <1>1. /\ passed' = passed \ {t} /\ UNCHANGED <<frames, sp, calls>>
        /\ Enters(t, Last(frames[t]))
        /\ walk' = IF walk.at \in DOMAIN Threads /\ Threads[walk.at] = t
                   THEN [walk EXCEPT !.slept = FALSE] ELSE walk
    BY DEF Wake
  <1>2. /\ mode' \in [Thread -> {"user", "translated", "native", "asleep"}]
        /\ mode'[t] # "asleep" /\ \A u \in Thread \ {t} : mode'[u] = mode[u]
    BY <1>1, EntersMode DEF Inv
  <1>3. /\ walk'.phase = walk.phase /\ walk'.at = walk.at
        /\ walk'.frame = walk.frame /\ walk'.eip = walk.eip /\ Fields(walk')
        /\ walk'.slept => /\ walk.slept
                          /\ walk.at \in DOMAIN Threads => Threads[walk.at] # t
    BY <1>1 DEF Inv, Types, Fields
  <1>4. Types'
    BY <1>1, <1>2, <1>3 DEF Inv, Types, Fields
  <1>5. Lengths'
    BY <1>1, <1>2 DEF Inv, Lengths
  <1>6. \A u : Matches(u)' <=> Matches(u)
    BY <1>1 DEF Matches, Places, Pushes, Guest
  <1>7. Ahead'
    BY <1>3, <1>6 DEF Inv, Ahead
  <1>8. Position'
    BY <1>3 DEF Inv, Position
  <1>9. Asleep'
    <2> SUFFICES ASSUME walk'.at \in DOMAIN Threads, walk'.slept PROVE Asleep'
      BY DEF Asleep
    <2>1. /\ walk.at \in DOMAIN Threads /\ walk.slept /\ Walked' = Walked
          /\ Walked # t /\ Walked \in Thread
      BY <1>3, ThreadAt DEF Walked
    <2>2. mode'[Walked] = mode[Walked]
      BY <1>2, <2>1
    <2>3. QED
      BY <1>1, <1>3, <1>6, <2>1, <2>2 DEF Inv, Asleep, Guest
  <1>10. Behind'
    BY <1>1, <1>2, <1>3 DEF Inv, Behind, GivenBack, Types, Guest
  <1>11. QED
    BY <1>4, <1>5, <1>7, <1>8, <1>9, <1>10 DEF Inv

----------------------------------------------------------------------------
(* What push_orig_eips does *)

LEMMA WalkedThread ==
  ASSUME CallEndsBlock, Inv, walk.at \in DOMAIN Threads
  PROVE  /\ Walked \in Thread
         /\ frames[Walked] \in Seq(Address) /\ calls[Walked] \in Seq(Calls)
         /\ Len(frames[Walked]) = Len(calls[Walked])
         /\ walk.at \in Nat /\ walk.frame \in Nat
  BY ThreadAt DEF Walked, Inv, Types, Lengths, Fields

\* Steps that write no stack and stay with a thread.
LEMMA WalkOnly ==
  ASSUME CallEndsBlock, Inv, Fields(walk'), walk'.at = walk.at, Position', Asleep',
         UNCHANGED <<frames, sp, mode, calls, passed>>
  PROVE  Inv'
  <1>1. \A u : Matches(u)' <=> Matches(u)
    BY DEF Matches, Places, Pushes, Guest
  <1>2. Types' /\ Lengths'
    BY DEF Inv, Types, Lengths, Fields
  <1>3. Ahead'
    BY <1>1 DEF Inv, Ahead
  <1>4. Behind'
    BY DEF Inv, Behind, GivenBack, Guest
  <1>5. QED
    BY <1>2, <1>3, <1>4 DEF Inv

\* The walk comes to the next thread, and has walked no frame of it.
LEMMA ToThread ==
  ASSUME CallEndsBlock, Inv, NEW i \in Nat, i > walk.at, walk' = AtThread(i),
         UNCHANGED <<frames, sp, mode, calls>>
  PROVE  Fields(walk') /\ walk'.at = i /\ Lengths' /\ Ahead' /\ Position' /\ Asleep'
  <1>1. \A u : Matches(u)' <=> Matches(u)
    BY DEF Matches, Places, Pushes, Guest
  <1>2. /\ walk' = [phase |-> "walk", at |-> i,
                    frame |-> IF i \in DOMAIN Threads THEN sp[Threads[i]] ELSE 0,
                    eip |-> walk.eip, left |-> walk.left,
                    slept |-> i \in DOMAIN Threads /\ mode[Threads[i]] = "asleep"]
        /\ walk.at \in Nat /\ walk.eip = [call |-> walk.eip.call, line |-> walk.eip.line]
    BY DEF AtThread, Inv, Types, Fields
  <1>3. i \in DOMAIN Threads => sp[Threads[i]] \in Nat
    BY ThreadAt DEF Inv, Types
  <1>4. Fields(walk')
    BY <1>2, <1>3 DEF Fields
  <1>5. Lengths'
    BY DEF Inv, Lengths
  <1>6. Ahead'
    <2>1. ASSUME NEW j \in DOMAIN Threads, j > i PROVE Matches(Threads[j])'
      <3>1. j > walk.at
        BY <1>2, <2>1, ThreadAt
      <3>2. QED
        BY <1>1, <3>1 DEF Inv, Ahead
    <2>2. QED
      BY <1>2, <2>1 DEF Ahead
  <1>7. Position'
    BY <1>2 DEF Position
  <1>8. Asleep'
    <2> SUFFICES ASSUME i \in DOMAIN Threads, walk'.slept PROVE Asleep'
      BY <1>2 DEF Asleep
    <2> DEFINE t == Threads[i]
    <2>1. Walked' = t /\ t \in Thread
      BY <1>2, ThreadAt DEF Walked
    <2>2. mode'[t] = "asleep" /\ walk'.frame = sp[t] /\ sp[t] = Len(frames[t])
      <3>1. walk'.frame = sp[t]
        BY <1>2
      <3>2. mode[t] = "asleep"
        <4> DEFINE sleeps == i \in DOMAIN Threads /\ mode[Threads[i]] = "asleep"
        <4> HIDE DEF sleeps
        <4>0. walk' = [phase |-> "walk", at |-> i,
                       frame |-> IF i \in DOMAIN Threads THEN sp[Threads[i]] ELSE 0,
                       eip |-> walk.eip, left |-> walk.left, slept |-> sleeps]
          BY ONLY <1>2, Zenon DEF sleeps
        <4>1. walk'.slept = sleeps
          BY ONLY <4>0
        <4>2. sleeps
          BY <4>1
        <4>3. QED
          BY <4>2 DEF sleeps
      <3>3. QED
        BY <2>1, <3>1, <3>2 DEF Inv, Lengths
    <2>3. Matches(t)'
      BY <1>1 DEF Inv, Ahead
    <2>4. frames[t] \in Seq(Address)
      BY <2>1 DEF Inv, Types
    <2>5. /\ walk'.frame <= Len(frames'[t])
          /\ \A j \in DOMAIN frames'[t] : ~(j > walk'.frame)
      BY <2>2, <2>4
    <2>6. walk'.phase # "fetch"
      BY <1>2
    <2>7. QED
      BY <2>1, <2>2, <2>3, <2>5, <2>6 DEF Asleep
  <1>9. QED
    BY <1>2, <1>4, <1>5, <1>6, <1>7, <1>8

LEMMA StopBtStep ==
  ASSUME CallEndsBlock, Inv, StopBt PROVE Inv'
  <1>1. /\ walk.at = 0 /\ walk' = AtThread(1) /\ UNCHANGED <<frames, sp, mode, calls>>
        /\ UNCHANGED passed
    BY DEF StopBt, Inv, Position
  <1>2. Fields(walk') /\ walk'.at = 1 /\ Lengths' /\ Ahead' /\ Position' /\ Asleep'
    BY <1>1, ToThread
  <1>3. Types'
    BY <1>1, <1>2 DEF Inv, Types
  <1>4. Behind'
    <2>1. \A i \in DOMAIN Threads : i < walk.at => i < walk'.at
      BY <1>1, <1>2, ThreadAt
    <2>2. QED
      BY <1>1, <2>1 DEF Inv, Behind, GivenBack, Guest
  <1>5. QED
    BY <1>2, <1>3, <1>4 DEF Inv

\* All frames of a thread that slept are the guest's when its walk ends.
LEMMA NextThreadStep ==
  ASSUME CallEndsBlock, Inv, NextThread PROVE Inv'
  <1>1. /\ walk.at \in DOMAIN Threads /\ walk.frame = 0
        /\ walk' = AtThread(walk.at + 1)
        /\ passed' = IF walk.slept THEN passed \cup {Walked} ELSE passed
        /\ UNCHANGED <<frames, sp, mode, calls>>
    BY DEF NextThread, Visits
  <1>2. /\ Walked \in Thread /\ frames[Walked] \in Seq(Address)
        /\ walk.at \in Nat
    BY <1>1, WalkedThread
  <1>3. /\ Fields(walk') /\ walk'.at = walk.at + 1
        /\ Lengths' /\ Ahead' /\ Position' /\ Asleep'
    BY <1>1, <1>2, ToThread
  <1>4. Types'
    BY <1>1, <1>2, <1>3 DEF Inv, Types
  <1>5. \A i \in DOMAIN Threads : i <= walk.at => i < walk'.at
    BY <1>2, <1>3, ThreadAt
  <1>6. walk.slept => mode[Walked] = "asleep" /\ GivenBack(Walked)
    BY <1>1, <1>2 DEF Inv, Asleep, GivenBack
  <1>7. ASSUME NEW t \in passed'
        PROVE  /\ mode[t] = "asleep" /\ GivenBack(t)
               /\ \A i \in DOMAIN Threads : Threads[i] = t => i < walk'.at
    <2>1. CASE t \in passed
      <3>1. \A i \in DOMAIN Threads : i < walk.at => i <= walk.at
        BY <1>2, ThreadAt
      <3>2. QED
        BY <1>5, <2>1, <3>1 DEF Inv, Behind
    <2>2. CASE t \notin passed
      <3>1. walk.slept /\ t = Walked
        BY <1>1, <2>2
      <3>2. \A i \in DOMAIN Threads : Threads[i] = t => i = walk.at
        BY <1>1, <3>1, OneThread DEF Walked
      <3>3. QED
        BY <1>2, <1>5, <1>6, <3>1, <3>2
    <2>3. QED
      BY <2>1, <2>2
  <1>8. Behind'
    BY <1>1, <1>7 DEF Behind, GivenBack, Guest
  <1>9. QED
    BY <1>3, <1>4, <1>8 DEF Inv

LEMMA OutwardFields ==
  ASSUME Inv, walk.frame > 0, walk' = Outward
  PROVE  /\ Fields(walk') /\ walk'.at = walk.at /\ walk'.phase = "walk"
         /\ walk'.frame = walk.frame - 1 /\ walk'.slept = walk.slept /\ Position'
  <1>1. walk' = [phase |-> "walk", at |-> walk.at, frame |-> walk.frame - 1,
                 eip |-> walk.eip, left |-> walk.left, slept |-> walk.slept]
    BY DEF Outward, Inv, Types, Fields
  <1>2. QED
    BY <1>1 DEF Inv, Types, Fields, Position

\* The walk comes past a frame that has the address of the guest.
LEMMA PastGuest ==
  ASSUME CallEndsBlock, Inv, walk.at \in DOMAIN Threads, walk.frame > 0,
         walk' = Outward, UNCHANGED <<frames, sp, mode, calls, passed>>,
         walk.slept => RetEip = Guest(calls[Walked][walk.frame])
  PROVE  Inv'
  <1>1. /\ Fields(walk') /\ walk'.at = walk.at /\ walk'.phase = "walk"
        /\ walk'.frame = walk.frame - 1 /\ walk'.slept = walk.slept /\ Position'
    BY OutwardFields
  <1>2. Asleep'
    <2> SUFFICES ASSUME walk.slept PROVE Asleep'
      BY <1>1 DEF Asleep
    <2>1. /\ Walked' = Walked /\ Walked \in Thread /\ walk.frame \in Nat
          /\ frames[Walked] \in Seq(Address)
      BY <1>1, WalkedThread DEF Walked
    <2>2. Matches(Walked)'
      BY <2>1 DEF Inv, Asleep, Matches, Places, Pushes, Guest
    <2>3. ASSUME NEW j \in DOMAIN frames[Walked], j > walk.frame - 1
          PROVE  frames[Walked][j] = Guest(calls[Walked][j])
      <3>1. CASE j = walk.frame
        BY <3>1 DEF RetEip
      <3>2. CASE j # walk.frame
        <4>1. j > walk.frame
          BY <2>1, <2>3, <3>2
        <4>2. QED
          BY <4>1 DEF Inv, Asleep
      <3>3. QED
        BY <3>1, <3>2
    <2>4. walk.frame - 1 <= Len(frames[Walked])
      BY <2>1 DEF Inv, Asleep
    <2>5. QED
      BY <1>1, <2>1, <2>2, <2>3, <2>4 DEF Inv, Asleep, Guest
  <1>3. QED
    BY <1>1, <1>2, WalkOnly

\* A sleeping thread has the frames that the walk goes through.
LEMMA AsleepHolds ==
  ASSUME CallEndsBlock, Inv, walk.at \in DOMAIN Threads, walk.frame > 0, walk.slept
  PROVE  /\ Holds /\ RetEip \in Places(calls[Walked][walk.frame])
         /\ calls[Walked][walk.frame] \in Calls
  <1>1. /\ frames[Walked] \in Seq(Address) /\ calls[Walked] \in Seq(Calls)
        /\ Len(frames[Walked]) = Len(calls[Walked]) /\ walk.frame \in Nat
    BY WalkedThread
  <1>2. walk.frame <= Len(frames[Walked]) /\ Matches(Walked)
    BY DEF Inv, Asleep
  <1>3. walk.frame \in DOMAIN frames[Walked] /\ walk.frame \in DOMAIN calls[Walked]
    BY <1>1, <1>2
  <1>4. QED
    BY <1>1, <1>2, <1>3 DEF Holds, Matches, RetEip

LEMMA NativeFrameStep ==
  ASSUME CallEndsBlock, Inv, NativeFrame PROVE Inv'
  <1>1. /\ walk.at \in DOMAIN Threads /\ walk.frame > 0 /\ (Holds => IsGuest(RetEip))
        /\ walk' = Outward /\ UNCHANGED <<frames, sp, mode, calls, passed>>
    BY DEF NativeFrame, Visits
  <1>2. walk.slept => RetEip = Guest(calls[Walked][walk.frame])
    BY <1>1, AsleepHolds, GuestOfPlace
  <1>3. QED
    BY <1>1, <1>2, PastGuest

\* A frame is written, for a thread that sleeps with the address of the guest
\* behind its call.
LEMMA WriteFrame ==
  ASSUME CallEndsBlock, Inv, walk.at \in DOMAIN Threads, walk.frame > 0,
         NEW e \in Address, frames' = Replaced(e),
         walk' = Outward, UNCHANGED <<sp, mode, calls, passed>>,
         walk.slept => e = Guest(calls[Walked][walk.frame])
  PROVE  Inv'
  <1>1. /\ Fields(walk') /\ walk'.at = walk.at /\ walk'.phase = "walk"
        /\ walk'.frame = walk.frame - 1 /\ walk'.slept = walk.slept /\ Position'
    BY OutwardFields
  <1>2. CASE ~Holds
    <2>1. ~walk.slept
      BY <1>2, AsleepHolds
    <2>2. frames' = frames
      BY <1>2 DEF Replaced
    <2>3. QED
      BY <2>1, <2>2, PastGuest
  <1>3. CASE Holds
    <2> DEFINE w == Walked
               f == walk.frame
    <2>1. /\ w \in Thread /\ frames[w] \in Seq(Address) /\ calls[w] \in Seq(Calls)
          /\ Len(frames[w]) = Len(calls[w]) /\ f \in Nat /\ Walked' = w
      BY <1>1, WalkedThread DEF Walked
    <2>2. f \in DOMAIN frames[w]
      BY <1>3 DEF Holds
    <2>3. frames' = [frames EXCEPT ![w] = [frames[w] EXCEPT ![f] = e]]
      BY <1>3 DEF Replaced
    <2>4. /\ frames'[w] = [frames[w] EXCEPT ![f] = e]
          /\ \A u \in Thread \ {w} : frames'[u] = frames[u]
      BY <2>1, <2>3 DEF Inv, Types
    <2>5. frames'[w] \in Seq(Address) /\ Len(frames'[w]) = Len(frames[w])
          /\ DOMAIN frames'[w] = DOMAIN frames[w]
      BY <2>1, <2>2, <2>4
    <2>6. /\ frames'[w][f] = e
          /\ \A j \in DOMAIN frames[w] : j # f => frames'[w][j] = frames[w][j]
      BY <2>2, <2>4
    <2>7. Types'
      BY <1>1, <2>1, <2>3, <2>4, <2>5 DEF Inv, Types
    <2>8. Lengths'
      BY <2>4, <2>5 DEF Inv, Lengths
    <2>9. Ahead'
      <3>1. ASSUME NEW i \in DOMAIN Threads, i > walk.at PROVE Matches(Threads[i])'
        <4>1. Threads[i] # w /\ Threads[i] \in Thread
          BY <3>1, OneThread, ThreadAt DEF Walked
        <4>2. frames'[Threads[i]] = frames[Threads[i]]
          BY <2>4, <4>1
        <4>3. QED
          BY <3>1, <4>2 DEF Inv, Ahead, Matches, Places, Pushes, Guest
      <3>2. QED
        BY <1>1, <3>1 DEF Ahead
    <2>10. Asleep'
      <3> SUFFICES ASSUME walk.slept PROVE Asleep'
        BY <1>1 DEF Asleep
      <3>1. e = Guest(calls[w][f]) /\ e \in Places(calls[w][f])
        BY DEF Places
      <3>2. Matches(w)'
        <4>1. ASSUME NEW j \in DOMAIN frames[w]
              PROVE  frames'[w][j] \in Places(calls[w][j])
          BY <2>6, <3>1 DEF Inv, Asleep, Matches
        <4>2. QED
          BY <2>1, <2>5, <4>1 DEF Matches, Places, Pushes, Guest
      <3>3. ASSUME NEW j \in DOMAIN frames[w], j > f - 1
            PROVE  frames'[w][j] = Guest(calls[w][j])
        <4>1. CASE j = f
          BY <2>6, <3>1, <4>1
        <4>2. CASE j # f
          <5>1. j > f
            BY <2>1, <3>3, <4>2
          <5>2. QED
            BY <2>6, <4>2, <5>1 DEF Inv, Asleep
        <4>3. QED
          BY <4>1, <4>2
      <3>4. f - 1 <= Len(frames'[w])
        BY <2>1, <2>5 DEF Inv, Asleep
      <3>5. QED
        BY <1>1, <2>1, <2>5, <3>2, <3>3, <3>4 DEF Inv, Asleep, Guest
    <2>11. Behind'
      <3>1. ASSUME NEW t \in passed PROVE t # w /\ t \in Thread
        BY WalkedThread DEF Inv, Behind, Walked, Types
      <3>2. QED
        BY <1>1, <2>4, <3>1 DEF Inv, Behind, GivenBack, Guest
    <2>12. QED
      BY <1>1, <2>7, <2>8, <2>9, <2>10, <2>11 DEF Inv
  <1>4. QED
    BY <1>2, <1>3

\* A place in a block gives the guest's address.
LEMMA TcFrameStep ==
  ASSUME CallEndsBlock, Inv, TcFrame PROVE Inv'
  <1>1. /\ walk.at \in DOMAIN Threads /\ Holds /\ ~IsGuest(RetEip) /\ ~InEdge(RetEip)
        /\ frames' = Replaced(TcPtrToEipVirt(RetEip))
        /\ walk' = Outward /\ UNCHANGED <<sp, mode, calls, passed>>
    BY DEF TcFrame, Visits
  <1>2. walk.frame > 0 /\ RetEip \in Address
    BY <1>1, WalkedThread DEF Holds, RetEip
  <1>3. PICK call \in Calls : RetEip \in Places(call) /\ RetEip.call = call
    BY <1>2, PlacesOfCalls
  <1>4. TcPtrToEipVirt(RetEip) = Guest(call) /\ Guest(call) \in Address
    BY <1>1, <1>3, GuestOfPlace DEF Places, Address
  <1>5. walk.slept => call = calls[Walked][walk.frame]
    BY <1>1, <1>2, <1>3, AsleepHolds, OfItsCall
  <1>6. QED
    BY <1>1, <1>2, <1>4, <1>5, WriteFrame

\* A chained jump leads to the guest's address of the frame it was found from.
LEMMA FetchChainedStep ==
  ASSUME CallEndsBlock, Inv, FetchChained PROVE Inv'
  <1>1. /\ walk.phase = "fetch" /\ frames' = Replaced(Guest(walk.eip.call))
        /\ walk' = Outward /\ UNCHANGED <<sp, mode, calls, passed>>
    BY DEF FetchChained, Decodes
  <1>2. walk.at \in DOMAIN Threads /\ walk.frame > 0 /\ walk.eip.call \in Calls
    BY <1>1 DEF Inv, Position
  <1>3. Guest(walk.eip.call) \in Address
    BY <1>2 DEF Places, Address
  <1>4. walk.slept => walk.eip.call = calls[Walked][walk.frame]
    BY <1>1, <1>2 DEF Inv, Asleep
  <1>5. QED
    BY <1>1, <1>2, <1>3, <1>4, WriteFrame

\* The walk follows the address into edge code.
LEMMA EdgeFrameStep ==
  ASSUME CallEndsBlock, Inv, EdgeFrame PROVE Inv'
  <1>1. /\ walk.at \in DOMAIN Threads /\ Holds
        /\ walk' = [walk EXCEPT !.phase = "fetch", !.eip = RetEip, !.left = 10]
        /\ UNCHANGED <<frames, sp, mode, calls, passed>>
    BY DEF EdgeFrame, Visits
  <1>2. walk.frame > 0 /\ RetEip \in Address
    BY <1>1, WalkedThread DEF Holds, RetEip
  <1>3. PICK call \in Calls : RetEip \in Places(call) /\ RetEip.call = call
    BY <1>2, PlacesOfCalls
  <1>4. RetEip = [call |-> RetEip.call, line |-> RetEip.line]
    BY <1>3, OfItsCall
  <1>5. /\ walk'.at = walk.at /\ walk'.frame = walk.frame
        /\ walk'.slept = walk.slept /\ walk'.phase = "fetch" /\ walk'.eip = RetEip
        /\ Fields(walk')
    BY <1>1, <1>4 DEF Inv, Types, Fields
  <1>6. Position'
    BY <1>1, <1>2, <1>3, <1>5 DEF Position
  <1>7. walk.slept => RetEip.call = calls[Walked][walk.frame]
    BY <1>1, <1>2, AsleepHolds, OfItsCall
  <1>8. Asleep'
    <2> SUFFICES ASSUME walk.slept PROVE Asleep'
      BY <1>5 DEF Asleep
    <2>1. Walked' = Walked
      BY <1>5 DEF Walked
    <2>2. Matches(Walked)'
      BY <1>1, <2>1 DEF Inv, Asleep, Matches, Places, Pushes, Guest
    <2>3. /\ mode[Walked] = "asleep" /\ walk.frame <= Len(frames[Walked])
          /\ \A i \in DOMAIN frames[Walked] :
               i > walk.frame => frames[Walked][i] = Guest(calls[Walked][i])
      BY <1>1 DEF Inv, Asleep
    <2>4. QED
      BY <1>1, <1>5, <1>7, <2>1, <2>2, <2>3 DEF Asleep, Guest
  <1>9. QED
    BY <1>1, <1>5, <1>6, <1>8, WalkOnly

\* An instruction of edge code, of the same call.
LEMMA FetchStep ==
  ASSUME CallEndsBlock, Inv, walk.phase = "fetch",
         UNCHANGED <<frames, sp, mode, calls, passed>>,
         Fields(walk'), walk'.at = walk.at, walk'.frame = walk.frame,
         walk'.slept = walk.slept, walk'.phase \in {"fetch", "lost"},
         walk'.eip.call = walk.eip.call
  PROVE  Inv'
  <1>1. Position'
    BY DEF Inv, Position
  <1>2. Asleep'
    <2> SUFFICES ASSUME walk.at \in DOMAIN Threads, walk.slept PROVE Asleep'
      BY DEF Asleep
    <2>1. Walked' = Walked
      BY DEF Walked
    <2>2. Matches(Walked)'
      BY <2>1 DEF Inv, Asleep, Matches, Places, Pushes, Guest
    <2>3. /\ mode[Walked] = "asleep" /\ walk.frame <= Len(frames[Walked])
          /\ \A i \in DOMAIN frames[Walked] :
               i > walk.frame => frames[Walked][i] = Guest(calls[Walked][i])
          /\ walk.eip.call = calls[Walked][walk.frame]
      BY DEF Inv, Asleep
    <2>4. QED
      BY <2>1, <2>2, <2>3 DEF Asleep, Guest
  <1>3. QED
    BY <1>1, <1>2, WalkOnly

LEMMA GoOnStep ==
  ASSUME CallEndsBlock, Inv, walk.phase = "fetch", NEW line, GoOn(line) PROVE Inv'
  <1>1. /\ walk' = [walk EXCEPT !.eip.line = line, !.left = @ - 1]
        /\ UNCHANGED <<frames, sp, mode, calls, passed>>
    BY DEF GoOn
  <1>2. /\ Fields(walk') /\ walk'.at = walk.at /\ walk'.frame = walk.frame
        /\ walk'.slept = walk.slept /\ walk'.phase = walk.phase
        /\ walk'.eip.call = walk.eip.call
    BY <1>1 DEF Inv, Types, Fields
  <1>3. QED
    BY <1>1, <1>2, FetchStep

LEMMA SkipLabelStep ==
  ASSUME CallEndsBlock, Inv, SkipLabel PROVE Inv'
  <1>1. /\ walk.phase = "fetch" /\ walk' = [walk EXCEPT !.eip.line = @ + 1]
        /\ UNCHANGED <<frames, sp, mode, calls, passed>>
    BY DEF SkipLabel, Decodes
  <1>2. /\ Fields(walk') /\ walk'.at = walk.at /\ walk'.frame = walk.frame
        /\ walk'.slept = walk.slept /\ walk'.phase = walk.phase
        /\ walk'.eip.call = walk.eip.call
    BY <1>1 DEF Inv, Types, Fields
  <1>3. QED
    BY <1>1, <1>2, FetchStep

LEMMA FetchMemoryStep ==
  ASSUME CallEndsBlock, Inv, FetchMemory PROVE Inv'
  <1>1. /\ walk.phase = "fetch" /\ walk' = [walk EXCEPT !.phase = "lost"]
        /\ UNCHANGED <<frames, sp, mode, calls, passed>>
    BY DEF FetchMemory, Decodes
  <1>2. /\ Fields(walk') /\ walk'.at = walk.at /\ walk'.frame = walk.frame
        /\ walk'.slept = walk.slept /\ walk'.phase = "lost"
        /\ walk'.eip.call = walk.eip.call
    BY <1>1 DEF Inv, Types, Fields
  <1>3. QED
    BY <1>1, <1>2, FetchStep

LEMMA FreeCodeStep ==
  ASSUME CallEndsBlock, Inv, FreeCode PROVE Inv'
  <1>1. /\ walk.at > Len(Threads) /\ walk' = [walk EXCEPT !.phase = "freed"]
        /\ UNCHANGED <<frames, sp, mode, calls, passed>>
    BY DEF FreeCode
  <1>2. Fields(walk') /\ walk'.at = walk.at /\ walk'.phase = "freed"
    BY <1>1 DEF Inv, Types, Fields
  <1>3. walk.at \notin DOMAIN Threads
    BY <1>1 DEF CallEndsBlock
  <1>4. Position' /\ Asleep'
    BY <1>2, <1>3 DEF Position, Asleep
  <1>5. QED
    BY <1>1, <1>2, <1>4, WalkOnly

----------------------------------------------------------------------------
LEMMA WalksStep ==
  ASSUME CallEndsBlock, Inv, Walks PROVE Inv'
  <1>1. CASE StopBt
    BY <1>1, StopBtStep
  <1>2. CASE NextThread
    BY <1>2, NextThreadStep
  <1>3. CASE NativeFrame
    BY <1>3, NativeFrameStep
  <1>4. CASE TcFrame
    BY <1>4, TcFrameStep
  <1>5. CASE EdgeFrame
    BY <1>5, EdgeFrameStep
  <1>6. CASE SkipLabel
    BY <1>6, SkipLabelStep
  <1>7. CASE FetchOther \/ FetchJump
    BY <1>7, GoOnStep DEF FetchOther, FetchJump, Decodes
  <1>8. CASE FetchChained
    BY <1>8, FetchChainedStep
  <1>9. CASE FetchMemory
    BY <1>9, FetchMemoryStep
  <1>10. CASE FreeCode
    BY <1>10, FreeCodeStep
  <1>11. QED
    BY <1>1, <1>2, <1>3, <1>4, <1>5, <1>6, <1>7, <1>8, <1>9, <1>10 DEF Walks

LEMMA GuestsStep ==
  ASSUME CallEndsBlock, Inv, NEW t \in Thread, Guests(t) PROVE Inv'
  BY EnterStep, CallOutStep, ReturnStep, SleepStep, WakeStep DEF Guests

LEMMA StutterStep ==
  ASSUME Inv, UNCHANGED stackVars PROVE Inv'
  <1> USE DEF stackVars, Inv
  <1>1. \A u : Matches(u)' <=> Matches(u)
    BY DEF Matches, Places, Pushes, Guest
  <1>2. Types' /\ Lengths' /\ Position'
    BY DEF Types, Lengths, Position, Fields
  <1>3. Ahead' /\ Behind'
    BY <1>1 DEF Ahead, Behind, GivenBack, Guest
  <1>4. Asleep'
    BY <1>1 DEF Asleep, Walked, Guest
  <1>5. QED
    BY <1>2, <1>3, <1>4

LEMMA NextStep == CallEndsBlock /\ Inv /\ [StacksNext]_stackVars => Inv'
  BY WalksStep, GuestsStep, StutterStep DEF StacksNext

THEOREM Invariance == CallEndsBlock /\ StacksSpec => []Inv
  <1> SUFFICES ASSUME CallEndsBlock PROVE StacksSpec => []Inv
    OBVIOUS
  <1>1. StacksInit => Inv
    BY InitInv
  <1>2. Inv /\ [StacksNext]_stackVars => Inv'
    BY NextStep
  <1>3. QED
    BY <1>1, <1>2, PTL DEF StacksSpec

\* A thread that sleeps while push_orig_eips goes through its stack, and since,
\* returns to the guest's address behind each of its calls, whatever other
\* threads call, return from and chain meanwhile, and wherever the places are
\* that its calls pushed.
THEOREM Restoring == CallEndsBlock /\ StacksSpec => []RestoresReturns
  <1>1. Inv => RestoresReturns
    <2> SUFFICES ASSUME Inv, NEW t \in passed
                 PROVE  frames[t] = [i \in DOMAIN calls[t] |-> Guest(calls[t][i])]
      BY DEF RestoresReturns
    <2>1. /\ frames[t] \in Seq(Address) /\ calls[t] \in Seq(Calls)
          /\ Len(frames[t]) = Len(calls[t])
      BY DEF Inv, Types, Lengths
    <2>2. GivenBack(t)
      BY DEF Inv, Behind
    <2>3. DOMAIN frames[t] = DOMAIN calls[t]
      BY <2>1
    <2>4. QED
      BY <2>1, <2>2, <2>3 DEF GivenBack
  <1>2. QED
    BY Invariance, <1>1, PTL

(***************************************************************************)
(* Bisection.  What a search finds is shown by the shortest interval for   *)
(* which it would be wrong.                                                *)
(***************************************************************************)

\* A set of natural numbers has a least one.
LEMMA Least ==
  ASSUME NEW T \in SUBSET Nat, T # {}
  PROVE  \E m \in T : \A k \in T : m <= k
  <1> DEFINE R == StrictSubsetOrdering(Nat)
             Below(n) == 0 .. n
             U == {Below(n) : n \in T}
  <1>1. \A n \in T : Below(n) \in FiniteSubsetsOf(Nat)
    BY FS_Interval DEF FiniteSubsetsOf
  <1>2. U \subseteq FiniteSubsetsOf(Nat) /\ U # {}
    <2> HIDE DEF Below
    <2>1. QED
      BY <1>1
  <1>3. IsWellFoundedOn(R, FiniteSubsetsOf(Nat))
    BY FS_StrictSubsetOrderingWellFounded
  <1>4. PICK x \in U : \A y \in U : ~ (<<y, x>> \in R)
    <2> HIDE DEF R, U
    <2>1. QED
      BY <1>2, <1>3, WFMin
  <1>5. PICK m \in T : x = Below(m)
    OBVIOUS
  <1>6. ASSUME NEW k \in T, k < m PROVE FALSE
    <2>1. /\ Below(k) \subseteq Below(m) /\ Below(k) # Below(m)
          /\ Below(k) \in SUBSET Nat /\ Below(m) \in SUBSET Nat
      BY <1>6
    <2>2. <<Below(k), Below(m)>> \in R
      BY <2>1 DEF StrictSubsetOrdering
    <2>3. QED
      BY <1>4, <1>5, <2>2
  <1>7. QED
    BY <1>6

\* Where a key is between two places.
Has(k, first, last, key, x) == k \in first .. last /\ key[k] = x

\* What a search should find there.
Meant(first, last, key, entry, x, none) ==
  IF \E k : Has(k, first, last, key, x)
  THEN entry[CHOOSE k : Has(k, first, last, key, x)] ELSE none

Ascends(key, lo, hi) ==
  /\ lo \in Int /\ hi \in Int
  /\ \A k \in lo .. hi : key[k] \in Int
  /\ \A j, k \in lo .. hi : j < k => key[j] < key[k]

\* first and last as they may be in a search from lo to hi.
Within(first, last, lo, hi) == first \in lo .. hi + 1 /\ last \in lo - 1 .. hi

\* The place of a key in an ascending table is the only one.
LEMMA OnePlace ==
  ASSUME NEW lo, NEW hi, NEW key, NEW x, Ascends(key, lo, hi),
         NEW first, NEW last, Within(first, last, lo, hi),
         NEW j, Has(j, first, last, key, x), NEW k, Has(k, first, last, key, x)
  PROVE  j = k
  <1>1. /\ lo \in Int /\ hi \in Int /\ first \in Int /\ last \in Int
        /\ lo <= first /\ last <= hi
    BY DEF Ascends, Within
  <1>2. j \in lo .. hi /\ k \in lo .. hi /\ j \in Int /\ k \in Int
    BY <1>1 DEF Has
  <1>3. key[j] = key[k] /\ key[j] \in Int
    BY <1>2 DEF Has, Ascends
  <1>4. ~(j < k) /\ ~(k < j)
    BY <1>2, <1>3 DEF Ascends
  <1>5. QED
    BY <1>2, <1>4

LEMMA MeantEntry ==
  ASSUME NEW lo, NEW hi, NEW key, NEW entry, NEW x, NEW none, Ascends(key, lo, hi),
         NEW first, NEW last, Within(first, last, lo, hi),
         NEW k, Has(k, first, last, key, x)
  PROVE  Meant(first, last, key, entry, x, none) = entry[k]
  <1> DEFINE found == CHOOSE j : Has(j, first, last, key, x)
  <1>1. Has(found, first, last, key, x)
    OBVIOUS
  <1>2. found = k
    <2> HIDE DEF found
    <2>1. QED
      BY <1>1, OnePlace
  <1>3. QED
    BY <1>2 DEF Meant

LEMMA MeantNone ==
  ASSUME NEW first, NEW last, NEW key, NEW entry, NEW x, NEW none,
         \A k : ~Has(k, first, last, key, x)
  PROVE  Meant(first, last, key, entry, x, none) = none
  BY DEF Meant

\* Places that have the key in common have the same entry meant.
LEMMA MeantSame ==
  ASSUME NEW lo, NEW hi, NEW key, NEW entry, NEW x, NEW none, Ascends(key, lo, hi),
         NEW first, NEW last, Within(first, last, lo, hi),
         NEW from, NEW to, Within(from, to, lo, hi),
         \A k : Has(k, first, last, key, x) <=> Has(k, from, to, key, x)
  PROVE  Meant(first, last, key, entry, x, none) = Meant(from, to, key, entry, x, none)
  <1>1. CASE \E k : Has(k, first, last, key, x)
    <2>1. PICK k : Has(k, first, last, key, x)
      BY <1>1
    <2>2. Has(k, from, to, key, x)
      BY <2>1
    <2>3. Meant(first, last, key, entry, x, none) = entry[k]
      BY <2>1, MeantEntry
    <2>4. Meant(from, to, key, entry, x, none) = entry[k]
      BY <2>2, MeantEntry
    <2>5. QED
      BY <2>3, <2>4
  <1>2. CASE \A k : ~Has(k, first, last, key, x)
    BY <1>2, MeantNone
  <1>3. QED
    BY <1>1, <1>2

\* One call of a search: nothing is left, the middle has the key, or one of the
\* halves is searched.
Middle(first, last) == (first + last) \div 2
Call(res, upper, lower, first, last, key, entry, x, none) ==
  LET mid == Middle(first, last)
  IN  /\ first > last => res = none
      /\ first <= last =>
           /\ key[mid] = x => res = entry[mid]
           /\ key[mid] < x => res = upper
           /\ key[mid] > x => res = lower

LEMMA MiddleWithin ==
  ASSUME NEW lo, NEW hi, NEW key, Ascends(key, lo, hi),
         NEW first, NEW last, Within(first, last, lo, hi), first <= last
  PROVE  /\ Middle(first, last) \in first .. last /\ Middle(first, last) \in lo .. hi
         /\ Within(Middle(first, last) + 1, last, lo, hi)
         /\ Within(first, Middle(first, last) - 1, lo, hi)
         /\ first + (last - first) \div 2 = Middle(first, last)
         /\ first \in Int /\ last \in Int /\ lo \in Int /\ hi \in Int
         /\ Middle(first, last) \in Int /\ key[Middle(first, last)] \in Int
  <1>1. /\ lo \in Int /\ hi \in Int /\ first \in Int /\ last \in Int
        /\ lo <= first /\ last <= hi /\ first <= hi + 1 /\ lo - 1 <= last
    BY DEF Ascends, Within
  <1> DEFINE mid == Middle(first, last)
  <1>2. mid \in Int /\ first <= mid /\ mid <= last
        /\ first + (last - first) \div 2 = mid
    BY <1>1 DEF Middle
  <1> HIDE DEF mid
  <1>3. mid \in lo .. hi /\ mid \in first .. last
    BY <1>1, <1>2
  <1>4. Within(mid + 1, last, lo, hi) /\ Within(first, mid - 1, lo, hi)
    BY <1>1, <1>2 DEF Within
  <1>5. key[mid] \in Int
    BY <1>3 DEF Ascends
  <1>6. QED
    BY <1>1, <1>2, <1>3, <1>4, <1>5 DEF mid

\* In an ascending table the key can only be in the half that is searched.
LEMMA MeantCall ==
  ASSUME NEW lo, NEW hi, NEW key, NEW entry, NEW x \in Int, NEW none,
         Ascends(key, lo, hi),
         NEW first, NEW last, Within(first, last, lo, hi)
  PROVE  Call(Meant(first, last, key, entry, x, none),
              Meant(Middle(first, last) + 1, last, key, entry, x, none),
              Meant(first, Middle(first, last) - 1, key, entry, x, none),
              first, last, key, entry, x, none)
  <1> DEFINE mid == Middle(first, last)
  <1>1. first \in Int /\ last \in Int
    BY DEF Ascends, Within
  <1>2. ASSUME first > last
        PROVE  Meant(first, last, key, entry, x, none) = none
    <2>1. \A k : ~Has(k, first, last, key, x)
      BY <1>1, <1>2 DEF Has
    <2>2. QED
      BY <2>1, MeantNone
  <1>3. ASSUME first <= last, key[mid] = x
        PROVE  Meant(first, last, key, entry, x, none) = entry[mid]
    <2>1. Has(mid, first, last, key, x)
      BY <1>3, MiddleWithin DEF Has
    <2> HIDE DEF mid
    <2>2. QED
      BY <2>1, MeantEntry
  <1>4. ASSUME first <= last, key[mid] < x
        PROVE  Meant(first, last, key, entry, x, none)
                 = Meant(mid + 1, last, key, entry, x, none)
    <2>1. /\ mid \in first .. last /\ mid \in lo .. hi /\ mid \in Int
          /\ Within(mid + 1, last, lo, hi) /\ key[mid] \in Int
          /\ lo \in Int /\ hi \in Int
      BY <1>4, MiddleWithin
    <2> HIDE DEF mid
    <2>2. lo <= first /\ last <= hi
      BY <2>1 DEF Within
    <2>3. ASSUME NEW k, Has(k, first, last, key, x) PROVE Has(k, mid + 1, last, key, x)
      <3>1. k \in Int /\ first <= k /\ k <= last /\ key[k] = x
        BY <1>1, <2>3 DEF Has
      <3>2. k # mid
        BY <1>4, <2>1, <3>1
      <3>3. ~(k < mid)
        <4>1. k \in lo .. hi
          BY <1>1, <2>1, <2>2, <3>1
        <4>2. QED
          BY <1>4, <2>1, <3>1, <4>1 DEF Ascends
      <3>4. QED
        BY <1>1, <2>1, <3>1, <3>2, <3>3 DEF Has
    <2>4. \A k : Has(k, mid + 1, last, key, x) => Has(k, first, last, key, x)
      BY <1>1, <2>1 DEF Has
    <2>5. QED
      BY <2>1, <2>3, <2>4, MeantSame
  <1>5. ASSUME first <= last, key[mid] > x
        PROVE  Meant(first, last, key, entry, x, none)
                 = Meant(first, mid - 1, key, entry, x, none)
    <2>1. /\ mid \in first .. last /\ mid \in lo .. hi /\ mid \in Int
          /\ Within(first, mid - 1, lo, hi) /\ key[mid] \in Int
          /\ lo \in Int /\ hi \in Int
      BY <1>5, MiddleWithin
    <2> HIDE DEF mid
    <2>2. lo <= first /\ last <= hi
      BY <1>1, <2>1 DEF Within
    <2>3. ASSUME NEW k, Has(k, first, last, key, x) PROVE Has(k, first, mid - 1, key, x)
      <3>1. k \in Int /\ first <= k /\ k <= last /\ key[k] = x
        BY <1>1, <2>3 DEF Has
      <3>2. k # mid
        BY <1>5, <2>1, <3>1
      <3>3. ~(mid < k)
        <4>1. k \in lo .. hi
          BY <1>1, <2>1, <2>2, <3>1
        <4>2. QED
          BY <1>5, <2>1, <3>1, <4>1 DEF Ascends
      <3>4. QED
        BY <1>1, <2>1, <3>1, <3>2, <3>3 DEF Has
    <2>4. \A k : Has(k, first, mid - 1, key, x) => Has(k, first, last, key, x)
      BY <1>1, <2>1 DEF Has
    <2>5. QED
      BY <2>1, <2>3, <2>4, MeantSame
  <1>6. QED
    <2> HIDE DEF mid
    <2>1. mid = Middle(first, last)
      BY DEF mid
    <2>2. QED
      BY <1>2, <1>3, <1>4, <1>5, <2>1, Zenon DEF Call

\* A function with these calls, and what it returns for an interval.
Searches(probe, lo, hi, key, entry, x, none) ==
  \A first, last : Within(first, last, lo, hi) =>
    Call(probe[<<first, last>>], probe[<<Middle(first, last) + 1, last>>],
         probe[<<first, Middle(first, last) - 1>>], first, last, key, entry, x, none)

Wrong(probe, first, last, key, entry, x, none) ==
  probe[<<first, last>>] # Meant(first, last, key, entry, x, none)

\* If an interval is wrong a shorter one is.
LEMMA WrongHalf ==
  ASSUME NEW lo, NEW hi, NEW key, NEW entry, NEW x \in Int, NEW none,
         Ascends(key, lo, hi), NEW probe, Searches(probe, lo, hi, key, entry, x, none),
         NEW first, NEW last, Within(first, last, lo, hi),
         Wrong(probe, first, last, key, entry, x, none)
  PROVE  /\ first \in Int /\ last \in Int /\ first <= last
         /\ \E from, to : /\ Within(from, to, lo, hi)
                          /\ Wrong(probe, from, to, key, entry, x, none)
                          /\ from \in Int /\ to \in Int /\ to - from < last - first
  <1> DEFINE mid == Middle(first, last)
             M(f, l) == Meant(f, l, key, entry, x, none)
  <1>1. first \in Int /\ last \in Int
    BY DEF Ascends, Within
  <1>2. Call(probe[<<first, last>>], probe[<<mid + 1, last>>], probe[<<first, mid - 1>>],
             first, last, key, entry, x, none)
    BY DEF Searches
  <1>3. Call(M(first, last), M(mid + 1, last), M(first, mid - 1),
             first, last, key, entry, x, none)
    BY MeantCall
  <1>4. probe[<<first, last>>] # M(first, last)
    BY DEF Wrong
  <1> HIDE DEF M
  <1>5. first <= last
    <2>1. first > last => probe[<<first, last>>] = M(first, last)
      BY <1>2, <1>3 DEF Call
    <2>2. QED
      BY <1>1, <1>4, <2>1
  <1>6. /\ mid \in first .. last /\ mid \in Int /\ key[mid] \in Int
        /\ Within(mid + 1, last, lo, hi) /\ Within(first, mid - 1, lo, hi)
    BY <1>5, MiddleWithin
  <1>7. \/ probe[<<mid + 1, last>>] # M(mid + 1, last)
        \/ probe[<<first, mid - 1>>] # M(first, mid - 1)
    <2> DEFINE a == probe[<<first, last>>]
               r == probe[<<mid + 1, last>>]
               l == probe[<<first, mid - 1>>]
    <2>1. /\ key[mid] = x => a = entry[mid] /\ M(first, last) = entry[mid]
          /\ key[mid] < x => a = r /\ M(first, last) = M(mid + 1, last)
          /\ key[mid] > x => a = l /\ M(first, last) = M(first, mid - 1)
      <3> HIDE DEF a, r, l
      <3>1. /\ Call(a, r, l, first, last, key, entry, x, none)
        BY <1>2 DEF a, r, l
      <3>2. QED
        BY <1>3, <1>5, <3>1 DEF Call
    <2>2. a # M(first, last)
      BY <1>4
    <2>3. key[mid] = x \/ key[mid] < x \/ key[mid] > x
      BY <1>6
    <2> HIDE DEF a, r, l, mid
    <2>4. r # M(mid + 1, last) \/ l # M(first, mid - 1)
      BY <2>1, <2>2, <2>3
    <2>5. QED
      BY <2>4 DEF r, l
  <1> HIDE DEF mid
  <1>8. CASE probe[<<mid + 1, last>>] # M(mid + 1, last)
    <2>1. Wrong(probe, mid + 1, last, key, entry, x, none)
      BY <1>8 DEF Wrong, M
    <2>2. mid + 1 \in Int /\ last - (mid + 1) < last - first
      BY <1>1, <1>6
    <2>3. QED
      BY <1>1, <1>5, <1>6, <2>1, <2>2
  <1>9. CASE probe[<<first, mid - 1>>] # M(first, mid - 1)
    <2>1. Wrong(probe, first, mid - 1, key, entry, x, none)
      BY <1>9 DEF Wrong, M
    <2>2. mid - 1 \in Int /\ (mid - 1) - first < last - first
      BY <1>1, <1>6
    <2>3. QED
      BY <1>1, <1>5, <1>6, <2>1, <2>2
  <1>10. QED
    BY <1>7, <1>8, <1>9

\* So none is.
LEMMA Bisection ==
  ASSUME NEW lo, NEW hi, NEW key, NEW entry, NEW x \in Int, NEW none,
         Ascends(key, lo, hi), NEW probe, Searches(probe, lo, hi, key, entry, x, none),
         NEW first, NEW last, Within(first, last, lo, hi)
  PROVE  probe[<<first, last>>] = Meant(first, last, key, entry, x, none)
  <1> DEFINE W(f, l) == /\ Within(f, l, lo, hi) /\ f \in Int /\ l \in Int
                        /\ Wrong(probe, f, l, key, entry, x, none)
             T == {n \in Nat : \E f, l : W(f, l) /\ n = l - f}
  <1> SUFFICES ASSUME Wrong(probe, first, last, key, entry, x, none) PROVE FALSE
    BY DEF Wrong
  <1>1. ASSUME NEW f, NEW l, W(f, l)
        PROVE  /\ l - f \in T
               /\ \E from, to : W(from, to) /\ to - from < l - f
    <2>1. /\ f \in Int /\ l \in Int /\ f <= l
          /\ \E from, to : /\ Within(from, to, lo, hi)
                           /\ Wrong(probe, from, to, key, entry, x, none)
                           /\ from \in Int /\ to \in Int /\ to - from < l - f
      BY <1>1, WrongHalf
    <2>2. l - f \in Nat
      BY <2>1
    <2> HIDE DEF W
    <2>3. l - f \in T
      BY <1>1, <2>2
    <2> USE DEF W
    <2>4. QED
      BY <2>1, <2>3
  <1>2. W(first, last)
    BY WrongHalf
  <1> HIDE DEF W
  <1>3. T \in SUBSET Nat /\ T # {}
    BY <1>1, <1>2
  <1>4. PICK m \in T : \A k \in T : m <= k
    <2> HIDE DEF T
    <2>1. QED
      BY <1>3, Least
  <1>5. PICK f, l : W(f, l) /\ m = l - f
    BY <1>4
  <1>6. PICK from, to : W(from, to) /\ to - from < l - f
    BY <1>1, <1>5
  <1>7. to - from \in T
    BY <1>1, <1>6
  <1>8. m <= to - from /\ m \in Nat /\ to - from \in Nat
    BY <1>4, <1>7
  <1>9. QED
    BY <1>5, <1>6, <1>8

\* A recursive function with these calls is what it should be: there is one,
\* and every one is.
MeantFcn(S, key, entry, x, none) == [i \in S |-> Meant(i[1], i[2], key, entry, x, none)]
LEMMA MeantSearches ==
  ASSUME NEW lo, NEW hi, NEW key, NEW entry, NEW x \in Int, NEW none,
         Ascends(key, lo, hi), NEW S, S = (lo .. hi + 1) \X (lo - 1 .. hi)
  PROVE  Searches(MeantFcn(S, key, entry, x, none), lo, hi, key, entry, x, none)
  <1> DEFINE probe == MeantFcn(S, key, entry, x, none)
  <1>1. ASSUME NEW first, NEW last, Within(first, last, lo, hi)
        PROVE  probe[<<first, last>>] = Meant(first, last, key, entry, x, none)
    <2>1. <<first, last>> \in (lo .. hi + 1) \X (lo - 1 .. hi)
      BY <1>1 DEF Within
    <2>2. QED
      BY <2>1 DEF MeantFcn
  <1> HIDE DEF probe
  <1>2. ASSUME NEW first, NEW last, Within(first, last, lo, hi)
        PROVE  Call(probe[<<first, last>>], probe[<<Middle(first, last) + 1, last>>],
                    probe[<<first, Middle(first, last) - 1>>],
                    first, last, key, entry, x, none)
    <2>1. probe[<<first, last>>] = Meant(first, last, key, entry, x, none)
      BY <1>1, <1>2
    <2>2. CASE first <= last
      <3>1. /\ Within(Middle(first, last) + 1, last, lo, hi)
            /\ Within(first, Middle(first, last) - 1, lo, hi)
        BY <1>2, <2>2, MiddleWithin
      <3>2. /\ probe[<<Middle(first, last) + 1, last>>]
                 = Meant(Middle(first, last) + 1, last, key, entry, x, none)
            /\ probe[<<first, Middle(first, last) - 1>>]
                 = Meant(first, Middle(first, last) - 1, key, entry, x, none)
        BY <1>1, <3>1
      <3>3. QED
        BY <1>2, <2>1, <3>2, MeantCall
    <2>3. CASE ~(first <= last)
      <3>1. Call(Meant(first, last, key, entry, x, none),
                 Meant(Middle(first, last) + 1, last, key, entry, x, none),
                 Meant(first, Middle(first, last) - 1, key, entry, x, none),
                 first, last, key, entry, x, none)
        BY <1>2, MeantCall
      <3>2. QED
        BY <2>1, <2>3, <3>1 DEF Call
    <2>4. QED
      BY <2>2, <2>3
  <1>3. Searches(probe, lo, hi, key, entry, x, none)
    BY <1>2 DEF Searches
  <1>4. QED
    BY <1>3 DEF probe

----------------------------------------------------------------------------
(* The two searches are functions with these calls *)

\* __search_exception_tables, with the bounds of the table as it has them.
GuestKeys    == [k \in 0 .. num - 1 |-> table[k + 1].insn]
GuestEntries == [k \in 0 .. num - 1 |-> table[k + 1]]

FoundCall(addr, probe, i) ==
  LET first == i[1]
      last  == i[2]
      mid   == (first + last) \div 2
  IN  IF first > last THEN None
      ELSE IF table[mid + 1].insn = addr THEN table[mid + 1]
      ELSE IF table[mid + 1].insn < addr THEN probe[<<mid + 1, last>>]
      ELSE probe[<<first, mid - 1>>]

FoundCalls(addr, probe) ==
  probe = [i \in (0 .. num) \X (-1 .. num - 1) |-> FoundCall(addr, probe, i)]

\* One of its calls is one of a search.
LEMMA FoundIsCall ==
  ASSUME num \in Nat, NEW addr \in Int, Ascends(GuestKeys, 0, num - 1), NEW probe,
         NEW first, NEW last, Within(first, last, 0, num - 1), NEW res
  PROVE  res = FoundCall(addr, probe, <<first, last>>) <=>
           Call(res, probe[<<Middle(first, last) + 1, last>>],
                probe[<<first, Middle(first, last) - 1>>],
                first, last, GuestKeys, GuestEntries, addr, None)
  <1> DEFINE mid == Middle(first, last)
             upper == probe[<<mid + 1, last>>]
             lower == probe[<<first, mid - 1>>]
  <1>1. first \in Int /\ last \in Int
    BY DEF Within
  <1>2. FoundCall(addr, probe, <<first, last>>) =
          IF first > last THEN None
          ELSE IF table[mid + 1].insn = addr THEN table[mid + 1]
          ELSE IF table[mid + 1].insn < addr THEN upper ELSE lower
    BY DEF FoundCall, Middle
  <1> HIDE DEF upper, lower
  <1>3. CASE first > last
    BY <1>1, <1>2, <1>3 DEF Call
  <1>4. CASE first <= last
    <2>1. mid \in 0 .. num - 1 /\ GuestKeys[mid] \in Int
      BY <1>4, MiddleWithin
    <2> HIDE DEF mid
    <2>2. GuestKeys[mid] = table[mid + 1].insn /\ GuestEntries[mid] = table[mid + 1]
      BY <2>1 DEF GuestKeys, GuestEntries
    <2>3. res = FoundCall(addr, probe, <<first, last>>) <=>
            Call(res, upper, lower, first, last, GuestKeys, GuestEntries, addr, None)
      <3>1. mid = Middle(first, last)
        BY DEF mid
      <3>2. QED
        BY <1>1, <1>2, <1>4, <2>1, <2>2, <3>1 DEF Call
    <2>4. QED
      BY <2>3 DEF upper, lower, mid
  <1>5. QED
    BY <1>1, <1>3, <1>4 DEF upper, lower

LEMMA FoundMeant ==
  ASSUME num \in Nat, NEW addr \in Int, Ascends(GuestKeys, 0, num - 1)
  PROVE  Found(addr) = Meant(0, num - 1, GuestKeys, GuestEntries, addr, None)
  <1> DEFINE S == (0 .. num) \X (-1 .. num - 1)
             g == MeantFcn(S, GuestKeys, GuestEntries, addr, None)
             f == CHOOSE probe : FoundCalls(addr, probe)
  <1>1. S = (0 .. (num - 1) + 1) \X (0 - 1 .. num - 1)
    OBVIOUS
  <1>2. g = [i \in S |-> g[i]]
    BY DEF MeantFcn
  <1> HIDE DEF g
  <1>3. Searches(g, 0, num - 1, GuestKeys, GuestEntries, addr, None)
    BY <1>1, MeantSearches DEF g
  <1>4. FoundCalls(addr, g)
    <2>1. ASSUME NEW first, NEW last, <<first, last>> \in S
          PROVE  g[<<first, last>>] = FoundCall(addr, g, <<first, last>>)
      <3>1. Within(first, last, 0, num - 1)
        BY <2>1 DEF Within
      <3>2. Call(g[<<first, last>>], g[<<Middle(first, last) + 1, last>>],
                 g[<<first, Middle(first, last) - 1>>],
                 first, last, GuestKeys, GuestEntries, addr, None)
        BY <1>3, <3>1 DEF Searches
      <3>3. QED
        BY <3>1, <3>2, FoundIsCall
    <2>2. ASSUME NEW i \in S PROVE g[i] = FoundCall(addr, g, i)
      <3>1. PICK first, last : i = <<first, last>>
        OBVIOUS
      <3>2. QED
        BY <2>1, <3>1
    <2>3. QED
      BY <1>2, <2>2 DEF FoundCalls
  <1>5. FoundCalls(addr, f)
    <2> HIDE DEF g
    <2>1. QED
      BY <1>4, Zenon
  <1>6. Found(addr) = f[<<0, num - 1>>]
    BY DEF Found, FoundCalls, FoundCall
  <1> HIDE DEF f, g
  <1>7. Searches(f, 0, num - 1, GuestKeys, GuestEntries, addr, None)
    <2>1. ASSUME NEW first, NEW last, Within(first, last, 0, num - 1)
          PROVE  f[<<first, last>>] = FoundCall(addr, f, <<first, last>>)
      <3>1. <<first, last>> \in S
        BY <2>1 DEF Within
      <3>2. QED
        BY <1>5, <3>1 DEF FoundCalls
    <2>2. QED
      BY <2>1, FoundIsCall DEF Searches
  <1>8. Within(0, num - 1, 0, num - 1)
    BY DEF Within
  <1>9. QED
    BY <1>6, <1>7, <1>8, Bisection

\* search_extable, with the bounds of the module's table.
ModuleKeys    == [k \in 1 .. Len(extable) |-> InsnAddr(k)]
ModuleEntries == [k \in 1 .. Len(extable) |-> FixupAddr(k)]

FixupCall(eip, probe, i) ==
  LET first == i[1]
      last  == i[2]
      mid   == first + (last - first) \div 2
  IN  IF first > last THEN -1
      ELSE IF InsnAddr(mid) < eip THEN probe[<<mid + 1, last>>]
      ELSE IF InsnAddr(mid) > eip THEN probe[<<first, mid - 1>>]
      ELSE FixupAddr(mid)

FixupCalls(eip, probe) ==
  probe = [i \in (1 .. Len(extable) + 1) \X (0 .. Len(extable)) |-> FixupCall(eip, probe, i)]

LEMMA FixupIsCall ==
  ASSUME Len(extable) \in Nat, NEW eip \in Int, Ascends(ModuleKeys, 1, Len(extable)),
         NEW probe, NEW first, NEW last, Within(first, last, 1, Len(extable)), NEW res
  PROVE  res = FixupCall(eip, probe, <<first, last>>) <=>
           Call(res, probe[<<Middle(first, last) + 1, last>>],
                probe[<<first, Middle(first, last) - 1>>],
                first, last, ModuleKeys, ModuleEntries, eip, -1)
  <1> DEFINE mid == Middle(first, last)
             half == first + (last - first) \div 2
             upper == probe[<<mid + 1, last>>]
             lower == probe[<<first, mid - 1>>]
  <1>1. first \in Int /\ last \in Int
    BY DEF Within
  <1>2. FixupCall(eip, probe, <<first, last>>) =
          IF first > last THEN -1
          ELSE IF InsnAddr(half) < eip THEN probe[<<half + 1, last>>]
          ELSE IF InsnAddr(half) > eip THEN probe[<<first, half - 1>>]
          ELSE FixupAddr(half)
    BY DEF FixupCall
  <1>3. CASE first > last
    BY <1>1, <1>2, <1>3 DEF Call
  <1>4. CASE first <= last
    <2>1. mid \in 1 .. Len(extable) /\ ModuleKeys[mid] \in Int /\ half = mid
      BY <1>4, MiddleWithin
    <2> HIDE DEF mid, half
    <2>2. FixupCall(eip, probe, <<first, last>>) =
            IF first > last THEN -1
            ELSE IF InsnAddr(mid) < eip THEN upper
            ELSE IF InsnAddr(mid) > eip THEN lower ELSE FixupAddr(mid)
      BY <1>2, <2>1
    <2> HIDE DEF upper, lower
    <2>3. ModuleKeys[mid] = InsnAddr(mid) /\ ModuleEntries[mid] = FixupAddr(mid)
      BY <2>1 DEF ModuleKeys, ModuleEntries
    <2>4. res = FixupCall(eip, probe, <<first, last>>) <=>
            Call(res, upper, lower, first, last, ModuleKeys, ModuleEntries, eip, -1)
      <3>1. mid = Middle(first, last)
        BY DEF mid
      <3>2. QED
        BY <1>1, <1>4, <2>1, <2>2, <2>3, <3>1 DEF Call
    <2>5. QED
      BY <2>4 DEF upper, lower, mid
  <1>5. QED
    BY <1>1, <1>3, <1>4

LEMMA FixupMeant ==
  ASSUME Len(extable) \in Nat, NEW eip \in Int, Ascends(ModuleKeys, 1, Len(extable))
  PROVE  Fixup(eip) = Meant(1, Len(extable), ModuleKeys, ModuleEntries, eip, -1)
  <1> DEFINE n == Len(extable)
             S == (1 .. n + 1) \X (0 .. n)
             g == MeantFcn(S, ModuleKeys, ModuleEntries, eip, -1)
             f == CHOOSE probe : FixupCalls(eip, probe)
  <1>1. S = (1 .. n + 1) \X (1 - 1 .. n)
    OBVIOUS
  <1>2. g = [i \in S |-> g[i]]
    BY DEF MeantFcn
  <1> HIDE DEF g
  <1>3. Searches(g, 1, n, ModuleKeys, ModuleEntries, eip, -1)
    BY <1>1, MeantSearches DEF g
  <1>4. FixupCalls(eip, g)
    <2>1. ASSUME NEW first, NEW last, <<first, last>> \in S
          PROVE  g[<<first, last>>] = FixupCall(eip, g, <<first, last>>)
      <3>1. Within(first, last, 1, n)
        BY <2>1 DEF Within
      <3>2. Call(g[<<first, last>>], g[<<Middle(first, last) + 1, last>>],
                 g[<<first, Middle(first, last) - 1>>],
                 first, last, ModuleKeys, ModuleEntries, eip, -1)
        BY <1>3, <3>1 DEF Searches
      <3>3. QED
        BY <3>1, <3>2, FixupIsCall
    <2>2. ASSUME NEW i \in S PROVE g[i] = FixupCall(eip, g, i)
      <3>1. PICK first, last : i = <<first, last>>
        OBVIOUS
      <3>2. QED
        BY <2>1, <3>1
    <2>3. QED
      BY <1>2, <2>2 DEF FixupCalls
  <1>5. FixupCalls(eip, f)
    <2> HIDE DEF g
    <2>1. QED
      BY <1>4, Zenon
  <1>6. Fixup(eip) = f[<<1, n>>]
    BY DEF Fixup, FixupCalls, FixupCall
  <1> HIDE DEF f, g
  <1>7. Searches(f, 1, n, ModuleKeys, ModuleEntries, eip, -1)
    <2>1. ASSUME NEW first, NEW last, Within(first, last, 1, n)
          PROVE  f[<<first, last>>] = FixupCall(eip, f, <<first, last>>)
      <3>1. <<first, last>> \in S
        BY <2>1 DEF Within
      <3>2. QED
        BY <1>5, <3>1 DEF FixupCalls
    <2>2. QED
      BY <2>1, FixupIsCall DEF Searches
  <1>8. Within(1, n, 1, n)
    BY DEF Within
  <1>9. QED
    BY <1>6, <1>7, <1>8, Bisection

----------------------------------------------------------------------------
(***************************************************************************)
(* The invariant: the table of the guest ascends and has the entries of    *)
(* extable.txt, the code cache is laid out in the order of translation,    *)
(* and the table of the module has one entry for each instruction in it    *)
(* that has one in the guest, in that order, until it is full.             *)
(***************************************************************************)

Lines == 1 .. Len(user)

\* An instruction has one entry in extable.txt.
TextOK ==
  /\ user \in Seq({UserEntry(a) : a \in Addr})
  /\ \A i \in Lines : user[i].insn \in Addr /\ user[i] = UserEntry(user[i].insn)
  /\ \A i, j \in Lines : user[i].insn = user[j].insn => i = j

Copied ==
  /\ num = Len(user)
  /\ \A k \in Lines : \E i \in Lines : table[k] = user[i]
  /\ \A i \in Lines : \E k \in Lines : table[k] = user[i]
  /\ \A j, k \in Lines : j < k => table[j].insn < table[k].insn

\* Nothing is translated before.
Idle == (~inited => chunks = <<>>) /\ (chunks = <<>> => code = <<>>)

Instruction == [chunk : Nat, eip : Nat, addr : Addr]
Entry       == [insn : Nat, fixup : Nat]
Shapes == chunks \in Seq(ChunkBases) /\ code \in Seq(Instruction) /\ extable \in Seq(Entry)

\* The instructions of a chunk are in it, and those of the last one are behind
\* its free place.
Placed ==
  \A i \in DOMAIN code :
    LET c == code[i].chunk
    IN  /\ c \in DOMAIN chunks
        /\ chunks[c] <= code[i].eip /\ code[i].eip < chunks[c] + ChunkLen
        /\ c = Len(chunks) => code[i].eip < Eip

LaidOut ==
  \A i, j \in DOMAIN code : i < j =>
    \/ code[i].chunk < code[j].chunk
    \/ code[i].chunk = code[j].chunk /\ code[i].eip < code[j].eip

ChunksAscend == \A a, b \in DOMAIN chunks : a < b => chunks[a] < chunks[b]

\* Entry k is that of the instruction at place i.
EntryOf(k, i) ==
  /\ HasEntry(code[i].addr)
  /\ extable[k].insn = code[i].eip /\ extable[k].fixup = FixupOf(code[i].addr)

Listed ==
  /\ \A k \in DOMAIN extable : \E i \in DOMAIN code : EntryOf(k, i)
  /\ Len(extable) < MAX_EXTABLE_EIPS =>
       \A i \in DOMAIN code : HasEntry(code[i].addr) => \E k \in DOMAIN extable : EntryOf(k, i)

EntriesAscend ==
  \A j, k \in DOMAIN extable : j < k => extable[j].insn < extable[k].insn

EInv ==
  /\ TextOK /\ (inited => Copied) /\ Idle /\ Shapes /\ Placed /\ LaidOut /\ Listed
  /\ Ascending => ChunksAscend /\ EntriesAscend

\* What the constants are (ChunksApart).
LEMMA ConstantsOK ==
  ASSUME ChunksApart
  PROVE  /\ IsFiniteSet(Addr) /\ Addr \subseteq Nat
         /\ MAX_EXTABLE_EIPS \in Nat /\ ChunkLen \in Nat /\ ChunkBases \subseteq Nat
         /\ \A b, c \in ChunkBases : b < c => b + ChunkLen <= c
  BY DEF ChunksApart

\* What the elements of the sequences are.
LEMMA ElementsOK ==
  ASSUME Shapes
  PROVE  /\ \A i \in DOMAIN code : /\ code[i] \in Instruction /\ code[i].chunk \in Nat
                                   /\ code[i].eip \in Nat /\ code[i].addr \in Addr
         /\ \A k \in DOMAIN extable : extable[k].insn \in Nat /\ extable[k].fixup \in Nat
         /\ Len(code) \in Nat /\ DOMAIN code = 1 .. Len(code)
         /\ Len(extable) \in Nat /\ DOMAIN extable = 1 .. Len(extable)
  <1>1. /\ \A i \in DOMAIN code : code[i] \in Instruction
        /\ \A k \in DOMAIN extable : extable[k] \in Entry
        /\ Len(code) \in Nat /\ DOMAIN code = 1 .. Len(code)
        /\ Len(extable) \in Nat /\ DOMAIN extable = 1 .. Len(extable)
    BY DEF Shapes
  <1>2. \A r \in Instruction : r.chunk \in Nat /\ r.eip \in Nat /\ r.addr \in Addr
    BY DEF Instruction
  <1>3. \A r \in Entry : r.insn \in Nat /\ r.fixup \in Nat
    BY DEF Entry
  <1>4. QED
    BY <1>1, <1>2, <1>3

\* An order of finitely many elements has each of them.
LEMMA OrderOnto ==
  ASSUME NEW n \in Nat, NEW p \in Orders(1 .. n)
  PROVE  /\ p \in [1 .. n -> 1 .. n]
         /\ \A i, j \in 1 .. n : p[i] = p[j] => i = j
         /\ \A i \in 1 .. n : \E k \in 1 .. n : p[k] = i
  <1>1. IsFiniteSet(1 .. n) /\ Cardinality(1 .. n) = n
    BY FS_Interval
  <1>2. p \in Injection(1 .. n, 1 .. n)
    BY <1>1 DEF Orders, Injection
  <1>3. p \in Surjection(1 .. n, 1 .. n)
    BY <1>1, <1>2, FS_Injection
  <1>4. QED
    BY <1>2, <1>3 DEF Injection, IsInjective, Surjection

LEMMA InitTextOK ==
  ASSUME ChunksApart, TablesInit
  PROVE  TextOK
  <1>1. PICK S \in SUBSET Addr : user \in {[i \in DOMAIN s |-> UserEntry(s[i])] : s \in Orders(S)}
    BY DEF TablesInit
  <1>2. PICK s \in Orders(S) : user = [i \in DOMAIN s |-> UserEntry(s[i])]
    BY <1>1
  <1> DEFINE n == Cardinality(S)
  <1>3. n \in Nat
    BY <1>1, ConstantsOK, FS_Subset, FS_CardinalityType
  <1>4. s \in [1 .. n -> S] /\ IsInjective(s)
    BY <1>2 DEF Orders
  <1> HIDE DEF n
  <1>5. user \in Seq({UserEntry(a) : a \in S}) /\ Len(user) = n
    BY <1>2, <1>3, <1>4
  <1>6. \A i \in 1 .. n : user[i] = UserEntry(s[i]) /\ user[i].insn = s[i] /\ s[i] \in S
    BY <1>2, <1>4 DEF UserEntry
  <1>7. QED
    BY <1>1, <1>3, <1>4, <1>5, <1>6 DEF TextOK, Lines, IsInjective

\* The sorted table.
LEMMA SortedCopied ==
  ASSUME ChunksApart, TextOK, NEW t \in Sorted(user)
  PROVE  /\ \A k \in Lines : \E i \in Lines : t[k] = user[i]
         /\ \A i \in Lines : \E k \in Lines : t[k] = user[i]
         /\ \A j, k \in Lines : j < k => t[j].insn < t[k].insn
  <1> DEFINE n == Len(user)
  <1>1. n \in Nat /\ Lines = 1 .. n /\ DOMAIN user = 1 .. n
    BY DEF TextOK, Lines
  <1>2. PICK p \in Orders(DOMAIN user) : t = [i \in DOMAIN user |-> user[p[i]]]
    BY DEF Sorted
  <1>3. \A i, j \in DOMAIN t : i < j => t[i].insn <= t[j].insn
    BY DEF Sorted
  <1>4. DOMAIN t = 1 .. n
    BY <1>1, <1>2
  <1> HIDE DEF n
  <1>5. /\ p \in [1 .. n -> 1 .. n]
        /\ \A i, j \in 1 .. n : p[i] = p[j] => i = j
        /\ \A i \in 1 .. n : \E k \in 1 .. n : p[k] = i
    BY <1>1, <1>2, OrderOnto
  <1>6. \A k \in 1 .. n : t[k] = user[p[k]] /\ p[k] \in 1 .. n
    BY <1>1, <1>2, <1>5
  <1>7. ASSUME NEW j \in 1 .. n, NEW k \in 1 .. n, j < k PROVE t[j].insn < t[k].insn
    <2>1. t[j].insn \in Nat /\ t[k].insn \in Nat
      BY <1>1, <1>6, ConstantsOK DEF TextOK
    <2>2. t[j].insn <= t[k].insn
      BY <1>3, <1>4, <1>7
    <2>3. j # k
      BY <1>7
    <2>4. p[j] # p[k] /\ p[j] \in Lines /\ p[k] \in Lines
      BY <1>1, <1>5, <1>6, <2>3
    <2>5. user[p[j]].insn # user[p[k]].insn
      BY <2>4 DEF TextOK
    <2>6. t[j].insn # t[k].insn
      BY <1>6, <2>5
    <2>7. QED
      BY <2>1, <2>2, <2>6
  <1>8. \A k \in 1 .. n : \E i \in 1 .. n : t[k] = user[i]
    BY <1>6
  <1>9. ASSUME NEW i \in 1 .. n PROVE \E k \in 1 .. n : t[k] = user[i]
    BY <1>5, <1>6
  <1>10. QED
    BY <1>1, <1>7, <1>8, <1>9

\* The search in translate finds the entry of an instruction that has one.
LEMMA FoundEntry ==
  ASSUME ChunksApart, TextOK, Copied, NEW addr \in Addr
  PROVE  Found(addr) = IF HasEntry(addr) THEN UserEntry(addr) ELSE None
  <1>1. addr \in Int /\ num \in Nat /\ num = Len(user) /\ Lines = 1 .. num
    BY ConstantsOK DEF TextOK, Copied, Lines
  <1>2. \A k \in 0 .. num - 1 :
          /\ k + 1 \in Lines /\ GuestKeys[k] = table[k + 1].insn /\ GuestEntries[k] = table[k + 1]
          /\ GuestKeys[k] \in Int
    <2>1. ASSUME NEW k \in 0 .. num - 1 PROVE k + 1 \in Lines
      BY <1>1
    <2>2. ASSUME NEW j \in Lines PROVE table[j].insn \in Int
      <3>1. PICK i \in Lines : table[j] = user[i]
        BY DEF Copied
      <3>2. user[i].insn \in Addr
        BY DEF TextOK
      <3>3. Addr \subseteq Int
        BY ConstantsOK
      <3>4. QED
        BY <3>1, <3>2, <3>3
    <2>3. QED
      BY <2>1, <2>2 DEF GuestKeys, GuestEntries
  <1>3. Ascends(GuestKeys, 0, num - 1)
    <2>1. ASSUME NEW j \in 0 .. num - 1, NEW k \in 0 .. num - 1, j < k
          PROVE  GuestKeys[j] < GuestKeys[k]
      <3>1. j + 1 \in Lines /\ k + 1 \in Lines /\ j + 1 < k + 1
        BY <1>1, <2>1
      <3>2. table[j + 1].insn < table[k + 1].insn
        BY <3>1 DEF Copied
      <3>3. QED
        BY <1>2, <3>2
    <2>2. QED
      BY <1>1, <1>2, <2>1, SMTT(30) DEF Ascends
  <1>4. Found(addr) = Meant(0, num - 1, GuestKeys, GuestEntries, addr, None)
    BY <1>1, <1>3, FoundMeant
  <1>5. CASE HasEntry(addr)
    <2>1. PICK i \in Lines : user[i] = UserEntry(addr)
      BY <1>5 DEF HasEntry, Contains, Lines
    <2>2. PICK k \in Lines : table[k] = UserEntry(addr)
      BY <2>1 DEF Copied
    <2> DEFINE j == k - 1
    <2>3. j \in 0 .. num - 1 /\ j + 1 = k
      BY <1>1
    <2> HIDE DEF j
    <2>4. GuestKeys[j] = addr /\ GuestEntries[j] = UserEntry(addr)
      BY <1>2, <2>2, <2>3 DEF UserEntry
    <2>5. Has(j, 0, num - 1, GuestKeys, addr)
      BY <2>3, <2>4 DEF Has
    <2>6. Within(0, num - 1, 0, num - 1)
      BY <1>1 DEF Within
    <2>7. QED
      BY <1>3, <1>4, <1>5, <2>4, <2>5, <2>6, MeantEntry
  <1>6. CASE ~HasEntry(addr)
    <2>1. ASSUME NEW k, Has(k, 0, num - 1, GuestKeys, addr) PROVE FALSE
      <3>1. k \in 0 .. num - 1 /\ k + 1 \in Lines /\ table[k + 1].insn = addr
        BY <1>2, <2>1 DEF Has
      <3>2. PICK i \in Lines : table[k + 1] = user[i]
        BY <3>1 DEF Copied
      <3>3. user[i] = UserEntry(addr)
        BY <3>1, <3>2 DEF TextOK
      <3>4. QED
        BY <1>6, <3>3 DEF HasEntry, Contains, Lines
    <2>2. QED
      BY <1>4, <1>6, <2>1, MeantNone
  <1>7. QED
    BY <1>5, <1>6

\* The next free place of the code cache is in the last chunk or behind it.
InLast == {i \in DOMAIN code : code[i].chunk = Len(chunks)}

LEMMA EipOK ==
  ASSUME ChunksApart, Shapes, chunks # <<>>
  PROVE  /\ Len(chunks) \in DOMAIN chunks /\ Last(chunks) = chunks[Len(chunks)]
         /\ Last(chunks) \in Nat /\ IsFiniteSet(InLast) /\ Cardinality(InLast) \in Nat
         /\ Eip = Last(chunks) + Cardinality(InLast) /\ Eip \in Nat /\ Eip >= Last(chunks)
  <1>1. Len(chunks) \in DOMAIN chunks /\ Last(chunks) = chunks[Len(chunks)]
    BY DEF Shapes, Last
  <1>2. Last(chunks) \in Nat
    BY <1>1, ConstantsOK DEF Shapes
  <1>3. Len(code) \in Nat /\ DOMAIN code = 1 .. Len(code)
    BY DEF Shapes
  <1>4. IsFiniteSet(DOMAIN code) /\ InLast \in SUBSET DOMAIN code
    BY <1>3, FS_Interval DEF InLast
  <1>5. IsFiniteSet(InLast) /\ Cardinality(InLast) \in Nat
    BY <1>4, FS_Subset, FS_CardinalityType
  <1>6. Eip = Last(chunks) + Cardinality(InLast)
    BY DEF Eip, InLast
  <1>7. QED
    BY <1>1, <1>2, <1>5, <1>6

----------------------------------------------------------------------------
(* Each step preserves it *)

LEMMA InitEInv ==
  ASSUME ChunksApart, TablesInit
  PROVE  EInv
  <1>1. TextOK
    BY InitTextOK
  <1>2. /\ chunks = <<>> /\ code = <<>> /\ extable = <<>> /\ inited = FALSE
    BY DEF TablesInit
  <1>3. Idle /\ Shapes /\ Placed /\ LaidOut /\ Listed /\ ChunksAscend /\ EntriesAscend
    BY <1>2 DEF Idle, Shapes, Placed, LaidOut, Listed, ChunksAscend, EntriesAscend
  <1>4. QED
    BY <1>1, <1>2, <1>3 DEF EInv

\* What no step but the copy of the table changes.
LEMMA GuestKept ==
  ASSUME EInv, UNCHANGED <<user, table, num, inited>>
  PROVE  /\ TextOK' /\ (inited => Copied)'
         /\ \A a : HasEntry(a)' = HasEntry(a)
  BY DEF EInv, TextOK, Copied, Lines, HasEntry, UserEntry, FixupOf

\* What no step but a translation changes.
LEMMA CacheKept ==
  ASSUME EInv, UNCHANGED <<user, chunks, code, extable>>
  PROVE  /\ TextOK' /\ Shapes' /\ Placed' /\ LaidOut' /\ Listed'
         /\ (Ascending => ChunksAscend /\ EntriesAscend)'
  <1>1. Eip' = Eip /\ Ascending' = Ascending
    BY DEF Eip, Last, Ascending
  <1>2. \A a : HasEntry(a)' = HasEntry(a)
    BY DEF HasEntry, UserEntry, FixupOf
  <1>3. Listed'
    BY <1>2 DEF EInv, Listed, EntryOf, FixupOf
  <1>4. TextOK'
    BY DEF EInv, TextOK, Lines, UserEntry, FixupOf
  <1>5. Shapes' /\ LaidOut' /\ ChunksAscend' = ChunksAscend /\ EntriesAscend' = EntriesAscend
    BY DEF EInv, Shapes, LaidOut, ChunksAscend, EntriesAscend
  <1>6. Placed'
    BY <1>1 DEF EInv, Placed
  <1>7. QED
    BY <1>1, <1>3, <1>4, <1>5, <1>6 DEF EInv

LEMMA InitExtableStep ==
  ASSUME ChunksApart, EInv, InitExceptionTable
  PROVE  EInv'
  <1>1. ~inited /\ num' = Len(user) /\ UNCHANGED <<user, chunks, code, extable>>
    BY DEF InitExceptionTable
  <1>2. Idle'
    BY <1>1 DEF EInv, Idle
  <1>3. ASSUME inited' PROVE Copied'
    <2>1. table' \in Sorted(user)
      BY <1>1, <1>3 DEF InitExceptionTable
    <2>2. /\ \A k \in Lines : \E i \in Lines : table'[k] = user[i]
          /\ \A i \in Lines : \E k \in Lines : table'[k] = user[i]
          /\ \A j, k \in Lines : j < k => table'[j].insn < table'[k].insn
      BY <2>1, SortedCopied DEF EInv
    <2>3. Lines' = Lines
      BY <1>1 DEF Lines
    <2>4. QED
      BY <1>1, <2>2, <2>3 DEF Copied
  <1>4. QED
    BY <1>1, <1>2, <1>3, CacheKept DEF EInv

LEMMA NextChunkStep ==
  ASSUME ChunksApart, EInv, NextChunk
  PROVE  EInv'
  <1>1. /\ inited /\ UNCHANGED <<user, table, num, inited, code, extable>>
    BY DEF NextChunk
  <1>2. PICK base \in ChunkBases : chunks' = Append(chunks, base)
    BY DEF NextChunk
  <1> DEFINE n == Len(chunks)
  <1>3. /\ n \in Nat /\ chunks' \in Seq(ChunkBases) /\ Len(chunks') = n + 1
        /\ DOMAIN chunks = 1 .. n /\ DOMAIN chunks' = 1 .. n + 1
        /\ \A a \in 1 .. n : chunks'[a] = chunks[a]
        /\ chunks'[n + 1] = base
    BY <1>2 DEF EInv, Shapes
  <1>4. \A a : HasEntry(a)' = HasEntry(a)
    BY <1>1, GuestKept
  <1>5. Idle' /\ Shapes'
    BY <1>1, <1>3 DEF EInv, Idle, Shapes
  <1>6. Listed' /\ LaidOut'
    BY <1>1, <1>4 DEF EInv, Listed, EntryOf, LaidOut, FixupOf
  <1>7. Placed'
    <2>1. ASSUME NEW i \in DOMAIN code
          PROVE  /\ code[i].chunk \in DOMAIN chunks' /\ code[i].chunk # Len(chunks')
                 /\ chunks'[code[i].chunk] = chunks[code[i].chunk]
      <3>1. code[i].chunk \in 1 .. n
        BY <1>3 DEF EInv, Placed
      <3>2. QED
        BY <1>3, <3>1
    <2>2. QED
      BY <1>1, <2>1 DEF EInv, Placed
  <1>8. ASSUME Ascending' PROVE ChunksAscend' /\ EntriesAscend'
    <2> HIDE DEF n
    <2>1. ASSUME NEW a \in 1 .. n, a # n PROVE chunks[a] < chunks[a + 1]
      <3>1. a \in 1 .. (n + 1) - 1 /\ a + 1 \in 1 .. n
        BY <1>3, <2>1
      <3>2. chunks'[a] < chunks'[a + 1]
        BY <1>3, <1>8, <3>1 DEF Ascending
      <3>3. QED
        BY <1>3, <3>1, <3>2
    <2>2. ASSUME NEW a \in 1 .. n PROVE chunks'[n] < chunks'[n + 1] /\ n \in 1 .. n
      <3>1. n \in 1 .. (n + 1) - 1
        BY <1>3
      <3>2. QED
        BY <1>3, <1>8, <3>1 DEF Ascending
    <2>3. Ascending
      <3>1. n = Len(chunks)
        BY DEF n
      <3>2. ASSUME NEW a \in 1 .. n - 1 PROVE chunks[a] < chunks[a + 1]
        <4>1. a \in 1 .. n /\ a # n
          BY <1>3
        <4>2. QED
          BY <2>1, <4>1
      <3>3. QED
        BY <3>1, <3>2 DEF Ascending
    <2>4. ASSUME NEW a \in 1 .. n + 1, NEW b \in 1 .. n + 1, a < b
          PROVE  chunks'[a] < chunks'[b]
      <3>1. CASE b \in 1 .. n
        BY <1>3, <2>3, <2>4, <3>1 DEF EInv, ChunksAscend
      <3>2. CASE b = n + 1
        <4>1. a \in 1 .. n /\ n \in 1 .. n
          BY <1>3, <2>4, <3>2
        <4>2. chunks[a] <= chunks[n]
          <5>1. \A c \in 1 .. n : chunks[c] \in Nat
            BY <1>3, ConstantsOK DEF EInv, Shapes
          <5>2. QED
            BY <1>3, <2>3, <4>1, <5>1 DEF EInv, ChunksAscend
        <4>3. chunks[n] < base
          BY <1>3, <2>2, <4>1
        <4>4. chunks[a] \in Nat /\ chunks[n] \in Nat /\ base \in Nat
          BY <1>3, <4>1, ConstantsOK DEF EInv, Shapes
        <4>5. QED
          BY <1>3, <3>2, <4>1, <4>2, <4>3, <4>4
      <3>3. QED
        BY <1>3, <3>1, <3>2
    <2>5. EntriesAscend'
      BY <1>1, <2>3 DEF EInv, EntriesAscend
    <2>6. QED
      BY <1>3, <2>4, <2>5 DEF ChunksAscend
  <1>9. QED
    BY <1>1, <1>5, <1>6, <1>7, <1>8, GuestKept DEF EInv

\* The translation of one instruction is behind everything in the last chunk.
LEMMA TranslatePlaced ==
  ASSUME ChunksApart, EInv, NEW addr \in Addr, Translate(addr)
  PROVE  /\ code' \in Seq(Instruction)
         /\ Placed' /\ LaidOut'
         /\ Len(code') = Len(code) + 1 /\ Len(code) \in Nat
         /\ DOMAIN code = 1 .. Len(code) /\ DOMAIN code' = 1 .. Len(code) + 1
         /\ \A i \in DOMAIN code : code'[i] = code[i]
         /\ code'[Len(code) + 1] = [chunk |-> Len(chunks), eip |-> Eip, addr |-> addr]
  <1> DEFINE n == Len(code)
             c == Len(chunks)
             new == [chunk |-> c, eip |-> Eip, addr |-> addr]
  <1>1. /\ chunks # <<>> /\ Eip < Last(chunks) + ChunkLen
        /\ code' = Append(code, new) /\ UNCHANGED <<user, table, num, inited, chunks>>
    BY DEF Translate
  <1>2. /\ c \in DOMAIN chunks /\ Last(chunks) = chunks[c] /\ c \in Nat
        /\ Eip \in Nat /\ Eip >= Last(chunks) /\ Last(chunks) \in Nat
        /\ Eip = Last(chunks) + Cardinality(InLast)
        /\ IsFiniteSet(InLast) /\ Cardinality(InLast) \in Nat
    BY <1>1, EipOK DEF EInv, Shapes
  <1>3. new \in Instruction
    BY <1>2 DEF Instruction
  <1>4. /\ n \in Nat /\ Len(code') = n + 1 /\ DOMAIN code = 1 .. n /\ DOMAIN code' = 1 .. n + 1
        /\ \A i \in 1 .. n : code'[i] = code[i]
        /\ code'[n + 1] = new /\ code' \in Seq(Instruction)
    BY <1>1, <1>3 DEF EInv, Shapes
  <1> HIDE DEF n
  <1>5. InLast' = InLast \cup {n + 1} /\ n + 1 \notin InLast
    BY <1>1, <1>4 DEF InLast
  <1>6. Eip' = Eip + 1
    <2>1. Cardinality(InLast') = Cardinality(InLast) + 1
      BY <1>2, <1>5, FS_AddElement
    <2>2. Eip' = Last(chunks) + Cardinality(InLast')
      BY <1>1 DEF Eip, InLast, Last
    <2>3. QED
      BY <1>2, <2>1, <2>2
  <1>7. \A i \in 1 .. n : /\ code[i].chunk \in Nat /\ code[i].eip \in Nat
                          /\ code[i].chunk \in DOMAIN chunks
                          /\ chunks[code[i].chunk] <= code[i].eip
                          /\ code[i].eip < chunks[code[i].chunk] + ChunkLen
                          /\ code[i].chunk = c => code[i].eip < Eip
    <2>1. \A i \in 1 .. n : code[i].chunk \in Nat /\ code[i].eip \in Nat
      BY <1>4, ElementsOK DEF EInv
    <2>2. Placed
      BY DEF EInv
    <2>3. QED
      BY <1>4, <2>1, <2>2 DEF Placed
  <1>8. Placed'
    <2>1. ASSUME NEW i \in 1 .. n + 1
          PROVE  /\ code'[i].chunk \in DOMAIN chunks
                 /\ chunks[code'[i].chunk] <= code'[i].eip
                 /\ code'[i].eip < chunks[code'[i].chunk] + ChunkLen
                 /\ code'[i].chunk = c => code'[i].eip < Eip + 1
      <3>1. CASE i \in 1 .. n
        BY <1>2, <1>4, <1>7, <3>1
      <3>2. CASE i = n + 1
        BY <1>1, <1>2, <1>4, <3>2
      <3>3. QED
        BY <1>4, <3>1, <3>2
    <2>2. QED
      BY <1>1, <1>4, <1>6, <2>1 DEF Placed
  <1>9. LaidOut'
    <2>1. ASSUME NEW i \in 1 .. n + 1, NEW j \in 1 .. n + 1, i < j
          PROVE  \/ code'[i].chunk < code'[j].chunk
                 \/ code'[i].chunk = code'[j].chunk /\ code'[i].eip < code'[j].eip
      <3>1. CASE j \in 1 .. n
        <4>1. i \in 1 .. n
          BY <1>4, <2>1, <3>1
        <4>2. LaidOut
          BY DEF EInv
        <4>3. \/ code[i].chunk < code[j].chunk
              \/ code[i].chunk = code[j].chunk /\ code[i].eip < code[j].eip
          BY <1>4, <2>1, <3>1, <4>1, <4>2 DEF LaidOut
        <4>4. QED
          BY <1>4, <3>1, <4>1, <4>3
      <3>2. CASE j = n + 1
        <4>1. i \in 1 .. n
          BY <1>4, <2>1, <3>2
        <4>2. code'[j].chunk = c /\ code'[j].eip = Eip /\ code'[i] = code[i]
          BY <1>4, <3>2, <4>1
        <4>3. code[i].chunk <= c
          BY <1>2, <1>7, <4>1
        <4>4. QED
          BY <1>2, <1>7, <4>1, <4>2, <4>3
      <3>3. QED
        BY <1>4, <3>1, <3>2
    <2>2. QED
      BY <1>4, <2>1 DEF LaidOut
  <1> USE DEF n
  <1>10. QED
    BY <1>4, <1>8, <1>9

\* The free place is behind everything, when chunks ascend.
LEMMA BehindAll ==
  ASSUME ChunksApart, Shapes, Placed, ChunksAscend, chunks # <<>>, NEW i \in DOMAIN code
  PROVE  code[i].eip < Eip
  <1> DEFINE a == code[i].chunk
             c == Len(chunks)
  <1>1. /\ c \in DOMAIN chunks /\ Last(chunks) = chunks[c] /\ DOMAIN chunks = 1 .. c
        /\ Eip \in Nat /\ Eip >= chunks[c] /\ c \in Nat
    BY EipOK DEF Shapes
  <1>2. /\ a \in DOMAIN chunks /\ code[i].eip < chunks[a] + ChunkLen
        /\ a = c => code[i].eip < Eip
    BY DEF Placed
  <1>3. code[i].eip \in Nat
    BY ElementsOK
  <1> HIDE DEF a, c
  <1>4. CASE a # c
    <2>1. a < c
      BY <1>1, <1>2, <1>4
    <2>2. chunks[a] < chunks[c]
      BY <1>1, <1>2, <2>1 DEF ChunksAscend
    <2>3. chunks[a] \in ChunkBases /\ chunks[c] \in ChunkBases
      BY <1>1, <1>2 DEF Shapes
    <2>4. chunks[a] + ChunkLen <= chunks[c] /\ chunks[a] \in Nat /\ chunks[c] \in Nat /\ ChunkLen \in Nat
      BY <2>2, <2>3, ConstantsOK
    <2>5. QED
      BY <1>1, <1>2, <1>3, <2>4
  <1>5. QED
    BY <1>2, <1>4

\* The entry that a translation appends.
LEMMA TranslateEntry ==
  ASSUME ChunksApart, OLDKERNEL, EInv, NEW addr \in Addr, Translate(addr)
  PROVE  extable' = IF HasEntry(addr) /\ Len(extable) < MAX_EXTABLE_EIPS
                    THEN Append(extable, [insn |-> Eip, fixup |-> FixupOf(addr)])
                    ELSE extable
  <1>1. inited /\ Copied /\ TextOK
    BY DEF Translate, EInv, Idle
  <1>2. Found(addr) = IF HasEntry(addr) THEN UserEntry(addr) ELSE None
    BY <1>1, FoundEntry
  <1>3. UserEntry(addr) # None /\ UserEntry(addr).fixup = FixupOf(addr)
    <2>1. addr # -1
      BY ConstantsOK
    <2>2. UserEntry(addr).insn = addr /\ None.insn = -1
      BY DEF UserEntry, None
    <2>3. UserEntry(addr) # None
      BY <2>1, <2>2
    <2>4. QED
      BY <2>3 DEF UserEntry
  <1>4. Len(extable) \in Nat /\ MAX_EXTABLE_EIPS \in Nat
    BY ConstantsOK DEF EInv, Shapes
  <1>5. CASE HasEntry(addr)
    <2>1. extable' = Added(Eip, FixupOf(addr))
      BY <1>2, <1>3, <1>5 DEF Translate
    <2>2. QED
      BY <1>4, <1>5, <2>1 DEF Added
  <1>6. CASE ~HasEntry(addr)
    BY <1>2, <1>6 DEF Translate
  <1>7. QED
    BY <1>5, <1>6

LEMMA TranslateStep ==
  ASSUME ChunksApart, OLDKERNEL, EInv, NEW addr \in Addr, Translate(addr)
  PROVE  EInv'
  <1> DEFINE n == Len(code)
             m == Len(extable)
             new == [insn |-> Eip, fixup |-> FixupOf(addr)]
             grows == HasEntry(addr) /\ m < MAX_EXTABLE_EIPS
  <1>1. chunks # <<>> /\ UNCHANGED <<user, table, num, inited, chunks>>
    BY DEF Translate
  <1>2. /\ code' \in Seq(Instruction)
        /\ Placed' /\ LaidOut'
        /\ n \in Nat /\ DOMAIN code = 1 .. n /\ DOMAIN code' = 1 .. n + 1
        /\ \A i \in 1 .. n : code'[i] = code[i]
        /\ code'[n + 1].eip = Eip /\ code'[n + 1].addr = addr
    <2> DEFINE place == [chunk |-> Len(chunks), eip |-> Eip, addr |-> addr]
    <2>1. place.eip = Eip /\ place.addr = addr
      OBVIOUS
    <2> HIDE DEF place
    <2>2. code'[n + 1] = place
      BY TranslatePlaced DEF place
    <2>3. QED
      BY <2>1, <2>2, TranslatePlaced
  <1>3. /\ extable \in Seq(Entry) /\ m \in Nat /\ DOMAIN extable = 1 .. m
        /\ new \in Entry /\ MAX_EXTABLE_EIPS \in Nat /\ Eip \in Nat
    <2>1. Eip \in Nat /\ FixupOf(addr) \in Nat
      BY <1>1, EipOK, ConstantsOK DEF EInv, FixupOf
    <2>2. new \in Entry
      BY <2>1 DEF Entry
    <2>3. QED
      BY <2>1, <2>2, ConstantsOK DEF EInv, Shapes
  <1>4. extable' = IF grows THEN Append(extable, new) ELSE extable
    BY TranslateEntry
  <1> HIDE DEF new
  <1>5. /\ extable' \in Seq(Entry)
        /\ \A k \in 1 .. m : extable'[k] = extable[k]
    BY <1>3, <1>4
  <1>6. ASSUME grows
        PROVE  Len(extable') = m + 1 /\ DOMAIN extable' = 1 .. m + 1 /\ extable'[m + 1] = new
    BY <1>3, <1>4, <1>6
  <1>7. ASSUME ~grows PROVE extable' = extable
    BY <1>4, <1>7
  <1>8. new.insn = Eip /\ new.fixup = FixupOf(addr)
    BY DEF new
  <1>9. \A a : HasEntry(a)' = HasEntry(a)
    BY <1>1, GuestKept
  <1> HIDE DEF n, m
  <1>10. Listed'
    <2>1. ASSUME NEW k \in 1 .. m, NEW i \in 1 .. n PROVE EntryOf(k, i)' <=> EntryOf(k, i)
      BY <1>2, <1>5, <1>9 DEF EntryOf, FixupOf
    <2>2. ASSUME grows, NEW k, k = m + 1, NEW i, i = n + 1 PROVE EntryOf(k, i)'
      <3>1. HasEntry(addr) /\ user' = user /\ extable'[k] = new
        BY <1>1, <1>6, <2>2
      <3>2. code'[i].eip = Eip /\ code'[i].addr = addr
        BY <1>2, <2>2
      <3>3. QED
        BY <1>8, <3>1, <3>2 DEF EntryOf, HasEntry
    <2>3. Listed
      BY DEF EInv
    <2>4. ASSUME NEW k \in DOMAIN extable' PROVE \E i \in DOMAIN code' : EntryOf(k, i)'
      <3>1. CASE k \in 1 .. m
        <4>1. PICK i \in 1 .. n : EntryOf(k, i)
          BY <1>2, <1>3, <2>3, <3>1 DEF Listed
        <4>2. i \in DOMAIN code' /\ EntryOf(k, i)'
          BY <1>2, <2>1, <3>1, <4>1
        <4>3. QED
          BY <4>2
      <3>2. CASE k \notin 1 .. m
        <4>1. grows /\ k = m + 1
          BY <1>3, <1>6, <1>7, <2>4, <3>2
        <4>2. PICK i \in DOMAIN code' : i = n + 1
          BY <1>2
        <4>3. EntryOf(k, i)'
          BY <2>2, <4>1, <4>2
        <4>4. QED
          BY <4>2, <4>3
      <3>3. QED
        BY <3>1, <3>2
    <2>5. ASSUME Len(extable') < MAX_EXTABLE_EIPS, NEW i \in DOMAIN code', HasEntry(code'[i].addr)
          PROVE  \E k \in DOMAIN extable' : EntryOf(k, i)'
      <3>1. m < MAX_EXTABLE_EIPS /\ m = Len(extable)
        <4>1. CASE grows
          BY <4>1 DEF m
        <4>2. CASE ~grows
          BY <1>7, <2>5, <4>2 DEF m
        <4>3. QED
          BY <4>1, <4>2
      <3>2. CASE i \in 1 .. n
        <4>1. PICK k \in 1 .. m : EntryOf(k, i)
          BY <1>2, <1>3, <2>3, <2>5, <3>1, <3>2 DEF Listed
        <4>2. k \in DOMAIN extable'
          BY <1>3, <1>6, <1>7
        <4>3. EntryOf(k, i)'
          BY <2>1, <3>2, <4>1
        <4>4. QED
          BY <4>2, <4>3
      <3>3. CASE i = n + 1
        <4>1. grows
          BY <1>2, <2>5, <3>1, <3>3
        <4>2. PICK k \in DOMAIN extable' : k = m + 1
          BY <1>3, <1>6, <4>1
        <4>3. EntryOf(k, i)'
          BY <2>2, <3>3, <4>1, <4>2
        <4>4. QED
          BY <4>2, <4>3
      <3>4. QED
        BY <1>2, <3>2, <3>3
    <2>6. QED
      BY <1>9, <2>4, <2>5 DEF Listed
  <1>11. ASSUME Ascending PROVE EntriesAscend'
    <2>1. ChunksAscend /\ EntriesAscend /\ Listed /\ Shapes /\ Placed
      BY <1>11 DEF EInv
    <2>2. ASSUME NEW k \in 1 .. m PROVE extable[k].insn < Eip
      <3>1. PICK i \in DOMAIN code : EntryOf(k, i)
        BY <1>3, <2>1 DEF Listed
      <3>2. code[i].eip < Eip
        BY <1>1, <2>1, BehindAll
      <3>3. QED
        BY <3>1, <3>2 DEF EntryOf
    <2>3. ASSUME NEW j \in DOMAIN extable', NEW k \in DOMAIN extable', j < k
          PROVE  extable'[j].insn < extable'[k].insn
      <3>1. CASE k \in 1 .. m
        <4>1. j \in 1 .. m
          BY <1>3, <1>6, <1>7, <2>3, <3>1
        <4>2. QED
          BY <1>3, <1>5, <2>1, <2>3, <3>1, <4>1 DEF EntriesAscend
      <3>2. CASE k \notin 1 .. m
        <4>1. k = m + 1 /\ extable'[k] = new /\ j \in 1 .. m
          BY <1>3, <1>6, <1>7, <2>3, <3>2
        <4>2. QED
          BY <1>5, <1>8, <2>2, <4>1
      <3>3. QED
        BY <3>1, <3>2
    <2>4. QED
      BY <2>3 DEF EntriesAscend
  <1>12. Ascending' = Ascending /\ ChunksAscend' = ChunksAscend
    BY <1>1 DEF Ascending, ChunksAscend
  <1>13. Shapes' /\ Idle'
    BY <1>1, <1>2, <1>5 DEF EInv, Shapes, Idle
  <1>14. QED
    BY <1>1, <1>2, <1>10, <1>11, <1>12, <1>13, GuestKept DEF EInv

\* What it says of a fault.
LEMMA InvFixups ==
  ASSUME ChunksApart, OLDKERNEL, EInv
  PROVE  FixupReached
  <1> SUFFICES ASSUME Ascending, Len(extable) < MAX_EXTABLE_EIPS, NEW i \in DOMAIN code
               PROVE  Fixup(code[i].eip) =
                        IF HasEntry(code[i].addr) THEN FixupOf(code[i].addr) ELSE -1
    BY DEF FixupReached
  <1> DEFINE eip == code[i].eip
             addr == code[i].addr
             n == Len(extable)
  <1>1. ChunksAscend /\ EntriesAscend /\ Listed /\ Shapes /\ Placed /\ LaidOut
    BY DEF EInv
  <1>2. n \in Nat /\ DOMAIN extable = 1 .. n /\ eip \in Nat
    BY <1>1, ElementsOK
  <1>3. \A k \in 1 .. n : /\ ModuleKeys[k] = extable[k].insn /\ ModuleKeys[k] \in Int
                          /\ ModuleEntries[k] = extable[k].fixup
    <2>1. \A k \in 1 .. n : extable[k].insn \in Nat /\ extable[k].fixup \in Nat
      BY <1>1, <1>2, ElementsOK
    <2>2. QED
      BY <2>1 DEF ModuleKeys, ModuleEntries, InsnAddr, FixupAddr
  <1>4. Ascends(ModuleKeys, 1, n)
    BY <1>1, <1>2, <1>3, SMTT(30) DEF Ascends, EntriesAscend
  <1>5. Fixup(eip) = Meant(1, n, ModuleKeys, ModuleEntries, eip, -1)
    BY <1>2, <1>4, FixupMeant
  \* No other instruction is there.
  <1>6. ASSUME NEW j \in DOMAIN code, code[j].eip = eip PROVE j = i
    <2>1. ASSUME NEW a \in DOMAIN code, NEW b \in DOMAIN code, a < b
          PROVE  code[a].eip < code[b].eip
      <3>1. CASE code[a].chunk < code[b].chunk
        <4> DEFINE p == code[a].chunk
                   q == code[b].chunk
        <4>1. /\ p \in DOMAIN chunks /\ q \in DOMAIN chunks
              /\ code[a].eip < chunks[p] + ChunkLen /\ chunks[q] <= code[b].eip
          BY <1>1 DEF Placed
        <4>2. chunks[p] < chunks[q] /\ chunks[p] \in ChunkBases /\ chunks[q] \in ChunkBases
          BY <1>1, <3>1, <4>1 DEF ChunksAscend, Shapes
        <4>3. /\ chunks[p] + ChunkLen <= chunks[q]
              /\ chunks[p] \in Nat /\ chunks[q] \in Nat /\ ChunkLen \in Nat
          BY <4>2, ConstantsOK
        <4>4. code[a].eip \in Nat /\ code[b].eip \in Nat
          BY <1>1, ElementsOK
        <4> HIDE DEF p, q
        <4>5. QED
          BY <4>1, <4>3, <4>4
      <3>2. CASE ~(code[a].chunk < code[b].chunk)
        BY <1>1, <2>1, <3>2 DEF LaidOut
      <3>3. QED
        BY <3>1, <3>2
    <2>2. i \in Nat /\ j \in Nat
      BY <1>1 DEF Shapes
    <2>3. ~(code[i].eip < code[j].eip) /\ ~(code[j].eip < code[i].eip)
      BY <1>2, <1>6
    <2>4. ~(i < j) /\ ~(j < i)
      BY <2>1, <2>3
    <2>5. QED
      BY <2>2, <2>4
  <1>7. CASE HasEntry(addr)
    <2>1. PICK k \in 1 .. n : EntryOf(k, i)
      BY <1>1, <1>2, <1>7 DEF Listed
    <2>2. Has(k, 1, n, ModuleKeys, eip) /\ ModuleEntries[k] = FixupOf(addr)
      BY <1>3, <2>1 DEF Has, EntryOf
    <2>3. Within(1, n, 1, n)
      BY <1>2 DEF Within
    <2> HIDE DEF n, eip, addr
    <2>4. Meant(1, n, ModuleKeys, ModuleEntries, eip, -1) = FixupOf(addr)
      BY <1>4, <2>2, <2>3, MeantEntry
    <2>5. Fixup(eip) = FixupOf(addr)
      BY <1>5, <2>4
    <2>6. QED
      BY <1>7, <2>5 DEF eip, addr
  <1>8. CASE ~HasEntry(addr)
    <2>1. ASSUME NEW k, Has(k, 1, n, ModuleKeys, eip) PROVE FALSE
      <3>1. k \in 1 .. n /\ extable[k].insn = eip
        BY <1>3, <2>1 DEF Has
      <3>2. PICK j \in DOMAIN code : EntryOf(k, j)
        BY <1>1, <1>2, <3>1 DEF Listed
      <3>3. j = i
        BY <1>6, <3>1, <3>2 DEF EntryOf
      <3>4. QED
        BY <1>8, <3>2, <3>3 DEF EntryOf
    <2>2. QED
      BY <1>5, <1>8, <2>1, MeantNone
  <1>9. QED
    BY <1>7, <1>8

----------------------------------------------------------------------------
(* The results *)

\* init_exception_table, tb_malloc and translate keep the table of the guest
\* sorted, the code cache laid out in order and the table of the module with it.
THEOREM LaidOutInOrder == ChunksApart /\ OLDKERNEL /\ TablesSpec => []EInv
  <1> SUFFICES ASSUME ChunksApart, OLDKERNEL PROVE TablesSpec => []EInv
    OBVIOUS
  <1>1. TablesInit => EInv
    BY InitEInv
  <1>2. ASSUME EInv, [TablesNext]_tableVars PROVE EInv'
    <2>1. CASE InitExceptionTable
      BY <1>2, <2>1, InitExtableStep
    <2>2. CASE NextChunk
      BY <1>2, <2>2, NextChunkStep
    <2>3. ASSUME NEW addr \in Addr, Translate(addr) PROVE EInv'
      BY <1>2, <2>3, TranslateStep
    <2>4. CASE UNCHANGED tableVars
      <3>1. /\ UNCHANGED <<user, chunks, code, extable>>
            /\ UNCHANGED <<user, table, num, inited>>
        BY <2>4 DEF tableVars
      <3>2. Idle'
        BY <1>2, <3>1 DEF EInv, Idle
      <3>3. QED
        BY <1>2, <3>1, <3>2, CacheKept, GuestKept DEF EInv
    <2>5. QED
      BY <1>2, <2>1, <2>2, <2>3, <2>4 DEF TablesNext
  <1>3. QED
    BY <1>1, <1>2, PTL DEF TablesSpec

\* In a kernel with addresses in its tables, a fault in the translation of an
\* instruction gets the fixup of that instruction, whatever the tables and the
\* chunks, as FixupReached has it.
THEOREM FaultsReachFixups == ChunksApart /\ OLDKERNEL /\ TablesSpec => []FixupReached
  <1> SUFFICES ASSUME ChunksApart, OLDKERNEL PROVE TablesSpec => []FixupReached
    OBVIOUS
  <1>1. EInv => FixupReached
    BY InvFixups
  <1>2. TablesSpec => []EInv
    BY LaidOutInOrder
  <1>3. QED
    BY <1>1, <1>2, PTL

=============================================================================
