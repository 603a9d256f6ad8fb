------------------------------- MODULE ExTable -------------------------------
(***************************************************************************)
(* From the exception table of the guest to the fixup of a fault in        *)
(* translated code: the table that INIT_EXTABLE copies and sorts, the      *)
(* search in translate, the entry it appends to the table of the module,   *)
(* and the kernel's search in that table.  The module has no entries of    *)
(* its own.  INIT_EXTABLE comes before INIT_BT, as load does it.           *)
(***************************************************************************)
EXTENDS Integers, Sequences, FiniteSets, SequencesExt

CONSTANTS
  OLDKERNEL,          \* entries of the kernel are addresses, not distances
  Addr,               \* instructions of the guest that may have an entry
  MAX_EXTABLE_EIPS,
  ChunkLen,           \* instructions in a chunk of the code cache
  ChunkBases          \* where chunks may be

\* Chunks do not overlap.
ChunksApart ==
  /\ IsFiniteSet(Addr) /\ Addr \subseteq Nat
  /\ MAX_EXTABLE_EIPS \in Nat /\ ChunkLen \in Nat /\ ChunkBases \subseteq Nat
  /\ \A b, c \in ChunkBases : b < c => b + ChunkLen <= c

VARIABLES
  user,      \* the entries in extable.txt, in the order they are in
  table,     \* __extable
  num,       \* num_extable_entries
  inited,
  chunks,    \* bases of the chunks in use, the last one is filled
  code,      \* which instruction is where in the code cache
  extable    \* mod->extable

tableVars == <<user, table, num, inited, chunks, code, extable>>

None == [insn |-> -1, fixup |-> -1]

\* Where the fixup of an instruction is, and where the tables are.
FixupOf(addr)   == 100 + addr
InsnField(i)    == 1000 + 2 * i
FixupField(i)   == 1000 + 2 * i + 1
UserEntry(addr) == [insn |-> addr, fixup |-> FixupOf(addr)]

\* The orders of the elements of a set.
Orders(S) == {s \in [1 .. Cardinality(S) -> S] : IsInjective(s)}

TablesInit ==
  /\ user \in UNION {{[i \in DOMAIN s |-> UserEntry(s[i])] : s \in Orders(S)} : S \in SUBSET Addr}
  /\ table = <<>> /\ num = 0 /\ inited = FALSE
  /\ chunks = <<>> /\ code = <<>> /\ extable = <<>>

----------------------------------------------------------------------------
\* sort, with cmp_ex: the entries in an order that ascends
Sorted(entries) ==
  {s \in {[i \in DOMAIN entries |-> entries[p[i]]] : p \in Orders(DOMAIN entries)} :
     \A i, j \in DOMAIN s : i < j => s[i].insn <= s[j].insn}

\* init_exception_table; num is set before anything can fail.  When it has
\* succeeded load goes on, and does not call it again.
InitExceptionTable ==
  /\ ~inited
  /\ num' = Len(user)
  /\ \/ /\ Len(user) <= MAX_EXTABLE_EIPS
        /\ table' \in Sorted(user)
        /\ inited' = TRUE
     \/ UNCHANGED <<table, inited>>    \* too long, or no memory
     \/ table' = [i \in DOMAIN user |-> None] /\ UNCHANGED inited   \* not copied
  /\ UNCHANGED <<user, chunks, code, extable>>

\* Mutant of Found: the interval ends when one entry is left.
FoundShort(addr) ==
  LET at[i \in (0 .. num) \X (-1 .. num - 1)] ==
        LET first == i[1]
            last  == i[2]
            mid   == (first + last) \div 2
        IN  IF first >= last THEN None
            ELSE IF table[mid + 1].insn = addr THEN table[mid + 1]
            ELSE IF table[mid + 1].insn < addr THEN at[<<mid + 1, last>>]
            ELSE at[<<first, mid - 1>>]
  IN  at[<<0, num - 1>>]

\* __search_exception_tables
Found(addr) ==
  LET at[i \in (0 .. num) \X (-1 .. num - 1)] ==
        LET first == i[1]
            last  == i[2]
            mid   == (first + last) \div 2
        IN  IF first > last THEN None
            ELSE IF table[mid + 1].insn = addr THEN table[mid + 1]
            ELSE IF table[mid + 1].insn < addr THEN at[<<mid + 1, last>>]
            ELSE at[<<first, mid - 1>>]
  IN  at[<<0, num - 1>>]

\* add_bt_exception_table
Added(eip, fixup) ==
  LET i == Len(extable)
  IN  IF i >= MAX_EXTABLE_EIPS THEN extable
      ELSE Append(extable, [insn  |-> IF OLDKERNEL THEN eip ELSE eip - InsnField(i),
                            fixup |-> fixup])

\* tb_malloc takes the next bytes of a chunk, or of the next chunk.
Eip == Last(chunks) + Cardinality({i \in DOMAIN code : code[i].chunk = Len(chunks)})

NextChunk ==
  /\ inited
  /\ chunks # <<>> => Eip = Last(chunks) + ChunkLen
  /\ \E base \in ChunkBases : ~Contains(chunks, base) /\ chunks' = Append(chunks, base)
  /\ UNCHANGED <<user, table, num, inited, code, extable>>

\* translate, of one instruction; several blocks may have the same one
Translate(addr) ==
  /\ chunks # <<>> /\ Eip < Last(chunks) + ChunkLen
  /\ code' = Append(code, [chunk |-> Len(chunks), eip |-> Eip, addr |-> addr])
  /\ extable' = IF Found(addr) = None THEN extable ELSE Added(Eip, Found(addr).fixup)
  /\ UNCHANGED <<user, table, num, inited, chunks>>

TablesNext == InitExceptionTable \/ NextChunk \/ \E addr \in Addr : Translate(addr)

TablesSpec == TablesInit /\ [][TablesNext]_tableVars

----------------------------------------------------------------------------
(* The kernel: search_extable bisects the table of the module, in which    *)
(* entries are distances from themselves since version 3.5.                *)

InsnAddr(i)  == extable[i].insn  + IF OLDKERNEL THEN 0 ELSE InsnField(i - 1)
FixupAddr(i) == extable[i].fixup + IF OLDKERNEL THEN 0 ELSE FixupField(i - 1)

Fixup(eip) ==
  LET at[i \in (1 .. Len(extable) + 1) \X (0 .. Len(extable))] ==
        LET first == i[1]
            last  == i[2]
            mid   == first + (last - first) \div 2
        IN  IF first > last THEN -1
            ELSE IF InsnAddr(mid) < eip THEN at[<<mid + 1, last>>]
            ELSE IF InsnAddr(mid) > eip THEN at[<<first, mid - 1>>]
            ELSE FixupAddr(mid)
  IN  at[<<1, Len(extable)>>]

(* A fault at the translation of an instruction goes to the fixup of that  *)
(* instruction, if it has one, and to none otherwise, as long as the table *)
(* has room: the sort, both searches and the order of the entries fit      *)
(* together.  The order is that of the code cache, whose chunks must have  *)
(* ascending addresses for it.                                             *)
Ascending   == \A i \in 1 .. Len(chunks) - 1 : chunks[i] < chunks[i + 1]
HasEntry(a) == Contains(user, UserEntry(a))
FixupReached ==
  Ascending /\ Len(extable) < MAX_EXTABLE_EIPS =>
    \A i \in DOMAIN code :
      Fixup(code[i].eip) = IF HasEntry(code[i].addr) THEN FixupOf(code[i].addr) ELSE -1

=============================================================================
