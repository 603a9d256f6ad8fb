# btkernel in TLA+

btkernel is a loadable Linux module (32-bit x86) that translates the running
kernel: after `TRANSLATE_IDT` every interrupt and system call enters translated
copies of the kernel's code, which are made block by block when they are first
needed. This directory holds its specification: TLA+ modules written from the
C code, the rule file and the machine code macros, TLC models of them, and
proofs checked by TLAPS. Paths are relative to `src/btmod/bt/`.

## 1. Inventory

| component | where | state | operations | properties that make it correct |
|---|---|---|---|---|
| Dispatcher ("monitor") | `bt_main.c`, `bt_vcpu.h` | `translation_lock`, `lock_owner`, per-cpu `vcpu->eip`, `prev_tb`, monitor stack | `monitor_entry`, `tb_gen_translated_code`, `create_shadow_idt`, `patch_until_fs_seen` | exclusion, no self-deadlock, sound chaining and caching, complete prologues, translated execution is native execution |
| Block index | `peep/jumptable2.c`, `peep/tb.c`, `lib/rbtree.c` | two red-black trees: by guest address, by translated address | add, find, first of equal entries | order of the tree, lookup finds a block that holds the address |
| Translation blocks | `peep/peep.c` `translate`, `peep/tb.c` | code, edges, boundary arrays, `jump_boundaries` | two passes, address translation both ways | the passes agree, the maps are inverse, entries are recorded |
| Pool allocator | `mem/malloc.c` | 60 chunks with cursors, three pools | `malloc_from_pool`, `addr_to_pool` | disjoint blocks, right pool, slack behind |
| Per-cpu branch targets | `peep/jumptable1.c`, `peep/peeptab_defs.h` | 4096 slots and 3 extra, sets of four that overlap | add (C), search and exchange (machine code), clear | entries stay whole, branches land on their target |
| Translated branches | `peep.tab`, `peep/peeptab_defs.h` | per-cpu `tx_target`, stacked flags | rules of `jmp`, `jCC`, `call`, `ret`, `iret`, `push/pop %ds` | a branch survives interrupts, preemption and migration; its code does what the branch does |
| Peephole matcher | `peep/peep.c`, `assignments.c`, `regset.c`, `nomatch_pair.c`, `insn.c` | assignments of variables | match a rule, choose temporaries | one rule applies, temporaries do not collide with what the code needs |
| Rule compiler | `peepgen.c` (build time) | | addressing modes, nomatch pairs, edges | the pairs suffice |
| Exception tables | `btfix.c`, `btmod.c` | user-supplied table, the module's table | load, sort, search, append | a fault in translated code finds its fixup |
| Stopping | `btfix.c` `push_orig_eips`, `btmod.c` `stop_bt` | stacks of all threads | return addresses back to native code, free everything | a thread returns where it was called from, no address of freed code is left |
| Life cycle | `btmod.c`, `../launch_bt.c`, `../terminate_bt.c`, `load`, `unload` | `__inited`, `__extable_inited`, descriptors of the two tables, what is allocated | INIT_EXTABLE, INIT_BT, TRANSLATE_IDT, LOAD_NATIVE_IDT, STOP_BT, insmod, rmmod | failures undo what was done, a processor on the shadow table has all it needs |
| Instrumentation | `peep/instrument.c`, `peep/snippets.h` | shadow memory, counters | code inserted in front of accesses | registers and flags preserved, the right shadow marked |
| Predicates on instructions | `peep/insn.c`, `peep/regset.c` | | registers used and defined, flags, sizes | what the instrumentation concludes from them |
| Disassembler | `peep/i386-dis.c`, `peep/opctable.c` (from binutils, changed to make operands instead of text) | tables of names | `disas_insn` | length and operands are those of the processor |
| Containers | `lib/hash.c`, `lib/mylist.c`, `lib/rbtree.c` | links, buckets | insert, delete, find, splice, sort, rehash | the usual ones |
| Others | `sys/vcpu.c`, `lib/utils.c`, `lib/debug.c`, other tools in `..` | | accessors, printing, counters | not modelled |

How they interact: a translated branch goes straight to another block when it
is *chained*, through `jumptable1` when it is indirect, or leaves through its
*edge code* for the monitor. The edge code puts the guest address into
`tx_target` and pushes the address of the branch's displacement (`prev_tb`).
The monitor takes `translation_lock`, looks the address up in `jumptable2`,
translates if it must (allocating from the pools), releases the lock, adds the
result to `jumptable1`, stores it into the branch, and jumps there through
`tx_target`. All processors do this at once; interrupts are disabled in the
monitor, but page faults are not, and the page fault handler is translated
code as well.

What is hard here: the stores after the unlock; faults that re-enter the
monitor; blocks that overlap; `tx_target`, one word per processor through
which every thread passes with interrupts enabled for one instruction; tables
written by C and searched by machine code; the bootstrap of the interrupt
table. `PROJECT.json` lists these hazards line by line.

Two builds exist. With `--enable-callopt` (`CALL_OPT`, which the README of the
repository recommends) a call stays a call and the stack holds translated
return addresses; otherwise return addresses are native and `ret` is an
indirect branch. `TxTarget` covers both. In `Dispatcher` a call or a return is
a branch like any other, which is what it is without `CALL_OPT`; with it, the
`ret` to a return address whose block is not followed by chained code runs the
`jmp` of `EMIT_EDGE1` first, a direct branch of the calling block. A return to
code whose return address was translated long before is in `StopBT`.

## 2. Modules

| module | what it is | code |
|---|---|---|
| `GuestProgram` | the guest: addresses, terminating instructions, targets | `translate`, `insn_is_terminating` |
| `NativeExec` | abstract specification: what every processor does natively | |
| `JumpCache` | abstract contract of a table of branch targets | |
| `Dispatcher` | the monitor, chaining, caches, bootstrap, page faults | `bt_main.c` |
| `Jumptable1` | the table of branch targets word by word | `peep/jumptable1.c`, `SEARCH_HASH_TABLE` |
| `TxTarget` | `tx_target` under interrupts, preemption and migration | `peep.tab`, `peep/peeptab_defs.h` |
| `TransBlock` | the two passes over a block, its boundary arrays, exception entries | `peep/peep.c` `translate`, `peep/tb.c`, `btfix.c` `add_bt_exception_table` |
| `BlockIndex` | abstract specification of an index: a set of blocks per tree | |
| `RBTree` | insertion, deletion, search and iterators of the two trees | `lib/rbtree.c`, `peep/jumptable2.c`, `peep/tb.c` |
| `PoolAlloc` | the allocator, with its scan and update apart | `mem/malloc.c` |
| `PeepMatch` | the rule an instruction matches, and its temporaries (no state) | `peep/peep.c` `peep_translate`, `peep/assignments.c` |
| `PeepTab` | the rules of branches with the code they emit, their nomatch pairs (no state) | `peep.tab`, `peep/peeptab_defs.h`, `peepgen.c` |
| `NativeInsn` | abstract specification: one branch, or `push/pop %ds`, on the processor | |
| `TransCode` | the emitted code of one rule, executed instruction by instruction | `peep.tab`, `peep/peeptab_defs.h` |
| `Lifecycle` | from insmod to rmmod: the scripts, their tools, the ioctls, every allocation | `load`, `unload`, `launch_bt.c`, `terminate_bt.c`, `btmod.c`, `peep/jumptable1.c` |
| `StopBT` | the walk over the stacks of threads that run meanwhile, and the freeing of the code | `btfix.c` `push_orig_eips`, `fetch_eip_from_edge`, `btmod.c` `stop_bt` |
| `ExTable` | the exception tables from the user's file to the kernel's search | `btfix.c`, `btmod.c` |
| `Lists` | abstract specification of lists: sequences | |
| `ListOps`, `MyList` | the operations on links (no state); two lists between which elements move | `lib/mylist.c` |
| `Table` | abstract specification of a hash table: a set | |
| `HashTable` | buckets, insertion, deletion, search, walk, rehash, one step per turn of a loop | `lib/hash.c` |
| `OpcodeMap` | the opcode tables and the names made from them (no state) | `peep/i386-dis.c`, `peep/opctable.c` |
| `Decode` | `disas_insn`: from bytes to operands and a length (no state) | `peep/i386-dis.c` |
| `DecodeRun` | instructions put together part by part and decoded | |
| `X86Form` | abstract specification: lengths and addresses as the processor defines them | |
| `Insn` | predicates on decoded instructions (no state) | `peep/insn.c` |
| `Instrument` | the look ahead, the choice of a register and of a snippet (no state) | `peep/instrument.c`, `peep/snippets.h` |
| `ShadowRun` | a block that runs with its instrumentation | `peep/peeptab_defs.h`, `peep/peep.c` `translate` |
| `ContainersProofs`, `RBTreeShape` | theorems about `Jumptable1` and `RBTree`; what they need of links, keys and colors, without the state | |
| `ModuleProofs` | theorems about `Lifecycle`, `StopBT` and `ExTable` | |
| other `*Proofs` | theorems about the module of that name | |
| `MC*` | instances for TLC; `MCContainers` has `Jumptable1`, `RBTree`, `MyList` and `HashTable`, `MCModule` has `Lifecycle`, `StopBT` and `ExTable`, `MCInsn` has `DecodeRun` and `ShadowRun` | |

`Dispatcher` and `Jumptable1` share `JumpCache`: the dispatcher's table of a
processor changes by `AfterAdd` and `AfterHit`, and `Jumptable1` shows that the
table of the code changes by them too (`ActsAsCache`). `StopBT` takes the code of
calls from `PeepTab` (in `MCModule`), the same that `TransCode` executes. `MyList` and
`HashTable` share `ListOps`. `Instrument` is built on `Insn` and that on `Decode`,
so that `ShadowRun` starts from bytes.

### State and actions

**Dispatcher.** One action per step that other processors can see. `pc[p]`
names where the processor is: `guest` (translated code), `monitor` (at
`monitor_entry`), `lock`, `own`, `find`, `place`, `emit`, `publish`, `map`,
`disown`, `unlock` (inside `tb_gen_translated_code`, lines 91 to 96), `cache`
(98), `patch` (100 to 103), `resume` (127 to 131), `boot` (between two calls of
`create_shadow_idt`) and `fatal` (after "Reentrency detected"). A block is
named by its first address; `tbs` says how far it is (measured, placed,
written), `jumptable2` is the set of published blocks and stands for `tc_tree`
too, which is changed in the same place. A location is a block and an address
in it. A branch is named by its block, instruction and target, and `chain`
says where it leads; this is `prev_tb`. `IndirectMiss` and `IdtEntry` set
`prev_tb` to `NoSlot` (0). A page fault (`Fault`) suspends the translation in
`fault[p]` and runs translated code from the fault vector until `FaultReturn`;
it may leave for the monitor like any code, which is `Reentry`.

**PoolAlloc.** `Found` is the test and the read of the cursor, `Bump` the
update. `Acquire` and `Release` are the lock of the callers. `vmalloc` returns
any base that overlaps no area in use; running out of memory (`ChunkAllocFails`)
and out of a pool (`PoolFull`, which ends in `BUG()`) are states without a way
out.

**Jumptable1.** `Add` is `jumptable1_add` as a whole, `HitFirst` and `HitBehind`
the machine code that finds an address in the first or in a later slot of its
set and exchanges the two. Both run with interrupts disabled on the table of
their own processor, so each is one step; `INIT_BT`, which is preemptible, runs
when no translated code is executed yet.

**TxTarget.** A thread has a stack of contexts. Steps of a context are those
between which an interrupt, a page fault or the scheduler can come. What the
entry code of the kernel does (`push %ds`, load `%fs`, `pop %ds`, `iret`) is
external, but the translation of `push %ds` and `pop %ds` is the code's. `want`
and `keep` are history variables: what the next use of `tx_target` in a context
needs, and what the context below will need when this one is gone.

**TransBlock.** `Measure` and `Write` are one iteration of the loop of
`translate` in either pass, with what precedes the loop in `Begin` and `Alloc`
and what follows it in the last iteration. An instruction of the guest is a
record of what the matcher and the instrumentation do with it: its length,
whether a rule of `peep.tab` matches and what that emits, whether it ends the
block, what instrumentation it gets, whether the kernel expects it to fault.
Offsets count from the beginning of a buffer. `tc` is a ghost field of a block:
who has written which bytes; the properties compare what the boundary arrays
say with it. `measured` is a history variable. One processor translates at a
time (the lock is in `Dispatcher`); the others do `TRANSLATE_IDT`, in its two
steps, and `LOAD_NATIVE_IDT`. They do so after `INIT_BT` has returned, as
`launch_bt` does. Who may translate (`Translates`: the processor of `INIT_BT`,
later those on the shadow table) is what keeps the flag constant during a
translation.

**PeepMatch, PeepTab, TransCode.** `call_opt` is the build, which
the initial state chooses and no step changes. `TransCode` starts in front of a branch of
the guest, whose operands and outcome (`insn`) are inputs. `Translate` is
`peep_translate`: it picks the rule of `PeepTab` and the registers of its
temporaries as `PeepMatch` finds them. The other actions are one instruction of
the emitted code each. Values are terms: `<<"reg", 3>>` is what the guest had in
`ebx`, `<<"mem", seg, base, index, scale, disp>>` what memory has at an address
computed from terms, `<<"tc", e>>` the translation of `e`. Two values are equal
when they are whatever the guest's registers and memory hold, and a register
that is clobbered or read too late shows as another term. `esp` is a number
relative to where it was, so that the stack is a function on a small interval.
`slots` is the set of `jumptable1` that the target hashes to; an `Interrupt`
may come in front of every instruction while the interrupt flag is set: it
uses the stack below `esp` and leaves any contents in the set. `before` is
history: the set when interrupts were disabled last. The code is left by a
chained edge, by `jmp *tx_target`, for the monitor, by `ret` or `iret`, or by
running on (`left`, `dest`); until then the branch has not happened in
`NativeInsn`. A conditional jump that tests flags (or `ecx`) that are not the
guest's any more goes either way. A return address in translated code (with
`CALL_OPT`, `<<"code", i>>`) stands for the guest's if execution goes on from
there to the instruction behind the call (`ResumesAt`). One operator of
`PeepTab` is one macro of `peep/peeptab_defs.h`; `EXCHANGE` is the part of
`SEARCH_HASH_TABLE` that it repeats. `NomatchPairs` is
`output_nomatch_pairs_for_entry`, from the same code that is executed.

**RBTree.** An element is the block it is embedded in, its key the range of
addresses `tb_less` or `tc_less` compares. `child`, `parent` and `color` are the
fields of every element and of `nil`, the sentinel all trees share. Left and
right are names of links, so `Rotate`, the neighbours and the fixups are one
definition for both directions. One action is one turn of a loop of the code:
`pc` is the loop, `at` the node it moves, `node` the entry found so far or
`delnode`, `top` the root that a fixup has read at its beginning (it compares
with that one, not with the root that its rotations leave), `op` what was asked
for. An operation runs with `translation_lock` held, hence one at a time.
`Insert` adds a block of which no element holds the first address, which is when
the dispatcher makes one. Nothing in the repository deletes (`jumptable2_remove`
has no caller); `Delete` is modelled for the promise of the header. The elements
of a tree (`Content`) are those that hang on their parent, or are the root; with
`delnode` while `rb_delete_fixup` runs without it (`Moving`), that is the
refinement mapping to `BlockIndex`. Of the blocks that hold an address a search
finds the one that begins first (`LookupsAgree`), because a new block begins below
those it overlaps; that it does is `NewBlockFirst` of `Dispatcher`.

**Lifecycle.** `shell` is what the script is doing and `at` how far its loop has
come: through `Ladder`, the allocations of `init_bt` in their order (the four
parts of `jumptable1` among them), through `StopOrder`, what `stop_bt` frees, or
through the processors for which `launch` and `terminate` create a thread. The
ioctl of a thread is an action on its own processor. Every allocation and every
`pthread_create` may fail, as far as `MayFail` lets it. A table pointer is
`native`, `shadow` or `none`; the guard `Up` of every action but those of threads
already at their ioctl says that nothing goes on when a processor has no table.
What the kernel does on the shadow table is in `Dispatcher`.

**StopBT.** A return address is a place in the emitted code of a call: in the
block, when it is in front of the first edge, in the edge code otherwise.
`push_orig_eips` is a step per frame, `fetch_eip_from_edge` one per instruction
that it decodes; the threads whose stacks are walked take their steps between
these. `walk` starts a thread with the stack pointer it slept with last, also
when it is awake. `calls` is history: the call that pushed each frame. `passed`
has the threads that slept while they were walked, and sleep still.

**ExTable.** `user` is the file, `table` and `num` are what `init_exception_table`
leaves, also when it fails half way; `Sorted` are the orders that `sort` may leave.
`Translate` is what `translate` does for one
instruction: the bisection in `table` (`Found`) and the entry in the module's
table (`Added`). Chunks come from `vmalloc` at any base. `Fixup` is the kernel's
bisection in what the code has left; for kernels from 3.5 on its entries are
distances from the fields they are in.

**ListOps, MyList, HashTable.** `mem` has the links of every element and of both
ends of every list; an operator of `ListOps` changes it as the statements of a function
do. In `MyList` an operation is one step and its loop a recursive operator. In
`HashTable` every turn of a loop is a step: `Seek` of `find_elem`, `Round` and `Move` of
`rehash`, `Advance` and `SkipBucket` of `hash_next`, `Clear` of `hash_clear`; `pc` says
which loop, `b`, `at` and `n` are its bucket, element and number. The table changes for
its user in one of these steps, the one that returns from `find_elem`. `rest`, which
no action reads, has what a walk has still to return. `call` names the last operation with its arguments, so that
the refinement shows that a step is *that* operation of `Lists` or `Table` and
not any that leaves the same state. An array of n buckets is the lists `<<n, 0>>`
to `<<n, n - 1>>`.

**Decode, OpcodeMap.** An entry of a table is the stem of a name, the
letters that `disas_putop` expands, and the operands as pairs of a routine and
its mode. A `DIS_` routine gives an operand and the position behind what it has
read. Numbers of 32 bits are four bytes. An opc is the name it stands for.
`DecodeRun` puts instructions together part by part, as the processor defines
them in `X86Form`, and compares.

**Insn, Instrument, ShadowRun.** The block is a sequence of bytes of instructions;
`DisasInsn`, the predicates of `Insn` and `instrument_memory` turn it into a
sequence of snippets, one action each. Values are not modelled: `junk` has the
parts of registers and the flags that hold something else than natively, `marks`
what shadow memory was marked for the access to come. What an instruction reads,
overwrites and accesses is given with its bytes, as the processor's manual has
it, and not taken from the code.

## 3. Runs

| run | instance | states | shows |
|---|---|---|---|
| `pool_alloc` | 2 processors, chunks of 4 + 2 bytes, 2/1/1 chunks per pool, requests of 0 and 2 bytes | 366,946 | blocks disjoint, in their pool, with slack; `addr_to_pool` right for every byte |
| `dispatcher` | 2 processors, 7 instructions, a fault handler that is also the only vector | 1,375,009 | lock protocol, re-entry, chaining, caching, execution, order of blocks, refinement of `NativeExec` |
| `shadow_idt` | 2 processors, 6 instructions, two vectors with a common prologue, no cycle in the guest, fairness | 298,975 | every path from a vector to `push %es` is chained, every exit is served |
| `tx_target` | 2 processors, 2 threads, 2 values, 2 contexts | 186,491 | `tx_target` is the thread's own |
| `trans_block` | 2 processors, 13 instructions, `tpage` of 16 bytes, offsets modulo 32, 5 instructions per block, 3 exception entries | 5,912 | the passes agree, addresses are translated back and forth, faults find their fixups |
| `trans_code` | every rule, with and without `CALL_OPT`; all registers but `esp` as targets, memory operands of up to two of four registers with every scale, with and without interrupts; the target in no, one or two slots | 174,812 | one rule matches, the search is atomic and moves the target first, the emitted code implements the branch |
| `containers` | four instances, below | 212,040 | see there |
| `module` | three instances, below | 3,602,328 | see there |
| `instructions` | two instances, below | 2,059,642 | see there |
| `dispatcher_unique` | as `dispatcher` | | a violation, see section 6 |
| `trans_code_esp` | jumps and calls through memory at `esp` | | a violation, see section 6 |
| `shadow_flags` | as `instructions`, blocks of three instructions, among them `sete` | | a violation, see section 6 |

A behaviour of `containers`, `module` or `instructions` is one of several
independent parts: the initial state chooses one and the variables of the others
stay as they are. `MCContainers` has `MyList` and `HashTable` as instances and
extends the modules of its other parts, `MCModule` and `MCInsn` extend theirs.

| run | part | instance | shows |
|---|---|---|---|
| `containers` | `Jumptable1` | 4 + 3 slots, 4 targets, two of one set, one of them address 0, one with two translations | slots stay in the table (`TypeOK`), branches land (`LandsOnTarget`), cache contract (`ActsAsCache`) |
| | `RBTree` | 6 blocks for `jumptable2`, three of which end at the same instruction, 2 for `tc_tree` | balance and links with the sentinel (`WellFormed`), first of equal elements and iterators (`LookupsAgree`), refinement of `BlockIndex` (`ImplementsIndex`) |
| | `MyList` | 2 lists, 5 elements, two pairs of which are equal | refinement of `Lists`: every operation, stable sorting (`ImplementsLists`) |
| | `HashTable` | 5 elements of 4 keys, two of which collide, tables of 1, 3 and 4 buckets | refinement of `Table` while the table grows and shrinks or finds no memory to (`ImplementsTable`) |
| `module` | `Lifecycle` | 3 processors, 2 chunks; allocations and threads of `launch` and `terminate` fail | a processor on the shadow table has the module and its memory (`ShadowBacked`), STOP_BT frees everything (`StopFreesAll`), a failed `alloc_jumptable1` leaves nothing (`AreasWhole`) |
| | `StopBT` | 2 threads, 2 frames each, direct calls and calls through memory | a thread that slept while it was walked returns to the guest's addresses (`RestoresReturns`) |
| | `ExTable` | up to 4 entries in any order, 3 chunks of 2 instructions, room for 4 entries | a fault finds the fixup of the guest's instruction (`FixupReached`) |
| `instructions` | `DecodeRun` | every opcode of one and two bytes but SSE, every modrm byte, 3 bases and indices with every scale, 6 combinations of prefixes, two rests | lengths (`LengthRight`) and addresses (`AddressRight`) are the processor's |
| | `ShadowRun` | blocks of up to 2 of 31 instructions and an end of 5, with and without exception entries, counts up to 2 | the guest computes what it does natively (`Transparent`), the right shadow is marked (`ShadowRight`) |

Why these bounds. The guest of `dispatcher` has each kind of branch once, a
loop, a `push %es`, two blocks that overlap in either order of creation, and
branches into the middle of a block, on the smallest number of addresses we
found for all of them; two processors give every race on one branch and one
block, and the actions of a processor mention no more than one other (the lock
holder). The guest of `shadow_idt` has a second vector whose prologue reaches
the first one's, so that the walk meets chained and unchained branches in both
orders. In `Jumptable1` a set of four overlaps three others on each side: the two
targets of slot 0, those of slots 1 and 3 and the copies that repeated
additions leave fill slots 0 to 6, the last of which are behind `Size`. In `pool_alloc` two blocks fill a chunk exactly and a third
one goes on in the next, two chunks may be adjacent in memory and may be
obtained in any order. The guest of `trans_block` has every combination of
rule, copy, instrumentation, emulation, fixup and ending that the branches of
`translate` distinguish, blocks that overlap, one that exhausts the exception
table and one that is longer than `tpage`; `Room` is below `Width`, as 65536
offsets are in `uint16_t` (`CodeFound` excepts a block of exactly 65536 bytes). Six
elements take insertion and deletion through each of their cases; the second tree
only has to share the sentinel, and larger trees are in the proofs.
The view of `containers` drops the fields of elements in no structure, which
every insertion sets all, and what the last operation returned. `trans_code` takes every
rule with every pattern of equal and different registers that its variables and
`temporaries` can have: `eax`, which the matcher treats apart, and the highest
three, which are the ones `find_temporary_regs` tries first. Six words below
`esp` are the most that a rule pushes. In
`tx_target` depth 2 is a system call interrupted
once; what a deeper stack adds is covered by the proof.

Five elements make three ascending runs, which merge sort takes two rounds for;
two lists give splices between lists and within one. Five elements take the
hash table from one bucket to two and back, the table of three buckets becomes one of
two at the first insertion that finds memory for them, and in one of four a walk meets
empty buckets. A `rehash` without memory leaves the table as it is, also one with a
number of buckets that is no power of two: `ABORT` only logs (`lib/hash.c:441`). Three processors have one that is
done, one that is at its ioctl and one that has no thread yet; two chunks are
enough for a loop that fails in the middle. The walk of `StopBT` is in one stack
while the other thread runs, sleeps and wakes, and two frames have one that is
walked and one that comes and goes. Two instructions per chunk let a chunk fill,
so that the order of chunks matters; the fifth entry finds the table full. The
registers of the sib byte in `DecodeRun` are eax, and the two whose numbers mean
something else. The instructions of the blocks in `ShadowRun` cover each form of address, each
width, reading and writing, %esp and segment bases, each string operation, each
kind of use of flags, and registers that are defined before they are used; two
in front of the end are one more than the look ahead needs to be stopped by one.

`VIEW` in `MCDispatcher` drops values that no later step reads (the target
after it was used, the call while a processor is in guest code), so that states
which differ in them only are one; every property of the runs reads live
values only. Processors, threads and values are symmetric in `PoolAlloc` and
`TxTarget`, which check invariants only; in `Dispatcher` they are not (vcpu 0
boots). `CHECK_DEADLOCK FALSE` is set because the program may stop: `BUG()` in
a full pool, a failed initialisation, a processor after a fatal re-entry, a
block that is longer than `tpage`, the end of a block, the code freed, no interrupt
table left.

Other bounds: a translation takes at most one page fault (`fault = "done"`
afterwards).

Fairness (`FairSpec`). Monitor steps are weakly fair: they run with interrupts
disabled, nothing can take the processor away. `Lock` is strongly fair: the
kernel's spinlocks of that time are ticket locks, which serve every waiter.
The steps of a page fault handler that interrupted the monitor are weakly fair,
as the handler of a fault in kernel mode on a mapped area runs to its end. No
fairness is assumed of guest code otherwise, and the guest of `shadow_idt`, which
checks `ExitServed`, has no cycle, as a handler that loops for ever would keep the
lock for ever.

## 4. Proofs

All theorems hold for every value of the constants that meets the assumptions
(a lock that is no processor, addresses that are natural numbers, targets that
are addresses, a fault handler among the vectors, at least one processor and
chunk, finitely many elements of trees, and blocks that end at the same instruction
when they overlap). Three hold under a hypothesis on constants that TLC evaluates for the
instances of `module` and `containers`: `CallEndsBlock` (`do_each_thread` has every thread once, and
the code of a call that is not edge code ends with the call) for `Restoring`,
`ChunksApart` (finitely many instructions, chunks that do not overlap) for
`FaultsReachFixups`, and `HashAssumption` (finitely many elements, equal ones with equal
hash values, no size zero, `i & (n - 1)` a number below n, and elements that are no buckets) for
`TablesAreSets`. Each module proves one inductive invariant and derives the
rest from it, or from it and a second one that is inductive relative to it.

* `PoolAllocProofs`: `IInv` says that only the holder of the lock is inside the
  allocator (`LockInv`), that the loop index stays in its pool and the room
  found is still there (`ScanInv`), that chunks are disjoint and cursors inside
  (`ChunkInv`), and that every block lies below the cursor of a chunk of its
  pool (`BlockInv`). `BlocksDisjoint` alone is not inductive: nothing in it says
  that a new block begins behind the old ones. Theorems: `TypeCorrect`,
  `Disjointness`, `Containment`, `PoolLookup`.
* `DispatcherProofs`: besides the lock protocol and the soundness of branches,
  tables and processors, `IInv` says what a call has to keep between its steps
  (`CallInv`): the branch to be patched has the target looked for, a block in
  the making is unknown to the index, the result is a location of the address
  in a published block. `StoreInv` makes published blocks finished ones,
  `IdtInv` and `BootInv` keep other processors out while the table is built,
  `NestInv` bounds what runs during a page fault. Theorems: `TypeCorrect`,
  `MutualExclusion`, `ReentryDetected`, `Chaining`, `Caching`, `Execution`, and
  `Implementation`, the refinement of `NativeExec` under `ip <- GuestIp`: each
  action maps to `Enter`, `Branch`, `Return` or a stutter. `GeneratedOnce` needs
  that finished code is published or about to be (`CodedInv`), so that the
  lookup with the lock finds it (`MakesNew`). `PublishedBelow` rests on the same
  lookup: a block that begins inside a published one is found and not made, and one
  that meets it otherwise begins below it and contains it (`MeetsBelow`). `Recording` extends what is said of branches and
  entries to the calls that have passed `tb_add_jump` (`RecordInv`).
  `ProloguesChained` is about paths of any length: `WalkInv` says that there is a
  set of followed branches which leads nowhere but into itself and to those still
  open; when the walk is over none is open, and the set is a witness of
  `PrologueChained` that no later step takes away.
* `ContainersProofs`, of `Jumptable1`: `TypeOK` and `Paired` are inductive together. Theorems:
  `TypeCorrect`, `Pairing`, `Landing` (an action property), and `Caching`, the
  refinement of `JumpCache`. The refinement is false without `Behind`: an address
  that lay in front of its set would be moved into it by additions to other sets,
  and be found although nobody added it. `Behind` is inductive as an addition moves
  entries to higher slots only and a search moves none in front of its set.
* `TxTargetProofs`: `Handed` (a context keeps for the one below what that one
  wants), `Saved` (on the stack when it has passed `push %ds`), `Parked` (a
  thread no processor runs wants nothing). Theorems: `TypeCorrect`,
  `BranchesHome`.

* `TransBlockProofs`: `measured` is a trace of the block (`TraceInv`), the first
  pass is at its end (`MeasureInv`, `MeasuredInv`), the second one at its
  `n_in`-th element (`WriteInv`). That the trace stays valid when another
  processor sets `shadow_idt_loaded` needs `LoadInv` and `BusyInv`: a processor
  that translates after `INIT_BT` is on the shadow table, hence the flag is set
  already. Theorem: `Agreement`. The other three are about blocks of any length and
  number: `LayInv` and `LaidInv` say that the boundaries of a block are those of the
  code it contains, one interval for each instruction and in their order, from which
  the searches of `tb.c` have one answer (`AddressesFound`, `EntriesLand`); `SizeInv`,
  from the agreement of the passes, that every offset the second one writes is within
  what the first one measured, hence below `Width` with the exception that `CodeFound`
  states; `ExInv` that the entries are those of the instructions written so far until
  the table is full (`FaultsFixed`).
* `ModuleProofs`, of `Lifecycle`: `ShadowIsBacked` needs no premise about what may fail. The
  history variable `left` says that `terminate` has left its loop early; until
  then `ShadowBacked` holds (see section 6 for what happens afterwards). It
  is not inductive alone: nothing in it says that no processor is on the shadow
  table when `init_bt` gives back what it has allocated, or when `stop_bt` frees.
  `IInv` adds what each phase of the scripts has: during `init_bt` no processor is
  on that table and what it has come past is held (`Initialising`), `launch`
  starts threads when all is held (`Starting`), `terminate` has left no processor
  behind that has no thread to take it off (`TakingBack`), and the threads of a
  tool run while the tool does (`Launching`). `AllIsFreed` and `AreasAreWhole` hold
  whatever `left` is: `HeldInv` says what is held in each phase, as a part of the
  ladder of `init_bt` and as the rest of the order of `stop_bt`.

* `ModuleProofs`, of `StopBT`: theorem `Restoring`. `RestoresReturns` speaks of threads the walk
  has passed, and takes what the stack of each was before: `Ahead` says that the
  stacks of threads the walk has not come to have the place their call pushed, or
  the guest's address; `Asleep` that of the thread being walked the frames above are
  the guest's, and that what `fetch_eip_from_edge` follows belongs to the frame it will
  write; `Behind` that no thread comes a second time. Nothing is claimed, or true, of
  a thread that runs while it is walked.

* `ModuleProofs`, of `ExTable`: theorems `LaidOutInOrder` and `FaultsReachFixups`, the latter for
  a kernel with addresses in its tables. The two bisections are recursive functions.
  That such a search finds what it should in any ascending table (`Bisection`) is
  proved without an induction theorem: among the intervals for which it is wrong
  there is a shortest one (`Least`), and it is wrong for one of the halves too
  (`WrongHalf`). That the functions exist follows by giving one (`MeantSearches`).
  `EInv` says that the guest's table has the entries of the file in strict order
  (`Copied`, from the permutation that sorting is), that the code cache is laid out
  in the order of translation (`LaidOut`, `Placed`), that with ascending chunks the
  entries ascend too, and that an entry is there for each instruction that has one
  until the table is full (`Listed`).

* `RBTreeShape` and `ContainersProofs`, of `RBTree`: theorems `TreesWellFormed`,
  `LookupsRight` and `TreesAreSets`, for any number of trees and elements. What the
  properties say of links is not inductive: nothing in it says that there is no cycle
  of links apart from the trees, that what hangs below a node is on the right side of
  all its ancestors, or what holds in the middle of a fixup. `TreeInv` says that there
  are a set `L` of the elements that are in trees, for each node the set `D[n]` of those
  at or below it, and its black height `h[n]`, which meet conditions on a node and its
  neighbours only: `D[n]` is `n` and the two sets of its children, which are on their
  sides of it in the order of keys (`Shape`, where the root has all of its tree and a
  node is in no set of a child); `h` is the sum along one link and the same along both
  (`Weighed`), except, during a deletion, at one node, one side of which lacks a
  black node; no red node has a red parent, except at the node that a fixup is at
  (`Colored`). Recursion is in none of this, so that a step is shown by giving the new
  `D` and `h`: a rotation changes both for two nodes (`TurnedShape`), a new leaf goes
  into the sets of its ancestors, which `D` knows (`LinkedShape`), `delnode` goes out
  of those of its ancestors (`SplicedShape`) and takes a name (`ReplacedShape`). `Local`
  says where each loop is: that the key looked for, or the place of the new leaf, is
  below `at` (`Looked`, `Placed`), that `minimum` and the climb have the neighbour in
  front of them (`Stepped`), that `delnode` is next to the element it will replace
  (`Removed`). Two facts are not local. That `Content` is `L` follows from `D`
  at the roots; that `Height`, the recursive function of the property, is `h`
  is shown at a node with the fewest elements below for which it were not
  (`Deepest`, `Heights`). `TreesAreSets` maps steps by `Effect`: what each step does
  to `L` and to `Moving`. `rb_delete_fixup` is the step that needs most: it never
  reads a child of the sentinel, because the sibling of a node that lacks a black
  one is an element (`SiblingThere`), and writes the parent of the sentinel, on which
  nothing else relies (`parent[Nil]` occurs in `Local` under `mend` only).

* `HashTableProofs`: theorem `TablesAreSets`, for any number of elements, any hash
  function and any sizes. The first part is about lists. `Chains` says that there are a
  function `In`, the list of each element, and one `Behind`, the elements behind it in
  that list, which meet conditions on neighbours only: the links of neighbours agree,
  what is behind an element is the next one and what is behind that, and no element is
  behind itself. That there is no cycle, and that a list ends at its header, follows;
  that an element outside has a predecessor which does not point to it (`OutOK`) makes
  `Content`, read from the links, the elements that are inside (`HangsInside`).
  `mylist_remove`, `mylist_push_front`, `mylist_init` and the freeing of an array keep
  it (`UnlinkKeeps`, `PushKeeps`, `FreshKeeps`, `DropKeeps`). The refinement is not
  inductive: `HashInv` adds that an element is in the bucket its hash value selects, or
  in one that `rehash` has not come to (`Placed`), that there are no two equal elements,
  that an equal element is at or behind the one a search is at (`SearchOK`), that a
  walk has still to return what is behind its element and in later buckets (`WalkOK`),
  and that `elem_cnt` is the number of elements, on which the number of buckets depends.

Only model-checked:

* `ExitServed`, a liveness property, which is out of the prover's reach;
* `ImplementsLists`: the operations of `MyList` are one step each, computed with
  recursive operators, about which nothing can be proved here; `HangsInside` and the
  lemmas on single insertions and removals hold for its links too;
* all of `TransCode`, `DecodeRun` and `ShadowRun` (`OneRule`, `AtomicSearch`,
  `RunsAsNative`, `LengthRight`, `AddressRight`, `Transparent`, `ShadowRight`). They are
  about fixed tables: a finite set of rules, opcodes and registers, where the run has
  every one and there is no constant to generalise.

`TypeOK` of `PoolAlloc`, `Dispatcher` and `TxTarget` and `ExecSound` of
`Dispatcher` are theorems and not repeated in the runs.

## 5. What is left out

* Code bytes. In `Dispatcher` addresses are beginnings of instructions; the
  offsets in a block are in `TransBlock`.
* What is overwritten when a block is longer than `tpage` or has more than
  `MAX_TU_SIZE` instructions: assertions only log, and the model stops there.
* A branch into the middle of an instruction that is instrumented or rewritten
  by a rule: `EntryLands` states where it goes for copied ones only.
* With instrumentation, the exception entry of an access is that of its
  instrumentation (`peep/peep.c:525`; `FaultFixed` and `FixupReached` except it, as
  no document says where it should be).
* Guest code that changes between the two passes or later (the kernel patches
  itself), and the displacements of copied branches such as `loop`, which has no
  rule.
* Page faults of the monitor outside the lock (`jumptable1_add`, the patch) and
  what a nested `monitor_entry` does to the monitor stack of the outer one.
* Half written branch displacements (`bt_main.c:101`).
* `p->insns[n_in]` written before `n_in` is compared (`peep/peep.c:520`); the
  lookup in `tc_tree` without the lock during STOP_BT (`btfix.c:222`); the lock that
  stays taken after `BUG()` in a full pool (`mem/malloc.c:75`), which `PoolAlloc`
  has as a state without a way out; `init_shadow_data` called with an index instead
  of a number (`btmod.c:285`).
* Interrupts of translated kernel code in `Dispatcher`, which lets vectors enter
  from native code only; contexts on top of each other are in `TxTarget`.
* In `Lifecycle`: `BT_SET_MODE`, the ioctls that print, the construction of the
  device; in `StopBT`: frames without a frame pointer and translated addresses
  between frames.
* In `TransCode`: instructions that match no rule, which are copied (`jmp *%esp`
  among them), 16-bit operands, `PROFILING`, the build without
  `JUMPTABLE_OPTMIZATION`, the processor constraints of rules (all rules have
  the default, which allows everything the translator asks for) and page faults
  in emitted code.
* In the matcher: a rule whose temporaries cannot be found only logs and reads
  uninitialised registers; `OneRule` shows that it never happens.
* In `HashTable`: `hash_clear` without a destructor on a table in use, which forgets the
  elements where they are (`hash_init_size` calls it so, on fresh buckets).
* The parser and the encoder of the rule compiler; `count_insns`, which adds a
  constant to a counter.
* In the disassembler: SSE, VMX and PADLCK, three-byte opcodes, 64-bit mode, Intel
  syntax, printing. `DecodeRun` leaves out the instructions for which the decoder does
  not follow the processor: 82 is no opcode, 0f 01 /1 (sidt, monitor, mwait) loses
  its modrm byte, fences have rm 0, popcnt is one with `rep` only, 0f b9 has no
  operands, `fwait` is a prefix. That the segment of an address with `esp` or `ebp`
  is `ds` and the size of every operand in memory 4 (2 with 16-bit addresses) is in
  `Decode` as in the code; that `movzbl` marks four bytes is a consequence.
* Run `instructions` has, of the blocks, the instructions whose instrumentation works. Not among them,
  because it does not or the code says nothing of them: `repe cmps` and `repe scas`
  (the loop is always that of `repne`), a count of 0 of `repne scas` (flags are not
  put back), `pushf`, `mov $1,%al` and other definitions of a part of a register,
  registers that are used without being operands (`cltd`, `cpuid`, `rdmsr`),
  `cmpxchg`, `push`, `mul`, `div`, `bt` and `nopl` with memory (taken for writes), the
  widths of `addw $n`, `sete`, `movz`, `movs` and `mov %ds`, `movs` and `cmps` without a
  prefix (an assertion fails), 16-bit addresses, an instruction that uses all four
  byte registers (another assertion). A caller does not look at the flags a
  function returns.

## 6. Findings

`peep/jumptable2.c:38` says that entries of `jumptable2` are unique; the
assertion next to it is commented out. A branch to an address below an existing
block makes a block that ends at the same instruction, and `tb_less` treats the
two as equal. Run `dispatcher_unique` shows the shortest way there. The lookup
works because `rbtree_find` returns the first of the equal entries and a new
block always begins below and contains those it equals (`NewBlockFirst`).

The rule of an indirect jump through memory (`peep.tab:33`) pushes three words
before it reads its operand, whose base may be `esp`: `jmp *8(%esp)` goes
through the word at `-4(%esp)`. `doc/manual.tex` (206) explains the constraint
`no_esp` of the register rule by just this; the memory rule has none on the
base, and `gen_mem_modes32` adds one for an index only. Run `trans_code_esp`
shows it. The rule of calls reads memory first, and `trans_code` has calls
through `esp` among its instructions. That it does so through `tx_target` while
interrupts are enabled is harmless because the entry code of the guest saves
`tx_target` (`OwnTarget` of `TxTarget`).

`set` is in the list of what does not read flags (`peep/insn.c:1388`), which a
comment (1386) calls conservative. Run `shadow_flags`: the instrumentation of an
access in front of `sete` and a comparison destroys the flag that `sete` reads.

Seen while modelling, without a run:

* `rehash` takes half the number of elements whenever it is called, so that the
  number of buckets changes below two elements per bucket and at four, and not at
  the ratios `lib/hash.c:404` and 406 give.
* `unload` after a failed INIT_BT loads a descriptor that was never stored: each
  processor is left without an interrupt table (`Up` of `Lifecycle`).
* When `terminate` cannot create a thread it returns in the middle of its loop, and
  0; `rmmod` follows while processors are on the shadow table (`left`).
* A thread that is awake while `push_orig_eips` walks its stack still returns to
  freed code; `RestoresReturns` speaks of those that sleep.
* A return address in the edge code of a call that was never chained leads
  `fetch_eip_from_edge` to a jump through memory, of which `operand_get_value`
  asserts that it does not come (`FetchMemory` of `StopBT`).
* Without `--oldkernel` (`README:15`) an entry of the module's table has a relative
  instruction but an absolute fixup (`btfix.c:119`): `FixupReached` fails with
  `OLDKERNEL = FALSE`.
* `rep cmpsb` loses its result, although a comment (`peep/instrument.c:304`) says it
  is excepted; `movzbl` marks four bytes of shadow memory, against
  `doc/manual.tex:327`.

While modelling: the pairs that forbid a temporary the registers of a memory
operand are not needed for any rule of `peep.tab`. The operand is read once,
into a temporary that dies with it, so that `RunsAsNative` holds without them.

## 7. Plan

1. Done: `PoolAlloc`, `Dispatcher`, `Jumptable1`, `TxTarget`, with proofs.
2. Done: `TransBlock` and proofs of all its properties. Left: the refinement of
   the locations of `Dispatcher`.
3. Done: `RBTree`, `MyList`, `HashTable`, each against its abstract specification.
4. Done: `Lifecycle`, `ExTable`, `StopBT`, with proofs. Left: the processors of
   `Dispatcher` on the tables of `Lifecycle`.
5. Done: `PeepMatch`, `PeepTab`, `TransCode`. Left: the encoding of registers by
   the rule compiler.
6. Done: `Decode` and `ShadowRun`. Left: SSE, if kernels with it are to be
   translated; `repe` comparisons once their loop is right.
7. Done: every safety property of `Dispatcher`, `Jumptable1`, `RBTree`, `TxTarget`,
   `TransBlock`, `PoolAlloc`, `Lifecycle`, `StopBT` and `ExTable` is a theorem, and so
   is the refinement of `HashTable`. Left: the sort of `MyList` loop by loop; of
   `TransCode`, that an index into the table is computed from the target wherever it
   is used, for any code that rules emit.
