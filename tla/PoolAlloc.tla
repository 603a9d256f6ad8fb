----------------------------- MODULE PoolAlloc -----------------------------
(***************************************************************************)
(* The bump allocator behind every translation block (mem/malloc.c).       *)
(*                                                                         *)
(* INIT_BT obtains MAX_CHUNK equal chunks from vmalloc; chunk numbers are  *)
(* divided between the pool of translated code, the pool of edges and the  *)
(* pool of bookkeeping data.  malloc_from_pool scans the chunks of a pool  *)
(* and moves the cursor of the first one with room.  The scan and the      *)
(* update are separate steps: nothing inside the allocator makes them      *)
(* atomic, its callers hold bt->translation_lock.                          *)
(***************************************************************************)
EXTENDS Integers

CONSTANTS
  Cpus,        \* the processors that translate
  NoCpu,       \* value of a free lock
  TcEnd,       \* first chunk after those of POOL_TC         (24 in the code)
  EdgeEnd,     \* first chunk after those of POOL_EDGE       (40)
  MaxChunk,    \* MAX_CHUNK                                  (60)
  ChunkBytes,  \* MAX_POOL_PAGES * PAGE_SIZE                 (64 * 4096)
  Slack,       \* bytes kept free at the end of a chunk      (16)
  Bases,       \* addresses vmalloc may return
  Sizes        \* sizes requested, zero included: an edge may be empty

ASSUME CpuAssumption == NoCpu \notin Cpus

ASSUME ChunkAssumption ==
  /\ TcEnd \in Nat /\ EdgeEnd \in Nat /\ MaxChunk \in Nat
  /\ TcEnd <= EdgeEnd /\ EdgeEnd <= MaxChunk
  /\ ChunkBytes \in Nat /\ Slack \in Nat /\ Slack <= ChunkBytes
  /\ Sizes \subseteq Nat

ASSUME BaseAssumption == Bases \subseteq Nat \ {0}

VARIABLES
  phase,        \* progress of malloc_init: "init", "ready" or "failed"
  nchunks,      \* loop index of pool_alloc_pages
  chunk_start, chunk_cur, chunk_end,   \* struct chunk_info, per chunk
  lock,         \* holder of bt->translation_lock
  pc,           \* where each processor is in malloc_from_pool
  req,          \* its request: pool and size
  idx,          \* its loop index i
  ret,          \* its local ret
  blocks        \* every block handed out (a history variable)

vars == <<phase, nchunks, chunk_start, chunk_cur, chunk_end,
          lock, pc, req, idx, ret, blocks>>

chunkVars == <<phase, nchunks, chunk_start, chunk_end>>

Chunks == 0 .. MaxChunk - 1

POOL_TC      == 0
POOL_EDGE    == 1
POOL_KMALLOC == 2
Pools == {POOL_TC, POOL_EDGE, POOL_KMALLOC}

\* init_pool_range: the half-open range of chunk numbers of each pool.
PoolFirst(pool) == CASE pool = POOL_TC      -> 0
                     [] pool = POOL_EDGE    -> TcEnd
                     [] pool = POOL_KMALLOC -> EdgeEnd

PoolLast(pool) == CASE pool = POOL_TC      -> TcEnd
                    [] pool = POOL_EDGE    -> EdgeEnd
                    [] pool = POOL_KMALLOC -> MaxChunk

\* Locals of a malloc_from_pool that is not running.
NoReq == [pool |-> POOL_TC, size |-> 0]

Contains(c, addr) == chunk_start[c] <= addr /\ addr < chunk_end[c]

\* addr_to_chunk: the first chunk that holds the address, or -1.
AddrToChunk(addr) ==
  IF \E c \in Chunks : Contains(c, addr)
  THEN CHOOSE c \in Chunks :
         /\ Contains(c, addr)
         /\ \A d \in Chunks : Contains(d, addr) => c <= d
  ELSE -1

\* Mutant of AddrToPool: the range of the pool includes its end.
AddrToPoolEndIncluded(addr) ==
  LET c == AddrToChunk(addr)
  IN  IF c >= 0 /\ c <= TcEnd THEN POOL_TC
      ELSE IF c >= TcEnd /\ c < EdgeEnd THEN POOL_EDGE
      ELSE -1

\* addr_to_pool has its own copy of the chunk ranges; data and native
\* addresses are both -1.
AddrToPool(addr) ==
  LET c == AddrToChunk(addr)
  IN  IF c >= 0 /\ c < TcEnd THEN POOL_TC
      ELSE IF c >= TcEnd /\ c < EdgeEnd THEN POOL_EDGE
      ELSE -1

Overlap(a, m, b, n) == a < b + n /\ b < a + m

----------------------------------------------------------------------------
Init ==
  /\ phase = "init"
  /\ nchunks = 0
  /\ chunk_start = [c \in Chunks |-> 0]
  /\ chunk_cur   = [c \in Chunks |-> 0]
  /\ chunk_end   = [c \in Chunks |-> 0]
  /\ lock = NoCpu
  /\ pc  = [p \in Cpus |-> "out"]
  /\ req = [p \in Cpus |-> NoReq]
  /\ idx = [p \in Cpus |-> 0]
  /\ ret = [p \in Cpus |-> 0]
  /\ blocks = {}

\* Mutant of ChunkAlloc: no bytes are kept free at the end of a chunk.
ChunkAllocNoSlack ==
  /\ phase = "init" /\ nchunks < MaxChunk
  /\ \E base \in Bases :
       /\ \A c \in 0 .. nchunks - 1 :
            ~Overlap(base, ChunkBytes, chunk_start[c], ChunkBytes)
       /\ chunk_start' = [chunk_start EXCEPT ![nchunks] = base]
       /\ chunk_cur'   = [chunk_cur EXCEPT ![nchunks] = base]
       /\ chunk_end'   = [chunk_end EXCEPT ![nchunks] = base + ChunkBytes]
  /\ nchunks' = nchunks + 1
  /\ UNCHANGED <<phase, lock, pc, req, idx, ret, blocks>>

\* One turn of pool_alloc_pages.  vmalloc returns an area that overlaps no
\* other area.
ChunkAlloc ==
  /\ phase = "init" /\ nchunks < MaxChunk
  /\ \E base \in Bases :
       /\ \A c \in 0 .. nchunks - 1 :
            ~Overlap(base, ChunkBytes, chunk_start[c], ChunkBytes)
       /\ chunk_start' = [chunk_start EXCEPT ![nchunks] = base]
       /\ chunk_cur'   = [chunk_cur EXCEPT ![nchunks] = base]
       /\ chunk_end'   = [chunk_end EXCEPT ![nchunks] = base + ChunkBytes - Slack]
  /\ nchunks' = nchunks + 1
  /\ UNCHANGED <<phase, lock, pc, req, idx, ret, blocks>>

\* btalloc returns 0: malloc_init fails and the chunks already obtained stay.
ChunkAllocFails ==
  /\ phase = "init" /\ nchunks < MaxChunk
  /\ phase' = "failed"
  /\ UNCHANGED <<nchunks, chunk_start, chunk_cur, chunk_end,
                 lock, pc, req, idx, ret, blocks>>

InitDone ==
  /\ phase = "init" /\ nchunks = MaxChunk
  /\ phase' = "ready"
  /\ UNCHANGED <<nchunks, chunk_start, chunk_cur, chunk_end,
                 lock, pc, req, idx, ret, blocks>>

----------------------------------------------------------------------------
Step(p, from, to) == pc[p] = from /\ pc' = [pc EXCEPT ![p] = to]

\* Mutant of Acquire: the allocator is called without translation_lock.
AcquireUnlocked(p) ==
  /\ phase = "ready"
  /\ Step(p, "out", "held")
  /\ lock' = p
  /\ UNCHANGED <<chunkVars, chunk_cur, req, idx, ret, blocks>>

\* A processor enters the translator.
Acquire(p) ==
  /\ phase = "ready" /\ lock = NoCpu
  /\ Step(p, "out", "held")
  /\ lock' = p
  /\ UNCHANGED <<chunkVars, chunk_cur, req, idx, ret, blocks>>

Release(p) ==
  /\ lock = p
  /\ Step(p, "held", "out")
  /\ lock' = NoCpu
  /\ UNCHANGED <<chunkVars, chunk_cur, req, idx, ret, blocks>>

\* malloc_from_pool is called for some pool and size.  tb_kmalloc answers an
\* empty request itself.
Request(p) ==
  /\ Step(p, "held", "scan")
  /\ \E pool \in Pools, size \in Sizes \ {0} :
       /\ req' = [req EXCEPT ![p] = [pool |-> pool, size |-> size]]
       /\ idx' = [idx EXCEPT ![p] = PoolFirst(pool)]
  /\ UNCHANGED <<chunkVars, chunk_cur, lock, ret, blocks>>

Fits(p) == chunk_cur[idx[p]] + req[p].size <= chunk_end[idx[p]]

\* The test of the loop body succeeds: the cursor is read, not yet moved.
Found(p) ==
  /\ idx[p] < PoolLast(req[p].pool)
  /\ Fits(p)
  /\ Step(p, "scan", "bump")
  /\ ret' = [ret EXCEPT ![p] = chunk_cur[idx[p]]]
  /\ UNCHANGED <<chunkVars, chunk_cur, lock, req, idx, blocks>>

NextChunk(p) ==
  /\ pc[p] = "scan"
  /\ idx[p] < PoolLast(req[p].pool)
  /\ ~Fits(p)
  /\ idx' = [idx EXCEPT ![p] = @ + 1]
  /\ UNCHANGED <<chunkVars, chunk_cur, lock, pc, req, ret, blocks>>

NewBlock(p) == [cpu  |-> p, pool |-> req[p].pool,
                size |-> req[p].size, addr |-> ret[p]]

\* The cursor moves and the block is returned.
Bump(p) ==
  /\ Step(p, "bump", "held")
  /\ blocks' = blocks \cup {NewBlock(p)}
  /\ chunk_cur' = [chunk_cur EXCEPT ![idx[p]] = @ + req[p].size]
  /\ req' = [req EXCEPT ![p] = NoReq]
  /\ idx' = [idx EXCEPT ![p] = 0]
  /\ ret' = [ret EXCEPT ![p] = 0]
  /\ UNCHANGED <<chunkVars, lock>>

\* No chunk has room: BUG() ends the task, which still holds the lock.
PoolFull(p) ==
  /\ idx[p] = PoolLast(req[p].pool)
  /\ Step(p, "scan", "bug")
  /\ UNCHANGED <<chunkVars, chunk_cur, lock, req, idx, ret, blocks>>

Next ==
  \/ ChunkAlloc \/ ChunkAllocFails \/ InitDone
  \/ \E p \in Cpus : \/ Acquire(p) \/ Release(p) \/ Request(p)
                     \/ Found(p) \/ NextChunk(p) \/ Bump(p) \/ PoolFull(p)

Spec == Init /\ [][Next]_vars

----------------------------------------------------------------------------
Block == [cpu : Cpus, pool : Pools, size : Nat, addr : Nat]

TypeOK ==
  /\ phase \in {"init", "ready", "failed"}
  /\ nchunks \in 0 .. MaxChunk
  /\ chunk_start \in [Chunks -> Nat]
  /\ chunk_cur   \in [Chunks -> Nat]
  /\ chunk_end   \in [Chunks -> Nat]
  /\ lock \in Cpus \cup {NoCpu}
  /\ pc  \in [Cpus -> {"out", "held", "scan", "bump", "bug"}]
  /\ req \in [Cpus -> [pool : Pools, size : Nat]]
  /\ idx \in [Cpus -> 0 .. MaxChunk]
  /\ ret \in [Cpus -> Nat]
  /\ blocks \subseteq Block

\* Two blocks share no byte, even though finding room and moving the cursor
\* are separate steps of malloc_from_pool.
BlocksDisjoint ==
  \A a, b \in blocks : a # b => ~Overlap(a.addr, a.size, b.addr, b.size)

\* Every block lies in one chunk of its own pool, and Slack bytes of the
\* chunk's area remain readable behind it: the disassembler reads 16 bytes
\* ahead of an instruction (the comment in pool_alloc_pages).
BlocksInPool ==
  \A b \in blocks : \E c \in PoolFirst(b.pool) .. PoolLast(b.pool) - 1 :
     /\ chunk_start[c] <= b.addr
     /\ b.addr + b.size + Slack <= chunk_start[c] + ChunkBytes

\* addr_to_pool, with its own copy of the chunk ranges, finds for every byte
\* of a block the pool it was allocated from; bookkeeping data is -1.
\* push_orig_eips and is_edge_cache_addr classify return addresses with it.
PoolOfEveryByte ==
  \A b \in blocks : \A addr \in b.addr .. b.addr + b.size - 1 :
     AddrToPool(addr) = IF b.pool = POOL_KMALLOC THEN -1 ELSE b.pool

============================================================================
