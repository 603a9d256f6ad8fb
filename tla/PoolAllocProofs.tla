-------------------------- MODULE PoolAllocProofs --------------------------
(***************************************************************************)
(* PoolAlloc is safe for every number of processors, every division of     *)
(* the chunks between the pools and all sizes: the proof that the lock     *)
(* turns the unsynchronised scan and update of malloc_from_pool into an    *)
(* allocator whose blocks are disjoint and stay in their pool.             *)
(***************************************************************************)
EXTENDS PoolAlloc, TLAPS

\* Only the holder of the translation lock is inside the allocator.
LockInv ==
  \A p \in Cpus : pc[p] # "out" => /\ lock = p
                                   /\ phase = "ready"

\* The loop index stays in the pool of the request, and the room that was
\* found is still there when the cursor moves.
ScanInv ==
  \A p \in Cpus :
    /\ pc[p] \in {"scan", "bump"} =>
         idx[p] \in PoolFirst(req[p].pool) .. PoolLast(req[p].pool)
    /\ pc[p] = "bump" => /\ idx[p] < PoolLast(req[p].pool)
                         /\ Fits(p)
                         /\ ret[p] = chunk_cur[idx[p]]

\* Chunks obtained so far do not overlap; the cursor is inside its chunk.
ChunkInv ==
  /\ phase = "ready" => nchunks = MaxChunk
  /\ \A c \in Chunks :
       IF c < nchunks
       THEN /\ chunk_start[c] <= chunk_cur[c]
            /\ chunk_cur[c] <= chunk_end[c]
            /\ chunk_end[c] = chunk_start[c] + ChunkBytes - Slack
       ELSE chunk_start[c] = 0 /\ chunk_cur[c] = 0 /\ chunk_end[c] = 0
  /\ \A c, d \in 0 .. nchunks - 1 :
       c # d => ~Overlap(chunk_start[c], ChunkBytes, chunk_start[d], ChunkBytes)

\* A block lies below the cursor of a chunk of its pool.
Holds(c, b) ==
  /\ c < nchunks
  /\ chunk_start[c] <= b.addr
  /\ b.addr + b.size <= chunk_cur[c]

BlockInv ==
  \A b \in blocks :
    \E c \in PoolFirst(b.pool) .. PoolLast(b.pool) - 1 : Holds(c, b)

IInv == /\ TypeOK /\ LockInv /\ ScanInv /\ ChunkInv /\ BlockInv
        /\ BlocksDisjoint

----------------------------------------------------------------------------
LEMMA PoolRange ==
  ASSUME NEW pool \in Pools
  PROVE  /\ PoolFirst(pool) \in 0 .. MaxChunk
         /\ PoolLast(pool) \in 0 .. MaxChunk
         /\ PoolFirst(pool) <= PoolLast(pool)
  BY ChunkAssumption
     DEF Pools, POOL_TC, POOL_EDGE, POOL_KMALLOC, PoolFirst, PoolLast

LEMMA BumpInChunk ==
  ASSUME IInv, NEW p \in Cpus, pc[p] = "bump"
  PROVE  /\ idx[p] \in Chunks /\ idx[p] < nchunks /\ Fits(p)
         /\ ret[p] = chunk_cur[idx[p]]
         /\ idx[p] \in PoolFirst(req[p].pool) .. PoolLast(req[p].pool) - 1
         /\ chunk_start[idx[p]] <= chunk_cur[idx[p]]
         /\ lock = p /\ phase = "ready"
  <1>1. req[p].pool \in Pools /\ idx[p] \in 0 .. MaxChunk
    BY DEF IInv, TypeOK
  <1>2. /\ idx[p] < PoolLast(req[p].pool) /\ Fits(p)
        /\ ret[p] = chunk_cur[idx[p]]
        /\ PoolFirst(req[p].pool) <= idx[p]
    BY DEF IInv, ScanInv
  <1>3. lock = p /\ phase = "ready" /\ nchunks = MaxChunk
    BY DEF IInv, LockInv, ChunkInv
  <1>4. idx[p] \in Chunks /\ idx[p] < nchunks
    BY <1>1, <1>2, <1>3, PoolRange, ChunkAssumption DEF Chunks
  <1>5. chunk_start[idx[p]] <= chunk_cur[idx[p]]
    BY <1>4 DEF IInv, ChunkInv
  <1>6. QED
    BY <1>1, <1>2, <1>3, <1>4, <1>5, PoolRange

LEMMA InitInv == Init => IInv
  BY CpuAssumption, ChunkAssumption
     DEF Init, IInv, TypeOK, LockInv, ScanInv, ChunkInv, BlockInv,
         BlocksDisjoint, Chunks, NoReq, Pools, POOL_TC

LEMMA TypeStep == IInv /\ [Next]_vars => TypeOK'
  <1> SUFFICES ASSUME IInv, TypeOK, [Next]_vars
               PROVE  TypeOK'
    BY DEF IInv
  <1> USE DEF TypeOK
  <1>1. CASE ChunkAlloc
    <2>1. PICK base \in Bases :
            /\ chunk_start' = [chunk_start EXCEPT ![nchunks] = base]
            /\ chunk_cur'   = [chunk_cur EXCEPT ![nchunks] = base]
            /\ chunk_end'   =
                 [chunk_end EXCEPT ![nchunks] = base + ChunkBytes - Slack]
      BY <1>1 DEF ChunkAlloc
    <2>2. base + ChunkBytes - Slack \in Nat /\ base \in Nat
      BY ChunkAssumption, BaseAssumption
    <2>3. nchunks \in Chunks /\ nchunks' \in 0 .. MaxChunk
      BY <1>1, ChunkAssumption DEF ChunkAlloc, Chunks
    <2>4. QED
      BY <1>1, <2>1, <2>2, <2>3 DEF ChunkAlloc
  <1>2. CASE ChunkAllocFails
    BY <1>2 DEF ChunkAllocFails
  <1>3. CASE InitDone
    BY <1>3 DEF InitDone
  <1>4. ASSUME NEW p \in Cpus, Acquire(p) PROVE TypeOK'
    BY <1>4 DEF Acquire, Step, chunkVars
  <1>5. ASSUME NEW p \in Cpus, Release(p) PROVE TypeOK'
    BY <1>5 DEF Release, Step, chunkVars
  <1>6. ASSUME NEW p \in Cpus, Request(p) PROVE TypeOK'
    <2>1. PICK pool \in Pools, size \in Sizes \ {0} :
            /\ req' = [req EXCEPT ![p] = [pool |-> pool, size |-> size]]
            /\ idx' = [idx EXCEPT ![p] = PoolFirst(pool)]
      BY <1>6 DEF Request
    <2>2. PoolFirst(pool) \in 0 .. MaxChunk
      BY PoolRange
    <2>3. size \in Nat
      BY ChunkAssumption
    <2>4. QED
      BY <1>6, <2>1, <2>2, <2>3 DEF Request, Step, chunkVars
  <1>7. ASSUME NEW p \in Cpus, Found(p) PROVE TypeOK'
    <2>1. idx[p] \in Chunks
      BY <1>7, PoolRange, ChunkAssumption DEF Found, Chunks
    <2>2. QED
      BY <1>7, <2>1 DEF Found, Step, chunkVars
  <1>8. ASSUME NEW p \in Cpus, NextChunk(p) PROVE TypeOK'
    <2>1. idx[p] + 1 \in 0 .. MaxChunk
      BY <1>8, PoolRange, ChunkAssumption DEF NextChunk
    <2>2. QED
      BY <1>8, <2>1 DEF NextChunk, chunkVars
  <1>9. ASSUME NEW p \in Cpus, Bump(p) PROVE TypeOK'
    <2>1. idx[p] \in Chunks
      BY <1>9, BumpInChunk DEF Bump, Step
    <2>2. chunk_cur[idx[p]] + req[p].size \in Nat /\ req[p].pool \in Pools
      BY <2>1
    <2>3. NoReq \in [pool : Pools, size : Nat] /\ 0 \in 0 .. MaxChunk
      BY ChunkAssumption DEF NoReq, Pools
    <2>4. blocks' \subseteq Block
      BY <1>9, <2>1, <2>2 DEF Bump, NewBlock, Block
    <2>5. QED
      BY <1>9, <2>2, <2>3, <2>4 DEF Bump, Step, chunkVars
  <1>10. ASSUME NEW p \in Cpus, PoolFull(p) PROVE TypeOK'
    BY <1>10 DEF PoolFull, Step, chunkVars
  <1>11. CASE UNCHANGED vars
    BY <1>11 DEF vars
  <1>12. QED
    BY <1>1, <1>2, <1>3, <1>4, <1>5, <1>6, <1>7, <1>8, <1>9, <1>10, <1>11
       DEF Next

LEMMA LockStep == IInv /\ [Next]_vars => LockInv'
  <1> SUFFICES ASSUME TypeOK, LockInv, [Next]_vars
               PROVE  LockInv'
    BY DEF IInv
  <1> USE DEF TypeOK, LockInv
  <1>1. CASE ChunkAlloc \/ ChunkAllocFails \/ InitDone
    BY <1>1 DEF ChunkAlloc, ChunkAllocFails, InitDone
  <1>2. ASSUME NEW p \in Cpus, Acquire(p) PROVE LockInv'
    BY <1>2, CpuAssumption DEF Acquire, Step, chunkVars
  <1>3. ASSUME NEW p \in Cpus, Release(p) PROVE LockInv'
    BY <1>3 DEF Release, Step, chunkVars
  <1>4. ASSUME NEW p \in Cpus,
               Request(p) \/ Found(p) \/ NextChunk(p) \/ Bump(p) \/ PoolFull(p)
        PROVE  LockInv'
    BY <1>4 DEF Request, Found, NextChunk, Bump, PoolFull, Step, chunkVars
  <1>5. CASE UNCHANGED vars
    BY <1>5 DEF vars
  <1>6. QED
    BY <1>1, <1>2, <1>3, <1>4, <1>5 DEF Next

\* While one processor moves a cursor no other one has found room.
LEMMA ScanStep == IInv /\ [Next]_vars => ScanInv'
  <1> SUFFICES ASSUME IInv, TypeOK, LockInv, ScanInv, [Next]_vars
               PROVE  ScanInv'
    BY DEF IInv
  <1> USE DEF TypeOK, ScanInv
  <1>1. CASE ChunkAlloc \/ ChunkAllocFails \/ InitDone
    <2>1. \A p \in Cpus : pc[p] \notin {"scan", "bump"}
      BY <1>1 DEF ChunkAlloc, ChunkAllocFails, InitDone, LockInv
    <2>2. pc' = pc
      BY <1>1 DEF ChunkAlloc, ChunkAllocFails, InitDone
    <2>3. QED
      BY <2>1, <2>2
  <1>2. ASSUME NEW p \in Cpus, Acquire(p) \/ Release(p) PROVE ScanInv'
    BY <1>2 DEF Acquire, Release, Step, chunkVars, Fits
  <1>3. ASSUME NEW p \in Cpus, Request(p) PROVE ScanInv'
    <2>1. PICK pool \in Pools, size \in Sizes \ {0} :
            /\ req' = [req EXCEPT ![p] = [pool |-> pool, size |-> size]]
            /\ idx' = [idx EXCEPT ![p] = PoolFirst(pool)]
      BY <1>3 DEF Request
    <2>2. /\ PoolFirst(pool) \in PoolFirst(pool) .. PoolLast(pool)
      BY PoolRange
    <2>3. ASSUME NEW q \in Cpus PROVE ScanInv!(q)'
      <3>1. CASE q = p
        BY <1>3, <2>1, <2>2, <3>1 DEF Request, Step
      <3>2. CASE q # p
        BY <1>3, <2>1, <3>2 DEF Request, Step, chunkVars, Fits
      <3>3. QED
        BY <3>1, <3>2
    <2>4. QED
      BY <2>3
  <1>4. ASSUME NEW p \in Cpus, Found(p) \/ PoolFull(p) PROVE ScanInv'
    BY <1>4 DEF Found, PoolFull, Step, chunkVars, Fits
  <1>5. ASSUME NEW p \in Cpus, NextChunk(p) PROVE ScanInv'
    <2>1. idx[p] + 1 \in PoolFirst(req[p].pool) .. PoolLast(req[p].pool)
      BY <1>5, PoolRange DEF NextChunk
    <2>2. QED
      BY <1>5, <2>1 DEF NextChunk, chunkVars, Fits
  <1>6. ASSUME NEW p \in Cpus, Bump(p) PROVE ScanInv'
    <2>1. \A q \in Cpus : pc'[q] \notin {"scan", "bump"}
      BY <1>6 DEF Bump, Step, LockInv
    <2>2. QED
      BY <2>1
  <1>7. CASE UNCHANGED vars
    BY <1>7 DEF vars, Fits
  <1>8. QED
    BY <1>1, <1>2, <1>3, <1>4, <1>5, <1>6, <1>7 DEF Next

LEMMA ChunkStep == IInv /\ [Next]_vars => ChunkInv'
  <1> SUFFICES ASSUME IInv, TypeOK, ChunkInv, [Next]_vars
               PROVE  ChunkInv'
    BY DEF IInv
  <1> USE ChunkAssumption, BaseAssumption DEF TypeOK
  <1>1. CASE ChunkAlloc
    <2>1. PICK base \in Bases :
            /\ \A c \in 0 .. nchunks - 1 :
                 ~Overlap(base, ChunkBytes, chunk_start[c], ChunkBytes)
            /\ chunk_start' = [chunk_start EXCEPT ![nchunks] = base]
            /\ chunk_cur'   = [chunk_cur EXCEPT ![nchunks] = base]
            /\ chunk_end'   =
                 [chunk_end EXCEPT ![nchunks] = base + ChunkBytes - Slack]
      BY <1>1 DEF ChunkAlloc
    <2>2. base \in Nat /\ nchunks \in Chunks /\ nchunks' = nchunks + 1
      BY <1>1 DEF ChunkAlloc, Chunks
    <2>3. ASSUME NEW c \in Chunks PROVE ChunkInv!2!(c)'
      BY <2>1, <2>2 DEF ChunkInv, Chunks
    <2>4. ASSUME NEW c \in 0 .. nchunks, NEW d \in 0 .. nchunks, c # d
          PROVE  ~Overlap(chunk_start'[c], ChunkBytes,
                          chunk_start'[d], ChunkBytes)
      <3>1. c \in Chunks /\ d \in Chunks
        BY <2>2 DEF Chunks
      <3>2. CASE c = nchunks
        BY <2>1, <2>2, <2>4, <3>1, <3>2 DEF Overlap
      <3>3. CASE d = nchunks
        BY <2>1, <2>2, <2>4, <3>1, <3>3 DEF Overlap
      <3>4. CASE c # nchunks /\ d # nchunks
        BY <2>1, <2>2, <2>4, <3>1, <3>4 DEF Overlap, ChunkInv
      <3>5. QED
        BY <3>2, <3>3, <3>4
    <2>5. phase' # "ready"
      BY <1>1 DEF ChunkAlloc
    <2>6. QED
      BY <2>2, <2>3, <2>4, <2>5 DEF ChunkInv
  <1>2. CASE ChunkAllocFails \/ InitDone
    BY <1>2 DEF ChunkAllocFails, InitDone, ChunkInv
  <1>3. ASSUME NEW p \in Cpus,
               \/ Acquire(p) \/ Release(p) \/ Request(p)
               \/ Found(p) \/ NextChunk(p) \/ PoolFull(p)
        PROVE  ChunkInv'
    BY <1>3 DEF Acquire, Release, Request, Found, NextChunk, PoolFull,
                chunkVars, ChunkInv
  <1>4. ASSUME NEW p \in Cpus, Bump(p) PROVE ChunkInv'
    <2>1. /\ idx[p] \in Chunks /\ Fits(p) /\ req[p].size \in Nat
          /\ idx[p] < nchunks
      BY <1>4, BumpInChunk DEF Bump, Step
    <2>2. /\ UNCHANGED <<phase, nchunks, chunk_start, chunk_end>>
          /\ chunk_cur' = [chunk_cur EXCEPT ![idx[p]] = @ + req[p].size]
      BY <1>4 DEF Bump, chunkVars
    <2>3. ASSUME NEW c \in Chunks PROVE ChunkInv!2!(c)'
      BY <2>1, <2>2 DEF ChunkInv, Fits
    <2>4. QED
      BY <2>2, <2>3 DEF ChunkInv
  <1>5. CASE UNCHANGED vars
    BY <1>5 DEF vars, ChunkInv
  <1>6. QED
    BY <1>1, <1>2, <1>3, <1>4, <1>5 DEF Next

LEMMA BlockStep == IInv /\ [Next]_vars => BlockInv' /\ BlocksDisjoint'
  <1> SUFFICES ASSUME IInv, TypeOK, BlockInv, BlocksDisjoint, ChunkInv,
                      [Next]_vars
               PROVE  BlockInv' /\ BlocksDisjoint'
    BY DEF IInv
  <1> USE ChunkAssumption DEF TypeOK
  <1>1. CASE ChunkAlloc \/ ChunkAllocFails \/ InitDone
    <2>1. blocks' = blocks
      BY <1>1 DEF ChunkAlloc, ChunkAllocFails, InitDone
    <2>2. BlocksDisjoint'
      BY <2>1 DEF BlocksDisjoint
    <2>3. \A c \in Chunks : c < nchunks =>
             /\ c < nchunks'
             /\ chunk_start'[c] = chunk_start[c]
             /\ chunk_cur'[c] = chunk_cur[c]
      BY <1>1, SMTT(30) DEF ChunkAlloc, ChunkAllocFails, InitDone, Chunks
    <2>4. ASSUME NEW b \in blocks
          PROVE  \E c \in PoolFirst(b.pool) .. PoolLast(b.pool) - 1 :
                    Holds(c, b)'
      <3>1. b.pool \in Pools
        BY DEF Block
      <3>2. PICK c \in PoolFirst(b.pool) .. PoolLast(b.pool) - 1 : Holds(c, b)
        BY DEF BlockInv
      <3>3. c \in Chunks
        BY <3>1, PoolRange DEF Chunks
      <3>4. Holds(c, b)'
        BY <2>3, <3>2, <3>3 DEF Holds
      <3>5. QED
        BY <3>2, <3>4
    <2>5. QED
      BY <2>1, <2>2, <2>4 DEF BlockInv
  <1>2. ASSUME NEW p \in Cpus,
               \/ Acquire(p) \/ Release(p) \/ Request(p)
               \/ Found(p) \/ NextChunk(p) \/ PoolFull(p)
        PROVE  BlockInv' /\ BlocksDisjoint'
    BY <1>2 DEF Acquire, Release, Request, Found, NextChunk, PoolFull,
                chunkVars, BlockInv, BlocksDisjoint, Holds
  <1>3. ASSUME NEW p \in Cpus, Bump(p) PROVE BlockInv' /\ BlocksDisjoint'
    <2>1. PICK i \in Chunks :
            /\ i = idx[p] /\ i < nchunks
            /\ chunk_cur[i] + req[p].size <= chunk_end[i]
            /\ i \in PoolFirst(req[p].pool) .. PoolLast(req[p].pool) - 1
            /\ chunk_start[i] <= chunk_cur[i]
            /\ ret[p] = chunk_cur[i]
      BY <1>3, BumpInChunk DEF Bump, Step, Fits
    <2>2. PICK new \in Block :
            /\ new.pool = req[p].pool
            /\ new.size = req[p].size
            /\ new.addr = chunk_cur[i]
            /\ UNCHANGED <<nchunks, chunk_start, chunk_end>>
            /\ chunk_cur' = [chunk_cur EXCEPT ![i] = @ + new.size]
            /\ blocks' \subseteq blocks \cup {new}
      <3>1. NewBlock(p) \in Block
        BY <2>1 DEF Block, NewBlock
      <3>2. QED
        BY <1>3, <2>1, <3>1 DEF Bump, NewBlock, chunkVars
    <2>3. new.pool \in Pools /\ new.size \in Nat /\ new.addr \in Nat
      BY DEF Block
    <2>4. \A c \in Chunks : chunk_cur[c] <= chunk_cur'[c]
      BY <2>1, <2>2, <2>3
    <2>5. ASSUME NEW b \in blocks
          PROVE  /\ \E c \in PoolFirst(b.pool) .. PoolLast(b.pool) - 1 :
                       Holds(c, b)'
                 /\ ~Overlap(b.addr, b.size, new.addr, new.size)
      <3>1. b.pool \in Pools /\ b.addr \in Nat /\ b.size \in Nat
        BY DEF Block
      <3>2. PICK c \in PoolFirst(b.pool) .. PoolLast(b.pool) - 1 : Holds(c, b)
        BY DEF BlockInv
      <3>3. c \in Chunks /\ c < nchunks
        BY <3>1, <3>2, PoolRange DEF Chunks, Holds
      <3>4. Holds(c, b)'
        <4>1. chunk_cur'[c] \in Nat
          BY <2>2, <2>1, <2>3, <3>3
        <4>2. QED
          BY <2>2, <2>4, <3>1, <3>2, <3>3, <4>1 DEF Holds
      <3>5. CASE c = i
        BY <2>1, <2>2, <2>3, <3>1, <3>2, <3>5 DEF Holds, Overlap
      <3>6. CASE c # i
        <4>1. /\ chunk_cur[c] <= chunk_start[c] + ChunkBytes
              /\ chunk_cur[i] + new.size <= chunk_start[i] + ChunkBytes
          BY <2>1, <2>2, <2>3, <3>3 DEF ChunkInv
        <4>2. ~Overlap(chunk_start[c], ChunkBytes, chunk_start[i], ChunkBytes)
          <5>1. nchunks \in Nat /\ c \in Nat /\ i \in Nat /\ i < nchunks
            BY <2>1, <3>3 DEF Chunks
          <5>2. c \in 0 .. nchunks - 1 /\ i \in 0 .. nchunks - 1
            BY <3>3, <5>1
          <5>3. QED
            BY <3>6, <5>2 DEF ChunkInv
        <4>3. QED
          BY <2>1, <2>2, <2>3, <3>1, <3>2, <3>3, <4>1, <4>2
             DEF Holds, Overlap
      <3>7. QED
        BY <3>2, <3>4, <3>5, <3>6
    <2>6. Holds(i, new)'
      BY <2>1, <2>2, <2>3 DEF Holds
    <2>7. BlockInv'
      BY <2>1, <2>2, <2>5, <2>6 DEF BlockInv
    <2>8. ASSUME NEW a \in blocks', NEW b \in blocks', a # b
          PROVE  ~Overlap(a.addr, a.size, b.addr, b.size)
      <3>1. CASE a \in blocks /\ b \in blocks
        BY <2>8, <3>1 DEF BlocksDisjoint
      <3>2. CASE a = new
        BY <2>2, <2>5, <2>8, <3>2 DEF Overlap
      <3>3. CASE b = new
        BY <2>2, <2>5, <2>8, <3>3 DEF Overlap
      <3>4. QED
        BY <2>2, <3>1, <3>2, <3>3
    <2>9. QED
      BY <2>7, <2>8 DEF BlocksDisjoint
  <1>4. CASE UNCHANGED vars
    BY <1>4 DEF vars, BlockInv, BlocksDisjoint, Holds
  <1>5. QED
    BY <1>1, <1>2, <1>3, <1>4 DEF Next

----------------------------------------------------------------------------
THEOREM Invariance == Spec => []IInv
  <1>1. IInv /\ [Next]_vars => IInv'
    BY TypeStep, LockStep, ScanStep, ChunkStep, BlockStep DEF IInv
  <1>2. QED
    BY InitInv, <1>1, PTL DEF Spec

\* The type invariant of the allocator (mem/malloc.c) under every load.
THEOREM TypeCorrect == Spec => []TypeOK
  BY Invariance, PTL DEF IInv

\* malloc_from_pool never hands out a byte twice, whatever the processors
\* interleave, because its callers hold the translation lock.
THEOREM Disjointness == Spec => []BlocksDisjoint
  BY Invariance, PTL DEF IInv

\* malloc_from_pool keeps a block inside one chunk of the pool asked for and
\* leaves Slack bytes of the area behind it.
THEOREM Containment == Spec => []BlocksInPool
  <1>1. IInv => BlocksInPool
    <2> SUFFICES ASSUME IInv, NEW b \in blocks
                 PROVE  \E c \in PoolFirst(b.pool) .. PoolLast(b.pool) - 1 :
                           /\ chunk_start[c] <= b.addr
                           /\ b.addr + b.size + Slack <= chunk_start[c] + ChunkBytes
      BY DEF BlocksInPool
    <2>1. b.pool \in Pools /\ b.addr \in Nat /\ b.size \in Nat
      BY DEF IInv, TypeOK, Block
    <2>2. PICK c \in PoolFirst(b.pool) .. PoolLast(b.pool) - 1 : Holds(c, b)
      BY DEF IInv, BlockInv
    <2>3. c \in Chunks
      BY <2>1, PoolRange, ChunkAssumption DEF Chunks
    <2>4. QED
      BY <2>1, <2>2, <2>3, ChunkAssumption DEF IInv, TypeOK, ChunkInv, Holds
  <1>2. QED
    BY Invariance, <1>1, PTL

\* addr_to_pool returns for every byte of a block the pool the block came
\* from, because the chunks are disjoint and its copy of the chunk ranges
\* agrees with init_pool_range.
THEOREM PoolLookup == Spec => []PoolOfEveryByte
  <1>1. IInv => PoolOfEveryByte
    <2> SUFFICES ASSUME IInv, NEW b \in blocks,
                        NEW addr \in b.addr .. b.addr + b.size - 1
                 PROVE  AddrToPool(addr) =
                          IF b.pool = POOL_KMALLOC THEN -1 ELSE b.pool
      BY DEF PoolOfEveryByte
    <2>1. b.pool \in Pools /\ b.addr \in Nat /\ b.size \in Nat
      BY DEF IInv, TypeOK, Block
    <2>2. PICK c \in PoolFirst(b.pool) .. PoolLast(b.pool) - 1 : Holds(c, b)
      BY DEF IInv, BlockInv
    <2>3. c \in Chunks /\ c < nchunks
      BY <2>1, <2>2, PoolRange, ChunkAssumption DEF Chunks, Holds
    <2>4. Contains(c, addr)
      BY <2>1, <2>2, <2>3, ChunkAssumption
         DEF IInv, TypeOK, ChunkInv, Holds, Contains
    <2>5. ASSUME NEW d \in Chunks, Contains(d, addr) PROVE d = c
      <3>1. d < nchunks
        BY <2>1, <2>5 DEF IInv, TypeOK, ChunkInv, Contains
      <3>2. /\ chunk_end[c] <= chunk_start[c] + ChunkBytes
            /\ chunk_end[d] <= chunk_start[d] + ChunkBytes
        BY <2>3, <3>1, ChunkAssumption DEF IInv, TypeOK, ChunkInv
      <3>3. Overlap(chunk_start[c], ChunkBytes, chunk_start[d], ChunkBytes)
        BY <2>1, <2>3, <2>4, <2>5, <3>2, ChunkAssumption
           DEF IInv, TypeOK, Contains, Overlap
      <3>4. QED
        BY <2>3, <3>1, <3>3, ChunkAssumption
           DEF IInv, TypeOK, ChunkInv, Chunks
    <2>6. AddrToChunk(addr) = c
      <3>1. \A d \in Chunks : Contains(d, addr) => c <= d
        BY <2>5, <2>3 DEF Chunks
      <3>2. QED
        BY <2>3, <2>4, <2>5, <3>1 DEF AddrToChunk
    <2>7. QED
      BY <2>1, <2>2, <2>6, ChunkAssumption
         DEF AddrToPool, PoolFirst, PoolLast, Pools,
             POOL_TC, POOL_EDGE, POOL_KMALLOC
  <1>2. QED
    BY Invariance, <1>1, PTL
============================================================================
