---------------------------- MODULE MCPoolAlloc ----------------------------
(***************************************************************************)
(* PoolAlloc with two processors and four chunks: two for translated code, *)
(* one for edges and one for data.  A chunk has 6 bytes, two of them       *)
(* slack: two blocks of two bytes fill the rest to the last byte, so that  *)
(* requests run over into the next chunk and into a full pool.  Some of    *)
(* the areas vmalloc may return are adjacent, and they come in any order.  *)
(***************************************************************************)
EXTENDS PoolAlloc, TLC

MCBases == {10, 16, 23, 29}
MCSizes == {0, 2}

CpuSymmetry == Permutations(Cpus)
============================================================================
