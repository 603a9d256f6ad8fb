---------------------------- MODULE MCContainers ----------------------------
(***************************************************************************)
(* The four data structures of the module: the table of branch targets     *)
(* (Jumptable1), red-black trees (RBTree), lists (MyList) and hash tables  *)
(* (HashTable).  They share nothing: a behaviour uses one, the variables   *)
(* of the others stay as they are.                                         *)
(*                                                                         *)
(* The table of branch targets has four slots to hash to and seven in all. *)
(* Two targets share slot 0, one of them address 0; the others hash to     *)
(* slots 1 and 3.  Target 5 has two translations, of overlapping blocks.   *)
(***************************************************************************)
EXTENDS Jumptable1, RBTree, TLC

MCTargets == {0, 3, 4, 5}
MCTc == [t \in MCTargets |-> IF t = 0 THEN {0}
                              ELSE IF t = 5 THEN {105, 205}
                              ELSE {100 + t}]

CONSTANTS Null, e1, e2, e3, e4, e5

VARIABLES
  kind,                                   \* what a behaviour is about
  links, request, reply,                  \* of MyList
  cells, hash, stage, job, given, bucket, \* of HashTable
  here, wanted, question, answer, unmet

(***************************************************************************)
(* Six elements for jumptable2, among them three blocks that begin at 1,  *)
(* 2 and 3 and end at the same instruction, and two for tc_tree.           *)
(***************************************************************************)
Blocks   == 1 .. 8
MCTreeOf == [e \in Blocks |-> IF e <= 6 THEN "jumptable2" ELSE "tc_tree"]
MCKey    == [e \in Blocks |->
               CASE e <= 3      -> [lo |-> e, hi |-> 3]
                 [] e \in 4 .. 6 -> [lo |-> e, hi |-> IF e = 4 THEN 4 ELSE 6]
                 [] e = 7       -> [lo |-> 4, hi |-> 6]
                 [] e = 8       -> [lo |-> 1, hi |-> 3]]

(***************************************************************************)
(* Two lists and five elements, two pairs of which are equal: enough for   *)
(* three runs in a list that is sorted.                                    *)
(***************************************************************************)
ListElems == {e1, e2, e3, e4, e5}
ListKey   == [e \in ListElems |-> CASE e \in {e1, e2} -> 1 [] e \in {e3, e4} -> 2 [] e = e5 -> 3]

List == INSTANCE MyList WITH Elems <- ListElems, Key <- ListKey,
                             ListNames <- {"insns", "duplicates"},
                             mem <- links, call <- request, ret <- reply

(***************************************************************************)
(* Five elements of four keys, three of which have one hash value, in      *)
(* tables that begin with 1, 3 or 4 buckets: a table of 1 grows to 2 and   *)
(* shrinks again, one of 3 is rounded to 2 by the first insertion that     *)
(* finds memory, and in one of 4 a walk passes empty buckets.              *)
(***************************************************************************)
HashElems == {e1, e2, e3, e4, e5}
HashKey   == [e \in HashElems |->
                CASE e \in {e1, e2} -> 1 [] e = e3 -> 2 [] e = e4 -> 3 [] e = e5 -> 4]
HashOf    == [e \in HashElems |-> IF HashKey[e] = 4 THEN 1 ELSE HashKey[e]]

RECURSIVE MCBitAnd(_, _)
MCBitAnd(i, j) == IF i = 0 \/ j = 0 THEN 0
                  ELSE (i % 2) * (j % 2) + 2 * MCBitAnd(i \div 2, j \div 2)

Hashed == INSTANCE HashTable WITH Elems <- HashElems, Key <- HashKey, Sizes <- {1, 3, 4},
                                  BitAnd <- MCBitAnd, mem <- cells, h <- hash,
                                  pc <- stage, op <- job, arg <- given, b <- bucket,
                                  at <- here, n <- wanted, call <- question,
                                  ret <- answer, rest <- unmet

ASSUME HashedAssumption == Hashed!HashAssumption

----------------------------------------------------------------------------
listVars == <<links, request, reply>>
hashVars == <<cells, hash, stage, job, given, bucket, here, wanted, question, answer, unmet>>

KindInit ==
  /\ kind \in {"targets", "trees", "lists", "hash"}
  /\ Init /\ TreeInit /\ List!Init /\ Hashed!Init
  /\ kind # "hash" => hash.bucket_cnt = 1 /\ hash.equal = "same"

KindNext ==
  /\ UNCHANGED kind
  /\ \/ kind = "targets" /\ Next /\ UNCHANGED <<treeVars, listVars, hashVars>>
     \/ kind = "trees" /\ TreeNext /\ UNCHANGED <<vars, listVars, hashVars>>
     \/ kind = "lists" /\ List!Next /\ UNCHANGED <<vars, treeVars, hashVars>>
     \/ kind = "hash" /\ Hashed!Next /\ UNCHANGED <<vars, treeVars, listVars>>

KindSpec == KindInit /\ [][KindNext]_<<kind, vars, treeVars, listVars, hashVars>>

\* The links of an element in no structure are not part of the state that
\* matters, nor is what the operation before returned, nor the parent of the
\* sentinel when no deletion runs.
View ==
  <<kind,
    CASE kind = "targets" -> vars
      [] kind = "trees" ->
           <<root, pc, op, at, node, top, IF pc = "mend" THEN parent[Nil] ELSE Nil,
             [e \in {e \in Blocks : Hangs(e)} |-> <<child[e], parent[e], color[e]>>]>>
      [] kind = "lists" ->
           [n \in {n \in DOMAIN links : n \in ListElems => ~List!Free(n)} |-> links[n]]
      [] kind = "hash" ->
           <<hash, stage, unmet,
             IF stage = "idle" THEN <<>> ELSE <<job, given, bucket, here>>,
             IF stage \in {"round", "move"} THEN wanted ELSE 0,
             [n \in {n \in DOMAIN cells : n \in HashElems => n \in Hashed!Content}
                |-> cells[n]]>>>>

\* The operations of mylist.c are those of sequences, and the sort is stable.
ImplementsLists == List!ImplementsLists

\* A hash table is a set, wherever rehash has put its elements.
ImplementsTable == Hashed!ImplementsTable

=============================================================================
