----------------------------- MODULE BlockIndex -----------------------------
(***************************************************************************)
(* What lib/rbtree.c promises its callers: per tree a set of blocks.  A    *)
(* block is added when no other holds its first address, so that blocks    *)
(* which overlap are in the order in which they begin.                     *)
(***************************************************************************)
EXTENDS Integers

CONSTANTS
  Trees,
  Elems,   \* struct rbtree_elem
  TreeOf,  \* the tree an element is meant for: jumptable2_elem or tc_elem
  Key      \* first and last address of its block

VARIABLE content

Holds(e, x) == Key[e].lo <= x /\ x <= Key[e].hi

Init == content = [t \in Trees |-> {}]

Insert(e) ==
  LET t == TreeOf[e]
  IN  /\ e \notin content[t] /\ \A f \in content[t] : ~Holds(f, Key[e].lo)
      /\ content' = [content EXCEPT ![t] = @ \cup {e}]

Delete(e) ==
  LET t == TreeOf[e]
  IN  e \in content[t] /\ content' = [content EXCEPT ![t] = @ \ {e}]

Next == \E e \in Elems : Insert(e) \/ Delete(e)

Spec == Init /\ [][Next]_content

=============================================================================
