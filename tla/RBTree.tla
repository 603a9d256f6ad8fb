------------------------------- MODULE RBTree -------------------------------
(***************************************************************************)
(* lib/rbtree.c, the trees behind jumptable2 and tc_tree.  All trees share *)
(* one sentinel, nil, whose parent is scratch space of a deletion.  Left   *)
(* and right are the names of two links, so that each case of the code and *)
(* its mirror image are one action here, and each action is one turn of a  *)
(* loop.  The caller holds translation_lock: one operation at a time.      *)
(***************************************************************************)
EXTENDS Integers, FiniteSets

CONSTANTS
  Trees,   \* jumptable2, tc_tree
  Elems,   \* struct rbtree_elem, the blocks they are embedded in
  TreeOf,  \* the tree an element is meant for: jumptable2_elem or tc_elem
  Key,     \* first and last address of its block
  Nil,     \* nil_store
  Limit    \* one more than the highest address

Addresses == 0 .. Limit - 1

\* Blocks that overlap end at the same instruction: they are made from one
\* sequence of instructions up to its first branch.
ASSUME TreesAssumption ==
  /\ IsFiniteSet(Elems) /\ Nil \notin Elems
  /\ Limit \in Nat \ {0} /\ TreeOf \in [Elems -> Trees]
  /\ Key \in [Elems -> [lo : Addresses, hi : Addresses]]
  /\ \A e \in Elems : Key[e].lo <= Key[e].hi
  /\ \A e, f \in Elems :
       TreeOf[e] = TreeOf[f] /\ Key[f].lo <= Key[e].lo /\ Key[e].lo <= Key[f].hi
         => Key[e].hi = Key[f].hi

VARIABLES
  child, parent, color,  \* the fields of every element and of nil
  root,                  \* tree->root
  pc, op,                \* where an operation is, and what was asked for
  at,                    \* the node that loops move
  node,                  \* the entry found so far; delnode
  top                    \* the root that a fixup has read at its beginning

fields   == <<child, parent, color, root>>
treeVars == <<fields, pc, op, at, node, top>>

Node    == Elems \cup {Nil}
Dirs    == {"left", "right"}
NoLinks == [d \in Dirs |-> Nil]
NoOp    == [kind |-> "none", tree |-> Nil, elem |-> Nil, addr |-> 0, dir |-> "left"]

\* tb_less and tc_less: ranges that overlap are equal.
Less(a, b)  == a.hi < b.lo
Point(x)    == [lo |-> x, hi |-> x]
Holds(e, x) == Key[e].lo <= x /\ x <= Key[e].hi

Other(d) == IF d = "left" THEN "right" ELSE "left"
Side(n)  == IF n = child[parent[n]]["left"] THEN "left" ELSE "right"
Black(n) == color[n] = "black"

\* The elements of a tree: those that hang on their parent, or are the root.
Hangs(e)   == \/ root[TreeOf[e]] = e
              \/ parent[e] # Nil /\ \E d \in Dirs : child[parent[e]][d] = e
Content(t) == {e \in Elems : TreeOf[e] = t /\ Hangs(e)}

\* rbtree_init
TreeInit ==
  /\ child = [n \in Node |-> NoLinks] /\ parent = [n \in Node |-> Nil]
  /\ color = [n \in Node |-> "black"] /\ root = [t \in Trees |-> Nil]
  /\ pc = "idle" /\ op = NoOp /\ at = Nil /\ node = Nil /\ top = Nil

Finish == pc' = "idle" /\ op' = NoOp /\ at' = Nil /\ node' = Nil /\ top' = Nil

----------------------------------------------------------------------------
\* Neighbours and lookups

\* successor (d is right) and predecessor (left) of n begin.
Stepping(n, d) ==
  IF child[n][d] # Nil THEN pc' = "extreme" /\ at' = child[n][d]
                       ELSE pc' = "climb" /\ at' = n

\* Who has asked for it.
Resume == CASE op.kind = "find" -> "compare" [] op.kind = "delete" -> "splice"
            [] OTHER -> "answer"

\* minimum and maximum
Extreme ==
  LET c == child[at][Other(op.dir)]
  IN  /\ pc = "extreme"
      /\ IF c # Nil THEN at' = c /\ UNCHANGED pc ELSE pc' = Resume /\ UNCHANGED at
      /\ UNCHANGED <<fields, op, node, top>>

Climb ==
  LET p == parent[at]
  IN  /\ pc = "climb"
      /\ at' = p /\ pc' = IF p # Nil /\ at = child[p][op.dir] THEN pc ELSE Resume
      /\ UNCHANGED <<fields, op, node, top>>

\* rbtree_next and rbtree_prev
Neighbour(e, d) ==
  /\ pc = "idle" /\ e \in Content(TreeOf[e])
  /\ op' = [kind |-> "next", tree |-> TreeOf[e], elem |-> e, addr |-> 0, dir |-> d]
  /\ Stepping(e, d) /\ UNCHANGED <<fields, node, top>>

\* rbtree_find with the keys of jumptable2_find and tb_find
Find(t, x) ==
  /\ pc = "idle" /\ pc' = "find" /\ at' = root[t]
  /\ op' = [kind |-> "find", tree |-> t, elem |-> Nil, addr |-> x, dir |-> "left"]
  /\ UNCHANGED <<fields, node, top>>

Search ==
  LET k == Point(op.addr)
  IN  /\ pc = "find" /\ UNCHANGED <<fields, op, top>>
      /\ \/ at = Nil /\ pc' = "answer" /\ UNCHANGED <<at, node>>
         \/ /\ at # Nil /\ Less(Key[at], k) /\ at' = child[at]["right"]
            /\ UNCHANGED <<pc, node>>
         \/ /\ at # Nil /\ ~Less(Key[at], k) /\ Less(k, Key[at])
            /\ at' = child[at]["left"] /\ UNCHANGED <<pc, node>>
         \/ /\ at # Nil /\ ~Less(Key[at], k) /\ ~Less(k, Key[at])
            /\ node' = at /\ Stepping(at, "left")

\* Mutant of Compare: the entry found first.
CompareNone ==
  /\ pc = "compare" /\ pc' = "answer" /\ at' = node /\ UNCHANGED <<fields, op, node, top>>

\* find_first_equal_entry: goes back while the entry in front is equal.
Compare ==
  /\ pc = "compare" /\ UNCHANGED <<fields, op, top>>
  /\ IF at = Nil \/ Less(Key[at], Point(op.addr))
     THEN pc' = "answer" /\ at' = node /\ UNCHANGED node
     ELSE node' = at /\ Stepping(at, "left")

Answer == pc = "answer" /\ Finish /\ UNCHANGED fields

----------------------------------------------------------------------------
\* Mutant of Rotate: the parent keeps its link.
RotateLost(d, n) ==
  LET o == Other(d)  c == child[n][o]  g == child[c][d]  p == parent[n]
  IN  /\ child' = [child EXCEPT ![n][o] = g, ![c][d] = n]
      /\ parent' = [parent EXCEPT ![g] = IF g = Nil THEN @ ELSE n, ![c] = p, ![n] = c]
      /\ root' = IF p = Nil THEN [root EXCEPT ![op.tree] = c] ELSE root

\* leftrotate (d is left) and rightrotate: n goes down on side d, its child of
\* the other side up.
Rotate(d, n) ==
  LET o == Other(d)  c == child[n][o]  g == child[c][d]  p == parent[n]
  IN  /\ child' = [child EXCEPT ![n][o] = g,
                                ![p][Side(n)] = IF p = Nil THEN @ ELSE c, ![c][d] = n]
      /\ parent' = [parent EXCEPT ![g] = IF g = Nil THEN @ ELSE n, ![c] = p, ![n] = c]
      /\ root' = IF p = Nil THEN [root EXCEPT ![op.tree] = c] ELSE root

----------------------------------------------------------------------------
\* rbtree_insert, by jumptable2_add and tb_add: no element holds the address.
Insert(e) ==
  LET t == TreeOf[e]
  IN  /\ pc = "idle" /\ e \notin Content(t)
      /\ \A f \in Content(t) : ~Holds(f, Key[e].lo)
      /\ op' = [kind |-> "insert", tree |-> t, elem |-> e, addr |-> 0, dir |-> "left"]
      /\ child' = [child EXCEPT ![e] = NoLinks] /\ parent' = [parent EXCEPT ![e] = Nil]
      /\ color' = [color EXCEPT ![e] = "red"] /\ UNCHANGED node
      /\ IF root[t] = Nil
         THEN pc' = "fixup" /\ at' = e /\ top' = e /\ root' = [root EXCEPT ![t] = e]
         ELSE pc' = "place" /\ at' = root[t] /\ UNCHANGED <<root, top>>

\* The loop of node_insert.
Place ==
  LET e == op.elem
      d == IF Less(Key[at], Key[e]) THEN "right" ELSE "left"
  IN  /\ pc = "place" /\ UNCHANGED <<color, root, op, node>>
      /\ IF child[at][d] = Nil
         THEN /\ child' = [child EXCEPT ![at][d] = e] /\ parent' = [parent EXCEPT ![e] = at]
              /\ pc' = "fixup" /\ at' = e /\ top' = root[op.tree]
         ELSE at' = child[at][d] /\ UNCHANGED <<child, parent, pc, top>>

\* rb_insert, while the parent is red.
Fixing   == pc = "fixup" /\ at # top /\ ~Black(parent[at])
Uncle    == LET p == parent[at] IN child[parent[p]][Other(Side(p))]
RedUncle == Uncle # Nil /\ ~Black(Uncle)

FixDone ==
  /\ pc = "fixup" /\ (at = top \/ Black(parent[at]))
  /\ color' = [color EXCEPT ![root[op.tree]] = "black"]
  /\ Finish /\ UNCHANGED <<child, parent, root>>

FixRecolor ==
  LET p == parent[at]
  IN  /\ Fixing /\ RedUncle
      /\ color' = [color EXCEPT ![p] = "black", ![Uncle] = "black", ![parent[p]] = "red"]
      /\ at' = parent[p] /\ UNCHANGED <<child, parent, root, pc, op, node, top>>

\* The node is on the inner side of its grandparent.  The test of the loop and
\* that of the uncle come out as before.
FixInner ==
  LET p == parent[at]  d == Side(p)
  IN  /\ Fixing /\ ~RedUncle /\ at = child[p][Other(d)]
      /\ Rotate(d, p) /\ at' = p /\ UNCHANGED <<color, pc, op, node, top>>

FixOuter ==
  LET p == parent[at]  d == Side(p)
  IN  /\ Fixing /\ ~RedUncle /\ at # child[p][Other(d)]
      /\ color' = [color EXCEPT ![p] = "black", ![parent[p]] = "red"]
      /\ Rotate(Other(d), parent[p]) /\ UNCHANGED <<pc, op, at, node, top>>

----------------------------------------------------------------------------
\* rbtree_delete, node_delete up to the choice of delnode, the element or its
\* successor.  jumptable2_remove, the one function that uses it, has no caller.
Delete(e) ==
  /\ pc = "idle" /\ e \in Content(TreeOf[e])
  /\ op' = [kind |-> "delete", tree |-> TreeOf[e], elem |-> e, addr |-> 0, dir |-> "right"]
  /\ IF child[e]["left"] = Nil \/ child[e]["right"] = Nil
     THEN pc' = "splice" /\ at' = e
     ELSE pc' = "extreme" /\ at' = child[e]["right"]
  /\ UNCHANGED <<fields, node, top>>

\* node_delete takes delnode, which has at most one child, out.
Splice ==
  LET p == parent[at]
      c == IF child[at]["left"] # Nil THEN child[at]["left"] ELSE child[at]["right"]
  IN  /\ pc = "splice" /\ pc' = IF Black(at) THEN "mend" ELSE "replace"
      /\ parent' = [parent EXCEPT ![c] = p]
      /\ IF p = Nil
         THEN root' = [root EXCEPT ![op.tree] = c] /\ UNCHANGED child
         ELSE child' = [child EXCEPT ![p][Side(at)] = c] /\ UNCHANGED root
      /\ node' = at /\ at' = c /\ top' = root'[op.tree] /\ UNCHANGED <<color, op>>

\* rb_delete_fixup: the subtree of at, a black node, lacks one.
Mending == pc = "mend" /\ at # top /\ Black(at)
Sibling == child[parent[at]][Other(Side(at))]
Near    == child[Sibling][Side(at)]
Far     == child[Sibling][Other(Side(at))]

\* Mutant of MendDone: it only colors.
MendDoneAtOnce ==
  /\ pc = "mend" /\ color' = [color EXCEPT ![at] = "black"]
  /\ pc' = "replace" /\ UNCHANGED <<child, parent, root, op, at, node, top>>

MendDone ==
  /\ pc = "mend" /\ (at = top \/ ~Black(at))
  /\ color' = [color EXCEPT ![at] = "black"]
  /\ pc' = "replace" /\ UNCHANGED <<child, parent, root, op, at, node, top>>

MendRed ==
  LET p == parent[at]
  IN  /\ Mending /\ ~Black(Sibling)
      /\ color' = [color EXCEPT ![Sibling] = "black", ![p] = "red"]
      /\ Rotate(Side(at), p) /\ UNCHANGED <<pc, op, at, node, top>>

MendUp ==
  /\ Mending /\ Black(Sibling) /\ Black(Near) /\ Black(Far)
  /\ color' = [color EXCEPT ![Sibling] = "red"]
  /\ at' = parent[at] /\ UNCHANGED <<child, parent, root, pc, op, node, top>>

MendNear ==
  /\ Mending /\ Black(Sibling) /\ ~Black(Near) /\ Black(Far)
  /\ color' = [color EXCEPT ![Near] = "black", ![Sibling] = "red"]
  /\ Rotate(Other(Side(at)), Sibling) /\ UNCHANGED <<pc, op, at, node, top>>

MendFar ==
  LET p == parent[at]
  IN  /\ Mending /\ Black(Sibling) /\ ~Black(Far)
      /\ color' = [color EXCEPT ![Sibling] = color[p], ![p] = "black", ![Far] = "black"]
      /\ Rotate(Side(at), p) /\ at' = top /\ UNCHANGED <<pc, op, node, top>>

\* rbtree_elem_replace, and the reset of the old element: delnode takes the
\* place of the element that was to be deleted.
Replace ==
  LET a == op.elem  b == node  p == parent[a]
  IN  /\ pc = "replace" /\ Finish
      /\ IF b = a THEN UNCHANGED fields
         ELSE /\ child' = [child EXCEPT
                   ![b] = child[a],
                   ![p] = [d \in Dirs |-> IF p # Nil /\ child[p][d] = a THEN b ELSE @[d]],
                   ![a] = NoLinks]
              /\ parent' = [n \in Node |->
                   CASE n = a -> Nil
                     [] n = b -> p
                     [] n \notin {a, b, Nil} /\ (\E d \in Dirs : child[a][d] = n) -> b
                     [] OTHER -> parent[n]]
              /\ color' = [color EXCEPT ![b] = color[a]]
              /\ root' = [root EXCEPT ![op.tree] = IF @ = a THEN b ELSE @]

----------------------------------------------------------------------------
Inserting == Place \/ FixDone \/ FixRecolor \/ FixInner \/ FixOuter
Deleting  == Splice \/ MendDone \/ MendRed \/ MendUp \/ MendNear \/ MendFar \/ Replace
Looking   == Extreme \/ Climb \/ Search \/ Compare \/ Answer

TreeNext ==
  \/ \E e \in Elems : Insert(e) \/ Delete(e) \/ \E d \in Dirs : Neighbour(e, d)
  \/ \E t \in Trees, x \in Addresses : Find(t, x)
  \/ Inserting \/ Deleting \/ Looking

TreeSpec == TreeInit /\ [][TreeNext]_treeVars

----------------------------------------------------------------------------
\* Parents and children agree, as predecessor and rotations need, and the
\* sentinel stays black and without children, although deletions treat it as an
\* element: the other trees rely on it.
LinksAgree ==
  /\ Black(Nil) /\ child[Nil] = NoLinks
  /\ \A t \in Trees :
       /\ root[t] # Nil => root[t] \in Content(t) /\ parent[root[t]] = Nil
       /\ \A n \in Content(t) :
            /\ IF n = root[t] THEN parent[n] = Nil ELSE parent[n] \in Content(t)
            /\ child[n]["left"] # child[n]["right"] \/ child[n]["left"] = Nil
            /\ \A d \in Dirs : child[n][d] # Nil =>
                 child[n][d] \in Content(t) /\ parent[child[n][d]] = n

\* Black nodes on the way down to the left.
Height(t) ==
  LET h[n \in Content(t) \cup {Nil}] ==
        IF n = Nil THEN 0 ELSE h[child[n]["left"]] + (IF Black(n) THEN 1 ELSE 0)
  IN  h

\* The trees are red-black trees, so that a search, which runs with interrupts
\* disabled and the lock held, takes logarithmic time.
Balanced ==
  \A t \in Trees :
    /\ Black(root[t])
    /\ \A n \in Content(t) :
         /\ Height(t)[child[n]["left"]] = Height(t)[child[n]["right"]]
         /\ ~Black(n) => \A d \in Dirs : Black(child[n][d])

\* Both, after any sequence of operations on both trees (rb_delete_fixup writes
\* the parent of the shared sentinel).
WellFormed == pc = "idle" => LinksAgree /\ Balanced

\* f is beyond e in direction d.
Beyond(d, f, e) == IF d = "left" THEN Key[f].lo < Key[e].lo ELSE Key[e].lo < Key[f].lo

\* rbtree_find returns the first of the blocks that hold an address, by where
\* they begin, or none if there is none, and rbtree_next and rbtree_prev the next
\* block in the same order, also among those that compare equal.
LookupsAgree ==
  pc = "answer" =>
    LET hits == {e \in Content(op.tree) :
                   IF op.kind = "find" THEN Holds(e, op.addr)
                   ELSE Beyond(op.dir, e, op.elem)}
        toward == IF op.kind = "find" THEN "right" ELSE op.dir
    IN  IF hits = {} THEN at = Nil
        ELSE at \in hits /\ \A e \in hits : e = at \/ Beyond(toward, e, at)

\* delnode is in no tree while rb_delete_fixup runs and takes its place after it.
Moving == IF pc \in {"mend", "replace"} /\ node # op.elem THEN {node} ELSE {}

\* Insertion and deletion with their rotations are those of a set per tree: no
\* operation loses, moves or duplicates an element of any tree.
Index == INSTANCE BlockIndex WITH
           content <- [t \in Trees |-> Content(t) \cup {e \in Moving : TreeOf[e] = t}]

ImplementsIndex == Index!Spec

=============================================================================
