---------------------------- MODULE RBTreeShape -----------------------------
(***************************************************************************)
(* Search trees as a relation between links and sets, for the proofs of    *)
(* ContainersProofs: no state, only what links, colors and heights are     *)
(* before and after an assignment of the code.                             *)
(*                                                                         *)
(* L is the set of elements in the trees, D[n] that of the elements at or  *)
(* under a node n, and h[n] the number of black nodes on every way down    *)
(* from n.  What a rotation does to the order of a tree is then what it    *)
(* does to two of the sets, and no recursion is needed.                    *)
(***************************************************************************)
EXTENDS RBTree, FiniteSetTheorems, WellFoundedInduction, TLAPS

(***************************************************************************)
(* The shape of the trees                                                  *)
(***************************************************************************)

Lt(m, n) == Key[m].lo < Key[n].lo

\* m and n are of the same tree.
Kin(m, n) == TreeOf[m] = TreeOf[n]

HangsIn(ch, pa, ro, e) ==
  ro[TreeOf[e]] = e \/ (pa[e] # Nil /\ \E d \in Dirs : ch[pa[e]][d] = e)

Typed(ch, pa, ro, L, D) ==
  /\ L \in SUBSET Elems /\ D \in [Node -> SUBSET L]
  /\ ch \in [Node -> [Dirs -> Node]] /\ pa \in [Node -> Node] /\ ro \in [Trees -> Node]

\* Links: those of an element that is in no tree lead nowhere back.
Tied(ch, pa, ro, L) ==
  /\ ch[Nil] = NoLinks
  /\ \A t \in Trees : ro[t] # Nil => ro[t] \in L /\ TreeOf[ro[t]] = t /\ pa[ro[t]] = Nil
  /\ \A n \in L : pa[n] = Nil => ro[TreeOf[n]] = n
  /\ \A n \in L : pa[n] # Nil => pa[n] \in L /\ \E d \in Dirs : ch[pa[n]][d] = n
  /\ \A n \in L : \A d \in Dirs :
       ch[n][d] # Nil => ch[n][d] \in L /\ pa[ch[n][d]] = n /\ Kin(ch[n][d], n)
  /\ \A e \in Elems \ L : ~HangsIn(ch, pa, ro, e)

\* What is under a node is under one of its children.
Counted(ch, ro, L, D) ==
  /\ D[Nil] = {}
  /\ \A n \in L : \A m \in D[n] : Kin(m, n)
  /\ \A n \in L : \A m \in L : m \in D[n] <=> m = n \/ \E d \in Dirs : m \in D[ch[n][d]]
  /\ \A m \in L : m \in D[ro[TreeOf[m]]]

\* What is under a node is without gaps, its children on either side of it.
Sorted(ch, L, D) ==
  /\ \A m, n \in L : Kin(m, n) /\ m # n => Lt(m, n) \/ Lt(n, m)
  /\ \A n \in L : \A d \in Dirs : \A m \in D[ch[n][d]] : Beyond(d, m, n)
  /\ \A n \in L : \A a, b \in D[n] : \A m \in L :
       Kin(m, n) /\ Lt(a, m) /\ Lt(m, b) => m \in D[n]

Shape(ch, pa, ro, L, D) ==
  /\ Typed(ch, pa, ro, L, D) /\ Tied(ch, pa, ro, L)
  /\ Counted(ch, ro, L, D) /\ Sorted(ch, L, D)

Shaped(ch, pa, ro, L) == \E D \in [Node -> SUBSET L] : Shape(ch, pa, ro, L, D)

(***************************************************************************)
(* Colors: the subtree in direction d of p lacks a black node, x may be    *)
(* red under a red parent, and y have red children.  Each is Nil when      *)
(* there is none.                                                          *)
(***************************************************************************)
Weight(c)       == IF c = "black" THEN 1 ELSE 0
Gap(n, s, p, d) == IF n = p /\ s = d THEN 1 ELSE 0

Weighed(ch, co, L, h, p, d) ==
  /\ h \in [Node -> Nat] /\ h[Nil] = 0
  /\ \A n \in L : \A s \in Dirs :
       h[n] = h[ch[n][s]] + Gap(n, s, p, d) + Weight(co[n])

Colored(ch, ro, co, L, x, y) ==
  /\ co \in [Node -> {"red", "black"}] /\ co[Nil] = "black"
  /\ \A t \in Trees : co[ro[t]] = "black" \/ ro[t] = x
  /\ \A n \in L : \A s \in Dirs :
       co[n] = "black" \/ co[ch[n][s]] = "black" \/ ch[n][s] = x \/ n = y

(***************************************************************************)
(* What an operation has to find                                           *)
(***************************************************************************)

In(L, n, t) == n \in L /\ TreeOf[n] = t

\* n is the neighbour of m in direction d, or Nil.
NextTo(L, n, m, d) ==
  IF n = Nil THEN \A k \in L : Kin(k, m) => ~Beyond(d, k, m)
  ELSE /\ In(L, n, TreeOf[m]) /\ Beyond(d, n, m)
       /\ \A k \in L : Kin(k, m) /\ Beyond(d, k, m) => k = n \/ Beyond(d, k, n)

\* n is the first that holds x, or Nil.
First(L, n, t, x) ==
  IF n = Nil THEN \A k \in L : TreeOf[k] = t => ~Holds(k, x)
  ELSE /\ In(L, n, t) /\ Holds(n, x)
       /\ \A k \in L : TreeOf[k] = t /\ Holds(k, x) => k = n \/ Lt(n, k)

\* The new element e belongs under n: all others are on one side of both.
Around(L, D, n, e) ==
  \A m \in L : Kin(m, e) =>
    \/ m \in D[n]
    \/ Lt(m, e) /\ \A k \in D[n] : Lt(m, k)
    \/ Lt(e, m) /\ \A k \in D[n] : Lt(k, m)

Free(L, e) == e \notin L /\ \A k \in L : Kin(k, e) => ~Holds(k, Key[e].lo)

\* b, which is not in the trees, is to take the place of a.
Beside(L, a, b) ==
  /\ b \notin L /\ b \in Elems /\ Kin(a, b)
  /\ b # a => a \in L /\ Lt(a, b) /\ \A k \in L : Kin(k, a) /\ k # a => Lt(k, a) \/ Lt(b, k)

(***************************************************************************)
(* Directions and order                                                    *)
(***************************************************************************)

LEMMA Directions ==
  \A d \in Dirs : /\ Other(d) \in Dirs /\ Other(d) # d /\ Other(Other(d)) = d
                  /\ \A s \in Dirs : s = d \/ s = Other(d)
  BY DEF Dirs, Other

LEMMA OrderOfKeys ==
  \A a, b, c \in Elems : \A d \in Dirs :
    /\ ~Beyond(d, a, a)
    /\ Beyond(d, a, b) => ~Beyond(d, b, a) /\ (Lt(a, b) \/ Lt(b, a))
    /\ Beyond(d, a, b) /\ Beyond(d, b, c) => Beyond(d, a, c)
    /\ Beyond(Other(d), a, b) <=> Beyond(d, b, a)
    /\ Lt(a, b) \/ Lt(b, a) => Beyond(d, a, b) \/ Beyond(d, b, a)
  BY TreesAssumption DEF Beyond, Lt, Dirs, Other, Addresses

\* The order in a tree, in either direction.
LEMMA SortedBeyond ==
  ASSUME NEW ch, NEW L \in SUBSET Elems, NEW D \in [Node -> SUBSET L], Sorted(ch, L, D)
  PROVE  /\ \A m, n \in L : \A d \in Dirs :
              Kin(m, n) /\ m # n => Beyond(d, m, n) \/ Beyond(d, n, m)
         /\ \A n \in L : \A d \in Dirs : \A a, b \in D[n] : \A m \in L :
              Kin(m, n) /\ Beyond(d, m, a) /\ Beyond(d, b, m) => m \in D[n]
  <1>1. ASSUME NEW m \in L, NEW n \in L, NEW d \in Dirs, Kin(m, n), m # n
        PROVE  Beyond(d, m, n) \/ Beyond(d, n, m)
    BY <1>1, OrderOfKeys DEF Sorted
  <1>2. ASSUME NEW n \in L, NEW d \in Dirs, NEW a \in D[n], NEW b \in D[n], NEW m \in L,
               Kin(m, n), Beyond(d, m, a), Beyond(d, b, m)
        PROVE  m \in D[n]
    <2>1. n \in Node /\ D[n] \in SUBSET L
      BY DEF Node
    <2>2. (Lt(a, m) /\ Lt(m, b)) \/ (Lt(b, m) /\ Lt(m, a))
      BY <1>2 DEF Beyond, Lt
    <2>3. QED
      BY <1>2, <2>2 DEF Sorted
  <1>3. QED
    BY <1>1, <1>2

\* The converse: it is enough to look at one direction at a time.
LEMMA BeyondSorted ==
  ASSUME NEW ch, NEW L \in SUBSET Elems, NEW D \in [Node -> SUBSET L],
         \A m, n \in L : Kin(m, n) /\ m # n => Lt(m, n) \/ Lt(n, m),
         \A n \in L : \A d \in Dirs : \A m \in D[ch[n][d]] : Beyond(d, m, n),
         NEW d \in Dirs,
         \A n \in L : \A a, b \in D[n] : \A m \in L :
           Kin(m, n) /\ Beyond(d, m, a) /\ Beyond(d, b, m) => m \in D[n]
  PROVE  Sorted(ch, L, D)
  <1>1. ASSUME NEW n \in L, NEW a \in D[n], NEW b \in D[n], NEW m \in L,
               Kin(m, n), Lt(a, m), Lt(m, b)
        PROVE  m \in D[n]
    <2>1. \/ Beyond(d, m, a) /\ Beyond(d, b, m)
          \/ Beyond(d, a, m) /\ Beyond(d, m, b)
      BY <1>1 DEF Beyond, Lt
    <2>2. QED
      BY <1>1, <2>1
  <1>2. QED
    BY <1>1 DEF Sorted

(***************************************************************************)
(* A node and its children                                                 *)
(***************************************************************************)

LEMMA Nodes ==
  ASSUME NEW ch, NEW pa, NEW ro, NEW L, NEW D, Shape(ch, pa, ro, L, D)
  PROVE  /\ L \in SUBSET Elems /\ L \in SUBSET Node /\ Nil \notin L /\ Nil \in Node
         /\ D \in [Node -> SUBSET L] /\ D[Nil] = {}
         /\ \A n \in L : n \in D[n] /\ D[n] \in SUBSET L /\ TreeOf[n] \in Trees
  <1>1. /\ L \in SUBSET Elems /\ D \in [Node -> SUBSET L] /\ D[Nil] = {}
        /\ \A n \in L : n \in D[n]
    BY DEF Shape, Typed, Counted
  <1>2. QED
    BY <1>1, TreesAssumption DEF Node

LEMMA Child ==
  ASSUME NEW ch, NEW pa, NEW ro, NEW L, NEW D, Shape(ch, pa, ro, L, D),
         NEW n \in L, NEW d \in Dirs, ch[n][d] # Nil
  PROVE  /\ ch[n][d] \in L /\ pa[ch[n][d]] = n /\ Kin(ch[n][d], n)
         /\ ch[n][d] \in D[ch[n][d]] /\ ch[n][d] \in D[n] /\ D[ch[n][d]] \subseteq D[n]
         /\ Beyond(d, ch[n][d], n) /\ ch[n][d] # n
         /\ n \notin D[ch[n][d]]
         /\ ch[n][d] # ch[n][Other(d)]
  <1> DEFINE c == ch[n][d]
  <1>1. c \in L /\ pa[c] = n /\ Kin(c, n)
    BY DEF Shape, Tied
  <1>2. c \in D[c] /\ D[c] \in SUBSET L /\ L \in SUBSET Elems
    BY <1>1, Nodes
  <1>3. D[c] \subseteq D[n]
    BY <1>2 DEF Shape, Counted
  <1>4. \A s \in Dirs : \A m \in D[ch[n][s]] : Beyond(s, m, n)
    BY DEF Shape, Sorted
  <1>5. Beyond(d, c, n) /\ ~Beyond(d, n, n) /\ ~Beyond(Other(d), c, n)
    BY <1>1, <1>2, <1>4, OrderOfKeys
  <1>6. c # n /\ n \notin D[c]
    BY <1>4, <1>5
  <1>7. c # ch[n][Other(d)]
    BY <1>2, <1>4, <1>5, Directions
  <1>8. QED
    BY <1>1, <1>2, <1>3, <1>5, <1>6, <1>7

(***************************************************************************)
(* Rotations                                                               *)
(***************************************************************************)

\* n goes down on side d, its child c up to where n was, side s of p.
Turned(ch, pa, ro, L, d, n, p, s, t, ch2, pa2, ro2) ==
  LET o == Other(d)  c == ch[n][o]  g == ch[c][d]
  IN  /\ n \in L /\ d \in Dirs /\ s \in Dirs /\ c # Nil /\ p = pa[n] /\ t = TreeOf[n]
      /\ p # Nil => ch[p][s] = n
      /\ ch2 = [ch EXCEPT ![n][o] = g, ![p][s] = IF p = Nil THEN @ ELSE c, ![c][d] = n]
      /\ pa2 = [pa EXCEPT ![g] = IF g = Nil THEN @ ELSE n, ![c] = p, ![n] = c]
      /\ ro2 = IF p = Nil THEN [ro EXCEPT ![t] = c] ELSE ro

\* The nodes of a rotation are different nodes.
Apart(ch, pa, L, D, d, n, p, s, c, g) ==
  /\ c = ch[n][Other(d)] /\ g = ch[c][d] /\ p = pa[n]
  /\ n \in L /\ c \in L /\ pa[c] = n /\ n # c /\ Kin(c, n)
  /\ g # Nil => g \in L /\ g # n /\ g # c /\ g # p /\ pa[g] = c /\ Kin(g, n)
  /\ p # Nil => p \in L /\ p # n /\ p # c /\ ch[p][s] = n /\ ch[p][Other(s)] # n /\ Kin(n, p)
  /\ d \in Dirs /\ s \in Dirs

LEMMA TurnedApart ==
  ASSUME NEW ch, NEW pa, NEW ro, NEW L, NEW D, Shape(ch, pa, ro, L, D),
         NEW d, NEW n, NEW p, NEW s, NEW t, NEW ch2, NEW pa2, NEW ro2,
         Turned(ch, pa, ro, L, d, n, p, s, t, ch2, pa2, ro2)
  PROVE  Apart(ch, pa, L, D, d, n, p, s, ch[n][Other(d)], ch[ch[n][Other(d)]][d])
  <1> DEFINE c == ch[n][Other(d)]
             g == ch[c][d]
  <1>1. n \in L /\ d \in Dirs /\ s \in Dirs /\ c # Nil /\ p = pa[n] /\ (p # Nil => ch[p][s] = n)
    BY DEF Turned
  <1>2. Other(d) \in Dirs /\ Other(Other(d)) = d
    BY <1>1, Directions
  <1>3. /\ c \in L /\ pa[c] = n /\ Kin(c, n) /\ c \in D[c] /\ c \in D[n] /\ D[c] \subseteq D[n]
        /\ c # n /\ n \notin D[c]
    BY <1>1, <1>2, Child
  <1>4. ASSUME g # Nil
        PROVE  g \in L /\ g # n /\ g # c /\ pa[g] = c /\ Kin(g, n) /\ g \in D[n]
    <2>1. g \in L /\ pa[g] = c /\ Kin(g, c) /\ g \in D[c] /\ g # c
      BY <1>1, <1>3, <1>4, Child
    <2>2. QED
      BY <2>1, <1>3 DEF Kin
  <1>5. ASSUME p # Nil
        PROVE  /\ p \in L /\ p # n /\ p # c /\ ch[p][s] = n /\ ch[p][Other(s)] # n /\ Kin(n, p)
               /\ p \notin D[n]
    <2>1. p \in L
      BY <1>1, <1>5 DEF Shape, Tied
    <2>2. ch[p][s] = n /\ n # Nil
      BY <1>1, <1>5, Nodes
    <2>3. n # p /\ p \notin D[n] /\ ch[p][s] # ch[p][Other(s)] /\ Kin(n, p)
      BY <1>1, <2>1, <2>2, Child
    <2>4. QED
      BY <1>3, <2>1, <2>2, <2>3
  <1>6. g # Nil => g # p
    BY <1>4, <1>5, Nodes
  <1>7. QED
    BY <1>1, <1>3, <1>4, <1>5, <1>6 DEF Apart

\* What the links are after a rotation.
Relinked(ch, pa, ro, d, n, p, s, t, c, g, ch2, pa2, ro2) ==
  /\ ch2[n][Other(d)] = g /\ ch2[n][d] = ch[n][d]
  /\ ch2[c][d] = n /\ ch2[c][Other(d)] = ch[c][Other(d)]
  /\ p # Nil => ch2[p][s] = c /\ ch2[p][Other(s)] = ch[p][Other(s)]
  /\ \A x \in Node : x # n /\ x # c /\ (x # p \/ p = Nil) => ch2[x] = ch[x]
  /\ pa2[n] = c /\ pa2[c] = p /\ (g # Nil => pa2[g] = n)
  /\ \A x \in Node : x # n /\ x # c /\ (x # g \/ g = Nil) => pa2[x] = pa[x]
  /\ p = Nil => ro2[t] = c /\ \A u \in Trees : u # t => ro2[u] = ro[u]
  /\ p # Nil => ro2 = ro
  /\ ch2 \in [Node -> [Dirs -> Node]] /\ pa2 \in [Node -> Node] /\ ro2 \in [Trees -> Node]

LEMMA TurnedRelinked ==
  ASSUME NEW ch, NEW pa, NEW ro, NEW L, NEW D, Shape(ch, pa, ro, L, D),
         NEW d, NEW n, NEW p, NEW s, NEW t, NEW ch2, NEW pa2, NEW ro2,
         Turned(ch, pa, ro, L, d, n, p, s, t, ch2, pa2, ro2),
         NEW c, NEW g, Apart(ch, pa, L, D, d, n, p, s, c, g)
  PROVE  Relinked(ch, pa, ro, d, n, p, s, t, c, g, ch2, pa2, ro2)
  <1>1. /\ ch \in [Node -> [Dirs -> Node]] /\ pa \in [Node -> Node] /\ ro \in [Trees -> Node]
        /\ L \subseteq Node /\ Nil \in Node /\ Nil \notin L
    BY Nodes DEF Shape, Typed
  <1> t \in Trees
    BY Nodes DEF Turned
  <1>2. /\ n \in Node /\ c \in Node /\ p \in Node /\ g \in Node /\ Other(d) \in Dirs
        /\ Other(d) # d /\ Other(s) \in Dirs /\ Other(s) # s /\ d \in Dirs /\ s \in Dirs
        /\ n # c /\ n # Nil /\ c # Nil /\ (p # Nil => p # n /\ p # c)
        /\ (g # Nil => g # n /\ g # c)
    <2>1. n \in L /\ c \in L /\ p = pa[n] /\ g = ch[c][d] /\ d \in Dirs /\ s \in Dirs
      BY DEF Apart
    <2>2. n \in Node /\ c \in Node /\ p \in Node /\ g \in Node
      BY <1>1, <2>1
    <2>3. QED
      BY <1>1, <2>1, <2>2, Directions DEF Apart
  <1>3. /\ ch2 = [ch EXCEPT ![n][Other(d)] = g, ![p][s] = IF p = Nil THEN @ ELSE c,
                            ![c][d] = n]
        /\ pa2 = [pa EXCEPT ![g] = IF g = Nil THEN @ ELSE n, ![c] = p, ![n] = c]
        /\ ro2 = IF p = Nil THEN [ro EXCEPT ![t] = c] ELSE ro
    BY DEF Turned, Apart
  <1>4. /\ ch2[n][Other(d)] = g /\ ch2[n][d] = ch[n][d]
        /\ ch2[c][d] = n /\ ch2[c][Other(d)] = ch[c][Other(d)]
        /\ p # Nil => ch2[p][s] = c /\ ch2[p][Other(s)] = ch[p][Other(s)]
    BY <1>1, <1>2, <1>3
  <1>5. \A x \in Node : x # n /\ x # c /\ (x # p \/ p = Nil) => ch2[x] = ch[x]
    BY <1>1, <1>2, <1>3
  <1>6. /\ pa2[n] = c /\ pa2[c] = p /\ (g # Nil => pa2[g] = n)
        /\ \A x \in Node : x # n /\ x # c /\ (x # g \/ g = Nil) => pa2[x] = pa[x]
    BY <1>1, <1>2, <1>3
  <1>7. /\ p = Nil => ro2[t] = c /\ \A u \in Trees : u # t => ro2[u] = ro[u]
        /\ p # Nil => ro2 = ro
    BY <1>1, <1>2, <1>3
  <1>8. ch2 \in [Node -> [Dirs -> Node]] /\ pa2 \in [Node -> Node] /\ ro2 \in [Trees -> Node]
    BY <1>1, <1>2, <1>3, ZenonT(60)
  <1>9. QED
    BY <1>4, <1>5, <1>6, <1>7, <1>8 DEF Relinked

\* The links of a rotated tree.
LEMMA TurnedTied ==
  ASSUME NEW ch, NEW pa, NEW ro, NEW L, NEW D, Shape(ch, pa, ro, L, D),
         NEW d, NEW n, NEW p, NEW s, NEW c, NEW g, Apart(ch, pa, L, D, d, n, p, s, c, g),
         NEW ch2, NEW pa2, NEW ro2,
         Relinked(ch, pa, ro, d, n, p, s, TreeOf[n], c, g, ch2, pa2, ro2)
  PROVE  Tied(ch2, pa2, ro2, L)
  <1> DEFINE t == TreeOf[n]
             o == Other(d)
  <1> t \in Trees
    BY Nodes DEF Apart
  <1>1. /\ L \in SUBSET Elems /\ L \subseteq Node /\ Nil \in Node /\ Nil \notin L
        /\ ch \in [Node -> [Dirs -> Node]] /\ pa \in [Node -> Node] /\ ro \in [Trees -> Node]
        /\ \A x \in L : TreeOf[x] \in Trees
    BY Nodes DEF Shape, Typed
  <1>2. /\ o \in Dirs /\ Other(s) \in Dirs /\ o # d
        /\ \A x \in Dirs : x = d \/ x = o
        /\ \A x \in Dirs : x = s \/ x = Other(s)
    BY Directions DEF Apart
  <1>3. /\ n \in L /\ c \in L /\ n # c /\ pa[c] = n /\ ch[n][o] = c /\ ch[c][d] = g /\ p = pa[n]
        /\ d \in Dirs /\ s \in Dirs /\ TreeOf[c] = t
        /\ g # Nil => g \in L /\ g # n /\ g # c /\ g # p /\ pa[g] = c /\ TreeOf[g] = t
        /\ p # Nil => p \in L /\ p # n /\ p # c /\ ch[p][s] = n /\ ch[p][Other(s)] # n
                      /\ TreeOf[p] = t
    BY DEF Apart, Kin
  <1>4. Tied(ch, pa, ro, L)
    BY DEF Shape
  <1>5. ch2[Nil] = NoLinks
    BY <1>1, <1>3, <1>4 DEF Tied, Relinked
  <1>6. ASSUME NEW u \in Trees, ro2[u] # Nil
        PROVE  ro2[u] \in L /\ TreeOf[ro2[u]] = u /\ pa2[ro2[u]] = Nil
    <2>1. CASE p = Nil /\ u = t
      BY <1>3, <2>1 DEF Relinked
    <2>2. CASE ~(p = Nil /\ u = t)
      <3>1. ro2[u] = ro[u]
        BY <2>2 DEF Relinked
      <3>2. ro[u] \in L /\ TreeOf[ro[u]] = u /\ pa[ro[u]] = Nil
        BY <1>4, <1>6, <3>1 DEF Tied
      <3>3. ro[u] # n /\ ro[u] # c /\ (g # Nil => ro[u] # g)
        BY <1>1, <1>3, <2>2, <3>2
      <3>4. QED
        BY <1>1, <3>1, <3>2, <3>3 DEF Relinked
    <2>3. QED
      BY <2>1, <2>2
  <1>7. ASSUME NEW x \in L, pa2[x] = Nil
        PROVE  ro2[TreeOf[x]] = x
    <2>1. x # n /\ (x = c => p = Nil) /\ (g # Nil => x # g)
      BY <1>1, <1>3, <1>7, ZenonT(60) DEF Relinked
    <2>2. CASE x = c
      BY <1>3, <2>1, <2>2 DEF Relinked
    <2>3. CASE x # c
      <3>1. pa[x] = Nil
        BY <1>1, <1>7, <2>1, <2>3 DEF Relinked
      <3>2. ro[TreeOf[x]] = x
        BY <1>4, <3>1 DEF Tied
      <3>3. p = Nil => TreeOf[x] # t
        BY <1>3, <1>4, <2>1, <3>2, ZenonT(60) DEF Tied
      <3>4. QED
        BY <1>1, <3>2, <3>3 DEF Relinked
    <2>4. QED
      BY <2>2, <2>3
  <1>8. ASSUME NEW x \in L, pa2[x] # Nil
        PROVE  pa2[x] \in L /\ \E r \in Dirs : ch2[pa2[x]][r] = x
    <2>1. CASE x = n
      BY <1>3, <2>1 DEF Relinked
    <2>2. CASE x = c
      BY <1>3, <1>8, <2>2 DEF Relinked
    <2>3. CASE x = g
      BY <1>1, <1>2, <1>3, <2>3 DEF Relinked
    <2>4. CASE x # n /\ x # c /\ x # g
      <3>1. pa2[x] = pa[x]
        BY <1>1, <2>4 DEF Relinked
      <3>2. PICK r \in Dirs : ch[pa[x]][r] = x
        BY <1>4, <1>8, <3>1 DEF Tied
      <3>3. pa[x] \in L
        BY <1>4, <1>8, <3>1 DEF Tied
      <3>4. ch2[pa[x]][r] = x
        <4>1. CASE pa[x] = n
          BY <1>2, <1>3, <2>4, <3>2, <4>1 DEF Relinked
        <4>2. CASE pa[x] = c
          BY <1>2, <1>3, <2>4, <3>2, <4>2 DEF Relinked
        <4>3. CASE pa[x] = p
          BY <1>1, <1>2, <1>3, <2>4, <3>2, <3>3, <4>3 DEF Relinked
        <4>4. CASE pa[x] \notin {n, c, p}
          BY <1>1, <3>2, <3>3, <4>4 DEF Relinked
        <4>5. QED
          BY <4>1, <4>2, <4>3, <4>4
      <3>5. QED
        BY <3>1, <3>3, <3>4
    <2>5. QED
      BY <2>1, <2>2, <2>3, <2>4
  <1>9. ASSUME NEW x \in L, NEW r \in Dirs, ch2[x][r] # Nil
        PROVE  ch2[x][r] \in L /\ pa2[ch2[x][r]] = x /\ Kin(ch2[x][r], x)
    <2>0. ASSUME ch2[x][r] = ch[x][r], x # c \/ r # d, x # n \/ r # o, x # p \/ r # s
          PROVE  ch2[x][r] \in L /\ pa2[ch2[x][r]] = x /\ Kin(ch2[x][r], x)
      <3> DEFINE y == ch[x][r]
      <3>1. y \in L /\ pa[y] = x /\ Kin(y, x)
        BY <1>4, <1>9, <2>0 DEF Tied
      <3>2. ch[n][d] # c /\ (g # Nil => ch[c][o] # g)
        <4>1. ch[n][o] # Nil /\ Other(o) = d
          BY <1>1, <1>3, Directions
        <4>2. QED
          BY <1>2, <1>3, <4>1, Child
      <3>3. y # n
        BY <1>1, <1>2, <1>3, <2>0, <3>1
      <3>4. y # c
        BY <1>2, <1>3, <2>0, <3>1, <3>2
      <3>5. g # Nil => y # g
        BY <1>2, <1>3, <2>0, <3>1, <3>2
      <3>6. pa2[y] = x
        BY <1>1, <3>1, <3>3, <3>4, <3>5 DEF Relinked
      <3>7. QED
        BY <2>0, <3>1, <3>6
    <2>1. CASE x = n
      <3>1. CASE r = o
        BY <1>3, <1>9, <2>1, <3>1 DEF Relinked, Kin
      <3>2. CASE r = d
        BY <1>1, <1>2, <1>3, <2>0, <2>1, <3>2 DEF Relinked
      <3>3. QED
        BY <1>2, <3>1, <3>2
    <2>2. CASE x = c
      <3>1. CASE r = d
        BY <1>3, <2>2, <3>1 DEF Relinked, Kin
      <3>2. CASE r = o
        BY <1>1, <1>2, <1>3, <2>0, <2>2, <3>2 DEF Relinked
      <3>3. QED
        BY <1>2, <3>1, <3>2
    <2>3. CASE x = p
      <3>1. CASE r = s
        BY <1>1, <1>3, <2>3, <3>1 DEF Relinked, Kin
      <3>2. CASE r = Other(s)
        BY <1>1, <1>2, <1>3, <2>0, <2>3, <3>2, Directions DEF Relinked
      <3>3. QED
        BY <1>2, <3>1, <3>2
    <2>4. CASE x \notin {n, c, p}
      BY <1>1, <2>0, <2>4 DEF Relinked
    <2>5. QED
      BY <2>1, <2>2, <2>3, <2>4
  <1>10. ASSUME NEW e \in Elems \ L
         PROVE  ~HangsIn(ch2, pa2, ro2, e)
    <2>1. e \in Node /\ e # n /\ e # c /\ e # g /\ e # Nil /\ TreeOf[e] \in Trees
      BY <1>3, TreesAssumption DEF Node
    <2>2. ~HangsIn(ch, pa, ro, e)
      BY <1>4 DEF Tied
    <2>3. pa2[e] = pa[e]
      BY <2>1 DEF Relinked
    <2>4. ro2[TreeOf[e]] # e
      BY <2>1, <2>2 DEF Relinked, HangsIn
    <2>5. ASSUME NEW r \in Dirs, pa[e] # Nil
          PROVE  ch2[pa[e]][r] # e
      <3>1. ch[pa[e]][r] # e /\ pa[e] \in Node
        BY <1>1, <2>1, <2>2, <2>5 DEF HangsIn
      <3>2. CASE pa[e] = n
        BY <1>2, <2>1, <3>1, <3>2 DEF Relinked
      <3>3. CASE pa[e] = c
        BY <1>2, <2>1, <3>1, <3>3 DEF Relinked
      <3>4. CASE pa[e] = p
        BY <1>2, <2>1, <2>5, <3>1, <3>4 DEF Relinked
      <3>5. CASE pa[e] \notin {n, c, p}
        BY <3>1, <3>5 DEF Relinked
      <3>6. QED
        BY <3>2, <3>3, <3>4, <3>5
    <2>6. QED
      BY <2>3, <2>4, <2>5 DEF HangsIn
  <1>11. QED
    BY <1>5, <1>6, <1>7, <1>8, <1>9, <1>10 DEF Tied

\* What is under the two nodes after a rotation.
Regrouped(ch, L, D, d, n, c, g, D2) ==
  /\ D2 \in [Node -> SUBSET L] /\ D2[c] = D[n] /\ D2[n] = {n} \cup D[ch[n][d]] \cup D[g]
  /\ \A x \in Node : x # n /\ x # c => D2[x] = D[x]

LEMMA TurnedCounted ==
  ASSUME NEW ch, NEW pa, NEW ro, NEW L, NEW D, Shape(ch, pa, ro, L, D),
         NEW d, NEW n, NEW p, NEW s, NEW c, NEW g, Apart(ch, pa, L, D, d, n, p, s, c, g),
         NEW ch2, NEW pa2, NEW ro2,
         Relinked(ch, pa, ro, d, n, p, s, TreeOf[n], c, g, ch2, pa2, ro2),
         NEW D2, Regrouped(ch, L, D, d, n, c, g, D2)
  PROVE  Counted(ch2, ro2, L, D2) /\ Sorted(ch2, L, D2)
  <1> DEFINE t == TreeOf[n]
             o == Other(d)
             f == ch[c][o]
             k == ch[n][d]
  <1>1. /\ L \in SUBSET Elems /\ L \subseteq Node /\ Nil \in Node /\ Nil \notin L /\ t \in Trees
        /\ ch \in [Node -> [Dirs -> Node]] /\ pa \in [Node -> Node] /\ ro \in [Trees -> Node]
        /\ D \in [Node -> SUBSET L] /\ D[Nil] = {}
        /\ \A x \in L : TreeOf[x] \in Trees /\ x \in D[x]
    BY Nodes DEF Shape, Typed, Apart
  <1>2. /\ o \in Dirs /\ Other(s) \in Dirs /\ o # d /\ Other(o) = d
        /\ \A x \in Dirs : x = d \/ x = o
        /\ \A x \in Dirs : x = s \/ x = Other(s)
    BY Directions DEF Apart
  <1>3. /\ n \in L /\ c \in L /\ n # c /\ pa[c] = n /\ ch[n][o] = c /\ ch[c][d] = g /\ p = pa[n]
        /\ d \in Dirs /\ s \in Dirs /\ TreeOf[c] = t
        /\ g # Nil => g \in L /\ g # n /\ g # c /\ g # p /\ pa[g] = c /\ TreeOf[g] = t
        /\ p # Nil => p \in L /\ p # n /\ p # c /\ ch[p][s] = n /\ ch[p][Other(s)] # n
                      /\ TreeOf[p] = t
    BY DEF Apart, Kin
  <1>4. Tied(ch, pa, ro, L) /\ Counted(ch, ro, L, D) /\ Sorted(ch, L, D)
    BY DEF Shape
  <1>5. k \in Node /\ f \in Node /\ g \in Node
    BY <1>1, <1>2, <1>3
  <1>6. \A m \in L : /\ m \in D[n] <=> m = n \/ m \in D[k] \/ m \in D[c]
                     /\ m \in D[c] <=> m = c \/ m \in D[g] \/ m \in D[f]
    BY <1>2, <1>3, <1>4 DEF Counted
  <1>7. k # n /\ k # c /\ f # n /\ f # c /\ g # n /\ g # c
    <2>1. k # n /\ k # c
      <3>1. k # Nil => k # n /\ k # ch[n][Other(d)]
        BY <1>3, Child
      <3>2. QED
        BY <1>1, <1>3, <3>1
    <2>2. f # n /\ f # c
      <3>1. f # Nil => f # c /\ pa[f] = c
        BY <1>2, <1>3, Child
      <3>2. f = n => p = c /\ p # Nil
        BY <1>1, <1>3, <3>1
      <3>3. QED
        BY <1>1, <1>3, <3>1, <3>2
    <2>3. QED
      BY <1>1, <1>3, <2>1, <2>2
  \* Children that are neither of the two have what is under them as before.
  <1>8. \A x \in Node : x # n /\ x # c => D2[x] = D[x]
    BY DEF Regrouped
  <1>9. D2[k] = D[k] /\ D2[f] = D[f] /\ D2[g] = D[g] /\ D2[Nil] = {}
    BY <1>1, <1>3, <1>5, <1>7, <1>8
  <1>10. D2 \in [Node -> SUBSET L] /\ D2[c] = D[n] /\ D2[n] = {n} \cup D[k] \cup D[g]
    BY DEF Regrouped
  <1>11. D2[n] \subseteq D[n] /\ D[c] \subseteq D[n]
    BY <1>1, <1>3, <1>5, <1>6, <1>10
  <1>12. \A x \in L : D2[x] \subseteq D[x] \/ x = c
    BY <1>1, <1>8, <1>11
  <1>13. ASSUME NEW x \in L, NEW r \in Dirs, x # n, x # c, x # p \/ r # s
         PROVE  ch2[x][r] = ch[x][r] /\ D2[ch2[x][r]] = D[ch[x][r]]
    <2>1. ch2[x][r] = ch[x][r]
      <3>1. CASE x = p
        BY <1>1, <1>2, <1>3, <1>13, <3>1 DEF Relinked
      <3>2. CASE x # p
        BY <1>1, <1>13, <3>2 DEF Relinked
      <3>3. QED
        BY <3>1, <3>2
    <2>2. ch[x][r] # c
      BY <1>1, <1>3, <1>4, <1>13 DEF Tied
    <2>3. ch[x][r] # n
      <3>1. ASSUME ch[x][r] = n
            PROVE  FALSE
        <4>1. pa[n] = x /\ x # Nil
          <5>1. ch[x][r] # Nil /\ x # Nil
            BY <1>1, <1>3, <3>1
          <5>2. pa[ch[x][r]] = x
            BY <5>1, Child
          <5>3. QED
            BY <3>1, <5>1, <5>2
        <4>2. p = x /\ p # Nil /\ r = Other(s)
          BY <1>2, <1>3, <1>13, <4>1
        <4>3. QED
          BY <1>3, <3>1, <4>2
      <3>2. QED
        BY <3>1
    <2>4. ch[x][r] \in Node
      BY <1>1
    <2>5. QED
      BY <1>8, <2>1, <2>2, <2>3, <2>4
  <1>14. p # Nil => ch2[p][s] = c /\ ch[p][s] = n /\ D2[ch2[p][s]] = D[ch[p][s]]
    BY <1>3, <1>10 DEF Relinked
  <1>15. ch2[n][o] = g /\ ch2[n][d] = k /\ ch2[c][d] = n /\ ch2[c][o] = f
    BY DEF Relinked
  <1>16. ASSUME NEW x \in L, x # n, x # c, NEW r \in Dirs
         PROVE  D2[ch2[x][r]] = D[ch[x][r]]
    BY <1>1, <1>13, <1>14, <1>16
  <1>17. ASSUME NEW x \in L, NEW m \in L
         PROVE  m \in D2[x] <=> m = x \/ \E r \in Dirs : m \in D2[ch2[x][r]]
    <2>1. CASE x = n
      BY <1>2, <1>3, <1>9, <1>10, <1>15, <2>1
    <2>2. CASE x = c
      <3>1. m \in D2[c] <=> m = n \/ m \in D[k] \/ m = c \/ m \in D[g] \/ m \in D[f]
        BY <1>6, <1>10
      <3>2. (\E r \in Dirs : m \in D2[ch2[c][r]]) <=> m \in D2[n] \/ m \in D[f]
        BY <1>2, <1>3, <1>9, <1>15
      <3>3. QED
        BY <1>10, <2>2, <3>1, <3>2
    <2>3. CASE x # n /\ x # c
      <3>1. D2[x] = D[x]
        BY <1>1, <1>8, <2>3
      <3>2. QED
        BY <1>4, <1>16, <2>3, <3>1 DEF Counted
    <2>4. QED
      BY <2>1, <2>2, <2>3
  <1>18. ASSUME NEW x \in L, NEW m \in D2[x]
         PROVE  Kin(m, x)
    <2>1. m \in D[x] \/ (x = c /\ m \in D[n])
      BY <1>10, <1>12
    <2>2. QED
      BY <1>3, <1>4, <2>1 DEF Counted, Kin
  <1>19. ASSUME NEW m \in L
         PROVE  m \in D2[ro2[TreeOf[m]]]
    <2>1. m \in D[ro[TreeOf[m]]] /\ TreeOf[m] \in Trees
      BY <1>1, <1>4 DEF Counted
    <2>2. CASE p = Nil /\ TreeOf[m] = t
      <3>1. ro2[t] = c /\ ro[t] = n
        <4>1. pa[n] = Nil
          BY <1>3, <2>2
        <4>2. ro[TreeOf[n]] = n
          BY <1>3, <1>4, <4>1 DEF Tied
        <4>3. QED
          BY <2>2, <4>2 DEF Relinked
      <3>2. QED
        BY <1>10, <2>1, <2>2, <3>1
    <2>3. CASE ~(p = Nil /\ TreeOf[m] = t)
      <3>1. ro2[TreeOf[m]] = ro[TreeOf[m]]
        BY <2>1, <2>3 DEF Relinked
      <3>2. ro[TreeOf[m]] # Nil
        BY <1>1, <2>1
      <3>3. ro[TreeOf[m]] \in L /\ TreeOf[ro[TreeOf[m]]] = TreeOf[m] /\ pa[ro[TreeOf[m]]] = Nil
        BY <1>4, <2>1, <3>2 DEF Tied
      <3>4. ro[TreeOf[m]] # n /\ ro[TreeOf[m]] # c
        BY <1>1, <1>3, <2>3, <3>3
      <3>5. QED
        BY <1>1, <1>8, <2>1, <3>1, <3>3, <3>4
    <2>4. QED
      BY <2>2, <2>3
  <1>20. Counted(ch2, ro2, L, D2)
    BY <1>9, <1>17, <1>18, <1>19 DEF Counted
  \* The order
  <1>21. \A x \in L : \A r \in Dirs : \A m \in D[ch[x][r]] : Beyond(r, m, x)
    BY <1>4 DEF Sorted
  <1>22. ASSUME NEW x \in L, NEW r \in Dirs, NEW m \in D2[ch2[x][r]]
         PROVE  Beyond(r, m, x)
    <2>1. CASE x = n
      <3>1. CASE r = d
        BY <1>3, <1>9, <1>15, <1>21, <1>22, <2>1, <3>1
      <3>2. CASE r = o
        <4>1. m \in D[g] /\ m \in L
          BY <1>1, <1>5, <1>9, <1>15, <1>22, <2>1, <3>2
        <4>2. m \in D[ch[n][o]]
          BY <1>3, <1>6, <4>1
        <4>3. QED
          BY <1>2, <1>21, <2>1, <3>2, <4>2
      <3>3. QED
        BY <1>2, <3>1, <3>2
    <2>2. CASE x = c
      <3>1. CASE r = o
        BY <1>2, <1>3, <1>9, <1>15, <1>21, <1>22, <2>2, <3>1
      <3>2. CASE r = d
        <4>1. m = n \/ m \in D[k] \/ m \in D[g]
          BY <1>10, <1>15, <1>22, <2>2, <3>2
        <4>2. Beyond(d, n, c)
          <5>1. c \in D[ch[n][o]]
            BY <1>1, <1>3
          <5>2. Beyond(o, c, n)
            BY <1>2, <1>3, <1>21, <5>1
          <5>3. QED
            BY <1>1, <1>3, <5>2, OrderOfKeys
        <4>3. m \in D[k] => Beyond(d, m, c)
          <5>1. m \in D[k] => Beyond(d, m, n) /\ m \in Elems
            BY <1>1, <1>3, <1>5, <1>21
          <5>2. n \in Elems /\ c \in Elems
            BY <1>1, <1>3
          <5>3. QED
            BY <1>3, <4>2, <5>1, <5>2, OrderOfKeys
        <4>4. m \in D[g] => Beyond(d, m, c)
          BY <1>3, <1>21
        <4>5. QED
          BY <2>2, <3>2, <4>1, <4>2, <4>3, <4>4
      <3>3. QED
        BY <1>2, <3>1, <3>2
    <2>3. CASE x # n /\ x # c
      BY <1>16, <1>21, <1>22, <2>3
    <2>4. QED
      BY <2>1, <2>2, <2>3
  <1>23. ASSUME NEW x \in L, NEW a \in D2[x], NEW b \in D2[x], NEW m \in L,
                Kin(m, x), Beyond(d, m, a), Beyond(d, b, m)
         PROVE  m \in D2[x]
    <2>0. ASSUME NEW y \in L, a \in D[y], b \in D[y], Kin(m, y)
          PROVE  m \in D[y]
      BY <1>1, <1>3, <1>4, <1>23, <2>0, SortedBeyond
    <2>1. CASE x = n
      <3>1. a \in D[n] /\ b \in D[n]
        BY <1>11, <2>1
      <3>2. m \in D[n]
        BY <1>3, <1>23, <2>0, <2>1, <3>1
      <3>3. Beyond(d, a, c)
        <4>1. D2[ch2[c][d]] = D2[n]
          BY <1>15
        <4>2. QED
          BY <1>3, <1>22, <2>1, <4>1
      <3>4. Beyond(d, m, c)
        <4>1. a \in Elems /\ m \in Elems /\ c \in Elems
          BY <1>1, <1>3, <1>10, <2>1
        <4>2. QED
          BY <1>3, <1>23, <3>3, <4>1, OrderOfKeys
      <3>5. m # c /\ m \notin D[f]
        <4>1. m \in D[f] => Beyond(o, m, c)
          BY <1>2, <1>3, <1>21
        <4>2. ~Beyond(d, c, c) /\ ~(Beyond(o, m, c) /\ Beyond(d, m, c))
          BY <1>1, <1>3, OrderOfKeys
        <4>3. QED
          BY <3>4, <4>1, <4>2
      <3>6. QED
        BY <1>6, <1>10, <2>1, <3>2, <3>5
    <2>2. CASE x = c
      <3>1. a \in D[n] /\ b \in D[n] /\ Kin(m, n)
        BY <1>3, <1>10, <1>23, <2>2 DEF Kin
      <3>2. QED
        BY <1>3, <1>10, <2>0, <2>2, <3>1
    <2>3. CASE x # n /\ x # c
      BY <1>1, <1>8, <1>23, <2>0, <2>3
    <2>4. QED
      BY <2>1, <2>2, <2>3
  <1>24. Sorted(ch2, L, D2)
    <2>1. \A m, x \in L : Kin(m, x) /\ m # x => Lt(m, x) \/ Lt(x, m)
      BY <1>4 DEF Sorted
    <2>2. QED
      BY <1>1, <1>3, <1>10, <1>22, <1>23, <2>1, BeyondSorted
  <1>25. QED
    BY <1>20, <1>24

\* A rotation leaves a tree of the same elements in the same order.
LEMMA TurnedShape ==
  ASSUME NEW ch, NEW pa, NEW ro, NEW L, NEW D, Shape(ch, pa, ro, L, D),
         NEW d, NEW n, NEW p, NEW s, NEW t, NEW ch2, NEW pa2, NEW ro2,
         Turned(ch, pa, ro, L, d, n, p, s, t, ch2, pa2, ro2)
  PROVE  \E D2 \in [Node -> SUBSET L] : Shape(ch2, pa2, ro2, L, D2)
  <1> DEFINE c == ch[n][Other(d)]
             g == ch[c][d]
             D2 == [D EXCEPT ![c] = D[n], ![n] = {n} \cup D[ch[n][d]] \cup D[g]]
  <1>1. Apart(ch, pa, L, D, d, n, p, s, c, g)
    BY TurnedApart
  <1>2. t = TreeOf[n]
    BY DEF Turned
  <1>3. Relinked(ch, pa, ro, d, n, p, s, t, c, g, ch2, pa2, ro2)
    BY <1>1, TurnedRelinked
  <1>4. Regrouped(ch, L, D, d, n, c, g, D2)
    <2>1. /\ n \in L /\ c \in L /\ n # c /\ L \subseteq Node /\ D \in [Node -> SUBSET L]
          /\ d \in Dirs /\ ch \in [Node -> [Dirs -> Node]]
      BY <1>1, Nodes DEF Apart, Shape, Typed
    <2>2. ch[n][d] \in Node /\ g \in Node
      BY <2>1
    <2>3. n \in Node /\ c \in Node /\ D[n] \in SUBSET L
          /\ {n} \cup D[ch[n][d]] \cup D[g] \in SUBSET L
      BY <2>1, <2>2
    <2>4. QED
      BY <2>1, <2>3 DEF Regrouped
  <1>5. Tied(ch2, pa2, ro2, L)
    BY <1>1, <1>2, <1>3, TurnedTied
  <1>6. Counted(ch2, ro2, L, D2) /\ Sorted(ch2, L, D2)
    <2> HIDE DEF D2
    <2>1. QED
      BY <1>1, <1>2, <1>3, <1>4, TurnedCounted
  <1>7. Typed(ch2, pa2, ro2, L, D2) /\ D2 \in [Node -> SUBSET L]
    BY <1>3, <1>4 DEF Relinked, Regrouped, Shape, Typed
  <1>8. QED
    BY <1>5, <1>6, <1>7 DEF Shape

(***************************************************************************)
(* Insertion                                                               *)
(***************************************************************************)

\* An element that is in no tree may be reset.
LEMMA ResetShape ==
  ASSUME NEW ch, NEW pa, NEW ro, NEW L, NEW D, Shape(ch, pa, ro, L, D),
         NEW e \in Elems \ L, NEW ch2, NEW pa2,
         ch2 = [ch EXCEPT ![e] = NoLinks], pa2 = [pa EXCEPT ![e] = Nil]
  PROVE  Shape(ch2, pa2, ro, L, D) /\ ch2[e] = NoLinks /\ pa2[e] = Nil
  <1>1. /\ L \in SUBSET Elems /\ L \subseteq Node /\ Nil \in Node /\ Nil \notin L
        /\ ch \in [Node -> [Dirs -> Node]] /\ pa \in [Node -> Node] /\ ro \in [Trees -> Node]
        /\ e \in Node /\ e # Nil /\ e \notin L /\ NoLinks \in [Dirs -> Node]
    <2>1. NoLinks \in [Dirs -> Node] /\ e \in Node /\ e # Nil /\ e \notin L
      BY TreesAssumption DEF NoLinks, Node
    <2>2. QED
      BY <2>1, Nodes DEF Shape, Typed
  <1>2. /\ ch2 \in [Node -> [Dirs -> Node]] /\ pa2 \in [Node -> Node]
        /\ ch2[e] = NoLinks /\ pa2[e] = Nil
        /\ \A x \in Node : x # e => ch2[x] = ch[x] /\ pa2[x] = pa[x]
    BY <1>1
  <1>3. Typed(ch2, pa2, ro, L, D)
    BY <1>2 DEF Shape, Typed
  <1>4. \A x \in L : ch2[x] = ch[x] /\ pa2[x] = pa[x]
    BY <1>1, <1>2
  <1>5. Counted(ch2, ro, L, D) /\ Sorted(ch2, L, D)
    BY <1>4 DEF Shape, Counted, Sorted
  <1>6. Tied(ch, pa, ro, L)
    BY DEF Shape
  <1>7. ASSUME NEW f \in Elems \ L
        PROVE  ~HangsIn(ch2, pa2, ro, f)
    <2>1. ~HangsIn(ch, pa, ro, f) /\ f \in Node /\ f # Nil
      BY <1>6, TreesAssumption DEF Tied, Node
    <2>2. CASE f = e
      BY <1>2, <2>1, <2>2 DEF HangsIn
    <2>3. CASE f # e
      <3>1. pa2[f] = pa[f] /\ pa[f] \in Node
        BY <1>1, <1>2, <2>1, <2>3
      <3>2. \A r \in Dirs : ch2[pa[f]][r] = f => ch[pa[f]][r] = f
        BY <1>2, <2>1, <3>1 DEF NoLinks
      <3>3. QED
        BY <2>1, <3>1, <3>2 DEF HangsIn
    <2>4. QED
      BY <2>2, <2>3
  <1>8. \A t \in Trees : ro[t] # Nil => pa2[ro[t]] = Nil
    BY <1>4, <1>6 DEF Tied
  <1>9. ch2[Nil] = NoLinks
    BY <1>1, <1>2, <1>6 DEF Tied
  <1>10. \A x \in L : \A d \in Dirs : ch[x][d] # Nil => pa2[ch[x][d]] = x
    BY <1>4, <1>6 DEF Tied
  <1>11. Tied(ch2, pa2, ro, L)
    <2>1. \A n \in L : pa2[n] = Nil => ro[TreeOf[n]] = n
      BY <1>4, <1>6 DEF Tied
    <2>2. \A n \in L : pa2[n] # Nil => pa2[n] \in L /\ \E d \in Dirs : ch2[pa2[n]][d] = n
      BY <1>4, <1>6 DEF Tied
    <2>3. \A t \in Trees : ro[t] # Nil => ro[t] \in L /\ TreeOf[ro[t]] = t
      BY <1>6 DEF Tied
    <2>4. \A n \in L : \A d \in Dirs : ch2[n][d] # Nil =>
            ch2[n][d] \in L /\ pa2[ch2[n][d]] = n /\ Kin(ch2[n][d], n)
      BY <1>4, <1>6, <1>10 DEF Tied
    <2>5. QED
      BY <1>7, <1>8, <1>9, <2>1, <2>2, <2>3, <2>4 DEF Tied
  <1>12. QED
    BY <1>2, <1>3, <1>5, <1>11 DEF Shape

\* The first element of a tree.
LEMMA RootedShape ==
  ASSUME NEW ch, NEW pa, NEW ro, NEW L, NEW D, Shape(ch, pa, ro, L, D),
         NEW e \in Elems \ L, ch[e] = NoLinks, pa[e] = Nil, ro[TreeOf[e]] = Nil,
         NEW ro2, ro2 = [ro EXCEPT ![TreeOf[e]] = e]
  PROVE  \E D2 \in [Node -> SUBSET (L \cup {e})] : Shape(ch, pa, ro2, L \cup {e}, D2)
  <1> DEFINE L2 == L \cup {e}
             D2 == [D EXCEPT ![e] = {e}]
             t == TreeOf[e]
  <1>1. /\ L \in SUBSET Elems /\ L \subseteq Node /\ Nil \in Node /\ Nil \notin L
        /\ ch \in [Node -> [Dirs -> Node]] /\ pa \in [Node -> Node] /\ ro \in [Trees -> Node]
        /\ D \in [Node -> SUBSET L] /\ D[Nil] = {}
        /\ e \in Node /\ e # Nil /\ e \notin L /\ t \in Trees
    BY Nodes, TreesAssumption, ZenonT(60) DEF Shape, Typed, Node
  <1>2. /\ L2 \in SUBSET Elems /\ D2 \in [Node -> SUBSET L2]
        /\ ro2 \in [Trees -> Node] /\ ro2[t] = e /\ \A u \in Trees : u # t => ro2[u] = ro[u]
        /\ D2[e] = {e} /\ \A x \in Node : x # e => D2[x] = D[x]
    BY <1>1
  <1>3. Typed(ch, pa, ro2, L2, D2)
    BY <1>1, <1>2 DEF Typed
  <1>4. Tied(ch, pa, ro, L) /\ Counted(ch, ro, L, D) /\ Sorted(ch, L, D)
    BY DEF Shape
  <1>5. \A m \in L : TreeOf[m] # t /\ TreeOf[m] \in Trees
    BY <1>1, <1>4, Nodes DEF Counted
  <1>6. Tied(ch, pa, ro2, L2)
    <2>1. \A u \in Trees : ro2[u] # Nil =>
             ro2[u] \in L2 /\ TreeOf[ro2[u]] = u /\ pa[ro2[u]] = Nil
      BY <1>2, <1>4 DEF Tied
    <2>2. \A n \in L2 : pa[n] = Nil => ro2[TreeOf[n]] = n
      BY <1>2, <1>4, <1>5 DEF Tied
    <2>3. \A n \in L2 : pa[n] # Nil => pa[n] \in L2 /\ \E d \in Dirs : ch[pa[n]][d] = n
      BY <1>4 DEF Tied
    <2>4. \A n \in L2 : \A d \in Dirs :
            ch[n][d] # Nil => ch[n][d] \in L2 /\ pa[ch[n][d]] = n /\ Kin(ch[n][d], n)
      BY <1>4 DEF Tied, NoLinks
    <2>5. \A f \in Elems \ L2 : ~HangsIn(ch, pa, ro2, f)
      <3>1. \A f \in Elems : TreeOf[f] \in Trees
        BY TreesAssumption
      <3>2. QED
        BY <1>2, <1>4, <3>1 DEF Tied, HangsIn
    <2>6. QED
      BY <1>4, <2>1, <2>2, <2>3, <2>4, <2>5 DEF Tied
  <1>7. \A n \in L : \A d \in Dirs : ch[n][d] # e /\ ch[n][d] \in Node
    BY <1>1, <1>4 DEF Tied
  <1>8. \A d \in Dirs : D2[ch[e][d]] = {}
    BY <1>1, <1>2 DEF NoLinks
  <1>9. Counted(ch, ro2, L2, D2)
    <2>1. D2[Nil] = {}
      BY <1>1, <1>2
    <2>2. \A n \in L2 : \A m \in D2[n] : Kin(m, n)
      BY <1>1, <1>2, <1>4 DEF Counted, Kin
    <2>3. ASSUME NEW n \in L2, NEW m \in L2
          PROVE  m \in D2[n] <=> m = n \/ \E d \in Dirs : m \in D2[ch[n][d]]
      <3>1. CASE n = e
        BY <1>2, <1>8, <3>1
      <3>2. CASE n # e
        <4>1. n \in L /\ D2[n] = D[n] /\ \A d \in Dirs : D2[ch[n][d]] = D[ch[n][d]]
          BY <1>1, <1>2, <1>7, <3>2
        <4>2. CASE m \in L
          BY <1>4, <4>1, <4>2 DEF Counted
        <4>3. CASE m = e
          BY <1>1, <1>7, <3>2, <4>1, <4>3
        <4>4. QED
          BY <4>2, <4>3
      <3>3. QED
        BY <3>1, <3>2
    <2>4. \A m \in L2 : m \in D2[ro2[TreeOf[m]]]
      <3>1. ASSUME NEW m \in L
            PROVE  m \in D2[ro2[TreeOf[m]]]
        <4>1. ro2[TreeOf[m]] = ro[TreeOf[m]] /\ TreeOf[m] \in Trees
          BY <1>2, <1>5
        <4>2. m \in D[ro[TreeOf[m]]]
          BY <1>4 DEF Counted
        <4>3. ro[TreeOf[m]] \in L
          BY <1>1, <1>4, <4>1, <4>2 DEF Tied
        <4>4. QED
          BY <1>1, <1>2, <4>1, <4>2, <4>3
      <3>2. QED
        BY <1>2, <3>1
    <2>5. QED
      BY <2>1, <2>2, <2>3, <2>4 DEF Counted
  <1>10. Sorted(ch, L2, D2)
    <2>1. \A m, n \in L2 : Kin(m, n) /\ m # n => Lt(m, n) \/ Lt(n, m)
      BY <1>4, <1>5 DEF Sorted, Kin
    <2>2. \A n \in L2 : \A d \in Dirs : \A m \in D2[ch[n][d]] : Beyond(d, m, n)
      <3>1. \A n \in L : \A d \in Dirs : D2[ch[n][d]] = D[ch[n][d]]
        BY <1>2, <1>7
      <3>2. QED
        BY <1>4, <1>8, <3>1 DEF Sorted
    <2>3. \A n \in L2 : \A a, b \in D2[n] : \A m \in L2 :
            Kin(m, n) /\ Lt(a, m) /\ Lt(m, b) => m \in D2[n]
      <3>1. ASSUME NEW n \in L, NEW a \in D2[n], NEW b \in D2[n], NEW m \in L2,
                   Kin(m, n), Lt(a, m), Lt(m, b)
            PROVE  m \in D2[n]
        <4>1. D2[n] = D[n] /\ m \in L
          BY <1>1, <1>2, <1>5, <3>1 DEF Kin
        <4>2. QED
          BY <1>4, <3>1, <4>1 DEF Sorted
      <3>2. ASSUME NEW m \in L2, Lt(e, m), Lt(m, e)
            PROVE  FALSE
        BY <1>2, <3>2, TreesAssumption DEF Lt, Addresses
      <3>3. QED
        BY <1>2, <3>1, <3>2
    <2>4. QED
      BY <2>1, <2>2, <2>3 DEF Sorted
  <1>11. QED
    BY <1>2, <1>3, <1>6, <1>9, <1>10 DEF Shape

\* The neighbours of a new leaf e on side d of n.
LEMMA NoneBetween ==
  ASSUME NEW ch, NEW pa, NEW ro, NEW L, NEW D, Shape(ch, pa, ro, L, D),
         NEW e \in Elems \ L, NEW n \in L, NEW d \in Dirs,
         Kin(n, e), Around(L, D, n, e), ch[n][d] = Nil, Beyond(d, e, n)
  PROVE  \A k \in L : Kin(k, e) => k = n \/ Beyond(d, n, k) \/ Beyond(d, k, e)
  <1>1. ASSUME NEW k \in L, Kin(k, e)
        PROVE  k = n \/ Beyond(d, n, k) \/ Beyond(d, k, e)
    <2>1. n \in D[n] /\ k \in Elems /\ n \in Elems /\ e \in Elems
      BY Nodes
    <2>2. CASE k \in D[n]
      <3>1. k = n \/ \E r \in Dirs : k \in D[ch[n][r]]
        BY <2>2 DEF Shape, Counted
      <3>2. ASSUME NEW r \in Dirs, k \in D[ch[n][r]]
            PROVE  Beyond(d, n, k)
        <4>1. r = Other(d) /\ Beyond(r, k, n)
          BY <3>2, Nodes, Directions DEF Shape, Sorted
        <4>2. QED
          BY <2>1, <4>1, OrderOfKeys
      <3>3. QED
        BY <3>1, <3>2
    <2>3. CASE k \notin D[n]
      <3>1. (Lt(k, e) /\ Lt(k, n)) \/ (Lt(e, k) /\ Lt(n, k))
        BY <1>1, <2>1, <2>3 DEF Around
      <3>2. QED
        BY <3>1 DEF Beyond, Lt
    <2>4. QED
      BY <2>2, <2>3
  <1>2. QED
    BY <1>1

LEMMA LinkedTied ==
  ASSUME NEW ch, NEW pa, NEW ro, NEW L, NEW D, Shape(ch, pa, ro, L, D),
         NEW e \in Elems \ L, NEW n \in L, NEW d \in Dirs, Kin(n, e),
         ch[n][d] = Nil, ch[e] = NoLinks, pa[e] = Nil,
         NEW ch2, NEW pa2,
         ch2 = [ch EXCEPT ![n][d] = e], pa2 = [pa EXCEPT ![e] = n]
  PROVE  Tied(ch2, pa2, ro, L \cup {e})
  <1> DEFINE L2 == L \cup {e}
  <1>1. /\ L \in SUBSET Elems /\ L \subseteq Node /\ Nil \in Node /\ Nil \notin L
        /\ ch \in [Node -> [Dirs -> Node]] /\ pa \in [Node -> Node] /\ ro \in [Trees -> Node]
        /\ \A x \in Elems : TreeOf[x] \in Trees
    BY Nodes, TreesAssumption DEF Shape, Typed
  <1>2. e \in Node /\ e # Nil /\ e \notin L /\ n \in Node /\ n # e /\ n # Nil
    BY <1>1, TreesAssumption DEF Node
  <1>3. /\ ch2[n][d] = e /\ \A r \in Dirs : r # d => ch2[n][r] = ch[n][r]
        /\ \A x \in Node : x # n => ch2[x] = ch[x]
        /\ pa2[e] = n /\ \A x \in Node : x # e => pa2[x] = pa[x]
    BY <1>1, <1>2
  <1>4. Tied(ch, pa, ro, L)
    BY DEF Shape
  <1>5. \A u \in Trees : ro[u] # Nil => ro[u] \in L2 /\ TreeOf[ro[u]] = u /\ pa2[ro[u]] = Nil
    BY <1>1, <1>2, <1>3, <1>4 DEF Tied
  <1>6. \A x \in L2 : pa2[x] = Nil => ro[TreeOf[x]] = x
    BY <1>1, <1>2, <1>3, <1>4 DEF Tied
  <1>7. ASSUME NEW x \in L2, pa2[x] # Nil
        PROVE  pa2[x] \in L2 /\ \E r \in Dirs : ch2[pa2[x]][r] = x
    <2>1. CASE x = e
      BY <1>3, <2>1
    <2>2. CASE x # e
      <3>1. x \in L /\ pa2[x] = pa[x] /\ x # Nil
        BY <1>1, <1>3, <2>2
      <3>2. PICK r \in Dirs : ch[pa[x]][r] = x
        BY <1>4, <1>7, <3>1 DEF Tied
      <3>3. pa[x] \in L
        BY <1>4, <1>7, <3>1 DEF Tied
      <3>4. ch2[pa[x]][r] = x
        <4>1. ch2[pa[x]][r] = ch[pa[x]][r] \/ (pa[x] = n /\ r = d)
          BY <1>1, <1>3, <3>3
        <4>2. QED
          BY <3>1, <3>2, <4>1
      <3>5. QED
        BY <3>1, <3>3, <3>4
    <2>3. QED
      BY <2>1, <2>2
  <1>8. ASSUME NEW x \in L2, NEW r \in Dirs, ch2[x][r] # Nil
        PROVE  ch2[x][r] \in L2 /\ pa2[ch2[x][r]] = x /\ Kin(ch2[x][r], x)
    <2>1. CASE x = e
      BY <1>2, <1>3, <1>8, <2>1 DEF NoLinks
    <2>2. CASE x = n /\ r = d
      BY <1>3, <2>2 DEF Kin
    <2>3. CASE x # e /\ ~(x = n /\ r = d)
      <3>1. x \in L /\ ch2[x][r] = ch[x][r]
        BY <1>1, <1>3, <2>3
      <3>2. ch[x][r] \in L /\ pa[ch[x][r]] = x /\ Kin(ch[x][r], x)
        BY <1>4, <1>8, <3>1 DEF Tied
      <3>3. pa2[ch[x][r]] = x
        BY <1>1, <1>2, <1>3, <3>2
      <3>4. QED
        BY <3>1, <3>2, <3>3
    <2>4. QED
      BY <2>1, <2>2, <2>3
  <1>9. ASSUME NEW f \in Elems \ L2
        PROVE  ~HangsIn(ch2, pa2, ro, f)
    <2>1. ~HangsIn(ch, pa, ro, f) /\ f \in Node /\ f # e /\ f # Nil
      BY <1>4, TreesAssumption DEF Tied, Node
    <2>2. pa2[f] = pa[f] /\ pa[f] \in Node
      BY <1>1, <1>3, <2>1
    <2>3. \A r \in Dirs : ch2[pa[f]][r] = f => ch[pa[f]][r] = f
      BY <1>3, <2>1, <2>2
    <2>4. QED
      BY <2>1, <2>2, <2>3 DEF HangsIn
  <1>10. ch2[Nil] = NoLinks
    BY <1>1, <1>2, <1>3, <1>4 DEF Tied
  <1>11. QED
    BY <1>5, <1>6, <1>7, <1>8, <1>9, <1>10 DEF Tied

\* Place: the new element as a leaf.
LEMMA LinkedShape ==
  ASSUME NEW ch, NEW pa, NEW ro, NEW L, NEW D, Shape(ch, pa, ro, L, D),
         NEW e \in Elems \ L, NEW n \in L, NEW d \in Dirs, Kin(n, e),
         Free(L, e), Around(L, D, n, e), ch[n][d] = Nil, Beyond(d, e, n),
         ch[e] = NoLinks, pa[e] = Nil,
         NEW ch2, NEW pa2,
         ch2 = [ch EXCEPT ![n][d] = e], pa2 = [pa EXCEPT ![e] = n]
  PROVE  \E D2 \in [Node -> SUBSET (L \cup {e})] : Shape(ch2, pa2, ro, L \cup {e}, D2)
  <1> DEFINE L2 == L \cup {e}
             D2 == [x \in Node |-> IF x = e THEN {e}
                                   ELSE IF n \in D[x] THEN D[x] \cup {e} ELSE D[x]]
  <1>1. /\ L \in SUBSET Elems /\ L \subseteq Node /\ Nil \in Node /\ Nil \notin L
        /\ ch \in [Node -> [Dirs -> Node]] /\ pa \in [Node -> Node] /\ ro \in [Trees -> Node]
        /\ \A x \in Elems : TreeOf[x] \in Trees
        /\ D \in [Node -> SUBSET L] /\ D[Nil] = {}
    BY Nodes, TreesAssumption, ZenonT(60) DEF Shape, Typed
  <1>2. e \in Node /\ e # Nil /\ e \notin L /\ n \in Node /\ n # e /\ n # Nil
    BY <1>1, TreesAssumption DEF Node
  <1>3. /\ ch2[n][d] = e /\ \A r \in Dirs : r # d => ch2[n][r] = ch[n][r]
        /\ \A x \in Node : x # n => ch2[x] = ch[x]
        /\ ch2 \in [Node -> [Dirs -> Node]] /\ pa2 \in [Node -> Node]
    BY <1>1, <1>2
  <1>4. Tied(ch, pa, ro, L) /\ Counted(ch, ro, L, D) /\ Sorted(ch, L, D)
    BY DEF Shape
  <1>5. /\ D2 \in [Node -> SUBSET L2] /\ D2[e] = {e} /\ D2[Nil] = {}
        /\ \A x \in Node : x # e => \A m \in L : m \in D2[x] <=> m \in D[x]
        /\ \A x \in Node : x # e => (e \in D2[x] <=> n \in D[x])
    BY <1>1, <1>2
  <1> HIDE DEF D2
  <1>6. Typed(ch2, pa2, ro, L2, D2)
    BY <1>1, <1>3, <1>5 DEF Typed
  <1>7. Tied(ch2, pa2, ro, L2)
    BY <1>1, LinkedTied
  <1>8. \A x \in L : \A r \in Dirs : ch[x][r] \in Node /\ ch[x][r] # e
    BY <1>1, <1>4, <1>2 DEF Tied
  <1>9. Counted(ch2, ro, L2, D2)
    <2>1. ASSUME NEW x \in L2, NEW m \in D2[x]
          PROVE  Kin(m, x)
      <3>1. CASE x = e
        BY <1>5, <3>1 DEF Kin
      <3>2. CASE x \in L
        <4>1. x \in Node /\ x # e
          BY <1>1, <1>2, <3>2
        <4>2. CASE m = e
          <5>1. n \in D[x]
            BY <1>5, <2>1, <4>1, <4>2
          <5>2. Kin(n, x)
            BY <1>4, <3>2, <5>1 DEF Counted
          <5>3. QED
            BY <4>2, <5>2 DEF Kin
        <4>3. CASE m # e
          <5>1. m \in L2
            BY <1>5, <2>1, <4>1
          <5>2. m \in D[x]
            BY <1>5, <2>1, <4>1, <4>3, <5>1
          <5>3. QED
            BY <1>4, <3>2, <5>2 DEF Counted
        <4>4. QED
          BY <4>2, <4>3
      <3>3. QED
        BY <3>1, <3>2
    <2>2. ASSUME NEW x \in L2, NEW m \in L2
          PROVE  m \in D2[x] <=> m = x \/ \E r \in Dirs : m \in D2[ch2[x][r]]
      <3>1. CASE x = e
        <4>1. \A r \in Dirs : ch2[e][r] = Nil
          BY <1>2, <1>3 DEF NoLinks
        <4>2. QED
          BY <1>5, <3>1, <4>1
      <3>2. CASE x \in L /\ x # n
        <4>1. ch2[x] = ch[x] /\ x \in Node /\ x # e
          BY <1>1, <1>2, <1>3, <3>2
        <4>2. CASE m \in L
          BY <1>4, <1>5, <1>8, <3>2, <4>1, <4>2 DEF Counted
        <4>3. CASE m = e
          <5>1. n \in D[x] <=> \E r \in Dirs : n \in D[ch[x][r]]
            BY <1>4, <3>2 DEF Counted
          <5>2. QED
            BY <1>5, <1>8, <3>2, <4>1, <4>3, <5>1
        <4>4. QED
          BY <4>2, <4>3
      <3>3. CASE x = n
        <4>3. CASE m = e
          <5>1. n \in D[n]
            BY Nodes
          <5>2. QED
            BY <1>2, <1>3, <1>5, <3>3, <4>3, <5>1
        <4>4. CASE m \in L
          <5>1. m \in D2[n] <=> m \in D[n]
            BY <1>2, <1>5, <4>4
          <5>2. m \in D2[ch2[n][Other(d)]] <=> m \in D[ch[n][Other(d)]]
            BY <1>3, <1>5, <1>8, <4>4, Directions
          <5>3. m \notin D2[ch2[n][d]]
            BY <1>2, <1>3, <1>5, <4>4
          <5>4. m \in D[n] <=> m = n \/ m \in D[ch[n][Other(d)]]
            <6>1. m \in D[n] <=> m = n \/ \E r \in Dirs : m \in D[ch[n][r]]
              BY <1>4, <4>4 DEF Counted
            <6>2. QED
              BY <1>1, <6>1, Directions
          <5>5. QED
            BY <3>3, <5>1, <5>2, <5>3, <5>4, Directions
        <4>5. QED
          BY <4>3, <4>4
      <3>4. QED
        BY <3>1, <3>2, <3>3
    <2>3. ASSUME NEW m \in L2
          PROVE  m \in D2[ro[TreeOf[m]]]
      <3>1. ASSUME NEW k \in L
            PROVE  ro[TreeOf[k]] \in L /\ k \in D[ro[TreeOf[k]]]
        BY <1>1, <1>4 DEF Counted, Tied
      <3>2. CASE m \in L
        BY <1>1, <1>2, <1>5, <3>1, <3>2
      <3>3. CASE m = e
        <4>1. ro[TreeOf[e]] \in L /\ n \in D[ro[TreeOf[e]]]
          BY <3>1 DEF Kin
        <4>2. QED
          BY <1>1, <1>2, <1>5, <3>3, <4>1
      <3>4. QED
        BY <3>2, <3>3
    <2>4. QED
      BY <1>5, <2>1, <2>2, <2>3 DEF Counted
  <1>10. \A m, k \in L2 : Kin(m, k) /\ m # k => Lt(m, k) \/ Lt(k, m)
    <2>1. \A k \in L : Kin(k, e) => Lt(k, e) \/ Lt(e, k)
      <3>1. ASSUME NEW k \in L, Kin(k, e)
            PROVE  Lt(k, e) \/ Lt(e, k)
        <4>1. /\ Key[k].lo \in Int /\ Key[k].hi \in Int /\ Key[k].lo <= Key[k].hi
              /\ Key[e].lo \in Int /\ k \in Elems
          BY <1>1, TreesAssumption DEF Addresses
        <4>2. ~(Key[k].lo <= Key[e].lo /\ Key[e].lo <= Key[k].hi)
          BY <3>1 DEF Free, Holds
        <4>3. QED
          BY <4>1, <4>2 DEF Lt
      <3>2. QED
        BY <3>1
    <2>2. QED
      BY <1>4, <2>1 DEF Sorted, Kin
  <1>11. ASSUME NEW x \in L2, NEW r \in Dirs, NEW m \in D2[ch2[x][r]]
         PROVE  Beyond(r, m, x)
    <2>1. CASE x = e
      BY <1>2, <1>3, <1>5, <1>11, <2>1 DEF NoLinks
    <2>2. CASE x = n /\ r = d
      BY <1>3, <1>5, <1>11, <2>2
    <2>3. CASE x \in L /\ ~(x = n /\ r = d)
      <3>1. ch2[x][r] = ch[x][r] /\ x \in Node /\ ch[x][r] \in Node /\ ch[x][r] # e
        BY <1>1, <1>3, <1>8, <2>3
      <3>2. \A s \in Dirs : \A k \in D[ch[x][s]] : Beyond(s, k, x)
        BY <1>4, <2>3 DEF Sorted
      <3>3. CASE m = e
        <4>1. n \in D[ch[x][r]] /\ Beyond(r, n, x)
          BY <1>5, <1>11, <3>1, <3>2, <3>3
        <4>2. x # n /\ Kin(x, e)
          <5>1. n \in D[x] /\ n \in L
            BY <1>4, <2>3, <4>1 DEF Counted
          <5>2. Kin(n, x)
            BY <1>4, <2>3, <5>1 DEF Counted
          <5>3. QED
            BY <1>1, <4>1, <5>2, OrderOfKeys DEF Kin
        <4>3. Beyond(d, n, x) \/ Beyond(d, x, e)
          BY <2>3, <4>2, NoneBetween
        <4>4. n \in Elems /\ x \in Elems /\ e \in Elems
          BY <1>1, <2>3
        <4>5. CASE Beyond(d, n, x)
          <5>1. r = d
            <6>1. r = Other(d) => FALSE
              BY <4>1, <4>4, <4>5, OrderOfKeys
            <6>2. QED
              BY <6>1, Directions
          <5>2. QED
            BY <3>3, <4>4, <4>5, <5>1, OrderOfKeys
        <4>6. CASE Beyond(d, x, e)
          <5>1. Beyond(d, x, n)
            BY <4>4, <4>6, OrderOfKeys
          <5>2. r # d
            BY <4>1, <4>4, <5>1, OrderOfKeys
          <5>3. Beyond(Other(d), e, x)
            BY <4>4, <4>6, OrderOfKeys
          <5>4. QED
            BY <3>3, <5>2, <5>3, Directions
        <4>7. QED
          BY <4>3, <4>5, <4>6
      <3>4. CASE m # e
        <4>1. m \in L
          BY <1>5, <1>11, <3>1, <3>4
        <4>2. m \in D[ch[x][r]]
          BY <1>5, <1>11, <3>1, <4>1
        <4>3. QED
          BY <3>2, <4>2
      <3>5. QED
        BY <3>3, <3>4
    <2>4. QED
      BY <2>1, <2>2, <2>3
  <1>12. ASSUME NEW x \in L2, NEW a \in D2[x], NEW b \in D2[x], NEW m \in L2,
                Kin(m, x), Beyond(d, m, a), Beyond(d, b, m)
         PROVE  m \in D2[x]
    <2>1. x \in Node /\ L2 \subseteq Elems /\ n \in L2 /\ e \in L2
      BY <1>1, <1>2
    <2>2. a \in Elems /\ b \in Elems /\ m \in Elems /\ n \in Elems /\ e \in Elems
      BY <1>5, <2>1
    <2>3. CASE x = e
      <3>1. a = e /\ b = e
        BY <1>5, <2>3
      <3>2. QED
        BY <1>12, <2>2, <3>1, OrderOfKeys
    <2>4. CASE x \in L
      <3>1. x # e /\ x \in Node
        BY <1>2, <2>1, <2>4
      <3>2. ASSUME NEW k \in D2[x], k # e
            PROVE  k \in D[x]
        <4>1. k \in L
          BY <1>5, <3>1, <3>2
        <4>2. QED
          BY <1>5, <3>1, <3>2, <4>1
      <3>3. ASSUME NEW y \in D[x], NEW z \in D[x], NEW k \in L, Kin(k, x),
                   Beyond(d, k, y), Beyond(d, z, k)
            PROVE  k \in D[x]
        BY <1>1, <1>4, <2>4, <3>3, SortedBeyond
      <3>4. n \in D[x] => Kin(n, x)
        BY <1>4, <2>4 DEF Counted
      <3>5. CASE m = e
        <4>1. a # e /\ b # e
          BY <1>12, <2>2, <3>5, OrderOfKeys
        <4>2. a \in D[x] /\ b \in D[x] /\ a \in L /\ Kin(a, e) /\ Kin(n, x)
          <5>1. a \in D[x] /\ b \in D[x]
            BY <3>2, <4>1
          <5>2. Kin(a, x) /\ a \in L
            BY <1>1, <1>4, <2>4, <3>1, <5>1 DEF Counted
          <5>3. QED
            BY <1>12, <3>5, <5>1, <5>2 DEF Kin
        <4>3. a = n \/ Beyond(d, n, a)
          <5>1. a = n \/ Beyond(d, n, a) \/ Beyond(d, a, e)
            BY <4>2, NoneBetween
          <5>2. ~Beyond(d, a, e)
            BY <1>12, <2>2, <3>5, OrderOfKeys
          <5>3. QED
            BY <5>1, <5>2
        <4>4. Beyond(d, b, n)
          BY <1>12, <2>2, <3>5, OrderOfKeys
        <4>5. n \in D[x]
          BY <3>3, <4>2, <4>3, <4>4
        <4>6. QED
          BY <1>5, <3>1, <3>5, <4>5
      <3>6. CASE m \in L
        <4>1. ASSUME a = e
              PROVE  m \in D[x]
          <5>1. n \in D[x] /\ Beyond(d, m, n)
            BY <1>5, <1>12, <2>2, <3>1, <4>1, OrderOfKeys
          <5>2. b \in D[x]
            <6>1. b # e
              BY <1>12, <2>2, <4>1, OrderOfKeys
            <6>2. QED
              BY <3>2, <6>1
          <5>3. QED
            BY <1>12, <3>3, <3>6, <5>1, <5>2
        <4>2. ASSUME a # e, b = e
              PROVE  m \in D[x]
          <5>1. n \in D[x] /\ a \in D[x] /\ Kin(n, x)
            BY <1>5, <3>1, <3>2, <3>4, <4>2
          <5>2. m = n \/ Beyond(d, n, m)
            <6>1. m = n \/ Beyond(d, n, m) \/ Beyond(d, m, e)
              BY <1>12, <3>6, <5>1, NoneBetween DEF Kin
            <6>2. ~Beyond(d, m, e)
              BY <1>12, <2>2, <4>2, OrderOfKeys
            <6>3. QED
              BY <6>1, <6>2
          <5>3. QED
            BY <1>12, <3>3, <3>6, <5>1, <5>2
        <4>3. ASSUME a # e, b # e
              PROVE  m \in D[x]
          BY <1>12, <3>2, <3>3, <3>6, <4>3
        <4>4. m \in D[x]
          BY <4>1, <4>2, <4>3
        <4>5. QED
          BY <1>5, <3>1, <3>6, <4>4
      <3>7. QED
        BY <3>5, <3>6
    <2>5. QED
      BY <2>3, <2>4
  <1>13. Sorted(ch2, L2, D2)
    BY <1>1, <1>5, <1>10, <1>11, <1>12, BeyondSorted
  <1>14. QED
    BY <1>5, <1>6, <1>7, <1>9, <1>13 DEF Shape

\* The side of at on which the new element belongs.
LEMMA PlaceSide ==
  ASSUME NEW n \in Elems, NEW e \in Elems, ~Holds(n, Key[e].lo), NEW d,
         d = IF Less(Key[n], Key[e]) THEN "right" ELSE "left"
  PROVE  d \in Dirs /\ Beyond(d, e, n)
  <1>1. \A k \in Elems : Key[k].lo \in Int /\ Key[k].hi \in Int /\ Key[k].lo <= Key[k].hi
    BY TreesAssumption DEF Addresses
  <1>2. QED
    BY <1>1 DEF Less, Holds, Beyond, Dirs

\* Further down on that side.
LEMMA AroundBelow ==
  ASSUME NEW ch, NEW pa, NEW ro, NEW L, NEW D, Shape(ch, pa, ro, L, D),
         NEW n \in L, NEW e \in Elems, Kin(n, e), Around(L, D, n, e),
         NEW d \in Dirs, Beyond(d, e, n), ch[n][d] # Nil
  PROVE  Around(L, D, ch[n][d], e)
  <1> DEFINE c == ch[n][d]
  <1>1. /\ L \subseteq Elems /\ Other(d) \in Dirs /\ D[c] \subseteq D[n]
        /\ \A k \in D[n] : k \in L
    BY Nodes, Directions, Child
  <1>2. \A k \in D[c] : Beyond(d, k, n)
    BY DEF Shape, Sorted
  <1>3. ASSUME NEW m \in L, Kin(m, e), m \notin D[c], m = n \/ Beyond(Other(d), m, n)
        PROVE  \/ Lt(m, e) /\ \A k \in D[c] : Lt(m, k)
               \/ Lt(e, m) /\ \A k \in D[c] : Lt(k, m)
    <2>1. \A k \in Elems : Beyond(d, k, n) => Beyond(d, k, m)
      BY <1>1, <1>3, OrderOfKeys
    <2>2. Beyond(d, e, m) /\ \A k \in D[c] : Beyond(d, k, m)
      BY <1>1, <1>2, <2>1
    <2>3. QED
      BY <2>2 DEF Beyond, Lt
  <1>4. ASSUME NEW m \in L, Kin(m, e), m \notin D[c]
        PROVE  \/ Lt(m, e) /\ \A k \in D[c] : Lt(m, k)
               \/ Lt(e, m) /\ \A k \in D[c] : Lt(k, m)
    <2>1. CASE m \in D[n]
      <3>1. m = n \/ \E s \in Dirs : m \in D[ch[n][s]]
        BY <2>1 DEF Shape, Counted
      <3>2. m = n \/ m \in D[ch[n][Other(d)]]
        BY <1>4, <3>1, Directions
      <3>3. m = n \/ Beyond(Other(d), m, n)
        BY <1>1, <3>2 DEF Shape, Sorted
      <3>4. QED
        BY <1>3, <1>4, <3>3
    <2>2. CASE m \notin D[n]
      BY <1>1, <1>4, <2>2 DEF Around
    <2>3. QED
      BY <2>1, <2>2
  <1>5. QED
    BY <1>4 DEF Around

(***************************************************************************)
(* Deletion                                                                *)
(***************************************************************************)

\* n, which has c as its one child or none, is taken from side s of p.
Spliced(ch, pa, ro, L, n, p, s, c, ch2, pa2, ro2) ==
  /\ n \in L /\ p = pa[n] /\ s \in Dirs /\ (p # Nil => ch[p][s] = n)
  /\ \E r \in Dirs : ch[n][r] = Nil /\ ch[n][Other(r)] = c
  /\ pa2 = [pa EXCEPT ![c] = p]
  /\ IF p = Nil THEN ro2 = [ro EXCEPT ![TreeOf[n]] = c] /\ ch2 = ch
     ELSE ch2 = [ch EXCEPT ![p][s] = c] /\ ro2 = ro

\* What the links are then.
Unlinked(ch, pa, ro, L, n, p, s, c, ch2, pa2, ro2) ==
  /\ n \in L /\ p = pa[n] /\ s \in Dirs /\ c # n /\ n # Nil
  /\ c # Nil => c \in L /\ pa[c] = n /\ Kin(c, n)
  /\ p # Nil => p \in L /\ p # n /\ p # c /\ Kin(n, p) /\ ch[p][s] = n /\ ch[p][Other(s)] # n
                /\ ch2[p][s] = c /\ ch2[p][Other(s)] = ch[p][Other(s)] /\ ro2 = ro
  /\ p = Nil => /\ ro[TreeOf[n]] = n /\ ro2[TreeOf[n]] = c
                /\ \A u \in Trees : u # TreeOf[n] => ro2[u] = ro[u]
  /\ \A x \in Node : (x # p \/ p = Nil) => ch2[x] = ch[x]
  /\ pa2[c] = p /\ \A x \in Node : x # c => pa2[x] = pa[x]
  /\ ch2 \in [Node -> [Dirs -> Node]] /\ pa2 \in [Node -> Node] /\ ro2 \in [Trees -> Node]

LEMMA SplicedUnlinked ==
  ASSUME NEW ch, NEW pa, NEW ro, NEW L, NEW D, Shape(ch, pa, ro, L, D),
         NEW n, NEW p, NEW s, NEW c, NEW ch2, NEW pa2, NEW ro2,
         Spliced(ch, pa, ro, L, n, p, s, c, ch2, pa2, ro2)
  PROVE  Unlinked(ch, pa, ro, L, n, p, s, c, ch2, pa2, ro2)
  <1>1. /\ L \in SUBSET Elems /\ L \subseteq Node /\ Nil \in Node /\ Nil \notin L
        /\ ch \in [Node -> [Dirs -> Node]] /\ pa \in [Node -> Node] /\ ro \in [Trees -> Node]
        /\ \A x \in L : TreeOf[x] \in Trees
    BY Nodes DEF Shape, Typed
  <1>2. /\ n \in L /\ p = pa[n] /\ s \in Dirs /\ (p # Nil => ch[p][s] = n)
        /\ pa2 = [pa EXCEPT ![c] = p]
        /\ p = Nil => ro2 = [ro EXCEPT ![TreeOf[n]] = c] /\ ch2 = ch
        /\ p # Nil => ch2 = [ch EXCEPT ![p][s] = c] /\ ro2 = ro
    BY DEF Spliced
  <1>3. PICK r \in Dirs : ch[n][r] = Nil /\ ch[n][Other(r)] = c
    BY DEF Spliced
  <1>4. c \in Node /\ p \in Node /\ n \in Node /\ n # Nil /\ Other(s) \in Dirs /\ Other(s) # s
    BY <1>1, <1>2, <1>3, Directions, SMTT(30)
  <1>5. c # Nil => c \in L /\ pa[c] = n /\ Kin(c, n) /\ c \in D[n] /\ c # n
    BY <1>2, <1>3, Child, Directions
  <1>6. ASSUME p # Nil
        PROVE  /\ p \in L /\ p # n /\ p # c /\ Kin(n, p) /\ ch[p][s] = n /\ ch[p][Other(s)] # n
    <2>1. p \in L /\ ch[p][s] = n /\ ch[p][s] # Nil
      BY <1>2, <1>4, <1>6 DEF Shape, Tied
    <2>2. Kin(n, p) /\ p # n /\ p \notin D[n] /\ ch[p][Other(s)] # n
      BY <1>2, <2>1, Child
    <2>3. QED
      BY <1>5, <1>6, <2>1, <2>2
  <1>7. p = Nil => ro[TreeOf[n]] = n
    BY <1>2 DEF Shape, Tied
  <1>8. /\ p # Nil => ch2[p][s] = c /\ ch2[p][Other(s)] = ch[p][Other(s)] /\ ro2 = ro
        /\ \A x \in Node : (x # p \/ p = Nil) => ch2[x] = ch[x]
    <2>1. ASSUME p # Nil
          PROVE  /\ ch2[p][s] = c /\ ch2[p][Other(s)] = ch[p][Other(s)] /\ ro2 = ro
                 /\ \A x \in Node : x # p => ch2[x] = ch[x]
      <3>1. ch2 = [ch EXCEPT ![p][s] = c] /\ ro2 = ro
        BY <1>2, <2>1
      <3>2. ch2[p] = [ch[p] EXCEPT ![s] = c] /\ \A x \in Node : x # p => ch2[x] = ch[x]
        BY <1>1, <1>4, <3>1
      <3>3. ch[p] \in [Dirs -> Node]
        BY <1>1, <1>4
      <3>4. ch2[p][s] = c /\ ch2[p][Other(s)] = ch[p][Other(s)]
        BY <1>2, <1>4, <3>2, <3>3
      <3>5. QED
        BY <3>1, <3>2, <3>4
    <2>2. QED
      BY <1>2, <2>1
  <1>9. p = Nil => /\ ro2[TreeOf[n]] = c
                   /\ \A u \in Trees : u # TreeOf[n] => ro2[u] = ro[u]
    BY <1>1, <1>2
  <1>10. pa2[c] = p /\ \A x \in Node : x # c => pa2[x] = pa[x]
    BY <1>1, <1>2, <1>4
  <1>11. ch2 \in [Node -> [Dirs -> Node]] /\ pa2 \in [Node -> Node] /\ ro2 \in [Trees -> Node]
    <2>1. pa2 \in [Node -> Node]
      BY <1>1, <1>2, <1>4
    <2>2. CASE p = Nil
      <3>1. ro2 = [ro EXCEPT ![TreeOf[n]] = c] /\ ch2 = ch
        BY <1>2, <2>2
      <3>2. QED
        BY <1>1, <1>4, <2>1, <3>1
    <2>3. CASE p # Nil
      <3>1. ch2 = [ch EXCEPT ![p][s] = c] /\ ro2 = ro
        BY <1>2, <2>3
      <3>2. QED
        BY <1>1, <1>4, <2>1, <3>1
    <2>4. QED
      BY <2>2, <2>3
  <1>12. c # n
    BY <1>4, <1>5
  <1>13. QED
    BY <1>2, <1>4, <1>5, <1>6, <1>7, <1>8, <1>9, <1>10, <1>11, <1>12 DEF Unlinked

LEMMA SplicedTied ==
  ASSUME NEW ch, NEW pa, NEW ro, NEW L, NEW D, Shape(ch, pa, ro, L, D),
         NEW n, NEW p, NEW s, NEW c, NEW ch2, NEW pa2, NEW ro2,
         Unlinked(ch, pa, ro, L, n, p, s, c, ch2, pa2, ro2),
         \E r \in Dirs : ch[n][r] = Nil /\ ch[n][Other(r)] = c
  PROVE  Tied(ch2, pa2, ro2, L \ {n})
  <1> DEFINE L2 == L \ {n}
             t == TreeOf[n]
  <1>1. /\ L \in SUBSET Elems /\ L \subseteq Node /\ Nil \in Node /\ Nil \notin L
        /\ ch \in [Node -> [Dirs -> Node]] /\ pa \in [Node -> Node] /\ ro \in [Trees -> Node]
        /\ \A x \in Elems : TreeOf[x] \in Trees /\ x # Nil /\ x \in Node
    BY Nodes, TreesAssumption DEF Shape, Typed, Node
  <1>2. /\ n \in L /\ p = pa[n] /\ s \in Dirs /\ c # n /\ n # Nil
        /\ c # Nil => c \in L /\ pa[c] = n /\ TreeOf[c] = t
        /\ p # Nil => p \in L /\ p # n /\ p # c /\ TreeOf[p] = t /\ ch[p][s] = n
                      /\ ch[p][Other(s)] # n /\ ch2[p][s] = c
                      /\ ch2[p][Other(s)] = ch[p][Other(s)] /\ ro2 = ro
        /\ p = Nil => ro[t] = n /\ ro2[t] = c /\ \A u \in Trees : u # t => ro2[u] = ro[u]
        /\ \A x \in Node : (x # p \/ p = Nil) => ch2[x] = ch[x]
        /\ pa2[c] = p /\ \A x \in Node : x # c => pa2[x] = pa[x]
    BY DEF Unlinked, Kin
  <1>3. Tied(ch, pa, ro, L)
    BY DEF Shape
  <1>4. PICK r \in Dirs : ch[n][r] = Nil /\ ch[n][Other(r)] = c
    OBVIOUS
  <1>5. \A x \in Dirs : /\ x = s \/ x = Other(s)
                        /\ x = r \/ x = Other(r)
    BY <1>2, <1>4, Directions
  <1>6. ASSUME NEW u \in Trees, ro2[u] # Nil
        PROVE  ro2[u] \in L2 /\ TreeOf[ro2[u]] = u /\ pa2[ro2[u]] = Nil
    <2>1. CASE p = Nil /\ u = t
      BY <1>2, <1>6, <2>1
    <2>2. CASE ~(p = Nil /\ u = t)
      <3>1. ro2[u] = ro[u]
        BY <1>2, <2>2
      <3>2. ro[u] \in L /\ TreeOf[ro[u]] = u /\ pa[ro[u]] = Nil
        BY <1>3, <1>6, <3>1 DEF Tied
      <3>3. ro[u] # n /\ ro[u] # c
        BY <1>1, <1>2, <2>2, <3>2
      <3>4. QED
        BY <1>1, <1>2, <3>1, <3>2, <3>3
    <2>3. QED
      BY <2>1, <2>2
  <1>7. ASSUME NEW x \in L2, pa2[x] = Nil
        PROVE  ro2[TreeOf[x]] = x
    <2>1. CASE x = c
      BY <1>1, <1>2, <1>7, <2>1
    <2>2. CASE x # c
      <3>1. pa[x] = Nil
        BY <1>1, <1>2, <1>7, <2>2
      <3>2. ro[TreeOf[x]] = x
        BY <1>3, <3>1 DEF Tied
      <3>3. QED
        BY <1>1, <1>2, <3>2
    <2>3. QED
      BY <2>1, <2>2
  <1>8. ASSUME NEW x \in L2, pa2[x] # Nil
        PROVE  pa2[x] \in L2 /\ \E q \in Dirs : ch2[pa2[x]][q] = x
    <2>1. CASE x = c
      BY <1>2, <1>8, <2>1
    <2>2. CASE x # c
      <3>1. pa2[x] = pa[x] /\ x # Nil
        BY <1>1, <1>2, <2>2
      <3>2. PICK q \in Dirs : ch[pa[x]][q] = x
        BY <1>3, <1>8, <3>1 DEF Tied
      <3>3. pa[x] \in L
        BY <1>3, <1>8, <3>1 DEF Tied
      <3>4. pa[x] # n
        BY <1>4, <1>5, <2>2, <3>1, <3>2
      <3>5. ch2[pa[x]][q] = x
        BY <1>1, <1>2, <1>5, <3>2, <3>3
      <3>6. QED
        BY <3>1, <3>3, <3>4, <3>5
    <2>3. QED
      BY <2>1, <2>2
  <1>9. ASSUME NEW x \in L2, NEW q \in Dirs, ch2[x][q] # Nil
        PROVE  ch2[x][q] \in L2 /\ pa2[ch2[x][q]] = x /\ Kin(ch2[x][q], x)
    <2>1. CASE x = p /\ q = s
      BY <1>1, <1>2, <1>9, <2>1 DEF Kin
    <2>2. CASE ~(x = p /\ q = s)
      <3>1. ch2[x][q] = ch[x][q]
        BY <1>1, <1>2, <1>5, <2>2
      <3>2. ch[x][q] \in L /\ pa[ch[x][q]] = x /\ Kin(ch[x][q], x)
        BY <1>3, <1>9, <3>1 DEF Tied
      <3>3. ch[x][q] # n
        BY <1>1, <1>2, <1>5, <2>2, <3>2
      <3>4. ch[x][q] # c
        BY <1>1, <1>2, <3>2
      <3>5. QED
        BY <1>1, <1>2, <3>1, <3>2, <3>3, <3>4
    <2>3. QED
      BY <2>1, <2>2
  <1>10. ASSUME NEW f \in Elems \ L2
         PROVE  ~HangsIn(ch2, pa2, ro2, f)
    <2>1. CASE f = n
      <3>1. pa2[n] = p /\ ro2[t] # n
        <4>1. ASSUME p # Nil, ro[t] = n
              PROVE  FALSE
          <5>1. t \in Trees /\ ro[t] # Nil
            BY <1>1, <1>2, <4>1
          <5>2. pa[ro[t]] = Nil
            BY <1>3, <5>1 DEF Tied
          <5>3. QED
            BY <1>2, <4>1, <5>2
        <4>2. QED
          BY <1>1, <1>2, <4>1
      <3>2. QED
        BY <1>2, <1>5, <2>1, <3>1 DEF HangsIn
    <2>2. CASE f # n
      <3>1. ~HangsIn(ch, pa, ro, f) /\ f \notin L
        BY <1>3, <2>2 DEF Tied
      <3>2. pa2[f] = pa[f] /\ f # c /\ pa[f] \in Node
        BY <1>1, <1>2, <3>1
      <3>3. ro2[TreeOf[f]] # f
        BY <1>1, <1>2, <3>1, <3>2 DEF HangsIn
      <3>4. \A q \in Dirs : ch2[pa[f]][q] = f => ch[pa[f]][q] = f
        BY <1>1, <1>2, <1>5, <3>2
      <3>5. QED
        BY <3>1, <3>2, <3>3, <3>4 DEF HangsIn
    <2>3. QED
      BY <2>1, <2>2
  <1>11. ch2[Nil] = NoLinks
    BY <1>1, <1>2, <1>3 DEF Tied
  <1>12. QED
    BY <1>6, <1>7, <1>8, <1>9, <1>10, <1>11 DEF Tied

\* Splice: the element that is taken out is missing from every set, and nothing
\* else changes.
LEMMA SplicedShape ==
  ASSUME NEW ch, NEW pa, NEW ro, NEW L, NEW D, Shape(ch, pa, ro, L, D),
         NEW n, NEW p, NEW s, NEW c, NEW ch2, NEW pa2, NEW ro2,
         Spliced(ch, pa, ro, L, n, p, s, c, ch2, pa2, ro2)
  PROVE  \E D2 \in [Node -> SUBSET (L \ {n})] : Shape(ch2, pa2, ro2, L \ {n}, D2)
  <1> DEFINE L2 == L \ {n}
             t == TreeOf[n]
             D2 == [x \in Node |-> D[x] \ {n}]
  <1>1. /\ L \in SUBSET Elems /\ L \subseteq Node /\ Nil \in Node /\ Nil \notin L
        /\ ch \in [Node -> [Dirs -> Node]] /\ pa \in [Node -> Node] /\ ro \in [Trees -> Node]
        /\ D \in [Node -> SUBSET L] /\ D[Nil] = {}
        /\ \A x \in L : TreeOf[x] \in Trees
    BY Nodes DEF Shape, Typed
  <1>2. Unlinked(ch, pa, ro, L, n, p, s, c, ch2, pa2, ro2)
    BY SplicedUnlinked
  <1>3. PICK r \in Dirs : ch[n][r] = Nil /\ ch[n][Other(r)] = c
    BY DEF Spliced
  <1>4. Tied(ch2, pa2, ro2, L2)
    BY <1>2, <1>3, SplicedTied
  <1>5. Counted(ch, ro, L, D) /\ Sorted(ch, L, D) /\ Tied(ch, pa, ro, L)
    BY DEF Shape
  <1>6. D2 \in [Node -> SUBSET L2] /\ \A x \in Node : D2[x] = D[x] \ {n}
    BY <1>1
  <1> HIDE DEF D2
  <1>7. Typed(ch2, pa2, ro2, L2, D2)
    BY <1>1, <1>2, <1>6 DEF Typed, Unlinked
  <1>8. n \in L /\ \A m \in L : m # n => (m \in D[n] <=> m \in D[c])
    <2>1. n \in L
      BY <1>2 DEF Unlinked
    <2>2. \A m \in L : m \in D[n] <=> m = n \/ \E q \in Dirs : m \in D[ch[n][q]]
      BY <1>5, <2>1 DEF Counted
    <2>3. QED
      BY <1>1, <1>3, <2>1, <2>2, Directions
  \* Under each child are the same elements, but for the one that is gone.
  <1>9. ASSUME NEW x \in L2, NEW q \in Dirs
        PROVE  /\ ch2[x][q] \in Node
               /\ \A m \in L2 : m \in D2[ch2[x][q]] <=> m \in D[ch[x][q]]
    <2>1. ch2[x][q] \in Node /\ x \in Node
      BY <1>1, <1>2 DEF Unlinked
    <2>2. CASE x = p /\ q = s
      <3>1. ch2[x][q] = c /\ ch[x][q] = n
        BY <1>1, <1>2, <2>2 DEF Unlinked
      <3>2. QED
        BY <1>6, <1>8, <2>1, <3>1
    <2>3. CASE ~(x = p /\ q = s)
      <3>1. q = s \/ q = Other(s)
        BY <1>2, Directions DEF Unlinked
      <3>2. ch2[x][q] = ch[x][q]
        BY <1>1, <1>2, <2>1, <2>3, <3>1 DEF Unlinked
      <3>3. QED
        BY <1>6, <2>1, <3>2
    <2>4. QED
      BY <2>2, <2>3
  <1>10. \A x \in L2 : \A m \in L2 : m \in D2[x] <=> m \in D[x]
    BY <1>1, <1>6
  <1>11. Counted(ch2, ro2, L2, D2)
    <2>1. D2[Nil] = {}
      BY <1>1, <1>6
    <2>2. \A x \in L2 : \A m \in D2[x] : Kin(m, x)
      BY <1>1, <1>5, <1>6 DEF Counted
    <2>3. \A x \in L2 : \A m \in L2 : m \in D2[x] <=> m = x \/ \E q \in Dirs : m \in D2[ch2[x][q]]
      BY <1>5, <1>9, <1>10 DEF Counted
    <2>4. ASSUME NEW m \in L2
          PROVE  m \in D2[ro2[TreeOf[m]]]
      <3>1. m \in D[ro[TreeOf[m]]] /\ TreeOf[m] \in Trees /\ m # n
        BY <1>1, <1>5 DEF Counted
      <3>2. ro2[TreeOf[m]] \in Node /\ ro[TreeOf[m]] \in Node
        BY <1>1, <1>2, <3>1 DEF Unlinked
      <3>3. CASE ro2[TreeOf[m]] = ro[TreeOf[m]]
        BY <1>6, <3>1, <3>2, <3>3
      <3>4. CASE ro2[TreeOf[m]] = c /\ ro[TreeOf[m]] = n
        BY <1>6, <1>8, <3>1, <3>2, <3>4
      <3>5. QED
        BY <1>2, <3>1, <3>3, <3>4 DEF Unlinked
    <2>5. QED
      BY <2>1, <2>2, <2>3, <2>4 DEF Counted
  <1>12. Sorted(ch2, L2, D2)
    <2>1. \A m, x \in L2 : Kin(m, x) /\ m # x => Lt(m, x) \/ Lt(x, m)
      BY <1>5 DEF Sorted
    <2>2. ASSUME NEW x \in L2, NEW q \in Dirs, NEW m \in D2[ch2[x][q]]
          PROVE  Beyond(q, m, x)
      <3>1. m \in L2
        BY <1>6, <1>9, <2>2
      <3>2. m \in D[ch[x][q]]
        BY <1>9, <2>2, <3>1
      <3>3. QED
        BY <1>5, <3>2 DEF Sorted
    <2>3. \A x \in L2 : \A a, b \in D2[x] : \A m \in L2 :
            Kin(m, x) /\ Lt(a, m) /\ Lt(m, b) => m \in D2[x]
      BY <1>1, <1>5, <1>6, <1>10 DEF Sorted
    <2>4. QED
      BY <2>1, <2>2, <2>3 DEF Sorted
  <1>13. QED
    BY <1>4, <1>6, <1>7, <1>11, <1>12 DEF Shape

\* b for a.
Sub(a, b, x) == IF x = a THEN b ELSE x

\* b takes the place of a, which leads nowhere any more.
Replaced(ch, pa, ro, L, a, b, p, ch2, pa2, ro2) ==
  /\ a \in L /\ p = pa[a] /\ Beside(L, a, b) /\ b # a
  /\ ch2 = [ch EXCEPT ![b] = ch[a],
                      ![p] = [d \in Dirs |-> IF p # Nil /\ ch[p][d] = a THEN b ELSE @[d]],
                      ![a] = NoLinks]
  /\ pa2 = [n \in Node |-> CASE n = a -> Nil
                             [] n = b -> p
                             [] n \notin {a, b, Nil} /\ (\E d \in Dirs : ch[a][d] = n) -> b
                             [] OTHER -> pa[n]]
  /\ ro2 = [ro EXCEPT ![TreeOf[a]] = IF @ = a THEN b ELSE @]

\* What the links are then.
Renamed(ch, pa, ro, L, a, b, ch2, pa2, ro2) ==
  /\ ch2 \in [Node -> [Dirs -> Node]] /\ pa2 \in [Node -> Node] /\ ro2 \in [Trees -> Node]
  /\ \A x \in L : pa2[Sub(a, b, x)] = Sub(a, b, pa[x])
  /\ \A x \in L : \A d \in Dirs : ch2[Sub(a, b, x)][d] = Sub(a, b, ch[x][d])
  /\ \A t \in Trees : ro2[t] = Sub(a, b, ro[t])
  /\ \A x \in Node \ L : x # b => ch2[x] = ch[x] /\ pa2[x] = pa[x]
  /\ ch2[a] = NoLinks /\ pa2[a] = Nil

LEMMA ReplacedRenamed ==
  ASSUME NEW ch, NEW pa, NEW ro, NEW L, NEW D, Shape(ch, pa, ro, L, D),
         NEW a, NEW b, NEW p, NEW ch2, NEW pa2, NEW ro2,
         Replaced(ch, pa, ro, L, a, b, p, ch2, pa2, ro2)
  PROVE  Renamed(ch, pa, ro, L, a, b, ch2, pa2, ro2)
  <1>1. /\ L \in SUBSET Elems /\ L \subseteq Node /\ Nil \in Node /\ Nil \notin L
        /\ ch \in [Node -> [Dirs -> Node]] /\ pa \in [Node -> Node] /\ ro \in [Trees -> Node]
        /\ \A x \in L : TreeOf[x] \in Trees
    BY Nodes DEF Shape, Typed
  <1>2. a \in L /\ p = pa[a] /\ b \in Elems /\ b \notin L /\ b # a
    BY DEF Replaced, Beside
  <1>3. a \in Node /\ b \in Node /\ p \in Node /\ a # Nil /\ b # Nil /\ NoLinks \in [Dirs -> Node]
    BY <1>1, <1>2, TreesAssumption DEF Node, NoLinks
  <1>4. Tied(ch, pa, ro, L)
    BY DEF Shape
  <1>5. \A x \in L : \A d \in Dirs :
          ch[x][d] # Nil => ch[x][d] \in L /\ pa[ch[x][d]] = x /\ ch[x][d] # x
    BY <1>1, <1>4, Child DEF Tied
  <1>6. p # Nil => p \in L /\ p # a /\ p # b
    BY <1>1, <1>2, <1>4, <1>5 DEF Tied
  <1>7. ch[p] \in [Dirs -> Node] /\ ch[a] \in [Dirs -> Node]
    BY <1>1, <1>3
  <1> DEFINE q == [d \in Dirs |-> IF p # Nil /\ ch[p][d] = a THEN b ELSE ch[p][d]]
  <1>8. q \in [Dirs -> Node] /\ (p = Nil => q = ch[p])
    BY <1>3, <1>7
  <1>9. ch2 = [ch EXCEPT ![b] = ch[a], ![p] = q, ![a] = NoLinks]
    <2>1. p # b /\ p \in Node
      BY <1>3, <1>6
    <2>2. ch2 = [ch EXCEPT ![b] = ch[a],
                      ![p] = [d \in Dirs |-> IF p # Nil /\ ch[p][d] = a THEN b ELSE @[d]],
                      ![a] = NoLinks]
      BY DEF Replaced
    <2>3. [ch EXCEPT ![b] = ch[a]][p] = ch[p]
      BY <1>1, <1>3, <2>1
    <2>4. QED
      BY <2>2, <2>3
  <1> HIDE DEF q
  <1>10. ch2[a] = NoLinks /\ ch2[b] = ch[a] /\ ch2[p] = q
         /\ \A x \in Node : x # a /\ x # b /\ x # p => ch2[x] = ch[x]
    BY <1>1, <1>2, <1>3, <1>6, <1>9
  <1>11. pa2 = [n \in Node |-> CASE n = a -> Nil
                             [] n = b -> p
                             [] n \notin {a, b, Nil} /\ (\E d \in Dirs : ch[a][d] = n) -> b
                             [] OTHER -> pa[n]]
    BY DEF Replaced
  <1>12. pa2[a] = Nil /\ pa2[b] = p
         /\ \A x \in Node : x # a /\ x # b =>
              pa2[x] = IF x # Nil /\ \E d \in Dirs : ch[a][d] = x THEN b ELSE pa[x]
    <2>1. pa2[a] = Nil
      BY <1>2, <1>3, <1>11
    <2>2. pa2[b] = p
      BY <1>2, <1>3, <1>11
    <2>3. ASSUME NEW x \in Node, x # a, x # b
          PROVE  pa2[x] = IF x # Nil /\ \E d \in Dirs : ch[a][d] = x THEN b ELSE pa[x]
      <3>1. CASE x # Nil /\ \E d \in Dirs : ch[a][d] = x
        <4>1. x \notin {a, b, Nil}
          BY <2>3, <3>1
        <4>2. QED
          BY <1>11, <2>3, <3>1, <4>1
      <3>2. CASE ~(x # Nil /\ \E d \in Dirs : ch[a][d] = x)
        BY <1>11, <2>3, <3>2
      <3>3. QED
        BY <3>1, <3>2
    <2>4. QED
      BY <2>1, <2>2, <2>3
  <1>13. ro2 = [ro EXCEPT ![TreeOf[a]] = IF ro[TreeOf[a]] = a THEN b ELSE ro[TreeOf[a]]]
    BY DEF Replaced
  <1>14. ch2 \in [Node -> [Dirs -> Node]]
    BY <1>1, <1>3, <1>7, <1>8, <1>9
  <1>15. pa2 \in [Node -> Node]
    <2>1. \A x \in Node : pa2[x] \in Node
      BY <1>1, <1>3, <1>12
    <2>2. QED
      BY <1>11, <2>1
  <1>16. ro2 \in [Trees -> Node] /\ \A t \in Trees : ro2[t] = Sub(a, b, ro[t])
    <2>1. TreeOf[a] \in Trees
      BY <1>1, <1>2
    <2>2. ASSUME NEW t \in Trees, t # TreeOf[a]
          PROVE  ro[t] # a
      BY <1>3, <1>4, <2>2 DEF Tied
    <2>3. ro2 \in [Trees -> Node]
      BY <1>1, <1>3, <1>13, <2>1
    <2>4. ASSUME NEW t \in Trees
          PROVE  ro2[t] = Sub(a, b, ro[t])
      BY <1>1, <1>13, <2>1, <2>2, <2>4 DEF Sub
    <2>5. QED
      BY <2>3, <2>4
  <1>17. ASSUME NEW x \in L
         PROVE  pa2[Sub(a, b, x)] = Sub(a, b, pa[x])
    <2>1. CASE x = a
      BY <1>2, <1>3, <1>6, <1>12, <2>1 DEF Sub
    <2>2. CASE x # a
      <3>1. x \in Node /\ x # Nil /\ x # b
        BY <1>1, <1>2
      <3>2. pa2[x] = IF \E d \in Dirs : ch[a][d] = x THEN b ELSE pa[x]
        BY <1>12, <2>2, <3>1
      <3>3. (\E d \in Dirs : ch[a][d] = x) <=> pa[x] = a
        BY <1>2, <1>3, <1>4, <1>5, <3>1 DEF Tied
      <3>4. QED
        BY <2>2, <3>2, <3>3 DEF Sub
    <2>3. QED
      BY <2>1, <2>2
  <1>18. ASSUME NEW x \in L, NEW d \in Dirs
         PROVE  ch2[Sub(a, b, x)][d] = Sub(a, b, ch[x][d])
    <2>1. CASE x = a
      <3>1. ch[a][d] # a
        BY <1>2, <1>3, <1>5
      <3>2. QED
        BY <1>10, <2>1, <3>1 DEF Sub
    <2>2. CASE x = p
      <3>1. ch2[x][d] = IF ch[p][d] = a THEN b ELSE ch[p][d]
        BY <1>1, <1>10, <2>2 DEF q
      <3>2. QED
        BY <1>1, <1>6, <2>2, <3>1 DEF Sub
    <2>3. CASE x # a /\ x # p
      <3>1. ch2[x] = ch[x]
        BY <1>1, <1>2, <1>10, <2>3
      <3>2. ch[x][d] # a
        BY <1>2, <1>3, <1>5, <2>3
      <3>3. QED
        BY <2>3, <3>1, <3>2 DEF Sub
    <2>4. QED
      BY <2>1, <2>2, <2>3
  <1>19. ASSUME NEW x \in Node \ L, x # b
         PROVE  ch2[x] = ch[x] /\ pa2[x] = pa[x]
    <2>1. x # a /\ (x = p => ch2[x] = ch[x])
      BY <1>2, <1>6, <1>8, <1>10
    <2>2. x # Nil => ~\E d \in Dirs : ch[a][d] = x
      BY <1>2, <1>5
    <2>3. QED
      BY <1>10, <1>12, <1>19, <2>1, <2>2
  <1>20. QED
    BY <1>10, <1>12, <1>14, <1>15, <1>16, <1>17, <1>18, <1>19 DEF Renamed

LEMMA RenamedTied ==
  ASSUME NEW ch, NEW pa, NEW ro, NEW L, NEW D, Shape(ch, pa, ro, L, D),
         NEW a \in L, NEW b \in Elems, b \notin L, Kin(a, b),
         NEW ch2, NEW pa2, NEW ro2, Renamed(ch, pa, ro, L, a, b, ch2, pa2, ro2)
  PROVE  Tied(ch2, pa2, ro2, (L \ {a}) \cup {b})
  <1> DEFINE L2 == (L \ {a}) \cup {b}
             S(x) == Sub(a, b, x)
             U(x) == Sub(b, a, x)
  <1>1. /\ L \in SUBSET Elems /\ L \subseteq Node /\ Nil \in Node /\ Nil \notin L /\ L2 \subseteq Elems
        /\ ch \in [Node -> [Dirs -> Node]] /\ pa \in [Node -> Node] /\ ro \in [Trees -> Node]
        /\ \A x \in Elems : TreeOf[x] \in Trees /\ x # Nil /\ x \in Node
    BY Nodes, TreesAssumption DEF Shape, Typed, Node
  <1>2. Tied(ch, pa, ro, L) /\ a # b /\ a # Nil /\ b # Nil
    BY <1>1 DEF Shape
  <1>3. \A x \in L2 : U(x) \in L /\ S(U(x)) = x /\ TreeOf[U(x)] = TreeOf[x]
    BY <1>2 DEF Sub, Kin
  <1>4. /\ \A x \in L : S(x) \in L2 /\ TreeOf[S(x)] = TreeOf[x] /\ S(x) # Nil
        /\ S(Nil) = Nil /\ \A x \in L \cup {Nil} : S(x) = Nil <=> x = Nil
    BY <1>1, <1>2 DEF Sub, Kin
  <1>5. /\ \A x \in L : pa2[S(x)] = S(pa[x])
        /\ \A x \in L : \A d \in Dirs : ch2[S(x)][d] = S(ch[x][d])
        /\ \A t \in Trees : ro2[t] = S(ro[t])
        /\ \A x \in Node \ L : x # b => ch2[x] = ch[x] /\ pa2[x] = pa[x]
        /\ ch2[a] = NoLinks /\ pa2[a] = Nil
    BY DEF Renamed
  <1>6. /\ \A x \in L : pa[x] \in L \cup {Nil}
        /\ \A x \in L : \A d \in Dirs : ch[x][d] \in L \cup {Nil}
        /\ \A t \in Trees : ro[t] \in L \cup {Nil}
    BY <1>2 DEF Tied
  <1> HIDE DEF S, U
  <1>7. ch2[Nil] = NoLinks
    BY <1>1, <1>2, <1>5 DEF Tied
  <1>8. ASSUME NEW t \in Trees, ro2[t] # Nil
        PROVE  ro2[t] \in L2 /\ TreeOf[ro2[t]] = t /\ pa2[ro2[t]] = Nil
    <2>1. ro2[t] = S(ro[t]) /\ ro[t] # Nil
      BY <1>4, <1>5, <1>8
    <2>2. ro[t] \in L /\ TreeOf[ro[t]] = t /\ pa[ro[t]] = Nil
      BY <1>2, <2>1 DEF Tied
    <2>3. QED
      BY <1>4, <1>5, <2>1, <2>2
  <1>9. ASSUME NEW x \in L2, pa2[x] = Nil
        PROVE  ro2[TreeOf[x]] = x
    <2>1. PICK y \in L : x = S(y) /\ TreeOf[y] = TreeOf[x] /\ TreeOf[y] \in Trees
      BY <1>1, <1>3
    <2>2. pa[y] = Nil
      BY <1>4, <1>5, <1>6, <1>9, <2>1
    <2>3. ro[TreeOf[y]] = y
      BY <1>2, <2>2 DEF Tied
    <2>4. QED
      BY <1>5, <2>1, <2>3
  <1>10. ASSUME NEW x \in L2, pa2[x] # Nil
         PROVE  pa2[x] \in L2 /\ \E d \in Dirs : ch2[pa2[x]][d] = x
    <2>1. PICK y \in L : x = S(y)
      BY <1>3
    <2>2. pa[y] # Nil /\ pa2[x] = S(pa[y])
      BY <1>4, <1>5, <1>10, <2>1
    <2>3. PICK d \in Dirs : pa[y] \in L /\ ch[pa[y]][d] = y
      BY <1>2, <2>2 DEF Tied
    <2>4. ch2[pa2[x]][d] = x /\ pa2[x] \in L2
      BY <1>4, <1>5, <2>1, <2>2, <2>3
    <2>5. QED
      BY <2>4
  <1>11. ASSUME NEW x \in L2, NEW d \in Dirs, ch2[x][d] # Nil
         PROVE  ch2[x][d] \in L2 /\ pa2[ch2[x][d]] = x /\ Kin(ch2[x][d], x)
    <2>1. PICK y \in L : x = S(y) /\ TreeOf[y] = TreeOf[x]
      BY <1>3
    <2>2. ch2[x][d] = S(ch[y][d]) /\ ch[y][d] # Nil
      BY <1>4, <1>5, <1>11, <2>1
    <2>3. ch[y][d] \in L /\ pa[ch[y][d]] = y /\ TreeOf[ch[y][d]] = TreeOf[y]
      BY <1>2, <2>2 DEF Tied, Kin
    <2>4. QED
      BY <1>4, <1>5, <2>1, <2>2, <2>3 DEF Kin
  <1>12. ASSUME NEW e \in Elems \ L2
         PROVE  ~HangsIn(ch2, pa2, ro2, e)
    <2>0. TreeOf[e] \in Trees /\ e # Nil /\ e # b
      BY <1>1
    <2>1. CASE e = a
      <3>1. \A y \in Node : S(y) # a
        BY <1>2 DEF S, Sub
      <3>2. ro2[TreeOf[e]] # e
        BY <1>1, <1>5, <2>0, <2>1, <3>1
      <3>3. QED
        BY <1>5, <2>1, <3>2 DEF HangsIn
    <2>2. CASE e # a
      <3>1. e \in Node \ L /\ pa2[e] = pa[e] /\ ~HangsIn(ch, pa, ro, e)
        BY <1>1, <1>2, <1>5, <2>0, <2>2 DEF Tied
      <3>2. \A y \in Node : S(y) = e => y = e
        BY <2>0 DEF S, Sub
      <3>3. ro2[TreeOf[e]] # e
        BY <1>1, <1>5, <2>0, <3>1, <3>2 DEF HangsIn
      <3>4. ASSUME pa[e] # Nil, NEW d \in Dirs, ch2[pa[e]][d] = e
            PROVE  FALSE
        <4>1. CASE pa[e] = a
          BY <1>5, <2>0, <3>4, <4>1 DEF NoLinks
        <4>2. CASE pa[e] = b
          <5>1. ch2[b][d] = S(ch[a][d]) /\ ch[a][d] \in L \cup {Nil}
            BY <1>5, <1>6 DEF S, Sub
          <5>2. QED
            BY <1>1, <2>0, <3>1, <3>2, <3>4, <4>2, <5>1
        <4>3. CASE pa[e] \in L /\ pa[e] # a
          <5>1. ch2[pa[e]][d] = S(ch[pa[e]][d]) /\ ch[pa[e]][d] \in L \cup {Nil}
            BY <1>5, <1>6, <4>3 DEF S, Sub
          <5>2. QED
            BY <1>1, <2>0, <3>1, <3>2, <3>4, <5>1
        <4>4. CASE pa[e] \notin L /\ pa[e] # b
          <5>1. ch2[pa[e]] = ch[pa[e]]
            BY <1>1, <1>5, <3>1, <4>4
          <5>2. QED
            BY <3>1, <3>4, <5>1 DEF HangsIn
        <4>5. QED
          BY <4>1, <4>2, <4>3, <4>4
      <3>5. QED
        BY <3>1, <3>3, <3>4 DEF HangsIn
    <2>3. QED
      BY <2>1, <2>2
  <1>13. QED
    BY <1>7, <1>8, <1>9, <1>10, <1>11, <1>12 DEF Tied

\* Replace: the same tree, with another element at the same place.
LEMMA ReplacedShape ==
  ASSUME NEW ch, NEW pa, NEW ro, NEW L, NEW D, Shape(ch, pa, ro, L, D),
         NEW a, NEW b, NEW p, NEW ch2, NEW pa2, NEW ro2,
         Replaced(ch, pa, ro, L, a, b, p, ch2, pa2, ro2)
  PROVE  Shaped(ch2, pa2, ro2, (L \ {a}) \cup {b})
  <1> DEFINE L2 == (L \ {a}) \cup {b}
             S(x) == Sub(a, b, x)
             U(x) == Sub(b, a, x)
             D2 == [x \in Node |-> {m \in L2 : U(m) \in D[U(x)]}]
  <1>1. /\ L \in SUBSET Elems /\ L \subseteq Node /\ Nil \in Node /\ Nil \notin L
        /\ ch \in [Node -> [Dirs -> Node]] /\ pa \in [Node -> Node] /\ ro \in [Trees -> Node]
        /\ \A x \in Elems : TreeOf[x] \in Trees /\ x # Nil /\ x \in Node
        /\ D \in [Node -> SUBSET L] /\ D[Nil] = {}
    BY Nodes, TreesAssumption DEF Shape, Typed, Node
  <1>2. a \in L /\ b \in Elems /\ b \notin L /\ b # a /\ Kin(a, b) /\ a # Nil /\ b # Nil
        /\ a \in Elems /\ Lt(a, b) /\ \A k \in L : Kin(k, a) /\ k # a => Lt(k, a) \/ Lt(b, k)
    BY <1>1 DEF Replaced, Beside
  <1>3. Renamed(ch, pa, ro, L, a, b, ch2, pa2, ro2)
    BY ReplacedRenamed
  <1>4. Tied(ch2, pa2, ro2, L2)
    BY <1>2, <1>3, RenamedTied
  <1>5. Counted(ch, ro, L, D) /\ Sorted(ch, L, D) /\ Tied(ch, pa, ro, L)
    BY DEF Shape
  <1>6. D2 \in [Node -> SUBSET L2] /\ \A x \in Node : \A m \in L2 : m \in D2[x] <=> U(m) \in D[U(x)]
    OBVIOUS
  <1>7. /\ L2 \subseteq Elems /\ U(Nil) = Nil
        /\ \A x \in L2 : U(x) \in L /\ S(U(x)) = x /\ TreeOf[U(x)] = TreeOf[x] /\ x \in Node
        /\ \A x, y \in L2 : U(x) = U(y) => x = y
        /\ \A y \in L \cup {Nil} : S(y) \in Node /\ U(S(y)) = y
    BY <1>1, <1>2 DEF Sub, Kin
  <1> HIDE DEF D2, S, U
  <1>8. \A x, y \in L2 : Kin(x, y) => Kin(U(x), U(y)) /\ (Lt(U(x), U(y)) <=> Lt(x, y))
    <2>1. ASSUME NEW x \in L2, NEW y \in L2, Kin(x, y), x # b
          PROVE  (Lt(x, U(y)) <=> Lt(x, y)) /\ (Lt(U(y), x) <=> Lt(y, x))
      <3>1. CASE y # b
        BY <3>1 DEF U, Sub
      <3>2. CASE y = b
        <4>1. x \in L /\ x # a /\ Kin(x, a) /\ x \in Elems
          BY <1>1, <1>2, <2>1, <3>2 DEF Kin
        <4>2. Lt(x, a) \/ Lt(b, x)
          BY <1>2, <4>1
        <4>3. Key[x].lo \in Int /\ Key[a].lo \in Int /\ Key[b].lo \in Int
          BY <1>2, <4>1, TreesAssumption DEF Addresses
        <4>4. U(y) = a /\ Lt(a, b)
          BY <1>2, <3>2 DEF U, Sub
        <4>5. QED
          BY <3>2, <4>2, <4>3, <4>4 DEF Lt
      <3>3. QED
        BY <3>1, <3>2
    <2>2. ASSUME NEW x \in L2, NEW y \in L2, Kin(x, y)
          PROVE  Lt(U(x), U(y)) <=> Lt(x, y)
      <3>1. CASE x # b
        <4>1. U(x) = x
          BY <3>1 DEF U, Sub
        <4>2. QED
          BY <2>1, <2>2, <3>1, <4>1
      <3>2. CASE y # b
        <4>1. U(y) = y /\ Kin(y, x)
          BY <2>2, <3>2 DEF U, Sub, Kin
        <4>2. QED
          BY <2>1, <2>2, <3>2, <4>1
      <3>3. CASE x = b /\ y = b
        <4>1. Key[a].lo \in Int /\ Key[b].lo \in Int
          BY <1>2, TreesAssumption DEF Addresses
        <4>2. QED
          BY <1>2, <3>3, <4>1 DEF U, Sub, Lt
      <3>4. QED
        BY <3>1, <3>2, <3>3
    <2>3. QED
      BY <1>7, <2>2 DEF Kin
  <1>9. ASSUME NEW x \in L2, NEW d \in Dirs
        PROVE  /\ ch2[x][d] \in Node /\ U(ch2[x][d]) = ch[U(x)][d]
               /\ \A m \in L2 : m \in D2[ch2[x][d]] <=> U(m) \in D[ch[U(x)][d]]
    <2>1. ch2[x][d] = S(ch[U(x)][d]) /\ U(x) \in L
      BY <1>3, <1>7 DEF Renamed, S
    <2>2. ch[U(x)][d] \in L \cup {Nil}
      BY <1>5, <2>1 DEF Tied
    <2>3. U(ch2[x][d]) = ch[U(x)][d] /\ ch2[x][d] \in Node
      BY <1>7, <2>1, <2>2
    <2>4. QED
      BY <1>6, <2>3
  <1>10. Counted(ch2, ro2, L2, D2)
    <2>1. D2[Nil] = {}
      BY <1>1, <1>6, <1>7
    <2>2. ASSUME NEW x \in L2, NEW m \in D2[x]
          PROVE  Kin(m, x)
      <3>1. m \in L2 /\ x \in Node
        BY <1>6, <1>7
      <3>2. U(m) \in D[U(x)] /\ U(x) \in L
        BY <1>6, <1>7, <3>1
      <3>3. Kin(U(m), U(x))
        BY <1>5, <3>2 DEF Counted
      <3>4. QED
        BY <1>7, <3>1, <3>3 DEF Kin
    <2>3. ASSUME NEW x \in L2, NEW m \in L2
          PROVE  m \in D2[x] <=> m = x \/ \E d \in Dirs : m \in D2[ch2[x][d]]
      <3>1. m \in D2[x] <=> U(m) \in D[U(x)]
        BY <1>6, <1>7
      <3>2. U(m) \in D[U(x)] <=> U(m) = U(x) \/ \E d \in Dirs : U(m) \in D[ch[U(x)][d]]
        BY <1>5, <1>7 DEF Counted
      <3>3. U(m) = U(x) <=> m = x
        BY <1>7
      <3>4. QED
        BY <1>9, <3>1, <3>2, <3>3
    <2>4. ASSUME NEW m \in L2
          PROVE  m \in D2[ro2[TreeOf[m]]]
      <3>1. TreeOf[m] \in Trees /\ U(m) \in L /\ TreeOf[U(m)] = TreeOf[m]
        BY <1>1, <1>7
      <3>2. U(m) \in D[ro[TreeOf[m]]]
        BY <1>5, <3>1 DEF Counted
      <3>3. ro[TreeOf[m]] \in L \cup {Nil}
        BY <1>5, <3>1 DEF Tied
      <3>4. ro2[TreeOf[m]] = S(ro[TreeOf[m]])
        BY <1>3, <3>1 DEF Renamed, S
      <3>5. ro2[TreeOf[m]] \in Node /\ U(ro2[TreeOf[m]]) = ro[TreeOf[m]]
        BY <1>7, <3>3, <3>4
      <3>6. QED
        BY <1>6, <3>2, <3>5
    <2>5. QED
      BY <2>1, <2>2, <2>3, <2>4 DEF Counted
  <1>11. Sorted(ch2, L2, D2)
    <2>1. ASSUME NEW x \in L2, NEW y \in L2, Kin(x, y), x # y
          PROVE  Lt(x, y) \/ Lt(y, x)
      <3>1. Kin(y, x) /\ U(x) \in L /\ U(y) \in L /\ Kin(U(x), U(y)) /\ U(x) # U(y)
        BY <1>7, <1>8, <2>1 DEF Kin
      <3>2. Lt(U(x), U(y)) \/ Lt(U(y), U(x))
        BY <1>5, <3>1 DEF Sorted
      <3>3. QED
        BY <1>8, <2>1, <3>1, <3>2
    <2>2. ASSUME NEW x \in L2, NEW d \in Dirs, NEW m \in D2[ch2[x][d]]
          PROVE  Beyond(d, m, x)
      <3>1. m \in L2
        BY <1>6, <1>9
      <3>2. U(m) \in D[ch[U(x)][d]] /\ U(x) \in L
        BY <1>7, <1>9, <2>2, <3>1
      <3>3. Beyond(d, U(m), U(x))
        BY <1>5, <3>2 DEF Sorted
      <3>4. Kin(m, x) /\ Kin(x, m)
        <4>1. m \in D2[x]
          BY <1>10, <2>2, <3>1 DEF Counted
        <4>2. QED
          BY <1>10, <4>1 DEF Counted, Kin
      <3>5. QED
        BY <1>8, <3>1, <3>3, <3>4 DEF Beyond, Lt
    <2>3. ASSUME NEW x \in L2, NEW m \in D2[x], NEW k \in D2[x], NEW y \in L2,
                 Kin(y, x), Lt(m, y), Lt(y, k)
          PROVE  y \in D2[x]
      <3>1. m \in L2 /\ k \in L2 /\ x \in Node
        BY <1>6, <1>7
      <3>2. U(m) \in D[U(x)] /\ U(k) \in D[U(x)] /\ U(x) \in L /\ U(y) \in L
        BY <1>6, <1>7, <3>1
      <3>3. Kin(m, y) /\ Kin(y, k) /\ Kin(U(y), U(x))
        <4>1. Kin(m, x) /\ Kin(k, x)
          BY <1>10, <2>3 DEF Counted
        <4>2. QED
          BY <1>8, <2>3, <4>1 DEF Kin
      <3>4. Lt(U(m), U(y)) /\ Lt(U(y), U(k))
        BY <1>8, <2>3, <3>1, <3>3
      <3>5. U(y) \in D[U(x)]
        BY <1>5, <3>2, <3>3, <3>4 DEF Sorted
      <3>6. QED
        BY <1>6, <3>1, <3>5
    <2>4. QED
      BY <2>1, <2>2, <2>3 DEF Sorted
  <1>12. Typed(ch2, pa2, ro2, L2, D2)
    BY <1>3, <1>6, <1>7 DEF Typed, Renamed
  <1>13. QED
    BY <1>4, <1>6, <1>10, <1>11, <1>12 DEF Shape, Shaped

\* The successor b of a, taken out of the trees, is beside it.
LEMMA BesideNext ==
  ASSUME NEW ch, NEW pa, NEW ro, NEW L, NEW D, Shape(ch, pa, ro, L, D),
         NEW a \in L, NEW b \in L, Kin(a, b), b # a => NextTo(L, b, a, "right")
  PROVE  Beside(L \ {b}, a, b)
  <1>1. L \subseteq Elems /\ b # Nil
    BY Nodes
  <1>2. ASSUME b # a
        PROVE  Lt(a, b) /\ \A k \in L \ {b} : Kin(k, a) /\ k # a => Lt(k, a) \/ Lt(b, k)
    <2>1. Beyond("right", b, a)
          /\ \A k \in L : Kin(k, a) /\ Beyond("right", k, a) => k = b \/ Beyond("right", k, b)
      BY <1>1, <1>2 DEF NextTo
    <2>2. \A k \in L : Kin(k, a) /\ k # a => Lt(k, a) \/ Lt(a, k)
      BY DEF Shape, Sorted
    <2>3. QED
      BY <2>1, <2>2 DEF Beyond, Lt
  <1>3. QED
    BY <1>1, <1>2 DEF Beside

(***************************************************************************)
(* Neighbours and lookups                                                  *)
(***************************************************************************)

\* The child c of n on side d: what is beyond n is under c or beyond it.
LEMMA BelowOrBeyond ==
  ASSUME NEW ch, NEW pa, NEW ro, NEW L, NEW D, Shape(ch, pa, ro, L, D),
         NEW n \in L, NEW d \in Dirs, NEW c, c = ch[n][d], c # Nil
  PROVE  /\ \A k \in D[c] : Beyond(d, k, n)
         /\ \A k \in L : Kin(k, n) /\ Beyond(d, k, n) => k \in D[c] \/ Beyond(d, k, c)
  <1>1. L \subseteq Elems /\ D \in [Node -> SUBSET L] /\ n \in D[n] /\ Sorted(ch, L, D)
    BY Nodes DEF Shape
  <1>2. c \in L /\ Kin(c, n) /\ c \in D[c] /\ c \in D[n] /\ Other(d) \in Dirs
    BY Child, Directions
  <1>3. \A k \in D[c] : Beyond(d, k, n)
    BY DEF Shape, Sorted
  <1>4. ASSUME NEW k \in L, Kin(k, n), Beyond(d, k, n), k \notin D[c]
        PROVE  Beyond(d, k, c)
    <2>1. Kin(k, c) /\ k # c
      BY <1>2, <1>4 DEF Kin
    <2>2. Beyond(d, k, c) \/ Beyond(d, c, k)
      BY <1>1, <1>2, <2>1, SortedBeyond
    <2>3. ASSUME Beyond(d, c, k)
          PROVE  FALSE
      <3>1. k \in D[n]
        BY <1>1, <1>2, <1>4, <2>3, SortedBeyond
      <3>2. k # n
        BY <1>1, <1>4, OrderOfKeys
      <3>3. PICK s \in Dirs : k \in D[ch[n][s]]
        BY <3>1, <3>2 DEF Shape, Counted
      <3>4. s = Other(d)
        BY <1>4, <3>3, Directions
      <3>5. Beyond(Other(d), k, n)
        BY <3>3, <3>4 DEF Shape, Sorted
      <3>6. QED
        BY <1>1, <1>4, <3>5, OrderOfKeys
    <2>4. QED
      BY <2>2, <2>3
  <1>5. QED
    BY <1>3, <1>4

\* Without a child there nothing under n is beyond it.
LEMMA NoneBeyond ==
  ASSUME NEW ch, NEW pa, NEW ro, NEW L, NEW D, Shape(ch, pa, ro, L, D),
         NEW n \in L, NEW d \in Dirs, ch[n][d] = Nil
  PROVE  \A k \in D[n] : k = n \/ Beyond(Other(d), k, n)
  <1>1. L \subseteq Elems /\ D[Nil] = {} /\ \A k \in D[n] : k \in L
    BY Nodes
  <1>2. ASSUME NEW k \in D[n], k # n
        PROVE  Beyond(Other(d), k, n)
    <2>1. PICK s \in Dirs : k \in D[ch[n][s]]
      BY <1>1, <1>2 DEF Shape, Counted
    <2>2. s = Other(d)
      BY <1>1, <2>1, Directions
    <2>3. QED
      BY <2>1, <2>2 DEF Shape, Sorted
  <1>3. QED
    BY <1>2

\* Extreme: one step down on the near side.
LEMMA NearerBelow ==
  ASSUME NEW ch, NEW pa, NEW ro, NEW L, NEW D, Shape(ch, pa, ro, L, D),
         NEW n \in L, NEW d \in Dirs, NEW c, c = ch[n][Other(d)], c # Nil
  PROVE  \A k \in L : k \in D[n] \/ Beyond(d, k, n) => k \in D[c] \/ Beyond(d, k, c)
  <1>1. L \subseteq Elems /\ Other(d) \in Dirs /\ \A k \in D[n] : k \in L
    BY Nodes, Directions
  <1>2. c \in L /\ Beyond(Other(d), c, n)
    BY <1>1, Child
  <1>3. Beyond(d, n, c)
    BY <1>1, <1>2, OrderOfKeys
  <1>4. ASSUME NEW k \in L, Beyond(d, k, n)
        PROVE  Beyond(d, k, c)
    BY <1>1, <1>2, <1>3, <1>4, OrderOfKeys
  <1>5. ASSUME NEW k \in D[n], k \notin D[c]
        PROVE  Beyond(d, k, c)
    <2>1. CASE k = n
      BY <1>3, <2>1
    <2>2. CASE k # n
      <3>1. PICK s \in Dirs : k \in D[ch[n][s]]
        BY <1>1, <2>2 DEF Shape, Counted
      <3>2. s = d
        BY <1>5, <3>1, Directions
      <3>3. Beyond(d, k, n)
        BY <3>1, <3>2 DEF Shape, Sorted
      <3>4. QED
        BY <1>1, <1>4, <3>3
    <2>3. QED
      BY <2>1, <2>2
  <1>6. QED
    BY <1>4, <1>5

\* Extreme, at its end: n is the next one.
LEMMA NearestBelow ==
  ASSUME NEW ch, NEW pa, NEW ro, NEW L, NEW D, Shape(ch, pa, ro, L, D),
         NEW n \in L, NEW d \in Dirs, ch[n][Other(d)] = Nil, NEW m \in L, Kin(n, m),
         \A k \in D[n] : Beyond(d, k, m),
         \A k \in L : Kin(k, m) /\ Beyond(d, k, m) => k \in D[n] \/ Beyond(d, k, n)
  PROVE  NextTo(L, n, m, d)
  <1>1. n \in D[n] /\ n # Nil /\ Other(d) \in Dirs /\ Other(Other(d)) = d
    BY Nodes, Directions
  <1>2. \A k \in D[n] : k = n \/ Beyond(d, k, n)
    BY <1>1, NoneBeyond
  <1>3. In(L, n, TreeOf[m]) /\ Beyond(d, n, m)
    BY <1>1 DEF In, Kin
  <1>4. QED
    BY <1>1, <1>2, <1>3 DEF NextTo

\* Climb: from the child on side d.
LEMMA Climbed ==
  ASSUME NEW ch, NEW pa, NEW ro, NEW L, NEW D, Shape(ch, pa, ro, L, D),
         NEW p \in L, NEW d \in Dirs, NEW n, n = ch[p][d], n # Nil,
         NEW m \in D[n], \A k \in D[n] : ~Beyond(d, k, m)
  PROVE  m \in D[p] /\ \A k \in D[p] : ~Beyond(d, k, m)
  <1>1. L \subseteq Elems /\ Other(d) \in Dirs /\ \A k \in D[p] : k \in L
    BY Nodes, Directions
  <1>2. m \in D[p]
    BY Child
  <1>3. Beyond(d, m, p)
    BY DEF Shape, Sorted
  <1>4. ASSUME NEW k \in D[p]
        PROVE  ~Beyond(d, k, m)
    <2>1. CASE k = p
      BY <1>1, <1>2, <1>3, <2>1, OrderOfKeys
    <2>2. CASE k # p
      <3>1. PICK s \in Dirs : k \in D[ch[p][s]]
        BY <1>1, <2>2 DEF Shape, Counted
      <3>2. CASE s = d
        BY <3>1, <3>2
      <3>3. CASE s = Other(d)
        <4>1. Beyond(Other(d), k, p)
          BY <3>1, <3>3 DEF Shape, Sorted
        <4>2. Beyond(d, p, k)
          BY <1>1, <4>1, OrderOfKeys
        <4>3. Beyond(d, m, k)
          BY <1>1, <1>2, <1>3, <4>2, OrderOfKeys
        <4>4. QED
          BY <1>1, <1>2, <4>3, OrderOfKeys
      <3>4. QED
        BY <3>2, <3>3, Directions
    <2>3. QED
      BY <2>1, <2>2
  <1>5. QED
    BY <1>2, <1>4

\* Climb, at its end: from the child on the other side, or from the root.
LEMMA ClimbedOut ==
  ASSUME NEW ch, NEW pa, NEW ro, NEW L, NEW D, Shape(ch, pa, ro, L, D),
         NEW n \in L, NEW d \in Dirs, pa[n] = Nil \/ ch[pa[n]][d] # n,
         NEW m \in D[n], \A k \in D[n] : ~Beyond(d, k, m)
  PROVE  NextTo(L, pa[n], m, d)
  <1>1. /\ L \subseteq Elems /\ Other(d) \in Dirs /\ m \in L /\ Nil \notin L
        /\ D \in [Node -> SUBSET L] /\ Sorted(ch, L, D) /\ Kin(m, n)
    BY Nodes, Directions DEF Shape, Counted
  <1>2. CASE pa[n] = Nil
    <2>1. ro[TreeOf[n]] = n
      BY <1>2 DEF Shape, Tied
    <2>2. \A k \in L : Kin(k, m) => k \in D[n]
      BY <1>1, <2>1 DEF Shape, Counted, Kin
    <2>3. QED
      BY <1>2, <2>2 DEF NextTo
  <1>3. CASE pa[n] # Nil
    <2> DEFINE p == pa[n]
    <2>1. p \in L /\ ch[p][Other(d)] = n
      <3>1. p \in L /\ \E s \in Dirs : ch[p][s] = n
        BY <1>3 DEF Shape, Tied
      <3>2. QED
        BY <1>3, <3>1, Directions
    <2>2. p \in D[p] /\ n \in D[n] /\ n # Nil
      BY <1>1, <2>1, Nodes
    <2>3. Kin(n, p) /\ m \in D[p]
      BY <1>1, <2>1, <2>2, Child
    <2> HIDE DEF p
    <2>4. Kin(m, p) /\ Beyond(d, p, m)
      <3>1. Beyond(Other(d), m, p)
        BY <1>1, <2>1 DEF Shape, Sorted
      <3>2. QED
        BY <1>1, <2>1, <2>3, <3>1, OrderOfKeys DEF Kin
    <2>5. ASSUME NEW k \in L, Kin(k, m), Beyond(d, k, m), k # p
          PROVE  Beyond(d, k, p)
      <3>1. Kin(k, p)
        BY <2>4, <2>5 DEF Kin
      <3>2. Beyond(d, k, p) \/ Beyond(d, p, k)
        BY <1>1, <2>1, <2>5, <3>1, SortedBeyond
      <3>3. ASSUME Beyond(d, p, k)
            PROVE  FALSE
        <4>1. k \in D[p]
          BY <1>1, <2>1, <2>2, <2>3, <2>5, <3>1, <3>3, SortedBeyond
        <4>2. PICK s \in Dirs : k \in D[ch[p][s]]
          BY <2>1, <2>5, <4>1 DEF Shape, Counted
        <4>3. CASE s = d
          <5>1. Beyond(d, k, p)
            BY <2>1, <4>2, <4>3 DEF Shape, Sorted
          <5>2. QED
            BY <1>1, <2>1, <3>3, <5>1, OrderOfKeys
        <4>4. CASE s = Other(d)
          BY <2>1, <2>5, <4>2, <4>4
        <4>5. QED
          BY <4>3, <4>4, Directions
      <3>4. QED
        BY <3>2, <3>3
    <2>6. In(L, p, TreeOf[m]) /\ p # Nil
      BY <1>1, <2>1, <2>4 DEF In, Kin
    <2>7. NextTo(L, p, m, d)
      BY <2>4, <2>5, <2>6 DEF NextTo
    <2>8. QED
      BY <2>7 DEF p
  <1>4. QED
    BY <1>2, <1>3

\* Blocks that hold an address end at the same one.
LEMMA Holding ==
  ASSUME NEW n \in Elems, NEW x \in Int
  PROVE  /\ Less(Key[n], Point(x)) => \A k \in Elems : Kin(k, n) /\ Holds(k, x)
                                        => k # n /\ ~Beyond("left", k, n)
         /\ Less(Point(x), Key[n]) => \A k \in Elems : Holds(k, x)
                                        => k # n /\ ~Beyond("right", k, n)
         /\ ~Less(Key[n], Point(x)) /\ ~Less(Point(x), Key[n]) => Holds(n, x)
  <1>1. \A k \in Elems : Key[k].lo \in Int /\ Key[k].hi \in Int /\ Key[k].lo <= Key[k].hi
    BY TreesAssumption DEF Addresses
  <1>2. ASSUME NEW k \in Elems, Kin(k, n), Holds(k, x), Less(Key[n], Point(x))
        PROVE  k # n /\ ~Beyond("left", k, n)
    <2>1. Key[n].hi < x /\ Key[k].lo <= x /\ x <= Key[k].hi
      BY <1>2 DEF Holds, Less, Point
    <2>2. ASSUME Key[k].lo < Key[n].lo
          PROVE  FALSE
      <3>1. Key[k].lo <= Key[n].lo /\ Key[n].lo <= Key[k].hi
        BY <1>1, <2>1, <2>2
      <3>2. TreeOf[n] = TreeOf[k]
        BY <1>2 DEF Kin
      <3>3. Key[n].hi = Key[k].hi
        BY <3>1, <3>2, TreesAssumption
      <3>4. QED
        BY <1>1, <2>1, <3>3
    <2>3. k # n
      BY <1>1, <2>1
    <2>4. QED
      BY <2>2, <2>3 DEF Beyond
  <1>3. ASSUME NEW k \in Elems, Holds(k, x), Less(Point(x), Key[n])
        PROVE  k # n /\ ~Beyond("right", k, n)
    BY <1>1, <1>3 DEF Holds, Less, Point, Beyond
  <1>4. ~Less(Key[n], Point(x)) /\ ~Less(Point(x), Key[n]) => Holds(n, x)
    BY <1>1 DEF Holds, Less, Point
  <1>5. QED
    BY <1>2, <1>3, <1>4

(***************************************************************************)
(* Colors and heights                                                      *)
(***************************************************************************)

SideIn(ch, pa, n) == IF n = ch[pa[n]]["left"] THEN "left" ELSE "right"

LEMMA SideRight ==
  ASSUME NEW ch, NEW pa, NEW ro, NEW L, NEW D, Shape(ch, pa, ro, L, D)
  PROVE  /\ \A n : SideIn(ch, pa, n) \in Dirs
         /\ \A n \in L : pa[n] # Nil => pa[n] \in L /\ ch[pa[n]][SideIn(ch, pa, n)] = n
  BY DEF SideIn, Dirs, Shape, Tied

LEMMA SideUnique ==
  ASSUME NEW ch, NEW pa, NEW n, NEW d \in Dirs,
         ch[pa[n]][d] = n, ch[pa[n]][Other(d)] # n
  PROVE  SideIn(ch, pa, n) = d
  BY DEF SideIn, Dirs, Other

\* Colors fit, and so do some weights.
Fits(ch, ro, co, L, x, y, q, r) ==
  /\ Colored(ch, ro, co, L, x, y)
  /\ \E h \in [Node -> Nat] : Weighed(ch, co, L, h, q, r)

\* Links of nodes, and between them.
LEMMA Links ==
  ASSUME NEW ch, NEW pa, NEW ro, NEW L, NEW D, Shape(ch, pa, ro, L, D)
  PROVE  /\ \A n \in L : \A d \in Dirs : ch[n][d] = Nil \/ (ch[n][d] \in L /\ pa[ch[n][d]] = n)
         /\ \A n \in L : pa[n] = Nil \/ pa[n] \in L
         /\ \A n \in L : \A d, e \in Dirs : ch[n][d] = ch[n][e] => ch[n][d] = Nil \/ d = e
         /\ \A n \in L : \A d \in Dirs : ch[n][d] # n /\ (ch[n][d] # Nil => ch[n][d] # pa[n])
         /\ \A n \in L : ro[TreeOf[n]] \in L /\ TreeOf[n] \in Trees
         /\ \A t \in Trees : ro[t] = Nil \/ (ro[t] \in L /\ pa[ro[t]] = Nil /\ TreeOf[ro[t]] = t)
  <1>1. /\ \A n \in L : \A d \in Dirs : ch[n][d] = Nil \/ (ch[n][d] \in L /\ pa[ch[n][d]] = n)
        /\ \A n \in L : pa[n] = Nil \/ pa[n] \in L
        /\ \A t \in Trees : ro[t] = Nil \/ (ro[t] \in L /\ pa[ro[t]] = Nil /\ TreeOf[ro[t]] = t)
    BY DEF Shape, Tied
  <1>2. ASSUME NEW n \in L, NEW d \in Dirs, NEW e \in Dirs, ch[n][d] = ch[n][e], ch[n][d] # Nil
        PROVE  d = e
    BY <1>2, Child, Directions
  <1>3. ASSUME NEW n \in L, NEW d \in Dirs
        PROVE  ch[n][d] # n /\ (ch[n][d] # Nil => ch[n][d] # pa[n])
    <2>1. ch[n][d] # n
      BY Child, Nodes
    <2>2. ASSUME ch[n][d] # Nil, ch[n][d] = pa[n]
          PROVE  FALSE
      <3>1. pa[n] # Nil /\ pa[n] \in L /\ \E e \in Dirs : ch[pa[n]][e] = n
        BY <2>2 DEF Shape, Tied
      <3>2. PICK e \in Dirs : ch[pa[n]][e] = n
        BY <3>1
      <3>3. pa[n] \notin D[n]
        BY <3>1, <3>2, Child, Nodes
      <3>4. QED
        BY <2>2, <3>3, Child
    <2>3. QED
      BY <2>1, <2>2
  <1>4. ASSUME NEW n \in L
        PROVE  ro[TreeOf[n]] \in L /\ TreeOf[n] \in Trees
    <2>1. n \in D[ro[TreeOf[n]]] /\ TreeOf[n] \in Trees
      BY Nodes DEF Shape, Counted
    <2>2. QED
      BY <1>1, <2>1, Nodes
  <1>5. QED
    BY <1>1, <1>2, <1>3, <1>4

\* The weights h2 of the nodes that a rotation turns, n, c and f, fit together.
Reweighed(ch, L, d, n, p, c, g, f, co, h, q, r, co2, h2, q2, r2) ==
  /\ h2 \in [Node -> Nat] /\ h2[Nil] = 0 /\ f = ch[c][Other(d)]
  /\ \A x \in L : x \notin {n, c, f} =>
       /\ h2[x] = h[x]
       /\ co2[x] = "black" <=> co[x] = "black"
       /\ \A y \in Dirs : (x = q2 /\ y = r2) <=> (x = q /\ y = r)
  /\ f # Nil => \A y \in Dirs : h2[f] = h2[ch[f][y]] + Gap(f, y, q2, r2) + Weight(co2[f])
  /\ h2[n] = h2[g] + Gap(n, Other(d), q2, r2) + Weight(co2[n])
  /\ h2[n] = h2[ch[n][d]] + Gap(n, d, q2, r2) + Weight(co2[n])
  /\ h2[c] = h2[n] + Gap(c, d, q2, r2) + Weight(co2[c])
  /\ h2[c] = h2[f] + Gap(c, Other(d), q2, r2) + Weight(co2[c])
  /\ p # Nil => h2[c] = h[n]

LEMMA TurnedWeighed ==
  ASSUME NEW ch, NEW pa, NEW ro, NEW L, NEW D, Shape(ch, pa, ro, L, D),
         NEW d, NEW n, NEW p, NEW s, NEW c, NEW g, Apart(ch, pa, L, D, d, n, p, s, c, g),
         NEW t, NEW ch2, NEW pa2, NEW ro2,
         Relinked(ch, pa, ro, d, n, p, s, t, c, g, ch2, pa2, ro2),
         NEW co, NEW co2, NEW h, NEW h2, NEW q, NEW r, NEW q2, NEW r2, NEW f,
         Weighed(ch, co, L, h, q, r),
         Reweighed(ch, L, d, n, p, c, g, f, co, h, q, r, co2, h2, q2, r2)
  PROVE  Weighed(ch2, co2, L, h2, q2, r2)
  <1>0. /\ h2 \in [Node -> Nat] /\ h2[Nil] = 0 /\ f = ch[c][Other(d)]
        /\ \A x \in L : x \notin {n, c, f} =>
             /\ h2[x] = h[x]
             /\ co2[x] = "black" <=> co[x] = "black"
             /\ \A y \in Dirs : (x = q2 /\ y = r2) <=> (x = q /\ y = r)
        /\ f # Nil => \A y \in Dirs : h2[f] = h2[ch[f][y]] + Gap(f, y, q2, r2) + Weight(co2[f])
        /\ h2[n] = h2[g] + Gap(n, Other(d), q2, r2) + Weight(co2[n])
        /\ h2[n] = h2[ch[n][d]] + Gap(n, d, q2, r2) + Weight(co2[n])
        /\ h2[c] = h2[n] + Gap(c, d, q2, r2) + Weight(co2[c])
        /\ h2[c] = h2[f] + Gap(c, Other(d), q2, r2) + Weight(co2[c])
        /\ p # Nil => h2[c] = h[n]
    BY DEF Reweighed
  <1>00. ASSUME NEW x \in L, x # n, x # c, x # f
         PROVE  h2[x] = h[x] /\ Weight(co2[x]) = Weight(co[x])
    <2>1. h2[x] = h[x] /\ (co2[x] = "black" <=> co[x] = "black")
      BY <1>00 DEF Reweighed
    <2>2. QED
      BY <2>1 DEF Weight
  <1>01. ASSUME NEW x \in L, x # n, x # c, x # f, NEW y \in Dirs
         PROVE  Gap(x, y, q2, r2) = Gap(x, y, q, r)
    <2>1. (x = q2 /\ y = r2) <=> (x = q /\ y = r)
      BY <1>01 DEF Reweighed
    <2>2. QED
      BY <2>1 DEF Gap
  <1>1. /\ n \in L /\ c \in L /\ d \in Dirs /\ Other(d) \in Dirs /\ s \in Dirs /\ Other(s) \in Dirs
        /\ L \subseteq Node /\ Nil \notin L /\ n # c /\ pa[c] = n /\ p = pa[n] /\ pa[n] # c
        /\ p # Nil => p \in L /\ p # n /\ p # c /\ ch[p][s] = n
        /\ \A x \in Dirs : (x = d \/ x = Other(d)) /\ (x = s \/ x = Other(s))
    BY Nodes, Directions DEF Apart
  <1>2. /\ ch2[n][Other(d)] = g /\ ch2[n][d] = ch[n][d]
        /\ ch2[c][d] = n /\ ch2[c][Other(d)] = f
        /\ p # Nil => ch2[p][s] = c /\ ch2[p][Other(s)] = ch[p][Other(s)]
        /\ \A x \in Node : x # n /\ x # c /\ (x # p \/ p = Nil) => ch2[x] = ch[x]
    BY <1>0 DEF Relinked
  <1>3. f # Nil => f \in L /\ pa[f] = c /\ f # c /\ f # n /\ f # p
    <2>1. ASSUME f # Nil
          PROVE  f \in L /\ pa[f] = c /\ f # c /\ f # n
      BY <1>0, <1>1, <2>1, Links
    <2>2. ASSUME f # Nil, f = p
          PROVE  FALSE
      <3>1. f \in D[c]
        <4>1. ch[c][Other(d)] # Nil
          BY <1>0, <2>2
        <4>2. ch[c][Other(d)] \in D[c]
          BY <1>1, <4>1, Child
        <4>3. QED
          BY <1>0, <4>2
      <3>2. ch[n][Other(d)] = c /\ D[c] \subseteq D[n]
        BY <1>1, Child, Nodes DEF Apart
      <3>3. p \notin D[n]
        BY <1>1, <2>2, Child, Nodes
      <3>4. QED
        BY <2>2, <3>1, <3>2, <3>3
    <2>3. QED
      BY <2>1, <2>2
  <1>4. \A x \in L : \A y \in Dirs :
          h[x] = h[ch[x][y]] + Gap(x, y, q, r) + Weight(co[x])
    BY DEF Weighed
  <1>5. h[Nil] = 0
    BY DEF Weighed
  <1>6. ASSUME NEW x \in L, NEW y \in Dirs
        PROVE  h2[x] = h2[ch2[x][y]] + Gap(x, y, q2, r2) + Weight(co2[x])
    <2>1. CASE x = n
      BY <1>0, <1>1, <1>2, <2>1
    <2>2. CASE x = c
      BY <1>0, <1>1, <1>2, <2>2
    <2>3. CASE x = f
      <3>1. ch2[f] = ch[f]
        BY <1>1, <1>2, <1>3, <2>3
      <3>2. QED
        BY <1>0, <1>1, <2>3, <3>1
    <2>4. CASE x \notin {n, c, f}
      <3>1. /\ h2[x] = h[x] /\ Weight(co2[x]) = Weight(co[x])
            /\ Gap(x, y, q2, r2) = Gap(x, y, q, r)
        BY <1>00, <1>01, <2>4
      <3>2. h2[ch2[x][y]] = h[ch[x][y]]
        <4>1. CASE p # Nil /\ x = p /\ y = s
          BY <1>0, <1>1, <1>2, <4>1
        <4>2. CASE ~(p # Nil /\ x = p /\ y = s)
          <5>1. ch2[x][y] = ch[x][y]
            BY <1>1, <1>2, <2>4, <4>2
          <5>2. ch[x][y] = Nil \/ (ch[x][y] \in L /\ pa[ch[x][y]] = x)
            BY Links
          <5>3. ch[x][y] # n
            <6>1. ASSUME ch[x][y] = n
                  PROVE  FALSE
              <7>1. x = p /\ p # Nil /\ y # s
                BY <1>1, <4>2, <5>2, <6>1
              <7>2. ch[x][y] = ch[x][s] /\ ch[x][y] # Nil
                BY <1>1, <6>1, <7>1
              <7>3. QED
                BY <1>1, <7>1, <7>2, Links
            <6>2. QED
              BY <6>1
          <5>4. ch[x][y] = Nil \/ ch[x][y] \notin {n, c, f}
            BY <1>1, <1>3, <2>4, <5>2, <5>3
          <5>5. ASSUME ch[x][y] # Nil
                PROVE  h2[ch[x][y]] = h[ch[x][y]]
            BY <1>00, <5>2, <5>4, <5>5
          <5>6. h2[Nil] = h[Nil]
            BY <1>0, <1>5
          <5>7. QED
            BY <5>1, <5>5, <5>6
        <4>3. QED
          BY <4>1, <4>2
      <3>3. QED
        BY <1>4, <3>1, <3>2
    <2>5. QED
      BY <2>1, <2>2, <2>3, <2>4
  <1>7. QED
    BY <1>0, <1>6 DEF Weighed

\* With nothing lacking.
LEMMA WeighedNone ==
  ASSUME NEW ch, NEW pa, NEW ro, NEW L, NEW D, Shape(ch, pa, ro, L, D),
         NEW co, NEW h, NEW d
  PROVE  Weighed(ch, co, L, h, Nil, d) <=>
           /\ h \in [Node -> Nat] /\ h[Nil] = 0
           /\ \A n \in L : \A s \in Dirs : h[n] = h[ch[n][s]] + Weight(co[n])
  <1>1. ASSUME NEW n \in L, NEW s \in Dirs
        PROVE  Gap(n, s, Nil, d) = 0 /\ ch[n][s] \in Node
    BY <1>1, Nodes, Links DEF Gap, Weight
  <1>2. ASSUME h \in [Node -> Nat], NEW n \in L, NEW s \in Dirs
        PROVE  h[ch[n][s]] + 0 + Weight(co[n]) = h[ch[n][s]] + Weight(co[n])
    BY <1>1, <1>2 DEF Gap, Weight
  <1>3. QED
    BY <1>1, <1>2 DEF Weighed

\* In an insertion: a red parent of a red node has a black parent itself.
LEMMA Grandparent ==
  ASSUME NEW ch, NEW pa, NEW ro, NEW L, NEW D, Shape(ch, pa, ro, L, D),
         NEW co, NEW a \in L, Colored(ch, ro, co, L, a, Nil), co[pa[a]] # "black"
  PROVE  LET p == pa[a]  g == pa[p]  s == SideIn(ch, pa, p) IN
         /\ p \in L /\ g \in L /\ co[p] = "red" /\ co[g] = "black"
         /\ p # a /\ g # p /\ g # a
         /\ s \in Dirs /\ Other(s) \in Dirs /\ Other(s) # s /\ ch[g][s] = p /\ ch[g][Other(s)] # p
  <1> DEFINE p == pa[a]
             g == pa[p]
             s == SideIn(ch, pa, p)
  <1>1. p \in L /\ L \subseteq Node /\ Nil \notin L
    BY Links, Nodes DEF Colored
  <1>2. co[p] = "red" /\ p # a
    <2>1. co[p] = "red"
      BY <1>1 DEF Colored
    <2>2. \E d \in Dirs : ch[p][d] = a
      BY <1>1 DEF Shape, Tied
    <2>3. QED
      BY <1>1, <2>1, <2>2, Links
  <1>3. g # Nil
    <2>1. ASSUME g = Nil
          PROVE  FALSE
      <3>1. ro[TreeOf[p]] = p /\ TreeOf[p] \in Trees
        BY <1>1, <2>1, Nodes DEF Shape, Tied
      <3>2. QED
        BY <1>1, <1>2, <3>1 DEF Colored
    <2>2. QED
      BY <2>1
  <1>4. g \in L /\ s \in Dirs /\ ch[g][s] = p
    BY <1>1, <1>3, SideRight
  <1>5. Other(s) \in Dirs /\ Other(s) # s /\ ch[g][Other(s)] # p /\ g # p
    BY <1>1, <1>4, Directions, Links
  <1>6. co[g] = "black"
    BY <1>1, <1>2, <1>4 DEF Colored
  <1>7. g # a
    <2>1. \E d \in Dirs : ch[p][d] = a
      BY <1>1 DEF Shape, Tied
    <2>2. QED
      BY <1>1, <2>1, Links
  <1>8. QED
    BY <1>1, <1>2, <1>4, <1>5, <1>6, <1>7

\* FixRecolor: the red moves from parent and uncle to the grandparent.
LEMMA Recolored ==
  ASSUME NEW ch, NEW pa, NEW ro, NEW L, NEW D, Shape(ch, pa, ro, L, D),
         NEW co, NEW h, NEW d, NEW a \in L,
         Weighed(ch, co, L, h, Nil, d), Colored(ch, ro, co, L, a, Nil), co[pa[a]] # "black",
         NEW u, u = ch[pa[pa[a]]][Other(SideIn(ch, pa, pa[a]))], u # Nil, co[u] # "black",
         NEW co2,
         co2 = [co EXCEPT ![pa[a]] = "black", ![u] = "black", ![pa[pa[a]]] = "red"]
  PROVE  Fits(ch, ro, co2, L, pa[pa[a]], Nil, Nil, d)
  <1> DEFINE p == pa[a]
             g == pa[p]
             s == SideIn(ch, pa, p)
             h2 == [h EXCEPT ![p] = @ + 1, ![u] = @ + 1]
  <1>1. /\ p \in L /\ g \in L /\ co[p] = "red" /\ co[g] = "black"
        /\ p # a /\ g # p /\ g # a
        /\ s \in Dirs /\ Other(s) \in Dirs /\ Other(s) # s /\ ch[g][s] = p /\ ch[g][Other(s)] # p
    BY Grandparent
  <1>2. L \subseteq Node /\ Nil \notin L /\ Nil \in Node
    BY Nodes
  <1>3. u \in L /\ pa[u] = g /\ u # p /\ u # g /\ ch[g][Other(s)] = u
    BY <1>1, Links
  <1>4. pa[p] = g /\ \A y \in Dirs : y = s \/ y = Other(s)
    BY <1>1, Directions
  <1>5. /\ h \in [Node -> Nat] /\ h[Nil] = 0 /\ co \in [Node -> {"red", "black"}] /\ co[Nil] = "black"
        /\ \A x \in L : \A y \in Dirs : h[x] = h[ch[x][y]] + Weight(co[x])
    BY <1>2, WeighedNone DEF Colored
  <1>6. co2 = [co EXCEPT ![p] = "black", ![u] = "black", ![g] = "red"]
    OBVIOUS
  <1>7. /\ h2 \in [Node -> Nat] /\ h2[p] = h[p] + 1 /\ h2[u] = h[u] + 1
        /\ \A x \in Node : x # p /\ x # u => h2[x] = h[x]
    BY <1>1, <1>2, <1>3, <1>5, SMTT(30)
  <1> HIDE DEF p, g, s, h2
  <1>8. /\ co2 \in [Node -> {"red", "black"}] /\ co2[p] = "black" /\ co2[u] = "black" /\ co2[g] = "red"
        /\ \A x \in Node : x # p /\ x # u /\ x # g => co2[x] = co[x]
    BY <1>1, <1>2, <1>3, <1>5, <1>6, SMTT(30)
  <1>9. ASSUME NEW x \in L, NEW y \in Dirs
        PROVE  h2[x] = h2[ch[x][y]] + Weight(co2[x])
    <2>1. ch[x][y] = Nil \/ (ch[x][y] \in L /\ pa[ch[x][y]] = x)
      BY Links
    <2>2. h[x] = h[ch[x][y]] + Weight(co[x]) /\ h[x] \in Nat /\ h[ch[x][y]] \in Nat
      BY <1>2, <1>5, <2>1
    <2>3. CASE x = g
      <3>1. ch[g][y] = p \/ ch[g][y] = u
        BY <1>1, <1>3, <1>4
      <3>2. h2[ch[g][y]] = h[ch[g][y]] + 1 /\ h2[g] = h[g]
        BY <1>1, <1>2, <1>3, <1>7, <3>1
      <3>3. QED
        BY <1>1, <1>8, <2>2, <2>3, <3>2 DEF Gap, Weight
    <2>4. CASE x # g
      <3>1. ch[x][y] # p /\ ch[x][y] # u
        BY <1>1, <1>2, <1>3, <1>4, <2>1, <2>4
      <3>2. h2[ch[x][y]] = h[ch[x][y]]
        BY <1>2, <1>7, <2>1, <3>1
      <3>3. CASE x = p \/ x = u
        <4>1. co[x] = "red" /\ co2[x] = "black" /\ h2[x] = h[x] + 1
          BY <1>1, <1>2, <1>3, <1>5, <1>7, <1>8, <3>3, SMTT(30)
        <4>2. QED
          BY <2>2, <3>2, <4>1 DEF Gap, Weight
      <3>4. CASE x # p /\ x # u
        <4>1. co2[x] = co[x] /\ h2[x] = h[x]
          BY <1>2, <1>7, <1>8, <2>4, <3>4
        <4>2. QED
          BY <2>2, <3>2, <4>1
      <3>5. QED
        BY <3>3, <3>4
    <2>5. QED
      BY <2>3, <2>4
  <1>10. \A e : Weighed(ch, co2, L, h2, Nil, e)
    <2>1. h2[Nil] = 0
      BY <1>1, <1>2, <1>3, <1>5, <1>7
    <2>2. ASSUME NEW e
          PROVE  Weighed(ch, co2, L, h2, Nil, e)
      <3>1. ASSUME NEW x \in L, NEW y \in Dirs
            PROVE  h2[x] = h2[ch[x][y]] + Gap(x, y, Nil, e) + Weight(co2[x])
        <4>1. Gap(x, y, Nil, e) = 0 /\ ch[x][y] \in Node
          BY <1>2, Links DEF Gap
        <4>2. h2[ch[x][y]] \in Nat /\ h2[x] = h2[ch[x][y]] + Weight(co2[x])
          BY <1>7, <1>9, <4>1
        <4>3. QED
          BY <4>1, <4>2
      <3>2. QED
        BY <1>7, <2>1, <3>1 DEF Weighed
    <2>3. QED
      BY <2>2
  <1>11. Colored(ch, ro, co2, L, g, Nil)
    <2>1. co2[Nil] = "black"
      BY <1>1, <1>2, <1>3, <1>5, <1>8
    <2>2. ASSUME NEW t \in Trees
          PROVE  co2[ro[t]] = "black" \/ ro[t] = g
      <3>1. ro[t] = Nil \/ (ro[t] \in L /\ pa[ro[t]] = Nil)
        BY Links
      <3>2. ro[t] # a
        BY <1>1, <1>2, <3>1 DEF p
      <3>3. co[ro[t]] = "black"
        BY <3>2 DEF Colored
      <3>4. QED
        BY <1>2, <1>8, <2>1, <3>1, <3>3
    <2>3. ASSUME NEW x \in L, NEW y \in Dirs
          PROVE  co2[x] = "black" \/ co2[ch[x][y]] = "black" \/ ch[x][y] = g \/ x = Nil
      <3>1. ch[x][y] = Nil \/ (ch[x][y] \in L /\ pa[ch[x][y]] = x)
        BY Links
      <3>2. co[x] = "black" \/ co[ch[x][y]] = "black" \/ ch[x][y] = a
        BY <1>2 DEF Colored
      <3>3. CASE x = g
        BY <1>1, <1>3, <1>4, <1>8, <3>3, SMTT(30)
      <3>4. CASE x # g /\ ch[x][y] # g
        <4>1. ch[x][y] = a => x = p
          BY <1>1, <1>2, <3>1 DEF p
        <4>2. co2[x] = "black" \/ co2[ch[x][y]] = "black"
          BY <1>2, <1>8, <2>1, <3>1, <3>2, <3>4, <4>1
        <4>3. QED
          BY <4>2
      <3>5. QED
        BY <3>3, <3>4
    <2>4. QED
      BY <1>8, <2>1, <2>2, <2>3 DEF Colored
  <1>12. QED
    BY <1>7, <1>10, <1>11 DEF p, g, Fits

\* The colors co2 of the nodes that a rotation turns fit together.
Repainted(ch, L, d, n, p, s, c, g, f, ro2, co2, x, y) ==
  /\ co2 \in [Node -> {"red", "black"}] /\ co2[Nil] = "black" /\ f = ch[c][Other(d)]
  /\ \A u \in Trees : co2[ro2[u]] = "black" \/ ro2[u] = x
  /\ \A m \in L \ {n, c} : \A r \in Dirs : ~(m = p /\ r = s) =>
       co2[m] = "black" \/ co2[ch[m][r]] = "black" \/ ch[m][r] = x \/ m = y
  /\ p # Nil => co2[p] = "black" \/ co2[c] = "black" \/ c = x \/ p = y
  /\ co2[n] = "black" \/ n = y \/ ((co2[g] = "black" \/ g = x)
                                   /\ (co2[ch[n][d]] = "black" \/ ch[n][d] = x))
  /\ co2[c] = "black" \/ c = y \/ ((co2[n] = "black" \/ n = x) /\ (co2[f] = "black" \/ f = x))

LEMMA TurnedColored ==
  ASSUME NEW ch, NEW pa, NEW ro, NEW L, NEW D, Shape(ch, pa, ro, L, D),
         NEW d, NEW n, NEW p, NEW s, NEW c, NEW g, Apart(ch, pa, L, D, d, n, p, s, c, g),
         NEW t, NEW ch2, NEW pa2, NEW ro2,
         Relinked(ch, pa, ro, d, n, p, s, t, c, g, ch2, pa2, ro2),
         NEW co2, NEW x, NEW y, NEW f, Repainted(ch, L, d, n, p, s, c, g, f, ro2, co2, x, y)
  PROVE  Colored(ch2, ro2, co2, L, x, y)
  <1>1. /\ n \in L /\ c \in L /\ d \in Dirs /\ Other(d) \in Dirs /\ s \in Dirs /\ Other(s) \in Dirs
        /\ L \subseteq Node /\ Nil \notin L /\ n # c
        /\ \A r \in Dirs : (r = d \/ r = Other(d)) /\ (r = s \/ r = Other(s))
    BY Nodes, Directions DEF Apart
  <1>2. /\ ch2[n][Other(d)] = g /\ ch2[n][d] = ch[n][d]
        /\ ch2[c][d] = n /\ ch2[c][Other(d)] = f
        /\ p # Nil => ch2[p][s] = c /\ ch2[p][Other(s)] = ch[p][Other(s)]
        /\ \A m \in Node : m # n /\ m # c /\ (m # p \/ p = Nil) => ch2[m] = ch[m]
    BY DEF Relinked, Repainted
  <1>3. ASSUME NEW m \in L, NEW r \in Dirs
        PROVE  co2[m] = "black" \/ co2[ch2[m][r]] = "black" \/ ch2[m][r] = x \/ m = y
    <2>1. CASE m = n
      BY <1>1, <1>2, <2>1 DEF Repainted
    <2>2. CASE m = c
      BY <1>1, <1>2, <2>2 DEF Repainted
    <2>3. CASE m = p /\ r = s
      BY <1>1, <1>2, <2>3 DEF Repainted
    <2>4. CASE m \notin {n, c} /\ ~(m = p /\ r = s)
      <3>1. ch2[m][r] = ch[m][r]
        BY <1>1, <1>2, <2>4
      <3>2. QED
        BY <2>4, <3>1 DEF Repainted
    <2>5. QED
      BY <2>1, <2>2, <2>3, <2>4
  <1>4. QED
    BY <1>3 DEF Colored, Repainted

\* Roots of a rotated tree: another one only when the root goes down.
Rooted(pa, ro, L, n, p, c, ro2) ==
  \A u \in Trees :
    \/ /\ ro2[u] = ro[u] /\ ro[u] # n /\ ro[u] # c
       /\ ro[u] = Nil \/ (ro[u] \in L /\ pa[ro[u]] = Nil)
    \/ ro2[u] = c /\ p = Nil /\ ro[u] = n

LEMMA TurnedRoots ==
  ASSUME NEW ch, NEW pa, NEW ro, NEW L, NEW D, Shape(ch, pa, ro, L, D),
         NEW d, NEW n, NEW p, NEW s, NEW c, NEW g, Apart(ch, pa, L, D, d, n, p, s, c, g),
         NEW t, NEW ch2, NEW pa2, NEW ro2, t = TreeOf[n],
         Relinked(ch, pa, ro, d, n, p, s, t, c, g, ch2, pa2, ro2)
  PROVE  Rooted(pa, ro, L, n, p, c, ro2)
  <1> SUFFICES ASSUME NEW u \in Trees
               PROVE  \/ /\ ro2[u] = ro[u] /\ ro[u] # n /\ ro[u] # c
                         /\ ro[u] = Nil \/ (ro[u] \in L /\ pa[ro[u]] = Nil)
                      \/ ro2[u] = c /\ p = Nil /\ ro[u] = n /\ u = t
    BY DEF Rooted
  <1>1. n \in L /\ c \in L /\ p = pa[n] /\ pa[c] = n /\ Nil \notin L
    BY Nodes DEF Apart
  <1>2. ro[u] = Nil \/ (ro[u] \in L /\ pa[ro[u]] = Nil /\ TreeOf[ro[u]] = u)
    BY Links
  <1>3. p = Nil => ro[t] = n
    BY <1>1 DEF Shape, Tied
  <1>4. CASE p = Nil /\ u = t
    BY <1>3, <1>4 DEF Relinked
  <1>5. CASE ~(p = Nil /\ u = t)
    <2>1. ro2[u] = ro[u]
      BY <1>5 DEF Relinked
    <2>2. ro[u] # n /\ ro[u] # c
      BY <1>1, <1>2, <1>5
    <2>3. QED
      BY <1>2, <2>1, <2>2
  <1>6. QED
    BY <1>4, <1>5

\* FixInner: nothing changes its color or its height.
LEMMA InnerFits ==
  ASSUME NEW ch, NEW pa, NEW ro, NEW L, NEW D, Shape(ch, pa, ro, L, D),
         NEW co, NEW h, NEW e, NEW a \in L,
         Weighed(ch, co, L, h, Nil, e), Colored(ch, ro, co, L, a, Nil), co[pa[a]] # "black",
         NEW d \in Dirs, ch[pa[a]][Other(d)] = a,
         NEW s, NEW ch2, NEW pa2, NEW ro2, NEW g,
         Apart(ch, pa, L, D, d, pa[a], pa[pa[a]], s, a, g),
         Relinked(ch, pa, ro, d, pa[a], pa[pa[a]], s, TreeOf[pa[a]], a, g, ch2, pa2, ro2),
         co[a] # "black"
  PROVE  Weighed(ch2, co, L, h, Nil, e) /\ Colored(ch2, ro2, co, L, pa[a], Nil)
  <1> DEFINE n == pa[a]
             p == pa[n]
             f == ch[a][Other(d)]
  <1>1. n \in L /\ p \in L /\ co[n] = "red" /\ co[p] = "black" /\ n # a /\ p # n /\ p # a
    BY Grandparent
  <1>2. L \subseteq Node /\ Nil \notin L /\ Nil \in Node /\ Other(d) \in Dirs
    BY Nodes, Directions
  <1>3. g = ch[a][d] /\ (p # Nil => ch[p][s] = n)
    BY DEF Apart
  <1>4. /\ h \in [Node -> Nat] /\ h[Nil] = 0 /\ co \in [Node -> {"red", "black"}] /\ co[Nil] = "black"
        /\ \A x \in L : \A y \in Dirs : h[x] = h[ch[x][y]] + Weight(co[x])
    BY <1>2, WeighedNone DEF Colored
  <1>5. \A x \in L : \A y \in Dirs : ch[x][y] \in Node
    BY <1>2, Links
  <1>6. \A x \in L : \A y \in Dirs : Gap(x, y, Nil, e) = 0
    BY <1>2 DEF Gap
  <1>7. Weighed(ch2, co, L, h, Nil, e)
    <2>1. h[n] = h[a] /\ h[a] = h[g] /\ h[a] = h[f] /\ h[n] = h[ch[n][d]]
      <3>1. h[n] \in Nat /\ h[a] \in Nat /\ h[g] \in Nat /\ h[f] \in Nat /\ h[ch[n][d]] \in Nat
        BY <1>1, <1>2, <1>3, <1>4, <1>5
      <3>2. Weight(co[n]) = 0 /\ Weight(co[a]) = 0
        BY <1>1 DEF Weight
      <3>3. QED
        BY <1>1, <1>2, <1>3, <1>4, <3>1, <3>2
    <2>2. Weight(co[n]) = 0 /\ Weight(co[a]) = 0
      BY <1>1 DEF Weight
    <2>3. /\ Gap(n, d, Nil, e) = 0 /\ Gap(n, Other(d), Nil, e) = 0
          /\ Gap(a, d, Nil, e) = 0 /\ Gap(a, Other(d), Nil, e) = 0
      BY <1>1, <1>2, <1>6
    <2>4. f # Nil => f \in L
      BY <1>2, Links
    <2>5. f # Nil => \A y \in Dirs : h[f] = h[ch[f][y]] + Gap(f, y, Nil, e) + Weight(co[f])
      BY <2>4 DEF Weighed
    <2>6. h[n] \in Nat /\ h[a] \in Nat
      BY <1>1, <1>2, <1>4
    <2>7. /\ h[n] = h[g] + Gap(n, Other(d), Nil, e) + Weight(co[n])
          /\ h[n] = h[ch[n][d]] + Gap(n, d, Nil, e) + Weight(co[n])
          /\ h[a] = h[n] + Gap(a, d, Nil, e) + Weight(co[a])
          /\ h[a] = h[f] + Gap(a, Other(d), Nil, e) + Weight(co[a])
      BY <2>1, <2>2, <2>3, <2>6
    <2>8. Reweighed(ch, L, d, n, p, a, g, f, co, h, Nil, e, co, h, Nil, e)
      BY <1>4, <2>1, <2>5, <2>7 DEF Reweighed
    <2>9. QED
      BY <2>8, TurnedWeighed
  <1>8. Colored(ch2, ro2, co, L, n, Nil)
    <2>1. \A u \in Trees : co[ro2[u]] = "black" \/ ro2[u] = n
      <3>1. ASSUME NEW u \in Trees
            PROVE  co[ro2[u]] = "black"
        <4>1. ro2[u] = ro[u] /\ ro[u] # a
          <5>1. p # Nil
            BY <1>1, <1>2
          <5>2. Rooted(pa, ro, L, n, p, a, ro2)
            BY TurnedRoots
          <5>3. QED
            BY <5>1, <5>2 DEF Rooted
        <4>2. QED
          BY <4>1 DEF Colored
      <3>2. QED
        BY <3>1
    <2>2. ASSUME NEW x \in L, NEW y \in Dirs, ch[x][y] = a
          PROVE  x = n
      BY <1>2, <2>2, Links
    <2>3. \A x \in L : \A y \in Dirs : co[x] = "black" \/ co[ch[x][y]] = "black" \/ ch[x][y] = a
      BY <1>2 DEF Colored
    <2>4. ch[n][d] # a /\ g # a /\ f # a
      BY <1>1, <1>2, <1>3, Links, Directions
    <2>5. co[g] = "black" /\ co[f] = "black" /\ co[ch[n][d]] = "black"
      BY <1>1, <1>2, <1>3, <2>3, <2>4
    <2>6. \A x \in L \ {n, a} : \A y \in Dirs : co[x] = "black" \/ co[ch[x][y]] = "black"
      BY <2>2, <2>3
    <2>7. Repainted(ch, L, d, n, p, s, a, g, f, ro2, co, n, Nil)
      BY <1>1, <1>4, <2>1, <2>5, <2>6 DEF Repainted
    <2>8. QED
      BY <2>7, TurnedColored
  <1>9. QED
    BY <1>7, <1>8

\* Nodes outside the pair that a rotation turns are not children of it, but for
\* one place.
LEMMA Outside ==
  ASSUME NEW ch, NEW pa, NEW ro, NEW L, NEW D, Shape(ch, pa, ro, L, D),
         NEW d, NEW n, NEW p, NEW s, NEW c, NEW g, Apart(ch, pa, L, D, d, n, p, s, c, g)
  PROVE  /\ \A m \in L \ {n, c} : \A r \in Dirs :
              ~(m = p /\ r = s) => ch[m][r] # n /\ ch[m][r] # c
         /\ g # n /\ g # c /\ ch[n][d] # n /\ ch[n][d] # c
         /\ ch[c][Other(d)] # n /\ ch[c][Other(d)] # c
         /\ n \in L /\ c \in L /\ n # c /\ n \in Node /\ c \in Node /\ n # Nil /\ c # Nil
         /\ g \in Node /\ ch[n][d] \in Node /\ ch[c][Other(d)] \in Node
         /\ g = ch[c][d] /\ c = ch[n][Other(d)] /\ d \in Dirs /\ Other(d) \in Dirs
         /\ p # Nil => p \in L /\ p # n /\ p # c /\ ch[p][s] = n /\ s \in Dirs
  <1>1. /\ n \in L /\ c \in L /\ pa[c] = n /\ p = pa[n] /\ d \in Dirs /\ s \in Dirs /\ n # c
        /\ p # Nil => p \in L /\ p # n /\ p # c /\ ch[p][s] = n
        /\ c = ch[n][Other(d)] /\ g = ch[c][d]
    BY DEF Apart
  <1>2. Other(d) \in Dirs /\ Other(d) # d /\ L \subseteq Node /\ Nil \notin L /\ Nil \in Node
    BY <1>1, Directions, Nodes
  <1>3. ASSUME NEW m \in L \ {n, c}, NEW r \in Dirs, ~(m = p /\ r = s)
        PROVE  ch[m][r] # n /\ ch[m][r] # c
    <2>1. ch[m][r] = Nil \/ (ch[m][r] \in L /\ pa[ch[m][r]] = m)
      BY Links
    <2>2. ch[m][r] # c
      BY <1>1, <1>2, <2>1
    <2>3. ASSUME ch[m][r] = n
          PROVE  FALSE
      <3>1. m = p /\ p # Nil /\ ch[m][s] = n
        BY <1>1, <1>2, <2>1, <2>3
      <3>2. r = s
        BY <1>1, <1>2, <2>3, <3>1, Links
      <3>3. QED
        BY <1>3, <3>1, <3>2
    <2>4. QED
      BY <2>2, <2>3
  <1>4. g # c /\ ch[n][d] # n /\ ch[c][Other(d)] # c
    BY <1>1, <1>2, Links
  <1>5. g # n /\ ch[c][Other(d)] # n
    BY <1>1, <1>2, Links
  <1>6. ch[n][d] # c
    BY <1>1, <1>2, Links
  <1>7. g \in Node /\ ch[n][d] \in Node /\ ch[c][Other(d)] \in Node
    BY <1>1, <1>2, Links
  <1>8. QED
    BY <1>1, <1>2, <1>3, <1>4, <1>5, <1>6, <1>7

\* FixOuter, MendRed, MendNear: a red node and its black parent exchange colors
\* and heights, and go up and down.
LEMMA SwapFits ==
  ASSUME NEW ch, NEW pa, NEW ro, NEW L, NEW D, Shape(ch, pa, ro, L, D),
         NEW co, NEW h, NEW q, NEW r, Weighed(ch, co, L, h, q, r),
         NEW x, NEW y, Colored(ch, ro, co, L, x, y),
         NEW d, NEW n, NEW p, NEW s, NEW c, NEW g, Apart(ch, pa, L, D, d, n, p, s, c, g),
         q # c, ch[c][Other(d)] = Nil \/ q # ch[c][Other(d)], q = n => r = d,
         co[n] = "black", co[c] # "black", co[g] = "black", co[ch[n][d]] = "black",
         NEW ch2, NEW pa2, NEW ro2,
         Relinked(ch, pa, ro, d, n, p, s, TreeOf[n], c, g, ch2, pa2, ro2),
         NEW co2, co2 = [co EXCEPT ![c] = "black", ![n] = "red"]
  PROVE  Fits(ch2, ro2, co2, L, x, y, q, r)
  <1> DEFINE f == ch[c][Other(d)]
             k == ch[n][d]
             h2 == [h EXCEPT ![c] = h[n], ![n] = h[c]]
  <1>1. /\ \A m \in L \ {n, c} : \A z \in Dirs :
             ~(m = p /\ z = s) => ch[m][z] # n /\ ch[m][z] # c
        /\ g # n /\ g # c /\ k # n /\ k # c /\ f # n /\ f # c
        /\ n \in L /\ c \in L /\ n # c /\ n \in Node /\ c \in Node /\ n # Nil /\ c # Nil
        /\ g \in Node /\ k \in Node /\ f \in Node /\ g = ch[c][d] /\ c = ch[n][Other(d)]
        /\ d \in Dirs /\ Other(d) \in Dirs
        /\ p # Nil => p \in L /\ p # n /\ p # c /\ ch[p][s] = n /\ s \in Dirs
    BY Outside
  <1>2. L \subseteq Node /\ Nil \notin L /\ Nil \in Node /\ Other(d) # d
    BY <1>1, Nodes, Directions
  <1>3. /\ h \in [Node -> Nat] /\ h[Nil] = 0 /\ co \in [Node -> {"red", "black"}] /\ co[Nil] = "black"
        /\ \A m \in L : \A z \in Dirs : h[m] = h[ch[m][z]] + Gap(m, z, q, r) + Weight(co[m])
    BY DEF Colored, Weighed
  <1>4. co[c] = "red"
    BY <1>1, <1>3
  <1>5. pa[c] = n /\ pa[n] = p
    BY DEF Apart
  <1> HIDE DEF f, k
  <1>8. k = ch[n][d] /\ f = ch[c][Other(d)]
    BY DEF f, k
  <1>9. /\ Gap(n, Other(d), q, r) = 0 /\ Gap(c, d, q, r) = 0 /\ Gap(c, Other(d), q, r) = 0
        /\ Gap(n, d, q, r) \in {0, 1}
    BY <1>2 DEF Gap
  <1>10. h[n] = h[c] + 1 /\ h[c] = h[k] + Gap(n, d, q, r) /\ h[c] = h[g] /\ h[c] = h[f]
         /\ h[n] \in Nat /\ h[c] \in Nat /\ h[k] \in Nat
    <2>1. Weight(co[n]) = 1 /\ Weight(co[c]) = 0
      BY <1>4 DEF Weight
    <2>2. /\ h[n] = h[c] + Gap(n, Other(d), q, r) + Weight(co[n])
          /\ h[n] = h[k] + Gap(n, d, q, r) + Weight(co[n])
          /\ h[c] = h[g] + Gap(c, d, q, r) + Weight(co[c])
          /\ h[c] = h[f] + Gap(c, Other(d), q, r) + Weight(co[c])
      BY <1>1, <1>3, <1>8
    <2>3. h[n] \in Nat /\ h[c] \in Nat /\ h[g] \in Nat /\ h[f] \in Nat /\ h[k] \in Nat
      BY <1>1, <1>3
    <2>4. QED
      BY <1>9, <2>1, <2>2, <2>3
  <1>11. /\ h2 \in [Node -> Nat] /\ h2[c] = h[n] /\ h2[n] = h[c]
         /\ \A m \in Node : m # n /\ m # c => h2[m] = h[m]
    BY <1>1, <1>3, <1>10
  <1> HIDE DEF h2
  <1>12. /\ co2 \in [Node -> {"red", "black"}] /\ co2[c] = "black" /\ co2[n] = "red"
         /\ \A m \in Node : m # n /\ m # c => co2[m] = co[m]
    BY <1>1, <1>3
  <1>13. Weighed(ch2, co2, L, h2, q, r)
    <2>1. Weight(co2[n]) = 0 /\ Weight(co2[c]) = 1
      BY <1>12 DEF Weight
    <2>3. h2[g] = h[g] /\ h2[f] = h[f] /\ h2[k] = h[k] /\ h2[Nil] = 0
      BY <1>1, <1>2, <1>3, <1>11
    <2>4. /\ h2[n] = h2[g] + Gap(n, Other(d), q, r) + Weight(co2[n])
          /\ h2[n] = h2[ch[n][d]] + Gap(n, d, q, r) + Weight(co2[n])
          /\ h2[c] = h2[n] + Gap(c, d, q, r) + Weight(co2[c])
          /\ h2[c] = h2[f] + Gap(c, Other(d), q, r) + Weight(co2[c])
      <3>1. h2[n] = h2[g] + Gap(n, Other(d), q, r) + Weight(co2[n])
        <4>1. h2[n] = h2[g] /\ h2[g] \in Nat
          BY <1>10, <1>11, <2>3
        <4>2. QED
          BY <1>9, <2>1, <4>1
      <3>2. h2[n] = h2[k] + Gap(n, d, q, r) + Weight(co2[n])
        BY <1>9, <1>10, <1>11, <2>1, <2>3
      <3>3. h2[c] = h2[n] + Gap(c, d, q, r) + Weight(co2[c])
        BY <1>9, <1>10, <1>11, <2>1
      <3>4. h2[c] = h2[f] + Gap(c, Other(d), q, r) + Weight(co2[c])
        BY <1>9, <1>10, <1>11, <2>1, <2>3
      <3>5. QED
        BY <1>8, <3>1, <3>2, <3>3, <3>4
    <2>5. ASSUME f # Nil, NEW z \in Dirs
          PROVE  h2[f] = h2[ch[f][z]] + Gap(f, z, q, r) + Weight(co2[f])
      <3>1. f \in L /\ pa[f] = c
        BY <1>1, <1>8, <2>5, Links
      <3>2. ch[f][z] \in Node /\ ch[f][z] # n /\ ch[f][z] # c
        <4>1. ch[f][z] = Nil \/ (ch[f][z] \in L /\ pa[ch[f][z]] = f)
          BY <3>1, Links
        <4>2. ch[f][z] # c
          BY <1>1, <1>5, <4>1
        <4>3. ch[f][z] = n => p = f /\ p # Nil
          BY <1>1, <1>2, <1>5, <4>1, <3>1
        <4>4. f # p
          <5>1. c \in L /\ Other(d) \in Dirs /\ f = ch[c][Other(d)] /\ f # Nil
            BY <1>1, <1>8, <2>5
          <5>2. f \in D[c] /\ D[c] \subseteq D[n]
            BY <1>1, <5>1, Child
          <5>3. p # Nil => p \notin D[n]
            BY <1>1, Child
          <5>4. QED
            BY <5>1, <5>2, <5>3
        <4>5. QED
          BY <1>2, <4>1, <4>2, <4>3, <4>4
      <3>3. h[f] = h[ch[f][z]] + Gap(f, z, q, r) + Weight(co[f])
        BY <1>3, <3>1, <3>2
      <3>4. h2[ch[f][z]] = h[ch[f][z]] /\ co2[f] = co[f]
        BY <1>1, <1>11, <1>12, <3>2
      <3>5. QED
        BY <2>3, <3>3, <3>4
    <2>6. Reweighed(ch, L, d, n, p, c, g, f, co, h, q, r, co2, h2, q, r)
      BY <1>2, <1>8, <1>11, <1>12, <2>3, <2>4, <2>5 DEF Reweighed
    <2>7. QED
      BY <2>6, TurnedWeighed
  <1>14. Colored(ch2, ro2, co2, L, x, y)
    <2>0. \A m \in L : \A z \in Dirs :
            co[m] = "black" \/ co[ch[m][z]] = "black" \/ ch[m][z] = x \/ m = y
      BY DEF Colored
    <2>1. ASSUME NEW u \in Trees
          PROVE  co2[ro2[u]] = "black" \/ ro2[u] = x
      <3>1. Rooted(pa, ro, L, n, p, c, ro2)
        BY TurnedRoots
      <3>2. co[ro[u]] = "black" \/ ro[u] = x
        BY DEF Colored
      <3>3. QED
        BY <1>2, <1>12, <3>1, <3>2 DEF Rooted
    <2>2. ASSUME NEW m \in L \ {n, c}, NEW z \in Dirs, ~(m = p /\ z = s)
          PROVE  co2[m] = "black" \/ co2[ch[m][z]] = "black" \/ ch[m][z] = x \/ m = y
      <3>1. ch[m][z] \in Node /\ ch[m][z] # n /\ ch[m][z] # c
        BY <1>1, <1>2, <2>2, Links
      <3>2. QED
        BY <1>2, <1>12, <2>0, <3>1
    <2>3. co2[g] = "black" /\ co2[k] = "black" /\ co2[Nil] = "black"
      BY <1>1, <1>2, <1>3, <1>8, <1>12
    <2>4. /\ \A u \in Trees : co2[ro2[u]] = "black" \/ ro2[u] = x
          /\ \A m \in L \ {n, c} : \A z \in Dirs : ~(m = p /\ z = s) =>
               co2[m] = "black" \/ co2[ch[m][z]] = "black" \/ ch[m][z] = x \/ m = y
      BY <2>1, <2>2
    <2>6. Repainted(ch, L, d, n, p, s, c, g, f, ro2, co2, x, y)
      BY <1>8, <1>12, <2>3, <2>4 DEF Repainted
    <2>7. QED
      BY <2>6, TurnedColored
  <1>15. QED
    BY <1>11, <1>13, <1>14 DEF Fits

\* The sibling w of a node that lacks a black node is higher, and so an element;
\* the rest of the tree is as it should be.
Lacking(ch, pa, ro, co, L, h, p, a, w) ==
  /\ w \in L /\ pa[w] = p /\ w # a /\ w # p /\ a # p /\ a \in Node
  /\ h[a] \in Nat /\ h[w] = h[a] + 1 /\ h[p] = h[w] + Weight(co[p])
  /\ \A m \in L : m # p => \A s \in Dirs : h[m] = h[ch[m][s]] + Weight(co[m])
  /\ \A m \in L : \A s \in Dirs : co[m] = "black" \/ co[ch[m][s]] = "black"
  /\ \A t \in Trees : co[ro[t]] = "black"
  /\ h \in [Node -> Nat] /\ h[Nil] = 0 /\ co \in [Node -> {"red", "black"}] /\ co[Nil] = "black"

LEMMA SiblingThere ==
  ASSUME NEW ch, NEW pa, NEW ro, NEW L, NEW D, Shape(ch, pa, ro, L, D),
         NEW co, NEW h, NEW p \in L, NEW d \in Dirs, Weighed(ch, co, L, h, p, d),
         NEW a, Colored(ch, ro, co, L, a, a), ch[p][d] = a, co[a] = "black"
  PROVE  Lacking(ch, pa, ro, co, L, h, p, a, ch[p][Other(d)])
  <1> DEFINE w == ch[p][Other(d)]
  <1>1. /\ h \in [Node -> Nat] /\ h[Nil] = 0 /\ co \in [Node -> {"red", "black"}] /\ co[Nil] = "black"
        /\ \A m \in L : \A s \in Dirs : h[m] = h[ch[m][s]] + Gap(m, s, p, d) + Weight(co[m])
    BY DEF Weighed, Colored
  <1>2. Other(d) \in Dirs /\ Other(d) # d /\ L \subseteq Node /\ Nil \in Node /\ Nil \notin L
    BY Directions, Nodes
  <1>3. /\ w = Nil \/ (w \in L /\ pa[w] = p)
        /\ a = Nil \/ (a \in L /\ pa[a] = p)
        /\ w # p /\ a # p
    BY <1>2, Links
  <1>4. w \in Node /\ a \in Node /\ h[w] \in Nat /\ h[a] \in Nat /\ h[p] \in Nat
    BY <1>1, <1>2, <1>3
  <1>5. Weight(co[p]) \in {0, 1}
    BY DEF Weight
  <1>6. h[p] = h[a] + 1 + Weight(co[p]) /\ h[p] = h[w] + Weight(co[p])
    <2>1. Gap(p, d, p, d) = 1 /\ Gap(p, Other(d), p, d) = 0
      BY <1>2 DEF Gap
    <2>2. /\ h[p] = h[a] + Gap(p, d, p, d) + Weight(co[p])
          /\ h[p] = h[w] + Gap(p, Other(d), p, d) + Weight(co[p])
      BY <1>1, <1>2
    <2>3. QED
      BY <1>4, <1>5, <2>1, <2>2
  <1>7. h[w] = h[a] + 1
    BY <1>4, <1>5, <1>6
  <1>8. w # Nil /\ w # a
    BY <1>1, <1>4, <1>7
  <1>9. ASSUME NEW m \in L, m # p, NEW s \in Dirs
        PROVE  h[m] = h[ch[m][s]] + Weight(co[m])
    <2>1. Gap(m, s, p, d) = 0
      BY <1>9 DEF Gap
    <2>2. ch[m][s] \in Node
      BY <1>2, Links
    <2>3. h[m] = h[ch[m][s]] + Gap(m, s, p, d) + Weight(co[m]) /\ h[ch[m][s]] \in Nat
      BY <1>1, <2>2
    <2>4. QED
      BY <2>1, <2>3 DEF Weight
  <1>10. \A m \in L : \A s \in Dirs : co[m] = "black" \/ co[ch[m][s]] = "black"
    BY DEF Colored
  <1>11. \A t \in Trees : co[ro[t]] = "black"
    BY DEF Colored
  <1>12. QED
    BY <1>1, <1>3, <1>4, <1>6, <1>7, <1>8, <1>9, <1>10, <1>11 DEF Lacking

\* The colors of MendFar.
Lifted(ch, co, d, n, a, c, f, co2) ==
  /\ ch[n][d] = a /\ co[a] = "black" /\ co[c] = "black"
  /\ f = ch[c][Other(d)] /\ co[f] # "black"
  /\ co2 = [co EXCEPT ![c] = co[n], ![n] = "black", ![f] = "black"]

\* MendFar: the sibling goes up with the color of the parent, which brings a
\* black node to the side that lacked one.
LEMMA FarFits ==
  ASSUME NEW ch, NEW pa, NEW ro, NEW L, NEW D, Shape(ch, pa, ro, L, D),
         NEW co, NEW h, NEW n, NEW d \in Dirs, Weighed(ch, co, L, h, n, d),
         NEW a, Colored(ch, ro, co, L, a, a),
         NEW p, NEW s, NEW c, NEW g, Apart(ch, pa, L, D, d, n, p, s, c, g),
         NEW ch2, NEW pa2, NEW ro2,
         Relinked(ch, pa, ro, d, n, p, s, TreeOf[n], c, g, ch2, pa2, ro2),
         NEW f, NEW co2, Lifted(ch, co, d, n, a, c, f, co2), NEW x, NEW e
  PROVE  Fits(ch2, ro2, co2, L, x, x, Nil, e)
  <1> /\ ch[n][d] = a /\ co[a] = "black" /\ co[c] = "black"
      /\ f = ch[c][Other(d)] /\ co[f] # "black"
      /\ co2 = [co EXCEPT ![c] = co[n], ![n] = "black", ![f] = "black"]
    BY DEF Lifted
  <1> DEFINE h2 == [h EXCEPT ![c] = h[n], ![n] = h[c], ![f] = h[c]]
  <1>1. /\ \A m \in L \ {n, c} : \A z \in Dirs :
             ~(m = p /\ z = s) => ch[m][z] # n /\ ch[m][z] # c
        /\ g # n /\ g # c /\ f # n /\ f # c /\ a # n /\ a # c
        /\ n \in L /\ c \in L /\ n # c /\ n \in Node /\ c \in Node /\ n # Nil /\ c # Nil
        /\ g \in Node /\ a \in Node /\ f \in Node /\ g = ch[c][d] /\ c = ch[n][Other(d)]
        /\ Other(d) \in Dirs
        /\ p # Nil => p \in L /\ p # n /\ p # c /\ ch[p][s] = n /\ s \in Dirs
    BY Outside
  <1>2. L \subseteq Node /\ Nil \notin L /\ Nil \in Node /\ Other(d) # d
    BY Nodes, Directions
  <1>3. /\ h[a] \in Nat /\ h[c] = h[a] + 1 /\ h[n] = h[c] + Weight(co[n])
        /\ \A m \in L : m # n => \A z \in Dirs : h[m] = h[ch[m][z]] + Weight(co[m])
        /\ \A m \in L : \A z \in Dirs : co[m] = "black" \/ co[ch[m][z]] = "black"
        /\ \A t \in Trees : co[ro[t]] = "black"
        /\ h \in [Node -> Nat] /\ h[Nil] = 0 /\ co \in [Node -> {"red", "black"}] /\ co[Nil] = "black"
    <2>1. Lacking(ch, pa, ro, co, L, h, n, a, c)
      BY <1>1, SiblingThere
    <2>2. QED
      BY <2>1 DEF Lacking
  <1>4. f \in L /\ pa[f] = c /\ co[f] = "red" /\ pa[c] = n /\ pa[n] = p /\ f # g /\ f # a
    <2>1. f # Nil
      BY <1>3
    <2>2. f \in L /\ pa[f] = c
      BY <1>1, <2>1, Links, SMTT(30)
    <2>3. pa[c] = n /\ pa[n] = p
      BY DEF Apart
    <2>4. f # g
      BY <1>1, <1>2, <2>1, Links, SMTT(30)
    <2>5. QED
      BY <1>1, <1>3, <2>2, <2>3, <2>4
  <1>5. h[c] = h[g] + 1 /\ h[c] = h[f] + 1 /\ h[g] \in Nat /\ h[f] \in Nat /\ h[n] \in Nat /\ h[c] \in Nat
    <2>1. h[c] = h[g] + Weight(co[c]) /\ h[c] = h[f] + Weight(co[c])
      BY <1>1, <1>3
    <2>2. QED
      BY <1>1, <1>3, <2>1 DEF Weight
  <1>6. /\ h2 \in [Node -> Nat] /\ h2[c] = h[n] /\ h2[n] = h[c] /\ h2[f] = h[c]
        /\ \A m \in Node : m # n /\ m # c /\ m # f => h2[m] = h[m]
    BY <1>1, <1>3, <1>5
  <1> HIDE DEF h2
  <1>7. /\ co2 \in [Node -> {"red", "black"}] /\ co2[c] = co[n] /\ co2[n] = "black" /\ co2[f] = "black"
        /\ \A m \in Node : m # n /\ m # c /\ m # f => co2[m] = co[m]
    BY <1>1, <1>3
  <1>8. f # p
    <2>1. f \in D[c] /\ D[c] \subseteq D[n]
      BY <1>1, <1>2, <1>4, Child, SMTT(30)
    <2>2. p # Nil => p \notin D[n]
      BY <1>1, Child, SMTT(30)
    <2>3. QED
      BY <1>2, <1>4, <2>1, <2>2
  <1>9. Weighed(ch2, co2, L, h2, Nil, e)
    <2>1. Weight(co2[n]) = 1 /\ Weight(co2[f]) = 1 /\ Weight(co2[c]) = Weight(co[n])
      BY <1>7 DEF Weight
    <2>2. \A m \in L : \A z \in Dirs : Gap(m, z, Nil, e) = 0
      BY <1>2 DEF Gap
    <2>3. h2[g] = h[g] /\ h2[a] = h[a] /\ h2[Nil] = 0
      BY <1>1, <1>2, <1>3, <1>4, <1>6
    <2>4. h2[n] = h2[g] + 1 /\ h2[n] = h2[a] + 1 /\ h2[c] = h2[n] + Weight(co[n])
          /\ h2[c] = h2[f] + Weight(co[n])
      BY <1>3, <1>5, <1>6, <2>3
    <2>5. /\ h2[n] = h2[g] + Gap(n, Other(d), Nil, e) + Weight(co2[n])
          /\ h2[n] = h2[ch[n][d]] + Gap(n, d, Nil, e) + Weight(co2[n])
      <3>1. h2[g] \in Nat /\ h2[a] \in Nat /\ Gap(n, Other(d), Nil, e) = 0 /\ Gap(n, d, Nil, e) = 0
        BY <1>1, <1>6, <2>2
      <3>2. QED
        BY <2>1, <2>4, <3>1
    <2>6. /\ h2[c] = h2[n] + Gap(c, d, Nil, e) + Weight(co2[c])
          /\ h2[c] = h2[f] + Gap(c, Other(d), Nil, e) + Weight(co2[c])
      <3>1. h2[n] \in Nat /\ h2[f] \in Nat /\ Gap(c, Other(d), Nil, e) = 0 /\ Gap(c, d, Nil, e) = 0
        BY <1>1, <1>6, <2>2
      <3>2. QED
        BY <2>1, <2>4, <3>1
    <2>7. ASSUME NEW z \in Dirs
          PROVE  h2[f] = h2[ch[f][z]] + Gap(f, z, Nil, e) + Weight(co2[f])
      <3>1. ch[f][z] = Nil \/ (ch[f][z] \in L /\ pa[ch[f][z]] = f /\ ch[f][z] # f)
        BY <1>4, Links
      <3>2. ch[f][z] \in Node /\ ch[f][z] # n /\ ch[f][z] # c /\ ch[f][z] # f
        BY <1>1, <1>2, <1>4, <1>8, <3>1
      <3>3. h[f] = h[ch[f][z]] + Weight(co[f])
        BY <1>1, <1>3, <1>4
      <3>4. h2[ch[f][z]] = h[ch[f][z]] /\ h[ch[f][z]] \in Nat
        BY <1>3, <1>6, <3>2
      <3>5. h2[f] = h2[ch[f][z]] + 1
        BY <1>4, <1>5, <1>6, <3>3, <3>4 DEF Weight
      <3>6. QED
        BY <1>4, <2>1, <2>2, <3>4, <3>5
    <2>8. Reweighed(ch, L, d, n, p, c, g, f, co, h, n, d, co2, h2, Nil, e)
      BY <1>2, <1>6, <1>7, <2>3, <2>5, <2>6, <2>7 DEF Reweighed
    <2>9. QED
      BY <2>8, TurnedWeighed
  <1>10. Colored(ch2, ro2, co2, L, x, x)
    <2>1. ASSUME NEW u \in Trees
          PROVE  co2[ro2[u]] = "black"
      <3>1. Rooted(pa, ro, L, n, p, c, ro2)
        BY TurnedRoots
      <3>2. co[ro[u]] = "black"
        BY <1>3
      <3>3. QED
        BY <1>2, <1>3, <1>4, <1>7, <3>1, <3>2 DEF Rooted
    <2>2. ASSUME NEW m \in L \ {n, c}, NEW z \in Dirs, ~(m = p /\ z = s)
          PROVE  co2[m] = "black" \/ co2[ch[m][z]] = "black"
      <3>1. ch[m][z] \in Node /\ ch[m][z] # n /\ ch[m][z] # c
        BY <1>1, <1>2, <2>2, Links, SMTT(30)
      <3>2. QED
        BY <1>2, <1>3, <1>7, <3>1
    <2>3. co2[n] = "black" /\ co2[f] = "black" /\ co2[Nil] = "black"
      BY <1>1, <1>2, <1>3, <1>4, <1>7
    <2>4. p # Nil => co2[p] = "black" \/ co2[c] = "black"
      <3>1. p # Nil => (co[p] = "black" \/ co[n] = "black") /\ co2[p] = co[p]
        BY <1>1, <1>2, <1>3, <1>7, <1>8, SMTT(30)
      <3>2. QED
        BY <1>7, <3>1
    <2>5. Repainted(ch, L, d, n, p, s, c, g, f, ro2, co2, x, x)
      BY <1>7, <2>1, <2>2, <2>3, <2>4 DEF Repainted
    <2>6. QED
      BY <2>5, TurnedColored
  <1>11. QED
    BY <1>6, <1>9, <1>10 DEF Fits

\* MendUp: the other side loses one too, and the parent lacks it now.
LEMMA UpFits ==
  ASSUME NEW ch, NEW pa, NEW ro, NEW L, NEW D, Shape(ch, pa, ro, L, D),
         NEW co, NEW h, NEW p \in L, NEW d \in Dirs, Weighed(ch, co, L, h, p, d),
         NEW a, Colored(ch, ro, co, L, a, a), ch[p][d] = a, co[a] = "black",
         NEW w, w = ch[p][Other(d)], co[w] = "black",
         \A s \in Dirs : co[ch[w][s]] = "black",
         NEW co2, co2 = [co EXCEPT ![w] = "red"]
  PROVE  Fits(ch, ro, co2, L, p, p, pa[p], SideIn(ch, pa, p))
  <1> DEFINE q == pa[p]
             r == SideIn(ch, pa, p)
             h2 == [h EXCEPT ![w] = h[a], ![p] = h[a] + Weight(co[p])]
  <1>1. Lacking(ch, pa, ro, co, L, h, p, a, w)
    BY SiblingThere
  <1>2. /\ w \in L /\ pa[w] = p /\ w # a /\ w # p /\ a # p /\ a \in Node
        /\ h[a] \in Nat /\ h[w] = h[a] + 1 /\ h[p] = h[w] + Weight(co[p])
        /\ \A m \in L : m # p => \A s \in Dirs : h[m] = h[ch[m][s]] + Weight(co[m])
        /\ \A m \in L : \A s \in Dirs : co[m] = "black" \/ co[ch[m][s]] = "black"
        /\ \A t \in Trees : co[ro[t]] = "black"
        /\ h \in [Node -> Nat] /\ h[Nil] = 0 /\ co \in [Node -> {"red", "black"}] /\ co[Nil] = "black"
    BY <1>1 DEF Lacking
  <1>3. L \subseteq Node /\ Nil \notin L /\ Nil \in Node /\ Other(d) \in Dirs /\ Other(d) # d
        /\ \A s \in Dirs : s = d \/ s = Other(d)
    BY Nodes, Directions
  <1>4. r \in Dirs /\ (q # Nil => q \in L /\ ch[q][r] = p)
    BY SideRight
  <1>5. Weight(co[p]) \in {0, 1}
    BY DEF Weight
  <1>6. /\ h2 \in [Node -> Nat] /\ h2[w] = h[a] /\ h2[p] = h[a] + Weight(co[p])
        /\ \A m \in Node : m # w /\ m # p => h2[m] = h[m]
    BY <1>2, <1>3, <1>5
  <1> HIDE DEF h2, q, r
  <1>7. /\ co2 \in [Node -> {"red", "black"}] /\ co2[w] = "red"
        /\ \A m \in Node : m # w => co2[m] = co[m]
    BY <1>2, <1>3
  <1>8. pa[p] = q
    BY DEF q
  <1>9. ASSUME NEW m \in L, NEW s \in Dirs
        PROVE  h2[m] = h2[ch[m][s]] + Gap(m, s, q, r) + Weight(co2[m])
    <2>1. ch[m][s] = Nil \/ (ch[m][s] \in L /\ pa[ch[m][s]] = m)
      BY Links
    <2>2. ch[m][s] \in Node /\ ch[m][s] # m
      BY <1>3, <2>1, Links
    <2>3. CASE m = p
      <3>1. q # p
        BY <1>3, <1>4, Links
      <3>2. Gap(m, s, q, r) = 0
        BY <2>3, <3>1 DEF Gap
      <3>3. h2[ch[m][s]] = h[a]
        BY <1>2, <1>3, <1>6, <2>3
      <3>4. Weight(co2[m]) = Weight(co[p])
        BY <1>2, <1>3, <1>7, <2>3
      <3>5. QED
        BY <1>2, <1>5, <1>6, <2>3, <3>2, <3>3, <3>4
    <2>4. CASE m = w
      <3>1. q # w
        <4>1. \E s2 \in Dirs : ch[p][s2] = w
          BY <1>3
        <4>2. QED
          BY <1>2, <1>3, <1>8, <4>1, Links
      <3>2. Gap(m, s, q, r) = 0
        BY <2>4, <3>1 DEF Gap
      <3>3. ch[w][s] # w /\ ch[w][s] # p
        BY <1>2, <1>3, Links
      <3>4. h2[ch[m][s]] = h[ch[w][s]] /\ h[ch[w][s]] \in Nat
        BY <1>2, <1>6, <2>2, <2>4, <3>3
      <3>5. h[w] = h[ch[w][s]] + 1
        BY <1>2 DEF Weight
      <3>6. h[a] = h[ch[w][s]]
        BY <1>2, <3>4, <3>5
      <3>7. QED
        BY <1>2, <1>6, <1>7, <2>4, <3>2, <3>4, <3>6 DEF Weight
    <2>5. CASE m # p /\ m # w
      <3>1. h2[m] = h[m] /\ co2[m] = co[m] /\ h[m] = h[ch[m][s]] + Weight(co[m])
            /\ h[ch[m][s]] \in Nat
        BY <1>2, <1>3, <1>6, <1>7, <2>2, <2>5
      <3>2. ch[m][s] # w
        BY <1>2, <1>3, <2>1, <2>5
      <3>3. CASE ch[m][s] = p
        <4>1. m = q /\ s = r
          <5>1. m = q
            BY <1>3, <1>8, <2>1, <3>3
          <5>2. ch[q][s] = ch[q][r] /\ ch[q][s] # Nil /\ q \in L
            BY <1>3, <1>4, <3>3, <5>1
          <5>3. s = r
            BY <1>4, <5>2, Links
          <5>4. QED
            BY <5>1, <5>3
        <4>2. Gap(m, s, q, r) = 1
          BY <4>1 DEF Gap
        <4>3. h[m] = h[p] + Weight(co[m]) /\ h2[ch[m][s]] + 1 = h[p]
          BY <1>2, <1>5, <1>6, <3>1, <3>3
        <4>4. h2[ch[m][s]] \in Nat
          BY <1>6, <2>2
        <4>5. Weight(co[m]) \in {0, 1}
          BY DEF Weight
        <4>6. QED
          BY <3>1, <4>2, <4>3, <4>4, <4>5
      <3>4. CASE ch[m][s] # p
        <4>1. h2[ch[m][s]] = h[ch[m][s]]
          BY <1>6, <2>2, <3>2, <3>4
        <4>2. Gap(m, s, q, r) = 0
          BY <1>3, <1>4, <3>4 DEF Gap
        <4>3. QED
          BY <3>1, <4>1, <4>2
      <3>5. QED
        BY <3>3, <3>4
    <2>6. QED
      BY <2>3, <2>4, <2>5
  <1>10. Weighed(ch, co2, L, h2, q, r)
    <2>1. h2[Nil] = 0
      BY <1>2, <1>3, <1>6
    <2>2. QED
      BY <1>6, <1>9, <2>1 DEF Weighed
  <1>11. Colored(ch, ro, co2, L, p, p)
    <2>1. co2[Nil] = "black"
      BY <1>2, <1>3, <1>7
    <2>2. ASSUME NEW t \in Trees
          PROVE  co2[ro[t]] = "black"
      <3>1. ro[t] = Nil \/ (ro[t] \in L /\ pa[ro[t]] = Nil)
        BY Links
      <3>2. ro[t] # w /\ ro[t] \in Node
        BY <1>2, <1>3, <3>1
      <3>3. QED
        BY <1>2, <1>7, <3>2
    <2>3. ASSUME NEW m \in L, NEW s \in Dirs, m # p
          PROVE  co2[m] = "black" \/ co2[ch[m][s]] = "black"
      <3>1. ch[m][s] = Nil \/ (ch[m][s] \in L /\ pa[ch[m][s]] = m)
        BY Links
      <3>2. ch[m][s] \in Node /\ ch[m][s] # w
        BY <1>2, <1>3, <2>3, <3>1
      <3>3. QED
        BY <1>2, <1>3, <1>7, <2>3, <3>2
    <2>4. QED
      BY <1>7, <2>1, <2>2, <2>3 DEF Colored
  <1>12. QED
    BY <1>6, <1>10, <1>11 DEF q, r, Fits

\* A node where a black node lacks, if it is red.
Ending(ch, pa, co, L, h, q, r, a, co2) ==
  /\ r \in Dirs /\ Weighed(ch, co, L, h, q, r) /\ a \in L \cup {Nil}
  /\ co[a] = "black" => q = Nil
  /\ co[a] # "black" => q = pa[a] /\ (q # Nil => ch[q][r] = a)
  /\ co2 = [co EXCEPT ![a] = "black"]

\* MendDone: a red node becomes black where one lacks, or at the root.
LEMMA DoneFits ==
  ASSUME NEW ch, NEW pa, NEW ro, NEW L, NEW D, Shape(ch, pa, ro, L, D),
         NEW co, NEW h, NEW q, NEW r, NEW a, NEW co2,
         Colored(ch, ro, co, L, a, a), Ending(ch, pa, co, L, h, q, r, a, co2)
  PROVE  Fits(ch, ro, co2, L, Nil, Nil, Nil, r)
  <1>0. /\ r \in Dirs /\ a \in L \cup {Nil} /\ co2 = [co EXCEPT ![a] = "black"]
        /\ co[a] = "black" => q = Nil
        /\ co[a] # "black" => q = pa[a] /\ (q # Nil => ch[q][r] = a)
    BY DEF Ending
  <1> DEFINE h2 == [h EXCEPT ![a] = h[a] + 1 - Weight(co[a])]
  <1>1. /\ h \in [Node -> Nat] /\ h[Nil] = 0 /\ co \in [Node -> {"red", "black"}] /\ co[Nil] = "black"
        /\ \A m \in L : \A s \in Dirs : h[m] = h[ch[m][s]] + Gap(m, s, q, r) + Weight(co[m])
    BY DEF Weighed, Colored, Ending
  <1>2. L \subseteq Node /\ Nil \notin L /\ Nil \in Node /\ a \in Node
    BY <1>0, Nodes
  <1>3. \A m \in Node : Weight(co[m]) \in {0, 1}
    BY DEF Weight
  <1>4. /\ h2 \in [Node -> Nat] /\ h2[a] = h[a] + 1 - Weight(co[a])
        /\ \A m \in Node : m # a => h2[m] = h[m]
    BY <1>0, <1>1, <1>2, <1>3
  <1> HIDE DEF h2
  <1>5. /\ co2 \in [Node -> {"red", "black"}] /\ co2[a] = "black"
        /\ \A m \in Node : m # a => co2[m] = co[m]
    BY <1>0, <1>1, <1>2
  <1>6. h2[Nil] = 0 /\ co2[Nil] = "black"
    BY <1>0, <1>1, <1>2, <1>4, <1>5 DEF Weight
  <1>7. ASSUME NEW e, NEW m \in L, NEW s \in Dirs
        PROVE  h2[m] = h2[ch[m][s]] + Gap(m, s, Nil, e) + Weight(co2[m])
    <2>1. ch[m][s] = Nil \/ (ch[m][s] \in L /\ pa[ch[m][s]] = m)
      BY Links
    <2>2. ch[m][s] \in Node /\ ch[m][s] # m /\ Gap(m, s, Nil, e) = 0 /\ m \in Node
      BY <1>2, <2>1, Links DEF Gap
    <2>3. h[m] = h[ch[m][s]] + Gap(m, s, q, r) + Weight(co[m])
          /\ h[m] \in Nat /\ h[ch[m][s]] \in Nat /\ h2[ch[m][s]] \in Nat
          /\ Weight(co[m]) \in {0, 1}
      BY <1>0, <1>1, <1>2, <1>3, <1>4, <2>2
    \* The gap is closed by the node that becomes black.
    <2>4. h2[ch[m][s]] = h[ch[m][s]] + Gap(m, s, q, r)
      <3>1. CASE ch[m][s] = a /\ co[a] # "black"
        <4>1. m = q /\ q # Nil
          BY <1>0, <1>1, <1>2, <2>1, <3>1
        <4>2. s = r
          BY <1>0, <1>1, <1>2, <3>1, <4>1, Links
        <4>3. QED
          BY <1>4, <2>3, <3>1, <4>1, <4>2 DEF Gap, Weight
      <3>2. CASE ch[m][s] = a /\ co[a] = "black"
        <4>1. Gap(m, s, q, r) = 0
          BY <1>0, <1>2, <3>2 DEF Gap
        <4>2. QED
          BY <1>4, <2>3, <3>2, <4>1 DEF Weight
      <3>3. CASE ch[m][s] # a
        <4>1. Gap(m, s, q, r) = 0
          BY <1>0, <1>2, <3>3 DEF Gap
        <4>2. QED
          BY <1>4, <2>2, <2>3, <3>3, <4>1
      <3>4. QED
        BY <3>1, <3>2, <3>3
    <2>5. h2[m] - Weight(co2[m]) = h[m] - Weight(co[m])
      <3>1. CASE m = a
        BY <1>4, <1>5, <2>3, <3>1 DEF Weight
      <3>2. CASE m # a
        BY <1>4, <1>5, <2>2, <3>2
      <3>3. QED
        BY <3>1, <3>2
    <2>6. h2[m] \in Nat /\ Weight(co2[m]) \in {0, 1} /\ Gap(m, s, q, r) \in {0, 1}
      BY <1>2, <1>4 DEF Weight, Gap
    <2>7. QED
      BY <2>2, <2>3, <2>4, <2>5, <2>6
  <1>8. \A e : Weighed(ch, co2, L, h2, Nil, e)
    BY <1>4, <1>6, <1>7 DEF Weighed
  <1>9. Colored(ch, ro, co2, L, Nil, Nil)
    <2>1. ASSUME NEW t \in Trees
          PROVE  co2[ro[t]] = "black"
      <3>1. ro[t] \in Node /\ (co[ro[t]] = "black" \/ ro[t] = a)
        BY <1>2, Links DEF Colored
      <3>2. QED
        BY <1>5, <3>1
    <2>2. ASSUME NEW m \in L, NEW s \in Dirs
          PROVE  co2[m] = "black" \/ co2[ch[m][s]] = "black"
      <3>1. ch[m][s] \in Node
        BY <1>2, Links
      <3>2. co[m] = "black" \/ co[ch[m][s]] = "black" \/ ch[m][s] = a \/ m = a
        BY DEF Colored
      <3>3. QED
        BY <1>2, <1>5, <3>1, <3>2
    <2>3. QED
      BY <1>5, <1>6, <2>1, <2>2 DEF Colored
  <1>10. QED
    BY <1>4, <1>8, <1>9 DEF Fits

\* The end of rb_insert: the root becomes black.
LEMMA BlackRootFits ==
  ASSUME NEW ch, NEW pa, NEW ro, NEW L, NEW D, Shape(ch, pa, ro, L, D),
         NEW co, NEW h, NEW d \in Dirs, Weighed(ch, co, L, h, Nil, d),
         NEW x \in L, Colored(ch, ro, co, L, x, Nil),
         ro[TreeOf[x]] = x \/ (pa[x] # Nil /\ co[pa[x]] = "black"),
         NEW co2, co2 = [co EXCEPT ![ro[TreeOf[x]]] = "black"]
  PROVE  Fits(ch, ro, co2, L, Nil, Nil, Nil, d)
  <1> DEFINE a == ro[TreeOf[x]]
  <1>1. a \in L /\ pa[a] = Nil /\ Nil \notin L /\ x # Nil
    <2>1. a \in L /\ TreeOf[x] \in Trees
      BY Links
    <2>2. QED
      BY <2>1, Nodes, Links
  <1>2. Colored(ch, ro, co, L, a, a)
    <2>1. ASSUME NEW t \in Trees
          PROVE  co[ro[t]] = "black" \/ ro[t] = a
      <3>1. co[ro[t]] = "black" \/ ro[t] = x
        BY DEF Colored
      <3>2. ro[t] = x => pa[x] = Nil
        BY <1>1, Links
      <3>3. QED
        BY <3>1, <3>2
    <2>2. ASSUME NEW n \in L, NEW s \in Dirs
          PROVE  co[n] = "black" \/ co[ch[n][s]] = "black" \/ ch[n][s] = a
      <3>1. co[n] = "black" \/ co[ch[n][s]] = "black" \/ ch[n][s] = x
        BY <1>1 DEF Colored
      <3>2. ch[n][s] = x => pa[x] = n
        BY <1>1, Links
      <3>3. QED
        BY <3>1, <3>2
    <2>3. QED
      BY <2>1, <2>2 DEF Colored
  <1> HIDE DEF a
  <1>3. co2 = [co EXCEPT ![a] = "black"]
    BY DEF a
  <1>4. Ending(ch, pa, co, L, h, Nil, d, a, co2)
    BY <1>1, <1>3 DEF Ending
  <1>5. QED
    BY <1>2, <1>4, DoneFits

\* An element that is in no tree may get any links and color.
LEMMA ResetFits ==
  ASSUME NEW ch, NEW pa, NEW ro, NEW L, NEW D, Shape(ch, pa, ro, L, D),
         NEW co, NEW h, NEW d, Weighed(ch, co, L, h, Nil, d), Colored(ch, ro, co, L, Nil, Nil),
         NEW e \in Elems \ L, NEW ch2, ch2 = [ch EXCEPT ![e] = NoLinks],
         NEW co2, co2 = [co EXCEPT ![e] = "red"], NEW f
  PROVE  Weighed(ch2, co2, L, h, Nil, f) /\ Colored(ch2, ro, co2, L, Nil, Nil)
  <1>1. L \subseteq Node /\ Nil \notin L /\ Nil \in Node /\ e \in Node /\ e # Nil
        /\ ch \in [Node -> [Dirs -> Node]] /\ co \in [Node -> {"red", "black"}] /\ co[Nil] = "black"
    BY Nodes, TreesAssumption DEF Node, Shape, Typed, Colored
  <1>2. /\ co2 \in [Node -> {"red", "black"}] /\ co2[Nil] = "black"
        /\ \A m \in L \cup {Nil} : co2[m] = co[m] /\ ch2[m] = ch[m]
    BY <1>1
  <1>3. \A m \in L : \A s \in Dirs : ch[m][s] \in L \cup {Nil} /\ ch2[m][s] = ch[m][s]
    BY <1>2, Links
  <1>4. \A t \in Trees : ro[t] \in L \cup {Nil}
    BY Links
  <1>5. Weighed(ch2, co2, L, h, Nil, f)
    <2>1. \A m \in L : \A s \in Dirs : Gap(m, s, Nil, f) = Gap(m, s, Nil, d)
      BY <1>1 DEF Gap
    <2>2. QED
      BY <1>2, <1>3, <2>1 DEF Weighed
  <1>6. Colored(ch2, ro, co2, L, Nil, Nil)
    BY <1>1, <1>2, <1>3, <1>4 DEF Colored
  <1>7. QED
    BY <1>5, <1>6

\* Insert and Place: a red leaf weighs what the empty place did.
LEMMA LeafFits ==
  ASSUME NEW ch, NEW pa, NEW ro, NEW L, NEW D, Shape(ch, pa, ro, L, D),
         NEW co, NEW h, NEW d, Weighed(ch, co, L, h, Nil, d), Colored(ch, ro, co, L, Nil, Nil),
         NEW e \in Elems \ L, co[e] = "red",
         NEW ch2, ch2[e] = NoLinks,
         \A m \in L : \A s \in Dirs : ch2[m][s] = ch[m][s] \/ (ch[m][s] = Nil /\ ch2[m][s] = e),
         NEW ro2, \A t \in Trees : ro2[t] = ro[t] \/ ro2[t] = e, NEW f
  PROVE  Fits(ch2, ro2, co, L \cup {e}, e, Nil, Nil, f)
  <1> DEFINE h2 == [h EXCEPT ![e] = 0]
  <1>1. L \subseteq Node /\ Nil \notin L /\ Nil \in Node /\ e \in Node /\ e # Nil
        /\ co \in [Node -> {"red", "black"}] /\ co[Nil] = "black"
        /\ h \in [Node -> Nat] /\ h[Nil] = 0
    BY Nodes, TreesAssumption DEF Node, Colored, Weighed
  <1>2. h2 \in [Node -> Nat] /\ h2[e] = 0 /\ h2[Nil] = 0 /\ \A m \in L : h2[m] = h[m]
    BY <1>1
  <1> HIDE DEF h2
  <1>3. \A m \in L : \A s \in Dirs : ch[m][s] \in L \cup {Nil}
    BY Links
  <1>4. \A s \in Dirs : ch2[e][s] = Nil
    BY DEF NoLinks
  <1>5. ASSUME NEW m \in L \cup {e}, NEW s \in Dirs
        PROVE  h2[m] = h2[ch2[m][s]] + Gap(m, s, Nil, f) + Weight(co[m])
    <2>1. Gap(m, s, Nil, f) = 0
      BY <1>1 DEF Gap
    <2>2. CASE m = e
      BY <1>2, <1>4, <2>1, <2>2 DEF Weight
    <2>3. CASE m \in L
      <3>1. h[m] = h[ch[m][s]] + Gap(m, s, Nil, d) + Weight(co[m]) /\ Gap(m, s, Nil, d) = 0
        BY <1>1, <2>3 DEF Weighed, Gap
      <3>2. h2[ch2[m][s]] = h[ch[m][s]] /\ h2[m] = h[m]
        BY <1>1, <1>2, <1>3, <2>3
      <3>3. QED
        BY <2>1, <3>1, <3>2
    <2>4. QED
      BY <2>2, <2>3
  <1>6. Weighed(ch2, co, L \cup {e}, h2, Nil, f)
    BY <1>2, <1>5 DEF Weighed
  <1>7. Colored(ch2, ro2, co, L \cup {e}, e, Nil)
    <2>1. \A t \in Trees : co[ro2[t]] = "black" \/ ro2[t] = e
      BY <1>1 DEF Colored
    <2>2. ASSUME NEW m \in L \cup {e}, NEW s \in Dirs
          PROVE  co[m] = "black" \/ co[ch2[m][s]] = "black" \/ ch2[m][s] = e
      <3>1. CASE m = e
        BY <1>1, <1>4, <3>1
      <3>2. CASE m \in L
        BY <1>1, <3>2 DEF Colored
      <3>3. QED
        BY <3>1, <3>2
    <2>3. QED
      BY <1>1, <2>1, <2>2 DEF Colored
  <1>8. QED
    BY <1>2, <1>6, <1>7 DEF Fits

\* Splice: without a black node, the place where it was lacks one.
LEMMA SplicedFits ==
  ASSUME NEW ch, NEW pa, NEW ro, NEW L, NEW D, Shape(ch, pa, ro, L, D),
         NEW co, NEW h, NEW e, Weighed(ch, co, L, h, Nil, e), Colored(ch, ro, co, L, Nil, Nil),
         NEW n, NEW p, NEW s, NEW c, NEW ch2, NEW pa2, NEW ro2,
         Unlinked(ch, pa, ro, L, n, p, s, c, ch2, pa2, ro2),
         \E r \in Dirs : ch[n][r] = Nil /\ ch[n][Other(r)] = c
  PROVE  /\ co[n] = "black" => /\ Weighed(ch2, co, L \ {n}, h, p, s)
                               /\ Colored(ch2, ro2, co, L \ {n}, c, c)
                               /\ p # Nil => ch2[p][Other(s)] # c
         /\ co[n] # "black" => /\ \A f : Weighed(ch2, co, L \ {n}, h, Nil, f)
                               /\ Colored(ch2, ro2, co, L \ {n}, Nil, Nil)
  <1>1. /\ L \subseteq Node /\ Nil \notin L /\ Nil \in Node /\ n \in L /\ n \in Node /\ n # Nil
        /\ p \in L \cup {Nil} /\ c \in L \cup {Nil} /\ c # n /\ s \in Dirs
        /\ co \in [Node -> {"red", "black"}] /\ co[Nil] = "black"
        /\ h \in [Node -> Nat] /\ h[Nil] = 0
    BY Nodes DEF Unlinked, Colored, Weighed
  <1>2. /\ \A m \in L : \A r \in Dirs : h[m] = h[ch[m][r]] + Weight(co[m])
        /\ \A m \in L : \A r \in Dirs : co[m] = "black" \/ co[ch[m][r]] = "black"
        /\ \A t \in Trees : co[ro[t]] = "black"
    <2>1. \A m \in L : \A r \in Dirs : h[m] = h[ch[m][r]] + Weight(co[m])
      BY WeighedNone
    <2>2. QED
      BY <1>1, <2>1 DEF Colored
  <1>3. h[n] = h[c] + Weight(co[n])
    <2>1. PICK r \in Dirs : ch[n][r] = Nil /\ ch[n][Other(r)] = c
      OBVIOUS
    <2>2. Other(r) \in Dirs
      BY Directions
    <2>3. QED
      BY <1>1, <1>2, <2>1, <2>2
  <1>4. \A m \in L \ {n} : \A r \in Dirs :
          /\ ch2[m][r] = ch[m][r] \/ (m = p /\ r = s /\ ch2[m][r] = c /\ ch[m][r] = n)
          /\ m = p /\ r = s => ch2[m][r] = c /\ ch[m][r] = n
    <2>1. ASSUME NEW m \in L \ {n}, NEW r \in Dirs, m = p
          PROVE  IF r = s THEN ch2[m][r] = c /\ ch[m][r] = n ELSE ch2[m][r] = ch[m][r]
      <3>1. p # Nil /\ (r = s \/ r = Other(s))
        BY <1>1, <2>1, Directions
      <3>2. QED
        BY <2>1, <3>1 DEF Unlinked
    <2>2. ASSUME NEW m \in L \ {n}, NEW r \in Dirs, m # p
          PROVE  ch2[m][r] = ch[m][r]
      BY <1>1, <2>2 DEF Unlinked
    <2>3. QED
      BY <2>1, <2>2
  <1>5. \A t \in Trees : ro2[t] = ro[t] \/ ro2[t] = c
    BY DEF Unlinked
  <1>6. ASSUME co[n] = "black"
        PROVE  Weighed(ch2, co, L \ {n}, h, p, s)
    <2>1. ASSUME NEW m \in L \ {n}, NEW r \in Dirs
          PROVE  h[m] = h[ch2[m][r]] + Gap(m, r, p, s) + Weight(co[m])
      <3>1. h[m] = h[ch[m][r]] + Weight(co[m])
        BY <1>2
      <3>2. h[n] = h[c] + 1 /\ h[c] \in Nat
        BY <1>1, <1>3, <1>6 DEF Weight
      <3>3. CASE m = p /\ r = s
        <4>1. Gap(m, r, p, s) = 1 /\ ch2[m][r] = c /\ ch[m][r] = n
          BY <1>4, <3>3 DEF Gap
        <4>2. QED
          BY <3>1, <3>2, <4>1
      <3>4. CASE ~(m = p /\ r = s)
        <4>1. Gap(m, r, p, s) = 0 /\ ch2[m][r] = ch[m][r]
          BY <1>4, <3>4 DEF Gap
        <4>2. ch[m][r] \in Node
          BY <1>1, Links
        <4>3. h[ch[m][r]] \in Nat
          BY <1>1, <4>2
        <4>4. QED
          BY <3>1, <4>1, <4>3
      <3>5. QED
        BY <3>3, <3>4
    <2>2. QED
      BY <1>1, <2>1 DEF Weighed
  <1>7. Colored(ch2, ro2, co, L \ {n}, c, c)
    <2>1. \A t \in Trees : co[ro2[t]] = "black" \/ ro2[t] = c
      BY <1>2, <1>5
    <2>2. \A m \in L \ {n} : \A r \in Dirs :
            co[m] = "black" \/ co[ch2[m][r]] = "black" \/ ch2[m][r] = c
      BY <1>2, <1>4
    <2>3. QED
      BY <1>1, <2>1, <2>2 DEF Colored
  <1>8. ASSUME co[n] = "black", p # Nil
        PROVE  ch2[p][Other(s)] # c
    <2> DEFINE w == ch[p][Other(s)]
    <2>1. Other(s) \in Dirs /\ p \in L /\ ch[p][s] = n /\ ch2[p][Other(s)] = w
      BY <1>1, <1>8, Directions DEF Unlinked
    <2>2. h[p] = h[w] + Weight(co[p]) /\ h[p] = h[n] + Weight(co[p])
      <3>1. \A r \in Dirs : h[p] = h[ch[p][r]] + Weight(co[p])
        BY <1>2, <2>1
      <3>2. QED
        BY <1>1, <2>1, <3>1
    <2>3. w \in Node
      BY <1>1, <2>1, Links
    <2>4. h[w] \in Nat /\ h[n] \in Nat /\ h[c] \in Nat /\ Weight(co[p]) \in {0, 1}
      BY <1>1, <2>3 DEF Weight
    <2>5. h[n] = h[c] + 1
      BY <1>3, <1>8 DEF Weight
    <2>6. h[w] # h[c]
      BY <2>2, <2>4, <2>5
    <2>7. QED
      BY <2>1, <2>6
  <1>9. ASSUME co[n] # "black", NEW f
        PROVE  Weighed(ch2, co, L \ {n}, h, Nil, f)
    <2>1. ASSUME NEW m \in L \ {n}, NEW r \in Dirs
          PROVE  h[m] = h[ch2[m][r]] + Gap(m, r, Nil, f) + Weight(co[m])
      <3>1. h[m] = h[ch[m][r]] + Weight(co[m])
        BY <1>2
      <3>2. h[n] = h[c] /\ h[c] \in Nat
        BY <1>1, <1>3, <1>9 DEF Weight
      <3>3. h[ch2[m][r]] = h[ch[m][r]]
        BY <1>4, <3>2
      <3>4. Gap(m, r, Nil, f) = 0
        BY <1>1 DEF Gap
      <3>5. ch[m][r] \in Node
        BY <1>1, Links
      <3>6. h[ch[m][r]] \in Nat /\ Weight(co[m]) \in {0, 1}
        BY <1>1, <3>5 DEF Weight
      <3>7. QED
        BY <3>1, <3>3, <3>4, <3>6
    <2>2. QED
      BY <1>1, <2>1 DEF Weighed
  <1>10. ASSUME co[n] # "black"
         PROVE  Colored(ch2, ro2, co, L \ {n}, Nil, Nil)
    <2>1. co[n] = "red" /\ \A t \in Trees : ro[t] # n
      BY <1>1, <1>2, <1>10
    <2>2. p # Nil /\ ro2 = ro
      BY <1>1, <2>1, Nodes DEF Unlinked
    <2>3. co[p] = "black"
      <3>1. p \in L /\ ch[p][s] = n
        BY <1>1, <2>2 DEF Unlinked
      <3>2. QED
        BY <1>1, <1>2, <1>10, <3>1
    <2>4. \A m \in L \ {n} : \A r \in Dirs : co[m] = "black" \/ co[ch2[m][r]] = "black"
      BY <1>2, <1>4, <2>3
    <2>5. QED
      BY <1>1, <1>2, <2>2, <2>4 DEF Colored
  <1>11. QED
    BY <1>6, <1>7, <1>8, <1>9, <1>10

\* Replace: the other element weighs what the first one did.
LEMMA ReplacedFits ==
  ASSUME NEW ch, NEW pa, NEW ro, NEW L, NEW D, Shape(ch, pa, ro, L, D),
         NEW co, NEW h, NEW e, Weighed(ch, co, L, h, Nil, e), Colored(ch, ro, co, L, Nil, Nil),
         NEW a \in L, NEW b \in Elems, b \notin L, NEW ch2, NEW pa2, NEW ro2,
         Renamed(ch, pa, ro, L, a, b, ch2, pa2, ro2),
         NEW co2, co2 = [co EXCEPT ![b] = co[a]], NEW f
  PROVE  Fits(ch2, ro2, co2, (L \ {a}) \cup {b}, Nil, Nil, Nil, f)
  <1> DEFINE h2 == [h EXCEPT ![b] = h[a]]
             M == (L \ {a}) \cup {b}
  <1>1. /\ L \subseteq Node /\ Nil \notin L /\ Nil \in Node /\ a # Nil /\ b # Nil /\ b # a
        /\ a \in Node /\ b \in Node
        /\ co \in [Node -> {"red", "black"}] /\ co[Nil] = "black"
        /\ h \in [Node -> Nat] /\ h[Nil] = 0
    BY Nodes, TreesAssumption DEF Node, Colored, Weighed
  <1>2. /\ h2 \in [Node -> Nat] /\ h2[Nil] = 0 /\ h2[b] = h[a]
        /\ \A x \in Node : x # b => h2[x] = h[x]
    BY <1>1
  <1>3. /\ co2 \in [Node -> {"red", "black"}] /\ co2[Nil] = "black" /\ co2[b] = co[a]
        /\ \A x \in Node : x # b => co2[x] = co[x]
    BY <1>1
  <1> HIDE DEF h2
  <1>4. \A x \in L \cup {Nil} : h2[Sub(a, b, x)] = h[x] /\ co2[Sub(a, b, x)] = co[x]
    BY <1>1, <1>2, <1>3 DEF Sub
  <1>5. \A m \in M : \E x \in L : m = Sub(a, b, x)
    BY DEF Sub
  <1>6. \A m \in L : \A s \in Dirs : ch[m][s] \in L \cup {Nil}
    BY Links
  <1>7. \A t \in Trees : ro[t] \in L \cup {Nil}
    BY Links
  <1>8. ASSUME NEW m \in M, NEW s \in Dirs
        PROVE  /\ h2[m] = h2[ch2[m][s]] + Gap(m, s, Nil, f) + Weight(co2[m])
               /\ co2[m] = "black" \/ co2[ch2[m][s]] = "black"
    <2>1. PICK x \in L : m = Sub(a, b, x)
      BY <1>5
    <2>2. ch2[m][s] = Sub(a, b, ch[x][s])
      BY <2>1 DEF Renamed
    <2>3. h[x] = h[ch[x][s]] + Weight(co[x])
      BY WeighedNone
    <2>4. co[x] = "black" \/ co[ch[x][s]] = "black"
      BY <1>1 DEF Colored
    <2>5. Gap(m, s, Nil, f) = 0
      BY <1>1 DEF Gap
    <2>6. /\ h2[m] = h[x] /\ co2[m] = co[x]
          /\ h2[ch2[m][s]] = h[ch[x][s]] /\ co2[ch2[m][s]] = co[ch[x][s]]
      BY <1>4, <1>6, <2>1, <2>2
    <2>7. h[ch[x][s]] \in Nat
      BY <1>1, <1>6
    <2>8. QED
      BY <2>3, <2>4, <2>5, <2>6, <2>7
  <1>9. \A t \in Trees : co2[ro2[t]] = "black"
    <2>1. ASSUME NEW t \in Trees
          PROVE  co2[ro2[t]] = "black"
      <3>1. ro2[t] = Sub(a, b, ro[t]) /\ co[ro[t]] = "black"
        BY <1>1, <1>7 DEF Renamed, Colored
      <3>2. QED
        BY <1>4, <1>7, <3>1
    <2>2. QED
      BY <2>1
  <1>10. Weighed(ch2, co2, M, h2, Nil, f)
    BY <1>2, <1>8 DEF Weighed
  <1>11. Colored(ch2, ro2, co2, M, Nil, Nil)
    BY <1>3, <1>8, <1>9 DEF Colored
  <1>12. QED
    BY <1>2, <1>10, <1>11 DEF Fits

LEMMA FitsNone ==
  ASSUME NEW ch, NEW pa, NEW ro, NEW L, NEW D, Shape(ch, pa, ro, L, D),
         NEW co, NEW x, NEW y, NEW d, Fits(ch, ro, co, L, x, y, Nil, d), NEW e
  PROVE  Fits(ch, ro, co, L, x, y, Nil, e)
  <1>1. PICK h \in [Node -> Nat] : Weighed(ch, co, L, h, Nil, d)
    BY DEF Fits
  <1>2. Weighed(ch, co, L, h, Nil, e)
    BY <1>1, WeighedNone
  <1>3. QED
    BY <1>2 DEF Fits

\* Where a tree is deepest: a set of nodes has one with no other of them below.
LEMMA Deepest ==
  ASSUME NEW ch, NEW pa, NEW ro, NEW L, NEW D, Shape(ch, pa, ro, L, D),
         NEW T \in SUBSET Node, T # {}
  PROVE  \E n \in T : \A m \in T : ~(D[m] \subseteq D[n] /\ D[m] # D[n])
  <1> DEFINE R == StrictSubsetOrdering(Elems)
             U == {D[n] : n \in T}
  <1>1. \A n \in T : D[n] \in SUBSET Elems
    BY Nodes
  <1>2. \A n \in T : D[n] \in FiniteSubsetsOf(Elems)
    BY <1>1, TreesAssumption, FS_Subset DEF FiniteSubsetsOf
  <1>3. U \subseteq FiniteSubsetsOf(Elems) /\ U # {}
    BY <1>2
  <1>4. IsWellFoundedOn(R, FiniteSubsetsOf(Elems))
    BY FS_StrictSubsetOrderingWellFounded
  <1>5. PICK x \in U : \A y \in U : ~ (<<y, x>> \in R)
    <2> HIDE DEF R, U
    <2>1. QED
      BY <1>3, <1>4, WFMin
  <1>6. PICK n \in T : x = D[n]
    BY <1>5
  <1>7. ASSUME NEW m \in T, D[m] \subseteq D[n], D[m] # D[n]
        PROVE  FALSE
    <2>1. <<D[m], D[n]>> \in R
      BY <1>1, <1>7 DEF StrictSubsetOrdering
    <2>2. QED
      BY <1>5, <1>6, <2>1
  <1>8. QED
    BY <1>7

=============================================================================
