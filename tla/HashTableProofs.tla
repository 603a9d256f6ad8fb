-------------------------- MODULE HashTableProofs --------------------------
(***************************************************************************)
(* The hash table of HashTable is the set of Table.                        *)
(*                                                                         *)
(* The first part is about lists: what mylist_insert, mylist_remove and    *)
(* mylist_init do to a memory whose lists are well formed.  Two functions  *)
(* describe the lists of a memory m.  In[e] is the list that element e is  *)
(* in, or Null, and Behind[e] is the set of elements behind e in it.       *)
(***************************************************************************)
EXTENDS HashTable, FiniteSetTheorems, TLAPS

AllBuckets == UNION {Buckets(k) : k \in Counts}
Nodes      == Elems \cup {Null} \cup Heads(AllBuckets) \cup Tails(AllBuckets)

Inside(In)     == {e \in Elems : In[e] # Null}
Of(In, x)      == {e \in Elems : In[e] = x}
From(Behind, e) == IF e \in Elems THEN {e} \cup Behind[e] ELSE {}

Memory(m, X) ==
  /\ X \in SUBSET AllBuckets
  /\ m \in [Elems \cup Heads(X) \cup Tails(X) -> [prev : Nodes, next : Nodes]]

Ghosts(X, In, Behind) ==
  /\ In \in [Elems -> X \cup {Null}]
  /\ Behind \in [Elems -> SUBSET Elems]

HeadsOK(m, X, In, Behind) ==
  \A x \in X :
    /\ m[Head_(x)].next \in Of(In, x) \cup {Tail_(x)}
    /\ m[m[Head_(x)].next].prev = Head_(x)
    /\ Of(In, x) = From(Behind, m[Head_(x)].next)

TailsOK(m, X, In) ==
  \A x \in X :
    /\ m[Tail_(x)].prev \in Of(In, x) \cup {Head_(x)}
    /\ m[m[Tail_(x)].prev].next = Tail_(x)

NextOK(m, In, Behind) ==
  \A e \in Inside(In) :
    /\ m[e].next \in Of(In, In[e]) \cup {Tail_(In[e])}
    /\ m[m[e].next].prev = e
    /\ Behind[e] = From(Behind, m[e].next)
    /\ e \notin Behind[e]

PrevOK(m, In) ==
  \A e \in Inside(In) :
    /\ m[e].prev \in Of(In, In[e]) \cup {Head_(In[e])}
    /\ m[m[e].prev].next = e

OutOK(m, In) ==
  \A e \in Elems \ Inside(In) : m[e].prev \in DOMAIN m => m[m[e].prev].next # e

Chains(m, X, In, Behind) ==
  /\ Memory(m, X) /\ Ghosts(X, In, Behind)
  /\ HeadsOK(m, X, In, Behind) /\ TailsOK(m, X, In)
  /\ NextOK(m, In, Behind) /\ PrevOK(m, In) /\ OutOK(m, In)

\* Elements, headers and Null are different things.
LEMMA NodesDiffer ==
  ASSUME HashAssumption
  PROVE  /\ \A x, y : Head_(x) # Tail_(y)
         /\ \A x, y : Head_(x) = Head_(y) => x = y
         /\ \A x, y : Tail_(x) = Tail_(y) => x = y
         /\ \A x \in AllBuckets : Head_(x) \notin Elems /\ Tail_(x) \notin Elems
                                  /\ x # Null /\ Head_(x) # Null /\ Tail_(x) # Null
         /\ Null \notin Elems
BY DEF HashAssumption, AllBuckets, Head_, Tail_

\* The elements of the table are those in a list.
LEMMA HangsInside ==
  ASSUME HashAssumption, NEW m, NEW X, NEW In, NEW Behind, Chains(m, X, In, Behind)
  PROVE  {e \in Elems : m[e].prev \in DOMAIN m /\ m[m[e].prev].next = e} = Inside(In)
<1>1. ASSUME NEW e \in Inside(In)  PROVE m[e].prev \in DOMAIN m /\ m[m[e].prev].next = e
  BY <1>1 DEF Chains, PrevOK, Memory, Ghosts, Inside, Of, Heads
<1>2. ASSUME NEW e \in Elems, e \notin Inside(In)
      PROVE  ~(m[e].prev \in DOMAIN m /\ m[m[e].prev].next = e)
  BY <1>2 DEF Chains, OutOK
<1> QED  BY <1>1, <1>2 DEF Inside

\* The places that a list has: its elements and headers.
LEMMA Places ==
  ASSUME NEW m, NEW X, NEW In, NEW Behind, Chains(m, X, In, Behind)
  PROVE  /\ DOMAIN m = Elems \cup Heads(X) \cup Tails(X)
         /\ \A x \in X : Head_(x) \in DOMAIN m /\ Tail_(x) \in DOMAIN m
         /\ \A e \in Elems : e \in DOMAIN m
         /\ \A e \in Inside(In) : In[e] \in X /\ e \in Elems
         /\ \A e \in Inside(In) : m[e].next \in DOMAIN m /\ m[e].prev \in DOMAIN m
         /\ \A x \in X : m[Head_(x)].next \in DOMAIN m /\ m[Tail_(x)].prev \in DOMAIN m
BY DEF Chains, Memory, Ghosts, HeadsOK, TailsOK, NextOK, PrevOK, Inside, Of, Heads, Tails

\* What mylist_remove assigns.
LEMMA UnlinkedLinks ==
  ASSUME HashAssumption, NEW m, NEW X, Memory(m, X), NEW e \in DOMAIN m,
         m[e].next \in DOMAIN m, m[e].prev \in DOMAIN m
  PROVE  /\ Memory(Unlinked(m, e), X)
         /\ DOMAIN Unlinked(m, e) = DOMAIN m
         /\ \A x \in DOMAIN m :
              /\ Unlinked(m, e)[x].next = IF x = m[e].prev THEN m[e].next ELSE m[x].next
              /\ Unlinked(m, e)[x].prev = IF x = m[e].next THEN m[e].prev ELSE m[x].prev
<1> DEFINE D == Elems \cup Heads(X) \cup Tails(X)
           R == [prev : Nodes, next : Nodes]
           p == m[e].prev
           q == m[e].next
           m1 == [m EXCEPT ![p].next = q]
           m2 == [m1 EXCEPT ![q].prev = p]
<1>0. m \in [D -> R] /\ p \in D /\ q \in D /\ DOMAIN m = D
  BY DEF Memory
<1>1. p \in Nodes /\ q \in Nodes
  BY <1>0
<1>2. m1 \in [D -> R]
      /\ \A x \in D : m1[x].next = (IF x = p THEN q ELSE m[x].next)
                      /\ m1[x].prev = m[x].prev
  BY <1>0, <1>1
<1>3. m2 \in [D -> R]
      /\ \A x \in D : m2[x].prev = (IF x = q THEN p ELSE m1[x].prev)
                      /\ m2[x].next = m1[x].next
  BY <1>0, <1>1, <1>2, SMTT(30)
<1>4. Unlinked(m, e) = m2
  BY <1>0, <1>1 DEF Unlinked
<1> HIDE DEF m2, m1
<1> QED  BY <1>0, <1>2, <1>3, <1>4 DEF Memory

\* mylist_remove takes an element out of its list.
LEMMA UnlinkKeeps ==
  ASSUME HashAssumption, NEW m, NEW X, NEW In, NEW Behind, Chains(m, X, In, Behind),
         NEW e \in Inside(In)
  PROVE  Chains(Unlinked(m, e), X, [In EXCEPT ![e] = Null], [f \in Elems |-> Behind[f] \ {e}])
<1> DEFINE m2 == Unlinked(m, e)
           In2 == [In EXCEPT ![e] = Null]
           Behind2 == [f \in Elems |-> Behind[f] \ {e}]
           p == m[e].prev
           q == m[e].next
           x == In[e]
<1>0. /\ e \in Elems /\ x \in X /\ X \in SUBSET AllBuckets
      /\ p \in Of(In, x) \cup {Head_(x)} /\ q \in Of(In, x) \cup {Tail_(x)}
      /\ m[p].next = e /\ m[q].prev = e /\ p \in DOMAIN m /\ q \in DOMAIN m
  BY Places DEF Chains, NextOK, PrevOK, Memory
<1>1. /\ Memory(m2, X) /\ DOMAIN m2 = DOMAIN m
      /\ \A y \in DOMAIN m : /\ m2[y].next = IF y = p THEN q ELSE m[y].next
                             /\ m2[y].prev = IF y = q THEN p ELSE m[y].prev
  BY <1>0, UnlinkedLinks, Places DEF Chains
<1>2. /\ Ghosts(X, In2, Behind2)
      /\ Inside(In2) = Inside(In) \ {e}
      /\ \A y \in X : Of(In2, y) = Of(In, y) \ {e}
      /\ \A f \in Elems : f # e => In2[f] = In[f]
  BY <1>0, NodesDiffer DEF Chains, Ghosts, Inside, Of
<1>3. /\ q # e /\ p # e
      /\ \A f \in Elems : f # e => From(Behind2, f) = From(Behind, f) \ {e}
      /\ From(Behind2, q) = From(Behind, e) \ {e}
  <2>1. Behind[e] = From(Behind, q) /\ e \notin Behind[e]
    BY <1>0 DEF Chains, NextOK
  <2>2. q # e /\ p # e
    BY <2>1, <1>0, NodesDiffer DEF From
  <2>3. \A f \in Elems : From(Behind2, f) = {f} \cup (Behind[f] \ {e})
    BY DEF From
  <2> QED  BY <2>1, <2>2, <2>3, <1>0, NodesDiffer DEF From, Of
<1> HIDE DEF m2, In2, Behind2
<1>4. HeadsOK(m2, X, In2, Behind2)
  <2> SUFFICES ASSUME NEW y \in X
               PROVE  /\ m2[Head_(y)].next \in Of(In2, y) \cup {Tail_(y)}
                      /\ m2[m2[Head_(y)].next].prev = Head_(y)
                      /\ Of(In2, y) = From(Behind2, m2[Head_(y)].next)
    BY DEF HeadsOK
  <2> DEFINE f == m[Head_(y)].next
  <2>1. /\ f \in Of(In, y) \cup {Tail_(y)} /\ m[f].prev = Head_(y)
        /\ Of(In, y) = From(Behind, f) /\ Head_(y) \in DOMAIN m /\ f \in DOMAIN m
    BY Places DEF Chains, HeadsOK
  <2>2. CASE p = Head_(y)
    BY <2>1, <2>2, <1>0, <1>1, <1>2, <1>3, NodesDiffer DEF Of
  <2>3. CASE p # Head_(y)
    <3>1. f # e /\ f # q
      BY <2>1, <2>3, <1>0, NodesDiffer
    <3> QED  BY <3>1, <2>1, <2>3, <1>0, <1>1, <1>2, <1>3, NodesDiffer DEF Of, From
  <2> QED  BY <2>2, <2>3
<1>5. NextOK(m2, In2, Behind2)
  <2> SUFFICES ASSUME NEW f \in Inside(In2)
               PROVE  /\ m2[f].next \in Of(In2, In2[f]) \cup {Tail_(In2[f])}
                      /\ m2[m2[f].next].prev = f
                      /\ Behind2[f] = From(Behind2, m2[f].next)
                      /\ f \notin Behind2[f]
    BY DEF NextOK
  <2> DEFINE g == m[f].next
  <2>0. /\ f \in Inside(In) /\ f \in Elems /\ f # e
        /\ In2[f] = In[f] /\ In[f] \in X
    BY <1>2, Places DEF Inside
  <2>1. /\ f \in DOMAIN m /\ g \in DOMAIN m
        /\ g \in Of(In, In[f]) \cup {Tail_(In[f])} /\ m[g].prev = f
        /\ Behind[f] = From(Behind, g) /\ f \notin Behind[f]
    BY <2>0, Places DEF Chains, NextOK
  <2>2. Behind2[f] = Behind[f] \ {e}
    BY <2>0 DEF Behind2
  <2>3. CASE p = f
    BY <2>0, <2>1, <2>2, <2>3, <1>0, <1>1, <1>2, <1>3, NodesDiffer DEF Of
  <2>4. CASE p # f
    <3>1. g # e /\ g # q
      BY <2>0, <2>1, <2>4, <1>0
    <3> QED  BY <3>1, <2>0, <2>1, <2>2, <2>4, <1>0, <1>1, <1>2, <1>3, NodesDiffer DEF Of, From
  <2> QED  BY <2>3, <2>4
<1>6. TailsOK(m2, X, In2)
  <2> SUFFICES ASSUME NEW y \in X
               PROVE  /\ m2[Tail_(y)].prev \in Of(In2, y) \cup {Head_(y)}
                      /\ m2[m2[Tail_(y)].prev].next = Tail_(y)
    BY DEF TailsOK
  <2> DEFINE f == m[Tail_(y)].prev
  <2>1. /\ f \in Of(In, y) \cup {Head_(y)} /\ m[f].next = Tail_(y)
        /\ Tail_(y) \in DOMAIN m /\ f \in DOMAIN m
    BY Places DEF Chains, TailsOK
  <2>2. CASE q = Tail_(y)
    BY <2>1, <2>2, <1>0, <1>1, <1>2, <1>3, NodesDiffer DEF Of
  <2>3. CASE q # Tail_(y)
    BY <2>1, <2>3, <1>0, <1>1, <1>2, <1>3, NodesDiffer DEF Of
  <2> QED  BY <2>2, <2>3
<1>7. PrevOK(m2, In2)
  <2> SUFFICES ASSUME NEW f \in Inside(In2)
               PROVE  /\ m2[f].prev \in Of(In2, In2[f]) \cup {Head_(In2[f])}
                      /\ m2[m2[f].prev].next = f
    BY DEF PrevOK
  <2> DEFINE g == m[f].prev
  <2>0. /\ f \in Inside(In) /\ f \in Elems /\ f # e
        /\ In2[f] = In[f] /\ In[f] \in X
    BY <1>2, Places DEF Inside
  <2>1. /\ f \in DOMAIN m /\ g \in DOMAIN m
        /\ g \in Of(In, In[f]) \cup {Head_(In[f])} /\ m[g].next = f
    BY <2>0, Places DEF Chains, PrevOK
  <2>2. CASE q = f
    BY <2>0, <2>1, <2>2, <1>0, <1>1, <1>2, <1>3, NodesDiffer DEF Of
  <2>3. CASE q # f
    BY <2>0, <2>1, <2>3, <1>0, <1>1, <1>2, <1>3, NodesDiffer DEF Of
  <2> QED  BY <2>2, <2>3
<1>8. OutOK(m2, In2)
  <2> SUFFICES ASSUME NEW f \in Elems, f \notin Inside(In2), m2[f].prev \in DOMAIN m
               PROVE  m2[m2[f].prev].next # f
    BY <1>1 DEF OutOK
  <2>0. f \in DOMAIN m
    BY Places
  <2>1. f \in DOMAIN m /\ f # q
    <3>1. q \in Elems => q \in Inside(In) /\ q # e
      BY <1>0, <1>3, NodesDiffer DEF Of, Inside
    <3> QED  BY <3>1, <2>0, <1>2
  <2>2. CASE f = e
    BY <2>1, <2>2, <1>0, <1>1, <1>3
  <2>3. CASE f # e
    BY <2>1, <2>3, <1>0, <1>1, <1>2 DEF Chains, OutOK
  <2> QED  BY <2>2, <2>3
<1> QED
  BY <1>1, <1>2, <1>4, <1>5, <1>6, <1>7, <1>8 DEF Chains, m2, In2, Behind2

\* What mylist_push_front assigns.
LEMMA PushedLinks ==
  ASSUME HashAssumption, NEW m, NEW X, Memory(m, X), NEW e \in Elems, NEW x \in X,
         m[Head_(x)].next \in DOMAIN m, m[Head_(x)].next # e,
         m[m[Head_(x)].next].prev = Head_(x)
  PROVE  /\ Memory(PushFront(m, x, e), X)
         /\ DOMAIN PushFront(m, x, e) = DOMAIN m
         /\ \A y \in DOMAIN m :
              /\ PushFront(m, x, e)[y].next = (IF y = Head_(x) THEN e
                                               ELSE IF y = e THEN m[Head_(x)].next
                                               ELSE m[y].next)
              /\ PushFront(m, x, e)[y].prev = (IF y = m[Head_(x)].next THEN e
                                               ELSE IF y = e THEN Head_(x)
                                               ELSE m[y].prev)
<1> DEFINE D == Elems \cup Heads(X) \cup Tails(X)
           R == [prev : Nodes, next : Nodes]
           p == Head_(x)
           q == m[p].next
           m0 == [m EXCEPT ![e] = [prev |-> p, next |-> q]]
           m1 == [m0 EXCEPT ![p].next = e]
           m2 == [m1 EXCEPT ![q].prev = e]
<1>0. /\ m \in [D -> R] /\ p \in D /\ q \in D /\ e \in D /\ DOMAIN m = D
      /\ p # e
  BY NodesDiffer DEF Memory, Heads
<1>1. p \in Nodes /\ q \in Nodes /\ e \in Nodes
  BY <1>0 DEF Memory, Nodes, Heads
<1>2. m0 \in [D -> R]
      /\ \A y \in D : m0[y].next = (IF y = e THEN q ELSE m[y].next)
                      /\ m0[y].prev = (IF y = e THEN p ELSE m[y].prev)
  BY <1>0, <1>1
<1>3. m1 \in [D -> R]
      /\ \A y \in D : m1[y].next = (IF y = p THEN e ELSE m0[y].next)
                      /\ m1[y].prev = m0[y].prev
  BY <1>0, <1>1, <1>2
<1>4. m2 \in [D -> R]
      /\ \A y \in D : m2[y].prev = (IF y = q THEN e ELSE m1[y].prev)
                      /\ m2[y].next = m1[y].next
  BY <1>0, <1>1, <1>3
<1>5. PushFront(m, x, e) = m2
  BY <1>0, <1>1 DEF PushFront, Linked, Begin
<1> HIDE DEF m2, m1, m0
<1> QED  BY <1>0, <1>2, <1>3, <1>4, <1>5 DEF Memory

\* mylist_push_front puts an element that is in no list at the front of one.
LEMMA PushKeeps ==
  ASSUME HashAssumption, NEW m, NEW X, NEW In, NEW Behind, Chains(m, X, In, Behind),
         NEW e \in Elems, In[e] = Null, NEW x \in X
  PROVE  Chains(PushFront(m, x, e), X, [In EXCEPT ![e] = x],
                [Behind EXCEPT ![e] = Of(In, x)])
<1> DEFINE m2 == PushFront(m, x, e)
           In2 == [In EXCEPT ![e] = x]
           Behind2 == [Behind EXCEPT ![e] = Of(In, x)]
           p == Head_(x)
           q == m[p].next
<1>0. /\ X \in SUBSET AllBuckets /\ x # Null
      /\ q \in Of(In, x) \cup {Tail_(x)} /\ m[q].prev = p /\ Of(In, x) = From(Behind, q)
      /\ p \in DOMAIN m /\ q \in DOMAIN m /\ e \in DOMAIN m
  <2>1. X \in SUBSET AllBuckets /\ x # Null
    BY NodesDiffer DEF Chains, Memory
  <2>2. q \in Of(In, x) \cup {Tail_(x)} /\ m[q].prev = p /\ Of(In, x) = From(Behind, q)
    BY DEF Chains, HeadsOK
  <2>3. p \in DOMAIN m /\ q \in DOMAIN m /\ e \in DOMAIN m
    BY Places
  <2> QED  BY <2>1, <2>2, <2>3
<1>00. q # e /\ p # e /\ e \notin Inside(In)
  BY <1>0, NodesDiffer DEF Of, Inside
<1>1. /\ Memory(m2, X) /\ DOMAIN m2 = DOMAIN m
      /\ \A y \in DOMAIN m :
           /\ m2[y].next = IF y = p THEN e ELSE IF y = e THEN q ELSE m[y].next
           /\ m2[y].prev = IF y = q THEN e ELSE IF y = e THEN p ELSE m[y].prev
  BY <1>0, <1>00, PushedLinks DEF Chains
<1>2. /\ Ghosts(X, In2, Behind2)
      /\ Inside(In2) = Inside(In) \cup {e}
      /\ \A y \in X : Of(In2, y) = IF y = x THEN Of(In, y) \cup {e} ELSE Of(In, y)
      /\ \A f \in Elems : f # e => In2[f] = In[f] /\ Behind2[f] = Behind[f]
      /\ In2[e] = x /\ Behind2[e] = Of(In, x)
  BY <1>0, NodesDiffer DEF Chains, Ghosts, Inside, Of
<1>3. /\ \A f : f # e => From(Behind2, f) = From(Behind, f)
      /\ From(Behind2, e) = Of(In, x) \cup {e}
      /\ \A y \in X : e \notin Of(In, y)
  <2>1. \A y \in X : e \notin Of(In, y)
    BY NodesDiffer, <1>0 DEF Of
  <2> QED  BY <2>1, <1>2, <1>0 DEF From
<1> HIDE DEF m2, In2, Behind2
<1>4. HeadsOK(m2, X, In2, Behind2)
  <2> SUFFICES ASSUME NEW y \in X
               PROVE  /\ m2[Head_(y)].next \in Of(In2, y) \cup {Tail_(y)}
                      /\ m2[m2[Head_(y)].next].prev = Head_(y)
                      /\ Of(In2, y) = From(Behind2, m2[Head_(y)].next)
    BY DEF HeadsOK
  <2> DEFINE f == m[Head_(y)].next
  <2>1. /\ f \in Of(In, y) \cup {Tail_(y)} /\ m[f].prev = Head_(y)
        /\ Of(In, y) = From(Behind, f) /\ Head_(y) \in DOMAIN m /\ f \in DOMAIN m
    BY Places DEF Chains, HeadsOK
  <2>2. CASE y = x
    BY <2>1, <2>2, <1>0, <1>00, <1>1, <1>2, <1>3, NodesDiffer DEF Of
  <2>3. CASE y # x
    <3>1. f # e /\ f # q /\ Head_(y) # p /\ Head_(y) # e
      BY <2>1, <2>3, <1>0, <1>3, NodesDiffer
    <3> QED  BY <3>1, <2>1, <2>3, <1>0, <1>1, <1>2, <1>3
  <2> QED  BY <2>2, <2>3
<1>5. NextOK(m2, In2, Behind2)
  <2> SUFFICES ASSUME NEW f \in Inside(In2)
               PROVE  /\ m2[f].next \in Of(In2, In2[f]) \cup {Tail_(In2[f])}
                      /\ m2[m2[f].next].prev = f
                      /\ Behind2[f] = From(Behind2, m2[f].next)
                      /\ f \notin Behind2[f]
    BY DEF NextOK
  <2>1. CASE f = e
    BY <2>1, <1>0, <1>00, <1>1, <1>2, <1>3
  <2>2. CASE f # e
    <3> DEFINE g == m[f].next
    <3>1. f \in Inside(In) /\ f \in Elems /\ In2[f] = In[f] /\ In[f] \in X
      BY <2>2, <1>2, Places DEF Inside
    <3>2. /\ f \in DOMAIN m /\ g \in DOMAIN m
          /\ g \in Of(In, In[f]) \cup {Tail_(In[f])} /\ m[g].prev = f
          /\ Behind[f] = From(Behind, g) /\ f \notin Behind[f]
      BY <3>1, Places DEF Chains, NextOK
    <3>3. g # e /\ g # q /\ f # p
      BY <3>1, <3>2, <1>0, <1>3, NodesDiffer
    <3> QED  BY <2>2, <3>1, <3>2, <3>3, <1>1, <1>2, <1>3
  <2> QED  BY <2>1, <2>2
<1>6. TailsOK(m2, X, In2)
  <2> SUFFICES ASSUME NEW y \in X
               PROVE  /\ m2[Tail_(y)].prev \in Of(In2, y) \cup {Head_(y)}
                      /\ m2[m2[Tail_(y)].prev].next = Tail_(y)
    BY DEF TailsOK
  <2> DEFINE f == m[Tail_(y)].prev
  <2>1. /\ f \in Of(In, y) \cup {Head_(y)} /\ m[f].next = Tail_(y)
        /\ Tail_(y) \in DOMAIN m /\ f \in DOMAIN m /\ Tail_(y) # e /\ f # e
    <3>1. f \in Of(In, y) \cup {Head_(y)} /\ m[f].next = Tail_(y)
      BY DEF Chains, TailsOK
    <3>2. Tail_(y) \in DOMAIN m /\ f \in DOMAIN m
      BY Places
    <3> QED  BY <3>1, <3>2, <1>0, <1>3, NodesDiffer
  <2>2. CASE q = Tail_(y)
    <3>1. y = x
      BY <2>2, <1>0, NodesDiffer DEF Of
    <3> QED  BY <3>1, <2>2, <2>1, <1>0, <1>00, <1>1, <1>2
  <2>3. CASE q # Tail_(y)
    <3>1. f # p
      BY <2>1, <2>3, <1>0
    <3> QED  BY <3>1, <2>1, <2>3, <1>1, <1>2
  <2> QED  BY <2>2, <2>3
<1>7. PrevOK(m2, In2)
  <2> SUFFICES ASSUME NEW f \in Inside(In2)
               PROVE  /\ m2[f].prev \in Of(In2, In2[f]) \cup {Head_(In2[f])}
                      /\ m2[m2[f].prev].next = f
    BY DEF PrevOK
  <2>1. CASE f = e
    BY <2>1, <1>0, <1>00, <1>1, <1>2
  <2>2. CASE f # e
    <3> DEFINE g == m[f].prev
    <3>1. f \in Inside(In) /\ f \in Elems /\ In2[f] = In[f] /\ In[f] \in X
      BY <2>2, <1>2, Places DEF Inside
    <3>2. /\ f \in DOMAIN m /\ g \in DOMAIN m
          /\ g \in Of(In, In[f]) \cup {Head_(In[f])} /\ m[g].next = f
      BY <3>1, Places DEF Chains, PrevOK
    <3>3. g # e
      BY <3>1, <3>2, <1>0, <1>3, NodesDiffer
    <3>4. CASE f = q
      <4>1. In[f] = x
        BY <3>4, <3>1, <1>0, NodesDiffer DEF Of
      <4> QED  BY <4>1, <3>4, <2>2, <3>1, <1>0, <1>00, <1>1, <1>2 DEF Of
    <3>5. CASE f # q
      <4>1. g # p
        BY <3>2, <3>5
      <4> QED  BY <4>1, <3>5, <2>2, <3>1, <3>2, <3>3, <1>1, <1>2
    <3> QED  BY <3>4, <3>5
  <2> QED  BY <2>1, <2>2
<1>8. OutOK(m2, In2)
  <2> SUFFICES ASSUME NEW f \in Elems, f \notin Inside(In2), m2[f].prev \in DOMAIN m
               PROVE  m2[m2[f].prev].next # f
    BY <1>1 DEF OutOK
  <2>0. f \in DOMAIN m
    BY Places
  <2>1. f \in DOMAIN m /\ f # e /\ f \notin Inside(In) /\ f # q
    <3>1. q \in Elems => q \in Inside(In)
      BY <1>0, NodesDiffer DEF Of, Inside
    <3> QED  BY <3>1, <2>0, <1>2
  <2>2. m2[f].prev = m[f].prev
    BY <2>1, <1>1
  <2> QED  BY <2>1, <2>2, <1>1 DEF Chains, OutOK
<1> QED
  BY <1>1, <1>2, <1>4, <1>5, <1>6, <1>7, <1>8 DEF Chains, m2, In2, Behind2

\* mylist_init leaves lists as they are that are empty already or others.
LEMMA FreshKeeps ==
  ASSUME HashAssumption, NEW m, NEW X, NEW In, NEW Behind, Chains(m, X, In, Behind),
         NEW Y \in SUBSET AllBuckets, \A x \in X \cap Y : IsEmpty(m, x)
  PROVE  Chains(Fresh(m, Y), X \cup Y, In, Behind)
<1> DEFINE m2 == Fresh(m, Y)
           D == Elems \cup Heads(X) \cup Tails(X)
           D2 == Elems \cup Heads(X \cup Y) \cup Tails(X \cup Y)
           R == [prev : Nodes, next : Nodes]
<1>0. /\ X \in SUBSET AllBuckets /\ m \in [D -> R] /\ DOMAIN m = D
      /\ In \in [Elems -> X \cup {Null}] /\ Behind \in [Elems -> SUBSET Elems]
  BY DEF Chains, Memory, Ghosts
<1>1. D2 = DOMAIN m \cup Heads(Y) \cup Tails(Y)
  BY <1>0 DEF Heads, Tails
<1>2. \A y \in AllBuckets : /\ Head_(y) \in Nodes /\ Tail_(y) \in Nodes
                            /\ Head_(y)[2] = y /\ Tail_(y)[2] = y
                            /\ (Head_(y) \in Heads(Y) <=> y \in Y)
                            /\ (Tail_(y) \in Tails(Y) <=> y \in Y)
                            /\ Head_(y) \notin Tails(Y) /\ Tail_(y) \notin Heads(Y)
  BY NodesDiffer DEF Nodes, Heads, Tails, Head_, Tail_
<1>3. Null \in Nodes
  BY DEF Nodes
<1>4. \A d \in D2 :
        /\ d \in Heads(Y) => m2[d] = [prev |-> Null, next |-> Tail_(d[2])]
        /\ d \notin Heads(Y) /\ d \in Tails(Y) => m2[d] = [prev |-> Head_(d[2]), next |-> Null]
        /\ d \notin Heads(Y) /\ d \notin Tails(Y) => m2[d] = m[d]
  BY <1>1 DEF Fresh
<1>5. m2 \in [D2 -> R]
  <2>1. \A d \in D2 : m2[d] \in R
    <3> SUFFICES ASSUME NEW d \in D2  PROVE m2[d] \in R
      OBVIOUS
    <3>1. CASE d \in Heads(Y)
      <4>1. PICK y \in Y : d = Head_(y)
        BY <3>1 DEF Heads
      <4>2. d[2] = y /\ Tail_(y) \in Nodes
        BY <4>1, <1>2
      <4>3. m2[d] = [prev |-> Null, next |-> Tail_(y)]
        BY <3>1, <4>2, <1>4
      <4> HIDE DEF m2
      <4> QED  BY <4>2, <4>3, <1>3
    <3>2. CASE d \notin Heads(Y) /\ d \in Tails(Y)
      <4>1. PICK y \in Y : d = Tail_(y)
        BY <3>2 DEF Tails
      <4>2. d[2] = y /\ Head_(y) \in Nodes
        BY <4>1, <1>2
      <4>3. m2[d] = [prev |-> Head_(y), next |-> Null]
        BY <3>2, <4>2, <1>4
      <4> HIDE DEF m2
      <4> QED  BY <4>2, <4>3, <1>3
    <3>3. CASE d \notin Heads(Y) /\ d \notin Tails(Y)
      BY <3>3, <1>0, <1>1, <1>4
    <3> QED  BY <3>1, <3>2, <3>3
  <2> QED  BY <2>1, <1>1 DEF Fresh
<1>6. \A y \in AllBuckets : y \in Y => m2[Head_(y)].next = Tail_(y) /\ m2[Tail_(y)].prev = Head_(y)
  <2> SUFFICES ASSUME NEW y \in Y
               PROVE  m2[Head_(y)].next = Tail_(y) /\ m2[Tail_(y)].prev = Head_(y)
    OBVIOUS
  <2>1. Head_(y) \in D2 /\ Tail_(y) \in D2 /\ Head_(y) \in Heads(Y) /\ Tail_(y) \in Tails(Y)
        /\ Tail_(y) \notin Heads(Y) /\ Head_(y)[2] = y /\ Tail_(y)[2] = y
    BY <1>2 DEF Heads, Tails
  <2>2. m2[Head_(y)] = [prev |-> Null, next |-> Tail_(y)]
        /\ m2[Tail_(y)] = [prev |-> Head_(y), next |-> Null]
    BY <2>1, <1>4
  <2> QED  BY <2>2
<1>7. \A y \in X : y \notin Y => m2[Head_(y)] = m[Head_(y)] /\ m2[Tail_(y)] = m[Tail_(y)]
  <2>1. \A y \in X : Head_(y) \in D2 /\ Tail_(y) \in D2
    BY DEF Heads, Tails
  <2> QED  BY <2>1, <1>0, <1>2, <1>4
<1>8. \A e \in Elems : m2[e] = m[e]
  <2>1. \A e \in Elems : e \notin Heads(Y) /\ e \notin Tails(Y)
    BY NodesDiffer DEF Heads, Tails
  <2> QED  BY <2>1, <1>4
<1>9. \A y \in X \cap Y : m[Head_(y)].next = Tail_(y) /\ Of(In, y) = {}
                          /\ m[Tail_(y)].prev = Head_(y)
  BY <1>0, NodesDiffer DEF Chains, HeadsOK, From, IsEmpty, Begin
<1>10. \A y \in Y \ X : Of(In, y) = {}
  BY <1>0, NodesDiffer DEF Of
<1> HIDE DEF m2
<1>11. HeadsOK(m2, X \cup Y, In, Behind)
  <2> SUFFICES ASSUME NEW y \in X \cup Y
               PROVE  /\ m2[Head_(y)].next \in Of(In, y) \cup {Tail_(y)}
                      /\ m2[m2[Head_(y)].next].prev = Head_(y)
                      /\ Of(In, y) = From(Behind, m2[Head_(y)].next)
    BY DEF HeadsOK
  <2>1. CASE y \in Y
    BY <2>1, <1>6, <1>9, <1>10, NodesDiffer DEF From
  <2>2. CASE y \notin Y
    BY <2>2, <1>7, <1>8 DEF Chains, HeadsOK, Of
  <2> QED  BY <2>1, <2>2
<1>12. TailsOK(m2, X \cup Y, In)
  <2> SUFFICES ASSUME NEW y \in X \cup Y
               PROVE  /\ m2[Tail_(y)].prev \in Of(In, y) \cup {Head_(y)}
                      /\ m2[m2[Tail_(y)].prev].next = Tail_(y)
    BY DEF TailsOK
  <2>1. CASE y \in Y
    BY <2>1, <1>6
  <2>2. CASE y \notin Y
    BY <2>2, <1>7, <1>8 DEF Chains, TailsOK, Of
  <2> QED  BY <2>1, <2>2
<1>13. ASSUME NEW e \in Inside(In)  PROVE In[e] \in X \ Y /\ e \in Elems
  BY <1>0, <1>9 DEF Inside, Of
<1>14. NextOK(m2, In, Behind)
  <2> SUFFICES ASSUME NEW e \in Inside(In)
               PROVE  /\ m2[e].next \in Of(In, In[e]) \cup {Tail_(In[e])}
                      /\ m2[m2[e].next].prev = e
                      /\ Behind[e] = From(Behind, m2[e].next)
                      /\ e \notin Behind[e]
    BY DEF NextOK
  <2> QED  BY <1>7, <1>8, <1>13 DEF Chains, NextOK, Of
<1>15. PrevOK(m2, In)
  <2> SUFFICES ASSUME NEW e \in Inside(In)
               PROVE  /\ m2[e].prev \in Of(In, In[e]) \cup {Head_(In[e])}
                      /\ m2[m2[e].prev].next = e
    BY DEF PrevOK
  <2> QED  BY <1>7, <1>8, <1>13 DEF Chains, PrevOK, Of
<1>16. OutOK(m2, In)
  <2> SUFFICES ASSUME NEW e \in Elems, e \notin Inside(In), m2[e].prev \in DOMAIN m2
               PROVE  m2[m2[e].prev].next # e
    BY DEF OutOK
  <2> DEFINE p == m2[e].prev
  <2>1. p = m[e].prev /\ p \in D2
    BY <1>5, <1>8
  <2>2. CASE p \in Heads(Y)
    BY <2>1, <2>2, <1>6, NodesDiffer DEF Heads
  <2>3. CASE p \notin Heads(Y) /\ p \in Tails(Y)
    <3>1. m2[p] = [prev |-> Head_(p[2]), next |-> Null]
      BY <2>1, <2>3, <1>4
    <3>2. m2[p].next = Null
      BY <3>1
    <3> QED  BY <3>2, NodesDiffer
  <2>4. CASE p \notin Heads(Y) /\ p \notin Tails(Y)
    BY <2>1, <2>4, <1>1, <1>4 DEF Chains, OutOK
  <2> QED  BY <2>2, <2>3, <2>4
<1>17. Memory(m2, X \cup Y)
  BY <1>0, <1>5 DEF Memory
<1>18. Ghosts(X \cup Y, In, Behind)
  BY <1>0 DEF Ghosts
<1> QED
  BY <1>11, <1>12, <1>14, <1>15, <1>16, <1>17, <1>18 DEF Chains, m2

\* btfree of an array of empty buckets.
LEMMA DropKeeps ==
  ASSUME HashAssumption, NEW m, NEW X, NEW In, NEW Behind, Chains(m, X, In, Behind),
         NEW k \in Counts, \A x \in X \cap Buckets(k) : IsEmpty(m, x)
  PROVE  Chains(Dropped(m, k), X \ Buckets(k), In, Behind)
<1> DEFINE Y == Buckets(k)
           m2 == Dropped(m, k)
           D == Elems \cup Heads(X) \cup Tails(X)
           D2 == Elems \cup Heads(X \ Y) \cup Tails(X \ Y)
<1>0. /\ X \in SUBSET AllBuckets /\ m \in [D -> [prev : Nodes, next : Nodes]] /\ DOMAIN m = D
      /\ In \in [Elems -> X \cup {Null}] /\ Behind \in [Elems -> SUBSET Elems]
      /\ Y \in SUBSET AllBuckets
  BY DEF Chains, Memory, Ghosts, AllBuckets
<1>1. D2 = DOMAIN m \ (Heads(Y) \cup Tails(Y))
  BY <1>0, NodesDiffer DEF Heads, Tails
<1>2. m2 \in [D2 -> [prev : Nodes, next : Nodes]] /\ \A d \in D2 : m2[d] = m[d]
  BY <1>0, <1>1 DEF Dropped
<1>3. \A y \in X \cap Y : Of(In, y) = {}
  BY <1>0, NodesDiffer DEF Chains, HeadsOK, From, IsEmpty, Begin
<1>4. In \in [Elems -> (X \ Y) \cup {Null}]
  BY <1>0, <1>3 DEF Of
<1> HIDE DEF m2, Y
<1>5. /\ \A y \in X \ Y : m2[Head_(y)] = m[Head_(y)] /\ m2[Tail_(y)] = m[Tail_(y)]
      /\ \A e \in Elems : m2[e] = m[e]
      /\ \A e \in Inside(In) : In[e] \in X \ Y /\ e \in Elems
  BY <1>2, <1>4 DEF Heads, Tails, Inside
<1>6. HeadsOK(m2, X \ Y, In, Behind)
  BY <1>5 DEF Chains, HeadsOK, Of
<1>7. TailsOK(m2, X \ Y, In)
  BY <1>5 DEF Chains, TailsOK, Of
<1>8. NextOK(m2, In, Behind)
  <2> SUFFICES ASSUME NEW e \in Inside(In)
               PROVE  /\ m2[e].next \in Of(In, In[e]) \cup {Tail_(In[e])}
                      /\ m2[m2[e].next].prev = e
                      /\ Behind[e] = From(Behind, m2[e].next)
                      /\ e \notin Behind[e]
    BY DEF NextOK
  <2> QED  BY <1>5 DEF Chains, NextOK, Of
<1>9. PrevOK(m2, In)
  <2> SUFFICES ASSUME NEW e \in Inside(In)
               PROVE  /\ m2[e].prev \in Of(In, In[e]) \cup {Head_(In[e])}
                      /\ m2[m2[e].prev].next = e
    BY DEF PrevOK
  <2> QED  BY <1>5 DEF Chains, PrevOK, Of
<1>10. OutOK(m2, In)
  BY <1>0, <1>1, <1>2, <1>5 DEF Chains, OutOK
<1> QED
  BY <1>0, <1>2, <1>4, <1>6, <1>7, <1>8, <1>9, <1>10 DEF Chains, Memory, Ghosts, m2, Y

\* A memory without lists.
LEMMA NoLists ==
  ASSUME HashAssumption
  PROVE  Chains([e \in Elems |-> [prev |-> Null, next |-> Null]], {},
                [e \in Elems |-> Null], [e \in Elems |-> {}])
<1>1. Heads({}) = {} /\ Tails({}) = {} /\ Null \in Nodes
  BY DEF Heads, Tails, Nodes
<1> QED
  BY <1>1, NodesDiffer
     DEF Chains, Memory, Ghosts, HeadsOK, TailsOK, NextOK, PrevOK, OutOK, Inside

----------------------------------------------------------------------------
(***************************************************************************)
(* The inductive invariant.  Between two steps all lists are well formed,  *)
(* and an element is in the bucket that its hash value selects, except     *)
(* that rehash may not have come to it yet.  A search has not passed an    *)
(* equal element, a walk has still to meet what is behind it, and          *)
(* hash_clear has emptied the buckets in front of its own.                 *)
(***************************************************************************)
\* the buckets from x to the end of its array
Ahead(x) == {<<x[1], i>> : i \in x[2] .. x[1] - 1}

Live == Buckets(h.bucket_cnt) \cup (IF pc = "move" THEN Buckets(b[1]) ELSE {})

TableTypes ==
  /\ h \in [elem_cnt : Nat, bucket_cnt : Counts, min_bucket_count : Sizes,
            equal : {"same", "never"}]
  /\ pc \in {"idle", "search", "round", "move", "walk", "next", "clear"}
  /\ n \in Counts

Unique(In) == \A e, f \in Inside(In) : Equal(h.equal, e, f) => e = f

Placed(In) ==
  \A e \in Inside(In) : In[e] = BucketOf(e) \/ (pc = "move" /\ In[e] \in Ahead(b))

TableOK(In, Behind) ==
  /\ TableTypes /\ Chains(mem, Live, In, Behind)
  /\ pc # "clear" => h.elem_cnt = Cardinality(Inside(In))
  /\ Unique(In) /\ Placed(In)
  /\ pc \notin {"walk", "next"} => rest = {}

SearchOK(In, Behind) ==
  pc = "search" =>
    /\ op \in {"insert", "replace", "delete", "find"} /\ arg \in Elems
    /\ op \in {"insert", "replace"} => arg \notin Inside(In)
    /\ b = BucketOf(arg) /\ at \in Of(In, b) \cup {Tail_(b)}
    /\ \A f \in Inside(In) : Equal(h.equal, f, arg) => f \in From(Behind, at)

MoveOK ==
  pc = "move" =>
    /\ b[1] \in Counts /\ b[1] # h.bucket_cnt
    /\ b \in Buckets(b[1]) /\ at = Begin(mem, b)

\* what a walk meets in the buckets behind b
Later(In) == IF op = "lookup" THEN {} ELSE {f \in Inside(In) : In[f] \in Ahead(Over)}

WalkOK(In, Behind) ==
  /\ pc \in {"walk", "next"} => b \in Buckets(h.bucket_cnt) /\ op \in {"walk", "lookup"}
  /\ pc = "walk" =>
       /\ at \in Of(In, b) \cup {Head_(b)}
       /\ rest = (IF at \in Elems THEN Behind[at] ELSE Of(In, b)) \cup Later(In)
  /\ pc = "next" =>
       /\ at \in Of(In, b) \cup {Tail_(b)}
       /\ rest = From(Behind, at) \cup Later(In)

ClearOK(In) ==
  pc = "clear" => b \in Buckets(h.bucket_cnt) /\ \A f \in Inside(In) : In[f] \in Ahead(b)

HashInv(In, Behind) ==
  /\ TableOK(In, Behind)
  /\ SearchOK(In, Behind) /\ MoveOK /\ WalkOK(In, Behind) /\ ClearOK(In)

\* Numbers of buckets.
LEMMA CountsRight ==
  ASSUME HashAssumption
  PROVE  /\ Counts \in SUBSET (Nat \ {0}) /\ Sizes \in SUBSET Counts
         /\ \A k \in Counts : \A e \in Elems : FindBucket(k, e) \in Buckets(k)
         /\ \A k \in Counts : BitAnd(k, k - 1) # 0 => BitAnd(k, k - 1) \in Counts
         /\ \A k \in Counts : Buckets(k) \in SUBSET AllBuckets
         /\ Cardinality(Elems) \in Nat
<1>1. Cardinality(Elems) \in Nat
  BY FS_CardinalityType DEF HashAssumption
<1>2. Counts \in SUBSET (Nat \ {0}) /\ Sizes \in SUBSET Counts
  BY <1>1 DEF HashAssumption, Counts
<1>3. \A k \in Counts : \A e \in Elems : FindBucket(k, e) \in Buckets(k)
  BY <1>2 DEF HashAssumption, FindBucket, Buckets
<1>4. ASSUME NEW k \in Counts, BitAnd(k, k - 1) # 0
      PROVE  BitAnd(k, k - 1) \in Counts
  <2>1. PICK s \in Sizes \cup {Cardinality(Elems)} : k \in 1 .. s
    BY DEF Counts
  <2>2. BitAnd(k, k - 1) \in 1 .. s
    BY <1>1, <1>4, <2>1 DEF HashAssumption
  <2> QED  BY <2>2 DEF Counts
<1>5. \A k \in Counts : Buckets(k) \in SUBSET AllBuckets
  BY DEF AllBuckets
<1> QED  BY <1>1, <1>2, <1>3, <1>4, <1>5

\* The number of elements asks for a number of buckets.
LEMMA WantedRight ==
  ASSUME HashAssumption, TableTypes, NEW S \in SUBSET Elems
  PROVE  /\ Wanted(Cardinality(S)) \in Counts
         /\ Cardinality(S) \in Nat /\ IsFiniteSet(S)
<1>1. IsFiniteSet(S) /\ Cardinality(S) \in Nat /\ Cardinality(S) <= Cardinality(Elems)
  BY FS_Subset, FS_CardinalityType DEF HashAssumption
<1>2. h.min_bucket_count \in Sizes /\ h.min_bucket_count \in Nat \ {0}
      /\ h.min_bucket_count \in Counts
  BY CountsRight DEF TableTypes
<1> DEFINE c == Cardinality(S)
           d == Cardinality(Elems)
           k == c \div 2
<1>3. k \in Nat /\ k <= c
  <2>1. c \in Nat
    BY <1>1
  <2> HIDE DEF c
  <2> QED  BY <2>1
<1>4. ASSUME k >= h.min_bucket_count  PROVE k \in Counts
  <2>1. d \in Nat /\ k \in 1 .. d
    BY <1>1, <1>2, <1>3, <1>4, CountsRight
  <2> QED  BY <2>1 DEF Counts
<1>5. Wanted(c) = IF k < h.min_bucket_count THEN h.min_bucket_count ELSE k
  BY DEF Wanted, BEST_ELEMS_PER_BUCKET
<1> QED  BY <1>1, <1>2, <1>3, <1>4, <1>5

\* The buckets of an array, one after the other.
LEMMA AheadRight ==
  ASSUME HashAssumption, NEW k \in Counts, NEW x \in Buckets(k)
  PROVE  /\ x[1] = k /\ x[2] \in Nat /\ x \in Ahead(x)
         /\ Ahead(x) = {x} \cup Ahead(<<k, x[2] + 1>>)
         /\ x \notin Ahead(<<k, x[2] + 1>>)
         /\ x[2] + 1 < k => <<k, x[2] + 1>> \in Buckets(k)
         /\ x[2] + 1 >= k => Ahead(<<k, x[2] + 1>>) = {}
         /\ Ahead(<<k, 0>>) = Buckets(k) /\ <<k, 0>> \in Buckets(k)
         /\ Ahead(x) \in SUBSET Buckets(k)
<1>1. k \in Nat \ {0}
  BY CountsRight
<1>2. PICK i \in 0 .. k - 1 : x = <<k, i>>
  BY DEF Buckets
<1>3. /\ Ahead(x) = {<<k, j>> : j \in i .. k - 1}
      /\ Ahead(<<k, x[2] + 1>>) = {<<k, j>> : j \in i + 1 .. k - 1}
      /\ Ahead(<<k, 0>>) = {<<k, j>> : j \in 0 .. k - 1}
  BY <1>2 DEF Ahead
<1>4. i .. k - 1 = {i} \cup (i + 1 .. k - 1) /\ i \notin i + 1 .. k - 1
  BY <1>1, <1>2
<1>5. Ahead(x) = {x} \cup Ahead(<<k, x[2] + 1>>)
  BY <1>2, <1>3, <1>4
<1>6. x \notin Ahead(<<k, x[2] + 1>>)
  BY <1>2, <1>3, <1>4
<1> QED  BY <1>1, <1>2, <1>3, <1>5, <1>6 DEF Buckets

\* The elements of the table, in a state and in the next.
LEMMA ContentInside ==
  ASSUME HashAssumption, NEW In, NEW Behind, TableOK(In, Behind)
  PROVE  Content = Inside(In)
BY HangsInside DEF TableOK, Content, Hangs

LEMMA ContentInsideThen ==
  ASSUME HashAssumption, NEW In, NEW Behind, TableOK(In, Behind)'
  PROVE  Content' = Inside(In)
BY HangsInside DEF TableOK, Content, Hangs

----------------------------------------------------------------------------
\* What a step owes: the invariant holds again, and Table has the step.
Stays   == \E In, Behind : HashInv(In, Behind)'
Refines == Abstract!Next \/ UNCHANGED Abstract!vars

\* A step that leaves the table alone.
LEMMA SameTable ==
  ASSUME HashAssumption, NEW In, NEW Behind, TableOK(In, Behind),
         UNCHANGED <<mem, h>>, pc \notin {"move", "clear"},
         pc' \in {"idle", "search", "round", "walk", "next", "clear"},
         n' \in Counts, pc' \notin {"walk", "next"} => rest' = {}
  PROVE  TableOK(In, Behind)' /\ Content = Inside(In) /\ Content' = Inside(In)
<1>1. TableTypes'
  BY DEF TableOK, TableTypes
<1>2. Live' = Live
  BY DEF Live
<1>3. Chains(mem, Live, In, Behind)'
  BY <1>2 DEF TableOK
<1>4. Unique(In)' /\ Placed(In)'
  BY DEF TableOK, Unique, Placed, BucketOf
<1>5. TableOK(In, Behind)'
  BY <1>1, <1>3, <1>4 DEF TableOK
<1> QED  BY <1>5, ContentInside, ContentInsideThen

\* A search begins in the bucket of its element.
LEMMA StartStep ==
  ASSUME HashAssumption, NEW In, NEW Behind, HashInv(In, Behind), NEW e \in Elems,
         NEW kind \in {"insert", "replace", "delete", "find"}, Start(kind, e)
  PROVE  Stays /\ Refines
<1>1. TableOK(In, Behind)' /\ Content = Inside(In) /\ Content' = Inside(In)
  BY SameTable DEF HashInv, Start, TableOK, TableTypes
<1>2. /\ h.bucket_cnt \in Counts /\ BucketOf(e) \in Live
      /\ \A f \in Inside(In) : In[f] = BucketOf(f)
      /\ HeadsOK(mem, Live, In, Behind)
  BY CountsRight DEF HashInv, TableOK, TableTypes, Live, BucketOf, Start, Placed, Chains
<1>3. ASSUME NEW f \in Inside(In), Equal(h.equal, f, e)  PROVE f \in Of(In, BucketOf(e))
  BY <1>2, <1>3 DEF Equal, HashAssumption, BucketOf, FindBucket, Of, Inside
<1>4. SearchOK(In, Behind)'
  BY <1>1, <1>2, <1>3 DEF SearchOK, Start, HeadsOK, Begin, BucketOf, Equal
<1>5. Stays
  BY <1>1, <1>4 DEF Stays, HashInv, MoveOK, WalkOK, ClearOK, Start
<1>6. Refines
  BY <1>1 DEF Refines, Abstract!vars, Start
<1> QED  BY <1>5, <1>6

\* A search passes an element that is not equal.
LEMMA SeekStep ==
  ASSUME HashAssumption, NEW In, NEW Behind, HashInv(In, Behind), Seek
  PROVE  Stays /\ Refines
<1>1. TableOK(In, Behind)' /\ Content = Inside(In) /\ Content' = Inside(In)
  BY SameTable DEF HashInv, Seek, TableOK, TableTypes
<1>2. /\ at \in Of(In, b) /\ b = BucketOf(arg) /\ arg \in Elems
      /\ \A f \in Inside(In) : Equal(h.equal, f, arg) => f \in From(Behind, at)
  BY DEF HashInv, SearchOK, Seek
<1>3. at \in Inside(In) /\ In[at] = b
  BY <1>2, CountsRight, NodesDiffer
     DEF Of, Inside, HashInv, TableOK, TableTypes, BucketOf
<1>4. mem[at].next \in Of(In, b) \cup {Tail_(b)} /\ Behind[at] = From(Behind, mem[at].next)
  BY <1>3 DEF HashInv, TableOK, Chains, NextOK
<1>5. ~Equal(h.equal, at, arg)
  BY DEF Seek
<1>6. SearchOK(In, Behind)'
  BY <1>2, <1>4, <1>5 DEF HashInv, SearchOK, Seek, From, BucketOf, Equal
<1>7. Stays
  BY <1>1, <1>6 DEF Stays, HashInv, MoveOK, WalkOK, ClearOK, Seek
<1>8. Refines
  BY <1>1 DEF Refines, Abstract!vars, Seek
<1> QED  BY <1>7, <1>8

\* A search that ends has found the element that is equal, or there is none.
LEMMA SearchEnds ==
  ASSUME HashAssumption, NEW In, NEW Behind, HashInv(In, Behind), NEW old, Ends(old)
  PROVE  /\ arg \in Elems /\ b = BucketOf(arg) /\ b \in Buckets(h.bucket_cnt) /\ b # Null
         /\ Content = Inside(In)
         /\ op \in {"insert", "replace"} => arg \notin Inside(In)
         /\ old = Null => {f \in Inside(In) : Equal(h.equal, f, arg)} = {}
         /\ old # Null => /\ old \in Of(In, b) /\ old \in Inside(In)
                          /\ {f \in Inside(In) : Equal(h.equal, f, arg)} = {old}
<1>1. /\ arg \in Elems /\ b = BucketOf(arg) /\ at \in Of(In, b) \cup {Tail_(b)}
      /\ op \in {"insert", "replace"} => arg \notin Inside(In)
      /\ \A f \in Inside(In) : Equal(h.equal, f, arg) => f \in From(Behind, at)
  BY DEF HashInv, SearchOK, Ends
<1>2. Content = Inside(In)
  BY ContentInside DEF HashInv
<1>3. b \in Buckets(h.bucket_cnt) /\ b \in AllBuckets /\ b # Null /\ Tail_(b) \notin Elems
      /\ Tail_(b) # Null
  BY <1>1, CountsRight, NodesDiffer DEF HashInv, TableOK, TableTypes, BucketOf
<1>4. ASSUME old = Null  PROVE {f \in Inside(In) : Equal(h.equal, f, arg)} = {}
  <2>1. at = Tail_(b)
    BY <1>1, <1>4, NodesDiffer DEF Ends, Of
  <2> QED  BY <2>1, <1>1, <1>3 DEF From
<1>5. ASSUME old # Null
      PROVE  /\ old \in Of(In, b) /\ old \in Inside(In)
             /\ {f \in Inside(In) : Equal(h.equal, f, arg)} = {old}
  <2>1. old = at /\ at \in Of(In, b) /\ Equal(h.equal, old, arg)
    BY <1>1, <1>5 DEF Ends
  <2>2. old \in Inside(In)
    BY <2>1, <1>3 DEF Of, Inside
  <2>3. ASSUME NEW f \in Inside(In), Equal(h.equal, f, arg)  PROVE f = old
    <3>1. Equal(h.equal, f, old)
      BY <2>1, <2>3 DEF Equal
    <3> QED  BY <3>1, <2>2 DEF HashInv, TableOK, Unique
  <2> QED  BY <2>1, <2>2, <2>3
<1> QED  BY <1>1, <1>2, <1>3, <1>4, <1>5

\* An operation that changed the table goes on with rehash.
LEMMA ToRound ==
  ASSUME HashAssumption, NEW In, NEW Behind, HashInv(In, Behind), pc = "search",
         NEW In2, NEW Behind2, Chains(mem', Buckets(h.bucket_cnt), In2, Behind2),
         Rehash(Cardinality(Inside(In2))), UNCHANGED rest,
         Unique(In2), \A e \in Inside(In2) : In2[e] = BucketOf(e)
  PROVE  HashInv(In2, Behind2)' /\ Content' = Inside(In2)
<1>1. TableTypes /\ rest = {}
  BY DEF HashInv, TableOK
<1>2. Inside(In2) \in SUBSET Elems
  BY DEF Inside
<1>3. /\ Wanted(Cardinality(Inside(In2))) \in Counts /\ Cardinality(Inside(In2)) \in Nat
  BY <1>1, <1>2, WantedRight
<1>4. /\ TableTypes' /\ pc' = "round" /\ h'.elem_cnt = Cardinality(Inside(In2))
      /\ h'.bucket_cnt = h.bucket_cnt /\ h'.equal = h.equal
  BY <1>1, <1>3 DEF TableTypes, Rehash
<1>5. Live' = Buckets(h.bucket_cnt)
  BY <1>4 DEF Live
<1>6. Unique(In2)' /\ Placed(In2)'
  BY <1>4 DEF Unique, Placed, BucketOf
<1>7. TableOK(In2, Behind2)'
  BY <1>1, <1>4, <1>5, <1>6 DEF TableOK
<1>8. HashInv(In2, Behind2)'
  BY <1>4, <1>7 DEF HashInv, SearchOK, MoveOK, WalkOK, ClearOK
<1> QED  BY <1>7, <1>8, ContentInsideThen

\* In a search the table is as it is between two operations.
LEMMA InSearch ==
  ASSUME HashAssumption, NEW In, NEW Behind, HashInv(In, Behind), pc = "search"
  PROVE  /\ Chains(mem, Buckets(h.bucket_cnt), In, Behind)
         /\ \A e \in Inside(In) : In[e] = BucketOf(e)
         /\ Unique(In) /\ h.elem_cnt = Cardinality(Inside(In))
         /\ Inside(In) \in SUBSET Elems /\ IsFiniteSet(Inside(In))
         /\ Cardinality(Inside(In)) \in Nat
<1>1. Live = Buckets(h.bucket_cnt)
  BY DEF Live
<1>2. Inside(In) \in SUBSET Elems
  BY DEF Inside
<1>3. IsFiniteSet(Inside(In)) /\ Cardinality(Inside(In)) \in Nat
  BY <1>2, WantedRight DEF HashInv, TableOK
<1> QED  BY <1>1, <1>2, <1>3 DEF HashInv, TableOK, Placed

\* An element joins the table that is equal to none in it.
LEMMA Added ==
  ASSUME HashAssumption, NEW In, NEW Behind, HashInv(In, Behind), pc = "search",
         NEW m, NEW In1, NEW Behind1, Chains(m, Buckets(h.bucket_cnt), In1, Behind1),
         Inside(In1) \in SUBSET Inside(In),
         \A e \in Inside(In1) : In1[e] = BucketOf(e),
         b = BucketOf(arg), b \in Buckets(h.bucket_cnt), b # Null,
         arg \in Elems, arg \notin Inside(In1),
         \A e \in Inside(In1) : ~Equal(h.equal, e, arg),
         mem' = PushFront(m, b, arg), UNCHANGED rest,
         Rehash(Cardinality(Inside(In1)) + 1)
  PROVE  Stays /\ Content' = Inside(In1) \cup {arg}
<1>1. In1[arg] = Null
  BY DEF Inside
<1>0. PICK In2, Behind2 : /\ In2 = [In1 EXCEPT ![arg] = b]
                          /\ Behind2 = [Behind1 EXCEPT ![arg] = Of(In1, b)]
  OBVIOUS
<1>2. Chains(mem', Buckets(h.bucket_cnt), In2, Behind2)
  BY <1>0, <1>1, PushKeeps
<1>3. In1 \in [Elems -> Buckets(h.bucket_cnt) \cup {Null}]
  BY DEF Chains, Ghosts
<1>4. Inside(In2) = Inside(In1) \cup {arg} /\ \A e \in Inside(In2) : In2[e] = BucketOf(e)
  BY <1>0, <1>3 DEF Inside
<1>5. Unique(In2)
  BY <1>4, InSearch DEF Unique, Equal
<1>6. Cardinality(Inside(In2)) = Cardinality(Inside(In1)) + 1
  <2>1. Inside(In1) \in SUBSET Elems /\ TableTypes
    BY DEF HashInv, TableOK, Inside
  <2>2. IsFiniteSet(Inside(In1))
    BY <2>1, WantedRight
  <2> QED  BY <1>4, <2>2, FS_AddElement
<1>7. Rehash(Cardinality(Inside(In2)))
  BY <1>6 DEF Rehash
<1>8. HashInv(In2, Behind2)' /\ Content' = Inside(In2)
  BY <1>2, <1>4, <1>5, <1>7, ToRound
<1> QED  BY <1>4, <1>8 DEF Stays

\* hash_insert
LEMMA InsertStep ==
  ASSUME HashAssumption, NEW In, NEW Behind, HashInv(In, Behind),
         NEW old \in Elems \cup {Null}, Insert(old)
  PROVE  Stays /\ Refines
<1>0. Ends(old) /\ pc = "search" /\ op = "insert"
  BY DEF Insert, Ends
<1>1. /\ arg \in Elems /\ b = BucketOf(arg) /\ b \in Buckets(h.bucket_cnt) /\ b # Null
      /\ Content = Inside(In) /\ arg \notin Inside(In)
      /\ old = Null => {f \in Inside(In) : Equal(h.equal, f, arg)} = {}
      /\ old # Null => {f \in Inside(In) : Equal(h.equal, f, arg)} = {old}
  BY <1>0, SearchEnds
<1>2. /\ Chains(mem, Buckets(h.bucket_cnt), In, Behind)
      /\ \A e \in Inside(In) : In[e] = BucketOf(e)
      /\ Unique(In) /\ h.elem_cnt = Cardinality(Inside(In))
  BY <1>0, InSearch
<1>3. call' = <<"insert", arg>> /\ ret' = old /\ UNCHANGED rest /\ h'.equal = h.equal
  BY <1>0 DEF Insert, Ends, Rehash, HashInv, TableOK, TableTypes
<1>4. CASE old = Null
  <2>1. mem' = PushFront(mem, b, arg) /\ Rehash(Cardinality(Inside(In)) + 1)
    BY <1>2, <1>4 DEF Insert
  <2>2. Stays /\ Content' = Inside(In) \cup {arg}
    BY <2>1, <1>0, <1>1, <1>2, <1>3, <1>4, Added
  <2>3. Abstract!Insert(arg)
    BY <2>2, <1>1, <1>3, <1>4 DEF Abstract!Insert, Abstract!Returned, Abstract!Found
  <2> QED  BY <2>2, <2>3, <1>1, <1>3 DEF Refines, Abstract!Next
<1>5. CASE old # Null
  <2>1. mem' = mem /\ Rehash(Cardinality(Inside(In)))
    BY <1>2, <1>5 DEF Insert
  <2>2. HashInv(In, Behind)' /\ Content' = Inside(In)
    BY <2>1, <1>0, <1>2, <1>3, ToRound
  <2>3. Abstract!Insert(arg)
    BY <2>2, <1>1, <1>3, <1>5 DEF Abstract!Insert, Abstract!Returned, Abstract!Found
  <2> QED  BY <2>2, <2>3, <1>1, <1>3 DEF Stays, Refines, Abstract!Next
<1> QED  BY <1>4, <1>5

\* hash_replace
LEMMA ReplaceStep ==
  ASSUME HashAssumption, NEW In, NEW Behind, HashInv(In, Behind),
         NEW old \in Elems \cup {Null}, Replace(old)
  PROVE  Stays /\ Refines
<1>0. Ends(old) /\ pc = "search" /\ op = "replace"
  BY DEF Replace, Ends
<1>1. /\ arg \in Elems /\ b = BucketOf(arg) /\ b \in Buckets(h.bucket_cnt) /\ b # Null
      /\ Content = Inside(In) /\ arg \notin Inside(In)
      /\ old = Null => {f \in Inside(In) : Equal(h.equal, f, arg)} = {}
      /\ old # Null => /\ old \in Inside(In)
                       /\ {f \in Inside(In) : Equal(h.equal, f, arg)} = {old}
  BY <1>0, SearchEnds
<1>2. /\ Chains(mem, Buckets(h.bucket_cnt), In, Behind)
      /\ \A e \in Inside(In) : In[e] = BucketOf(e)
      /\ Unique(In) /\ h.elem_cnt = Cardinality(Inside(In))
      /\ IsFiniteSet(Inside(In)) /\ Cardinality(Inside(In)) \in Nat
  BY <1>0, InSearch
<1>3. call' = <<"replace", arg>> /\ ret' = old /\ UNCHANGED rest /\ h'.equal = h.equal
  BY <1>0 DEF Replace, Ends, Rehash, HashInv, TableOK, TableTypes
<1>4. CASE old = Null
  <2>1. mem' = PushFront(mem, b, arg) /\ Rehash(Cardinality(Inside(In)) + 1)
    BY <1>2, <1>4 DEF Replace
  <2>2. Stays /\ Content' = Inside(In) \cup {arg}
    BY <2>1, <1>0, <1>1, <1>2, <1>3, <1>4, Added
  <2>3. Abstract!Replace(arg)
    BY <2>2, <1>1, <1>3, <1>4 DEF Abstract!Replace, Abstract!Returned, Abstract!Found
  <2> QED  BY <2>2, <2>3, <1>1, <1>3 DEF Refines, Abstract!Next
<1>5. CASE old # Null
  <2> DEFINE m == Unlinked(mem, old)
             In1 == [In EXCEPT ![old] = Null]
             Behind1 == [f \in Elems |-> Behind[f] \ {old}]
  <2>0. old \in Inside(In)
    BY <1>1, <1>5
  <2>1. Chains(m, Buckets(h.bucket_cnt), In1, Behind1)
    BY <2>0, <1>2, UnlinkKeeps
  <2>2. In \in [Elems -> Buckets(h.bucket_cnt) \cup {Null}]
    BY <1>2 DEF Chains, Ghosts
  <2>3. Inside(In1) = Inside(In) \ {old} /\ \A e \in Inside(In1) : In1[e] = BucketOf(e)
    BY <2>2, <1>1, <1>2, <1>5 DEF Inside
  <2>4. Cardinality(Inside(In1)) + 1 = Cardinality(Inside(In))
    <3>1. Cardinality(Inside(In) \ {old}) = Cardinality(Inside(In)) - 1
      BY <2>0, <1>2, FS_RemoveElement
    <3> HIDE DEF In1
    <3> QED  BY <3>1, <2>3, <1>2
  <2>5. mem' = PushFront(m, b, arg) /\ Rehash(Cardinality(Inside(In1)) + 1)
    BY <2>4, <1>2, <1>5 DEF Replace
  <2> HIDE DEF m, In1, Behind1
  <2>6. Stays /\ Content' = (Inside(In) \ {old}) \cup {arg}
    BY <2>1, <2>3, <2>5, <1>0, <1>1, <1>2, <1>3, <1>5, Added
  <2>7. Abstract!Replace(arg)
    BY <2>6, <1>1, <1>3, <1>5 DEF Abstract!Replace, Abstract!Returned, Abstract!Found
  <2> QED  BY <2>6, <2>7, <1>1, <1>3 DEF Refines, Abstract!Next
<1> QED  BY <1>4, <1>5

\* hash_delete and hash_find
LEMMA DeleteFindStep ==
  ASSUME HashAssumption, NEW In, NEW Behind, HashInv(In, Behind),
         NEW found \in Elems \cup {Null}, Delete(found) \/ Find(found)
  PROVE  Stays /\ Refines
<1>0. Ends(found) /\ pc = "search"
  BY DEF Delete, Find, Ends
<1>1. /\ arg \in Elems /\ Content = Inside(In)
      /\ found = Null => {f \in Inside(In) : Equal(h.equal, f, arg)} = {}
      /\ found # Null => /\ found \in Inside(In)
                         /\ {f \in Inside(In) : Equal(h.equal, f, arg)} = {found}
  BY <1>0, SearchEnds
<1>2. /\ Chains(mem, Buckets(h.bucket_cnt), In, Behind)
      /\ \A e \in Inside(In) : In[e] = BucketOf(e)
      /\ Unique(In) /\ h.elem_cnt = Cardinality(Inside(In))
      /\ IsFiniteSet(Inside(In)) /\ Cardinality(Inside(In)) \in Nat
  BY <1>0, InSearch
<1>3. call' = <<op, arg>> /\ ret' = found /\ UNCHANGED rest /\ h'.equal = h.equal
  BY <1>0 DEF Delete, Find, Ends, Rehash, HashInv, TableOK, TableTypes
<1>4. CASE pc' = "idle" /\ UNCHANGED <<mem, h, n>>
  <2>1. TableOK(In, Behind)' /\ Content' = Inside(In)
    BY <1>4, <1>0, <1>3, SameTable DEF HashInv, TableOK, TableTypes
  <2>2. Stays
    BY <2>1, <1>4 DEF Stays, HashInv, SearchOK, MoveOK, WalkOK, ClearOK
  <2>3. CASE op = "find"
    <3>1. Abstract!Find(arg)
      BY <2>1, <2>3, <1>1, <1>3 DEF Abstract!Find, Abstract!Returned, Abstract!Found
    <3> QED  BY <2>2, <3>1, <1>1, <1>3 DEF Refines, Abstract!Next
  <2>4. CASE op = "delete"
    <3>1. found = Null
      BY <1>4, <2>4 DEF Delete, Find, Rehash
    <3>2. Abstract!Delete(arg)
      BY <3>1, <2>1, <2>4, <1>1, <1>3 DEF Abstract!Delete, Abstract!Returned, Abstract!Found
    <3> QED  BY <2>2, <3>2, <1>1, <1>3 DEF Refines, Abstract!Next
  <2> QED  BY <2>3, <2>4 DEF Delete, Find
<1>5. CASE ~(pc' = "idle" /\ UNCHANGED <<mem, h, n>>)
  <2> DEFINE m == Unlinked(mem, found)
             In1 == [In EXCEPT ![found] = Null]
             Behind1 == [f \in Elems |-> Behind[f] \ {found}]
  <2>0. op = "delete" /\ found # Null /\ mem' = m /\ Rehash(h.elem_cnt - 1)
    BY <1>5 DEF Delete, Find
  <2>1. Chains(m, Buckets(h.bucket_cnt), In1, Behind1)
    BY <2>0, <1>1, <1>2, UnlinkKeeps
  <2>2. In \in [Elems -> Buckets(h.bucket_cnt) \cup {Null}]
    BY <1>2 DEF Chains, Ghosts
  <2>3. Inside(In1) = Inside(In) \ {found} /\ \A e \in Inside(In1) : In1[e] = BucketOf(e)
    BY <2>0, <2>2, <1>1, <1>2 DEF Inside
  <2>4. Cardinality(Inside(In1)) = h.elem_cnt - 1
    BY <2>0, <2>3, <1>1, <1>2, FS_RemoveElement
  <2>5. Unique(In1)
    BY <2>3, <1>2 DEF Unique
  <2> HIDE DEF m, In1, Behind1
  <2>6. HashInv(In1, Behind1)' /\ Content' = Inside(In) \ {found}
    BY <2>0, <2>1, <2>3, <2>4, <2>5, <1>0, <1>3, ToRound
  <2>7. Abstract!Delete(arg)
    BY <2>0, <2>6, <1>1, <1>3 DEF Abstract!Delete, Abstract!Returned, Abstract!Found
  <2> QED  BY <2>6, <2>7, <1>1, <1>3 DEF Stays, Refines, Abstract!Next
<1> QED  BY <1>4, <1>5

\* rehash rounds the number of buckets, or keeps it.
LEMMA RoundKeepStep ==
  ASSUME HashAssumption, NEW In, NEW Behind, HashInv(In, Behind), Round \/ Keep
  PROVE  Stays /\ Refines
<1>1. /\ UNCHANGED <<mem, h, rest, call, ret>> /\ pc = "round" /\ pc' \in {"round", "idle"}
      /\ n' \in Counts
  BY CountsRight DEF Round, Keep, HashInv, TableOK, TableTypes
<1>2. TableOK(In, Behind)' /\ Content = Inside(In) /\ Content' = Inside(In)
  BY <1>1, SameTable DEF HashInv, TableOK
<1>3. Stays
  BY <1>1, <1>2 DEF Stays, HashInv, SearchOK, MoveOK, WalkOK, ClearOK
<1> QED  BY <1>1, <1>2, <1>3 DEF Refines, Abstract!vars

\* Arrays of different sizes have no bucket in common.
LEMMA ArraysDiffer ==
  ASSUME NEW k, NEW j, k # j
  PROVE  Buckets(k) \cap Buckets(j) = {}
BY DEF Buckets

\* rehash installs the new array.
LEMMA ResizeStep ==
  ASSUME HashAssumption, NEW In, NEW Behind, HashInv(In, Behind), Resize
  PROVE  Stays /\ Refines
<1> DEFINE old == h.bucket_cnt
<1>0. /\ old \in Counts /\ n \in Counts /\ n # old /\ pc = "round" /\ rest = {}
      /\ Content = Inside(In) /\ TableTypes
  BY ContentInside DEF Resize, HashInv, TableOK, TableTypes
<1>1. /\ mem' = Fresh(mem, Buckets(n)) /\ h'.bucket_cnt = n /\ h'.equal = h.equal
      /\ h'.elem_cnt = h.elem_cnt /\ b' = <<old, 0>> /\ b'[1] = old
      /\ at' = Begin(mem, <<old, 0>>) /\ pc' = "move" /\ TableTypes'
      /\ UNCHANGED <<call, ret, rest>>
  BY <1>0 DEF Resize, TableTypes
<1>2. /\ Buckets(n) \in SUBSET AllBuckets /\ Buckets(old) \cap Buckets(n) = {}
      /\ <<old, 0>> \in Buckets(old) /\ Ahead(<<old, 0>>) = Buckets(old)
  <2>1. PICK k \in Nat \ {0} : k = old
    BY <1>0, CountsRight
  <2>2. <<old, 0>> \in Buckets(old)
    BY <2>1 DEF Buckets
  <2> QED  BY <2>2, <1>0, CountsRight, ArraysDiffer, AheadRight
<1>3. Live = Buckets(old) /\ Live' = Buckets(old) \cup Buckets(n)
  BY <1>0, <1>1 DEF Live
<1>4. Chains(mem, Buckets(old), In, Behind)
  BY <1>3 DEF HashInv, TableOK
<1>5. Chains(mem', Buckets(old) \cup Buckets(n), In, Behind)
  BY <1>1, <1>2, <1>4, FreshKeeps
<1>6. Begin(mem', <<old, 0>>) = Begin(mem, <<old, 0>>)
  <2>1. /\ Head_(<<old, 0>>) \notin Heads(Buckets(n))
        /\ Head_(<<old, 0>>) \notin Tails(Buckets(n))
    BY <1>2, NodesDiffer DEF Heads, Tails
  <2>2. Head_(<<old, 0>>) \in DOMAIN mem
    BY <1>2, <1>4, Places
  <2> QED  BY <2>1, <2>2, <1>1 DEF Begin, Fresh
<1>7. Placed(In)' /\ Unique(In)'
  <2>1. \A e \in Inside(In) : In[e] = FindBucket(old, e) /\ FindBucket(old, e) \in Buckets(old)
    BY <1>0, CountsRight DEF HashInv, TableOK, Placed, BucketOf, Inside
  <2> QED  BY <2>1, <1>1, <1>2 DEF Placed, Unique, HashInv, TableOK
<1>8. TableOK(In, Behind)'
  BY <1>0, <1>1, <1>3, <1>5, <1>7 DEF TableOK, HashInv
<1>9. MoveOK'
  BY <1>0, <1>1, <1>2, <1>6 DEF MoveOK
<1>10. Stays
  BY <1>1, <1>8, <1>9 DEF Stays, HashInv, SearchOK, WalkOK, ClearOK
<1>11. Content' = Content
  BY <1>0, <1>8, ContentInsideThen
<1> QED  BY <1>1, <1>10, <1>11 DEF Refines, Abstract!vars

\* rehash moves an element.
LEMMA MoveStep ==
  ASSUME HashAssumption, NEW In, NEW Behind, HashInv(In, Behind), Move
  PROVE  Stays /\ Refines
<1>0. PICK e, x, y, old : e = at /\ x = BucketOf(at) /\ y = b /\ old = b[1]
  OBVIOUS
<1>1. /\ pc = "move" /\ e # Tail_(y) /\ y \in Buckets(old) /\ old \in Counts
      /\ old # h.bucket_cnt /\ e = mem[Head_(y)].next
      /\ Chains(mem, Live, In, Behind) /\ Live = Buckets(h.bucket_cnt) \cup Buckets(old)
      /\ h.bucket_cnt \in Counts /\ rest = {} /\ Content = Inside(In)
  BY <1>0, ContentInside DEF Move, HashInv, TableOK, MoveOK, Live, TableTypes, Begin
<1>2. /\ UNCHANGED <<h, pc, b, n, call, ret, rest>> /\ at' = mem[e].next
      /\ mem' = PushFront(Unlinked(mem, e), x, e)
  BY <1>0 DEF Move
<1>3. y \in Live /\ y \in AllBuckets /\ y # Null
  BY <1>1, CountsRight, NodesDiffer
<1>4. /\ e \in Of(In, y) /\ e \in Inside(In) /\ e \in Elems /\ mem[e].prev = Head_(y)
  BY <1>1, <1>3 DEF Chains, HeadsOK, Of, Inside
<1>5. x \in Live /\ x # y /\ x # Null /\ x \in AllBuckets
  <2>1. x \in Buckets(h.bucket_cnt)
    BY <1>0, <1>1, <1>4, CountsRight DEF BucketOf
  <2> QED  BY <2>1, <1>1, ArraysDiffer, CountsRight, NodesDiffer
<1>6. PICK m : m = Unlinked(mem, e)
  OBVIOUS
<1> DEFINE In1 == [In EXCEPT ![e] = Null]
           Behind1 == [f \in Elems |-> Behind[f] \ {e}]
           In2 == [In1 EXCEPT ![e] = x]
           Behind2 == [Behind1 EXCEPT ![e] = Of(In1, x)]
<1>7. Chains(m, Live, In1, Behind1)
  BY <1>1, <1>4, <1>6, UnlinkKeeps
<1>8. In \in [Elems -> Live \cup {Null}]
  BY <1>1 DEF Chains, Ghosts
<1>9. Chains(mem', Live, In2, Behind2)
  <2>1. In1[e] = Null
    BY <1>4, <1>8
  <2> QED  BY <2>1, <1>2, <1>4, <1>5, <1>6, <1>7, PushKeeps
<1>10. Inside(In2) = Inside(In) /\ In2[e] = x /\ \A f \in Inside(In) : f # e => In2[f] = In[f]
  BY <1>4, <1>5, <1>8 DEF Inside
<1>11. Begin(mem', y) = mem[e].next
  <2>1. /\ Head_(y) \in DOMAIN mem /\ e \in DOMAIN mem
        /\ mem[e].next \in DOMAIN mem /\ mem[e].prev \in DOMAIN mem
    <3>1. Chains(mem, Live, In, Behind) /\ y \in Live /\ e \in Inside(In) /\ e \in Elems
      BY <1>1, <1>3, <1>4
    <3> QED  BY ONLY <3>1, Places
  <2>2. m[Head_(y)].next = mem[e].next /\ DOMAIN m = DOMAIN mem
    BY <2>1, <1>1, <1>4, <1>6, UnlinkedLinks DEF Chains
  <2> HIDE DEF In1, Behind1
  <2>3. /\ m[Head_(x)].next \in DOMAIN m
        /\ m[m[Head_(x)].next].prev = Head_(x) /\ Memory(m, Live)
        /\ m[Head_(x)].next \in Of(In1, x) \cup {Tail_(x)}
    BY <1>5, <1>7, Places DEF Chains, HeadsOK
  <2>4. m[Head_(x)].next # e
    <3>1. Tail_(x) # e
      BY <1>4, <1>5, NodesDiffer
    <3>2. e \notin Of(In1, x)
      BY <1>4, <1>5, <1>8 DEF Of, In1
    <3> QED  BY <3>1, <3>2, <2>3
  <2>5. mem'[Head_(y)].next = m[Head_(y)].next
    <3>1. Head_(y) # Head_(x) /\ Head_(y) # e
      BY <1>3, <1>4, <1>5, NodesDiffer
    <3> QED  BY <3>1, <2>1, <2>2, <2>3, <2>4, <1>2, <1>4, <1>5, <1>6, PushedLinks
  <2> QED  BY <2>2, <2>5 DEF Begin
<1> HIDE DEF In2, Behind2, In1, Behind1
<1>12. PICK In3, Behind3 : In3 = In2 /\ Behind3 = Behind2
  OBVIOUS
<1>13. Live' = Live /\ TableTypes'
  BY <1>2 DEF Live, HashInv, TableOK, TableTypes
<1>14. Placed(In3)'
  <2> SUFFICES ASSUME NEW f \in Inside(In3)
               PROVE  In3[f] = BucketOf(f)' \/ (pc' = "move" /\ In3[f] \in Ahead(b)')
    BY DEF Placed
  <2>1. BucketOf(f)' = BucketOf(f) /\ Ahead(b)' = Ahead(b)
    BY <1>2 DEF BucketOf, Ahead
  <2>2. CASE f = e
    BY <2>1, <2>2, <1>0, <1>10, <1>12
  <2>3. CASE f # e
    BY <2>1, <2>3, <1>1, <1>2, <1>10, <1>12 DEF HashInv, TableOK, Placed
  <2> QED  BY <2>2, <2>3
<1>15. TableOK(In3, Behind3)'
  BY <1>1, <1>2, <1>9, <1>10, <1>12, <1>13, <1>14 DEF TableOK, Unique, HashInv
<1>16. MoveOK'
  BY <1>0, <1>1, <1>2, <1>11 DEF MoveOK
<1>17. Stays
  BY <1>1, <1>2, <1>15, <1>16 DEF Stays, HashInv, SearchOK, WalkOK, ClearOK
<1>18. Content' = Content
  BY <1>1, <1>10, <1>12, <1>15, ContentInsideThen
<1> QED  BY <1>2, <1>17, <1>18 DEF Refines, Abstract!vars

\* rehash has emptied a bucket, and goes to the next or frees the array.
LEMMA MovedStep ==
  ASSUME HashAssumption, NEW In, NEW Behind, HashInv(In, Behind), NextBucket \/ Moved
  PROVE  Stays /\ Refines
<1>0. PICK k : k = b[1]
  OBVIOUS
<1>1. /\ pc = "move" /\ at = Tail_(b) /\ b \in Buckets(k) /\ k \in Counts
      /\ k # h.bucket_cnt /\ at = mem[Head_(b)].next /\ Chains(mem, Live, In, Behind)
      /\ Live = Buckets(h.bucket_cnt) \cup Buckets(k)
      /\ h.bucket_cnt \in Counts /\ rest = {} /\ Content = Inside(In) /\ TableTypes
      /\ UNCHANGED <<h, call, ret, rest, n>>
  BY <1>0, ContentInside
     DEF NextBucket, Moved, HashInv, TableOK, MoveOK, Live, TableTypes, Begin
<1>2. Of(In, b) = {}
  <2>1. b \in AllBuckets
    BY <1>1, CountsRight
  <2>2. Tail_(b) \notin Elems /\ b \in Live
    BY <2>1, <1>1, NodesDiffer
  <2>3. Of(In, b) = From(Behind, mem[Head_(b)].next)
    BY <2>2, <1>1 DEF Chains, HeadsOK
  <2> QED  BY <2>2, <2>3, <1>1 DEF From
<1>3. /\ Over = <<k, b[2] + 1>> /\ b[2] \in Nat
      /\ Ahead(b) = {b} \cup Ahead(Over)
      /\ b[2] + 1 < k => Over \in Buckets(k)
      /\ b[2] + 1 >= k => Ahead(Over) = {}
  BY <1>0, <1>1, AheadRight DEF Over
<1>4. \A f \in Inside(In) : In[f] = BucketOf(f) \/ In[f] \in Ahead(Over)
  BY <1>2, <1>3 DEF HashInv, TableOK, Placed, Of, Inside
<1>5. CASE NextBucket
  <2>1. b' = Over /\ at' = Begin(mem, Over) /\ UNCHANGED <<mem, pc>> /\ Over \in Buckets(k)
        /\ b'[1] = k
    BY <1>0, <1>3, <1>5 DEF NextBucket
  <2>2. Live' = Live
    BY <2>1, <1>1 DEF Live
  <2>3. Placed(In)' /\ Unique(In)' /\ TableTypes'
    <3>1. Ahead(b)' = Ahead(Over)
      BY <2>1 DEF Ahead
    <3> QED
      BY <3>1, <2>1, <1>1, <1>4 DEF Placed, Unique, BucketOf, HashInv, TableOK, TableTypes
  <2>4. TableOK(In, Behind)'
    BY <2>1, <2>2, <2>3, <1>1 DEF TableOK, HashInv
  <2>5. MoveOK'
    BY <2>1, <1>1 DEF MoveOK
  <2>6. Stays
    BY <2>1, <2>4, <2>5, <1>1 DEF Stays, HashInv, SearchOK, WalkOK, ClearOK
  <2>7. Content' = Content
    BY <2>4, <1>1, ContentInsideThen
  <2> QED  BY <2>6, <2>7, <1>1 DEF Refines, Abstract!vars
<1>6. CASE Moved
  <2>1. mem' = Dropped(mem, k) /\ pc' = "idle" /\ Ahead(Over) = {}
    BY <1>0, <1>3, <1>6 DEF Moved
  <2>2. \A f \in Inside(In) : In[f] = BucketOf(f) /\ BucketOf(f) \in Buckets(h.bucket_cnt)
    BY <2>1, <1>1, <1>4, CountsRight DEF BucketOf, Inside
  <2>3. Buckets(h.bucket_cnt) \cap Buckets(k) = {}
    BY <1>1, ArraysDiffer
  <2>4. ASSUME NEW x \in Live \cap Buckets(k)  PROVE IsEmpty(mem, x)
    <3>1. x # Null /\ Of(In, x) = {}
      BY <2>2, <2>3, <2>4, <1>1, CountsRight, NodesDiffer DEF Of, Inside
    <3> QED  BY <3>1, <2>4, <1>1 DEF Chains, HeadsOK, IsEmpty, Begin
  <2>5. Chains(mem', Live \ Buckets(k), In, Behind)
    BY <2>1, <2>4, <1>1, DropKeeps
  <2>6. Live' = Live \ Buckets(k)
    BY <2>1, <2>3, <1>1 DEF Live
  <2>7. Placed(In)' /\ Unique(In)' /\ TableTypes'
    BY <2>1, <2>2, <1>1 DEF Placed, Unique, BucketOf, HashInv, TableOK, TableTypes
  <2>8. TableOK(In, Behind)'
    BY <2>1, <2>5, <2>6, <2>7, <1>1 DEF TableOK, HashInv
  <2>9. Stays
    BY <2>1, <2>8 DEF Stays, HashInv, SearchOK, MoveOK, WalkOK, ClearOK
  <2>10. Content' = Content
    BY <2>8, <1>1, ContentInsideThen
  <2> QED  BY <2>9, <2>10, <1>1 DEF Refines, Abstract!vars
<1> QED  BY <1>5, <1>6

\* Between operations, and in a walk, every element is in its bucket.
LEMMA AtRest ==
  ASSUME HashAssumption, NEW In, NEW Behind, HashInv(In, Behind), pc # "move"
  PROVE  /\ Chains(mem, Buckets(h.bucket_cnt), In, Behind) /\ TableTypes
         /\ Content = Inside(In) /\ h.bucket_cnt \in Counts
         /\ \A f \in Inside(In) : In[f] = BucketOf(f) /\ In[f] \in Buckets(h.bucket_cnt)
         /\ <<h.bucket_cnt, 0>> \in Buckets(h.bucket_cnt)
         /\ Ahead(<<h.bucket_cnt, 0>>) = Buckets(h.bucket_cnt)
<1>1. Chains(mem, Buckets(h.bucket_cnt), In, Behind) /\ TableTypes /\ h.bucket_cnt \in Counts
  BY DEF HashInv, TableOK, Live, TableTypes
<1>2. \A f \in Inside(In) : In[f] = BucketOf(f) /\ In[f] \in Buckets(h.bucket_cnt)
  BY <1>1, CountsRight DEF HashInv, TableOK, Placed, BucketOf, Inside
<1>3. <<h.bucket_cnt, 0>> \in Buckets(h.bucket_cnt)
  <2>1. PICK k \in Nat \ {0} : k = h.bucket_cnt
    BY <1>1, CountsRight
  <2> QED  BY <2>1 DEF Buckets
<1>4. Ahead(<<h.bucket_cnt, 0>>) = Buckets(h.bucket_cnt)
  BY <1>1, <1>3, AheadRight
<1> QED  BY <1>1, <1>2, <1>3, <1>4, ContentInside DEF HashInv

\* hash_first and hash_find_bucket
LEMMA FirstLookupStep ==
  ASSUME HashAssumption, NEW In, NEW Behind, HashInv(In, Behind), NEW e,
         First \/ (e \in Elems /\ Lookup(e))
  PROVE  Stays /\ Refines
<1>1. /\ pc = "idle" /\ pc' = "walk" /\ UNCHANGED <<mem, h, n, call, ret>>
  BY DEF First, Lookup
<1>2. /\ Content = Inside(In) /\ h.bucket_cnt \in Counts
      /\ \A f \in Inside(In) : In[f] = BucketOf(f) /\ In[f] \in Buckets(h.bucket_cnt)
      /\ <<h.bucket_cnt, 0>> \in Buckets(h.bucket_cnt)
      /\ Ahead(<<h.bucket_cnt, 0>>) = Buckets(h.bucket_cnt)
      /\ e \in Elems => BucketOf(e) \in Buckets(h.bucket_cnt)
  BY <1>1, AtRest, CountsRight DEF BucketOf
<1>3. TableOK(In, Behind)' /\ Content' = Inside(In)
  BY <1>1, SameTable DEF HashInv, TableOK, TableTypes
<1>4. \A x \in Buckets(h.bucket_cnt) : Head_(x) \notin Elems
  BY <1>2, CountsRight, NodesDiffer
<1>5. CASE First
  <2>1. /\ b' = <<h.bucket_cnt, 0>> /\ at' = Head_(<<h.bucket_cnt, 0>>)
        /\ op' = "walk" /\ rest' = Inside(In) /\ Over' = <<h.bucket_cnt, 0 + 1>>
    BY <1>2, <1>5 DEF First, Over
  <2>2. Ahead(<<h.bucket_cnt, 0>>) = {<<h.bucket_cnt, 0>>} \cup Ahead(Over)'
    <3>1. Ahead(Over)' = Ahead(<<h.bucket_cnt, 0 + 1>>)
      BY <2>1 DEF Ahead
    <3>2. \A x : x = <<h.bucket_cnt, 0>> => x[2] = 0
      OBVIOUS
    <3> QED  BY <3>1, <3>2, <1>2, AheadRight
  <2>3. Later(In)' = {f \in Inside(In) : In[f] \in Ahead(Over)'}
    BY <2>1 DEF Later
  <2>4. Inside(In) = Of(In, <<h.bucket_cnt, 0>>) \cup Later(In)'
    <3>1. <<h.bucket_cnt, 0>> # Null
      BY <1>2, CountsRight, NodesDiffer
    <3> QED  BY <3>1, <2>2, <2>3, <1>2 DEF Of, Inside
  <2>5. WalkOK(In, Behind)'
    BY <2>1, <2>4, <1>1, <1>2, <1>4 DEF WalkOK
  <2>6. Stays
    BY <2>5, <1>1, <1>3 DEF Stays, HashInv, SearchOK, MoveOK, ClearOK
  <2>7. Abstract!First
    BY <2>1, <1>1, <1>2, <1>3 DEF Abstract!First
  <2> QED  BY <2>6, <2>7, <1>1 DEF Refines, Abstract!Next
<1>6. CASE e \in Elems /\ Lookup(e)
  <2>0. e \in Elems /\ BucketOf(e) \in Buckets(h.bucket_cnt)
    BY <1>2, <1>6
  <2>1. /\ b' = BucketOf(e) /\ at' = Head_(BucketOf(e)) /\ op' = "lookup"
        /\ rest' = {f \in Inside(In) : BucketOf(f) = BucketOf(e)}
    BY <1>2, <1>6 DEF Lookup
  <2>2. rest' = Of(In, BucketOf(e))
    <3>1. BucketOf(e) # Null
      BY <2>0, <1>2, CountsRight, NodesDiffer
    <3> QED  BY <3>1, <2>1, <1>2 DEF Of, Inside
  <2>3. WalkOK(In, Behind)'
    BY <2>0, <2>1, <2>2, <1>1, <1>2, <1>4 DEF WalkOK, Later
  <2>4. Stays
    BY <2>3, <1>1, <1>3 DEF Stays, HashInv, SearchOK, MoveOK, ClearOK
  <2>5. Abstract!Lookup(e)
    <3>1. \A f \in Inside(In) : HashOf[f] = HashOf[e] => BucketOf(f) = BucketOf(e)
      BY DEF BucketOf, FindBucket
    <3> QED  BY <3>1, <2>1, <1>1, <1>2, <1>3 DEF Abstract!Lookup
  <2> QED  BY <2>0, <2>4, <2>5, <1>1 DEF Refines, Abstract!Next
<1> QED  BY <1>5, <1>6

\* hash_next goes to the next element of a bucket, or to the header.
LEMMA AdvanceStep ==
  ASSUME HashAssumption, NEW In, NEW Behind, HashInv(In, Behind), Advance
  PROVE  Stays /\ Refines
<1>1. /\ pc = "walk" /\ pc' = "next" /\ at' = mem[at].next
      /\ UNCHANGED <<mem, h, n, b, op, call, ret, rest>>
  BY DEF Advance
<1>2. TableOK(In, Behind)' /\ Content = Inside(In) /\ Content' = Inside(In)
  BY <1>1, SameTable DEF HashInv, TableOK, TableTypes
<1>3. /\ b \in Buckets(h.bucket_cnt) /\ op \in {"walk", "lookup"}
      /\ at \in Of(In, b) \cup {Head_(b)}
      /\ rest = (IF at \in Elems THEN Behind[at] ELSE Of(In, b)) \cup Later(In)
      /\ Chains(mem, Buckets(h.bucket_cnt), In, Behind) /\ h.bucket_cnt \in Counts
  BY <1>1, AtRest DEF HashInv, WalkOK
<1>4. /\ at' \in Of(In, b) \cup {Tail_(b)}
      /\ From(Behind, at') = IF at \in Elems THEN Behind[at] ELSE Of(In, b)
  <2>1. b # Null /\ Head_(b) \notin Elems
    BY <1>3, CountsRight, NodesDiffer
  <2>2. CASE at = Head_(b)
    BY <2>1, <2>2, <1>1, <1>3 DEF Chains, HeadsOK
  <2>3. CASE at \in Of(In, b)
    <3>1. at \in Inside(In) /\ In[at] = b /\ at \in Elems
      BY <2>1, <2>3 DEF Of, Inside
    <3> QED  BY <3>1, <1>1, <1>3 DEF Chains, NextOK
  <2> QED  BY <2>2, <2>3, <1>3
<1>5. Later(In)' = Later(In)
  BY <1>1 DEF Later, Ahead, Over
<1>6. WalkOK(In, Behind)'
  BY <1>1, <1>3, <1>4, <1>5 DEF WalkOK
<1>7. Stays
  BY <1>1, <1>2, <1>6 DEF Stays, HashInv, SearchOK, MoveOK, ClearOK
<1> QED  BY <1>1, <1>2, <1>7 DEF Refines, Abstract!vars

\* What hash_next has come to.
LEMMA AtNext ==
  ASSUME HashAssumption, NEW In, NEW Behind, HashInv(In, Behind), pc = "next"
  PROVE  /\ b \in Buckets(h.bucket_cnt) /\ op \in {"walk", "lookup"}
         /\ at \in Of(In, b) \cup {Tail_(b)} /\ rest = From(Behind, at) \cup Later(In)
         /\ b # Null /\ Tail_(b) \notin Elems /\ b[1] = h.bucket_cnt
         /\ Over = <<h.bucket_cnt, b[2] + 1>> /\ b \notin Ahead(Over)
         /\ b[2] + 1 < b[1] => Over \in Buckets(h.bucket_cnt)
         /\ b[2] + 1 >= b[1] => Ahead(Over) = {}
<1>1. /\ b \in Buckets(h.bucket_cnt) /\ op \in {"walk", "lookup"} /\ h.bucket_cnt \in Counts
      /\ at \in Of(In, b) \cup {Tail_(b)} /\ rest = From(Behind, at) \cup Later(In)
  BY AtRest DEF HashInv, WalkOK
<1>2. b # Null /\ Tail_(b) \notin Elems
  BY <1>1, CountsRight, NodesDiffer
<1> QED  BY <1>1, <1>2, AheadRight DEF Over

\* hash_next returns an element.
LEMMA MeetStep ==
  ASSUME HashAssumption, NEW In, NEW Behind, HashInv(In, Behind), Meet
  PROVE  Stays /\ Refines
<1>1. /\ pc = "next" /\ pc' = "walk" /\ at # Tail_(b)
      /\ call' = <<"next">> /\ ret' = at /\ rest' = rest \ {at}
      /\ UNCHANGED <<mem, h, n, b, op, at>>
  BY DEF Meet
<1>2. TableOK(In, Behind)' /\ Content = Inside(In) /\ Content' = Inside(In)
  BY <1>1, SameTable DEF HashInv, TableOK, TableTypes
<1>3. /\ b \in Buckets(h.bucket_cnt) /\ op \in {"walk", "lookup"} /\ b # Null
      /\ at \in Of(In, b) /\ rest = From(Behind, at) \cup Later(In) /\ b \notin Ahead(Over)
  BY <1>1, AtNext
<1>4. at \in Inside(In) /\ In[at] = b /\ at \in Elems
  BY <1>3 DEF Of, Inside
<1>5. at \notin Behind[at]
  BY <1>1, <1>4, AtRest DEF Chains, NextOK
<1>6. at \notin Later(In)
  BY <1>3, <1>4 DEF Later
<1>7. rest' = Behind[at] \cup Later(In) /\ at \in rest
  BY <1>1, <1>3, <1>4, <1>5, <1>6 DEF From
<1>8. Later(In)' = Later(In)
  BY <1>1 DEF Later, Ahead, Over
<1>9. WalkOK(In, Behind)'
  BY <1>1, <1>3, <1>4, <1>7, <1>8 DEF WalkOK
<1>10. Stays
  BY <1>1, <1>2, <1>9 DEF Stays, HashInv, SearchOK, MoveOK, ClearOK
<1>11. Abstract!NextElem
  BY <1>1, <1>2, <1>7 DEF Abstract!NextElem
<1> QED  BY <1>1, <1>10, <1>11 DEF Refines, Abstract!Next

\* hash_next goes to another bucket.
LEMMA SkipStep ==
  ASSUME HashAssumption, NEW In, NEW Behind, HashInv(In, Behind), SkipBucket
  PROVE  Stays /\ Refines
<1>1. /\ pc = "next" /\ pc' = "next" /\ at = Tail_(b) /\ ~IsLast
      /\ b' = Over /\ at' = Begin(mem, Over)
      /\ UNCHANGED <<mem, h, n, op, call, ret, rest>>
  BY DEF SkipBucket
<1>2. TableOK(In, Behind)' /\ Content = Inside(In) /\ Content' = Inside(In)
  BY <1>1, SameTable DEF HashInv, TableOK, TableTypes
<1>3. /\ b \in Buckets(h.bucket_cnt) /\ op = "walk"
      /\ rest = {f \in Inside(In) : In[f] \in Ahead(Over)}
      /\ b[2] \in Nat /\ b[1] = h.bucket_cnt /\ h.bucket_cnt \in Counts
  <2>1. /\ b \in Buckets(h.bucket_cnt) /\ op \in {"walk", "lookup"} /\ Tail_(b) \notin Elems
        /\ rest = From(Behind, at) \cup Later(In)
    BY <1>1, AtNext
  <2>2. b[2] \in Nat /\ b[1] = h.bucket_cnt /\ h.bucket_cnt \in Counts
    BY <2>1, <1>1, AtRest, AheadRight
  <2> QED  BY <2>1, <2>2, <1>1 DEF IsLast, From, Later
<1>4. Over \in Buckets(h.bucket_cnt)
  <2>1. h.bucket_cnt \in Nat
    BY <1>3, CountsRight
  <2>2. b[2] + 1 < b[1]
    BY <2>1, <1>1, <1>3 DEF IsLast
  <2> QED  BY <2>2, <1>1, AtNext
<1>5. PICK x \in Buckets(h.bucket_cnt) : x = Over
  BY <1>4
<1>6. /\ x[1] = h.bucket_cnt /\ Ahead(x) = {x} \cup Ahead(<<h.bucket_cnt, x[2] + 1>>)
      /\ x # Null
  BY <1>3, <1>5, AheadRight, CountsRight, NodesDiffer
<1>7. /\ at' \in Of(In, x) \cup {Tail_(x)} /\ From(Behind, at') = Of(In, x)
  BY <1>1, <1>5, AtRest DEF Chains, HeadsOK, Begin
<1>8. Later(In)' = {f \in Inside(In) : In[f] \in Ahead(<<h.bucket_cnt, x[2] + 1>>)}
  <2>1. Over' = <<h.bucket_cnt, x[2] + 1>> /\ op' = "walk"
    BY <1>1, <1>3, <1>5, <1>6 DEF Over
  <2> QED  BY <2>1 DEF Later, Ahead
<1>9. rest' = From(Behind, at') \cup Later(In)'
  BY <1>1, <1>3, <1>5, <1>6, <1>7, <1>8 DEF Of, Inside
<1>10. WalkOK(In, Behind)'
  BY <1>1, <1>3, <1>4, <1>5, <1>7, <1>9 DEF WalkOK
<1>11. Stays
  BY <1>1, <1>2, <1>10 DEF Stays, HashInv, SearchOK, MoveOK, ClearOK
<1> QED  BY <1>1, <1>2, <1>11 DEF Refines, Abstract!vars

\* hash_next returns null, the caller stops, or asks for the size.
LEMMA EndStep ==
  ASSUME HashAssumption, NEW In, NEW Behind, HashInv(In, Behind), MeetNone \/ Leave \/ Sized
  PROVE  Stays /\ Refines
<1>1. /\ UNCHANGED <<mem, h, n>> /\ pc \in {"next", "walk", "idle"} /\ pc' = "idle"
  BY DEF MeetNone, Leave, Sized
<1>2. MeetNone => rest = {}
  <2> SUFFICES ASSUME MeetNone  PROVE rest = {}
    OBVIOUS
  <2>1. /\ op \in {"walk", "lookup"} /\ Tail_(b) \notin Elems
        /\ rest = From(Behind, at) \cup Later(In)
        /\ b[2] + 1 >= b[1] => Ahead(Over) = {}
    BY AtNext DEF MeetNone
  <2> QED  BY <2>1 DEF MeetNone, IsLast, Later, From
<1>3. rest' = {}
  BY <1>2 DEF MeetNone, Leave, Sized, HashInv, TableOK
<1>4. TableOK(In, Behind)' /\ Content = Inside(In) /\ Content' = Inside(In)
  BY <1>1, <1>3, SameTable DEF HashInv, TableOK, TableTypes
<1>5. Stays
  BY <1>1, <1>4 DEF Stays, HashInv, SearchOK, MoveOK, WalkOK, ClearOK
<1>6. CASE MeetNone
  <2>1. Abstract!NextElem
    BY <1>1, <1>2, <1>3, <1>4, <1>6 DEF Abstract!NextElem, MeetNone
  <2> QED  BY <2>1, <1>1, <1>5 DEF Refines, Abstract!Next
<1>7. CASE Leave
  <2>1. Abstract!Leave
    BY <1>4, <1>7 DEF Abstract!Leave, Leave
  <2> QED  BY <2>1, <1>1, <1>5 DEF Refines, Abstract!Next
<1>8. CASE Sized
  <2>0. h.elem_cnt = Cardinality(Content) /\ call' = <<"size">> /\ ret' = h.elem_cnt
        /\ UNCHANGED rest
    BY <1>1, <1>4, <1>8 DEF Sized, HashInv, TableOK
  <2>1. Abstract!Sized
    <3>1. Abstract!Cardinality(Content) = Cardinality(Content)
      BY DEF Cardinality, Abstract!Cardinality
    <3> QED  BY <3>1, <2>0, <1>4 DEF Abstract!Sized
  <2> QED  BY <2>1, <1>1, <1>5 DEF Refines, Abstract!Next
<1> QED  BY <1>6, <1>7, <1>8

\* hash_clear begins with the first bucket.
LEMMA StartClearStep ==
  ASSUME HashAssumption, NEW In, NEW Behind, HashInv(In, Behind), StartClear
  PROVE  Stays /\ Refines
<1>1. /\ pc = "idle" /\ pc' = "clear" /\ b' = <<h.bucket_cnt, 0>>
      /\ UNCHANGED <<mem, h, n, call, ret, rest>>
  BY DEF StartClear
<1>2. TableOK(In, Behind)' /\ Content = Inside(In) /\ Content' = Inside(In)
  BY <1>1, SameTable DEF HashInv, TableOK, TableTypes
<1>3. ClearOK(In)'
  <2>1. Ahead(b)' = Ahead(<<h.bucket_cnt, 0>>)
    BY <1>1 DEF Ahead
  <2> QED  BY <2>1, <1>1, AtRest DEF ClearOK
<1>4. Stays
  BY <1>1, <1>2, <1>3 DEF Stays, HashInv, SearchOK, MoveOK, WalkOK
<1> QED  BY <1>1, <1>2, <1>4 DEF Refines, Abstract!vars

\* hash_clear takes an element out.
LEMMA ClearStep ==
  ASSUME HashAssumption, NEW In, NEW Behind, HashInv(In, Behind), NEW e \in Elems, Clear(e)
  PROVE  Stays /\ Refines
<1> DEFINE In2 == [In EXCEPT ![e] = Null]
           Behind2 == [f \in Elems |-> Behind[f] \ {e}]
<1>1. /\ pc = "clear" /\ e = mem[Head_(b)].next /\ e # Tail_(b)
      /\ mem' = Unlinked(mem, e) /\ call' = <<"clear", e>>
      /\ UNCHANGED <<h, pc, op, arg, b, at, n, ret, rest>>
  BY DEF Clear, IsEmpty, Begin
<1>2. /\ Chains(mem, Buckets(h.bucket_cnt), In, Behind) /\ TableTypes
      /\ Content = Inside(In) /\ rest = {}
      /\ \A f \in Inside(In) : In[f] = BucketOf(f)
      /\ b \in Buckets(h.bucket_cnt) /\ \A f \in Inside(In) : In[f] \in Ahead(b)
  BY <1>1, AtRest DEF HashInv, TableOK, ClearOK
<1>3. e \in Inside(In)
  <2>1. b # Null
    BY <1>1, <1>2, AtRest, CountsRight, NodesDiffer
  <2> QED  BY <2>1, <1>1, <1>2 DEF Chains, HeadsOK, Of, Inside
<1>4. Chains(mem', Buckets(h.bucket_cnt), In2, Behind2)
  BY <1>1, <1>2, <1>3, UnlinkKeeps
<1>5. Inside(In2) = Inside(In) \ {e} /\ \A f \in Inside(In2) : In2[f] = In[f]
  <2>1. In \in [Elems -> Buckets(h.bucket_cnt) \cup {Null}]
    BY <1>2 DEF Chains, Ghosts
  <2> QED  BY <2>1 DEF Inside
<1> HIDE DEF In2, Behind2
<1>6. Live' = Buckets(h.bucket_cnt) /\ TableTypes'
  BY <1>1, <1>2 DEF Live, TableTypes
<1>7. Unique(In2)' /\ Placed(In2)'
  BY <1>1, <1>2, <1>5 DEF Unique, Placed, BucketOf, HashInv, TableOK
<1>8. TableOK(In2, Behind2)'
  BY <1>1, <1>2, <1>4, <1>6, <1>7 DEF TableOK
<1>9. ClearOK(In2)'
  BY <1>1, <1>2, <1>5 DEF ClearOK, Ahead
<1>10. Stays
  BY <1>1, <1>8, <1>9 DEF Stays, HashInv, SearchOK, MoveOK, WalkOK
<1>11. Content' = Content \ {e}
  BY <1>2, <1>5, <1>8, ContentInsideThen
<1>12. Abstract!Clear(e)
  BY <1>1, <1>2, <1>3, <1>11 DEF Abstract!Clear
<1> QED  BY <1>1, <1>10, <1>12 DEF Refines, Abstract!Next

\* hash_clear goes to the next bucket or ends.
LEMMA ClearedStep ==
  ASSUME HashAssumption, NEW In, NEW Behind, HashInv(In, Behind), ClearNext \/ Cleared
  PROVE  Stays /\ Refines
<1>1. /\ pc = "clear" /\ IsEmpty(mem, b) /\ mem' = Fresh(mem, {b})
      /\ h'.bucket_cnt = h.bucket_cnt /\ h'.equal = h.equal /\ UNCHANGED <<n, ret, rest>>
  BY DEF ClearNext, Cleared, HashInv, TableOK, TableTypes
<1>2. /\ Chains(mem, Buckets(h.bucket_cnt), In, Behind) /\ TableTypes
      /\ Content = Inside(In) /\ rest = {} /\ h.bucket_cnt \in Counts
      /\ \A f \in Inside(In) : In[f] = BucketOf(f)
      /\ b \in Buckets(h.bucket_cnt) /\ \A f \in Inside(In) : In[f] \in Ahead(b)
  BY <1>1, AtRest DEF HashInv, TableOK, ClearOK
<1>3. /\ b[1] = h.bucket_cnt /\ Over = <<h.bucket_cnt, b[2] + 1>>
      /\ Ahead(b) = {b} \cup Ahead(Over)
      /\ b[2] + 1 < b[1] => Over \in Buckets(h.bucket_cnt)
      /\ b[2] + 1 >= b[1] => Ahead(Over) = {}
  BY <1>2, AheadRight DEF Over
<1>4. Of(In, b) = {}
  <2>1. Tail_(b) \notin Elems
    BY <1>2, CountsRight, NodesDiffer
  <2> QED  BY <2>1, <1>1, <1>2 DEF Chains, HeadsOK, From, IsEmpty, Begin
<1>5. \A f \in Inside(In) : In[f] \in Ahead(Over)
  BY <1>2, <1>3, <1>4 DEF Of, Inside
<1>6. Chains(mem', Buckets(h.bucket_cnt), In, Behind)
  <2>1. {b} \in SUBSET AllBuckets /\ Buckets(h.bucket_cnt) \cup {b} = Buckets(h.bucket_cnt)
    BY <1>2, CountsRight
  <2>2. \A x \in Buckets(h.bucket_cnt) \cap {b} : IsEmpty(mem, x)
    BY <1>1
  <2>3. Chains(mem', Buckets(h.bucket_cnt) \cup {b}, In, Behind)
    BY <2>1, <2>2, <1>1, <1>2, FreshKeeps
  <2> QED  BY <2>1, <2>3
<1>7. Unique(In)' /\ (pc' # "move" => Placed(In)')
  BY <1>1, <1>2 DEF Unique, Placed, BucketOf, HashInv, TableOK
<1>8. CASE ClearNext
  <2>1. pc' = "clear" /\ b' = Over /\ UNCHANGED <<h, call>> /\ Over \in Buckets(h.bucket_cnt)
    BY <1>1, <1>3, <1>8 DEF ClearNext
  <2>2. Live' = Buckets(h.bucket_cnt) /\ TableTypes'
    BY <2>1, <1>1, <1>2 DEF Live, TableTypes
  <2>3. TableOK(In, Behind)'
    BY <2>1, <2>2, <1>1, <1>2, <1>6, <1>7 DEF TableOK
  <2>4. ClearOK(In)'
    BY <2>1, <1>5 DEF ClearOK, Ahead
  <2>5. Stays
    BY <2>1, <2>3, <2>4 DEF Stays, HashInv, SearchOK, MoveOK, WalkOK
  <2>6. Content' = Content
    BY <2>3, <1>2, ContentInsideThen
  <2> QED  BY <2>1, <2>5, <2>6, <1>1 DEF Refines, Abstract!vars
<1>9. CASE Cleared
  <2>1. /\ pc' = "idle" /\ h' = [h EXCEPT !.elem_cnt = 0] /\ call' = <<"cleared">>
        /\ Ahead(Over) = {}
    BY <1>3, <1>9 DEF Cleared
  <2>2. Live' = Buckets(h.bucket_cnt) /\ TableTypes' /\ h'.elem_cnt = 0
    BY <2>1, <1>1, <1>2 DEF Live, TableTypes
  <2>3. Inside(In) = {}
    BY <2>1, <1>5
  <2>4. TableOK(In, Behind)'
    BY <2>1, <2>2, <2>3, <1>1, <1>2, <1>6, <1>7, FS_EmptySet DEF TableOK
  <2>5. Stays
    BY <2>1, <2>4 DEF Stays, HashInv, SearchOK, MoveOK, WalkOK, ClearOK
  <2>6. Content' = Content
    BY <2>4, <1>2, ContentInsideThen
  <2>7. Abstract!Cleared
    BY <2>1, <2>3, <2>6, <1>1, <1>2 DEF Abstract!Cleared
  <2> QED  BY <2>5, <2>7, <1>1 DEF Refines, Abstract!Next
<1> QED  BY <1>8, <1>9

----------------------------------------------------------------------------
Holds == \E In, Behind : HashInv(In, Behind)

\* hash_init_size makes an empty table.
LEMMA InitRight ==
  ASSUME HashAssumption, Init
  PROVE  Holds /\ Abstract!Init
<1> DEFINE In == [e \in Elems |-> Null]
           Behind == [e \in Elems |-> {}]
           m == [e \in Elems |-> [prev |-> Null, next |-> Null]]
<1>1. PICK size \in Sizes : /\ \E equal \in {"same", "never"} :
                                 h = [elem_cnt |-> 0, bucket_cnt |-> size,
                                      min_bucket_count |-> size, equal |-> equal]
                            /\ mem = Fresh(m, Buckets(size)) /\ n = size
  BY DEF Init
<1>2. /\ TableTypes /\ pc = "idle" /\ rest = {} /\ h.elem_cnt = 0 /\ h.bucket_cnt = size
      /\ size \in Counts /\ h.equal \in {"same", "never"} /\ call = <<>> /\ ret = Null
  BY <1>1, CountsRight DEF Init, TableTypes
<1>3. Buckets(size) \in SUBSET AllBuckets /\ Live = Buckets(size)
  BY <1>2, CountsRight DEF Live
<1>4. Chains(mem, Live, In, Behind)
  <2> HIDE DEF m, In, Behind
  <2>1. Chains(m, {}, In, Behind)
    BY NoLists DEF m, In, Behind
  <2>2. Chains(mem, {} \cup Buckets(size), In, Behind)
    BY <2>1, <1>1, <1>3, FreshKeeps
  <2> QED  BY <2>2, <1>3
<1>5. Inside(In) = {}
  BY DEF Inside
<1> HIDE DEF In, Behind
<1>6. TableOK(In, Behind)
  BY <1>2, <1>4, <1>5, FS_EmptySet DEF TableOK, Unique, Placed
<1>7. Holds
  BY <1>2, <1>6 DEF Holds, HashInv, SearchOK, MoveOK, WalkOK, ClearOK
<1>8. Content = {}
  BY <1>5, <1>6, ContentInside
<1> QED  BY <1>2, <1>7, <1>8 DEF Abstract!Init

\* Every step of the table is one of Table, or none.
LEMMA StepRight ==
  ASSUME HashAssumption, Holds, [Next]_vars
  PROVE  Holds' /\ Refines
<1>1. PICK In, Behind : HashInv(In, Behind)
  BY DEF Holds
<1>2. Stays => Holds'
  BY DEF Stays, Holds
<1>3. CASE UNCHANGED vars
  <2>1. HashInv(In, Behind)'
    BY <1>1, <1>3 DEF vars, HashInv, TableOK, TableTypes, Live, Unique, Placed, BucketOf,
       SearchOK, MoveOK, WalkOK, Later, Over, ClearOK
  <2>2. Content' = Content
    BY <1>3 DEF vars, Content, Hangs
  <2> QED  BY <2>1, <2>2, <1>3 DEF Holds, Refines, Abstract!vars, vars
<1>4. ASSUME NEW e \in Elems,
             \/ \E kind \in {"insert", "replace", "delete", "find"} : Start(kind, e)
             \/ Lookup(e) \/ Clear(e)
      PROVE  Holds' /\ Refines
  BY <1>1, <1>2, <1>4, StartStep, FirstLookupStep, ClearStep
<1>5. ASSUME NEW old \in Elems \cup {Null},
             Insert(old) \/ Replace(old) \/ Delete(old) \/ Find(old)
      PROVE  Holds' /\ Refines
  BY <1>1, <1>2, <1>5, InsertStep, ReplaceStep, DeleteFindStep
<1>6. CASE Seek \/ Round \/ Keep \/ Resize \/ Move \/ NextBucket \/ Moved
  BY <1>1, <1>2, <1>6, SeekStep, RoundKeepStep, ResizeStep, MoveStep, MovedStep
<1>7. CASE Advance \/ Meet \/ SkipBucket \/ MeetNone \/ Leave \/ Sized
  BY <1>1, <1>2, <1>7, AdvanceStep, MeetStep, SkipStep, EndStep
<1>8. CASE First
  BY <1>1, <1>2, <1>8, FirstLookupStep
<1>9. CASE StartClear \/ ClearNext \/ Cleared
  BY <1>1, <1>2, <1>9, StartClearStep, ClearedStep
<1> QED  BY <1>3, <1>4, <1>5, <1>6, <1>7, <1>8, <1>9 DEF Next

(***************************************************************************)
(* The hash table is a set, wherever rehash has put its elements: it       *)
(* implements Table, for all elements, hash functions and sizes.           *)
(***************************************************************************)
THEOREM TablesAreSets == HashAssumption => (Spec => ImplementsTable)
<1> SUFFICES ASSUME HashAssumption  PROVE Spec => ImplementsTable
  OBVIOUS
<1>1. Init => Holds /\ Abstract!Init
  BY InitRight
<1>2. Holds /\ [Next]_vars => Holds' /\ [Abstract!Next]_(Abstract!vars)
  BY StepRight DEF Refines
<1> QED  BY <1>1, <1>2, PTL DEF Spec, ImplementsTable, Abstract!Spec
=============================================================================
