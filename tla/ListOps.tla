------------------------------ MODULE ListOps ------------------------------
(***************************************************************************)
(* lib/mylist.c, what its functions do to links: operators on a memory m,  *)
(* which has the two links of every element and of the two headers of      *)
(* every list.                                                             *)
(***************************************************************************)
EXTENDS Integers

CONSTANTS
  Elems,  \* struct mylist_elem inside other structures
  Null,
  Key     \* what the less functions compare

Head_(l) == <<"head", l>>
Tail_(l) == <<"tail", l>>

Less(a, b) == Key[a] < Key[b]

\* mylist_init of the lists L, in a memory that has more
Heads(L) == {Head_(l) : l \in L}
Tails(L) == {Tail_(l) : l \in L}
Fresh(m, L) ==
  [n \in DOMAIN m \cup Heads(L) \cup Tails(L) |->
     IF n \in Heads(L) THEN [prev |-> Null, next |-> Tail_(n[2])]
     ELSE IF n \in Tails(L) THEN [prev |-> Head_(n[2]), next |-> Null]
     ELSE m[n]]

Begin(m, l)    == m[Head_(l)].next
RBegin(m, l)   == m[Tail_(l)].prev
IsEmpty(m, l)  == Begin(m, l) = Tail_(l)

\* mylist_insert
Linked(m, before, e) ==
  LET p == m[before].prev
  IN  [m EXCEPT ![e] = [prev |-> p, next |-> before],
                ![p].next = e, ![before].prev = e]

PushFront(m, l, e) == Linked(m, Begin(m, l), e)
PushBack(m, l, e)  == Linked(m, Tail_(l), e)

\* mylist_remove: the removed element keeps its links.
Unlinked(m, e) == [m EXCEPT ![m[e].prev].next = m[e].next,
                            ![m[e].next].prev = m[e].prev]

\* mylist_splice; end is the argument last, which is exclusive.
Spliced(m, before, first, end) ==
  LET last == m[end].prev
      cut  == [m EXCEPT ![m[first].prev].next = m[last].next,
                        ![m[last].next].prev = m[first].prev]
      p    == cut[before].prev
  IN  IF first = end THEN m
      ELSE [cut EXCEPT ![first].prev = p, ![last].next = before,
                       ![p].next = first, ![before].prev = last]

=============================================================================
