------------------------------- MODULE Lists -------------------------------
(***************************************************************************)
(* What lib/mylist.h promises: sequences of elements, each element in one  *)
(* place.  call is the last operation with its arguments, ret is what it   *)
(* returned.                                                               *)
(***************************************************************************)
EXTENDS Integers, FiniteSets, SequencesExt, FiniteSetsExt

CONSTANTS Elems, ListNames, Key, Null

VARIABLES list, call, ret

vars == <<list, call, ret>>

Free(e)   == \A l \in ListNames : ~Contains(list[l], e)
At(l, i)  == IF i \in DOMAIN list[l] THEN list[l][i] ELSE Null
Keys      == {Key[e] : e \in Elems}
Slots(l)  == 1 .. Len(list[l]) + 1

\* A stable sort: the elements of each key in the order they are in.
Ascending(s) ==
  FlattenSeq([k \in 1 .. Max(Keys) |-> SelectSeq(s, LAMBDA e : Key[e] = k)])

\* Positions of elements that differ from the one in front of them.
Leaders(s) == {i \in DOMAIN s : i = 1 \/ Key[s[i]] # Key[s[i - 1]]}
Part(s, I) == [j \in 1 .. Cardinality(I) |-> s[SetToSortSeq(I, <)[j]]]

Init == list = [l \in ListNames |-> <<>>] /\ call = <<>> /\ ret = Null

Insert(l, i, e) ==
  /\ Free(e)
  /\ list' = [list EXCEPT ![l] = InsertAt(@, i, e)] /\ ret' = Null

Delete(l, i, next) ==
  /\ ret' = IF next THEN At(l, i + 1) ELSE At(l, i)
  /\ list' = [list EXCEPT ![l] = RemoveAt(@, i)]

\* In front of the first element that is greater.
InsertOrdered(l, e) ==
  \E i \in Slots(l) :
    /\ \A j \in 1 .. i - 1 : Key[list[l][j]] <= Key[e]
    /\ i \in DOMAIN list[l] => Key[list[l][i]] > Key[e]
    /\ Insert(l, i, e)

\* Elements i to j - 1 of l go in front of the k-th of d.
Splice(l, i, j, d, k) ==
  LET part == SubSeq(list[l], i, j - 1)
      rest == SubSeq(list[l], 1, i - 1) \o SubSeq(list[l], j, Len(list[l]))
      left == [list EXCEPT ![l] = rest]
      to   == IF d = l /\ k >= j THEN k - (j - i) ELSE k
      at   == left[d]
  IN  /\ d = l => k \notin i .. j - 1
      /\ list' = [left EXCEPT ![d] =
                    SubSeq(at, 1, to - 1) \o part \o SubSeq(at, to, Len(at))]
      /\ ret' = Null

Sort(l) == list' = [list EXCEPT ![l] = Ascending(@)] /\ ret' = Null

Unique(l, d) ==
  LET I == Leaders(list[l])
  IN  /\ list' = [list EXCEPT ![l] = Part(@, I),
                              ![d] = @ \o Part(list[l], DOMAIN list[l] \ I)]
      /\ ret' = Null

\* The first of the greatest (up) or least elements.
Extreme(l, up) ==
  /\ UNCHANGED list
  /\ \/ list[l] = <<>> /\ ret' = Null
     \/ \E i \in DOMAIN list[l] :
          /\ ret' = list[l][i]
          /\ \A j \in DOMAIN list[l] :
               LET less == IF up THEN Key[list[l][j]] < Key[list[l][i]]
                                 ELSE Key[list[l][j]] > Key[list[l][i]]
               IN  less \/ (Key[list[l][j]] = Key[list[l][i]] /\ j >= i)

Sized(l) == ret' = Len(list[l]) /\ UNCHANGED list

Next ==
  \E l, d \in ListNames :
    \/ \E e \in Elems :
         \/ call' = <<"insert_ordered", l, e>> /\ InsertOrdered(l, e)
         \/ \E i \in Slots(l) : call' = <<"insert", l, i, e>> /\ Insert(l, i, e)
    \/ \E i \in DOMAIN list[l], next \in BOOLEAN :
         call' = <<"delete", l, i, next>> /\ Delete(l, i, next)
    \/ \E i, j \in Slots(l), k \in Slots(d) :
         i <= j /\ call' = <<"splice", l, i, j, d, k>> /\ Splice(l, i, j, d, k)
    \/ call' = <<"sort", l>> /\ Sort(l)
    \/ l # d /\ call' = <<"unique", l, d>> /\ Unique(l, d)
    \/ \E up \in BOOLEAN : call' = <<"extreme", l, up>> /\ Extreme(l, up)
    \/ call' = <<"size", l>> /\ Sized(l)

Spec == Init /\ [][Next]_vars

=============================================================================
