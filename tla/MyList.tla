------------------------------- MODULE MyList -------------------------------
(***************************************************************************)
(* Lists of lib/mylist.c between which elements move.  An element is in no *)
(* list when it is inserted, and is in one when it is removed: the code    *)
(* leaves that to the caller, as it does that a splice does not put        *)
(* elements in front of one of their own.                                  *)
(***************************************************************************)
EXTENDS ListOps, SequencesExt

CONSTANT ListNames

VARIABLES
  mem,  \* the links of every element and header
  call, \* the last operation, as Lists names it
  ret   \* what it returned

vars == <<mem, call, ret>>

----------------------------------------------------------------------------
\* Loops over a list.

RECURSIVE Count(_, _, _)
\* mylist_size from e on
Count(m, l, e) == IF e = Tail_(l) THEN 0 ELSE 1 + Count(m, l, m[e].next)

RECURSIVE FirstGreater(_, _, _, _)
\* the loop of mylist_insert_ordered
FirstGreater(m, l, n, e) ==
  IF n = Tail_(l) \/ Less(e, n) THEN n ELSE FirstGreater(m, l, m[n].next, e)

RECURSIVE EndOfRun(_, _, _)
\* find_end_of_run
EndOfRun(m, a, b) ==
  LET n == m[a].next
  IN  IF n # b /\ ~Less(n, m[n].prev) THEN EndOfRun(m, n, b) ELSE n

RECURSIVE MergedUnstable(_, _, _, _)
\* Mutant of Merged: equal elements change places.
MergedUnstable(m, a0, a1b0, b1) ==
  IF a0 = a1b0 \/ a1b0 = b1 THEN m
  ELSE IF Less(a0, a1b0) THEN MergedUnstable(m, m[a0].next, a1b0, b1)
  ELSE LET n == m[a1b0].next
       IN  MergedUnstable(Spliced(m, a0, m[n].prev, n), a0, n, b1)

RECURSIVE Merged(_, _, _, _)
\* inplace_merge
Merged(m, a0, a1b0, b1) ==
  IF a0 = a1b0 \/ a1b0 = b1 THEN m
  ELSE IF ~Less(a1b0, a0) THEN Merged(m, m[a0].next, a1b0, b1)
  ELSE LET n == m[a1b0].next
       IN  Merged(Spliced(m, a0, m[n].prev, n), a0, n, b1)

RECURSIVE MergePass(_, _, _, _)
\* the for loop of mylist_sort, with output_run_cnt
MergePass(m, l, a0, runs) ==
  LET a1b0 == EndOfRun(m, a0, Tail_(l))
      b1   == EndOfRun(m, a1b0, Tail_(l))
  IN  CASE a0 = Tail_(l)   -> [mem |-> m, runs |-> runs]
        [] a1b0 = Tail_(l) -> [mem |-> m, runs |-> runs + 1]
        [] OTHER -> MergePass(Merged(m, a0, a1b0, b1), l, b1, runs + 1)

RECURSIVE Sorted(_, _)
\* mylist_sort
Sorted(m, l) ==
  LET p == MergePass(m, l, Begin(m, l), 0)
  IN  IF p.runs > 1 THEN Sorted(p.mem, l) ELSE p.mem

RECURSIVE Uniqued(_, _, _, _)
\* mylist_unique from e on; duplicates go to the back of d
Uniqued(m, l, d, e) ==
  LET n == m[e].next
  IN  IF n = Tail_(l) THEN m
      ELSE IF ~Less(e, n) /\ ~Less(n, e)
           THEN Uniqued(PushBack(Unlinked(m, n), d, n), l, d, e)
           ELSE Uniqued(m, l, d, n)

RECURSIVE Extremum(_, _, _, _, _)
\* mylist_max (up) and mylist_min
Extremum(m, l, best, e, up) ==
  IF e = Tail_(l) THEN best
  ELSE LET better == IF up THEN Less(best, e) ELSE Less(e, best)
       IN  Extremum(m, l, IF better THEN e ELSE best, m[e].next, up)

RECURSIVE ElemsFrom(_, _, _)
\* what a loop with mylist_next from n to mylist_end meets
ElemsFrom(m, l, n) ==
  IF n = Tail_(l) THEN <<>> ELSE <<n>> \o ElemsFrom(m, l, m[n].next)

----------------------------------------------------------------------------
Seq_(l)  == ElemsFrom(mem, l, Begin(mem, l))
Stops(l) == Seq_(l) \o <<Tail_(l)>>
Free(e)  == \A l \in ListNames : ~Contains(Seq_(l), e)

Init ==
  /\ mem = Fresh([e \in Elems |-> [prev |-> Null, next |-> Null]], ListNames)
  /\ call = <<>> /\ ret = Null

Put(m)      == mem' = m /\ ret' = Null
Get(m, r)   == mem' = m /\ ret' = r
Answer(l, r) == UNCHANGED mem /\ ret' = IF r = Tail_(l) THEN Null ELSE r

Insert(l, before, e) == Free(e) /\ Put(Linked(mem, before, e))
PushAtFront(l, e)    == Free(e) /\ Put(PushFront(mem, l, e))
PushAtBack(l, e)     == Free(e) /\ Put(PushBack(mem, l, e))
InsertOrdered(l, e)  ==
  Free(e) /\ Put(Linked(mem, FirstGreater(mem, l, Begin(mem, l), e), e))

\* mylist_remove returns the element behind, which may be the tail.
Remove_(l, e) ==
  Get(Unlinked(mem, e), IF mem[e].next = Tail_(l) THEN Null ELSE mem[e].next)

PopFront(l) ==
  /\ ~IsEmpty(mem, l)
  /\ LET e == Begin(mem, l) IN Get(Unlinked(mem, e), e)

PopBack(l) ==
  /\ ~IsEmpty(mem, l)
  /\ LET e == RBegin(mem, l) IN Get(Unlinked(mem, e), e)

Splice(l, i, j, before) ==
  /\ \A k \in i .. j - 1 : Seq_(l)[k] # before
  /\ Put(Spliced(mem, before, Stops(l)[i], Stops(l)[j]))

Sort(l) == Put(Sorted(mem, l))

Unique(l, d) ==
  Put(IF IsEmpty(mem, l) THEN mem ELSE Uniqued(mem, l, d, Begin(mem, l)))

Extreme(l, up) ==
  LET b == Begin(mem, l)
  IN  Answer(l, IF b = Tail_(l) THEN b ELSE Extremum(mem, l, b, mem[b].next, up))

Sized(l) == UNCHANGED mem /\ ret' = Count(mem, l, Begin(mem, l))

Next ==
  \E l, d \in ListNames :
    \/ \E e \in Elems :
         \/ \E i \in DOMAIN Stops(l) :
              call' = <<"insert", l, i, e>> /\ Insert(l, Stops(l)[i], e)
         \/ call' = <<"insert", l, 1, e>> /\ PushAtFront(l, e)
         \/ call' = <<"insert", l, Len(Stops(l)), e>> /\ PushAtBack(l, e)
         \/ call' = <<"insert_ordered", l, e>> /\ InsertOrdered(l, e)
    \/ \E i \in DOMAIN Seq_(l) : call' = <<"delete", l, i, TRUE>> /\ Remove_(l, Seq_(l)[i])
    \/ call' = <<"delete", l, 1, FALSE>> /\ PopFront(l)
    \/ call' = <<"delete", l, Len(Seq_(l)), FALSE>> /\ PopBack(l)
    \/ \E i, j \in DOMAIN Stops(l), k \in DOMAIN Stops(d) :
         i <= j /\ call' = <<"splice", l, i, j, d, k>> /\ Splice(l, i, j, Stops(d)[k])
    \/ call' = <<"sort", l>> /\ Sort(l)
    \/ l # d /\ call' = <<"unique", l, d>> /\ Unique(l, d)
    \/ \E up \in BOOLEAN : call' = <<"extreme", l, up>> /\ Extreme(l, up)
    \/ call' = <<"size", l>> /\ Sized(l)

Spec == Init /\ [][Next]_vars

----------------------------------------------------------------------------
(* Every operation does to the sequences of elements, and returns, what    *)
(* Lists says: the natural merge sort of mylist_sort sorts and is stable,  *)
(* mylist_unique leaves the first of equal neighbours, mylist_max and      *)
(* mylist_min return the first of several.                                 *)
Abstract == INSTANCE Lists WITH list <- [l \in ListNames |-> Seq_(l)]
ImplementsLists == Abstract!Spec

=============================================================================
