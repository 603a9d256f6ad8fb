------------------------------- MODULE Table -------------------------------
(***************************************************************************)
(* What lib/hash.h promises: a set of elements without two that are equal. *)
(* call is the last operation and ret what it returned, an element or Null *)
(* (for the size a number).                                                *)
(*                                                                         *)
(* A walk through the table, and a lookup, which is a walk through the     *)
(* elements with one hash value and perhaps others, returns an element at  *)
(* a time: rest has the elements that it has not returned yet.             *)
(***************************************************************************)
EXTENDS Integers, FiniteSets

CONSTANTS Elems, Null, HashOf, Equal(_, _, _)

VARIABLES content, equal, call, ret, rest

vars == <<content, equal, call, ret, rest>>

Found(e) == {f \in content : Equal(equal, f, e)}

\* the element that is equal to e
Returned(e) == IF Found(e) = {} THEN ret' = Null ELSE Found(e) = {ret'}

Init == /\ content = {} /\ equal \in {"same", "never"}
        /\ call = <<>> /\ ret = Null /\ rest = {}

Insert(e) ==
  /\ call' = <<"insert", e>> /\ Returned(e)
  /\ e \notin content
  /\ content' = IF Found(e) = {} THEN content \cup {e} ELSE content
  /\ UNCHANGED rest

Replace(e) ==
  /\ call' = <<"replace", e>> /\ Returned(e)
  /\ e \notin content
  /\ content' = (content \ Found(e)) \cup {e}
  /\ UNCHANGED rest

Delete(e) ==
  /\ call' = <<"delete", e>> /\ Returned(e)
  /\ content' = content \ Found(e)
  /\ UNCHANGED rest

Find(e) == call' = <<"find", e>> /\ Returned(e) /\ UNCHANGED <<content, rest>>

Sized ==
  /\ call' = <<"size">> /\ ret' = Cardinality(content)
  /\ UNCHANGED <<content, rest>>

First == rest' = content /\ UNCHANGED <<content, call, ret>>

Lookup(e) ==
  /\ rest' \in SUBSET content
  /\ {f \in content : HashOf[f] = HashOf[e]} \subseteq rest'
  /\ UNCHANGED <<content, call, ret>>

NextElem ==
  /\ call' = <<"next">>
  /\ IF rest = {} THEN ret' = Null ELSE ret' \in rest
  /\ rest' = rest \ {ret'}
  /\ UNCHANGED content

\* The caller stops asking.
Leave == rest' = {} /\ UNCHANGED <<content, call, ret>>

\* An element is handed to the destructor; none is left at the end.
Clear(e) ==
  /\ call' = <<"clear", e>>
  /\ e \in content /\ content' = content \ {e}
  /\ UNCHANGED <<ret, rest>>

Cleared == call' = <<"cleared">> /\ content = {} /\ UNCHANGED <<content, ret, rest>>

Next ==
  /\ UNCHANGED equal
  /\ \/ \E e \in Elems :
          \/ Insert(e) \/ Replace(e) \/ Delete(e) \/ Find(e)
          \/ Lookup(e) \/ Clear(e)
     \/ Sized \/ First \/ NextElem \/ Leave \/ Cleared

Spec == Init /\ [][Next]_vars

=============================================================================
