----------------------------- MODULE JumpCache -----------------------------
(***************************************************************************)
(* What the dispatcher expects of a per-cpu table of branch targets: it    *)
(* keeps no entry for good, and knows nothing it was not told.  Jumptable1 *)
(* shows that the table of the code is such a cache.                       *)
(***************************************************************************)

\* The contents a cache may have after the addition of an entry.
AfterAdd(cache, entry) == {kept \cup {entry} : kept \in SUBSET cache}

\* The contents it may have after a search that finds an entry.
AfterHit(cache, entry) == {kept \in SUBSET cache : entry \in kept}

=============================================================================
