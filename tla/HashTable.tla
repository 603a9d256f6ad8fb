------------------------------ MODULE HashTable ------------------------------
(***************************************************************************)
(* lib/hash.c: buckets that are lists of ListOps, and their number, which  *)
(* follows the number of elements.  The two tables of the repository       *)
(* differ in their comparison: peepgen.c compares (equal is "same"), the   *)
(* table of rules in peep/peep.c never finds two entries equal ("never")   *)
(* and is searched bucket by bucket.                                       *)
(*                                                                         *)
(* Every step of a loop is a step here: of the search through a bucket, of *)
(* the rounding of the new number of buckets, of the move of elements to   *)
(* their new buckets, of a walk.                                           *)
(*                                                                         *)
(* An array of k buckets is the lists <<k, 0>> to <<k, k - 1>>: rehash     *)
(* allocates an array only when the number changes.                        *)
(***************************************************************************)
EXTENDS ListOps, FiniteSets

CONSTANTS
  HashOf,       \* what h->hash computes from an element
  Sizes,        \* values for the argument size of hash_init_size
  BitAnd(_, _)  \* the operator & of C

VARIABLES
  mem,      \* the links of elements and buckets
  h,        \* struct hash
  pc,       \* where the operation is: "idle" between operations
  op, arg,  \* the operation, and the element it was called with
  b,        \* the bucket in which it is
  at,       \* the element or header at which it is
  n,        \* new_bucket_cnt of rehash
  call,     \* the last operation that returned
  ret,      \* what it returned
  rest      \* the elements that a walk has still to meet

vars == <<mem, h, pc, op, arg, b, at, n, call, ret, rest>>

BEST_ELEMS_PER_BUCKET == 2

Buckets(k) == {<<k, i>> : i \in 0 .. k - 1}

\* All numbers of buckets that the code can come to, before it rounds them.
Counts == UNION {1 .. s : s \in Sizes \cup {Cardinality(Elems)}}

HashAssumption ==
  /\ IsFiniteSet(Elems)
  /\ Sizes \in SUBSET (Nat \ {0}) /\ HashOf \in [Elems -> Nat]
  /\ \A e, f \in Elems : Key[e] = Key[f] => HashOf[e] = HashOf[f]
  /\ \A k \in Counts : /\ \A e \in Elems : BitAnd(HashOf[e], k - 1) \in 0 .. k - 1
                       /\ BitAnd(k, k - 1) \in 0 .. k - 1
  /\ \A k \in Counts : \A x \in Buckets(k) :
       {x, Head_(x), Tail_(x)} \cap (Elems \cup {Null}) = {}
  /\ Null \notin Elems

FindBucket(k, e) == <<k, BitAnd(HashOf[e], k - 1)>>
BucketOf(e)      == FindBucket(h.bucket_cnt, e)

\* the functions behind h->equal: entry_equal and peep_entry_equal
Equal(equal, e, f) == equal = "same" /\ Key[e] = Key[f]

\* the number of buckets for cnt elements, which is rounded afterwards
Wanted(cnt) ==
  LET k == cnt \div BEST_ELEMS_PER_BUCKET
  IN  IF k < h.min_bucket_count THEN h.min_bucket_count ELSE k

\* the elements of the table: those that the link behind them points to
Hangs(e) == mem[e].prev \in DOMAIN mem /\ mem[mem[e].prev].next = e
Content  == {e \in Elems : Hangs(e)}

\* btfree of an array of k buckets
Dropped(m, k) == [x \in DOMAIN m \ (Heads(Buckets(k)) \cup Tails(Buckets(k))) |-> m[x]]

----------------------------------------------------------------------------
\* hash_init_size, and hash_init, which passes 4
Init ==
  /\ \E size \in Sizes, equal \in {"same", "never"} :
       /\ h = [elem_cnt |-> 0, bucket_cnt |-> size, min_bucket_count |-> size,
               equal |-> equal]
       /\ mem = Fresh([e \in Elems |-> [prev |-> Null, next |-> Null]], Buckets(size))
       /\ b = <<size, 0>> /\ n = size
  /\ pc = "idle" /\ op = "none" /\ arg = Null /\ at = Null
  /\ call = <<>> /\ ret = Null /\ rest = {}

(***************************************************************************)
(* find_elem, with which hash_insert, hash_replace, hash_delete and        *)
(* hash_find begin.                                                        *)
(***************************************************************************)
Start(kind, e) ==
  /\ pc = "idle"
  /\ kind \in {"insert", "replace"} => e \notin Content
  /\ op' = kind /\ arg' = e /\ pc' = "search"
  /\ b' = BucketOf(e) /\ at' = Begin(mem, BucketOf(e))
  /\ UNCHANGED <<mem, h, n, call, ret, rest>>

Seek ==
  /\ pc = "search" /\ at # Tail_(b) /\ ~Equal(h.equal, at, arg)
  /\ at' = mem[at].next
  /\ UNCHANGED <<mem, h, pc, op, arg, b, n, call, ret, rest>>

\* The search has ended at the element old, or with Null.
Ends(old) ==
  /\ pc = "search"
  /\ \/ at = Tail_(b) /\ old = Null
     \/ at # Tail_(b) /\ old = at /\ Equal(h.equal, at, arg)
  /\ call' = <<op, arg>> /\ ret' = old
  /\ UNCHANGED <<op, arg, b, at, rest>>

\* rehash begins, with cnt elements.
Rehash(cnt) ==
  /\ h' = [h EXCEPT !.elem_cnt = cnt]
  /\ n' = Wanted(cnt) /\ pc' = "round"

Insert(old) ==
  /\ Ends(old) /\ op = "insert"
  /\ \/ old = Null /\ mem' = PushFront(mem, b, arg) /\ Rehash(h.elem_cnt + 1)
     \/ old # Null /\ mem' = mem /\ Rehash(h.elem_cnt)

Replace(old) ==
  /\ Ends(old) /\ op = "replace"
  /\ \/ old = Null /\ mem' = PushFront(mem, b, arg) /\ Rehash(h.elem_cnt + 1)
     \/ old # Null /\ mem' = PushFront(Unlinked(mem, old), b, arg) /\ Rehash(h.elem_cnt)

Delete(found) ==
  /\ Ends(found) /\ op = "delete"
  /\ \/ found = Null /\ pc' = "idle" /\ UNCHANGED <<mem, h, n>>
     \/ found # Null /\ mem' = Unlinked(mem, found) /\ Rehash(h.elem_cnt - 1)

Find(found) == Ends(found) /\ op = "find" /\ pc' = "idle" /\ UNCHANGED <<mem, h, n>>

(***************************************************************************)
(* rehash                                                                  *)
(***************************************************************************)
\* turn_off_least_1bit, until my_is_power_of_2
Round ==
  /\ pc = "round" /\ BitAnd(n, n - 1) # 0
  /\ n' = BitAnd(n, n - 1)
  /\ UNCHANGED <<mem, h, pc, op, arg, b, at, call, ret, rest>>

\* The number would not change, or there is no memory for new buckets: ABORT only
\* logs, and the table goes on with the buckets it has.
Keep ==
  /\ pc = "round" /\ BitAnd(n, n - 1) = 0
  /\ pc' = "idle"
  /\ UNCHANGED <<mem, h, op, arg, b, at, n, call, ret, rest>>

\* The new array is installed and the first old bucket begun.
Resize ==
  /\ pc = "round" /\ BitAnd(n, n - 1) = 0 /\ n # h.bucket_cnt
  /\ mem' = Fresh(mem, Buckets(n))
  /\ h' = [h EXCEPT !.bucket_cnt = n]
  /\ b' = <<h.bucket_cnt, 0>> /\ at' = Begin(mem, <<h.bucket_cnt, 0>>)
  /\ pc' = "move"
  /\ UNCHANGED <<op, arg, n, call, ret, rest>>

\* The next element is read before this one is moved.
Move ==
  /\ pc = "move" /\ at # Tail_(b)
  /\ at' = mem[at].next
  /\ mem' = PushFront(Unlinked(mem, at), BucketOf(at), at)
  /\ UNCHANGED <<h, pc, op, arg, b, n, call, ret, rest>>

\* the bucket behind b
Over == <<b[1], b[2] + 1>>

NextBucket ==
  /\ pc = "move" /\ at = Tail_(b) /\ b[2] + 1 < b[1]
  /\ b' = Over /\ at' = Begin(mem, Over)
  /\ UNCHANGED <<mem, h, pc, op, arg, n, call, ret, rest>>

Moved ==
  /\ pc = "move" /\ at = Tail_(b) /\ b[2] + 1 >= b[1]
  /\ mem' = Dropped(mem, b[1])
  /\ pc' = "idle"
  /\ UNCHANGED <<h, op, arg, b, at, n, call, ret, rest>>

(***************************************************************************)
(* hash_first and hash_next, and hash_apply, which meets the same          *)
(* elements; hash_find_bucket and hash_find_bucket_with_hash, with the     *)
(* loop of peep_translate through the bucket.  Between two elements the    *)
(* caller may stop.                                                        *)
(***************************************************************************)
First ==
  /\ pc = "idle" /\ pc' = "walk" /\ op' = "walk"
  /\ b' = <<h.bucket_cnt, 0>> /\ at' = Head_(<<h.bucket_cnt, 0>>)
  /\ rest' = Content
  /\ UNCHANGED <<mem, h, arg, n, call, ret>>

Lookup(e) ==
  /\ pc = "idle" /\ pc' = "walk" /\ op' = "lookup"
  /\ b' = BucketOf(e) /\ at' = Head_(BucketOf(e))
  /\ rest' = {f \in Content : BucketOf(f) = BucketOf(e)}
  /\ UNCHANGED <<mem, h, arg, n, call, ret>>

Advance ==
  /\ pc = "walk" /\ pc' = "next"
  /\ at' = mem[at].next
  /\ UNCHANGED <<mem, h, op, arg, b, n, call, ret, rest>>

Meet ==
  /\ pc = "next" /\ at # Tail_(b) /\ pc' = "walk"
  /\ call' = <<"next">> /\ ret' = at /\ rest' = rest \ {at}
  /\ UNCHANGED <<mem, h, op, arg, b, at, n>>

\* Mutant of IsLast: an empty bucket ends the walk.
IsLastIfEmpty == op = "lookup" \/ b[2] + 1 >= b[1] \/ (Over[2] < b[1] /\ IsEmpty(mem, Over))

\* No bucket follows that the walk goes to.
IsLast == op = "lookup" \/ b[2] + 1 >= b[1]

SkipBucket ==
  /\ pc = "next" /\ at = Tail_(b) /\ ~IsLast
  /\ b' = Over /\ at' = Begin(mem, Over)
  /\ UNCHANGED <<mem, h, pc, op, arg, n, call, ret, rest>>

MeetNone ==
  /\ pc = "next" /\ at = Tail_(b) /\ IsLast /\ pc' = "idle"
  /\ call' = <<"next">> /\ ret' = Null
  /\ UNCHANGED <<mem, h, op, arg, b, at, n, rest>>

Leave ==
  /\ pc = "walk" /\ pc' = "idle" /\ rest' = {}
  /\ UNCHANGED <<mem, h, op, arg, b, at, n, call, ret>>

\* hash_size
Sized ==
  /\ pc = "idle" /\ call' = <<"size">> /\ ret' = h.elem_cnt
  /\ UNCHANGED <<mem, h, pc, op, arg, b, at, n, rest>>

(***************************************************************************)
(* hash_clear, with the destructor of hash_destroy                         *)
(***************************************************************************)
StartClear ==
  /\ pc = "idle" /\ pc' = "clear" /\ b' = <<h.bucket_cnt, 0>>
  /\ UNCHANGED <<mem, h, op, arg, at, n, call, ret, rest>>

Clear(e) ==
  /\ pc = "clear" /\ ~IsEmpty(mem, b) /\ e = Begin(mem, b)
  /\ mem' = Unlinked(mem, e) /\ call' = <<"clear", e>>
  /\ UNCHANGED <<h, pc, op, arg, b, at, n, ret, rest>>

ClearNext ==
  /\ pc = "clear" /\ IsEmpty(mem, b) /\ b[2] + 1 < b[1]
  /\ mem' = Fresh(mem, {b}) /\ b' = Over
  /\ UNCHANGED <<h, pc, op, arg, at, n, call, ret, rest>>

Cleared ==
  /\ pc = "clear" /\ IsEmpty(mem, b) /\ b[2] + 1 >= b[1] /\ pc' = "idle"
  /\ mem' = Fresh(mem, {b}) /\ h' = [h EXCEPT !.elem_cnt = 0]
  /\ call' = <<"cleared">>
  /\ UNCHANGED <<op, arg, b, at, n, ret, rest>>

Next ==
  \/ \E e \in Elems :
       \/ \E kind \in {"insert", "replace", "delete", "find"} : Start(kind, e)
       \/ Lookup(e) \/ Clear(e)
  \/ Seek
  \/ \E old \in Elems \cup {Null} : Insert(old) \/ Replace(old) \/ Delete(old) \/ Find(old)
  \/ Round \/ Keep \/ Resize \/ Move \/ NextBucket \/ Moved
  \/ First \/ Advance \/ Meet \/ SkipBucket \/ MeetNone \/ Leave \/ Sized
  \/ StartClear \/ ClearNext \/ Cleared

Spec == Init /\ [][Next]_vars

----------------------------------------------------------------------------
(* The table is the set of elements of Table: insertion, replacement,      *)
(* search and deletion find an equal element wherever rehash has put it,   *)
(* the bucket that a hash value selects holds all elements with it, which  *)
(* is where peep_translate looks for the rules of an instruction, and a    *)
(* walk meets every element once.  A size that is no power of two          *)
(* (peep_init passes the number of rules) is rounded by the first          *)
(* insertion only.                                                         *)
Abstract == INSTANCE Table WITH content <- Content, equal <- h.equal
ImplementsTable == Abstract!Spec

=============================================================================
