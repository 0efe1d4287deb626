-------------------------------- MODULE UTHash --------------------------------
(***************************************************************************)
(* The hash table of uthash.h, as pubsub.c uses it for topic_map, down to  *)
(* the pointers.  An element is the key it has.  A table is a record       *)
(*   head, tail        the first and the last element in the order they    *)
(*                     were added (the table itself exists while there is  *)
(*                     an element)                                         *)
(*   prev, next        that order                                          *)
(*   hh_prev, hh_next  the chain of the element's bucket                   *)
(*   buckets           from 0 on: the first of the chain, its length, and  *)
(*                     how many thresholds longer it may grow              *)
(*   num_items, ideal_chain_maxlen, nonideal_items, ineff_expands,         *)
(*   noexpand                                                              *)
(* An element that is not in memory has Garbage in its pointers.  malloc   *)
(* does not fail: uthash_fatal ends the program.                           *)
(*                                                                         *)
(* A definition said to be a mutation is what a bug would make of the one  *)
(* after it; PROJECT.json names the property that notices.                 *)
(***************************************************************************)
EXTENDS DList, SequencesExt

CONSTANTS Hash,            \* the hash value of each key (JEN, 32 bits)
          InitialBuckets,  \* HASH_INITIAL_NUM_BUCKETS (32)
          Threshold        \* HASH_BKT_CAPACITY_THRESH (10)

ASSUME HashAssumption ==
    /\ InitialBuckets \in Nat \ {0}
    /\ Threshold \in Nat \ {0}
    /\ IsFiniteSet(DOMAIN Hash)
    /\ \A k \in DOMAIN Hash : Hash[k] \in Nat

Key == DOMAIN Hash

EmptyBucket == [hh_head |-> NULL, count |-> 0, expand_mult |-> 0]

NoTable ==
    LET garbage == [k \in Key |-> Garbage]
    IN  [head |-> NULL, tail |-> NULL, prev |-> garbage, next |-> garbage,
         hh_prev |-> garbage, hh_next |-> garbage, buckets |-> <<>>,
         num_items |-> 0, ideal_chain_maxlen |-> 0, nonideal_items |-> 0,
         ineff_expands |-> 0, noexpand |-> FALSE]

\* calloc of an element, and free
HashCalloc(h, k) ==
    [h EXCEPT !.prev = Store(@, k, NULL), !.next = Store(@, k, NULL),
              !.hh_prev = Store(@, k, NULL), !.hh_next = Store(@, k, NULL)]
HashFree(h, k) ==
    [h EXCEPT !.prev = Store(@, k, Garbage), !.next = Store(@, k, Garbage),
              !.hh_prev = Store(@, k, Garbage), !.hh_next = Store(@, k, Garbage)]

\* A store through a pointer that may be NULL.
Put(f, p, v) == IF p = NULL THEN f ELSE Store(f, p, v)

NumBuckets(h) == Cardinality(DOMAIN h.buckets)

\* HASH_TO_BKT; the number of buckets is a power of 2.
Bucket(h, k) == Hash[k] % NumBuckets(h)

InBucket(h, b) == Chain(h.buckets[b].hh_head, h.hh_next)

\* All elements, chain by chain
Items(h) == FlattenSeq([b \in 1..NumBuckets(h) |-> InBucket(h, b - 1)])

\* HASH_FIND_STR
HASH_FIND(h, k) ==
    IF h.head # NULL /\ Contains(InBucket(h, Bucket(h, k)), k) THEN k ELSE NULL

\* The elements in the order of HASH_ITER
HASH_ITER(h) == Chain(h.head, h.next)

\* HASH_MAKE_TABLE, for the first element: h is NoTable but for add.
MakeTable(h, add) ==
    [h EXCEPT !.head = add, !.tail = add,
              !.buckets = [b \in 0..(InitialBuckets - 1) |-> EmptyBucket]]

\* HASH_APPEND_LIST
AppendList(h, add) ==
    [h EXCEPT !.prev = Store(@, add, h.tail),
              !.next = Store(Store(@, add, NULL), h.tail, add),
              !.tail = add]

\* HASH_ADD_TO_BKT up to the test: the element becomes the first of its chain.
AddToBucket(h, k) ==
    LET b      == Bucket(h, k)
        bucket == h.buckets[b]
        first  == bucket.hh_head
    IN  [h EXCEPT !.buckets = Store(@, b, [bucket EXCEPT !.count = bucket.count + 1,
                                                         !.hh_head = k]),
                  !.hh_next = Store(@, k, first),
                  !.hh_prev = Put(Store(@, k, NULL), first, k)]

\* One element of HASH_EXPAND_BUCKETS goes to its new bucket.
Rehash(h, k) ==
    LET moved  == AddToBucket(h, k)
        b      == Bucket(h, k)
        bucket == moved.buckets[b]
        ideal  == h.ideal_chain_maxlen
        longer == [bucket EXCEPT !.expand_mult = bucket.expand_mult + 1]
    IN  IF bucket.count <= ideal THEN moved
        ELSE [moved EXCEPT
                !.nonideal_items = @ + 1,
                !.buckets = IF bucket.count > bucket.expand_mult * ideal
                            THEN Store(@, b, longer) ELSE @]

\* A mutation: chains are kept that the new number of buckets splits.
ExpandInPlace(h) ==
    [h EXCEPT !.buckets = [b \in 0..(2 * NumBuckets(h) - 1) |->
                              IF b < NumBuckets(h) THEN h.buckets[b] ELSE EmptyBucket]]

\* HASH_EXPAND_BUCKETS: twice as many buckets, chain by chain.
Expand(h) ==
    LET n       == 2 * NumBuckets(h)
        items   == Items(h)
        emptied == [h EXCEPT !.buckets = [b \in 0..(n - 1) |-> EmptyBucket],
                             !.ideal_chain_maxlen = (h.num_items + n - 1) \div n,
                             !.nonideal_items = 0]
        filled[i \in 0..Len(items)] ==
            IF i = 0 THEN emptied ELSE Rehash(filled[i - 1], items[i])
        done    == filled[Len(items)]
        ineff   == IF done.nonideal_items > h.num_items \div 2 THEN h.ineff_expands + 1 ELSE 0
    IN  [done EXCEPT !.ineff_expands = ineff, !.noexpand = h.noexpand \/ ineff > 1]

\* The chain of k is as long as its bucket allows.
IsFull(h, k) ==
    LET b == h.buckets[Bucket(h, k)]
    IN  b.count >= (b.expand_mult + 1) * Threshold

\* HASH_ADD_KEYPTR
HASH_ADD(h, k) ==
    LET listed == IF h.head = NULL THEN MakeTable(h, k) ELSE AppendList(h, k)
        added  == AddToBucket([listed EXCEPT !.num_items = @ + 1], k)
    IN  IF IsFull(added, k) /\ ~added.noexpand THEN Expand(added) ELSE added

\* HASH_DEL_IN_BKT
DelInBucket(h, k) ==
    LET b      == Bucket(h, k)
        bucket == h.buckets[b]
        first  == IF bucket.hh_head = k THEN h.hh_next[k] ELSE bucket.hh_head
    IN  [h EXCEPT !.buckets = Store(@, b, [bucket EXCEPT !.count = bucket.count - 1,
                                                         !.hh_head = first]),
                  !.hh_next = Put(@, h.hh_prev[k], h.hh_next[k]),
                  !.hh_prev = Put(@, h.hh_next[k], h.hh_prev[k])]

\* A mutation: the last element goes, and the table still appends after it.
DeleteKeepsTail(h, k) ==
    IF h.prev[k] = NULL /\ h.next[k] = NULL
    THEN [NoTable EXCEPT !.prev = h.prev, !.next = h.next,
                         !.hh_prev = h.hh_prev, !.hh_next = h.hh_next]
    ELSE DelInBucket([h EXCEPT !.head = IF h.prev[k] = NULL THEN h.next[k] ELSE @,
                               !.next = Put(@, h.prev[k], h.next[k]),
                               !.prev = Put(@, h.next[k], h.prev[k]),
                               !.num_items = @ - 1], k)

\* HASH_DEL: the last element takes the table with it.
HASH_DEL(h, k) ==
    IF h.prev[k] = NULL /\ h.next[k] = NULL
    THEN [NoTable EXCEPT !.prev = h.prev, !.next = h.next,
                         !.hh_prev = h.hh_prev, !.hh_next = h.hh_next]
    ELSE DelInBucket([h EXCEPT !.tail = IF @ = k THEN h.prev[k] ELSE @,
                               !.head = IF h.prev[k] = NULL THEN h.next[k] ELSE @,
                               !.next = Put(@, h.prev[k], h.next[k]),
                               !.prev = Put(@, h.next[k], h.prev[k]),
                               !.num_items = @ - 1], k)

(***************************************************************************)
(* What HASH_FSCK checks                                                   *)
(***************************************************************************)

\* back leads through the sequence s in the other direction.
PointsBack(s, back) ==
    \A i \in DOMAIN s : s[i] \in DOMAIN back /\ back[s[i]] = IF i = 1 THEN NULL ELSE s[i - 1]

\* HASH_FSCK, and that each element is in the bucket HASH_FIND looks in.
Sound(h) ==
    h.head # NULL =>
        LET order == HASH_ITER(h)
        IN  /\ \A b \in DOMAIN h.buckets :
                 LET c == InBucket(h, b)
                 IN  /\ h.buckets[b].count = Len(c)
                     /\ PointsBack(c, h.hh_prev)
                     /\ \A i \in DOMAIN c : Bucket(h, c[i]) = b
            /\ Len(Items(h)) = h.num_items
            /\ PointsBack(order, h.prev)
            /\ Len(order) = h.num_items
            /\ h.tail = order[Len(order)]

=============================================================================
