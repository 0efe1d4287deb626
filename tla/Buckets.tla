------------------------------- MODULE Buckets -------------------------------
(***************************************************************************)
(* The data structure of a subscriber queue of pubsub-c: one list of       *)
(* messages for each priority (psqueue_b.c, ps_queue_s.priorities).  A     *)
(* list head is kept as a sequence, oldest message first, so DL_APPEND is  *)
(* Append, deleting the head is Tail and deleting head->prev is Front.     *)
(* The module has no state; the queue modules and PubSub are built on it.  *)
(***************************************************************************)
EXTENDS Integers, Sequences, FiniteSets, SequencesExt

\* A slot is an occupied list node, named by its priority and its position.
Slots(b) == UNION {{p} \X (1..Len(b[p])) : p \in DOMAIN b}

\* The number of messages in the queue.
Stored(b) == Cardinality(Slots(b))

\* The slots that hold message m.
Holding(b, m) == {s \in Slots(b) : b[s[1]][s[2]] = m}

\* A mutation: the eviction loop may stop at any message.
IsNotEmpty(b, p) == b[p] # <<>>

\* Priority p is the one the eviction loop stops at: the least nonempty one.
IsLowest(b, p) ==
    /\ b[p] # <<>>
    /\ \A q \in DOMAIN b : q < p => b[q] = <<>>

\* Priority p is the one the delivery loop stops at: the greatest nonempty one.
IsHighest(b, p) ==
    /\ b[p] # <<>>
    /\ \A q \in DOMAIN b : q > p => b[q] = <<>>

\* bqueue_insert: the message becomes the youngest of its priority.
Insert(b, p, m) == [b EXCEPT ![p] = Append(@, m)]

\* bqueue_get: the oldest message of priority p leaves.
RemoveOldest(b, p) == [b EXCEPT ![p] = Tail(@)]

\* bqueue_get_available: the youngest message of priority p is given up.
RemoveYoungest(b, p) == [b EXCEPT ![p] = Front(@)]

Youngest(b, p) == Last(b[p])

Oldest(b, p) == Head(b[p])

Empty(prios) == [p \in prios |-> <<>>]

=============================================================================
