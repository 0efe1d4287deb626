-------------------------------- MODULE DList --------------------------------
(***************************************************************************)
(* The doubly linked lists of utlist.h as pubsub.c uses them (DL_), down   *)
(* to the pointers.  A list is a record                                    *)
(*   head        its first node, or NULL                                   *)
(*   prev, next  the fields of its nodes: the first node's prev is the     *)
(*               last node, the last node's next is NULL                   *)
(* A node that is not allocated has Garbage in both fields.                *)
(*                                                                         *)
(* A definition said to be a mutation is what a bug would make of the one  *)
(* after it; PROJECT.json names the property that notices.                 *)
(***************************************************************************)
EXTENDS Integers, Sequences, FiniteSets

CONSTANTS NULL,    \* the null pointer
          Garbage  \* what may be read from memory that is not allocated

ASSUME PointersAssumption == NULL # Garbage

EmptyList(nodes) ==
    [head |-> NULL, prev |-> [n \in nodes |-> Garbage], next |-> [n \in nodes |-> Garbage]]

\* A store of v in the field f of the node p
Store(f, p, v) == [f EXCEPT ![p] = v]

\* calloc of a node, and free
Calloc(l, n) == [l EXCEPT !.prev = Store(@, n, NULL), !.next = Store(@, n, NULL)]
Free(l, n)   == [l EXCEPT !.prev = Store(@, n, Garbage), !.next = Store(@, n, Garbage)]

\* DL_APPEND up to the store that lets a reader of next reach the new node.
Linked(l, add) ==
    IF l.head = NULL
    THEN [l EXCEPT !.head = add]
    ELSE [l EXCEPT !.prev = Store(@, add, l.prev[l.head]), !.next = Store(@, l.prev[l.head], add)]

\* The stores after it.
Settled(l, add) == [l EXCEPT !.prev = Store(@, l.head, add), !.next = Store(@, add, NULL)]

DL_APPEND(l, add) == Settled(Linked(l, add), add)

\* A mutation: the last node goes, and the first one still points to it.
DeleteForgetsTail(l, del) ==
    CASE l.prev[del] = del -> [l EXCEPT !.head = NULL]
      [] l.prev[del] # del /\ l.head = del ->
           [l EXCEPT !.prev = Store(@, l.next[del], l.prev[del]), !.head = l.next[del]]
      [] l.prev[del] # del /\ l.head # del /\ l.next[del] # NULL ->
           [l EXCEPT !.next = Store(@, l.prev[del], l.next[del]),
                     !.prev = Store(@, l.next[del], l.prev[del])]
      [] OTHER -> [l EXCEPT !.next = Store(@, l.prev[del], NULL)]

\* The only node, the first one, one with a node after it, the last one.
DL_DELETE(l, del) ==
    CASE l.prev[del] = del -> [l EXCEPT !.head = NULL]
      [] l.prev[del] # del /\ l.head = del ->
           [l EXCEPT !.prev = Store(@, l.next[del], l.prev[del]), !.head = l.next[del]]
      [] l.prev[del] # del /\ l.head # del /\ l.next[del] # NULL ->
           [l EXCEPT !.next = Store(@, l.prev[del], l.next[del]),
                     !.prev = Store(@, l.next[del], l.prev[del])]
      [] OTHER -> [l EXCEPT !.next = Store(@, l.prev[del], NULL),
                            !.prev = Store(@, l.head, l.prev[del])]

\* The nodes from first on, as far as next leads; what Garbage or a cycle would
\* make of it ends in Garbage or has more nodes than there are.
Chain(first, next) ==
    LET from[p \in Nat \X (DOMAIN next \cup {NULL, Garbage})] ==
            LET left == p[1]
                n    == p[2]
            IN  IF n = NULL THEN <<>>
                ELSE IF n = Garbage \/ left = 0 THEN <<n>>
                ELSE <<n>> \o from[<<left - 1, next[n]>>]
    IN  from[<<Cardinality(DOMAIN next), first>>]

\* The nodes in the order of DL_FOREACH; DL_COUNT; DL_SEARCH_SCALAR for a field
\* that has the value in this node only.
DL_FOREACH(l)   == Chain(l.head, l.next)
DL_COUNT(l)     == Len(DL_FOREACH(l))
DL_FINDS(l, n)  == \E i \in DOMAIN DL_FOREACH(l) : DL_FOREACH(l)[i] = n

\* l is a well-formed list whose nodes are those of the sequence s.
Represents(l, s) ==
    /\ \A i, j \in DOMAIN s : s[i] = s[j] => i = j
    /\ l.head = IF s = <<>> THEN NULL ELSE s[1]
    /\ \A i \in DOMAIN s :
         /\ s[i] \in DOMAIN l.next
         /\ l.next[s[i]] = IF i = Len(s) THEN NULL ELSE s[i + 1]
         /\ l.prev[s[i]] = IF i = 1 THEN s[Len(s)] ELSE s[i - 1]

=============================================================================
