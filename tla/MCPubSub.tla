------------------------------ MODULE MCPubSub ------------------------------
(* Small instances of PubSub for TLC: the topics "", "a" and "a.b". *)
EXTENDS PubSub, TLC

CONSTANTS s1, s2, m1, m2

Root == <<>>
A == <<"a">>
AB == <<"a", "b">>

MCSub == {s1, s2}
MCMsg == {m1, m2}

K(t, sticky_, nonrec) == [topic |-> t, sticky |-> sticky_, nonrecursive |-> nonrec]

F(hidden_, on_empty_, prio, no_sticky_, child_sticky_) ==
    [hidden |-> hidden_, on_empty |-> on_empty_, priority |-> prio,
     no_sticky |-> no_sticky_, child_sticky |-> child_sticky_]

\* Routing: one subscriber with subscriptions at every level of the path, every
\* kind of sticky message, eviction.
RoutingSub == {s1}
RoutingTopic == {Root, A, AB}
RoutingKind == {K(AB, FALSE, FALSE), K(AB, TRUE, FALSE), K(A, TRUE, TRUE)}
RoutingFlags == {F(TRUE, TRUE, 0, FALSE, FALSE), F(FALSE, FALSE, 1, FALSE, TRUE)}
RoutingSize == [su \in RoutingSub |-> 1]

\* Sharing: two subscribers with the same messages in their queues, subscriptions
\* that ask for an empty queue, subscribers that come and go.
SharingTopic == {Root}
SharingKind == {K(Root, FALSE, FALSE), K(Root, TRUE, FALSE)}
SharingFlags == {F(FALSE, FALSE, 0, TRUE, FALSE), F(FALSE, TRUE, 1, FALSE, FALSE)}
SharingSize == [su \in MCSub |-> IF su = s1 THEN 1 ELSE 2]
SharingSymmetry == Permutations(MCMsg)
=============================================================================
