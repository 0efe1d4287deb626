------------------------------ MODULE TopicBus ------------------------------
(***************************************************************************)
(* What pubsub-c promises its users, without the topic map, the lists that *)
(* mirror each other, the reference counts or the global lock:             *)
(*   - a set of subscriptions and one retained (sticky) message per topic; *)
(*   - one operation at a time decides, at once, everything that is due:   *)
(*     which subscriptions get which message;                              *)
(*   - the due messages then reach the inboxes one by one, in any order,   *)
(*     while readers go on taking messages out;                            *)
(*   - nothing else ever reaches an inbox.                                 *)
(* A topic is a sequence of segments, <<>> is the topic "" above them all. *)
(***************************************************************************)
EXTENDS Buckets

CONSTANTS Sub,        \* the subscribers
          Msg,        \* the messages
          NoMsg,      \* no message
          Topic,      \* the topics
          MsgKind,    \* [topic, sticky, nonrecursive] of a published message
          SubFlags,   \* [hidden, on_empty, priority, no_sticky, child_sticky]
          QueueSize,  \* the size of each subscriber's queue
          NPrio       \* the number of priorities

Prio == 0..(NPrio - 1)

\* u is t or an ancestor of t.
Covers(u, t) == IsPrefix(u, t)

VARIABLES subscribed,  \* the subscriptions: subscriber, topic and flags
          retained,    \* the sticky message of each topic
          inbox,       \* each subscriber's messages, by priority
          claims,      \* the pulls under way on each inbox
          due          \* what the operation under way still has to hand out

vars == <<subscribed, retained, inbox, claims, due>>

Waiting(su) == Stored(inbox[su]) - claims[su]

Init ==
    /\ subscribed = {}
    /\ retained = [t \in Topic |-> NoMsg]
    /\ inbox = [su \in Sub |-> Empty(Prio)]
    /\ claims = [su \in Sub |-> 0]
    /\ due = {}

Subscription(su, t, f) ==
    [su |-> su, topic |-> t, hidden |-> f.hidden, on_empty |-> f.on_empty,
     priority |-> f.priority]

\* A new subscription is owed the sticky messages its flags ask for, whatever
\* the state of its inbox.
Subscribe(su, t, f) ==
    /\ due = {}
    /\ \A r \in subscribed : r.su = su => r.topic # t
    /\ subscribed' = subscribed \cup {Subscription(su, t, f)}
    /\ due' = {[su |-> su, topic |-> u, on_empty |-> FALSE, priority |-> f.priority,
                msg |-> retained[u]] :
                u \in {v \in Topic : /\ retained[v] # NoMsg
                                     /\ ~f.no_sticky
                                     /\ IF f.child_sticky THEN Covers(t, v) ELSE v = t}}
    /\ UNCHANGED <<retained, inbox, claims>>

Unsubscribe(su, T) ==
    /\ due = {}
    /\ subscribed' = {r \in subscribed : ~(r.su = su /\ r.topic \in T)}
    /\ UNCHANGED <<retained, inbox, claims, due>>

\* A message is owed to every subscription to its topic and, unless it is
\* nonrecursive, to those of the topics above.  It becomes the retained message
\* of its topic if it is sticky, and ends the retained one if it is not.
Publish(m, k) ==
    /\ due = {}
    /\ retained' = [retained EXCEPT ![k.topic] = IF k.sticky THEN m ELSE NoMsg]
    /\ due' = {[su |-> r.su, topic |-> r.topic, on_empty |-> r.on_empty,
                priority |-> r.priority, msg |-> m] :
                r \in {s \in subscribed : IF k.nonrecursive THEN s.topic = k.topic
                                          ELSE Covers(s.topic, k.topic)}}
    /\ UNCHANGED <<subscribed, inbox, claims>>

CleanSticky(t) ==
    /\ due = {}
    /\ retained' = [u \in Topic |-> IF Covers(t, u) THEN NoMsg ELSE retained[u]]
    /\ UNCHANGED <<subscribed, inbox, claims, due>>

\* The inbox has room, or gives up a less important message, or stays as it is.
Accepts(su, m, p) ==
    \/ /\ Stored(inbox[su]) < QueueSize[su]
       /\ inbox' = [inbox EXCEPT ![su] = Insert(@, p, m)]
    \/ /\ Stored(inbox[su]) = QueueSize[su]
       /\ \E v \in Prio :
            /\ v < p
            /\ IsLowest(inbox[su], v)
            /\ inbox' = [inbox EXCEPT ![su] = Insert(RemoveYoungest(@, v), p, m)]
    \/ /\ Stored(inbox[su]) = QueueSize[su]
       /\ \A v \in Prio : v < p => inbox[su][v] = <<>>
       /\ UNCHANGED inbox

\* An on_empty subscription is served exactly when nothing waits in its inbox
\* at that very moment.
Serve(d) ==
    /\ d \in due
    /\ due' = due \ {d}
    /\ IF d.on_empty /\ Waiting(d.su) # 0 THEN UNCHANGED inbox
                                          ELSE Accepts(d.su, d.msg, d.priority)
    /\ UNCHANGED <<subscribed, retained, claims>>

Claim(su) ==
    /\ Waiting(su) > 0
    /\ claims' = [claims EXCEPT ![su] = @ + 1]
    /\ UNCHANGED <<subscribed, retained, inbox, due>>

\* The best message leaves; the reader of a claim always finds one.
Leaves(su) ==
    \E p \in Prio :
       /\ IsHighest(inbox[su], p)
       /\ inbox' = [inbox EXCEPT ![su] = RemoveOldest(@, p)]

Take(su) ==
    /\ claims[su] > 0
    /\ Leaves(su)
    /\ claims' = [claims EXCEPT ![su] = @ - 1]
    /\ UNCHANGED <<subscribed, retained, due>>

\* A subscriber nobody reads any more, without a subscription, is flushed.
Discard(su) ==
    /\ claims[su] = 0
    /\ \A r \in subscribed : r.su # su
    /\ Leaves(su)
    /\ UNCHANGED <<subscribed, retained, claims, due>>

Next ==
    \/ \E su \in Sub, t \in Topic, f \in SubFlags : Subscribe(su, t, f)
    \/ \E su \in Sub, T \in SUBSET Topic : Unsubscribe(su, T)
    \/ \E m \in Msg, k \in MsgKind : Publish(m, k)
    \/ \E t \in Topic : CleanSticky(t)
    \/ \E d \in due : Serve(d)
    \/ \E su \in Sub : Claim(su) \/ Take(su) \/ Discard(su)

Spec == Init /\ [][Next]_vars

=============================================================================
