----------------------------- MODULE TopicRegistry -----------------------------
(***************************************************************************)
(* What the data structures under the global lock of pubsub-c stand for:   *)
(* topics in the order they came, for each the subscribers in the order    *)
(* they came and whether it keeps a sticky message, and for each           *)
(* subscriber its topics.  A topic is there exactly while it is used.      *)
(***************************************************************************)
EXTENDS Integers, Sequences, SequencesExt

CONSTANTS Sub,   \* the subscribers
          Topic  \* the topics

VARIABLES topics,       \* the topics, oldest first
          subscribers,  \* of each topic, oldest first
          sticky,       \* the topics that keep a sticky message
          subs          \* of each subscriber: its topics, oldest first

vars == <<topics, subscribers, sticky, subs>>

Init ==
    /\ topics = <<>>
    /\ subscribers = [t \in Topic |-> <<>>]
    /\ sticky = {}
    /\ subs = [su \in Sub |-> <<>>]

With(s, e) == IF Contains(s, e) THEN s ELSE Append(s, e)

Unless(needed, t) == IF needed THEN topics ELSE RemoveFirst(topics, t)

Subscribe(su, t) ==
    /\ ~Contains(subs[su], t)
    /\ topics' = With(topics, t)
    /\ subscribers' = [subscribers EXCEPT ![t] = Append(@, su)]
    /\ subs' = [subs EXCEPT ![su] = Append(@, t)]
    /\ UNCHANGED sticky

Unsubscribe(su, t) ==
    /\ Contains(subs[su], t)
    /\ subscribers' = [subscribers EXCEPT ![t] = RemoveFirst(@, su)]
    /\ subs' = [subs EXCEPT ![su] = RemoveFirst(@, t)]
    /\ topics' = Unless(subscribers'[t] # <<>> \/ t \in sticky, t)
    /\ UNCHANGED sticky

Retains(t) ==
    /\ t \notin sticky
    /\ sticky' = sticky \cup {t}
    /\ topics' = With(topics, t)
    /\ UNCHANGED <<subscribers, subs>>

Forgets(t) ==
    /\ t \in sticky
    /\ sticky' = sticky \ {t}
    /\ topics' = Unless(subscribers[t] # <<>>, t)
    /\ UNCHANGED <<subscribers, subs>>

Next ==
    \/ \E su \in Sub, t \in Topic : Subscribe(su, t) \/ Unsubscribe(su, t)
    \/ \E t \in Topic : Retains(t) \/ Forgets(t)

Spec == Init /\ [][Next]_vars

=============================================================================
