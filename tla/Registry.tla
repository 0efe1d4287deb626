------------------------------- MODULE Registry -------------------------------
(***************************************************************************)
(* The data structures of pubsub.c under the global lock, down to the      *)
(* pointers: topic_map (a table of uthash.h), the list of subscribers of a *)
(* topic and the list of topics of a subscriber (lists of utlist.h).       *)
(*                                                                         *)
(* Loops over them are taken element by element, with the lock held.       *)
(* ps_num_subs walks a list without the lock, between any two steps, also  *)
(* those that free the nodes of its list.                                  *)
(*                                                                         *)
(* A topic_map_t, and a node of subs, is the topic it is for; a node of    *)
(* tm->subscribers is the subscriber it is for.  What messages do is       *)
(* PubSub's: here a sticky message is there or not.                        *)
(*                                                                         *)
(* A definition said to be a mutation is what a bug would make of the one  *)
(* after it; PROJECT.json names the property that notices.                 *)
(***************************************************************************)
EXTENDS UTHash

CONSTANTS Sub,    \* the subscribers
          Retain, \* bound: the topics that sticky messages are published to
          Fresh,  \* bound: topics subscribed to once, in this order and with no
                  \* other topic around, as the reply topics of calls are
          Caller, \* the subscriber that does
          Wants,  \* bound: the other subscriptions, by subscriber and topic
          Counted \* bound: the subscribers that ps_num_subs is called for

Topic == Key

ASSUME RegistryAssumption ==
    /\ IsFiniteSet(Sub)
    /\ NULL \notin Sub \cup Topic /\ Garbage \notin Sub \cup Topic
    /\ Retain \subseteq Topic
    /\ Fresh \in Seq(Topic)
    /\ Caller \in Sub
    /\ Wants \subseteq Sub \X Topic
    /\ Counted \subseteq Sub

VARIABLES topic_map,    \* the table
          subscribers,  \* tm->subscribers of each topic
          sticky,       \* tm->sticky # NULL, of each topic
          subs,         \* su->subs of each subscriber
          cs,           \* what the holder of the global lock has still to do
          walk,         \* a call of ps_num_subs; two of its fields are history:
                        \* least is how many subscriptions there were when it began,
                        \* apart is whether it has met no unsubscribing
          used          \* how many of Fresh have been used

vars == <<topic_map, subscribers, sticky, subs, cs, walk, used>>

NoCS == [op |-> "none"]

NoWalk == [at |-> NULL, count |-> 0, least |-> 0, su |-> NULL, apart |-> TRUE]

Init ==
    /\ topic_map = NoTable
    /\ subscribers = [t \in Topic |-> EmptyList(Sub)]
    /\ sticky = [t \in Topic |-> FALSE]
    /\ subs = [su \in Sub |-> EmptyList(Topic)]
    /\ cs = NoCS
    /\ walk = NoWalk
    /\ used = 0

(***************************************************************************)
(* Topics                                                                  *)
(***************************************************************************)

\* The comparison of push_child_sticky and ps_clean_sticky
HasPrefix(t, prefix) == IsPrefix(prefix, t)

\* fetch_topic_create_if_not_exist
Created(t) ==
    IF HASH_FIND(topic_map, t) = NULL THEN HASH_ADD(HashCalloc(topic_map, t), t)
    ELSE topic_map

\* free_topic_if_empty
FreedIfEmpty(t, users, keeps) ==
    IF users.head = NULL /\ ~keeps THEN HashFree(HASH_DEL(topic_map, t), t) ELSE topic_map

\* DL_DELETE of a node, and free
Removed(l, n) == Free(DL_DELETE(l, n), n)

(***************************************************************************)
(* Subscriptions                                                           *)
(***************************************************************************)

\* The bound on what is subscribed to.
MaySubscribe(su, t, children) ==
    IF Contains(Fresh, t)
    THEN /\ su = Caller /\ ~children
         /\ used < Len(Fresh) /\ t = Fresh[used + 1]
         /\ ToSet(HASH_ITER(topic_map)) \subseteq ToSet(Fresh)
    ELSE <<su, t>> \in Wants /\ used = 0

\* A mutation: a subscriber gets a second node in the list of the topic.
SubscribeAgain(su, t, children) ==
    /\ cs = NoCS
    /\ MaySubscribe(su, t, children)
    /\ topic_map' = Created(t)
    /\ subscribers' = [subscribers EXCEPT ![t] = DL_APPEND(Calloc(@, su), su)]
    /\ subs' = [subs EXCEPT ![su] = Linked(Calloc(@, t), t)]
    /\ cs' = [op |-> "subscribe", su |-> su, topic |-> t, children |-> children]
    /\ used' = IF Contains(Fresh, t) THEN used + 1 ELSE used
    /\ UNCHANGED <<sticky, walk>>

\* ps_subscribe_flags up to the store that makes the new subscription visible
\* to ps_num_subs.  A second subscription to the topic changes nothing.
Subscribe(su, t, children) ==
    /\ cs = NoCS
    /\ MaySubscribe(su, t, children)
    /\ ~DL_FINDS(subscribers[t], su)
    /\ topic_map' = Created(t)
    /\ subscribers' = [subscribers EXCEPT ![t] = DL_APPEND(Calloc(@, su), su)]
    /\ subs' = [subs EXCEPT ![su] = Linked(Calloc(@, t), t)]
    /\ cs' = [op |-> "subscribe", su |-> su, topic |-> t, children |-> children]
    /\ used' = IF Contains(Fresh, t) THEN used + 1 ELSE used
    /\ UNCHANGED <<sticky, walk>>

\* HASH_ITER begins: the element and the one after it.
Iterating(op, prefix) ==
    [op |-> op, prefix |-> prefix, el |-> topic_map.head, done |-> {},
     tmp |-> IF topic_map.head = NULL THEN NULL ELSE topic_map.next[topic_map.head]]

\* The end of DL_APPEND; push_child_sticky is to follow, or the lock is free.
SubscribeEnds ==
    /\ cs.op = "subscribe"
    /\ subs' = [subs EXCEPT ![cs.su] = Settled(@, cs.topic)]
    /\ cs' = IF cs.children THEN Iterating("push_child_sticky", cs.topic) ELSE NoCS
    /\ UNCHANGED <<topic_map, subscribers, sticky, walk, used>>

\* The walk when su is about to lose subscriptions: one of su may from now on read
\* nodes that are freed, and its count means nothing.
Disturbed(su) ==
    IF walk.su = su THEN [walk EXCEPT !.apart = FALSE, !.count = 0, !.least = 0] ELSE walk

\* ps_unsubscribe; it returns -1 if there is no such subscription.
Unsubscribe(su, t) ==
    /\ cs = NoCS
    /\ HASH_FIND(topic_map, t) # NULL
    /\ DL_FINDS(subscribers[t], su)
    /\ subscribers' = [subscribers EXCEPT ![t] = Removed(@, su)]
    /\ topic_map' = FreedIfEmpty(t, subscribers'[t], sticky[t])
    /\ subs' = [subs EXCEPT ![su] = IF DL_FINDS(@, t) THEN Removed(@, t) ELSE @]
    /\ walk' = Disturbed(su)
    /\ UNCHANGED <<sticky, cs, used>>

\* ps_unsubscribe_all: the lock is taken, the first node read.
UnsubscribeAll(su) ==
    /\ cs = NoCS
    /\ subs[su].head # NULL
    /\ cs' = [op |-> "unsubscribe_all", su |-> su, s |-> subs[su].head]
    /\ walk' = Disturbed(su)
    /\ UNCHANGED <<topic_map, subscribers, sticky, subs, used>>

\* One round of its loop: su->subs itself still points to the first node.
UnsubscribeNext ==
    /\ cs.op = "unsubscribe_all"
    /\ cs.s # NULL
    /\ subscribers' = [subscribers EXCEPT ![cs.s] =
          IF DL_FINDS(@, cs.su) THEN Removed(@, cs.su) ELSE @]
    /\ topic_map' = IF DL_FINDS(subscribers[cs.s], cs.su)
                    THEN FreedIfEmpty(cs.s, subscribers'[cs.s], sticky[cs.s])
                    ELSE topic_map
    /\ subs' = [subs EXCEPT ![cs.su] = Free(@, cs.s)]
    /\ cs' = [cs EXCEPT !.s = subs[cs.su].next[@]]
    /\ UNCHANGED <<sticky, walk, used>>

\* su->subs = NULL
UnsubscribeAllEnds ==
    /\ cs.op = "unsubscribe_all"
    /\ cs.s = NULL
    /\ subs' = [subs EXCEPT ![cs.su].head = NULL]
    /\ cs' = NoCS
    /\ UNCHANGED <<topic_map, subscribers, sticky, walk, used>>

(***************************************************************************)
(* Sticky messages                                                         *)
(***************************************************************************)

\* ps_publish of a sticky message
PublishSticky(t) ==
    /\ cs = NoCS
    /\ used = 0
    /\ topic_map' = Created(t)
    /\ sticky' = [sticky EXCEPT ![t] = TRUE]
    /\ UNCHANGED <<subscribers, subs, cs, walk, used>>

\* ps_publish of another message, when there is a sticky one
PublishClears(t) ==
    /\ cs = NoCS
    /\ HASH_FIND(topic_map, t) # NULL
    /\ sticky[t]
    /\ sticky' = [sticky EXCEPT ![t] = FALSE]
    /\ topic_map' = FreedIfEmpty(t, subscribers[t], FALSE)
    /\ UNCHANGED <<subscribers, subs, cs, walk, used>>

\* ps_clean_sticky
CleanSticky(prefix) ==
    /\ cs = NoCS
    /\ topic_map.head # NULL
    /\ cs' = Iterating("clean_sticky", prefix)
    /\ UNCHANGED <<topic_map, subscribers, sticky, subs, walk, used>>

\* A mutation: a plain loop, which goes on from the element it may have freed.
AdvancedUnsafely == [cs EXCEPT !.el = topic_map'.next[@]]

\* A mutation: after a match the loop starts over, which is right only if the
\* match is gone.
AdvancedAnew ==
    LET el == IF HasPrefix(cs.el, cs.prefix) /\ sticky[cs.el] THEN topic_map'.head ELSE cs.tmp
    IN  [cs EXCEPT !.el = el, !.tmp = IF el = NULL THEN NULL ELSE topic_map'.next[el]]

\* HASH_ITER goes on: the element after the next is read after the round.
Advanced ==
    [cs EXCEPT !.el = cs.tmp,
               !.tmp = IF cs.tmp = NULL THEN NULL ELSE topic_map'.next[cs.tmp]]

Matches == HasPrefix(cs.el, cs.prefix) /\ sticky[cs.el]

\* A round of push_child_sticky
PushNext ==
    /\ cs.op = "push_child_sticky"
    /\ cs.el # NULL
    /\ UNCHANGED <<topic_map, subscribers, sticky, subs, walk, used>>
    /\ cs' = [Advanced EXCEPT !.done = IF Matches THEN @ \cup {cs.el} ELSE @]

\* A round of ps_clean_sticky
CleanNext ==
    /\ cs.op = "clean_sticky"
    /\ cs.el # NULL
    /\ sticky' = [sticky EXCEPT ![cs.el] = @ /\ ~Matches]
    /\ topic_map' = IF Matches THEN FreedIfEmpty(cs.el, subscribers[cs.el], FALSE)
                    ELSE topic_map
    /\ cs' = Advanced
    /\ UNCHANGED <<subscribers, subs, walk, used>>

IterationEnds ==
    /\ cs.op \in {"push_child_sticky", "clean_sticky"}
    /\ cs.el = NULL
    /\ cs' = NoCS
    /\ UNCHANGED <<topic_map, subscribers, sticky, subs, walk, used>>

(***************************************************************************)
(* ps_num_subs                                                             *)
(***************************************************************************)

\* One call at a time is enough: it only reads.  It is left out while there are
\* topics of Fresh.  A call may begin while ps_unsubscribe_all is at
\* work, and su->subs points to a node that is freed.
NumSubs(su) ==
    /\ walk = NoWalk
    /\ used = 0 \/ topic_map.head = NULL
    /\ LET apart == ~(cs.op = "unsubscribe_all" /\ cs.su = su)
       IN  walk' = [at |-> subs[su].head, count |-> 0, su |-> su, apart |-> apart,
                    least |-> IF apart THEN DL_COUNT(subs[su]) ELSE 0]
    /\ UNCHANGED <<topic_map, subscribers, sticky, subs, cs, used>>

\* The next pointer of the node is read, which is Garbage if the node is freed.
NumSubsNext ==
    /\ walk.at \notin {NULL, Garbage}
    /\ walk' = [walk EXCEPT !.at = subs[walk.su].next[@],
                            !.count = IF walk.apart THEN @ + 1 ELSE 0]
    /\ UNCHANGED <<topic_map, subscribers, sticky, subs, cs, used>>

\* At NULL.  What a call does that has read a freed node is not followed.
NumSubsEnds ==
    /\ walk # NoWalk
    /\ walk.at \in {NULL, Garbage}
    /\ walk' = NoWalk
    /\ UNCHANGED <<topic_map, subscribers, sticky, subs, cs, used>>

Loops ==
    \/ SubscribeEnds \/ UnsubscribeNext \/ UnsubscribeAllEnds
    \/ PushNext \/ CleanNext \/ IterationEnds

Next ==
    \/ \E su \in Sub :
         \/ \E t \in Topic : Unsubscribe(su, t)
                             \/ \E children \in BOOLEAN : Subscribe(su, t, children)
         \/ UnsubscribeAll(su)
    \/ \E t \in Retain : PublishSticky(t) \/ PublishClears(t)
    \/ \E t \in Retain \cup {<<>>} : CleanSticky(t)
    \/ Loops
    \/ (\E su \in Counted : NumSubs(su)) \/ NumSubsNext \/ NumSubsEnds

Spec == Init /\ [][Next]_vars

\* The holder of the lock goes on.
FairSpec == Spec /\ WF_vars(Loops)

(***************************************************************************)
(* Properties                                                              *)
(***************************************************************************)

\* The elements of topic_map, oldest first.
Topics == HASH_ITER(topic_map)

\* The list of a subscriber; ps_unsubscribe_all drops it from the front.
SubsOf(su) ==
    IF cs.op = "unsubscribe_all" /\ cs.su = su THEN Chain(cs.s, subs[su].next)
    ELSE DL_FOREACH(subs[su])

\* The list of su is not between two stores.
Settles(su) == cs.op \in {"subscribe", "unsubscribe_all"} => cs.su # su

\* Every list is one that DL_DELETE, which looks at both of a node's pointers
\* and at the first node's, will take apart rightly, and its nodes are all the
\* nodes in memory: none is lost (pubsub.c:444, 447, 487, 492).
ListsWellFormed ==
    /\ \A t \in Topic :
          LET s == DL_FOREACH(subscribers[t])
          IN  /\ Represents(subscribers[t], s)
              /\ \A n \in Sub \ ToSet(s) : subscribers[t].next[n] = Garbage
    /\ \A su \in Sub : Settles(su) =>
          LET s == DL_FOREACH(subs[su])
          IN  /\ Represents(subs[su], s)
              /\ \A n \in Topic \ ToSet(s) : subs[su].next[n] = Garbage

\* What HASH_FSCK (uthash.h:526) checks when it is compiled in: the table is
\* consistent in its buckets, in its order and in its counters, whatever was
\* added and deleted.  And HASH_FIND finds what HASH_ITER visits, which is all
\* that is in memory.
TableSound ==
    /\ Sound(topic_map)
    /\ LET there == ToSet(Topics)
       IN  /\ there = {t \in Topic : HASH_FIND(topic_map, t) = t}
           /\ there = {t \in Topic : topic_map.next[t] # Garbage}

\* As long as the table expands, the chain of a bucket is shorter than the length
\* at which it asks for an expansion, or as short as the last expansion could make
\* it with the elements there were (uthash.h:867, the comment at uthash.h:1166).
ChainsBounded ==
    topic_map.head # NULL /\ ~topic_map.noexpand =>
        \A b \in DOMAIN topic_map.buckets :
            LET bucket == topic_map.buckets[b]
            IN  \/ bucket.count < (bucket.expand_mult + 1) * Threshold
                \/ bucket.count <= (bucket.expand_mult + 1) * topic_map.ideal_chain_maxlen

\* The lists of utlist and the table of uthash are sound after every operation.
ContainersSound == ListsWellFormed /\ TableSound /\ ChainsBounded

\* Nobody goes on from memory that has been freed: not ps_unsubscribe_all, which
\* frees nodes and topics as it walks (pubsub.c:521), not HASH_ITER, although
\* ps_clean_sticky frees the element it is at (pubsub.c:569); and no subscription
\* outlives its topic.  ps_num_subs, which has no lock (pubsub.c:542), stands on a
\* node that is allocated as long as nobody unsubscribes its subscriber during the
\* call, whatever else is done.  With an unsubscription in between the code gives
\* no such assurance: it frees nodes that the call may be at (pubsub.c:493, 530).
NoneFreedIsUsed ==
    /\ cs.op = "unsubscribe_all" => cs.s # Garbage
    /\ cs.op \in {"push_child_sticky", "clean_sticky"} => Garbage \notin {cs.el, cs.tmp}
    /\ walk.apart /\ walk.at # NULL =>
          walk.at \in Topic /\ subs[walk.su].next[walk.at] # Garbage
    /\ \A su \in Sub : \A t \in ToSet(SubsOf(su)) :
          t \in Topic /\ topic_map.next[t] # Garbage

\* A loop over topic_map meets every topic it is for, also when it frees some
\* on its way: push_child_sticky has pushed, ps_clean_sticky has removed, each
\* sticky message at or under the topic.
IterationComplete ==
    LET left == {t \in Topic : sticky[t] /\ HasPrefix(t, cs.prefix)}
    IN  /\ cs.op = "push_child_sticky" /\ cs.el = NULL => cs.done = left
        /\ cs.op = "clean_sticky" /\ cs.el = NULL => left = {}

\* ps_num_subs, without the lock, returns a number of subscriptions there was at
\* some time during the call, if nobody unsubscribes its subscriber meanwhile: a
\* node that it reaches has its next pointer (pubsub.c:445).
NumSubsInRange ==
    walk # NoWalk /\ walk.apart /\ walk.at = NULL =>
        walk.least <= walk.count /\ walk.count <= Len(SubsOf(walk.su))

\* The pointers stand for the registry, step by step.
Abstract == INSTANCE TopicRegistry WITH
    topics      <- Topics,
    subscribers <- [t \in Topic |-> DL_FOREACH(subscribers[t])],
    sticky      <- {t \in Topic : sticky[t]},
    subs        <- [su \in Sub |-> SubsOf(su)]

KeepsRegistry == Abstract!Spec

\* Every loop under the lock ends: no list has become a circle.
LoopsEnd == (cs # NoCS) ~> (cs = NoCS)

=============================================================================
