------------------------------- MODULE PubSub -------------------------------
(***************************************************************************)
(* The core of pubsub-c (pubsub.c): topics, subscribers, their mirrored    *)
(* lists, sticky messages, reference counts, publishing and reading.       *)
(*                                                                         *)
(* Any number of threads call the library.  Who they are does not matter,  *)
(* so the state keeps only what their calls have left in the air:          *)
(*   cs      what the holder of the global lock is doing; NoCS: it is free *)
(*   claims  for each subscriber, the pulls that have passed the semaphore *)
(*           of its queue and have not yet taken their message             *)
(*   app     for each message, the references the application holds        *)
(* Publishing and subscribing push one message at a time while readers     *)
(* and holders of references go on; the other critical sections touch only *)
(* what the global lock protects and are one step each.  A subscriber's    *)
(* queue is the atomic one of BoundedQueue, which both queue               *)
(* implementations are shown to implement.                                 *)
(*                                                                         *)
(* A definition said to be a mutation is what a bug would make of the one  *)
(* after it; PROJECT.json names the property that notices.                 *)
(***************************************************************************)
EXTENDS Buckets

CONSTANTS Sub,          \* the subscribers
          Msg,          \* the messages
          NoMsg,        \* the null message pointer
          Topic,        \* the topics, sequences of segments; <<>> is ""
          MsgKind,      \* the messages' [topic, sticky, nonrecursive]
          SubFlags,     \* parsed [hidden, on_empty, priority, no_sticky, child_sticky]
          QueueSize,    \* queue_size of each subscriber
          NPrio,        \* the number of priorities
          OverflowMod,  \* the overflow counter wraps here (2^32)
          MaxApp        \* bound: the references to a message the application takes

Prio == 0..(NPrio - 1)

Kind == [topic : Topic, sticky : BOOLEAN, nonrecursive : BOOLEAN]

Flags == [hidden : BOOLEAN, on_empty : BOOLEAN, priority : Prio,
          no_sticky : BOOLEAN, child_sticky : BOOLEAN]

\* The topic cut at its last dot, and "" for a topic of one segment.
Parent(t) == Front(t)

ASSUME PubSubAssumption ==
    /\ IsFiniteSet(Sub) /\ IsFiniteSet(Msg) /\ IsFiniteSet(Topic)
    /\ NoMsg \notin Msg
    /\ \A t \in Topic : t \in Seq(Range(t))
    /\ <<>> \in Topic
    /\ \A t \in Topic : t # <<>> => Parent(t) \in Topic
    /\ MsgKind \subseteq Kind
    /\ SubFlags \subseteq Flags
    /\ QueueSize \in [Sub -> Nat]
    /\ NPrio \in Nat \ {0}
    /\ OverflowMod \in Nat \ {0}
    /\ MaxApp \in Nat \ {0}

\* The comparison of push_child_sticky and ps_clean_sticky: t starts with the
\* whole segments of prefix.
HasPrefix(t, prefix) == IsPrefix(prefix, t)

\* subscriber_list_t
Entry == [su : Sub, hidden : BOOLEAN, on_empty : BOOLEAN, priority : Prio]

VARIABLES topics,       \* the topics in topic_map
          subscribers,  \* tm->subscribers
          sticky,       \* tm->sticky
          status,       \* each subscriber: none, live, or being freed
          subs,         \* su->subs: the topics of its subscriptions
          queue,        \* su->q: its messages by priority
          claims,       \* pulls between the semaphore and the list
          overflow,     \* su->overflow
          ref,          \* msg->_ref; 0: not allocated
          kind,         \* msg->topic and msg->flags
          app,          \* references in the hands of the application
          cs            \* the critical section under way

topicVars == <<topics, subscribers, sticky>>
msgVars == <<ref, kind, app>>
queueVars == <<queue, claims, overflow>>
vars == <<topics, subscribers, sticky, status, subs, queue, claims, overflow,
          ref, kind, app, cs>>

NoKind == [topic |-> <<>>, sticky |-> FALSE, nonrecursive |-> FALSE]

NoCS == [op |-> "none"]

PublishCS == [op : {"publish"}, msg : Msg, topic : Topic, todo : Seq(Entry),
              checked : BOOLEAN, ret : Nat, accepted : Nat]

SubscribeCS == [op : {"subscribe"}, su : Sub, todo : SUBSET Topic, priority : Prio]

Init ==
    /\ topics = {}
    /\ subscribers = [t \in Topic |-> <<>>]
    /\ sticky = [t \in Topic |-> NoMsg]
    /\ status = [su \in Sub |-> "none"]
    /\ subs = [su \in Sub |-> <<>>]
    /\ queue = [su \in Sub |-> Empty(Prio)]
    /\ claims = [su \in Sub |-> 0]
    /\ overflow = [su \in Sub |-> 0]
    /\ ref = [m \in Msg |-> 0]
    /\ kind = [m \in Msg |-> NoKind]
    /\ app = [m \in Msg |-> 0]
    /\ cs = NoCS

\* ps_queue_waiting of the bucket queue: the semaphore.
Waiting(su) == Stored(queue[su]) - claims[su]

(***************************************************************************)
(* Messages                                                                *)
(***************************************************************************)

\* The reference counts become counts; a message whose count is 0 is freed.
Recount(counts) ==
    /\ ref' = counts
    /\ kind' = [m \in Msg |-> IF counts[m] = 0 THEN NoKind ELSE kind[m]]

\* Mutations: old keeps its reference; old is released twice.
ReplaceLeaks(m, old) == Recount([ref EXCEPT ![m] = @ + 1])
ReplaceReleasesTwice(m, old) ==
    Recount([n \in Msg |-> ref[n] + (IF n = m THEN 1 ELSE 0)
                                  - (IF n = old THEN 2 ELSE 0)])

\* ps_ref_msg of m and ps_unref_msg of old, which may be NoMsg or m itself.
Replace(m, old) ==
    Recount([n \in Msg |-> ref[n] + (IF n = m THEN 1 ELSE 0)
                                  - (IF n = old THEN 1 ELSE 0)])

\* ps_new_msg
NewMsg(m, k) ==
    /\ ref[m] = 0
    /\ ref' = [ref EXCEPT ![m] = 1]
    /\ kind' = [kind EXCEPT ![m] = k]
    /\ app' = [app EXCEPT ![m] = 1]
    /\ UNCHANGED <<topicVars, status, subs, queueVars, cs>>

\* ps_ref_msg, by a holder of a reference
RefMsg(m) ==
    /\ app[m] \in 1..(MaxApp - 1)
    /\ ref' = [ref EXCEPT ![m] = @ + 1]
    /\ app' = [app EXCEPT ![m] = @ + 1]
    /\ UNCHANGED <<topicVars, status, subs, queueVars, kind, cs>>

\* ps_unref_msg, by a holder of a reference
UnrefMsg(m) ==
    /\ app[m] > 0
    /\ Recount([ref EXCEPT ![m] = @ - 1])
    /\ app' = [app EXCEPT ![m] = @ - 1]
    /\ UNCHANGED <<topicVars, status, subs, queueVars, cs>>

(***************************************************************************)
(* push_subscriber_queue, as a part of the actions that call it            *)
(***************************************************************************)

Overflow(su) == overflow' = [overflow EXCEPT ![su] = (@ + 1) % OverflowMod]

\* A mutation: one message more than the size fits.
HasRoomForOneMore(su) == Stored(queue[su]) <= QueueSize[su]

HasRoom(su) == Stored(queue[su]) < QueueSize[su]

\* PS_QUEUE_OK: the queue has a new reference.
Stores(su, m, p) ==
    /\ HasRoom(su)
    /\ queue' = [queue EXCEPT ![su] = Insert(@, p, m)]
    /\ Replace(m, NoMsg)
    /\ UNCHANGED overflow

\* PS_QUEUE_EOVERFLOW: the same, and the evicted message loses its reference.
Evicts(su, m, p) ==
    /\ ~HasRoom(su)
    /\ \E v \in Prio :
         /\ v < p
         /\ IsLowest(queue[su], v)
         /\ queue' = [queue EXCEPT ![su] = Insert(RemoveYoungest(@, v), p, m)]
         /\ Replace(m, Youngest(queue[su], v))
    /\ Overflow(su)

\* PS_QUEUE_EFULL: the reference taken for the queue is given back.
Refuses(su, m, p) ==
    /\ ~HasRoom(su)
    /\ \A v \in Prio : v < p => queue[su][v] = <<>>
    /\ Overflow(su)
    /\ UNCHANGED <<queue, ref, kind>>

Push(su, m, p) == Stores(su, m, p) \/ Evicts(su, m, p) \/ Refuses(su, m, p)

(***************************************************************************)
(* Subscribers and subscriptions                                           *)
(***************************************************************************)

\* ps_new_subscriber; its ps_subscribe calls follow as calls of their own.
NewSubscriber(su) ==
    /\ status[su] = "none"
    /\ status' = [status EXCEPT ![su] = "live"]
    /\ queue' = [queue EXCEPT ![su] = Empty(Prio)]
    /\ overflow' = [overflow EXCEPT ![su] = 0]
    /\ UNCHANGED <<topicVars, subs, claims, msgVars, cs>>

Subscribers(t) == {e.su : e \in Range(subscribers[t])}

\* The topics whose sticky message a new subscription to t gets.
StickiesFor(t, f) ==
    {u \in topics : /\ sticky[u] # NoMsg
                    /\ ~f.no_sticky
                    /\ IF f.child_sticky THEN HasPrefix(u, t) ELSE u = t}

\* ps_subscribe_flags up to the first sticky message.  A second subscription to
\* the same topic returns -1 and changes nothing.
Subscribe(su, t, f) ==
    /\ cs = NoCS
    /\ status[su] = "live"
    /\ su \notin Subscribers(t)
    /\ topics' = topics \cup {t}
    /\ subscribers' = [subscribers EXCEPT ![t] =
          Append(@, [su |-> su, hidden |-> f.hidden, on_empty |-> f.on_empty,
                     priority |-> f.priority])]
    /\ subs' = [subs EXCEPT ![su] = Append(@, t)]
    /\ cs' = IF StickiesFor(t, f) = {} THEN NoCS
             ELSE [op |-> "subscribe", su |-> su, todo |-> StickiesFor(t, f),
                   priority |-> f.priority]
    /\ UNCHANGED <<sticky, status, queueVars, msgVars>>

\* The next sticky message of push_child_sticky (or the only one); the order of
\* the hash table is left open.  The last one ends the critical section.
PushSticky ==
    /\ cs.op = "subscribe"
    /\ \E t \in cs.todo :
         /\ Push(cs.su, sticky[t], cs.priority)
         /\ cs' = IF cs.todo = {t} THEN NoCS ELSE [cs EXCEPT !.todo = @ \ {t}]
    /\ UNCHANGED <<topicVars, status, subs, claims, app>>

\* DL_DELETE of the element that DL_SEARCH_SCALAR finds.
Without(su, t) == RemoveFirstMatch(subscribers[t], LAMBDA e : e.su = su)

\* free_topic_if_empty
Used(t, subscriberLists, stickies) ==
    subscriberLists[t] # <<>> \/ stickies[t] # NoMsg

\* A mutation: the subscriber's own list keeps the topic.
UnsubscribeHalf(su, t) ==
    /\ cs = NoCS
    /\ status[su] = "live"
    /\ su \in Subscribers(t)
    /\ subscribers' = [subscribers EXCEPT ![t] = Without(su, t)]
    /\ topics' = {u \in topics : u = t => Used(t, subscribers', sticky)}
    /\ UNCHANGED <<subs, sticky, status, queueVars, msgVars, cs>>

\* ps_unsubscribe; without such a subscription it returns -1.
Unsubscribe(su, t) ==
    /\ cs = NoCS
    /\ status[su] = "live"
    /\ su \in Subscribers(t)
    /\ subscribers' = [subscribers EXCEPT ![t] = Without(su, t)]
    /\ topics' = {u \in topics : u = t => Used(t, subscribers', sticky)}
    /\ subs' = [subs EXCEPT ![su] = RemoveFirst(@, t)]
    /\ UNCHANGED <<sticky, status, queueVars, msgVars, cs>>

\* A mutation: ps_unsubscribe_all without the global lock.
DropAllUnlocked(su) ==
    /\ subscribers' = [t \in Topic |->
          IF t \in Range(subs[su]) THEN Without(su, t) ELSE subscribers[t]]
    /\ topics' = {t \in topics : t \in Range(subs[su]) => Used(t, subscribers', sticky)}
    /\ subs' = [subs EXCEPT ![su] = <<>>]

\* The critical section of ps_unsubscribe_all: it follows the subscriber's own
\* list of topics.
DropAll(su) ==
    /\ cs = NoCS
    /\ subscribers' = [t \in Topic |->
          IF t \in Range(subs[su]) THEN Without(su, t) ELSE subscribers[t]]
    /\ topics' = {t \in topics : t \in Range(subs[su]) => Used(t, subscribers', sticky)}
    /\ subs' = [subs EXCEPT ![su] = <<>>]

UnsubscribeAll(su) ==
    /\ status[su] = "live"
    /\ subs[su] # <<>>
    /\ DropAll(su)
    /\ UNCHANGED <<sticky, status, queueVars, msgVars, cs>>

\* ps_free_subscriber begins: ps_unsubscribe_all.  The caller sees to it that
\* no thread is inside ps_get of this subscriber or will call it again.
FreeSubscriber(su) ==
    /\ status[su] = "live"
    /\ claims[su] = 0
    /\ DropAll(su)
    /\ status' = [status EXCEPT ![su] = "freeing"]
    /\ UNCHANGED <<sticky, queueVars, msgVars, cs>>

\* ps_flush inside ps_free_subscriber: one pull that succeeds.
FreeFlushes(su) ==
    /\ status[su] = "freeing"
    /\ Waiting(su) > 0
    /\ \E p \in Prio :
         /\ IsHighest(queue[su], p)
         /\ queue' = [queue EXCEPT ![su] = RemoveOldest(@, p)]
         /\ Recount([ref EXCEPT ![Oldest(queue[su], p)] = @ - 1])
    /\ UNCHANGED <<topicVars, status, subs, claims, overflow, app, cs>>

\* ps_free_queue: what is still in the queue loses its reference.
FreeQueue(su) ==
    /\ queue' = [queue EXCEPT ![su] = Empty(Prio)]
    /\ Recount([m \in Msg |-> ref[m] - Cardinality(Holding(queue[su], m))])

\* The pull fails, the flush is over: ps_free_queue and free.
FreeEnds(su) ==
    /\ status[su] = "freeing"
    /\ Waiting(su) = 0
    /\ status' = [status EXCEPT ![su] = "none"]
    /\ FreeQueue(su)
    /\ overflow' = [overflow EXCEPT ![su] = 0]
    /\ UNCHANGED <<topicVars, subs, claims, app, cs>>

\* ps_clean_sticky
CleanSticky(prefix) ==
    LET cleaned == {t \in topics : HasPrefix(t, prefix) /\ sticky[t] # NoMsg}
    IN  /\ cs = NoCS
        /\ cleaned # {}
        /\ Recount([m \in Msg |-> ref[m] - Cardinality({t \in cleaned : sticky[t] = m})])
        /\ sticky' = [t \in Topic |-> IF t \in cleaned THEN NoMsg ELSE sticky[t]]
        /\ topics' = {t \in topics : t \in cleaned => Used(t, subscribers, sticky')}
        /\ UNCHANGED <<subscribers, status, subs, queueVars, app, cs>>

(***************************************************************************)
(* Reading: ps_get, and each round of ps_flush on a live subscriber        *)
(***************************************************************************)

\* semaphore_wait succeeds.
Claim(su) ==
    /\ status[su] = "live"
    /\ Waiting(su) > 0
    /\ claims' = [claims EXCEPT ![su] = @ + 1]
    /\ UNCHANGED <<topicVars, status, subs, queue, overflow, msgVars, cs>>

\* The message leaves the queue, its reference goes to the application.
Take(su) ==
    /\ claims[su] > 0
    /\ \E p \in Prio :
         /\ IsHighest(queue[su], p)
         /\ app[Oldest(queue[su], p)] < MaxApp
         /\ queue' = [queue EXCEPT ![su] = RemoveOldest(@, p)]
         /\ app' = [app EXCEPT ![Oldest(queue[su], p)] = @ + 1]
    /\ claims' = [claims EXCEPT ![su] = @ - 1]
    /\ UNCHANGED <<topicVars, status, subs, overflow, ref, kind, cs>>

(***************************************************************************)
(* ps_publish                                                              *)
(***************************************************************************)

\* ret is the result so far; accepted counts the same pushes by what the queue
\* did with the message instead of by what push_subscriber_queue returned.
Publishing(m) ==
    /\ cs = NoCS
    /\ app[m] > 0
    /\ app' = [app EXCEPT ![m] = @ - 1]
    /\ cs' = [op |-> "publish", msg |-> m, topic |-> kind[m].topic,
              todo |-> subscribers[kind[m].topic], checked |-> FALSE,
              ret |-> 0, accepted |-> 0]
    /\ UNCHANGED <<subscribers, status, subs, queueVars>>

\* A sticky message takes the place of the one before it.
PublishSticky(m) ==
    /\ kind[m].sticky
    /\ LET t == kind[m].topic
       IN  /\ topics' = topics \cup {t}
           /\ sticky' = [sticky EXCEPT ![t] = m]
           /\ Replace(m, sticky[t])
    /\ Publishing(m)

\* A message that is not sticky ends the sticky one of its topic, and the topic
\* if nobody subscribes to it.
PublishClears(m) ==
    LET t == kind[m].topic
    IN  /\ ~kind[m].sticky
        /\ sticky[t] # NoMsg
        /\ sticky' = [sticky EXCEPT ![t] = NoMsg]
        /\ topics' = {u \in topics : u = t => Used(t, subscribers, sticky')}
        /\ Recount([ref EXCEPT ![sticky[t]] = @ - 1])
        /\ Publishing(m)

PublishPlain(m) ==
    /\ ~kind[m].sticky
    /\ sticky[kind[m].topic] = NoMsg
    /\ Publishing(m)
    /\ UNCHANGED <<topics, sticky, ref, kind>>

Current == Head(cs.todo)

Served == [cs EXCEPT !.todo = Tail(@), !.checked = FALSE]

\* A mutation: one waiting message still counts as an empty queue.
CheckAlmostEmpty ==
    /\ cs.op = "publish"
    /\ cs.todo # <<>>
    /\ Current.on_empty
    /\ ~cs.checked
    /\ cs' = IF Waiting(Current.su) > 1 THEN Served ELSE [cs EXCEPT !.checked = TRUE]
    /\ UNCHANGED <<topicVars, status, subs, queueVars, msgVars>>

\* if (sl->on_empty && ps_waiting(sl->su) != 0) continue;
CheckEmpty ==
    /\ cs.op = "publish"
    /\ cs.todo # <<>>
    /\ Current.on_empty
    /\ ~cs.checked
    /\ cs' = IF Waiting(Current.su) # 0 THEN Served ELSE [cs EXCEPT !.checked = TRUE]
    /\ UNCHANGED <<topicVars, status, subs, queueVars, msgVars>>

\* push_subscriber_queue(sl->su, msg, sl->priority) == 0 && !sl->hidden
Deliver ==
    /\ cs.op = "publish"
    /\ cs.todo # <<>>
    /\ Current.on_empty => cs.checked
    /\ LET visible == IF Current.hidden THEN 0 ELSE 1
       IN  \/ /\ Stores(Current.su, cs.msg, Current.priority)
              /\ cs' = [Served EXCEPT !.ret = @ + visible, !.accepted = @ + visible]
           \/ /\ Evicts(Current.su, cs.msg, Current.priority)
              /\ cs' = [Served EXCEPT !.accepted = @ + visible]
           \/ /\ Refuses(Current.su, cs.msg, Current.priority)
              /\ cs' = Served
    /\ UNCHANGED <<topicVars, status, subs, claims, app>>

\* A mutation: the loop of ps_subs_count, which ends before the topic "".
LastNamedTopic == kind[cs.msg].nonrecursive \/ Len(cs.topic) <= 1

\* A mutation: the loop does not end at "".
LastTopicMissed == kind[cs.msg].nonrecursive

LastTopic == kind[cs.msg].nonrecursive \/ cs.topic = <<>>

\* The topic is cut at its last dot.
NextTopic ==
    /\ cs.op = "publish"
    /\ cs.todo = <<>>
    /\ ~LastTopic
    /\ cs' = [cs EXCEPT !.topic = Parent(@), !.todo = subscribers[Parent(cs.topic)]]
    /\ UNCHANGED <<topicVars, status, subs, queueVars, msgVars>>

\* ps_unref_msg, GLOBAL_UNLOCK
PublishEnds ==
    /\ cs.op = "publish"
    /\ cs.todo = <<>>
    /\ LastTopic
    /\ Recount([ref EXCEPT ![cs.msg] = @ - 1])
    /\ cs' = NoCS
    /\ UNCHANGED <<topicVars, status, subs, queueVars, app>>

Publish(m) == PublishSticky(m) \/ PublishClears(m) \/ PublishPlain(m)

PublishGoesOn == CheckEmpty \/ Deliver \/ NextTopic \/ PublishEnds

Next ==
    \/ \E m \in Msg : (\E k \in MsgKind : NewMsg(m, k)) \/ RefMsg(m) \/ UnrefMsg(m)
    \/ \E m \in Msg : Publish(m)
    \/ PublishGoesOn
    \/ \E su \in Sub :
          \/ NewSubscriber(su)
          \/ \E t \in Topic : (\E f \in SubFlags : Subscribe(su, t, f)) \/ Unsubscribe(su, t)
          \/ UnsubscribeAll(su)
          \/ FreeSubscriber(su) \/ FreeFlushes(su) \/ FreeEnds(su)
          \/ Claim(su) \/ Take(su)
    \/ PushSticky
    \/ \E t \in Topic : CleanSticky(t)

Spec == Init /\ [][Next]_vars

(***************************************************************************)
(* Properties                                                              *)
(***************************************************************************)

TypeOK ==
    /\ topics \subseteq Topic
    /\ subscribers \in [Topic -> Seq(Entry)]
    /\ sticky \in [Topic -> Msg \cup {NoMsg}]
    /\ status \in [Sub -> {"none", "live", "freeing"}]
    /\ subs \in [Sub -> Seq(Topic)]
    /\ queue \in [Sub -> [Prio -> Seq(Msg)]]
    /\ claims \in [Sub -> Nat]
    /\ overflow \in [Sub -> 0..(OverflowMod - 1)]
    /\ ref \in [Msg -> Nat]
    /\ kind \in [Msg -> Kind]
    /\ app \in [Msg -> 0..MaxApp]
    /\ cs \in {NoCS} \cup PublishCS \cup SubscribeCS

\* The list of a topic's subscribers and the list of a subscriber's topics say
\* the same, and neither has a double entry: ps_unsubscribe_all, which follows
\* only the second, leaves no entry of a freed subscriber in the first.
SubscriptionsMirror ==
    \A su \in Sub, t \in Topic :
        LET inTopic == {i \in DOMAIN subscribers[t] : subscribers[t][i].su = su}
            inSub   == {i \in DOMAIN subs[su] : subs[su][i] = t}
        IN  Cardinality(inTopic) = Cardinality(inSub) /\ Cardinality(inSub) <= 1

\* topic_map has a topic exactly while it has a subscriber or a sticky message:
\* none is forgotten in the map, none is removed while it is needed.
TopicsInUse == \A t \in Topic : t \in topics <=> Used(t, subscribers, sticky)

\* The topic map is sound: the variables have their types, the two kinds of list
\* mirror each other, and a topic is there as long as it is used (the operations
\* from pubsub.c:241 to pubsub.c:574).
TopicMapSound == TypeOK /\ SubscriptionsMirror /\ TopicsInUse

\* Whoever works through a subscriber list, now or at a topic further up, meets
\* only subscribers that are live: one that is being freed is out of every
\* list before its queue goes away.
OnlyLiveReached ==
    /\ \A t \in Topic : \A e \in Range(subscribers[t]) : status[e.su] = "live"
    /\ cs.op = "publish" => \A e \in Range(cs.todo) : status[e.su] = "live"
    /\ cs.op = "subscribe" => status[cs.su] = "live"
    /\ \A su \in Sub : claims[su] > 0 => status[su] = "live"

InQueues(m) == UNION {{su} \X Holding(queue[su], m) : su \in Sub}

\* A reference count is the number of pointers there are: in the hands of the
\* application, in queues, as a sticky message, in the publication under way.
\* So no pointer is left to a freed message and no message stays for good.
RefsAccounted ==
    \A m \in Msg :
        ref[m] = app[m] + Cardinality(InQueues(m))
                        + Cardinality({t \in Topic : sticky[t] = m})
                        + (IF cs.op = "publish" /\ cs.msg = m THEN 1 ELSE 0)

\* The on_empty test is still true when the message is pushed, although readers
\* have gone on since: only a holder of the global lock could make it false.
EmptyWhenPushed ==
    cs.op = "publish" /\ cs.checked => Waiting(Current.su) = 0

\* A pull that passed the semaphore has a message to take, although evictions
\* and other readers came first; a queue never holds more than its size.
ClaimsHonoured ==
    \A su \in Sub : claims[su] <= Stored(queue[su]) /\ Stored(queue[su]) <= QueueSize[su]

\* What ps_publish returns (pubsub.h:429): the number of subscribers the
\* message was delivered to, the hidden ones left out.
CountsDeliveries == cs.op = "publish" => cs.ret = cs.accepted

\* No operation under the global lock can be held up by readers, so the lock is
\* free again in the end: there is no slow consumer that a publisher waits for.
LockIsReleased == (cs # NoCS) ~> (cs = NoCS)

FairSpec == Spec /\ WF_vars(PublishGoesOn) /\ WF_vars(PushSticky)

\* The proper prefixes of a topic.
Above(t) == {u \in Topic : Len(u) < Len(t) /\ HasPrefix(t, u)}

Due ==
    CASE cs.op = "publish" ->
           LET owed(t, E) == {[su |-> e.su, topic |-> t, on_empty |-> e.on_empty,
                               priority |-> e.priority, msg |-> cs.msg] : e \in E}
           IN  owed(cs.topic, Range(cs.todo))
               \cup (IF kind[cs.msg].nonrecursive THEN {}
                     ELSE UNION {owed(t, Range(subscribers[t])) : t \in Above(cs.topic)})
      [] cs.op = "subscribe" ->
           {[su |-> cs.su, topic |-> t, on_empty |-> FALSE, priority |-> cs.priority,
             msg |-> sticky[t]] : t \in cs.todo}
      [] OTHER -> {}

\* pubsub-c implements the promise of TopicBus: what is due is decided when the
\* lock is taken, every due message reaches its inbox once, and no other does.
Promise == INSTANCE TopicBus WITH
    subscribed <- UNION {{[su |-> e.su, topic |-> t, hidden |-> e.hidden,
                           on_empty |-> e.on_empty, priority |-> e.priority] :
                            e \in Range(subscribers[t])} : t \in Topic},
    retained   <- sticky,
    inbox      <- queue,
    due        <- Due

KeepsPromise == Promise!Spec

=============================================================================
