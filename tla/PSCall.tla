-------------------------------- MODULE PSCall --------------------------------
(***************************************************************************)
(* Request and reply in pubsub-c (ps_call, ps_wait_one): every call has a  *)
(* temporary subscriber with a queue of one message, and a reply topic of  *)
(* its own, numbered by a counter.                                         *)
(*                                                                         *)
(* Publishing is one step here, as TopicBus allows.  The server is outside *)
(* the library: it reads its own queue, which it shares with less          *)
(* important messages, and answers a request not at all, once or more      *)
(* often, in time or late.  An answer may be sticky; nobody clears the     *)
(* topic of a call that is over, so that such an answer stays.             *)
(*                                                                         *)
(* A definition said to be a mutation is what a bug would make of the one  *)
(* after it; PROJECT.json names the property that notices.                 *)
(***************************************************************************)
EXTENDS Buckets

CONSTANTS Caller,      \* the threads that call
          UuidMod,     \* uuid_ctr wraps here (2^32)
          ServerSize,  \* the size of the server's queue
          MaxAnswers,  \* bound: the answers to a request
          MaxCalls     \* bound: the calls made; ids do not come again

ASSUME CallAssumption ==
    /\ IsFiniteSet(Caller)
    /\ UuidMod \in Nat \ {0}
    /\ ServerSize \in Nat
    /\ MaxAnswers \in Nat
    /\ MaxCalls \in 0..UuidMod

\* The server's priorities: other messages, requests.
Prio == {0, 1}

\* Topics are the numbers of reply topics, and the event of ps_wait_one.
Event == -1
Topic == {Event} \cup 0..(UuidMod - 1)

\* A message has its (reply) topic and the number of the call it belongs to.
Message == [topic : Topic, call : 0..MaxCalls]
Other == [topic |-> Event, call |-> 0]
NoMessage == [topic |-> Event, call |-> -1]

VARIABLES uuid_ctr,  \* the counter
          calls,     \* the number of calls so far
          pc,        \* where each caller is
          topic,     \* the topic of its subscriber
          call,      \* the number of its call; 0: it waits for the event
          inbox,     \* the queue of its subscriber
          ret_msg,   \* its result
          requests,  \* the server's queue
          serving,   \* the request the server works on
          answers,   \* the answers it has given to it
          sticky     \* the sticky messages in topic_map

callerVars == <<pc, topic, call, inbox, ret_msg>>
serverVars == <<requests, serving, answers, sticky>>
vars == <<uuid_ctr, calls, pc, topic, call, inbox, ret_msg,
          requests, serving, answers, sticky>>

Goto(c, l) == pc' = [pc EXCEPT ![c] = l]

Init ==
    /\ uuid_ctr = 0
    /\ calls = 0
    /\ pc = [c \in Caller |-> "idle"]
    /\ topic = [c \in Caller |-> Event]
    /\ call = [c \in Caller |-> 0]
    /\ inbox = [c \in Caller |-> <<>>]
    /\ ret_msg = [c \in Caller |-> NoMessage]
    /\ requests = Empty(Prio)
    /\ serving = NoMessage
    /\ answers = 0
    /\ sticky = {}

(***************************************************************************)
(* The caller                                                              *)
(***************************************************************************)

\* A mutation: the counter is read only.
SameUuid == uuid_ctr

\* __sync_add_and_fetch(&uuid_ctr, 1)
NextUuid == (uuid_ctr + 1) % UuidMod

\* ps_call begins: the topic of the reply is set in the message.
Names(c) ==
    /\ pc[c] = "idle"
    /\ calls < MaxCalls
    /\ uuid_ctr' = NextUuid
    /\ calls' = calls + 1
    /\ topic' = [topic EXCEPT ![c] = uuid_ctr']
    /\ call' = [call EXCEPT ![c] = calls + 1]
    /\ ret_msg' = [ret_msg EXCEPT ![c] = NoMessage]
    /\ Goto(c, "named")
    /\ UNCHANGED <<inbox, serverVars>>

\* What a new subscriber to t finds: the sticky message of its topic.
Greeted(c, t) == inbox' = [inbox EXCEPT ![c] = SetToSeq({m \in sticky : m.topic = t})]

\* ps_new_subscriber(1, PS_STRLIST(rtopic))
Subscribes(c) ==
    /\ pc[c] = "named"
    /\ Greeted(c, topic[c])
    /\ Goto(c, "subscribed")
    /\ UNCHANGED <<uuid_ctr, calls, topic, call, ret_msg, serverVars>>

\* ps_wait_one: the same, for a topic that others publish to.
WaitsForEvent(c) ==
    /\ pc[c] = "idle"
    /\ topic' = [topic EXCEPT ![c] = Event]
    /\ call' = [call EXCEPT ![c] = 0]
    /\ ret_msg' = [ret_msg EXCEPT ![c] = NoMessage]
    /\ Greeted(c, Event)
    /\ Goto(c, "waiting")
    /\ UNCHANGED <<uuid_ctr, calls, serverVars>>

Full == Stored(requests) = ServerSize

\* ps_publish stores the request with the server and returns 1; or 0, if the
\* server's subscription is a hidden one, and ps_call gives up.
PublishStored(c) ==
    /\ pc[c] = "subscribed"
    /\ ~Full
    /\ requests' = Insert(requests, 1, [topic |-> topic[c], call |-> call[c]])
    /\ \E hidden \in BOOLEAN : Goto(c, IF hidden THEN "gives up" ELSE "waiting")
    /\ UNCHANGED <<uuid_ctr, calls, topic, call, inbox, ret_msg, serving, answers, sticky>>

\* The server's queue takes it in the place of a less important message, and
\* ps_publish returns 0: ps_call gives up.
PublishEvicted(c) ==
    /\ pc[c] = "subscribed"
    /\ Full
    /\ requests[0] # <<>>
    /\ requests' = Insert(RemoveYoungest(requests, 0), 1,
                          [topic |-> topic[c], call |-> call[c]])
    /\ Goto(c, "gives up")
    /\ UNCHANGED <<uuid_ctr, calls, topic, call, inbox, ret_msg, serving, answers, sticky>>

\* Nobody has got it: the server's queue is full, or there is no server.
PublishRefused(c) ==
    /\ pc[c] = "subscribed"
    /\ Full
    /\ requests[0] = <<>>
    /\ Goto(c, "gives up")
    /\ UNCHANGED <<uuid_ctr, calls, topic, call, inbox, ret_msg, serverVars>>

\* ps_get: the semaphore, then the message.
Claims(c) ==
    /\ pc[c] = "waiting"
    /\ inbox[c] # <<>>
    /\ Goto(c, "claimed")
    /\ UNCHANGED <<uuid_ctr, calls, topic, call, inbox, ret_msg, serverVars>>

Takes(c) ==
    /\ pc[c] = "claimed"
    /\ ret_msg' = [ret_msg EXCEPT ![c] = Head(inbox[c])]
    /\ inbox' = [inbox EXCEPT ![c] = Tail(@)]
    /\ Goto(c, "freeing")
    /\ UNCHANGED <<uuid_ctr, calls, topic, call, serverVars>>

\* A mutation: ps_call does not hand its timeout to ps_get.
TimesOutOnEvent(c) ==
    /\ pc[c] = "waiting"
    /\ call[c] = 0
    /\ inbox[c] = <<>>
    /\ Goto(c, "times out")
    /\ UNCHANGED <<uuid_ctr, calls, topic, call, inbox, ret_msg, serverVars>>

TimesOut(c) ==
    /\ pc[c] = "waiting"
    /\ inbox[c] = <<>>
    /\ Goto(c, "times out")
    /\ UNCHANGED <<uuid_ctr, calls, topic, call, inbox, ret_msg, serverVars>>

Leaving == {"freeing", "gives up", "times out"}

\* ps_free_subscriber: ps_unsubscribe_all; the topic is then unknown.
Unsubscribes(c) ==
    /\ pc[c] \in Leaving
    /\ Goto(c, "flushing")
    /\ UNCHANGED <<uuid_ctr, calls, topic, call, inbox, ret_msg, serverVars>>

\* A mutation: the message left in the queue is not flushed.
FreesUnflushed(c) ==
    /\ pc[c] = "flushing"
    /\ Goto(c, "idle")
    /\ UNCHANGED <<uuid_ctr, calls, topic, call, inbox, ret_msg, serverVars>>

\* ps_flush and the rest
Flushes(c) ==
    /\ pc[c] = "flushing"
    /\ inbox' = [inbox EXCEPT ![c] = <<>>]
    /\ Goto(c, "idle")
    /\ UNCHANGED <<uuid_ctr, calls, topic, call, ret_msg, serverVars>>

(***************************************************************************)
(* The server, and others that publish                                     *)
(***************************************************************************)

Subscribed(t) ==
    {c \in Caller : pc[c] \in {"subscribed", "waiting", "claimed"} \cup Leaving /\ topic[c] = t}

\* ps_publish of a message that may be sticky; if it is not, it ends the sticky
\* message of its topic.  A temporary subscriber keeps the first message and
\* refuses the others.
Publishes(m) ==
    /\ inbox' = [c \in Caller |-> IF c \in Subscribed(m.topic) /\ inbox[c] = <<>>
                                  THEN <<m>> ELSE inbox[c]]
    /\ LET others == {o \in sticky : o.topic # m.topic}
       IN  sticky' \in {others, others \cup {m}}

ServerTakes ==
    /\ serving = NoMessage
    /\ \E p \in Prio :
         /\ IsHighest(requests, p)
         /\ requests' = RemoveOldest(requests, p)
         /\ serving' = IF p = 1 THEN Oldest(requests, p) ELSE NoMessage
    /\ answers' = 0
    /\ UNCHANGED <<uuid_ctr, calls, callerVars, sticky>>

Answers ==
    /\ serving # NoMessage
    /\ answers < MaxAnswers
    /\ answers' = answers + 1
    /\ Publishes(serving)
    /\ UNCHANGED <<uuid_ctr, calls, pc, topic, call, ret_msg, requests, serving>>

ServerEnds ==
    /\ serving # NoMessage
    /\ serving' = NoMessage
    /\ UNCHANGED <<uuid_ctr, calls, callerVars, requests, answers, sticky>>

OtherArrives ==
    /\ ~Full
    /\ requests' = Insert(requests, 0, Other)
    /\ UNCHANGED <<uuid_ctr, calls, callerVars, serving, answers, sticky>>

EventHappens ==
    /\ Publishes(Other)
    /\ UNCHANGED <<uuid_ctr, calls, pc, topic, call, ret_msg, requests, serving, answers>>

CallerGoesOn(c) ==
    \/ Subscribes(c)
    \/ PublishStored(c) \/ PublishEvicted(c) \/ PublishRefused(c)
    \/ Claims(c) \/ Takes(c) \/ TimesOut(c)
    \/ Unsubscribes(c) \/ Flushes(c)

Next ==
    \/ \E c \in Caller : Names(c) \/ WaitsForEvent(c) \/ CallerGoesOn(c)
    \/ ServerTakes \/ Answers \/ ServerEnds \/ OtherArrives \/ EventHappens

Spec == Init /\ [][Next]_vars

\* Calls have a timeout; the server may be gone.
FairSpec == Spec /\ \A c \in Caller : WF_vars(CallerGoesOn(c))

(***************************************************************************)
(* Properties                                                              *)
(***************************************************************************)

TypeOK ==
    /\ uuid_ctr \in 0..(UuidMod - 1)
    /\ calls \in 0..MaxCalls
    /\ pc \in [Caller -> {"idle", "named", "subscribed", "waiting", "claimed",
                          "flushing"} \cup Leaving]
    /\ topic \in [Caller -> Topic]
    /\ call \in [Caller -> 0..MaxCalls]
    /\ inbox \in [Caller -> BoundedSeq(Message, 1)]
    /\ ret_msg \in [Caller -> Message \cup {NoMessage}]
    /\ requests \in [Prio -> Seq(Message)]
    /\ serving \in Message \cup {NoMessage}
    /\ answers \in 0..MaxAnswers
    /\ sticky \subseteq Message

\* A call returns an answer to its own request: neither one to another caller,
\* nor a late one to an earlier call of its own, nor the sticky one that a call
\* which is over has left at its reply topic (pubsub.c:683-689).
AnswersOwnCall ==
    \A c \in Caller : ret_msg[c] # NoMessage => ret_msg[c].call = call[c]

\* An answer that comes between the timeout and the end of the subscription, or
\* after another answer, does not outlive the call (pubsub.c:689-692).
NothingLeftBehind ==
    \A c \in Caller : pc[c] \in {"idle", "named"} => inbox[c] = <<>>

\* A caller that waits for an answer has a queue of its own with room for one
\* message (pubsub.c:685), and ids do not leave their range (pubsub.c:683), over
\* any number of calls; between two calls the queue is gone with what was in it.
CallsSeparate == TypeOK /\ NothingLeftBehind

\* A call with a timeout ends, even if the server never answers or is overrun
\* (pubsub.c:679-693).
CallEnds == \A c \in Caller : pc[c] # "idle" ~> pc[c] = "idle"

=============================================================================
