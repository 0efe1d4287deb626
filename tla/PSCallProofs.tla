---------------------------- MODULE PSCallProofs ----------------------------
(***************************************************************************)
(* Proofs about request and reply, for any number of callers and calls,    *)
(* any size of the server's queue and any number of answers, as long as    *)
(* the numbers of the calls do not come again (CallAssumption).            *)
(***************************************************************************)
EXTENDS PSCall, BucketsProofs

(***************************************************************************)
(* The inductive invariant                                                 *)
(***************************************************************************)

\* The topic is that of the call k made so far, or of the event for k = 0.
Belongs(t, k) == k \in 0..calls /\ t = IF k = 0 THEN Event ELSE k % UuidMod

\* The message has the topic of the call whose number it has.
Genuine(m) == m \in Message /\ Belongs(m.topic, m.call)

\* The counter has counted the calls.
Numbered == uuid_ctr = calls % UuidMod

\* At most one message, and of the caller's own topic.
InboxFits(c) ==
    inbox[c] = <<>> \/ \E m \in Message : Genuine(m) /\ m.topic = topic[c] /\ inbox[c] = <<m>>

CallerReady(c) ==
    /\ Belongs(topic[c], call[c])
    /\ InboxFits(c)
    /\ pc[c] \in {"idle", "named"} => inbox[c] = <<>>
    /\ pc[c] = "claimed" => inbox[c] # <<>>
    /\ ret_msg[c] # NoMessage => ret_msg[c].call = call[c]

RequestsGenuine == \A i \in 1..Len(requests[1]) : Genuine(requests[1][i])

\* Every message about is one of a call made so far, or of the event.
ServerReady ==
    /\ RequestsGenuine
    /\ serving # NoMessage => Genuine(serving)
    /\ \A m \in sticky : Genuine(m)

Inv == TypeOK /\ Numbered /\ ServerReady /\ \A c \in Caller : CallerReady(c)

(***************************************************************************)
(* Numbers and topics                                                      *)
(***************************************************************************)

\* The numbers of the calls are different modulo the width of the counter.
LEMMA Residues ==
    ASSUME NEW k \in 0..UuidMod
    PROVE  k % UuidMod = IF k = UuidMod THEN 0 ELSE k
  <1>1. UuidMod \in Nat \ {0}
    BY CallAssumption
  <1>2. CASE k = UuidMod
    BY <1>1, <1>2, SMT
  <1>3. CASE k # UuidMod
    <2>1. k \in 0..(UuidMod - 1)
      BY <1>1, <1>3
    <2> QED
      BY <1>1, <1>3, <2>1, SMT
  <1> QED
    BY <1>2, <1>3

\* A topic is that of one call only: the ids do not come again.
LEMMA OneCall ==
    ASSUME TypeOK, NEW t, NEW k, NEW l, Belongs(t, k), Belongs(t, l)
    PROVE  k = l
  <1>1. k \in 0..UuidMod /\ l \in 0..UuidMod /\ UuidMod \in Nat \ {0}
    BY CallAssumption DEF TypeOK, Belongs
  <1>2. k % UuidMod = IF k = UuidMod THEN 0 ELSE k
    BY <1>1, Residues
  <1>3. l % UuidMod = IF l = UuidMod THEN 0 ELSE l
    BY <1>1, Residues
  <1> QED
    BY <1>1, <1>2, <1>3 DEF Belongs, Event

\* So there is one message to a topic.
LEMMA OneMessage ==
    ASSUME TypeOK, NEW m, NEW o, Genuine(m), Genuine(o), m.topic = o.topic
    PROVE  m = o
  <1>1. m \in Message /\ o \in Message /\ m.call = o.call
    BY OneCall DEF Genuine
  <1> QED
    BY <1>1 DEF Message

\* A further call has the next number.
LEMMA NextNumber ==
    ASSUME TypeOK, Numbered, calls < MaxCalls
    PROVE  /\ NextUuid = (calls + 1) % UuidMod
           /\ NextUuid \in 0..(UuidMod - 1)
  <1>1. UuidMod \in Nat \ {0} /\ calls \in 0..(UuidMod - 1) /\ calls + 1 \in 0..UuidMod
    BY CallAssumption DEF TypeOK
  <1>2. calls % UuidMod = calls
    BY <1>1, Residues
  <1>3. (calls + 1) % UuidMod = IF calls + 1 = UuidMod THEN 0 ELSE calls + 1
    BY <1>1, Residues
  <1> QED
    BY <1>1, <1>2, <1>3 DEF NextUuid, Numbered

\* What belongs to a call still does when there are more calls.
LEMMA StillBelongs ==
    ASSUME calls \in Nat, calls' \in Nat, calls <= calls'
    PROVE  /\ \A t, k : Belongs(t, k) => Belongs(t, k)'
           /\ \A m : Genuine(m) => Genuine(m)'
  BY DEF Belongs, Genuine

(***************************************************************************)
(* Sequences of at most one message                                        *)
(***************************************************************************)

LEMMA AtMostOne ==
    ASSUME NEW S, NEW s, s = <<>> \/ \E m \in S : s = <<m>>
    PROVE  s \in BoundedSeq(S, 1)
  <1>1. CASE s = <<>>
    <2>1. s \in [1..0 -> S]
      BY <1>1
    <2> QED
      BY <2>1 DEF BoundedSeq, SeqOf
  <1>2. CASE \E m \in S : s = <<m>>
    <2>1. s \in [1..1 -> S]
      BY <1>2
    <2> QED
      BY <2>1 DEF BoundedSeq, SeqOf
  <1> QED
    BY <1>1, <1>2

\* SetToSeq of a set of at most one element.
LEMMA SmallSetToSeq ==
    ASSUME NEW S, \A m, o \in S : m = o
    PROVE  SetToSeq(S) = <<>> \/ \E m \in S : SetToSeq(S) = <<m>>
  <1>1. CASE S = {}
    <2>1. Cardinality(S) = 0
      BY <1>1, FS_EmptySet
    <2>2. \A f \in [1..0 -> S] : f = <<>>
      OBVIOUS
    <2>3. <<>> \in [1..0 -> S] /\ IsInjective(<<>>)
      BY DEF IsInjective
    <2> QED
      BY <2>1, <2>2, <2>3 DEF SetToSeq
  <1>2. CASE S # {}
    <2>1. PICK m \in S : S = {m}
      BY <1>2
    <2>2. Cardinality(S) = 1
      BY <2>1, FS_Singleton
    <2>3. \A f \in [1..1 -> S] : f = <<m>>
      BY <2>1
    <2>4. <<m>> \in [1..1 -> S] /\ IsInjective(<<m>>)
      BY <2>1 DEF IsInjective
    <2> QED
      BY <2>1, <2>2, <2>3, <2>4 DEF SetToSeq
  <1> QED
    BY <1>1, <1>2

(***************************************************************************)
(* Steps                                                                   *)
(***************************************************************************)

Places == {"idle", "named", "subscribed", "waiting", "claimed", "flushing"} \cup Leaving

\* The queues of the callers have their type if each has at most one message.
LEMMA InboxType ==
    ASSUME DOMAIN inbox = Caller, inbox = [c \in Caller |-> inbox[c]],
           \A c \in Caller : InboxFits(c)
    PROVE  inbox \in [Caller -> BoundedSeq(Message, 1)]
  <1>1. \A c \in Caller : inbox[c] \in BoundedSeq(Message, 1)
    BY AtMostOne DEF InboxFits
  <1> QED
    BY <1>1

LEMMA InitInv == Init => Inv
  <1> SUFFICES ASSUME Init PROVE Inv
    OBVIOUS
  <1>1. /\ UuidMod \in Nat \ {0} /\ MaxCalls \in Nat /\ 0 \in 0..(UuidMod - 1)
        /\ 0 \in 0..MaxCalls /\ 0 \in 0..MaxAnswers
    BY CallAssumption
  <1>2. Numbered
    BY <1>1, Residues DEF Init, Numbered
  <1>3. \A c \in Caller : CallerReady(c)
    BY <1>1 DEF Init, CallerReady, Belongs, InboxFits
  <1>4. inbox \in [Caller -> BoundedSeq(Message, 1)]
    BY <1>3, InboxType DEF Init, CallerReady
  <1>5. TypeOK
    BY <1>1, <1>4 DEF Init, TypeOK, Topic, Empty, Prio
  <1>6. ServerReady
    BY DEF Init, ServerReady, RequestsGenuine, Empty, Prio
  <1> QED
    BY <1>2, <1>3, <1>5, <1>6 DEF Inv

\* A step of caller c, whose queue it may empty or fill; the server's messages
\* stay those of calls made so far.
LEMMA CallerMoves ==
    ASSUME Inv, NEW c \in Caller, NEW l \in Places, Goto(c, l),
           NEW t \in Topic, topic' = [topic EXCEPT ![c] = t],
           NEW k \in 0..MaxCalls, call' = [call EXCEPT ![c] = k],
           NEW q, inbox' = [inbox EXCEPT ![c] = q],
           NEW r \in Message \cup {NoMessage}, ret_msg' = [ret_msg EXCEPT ![c] = r],
           calls' \in 0..MaxCalls, calls <= calls', uuid_ctr' = calls' % UuidMod,
           uuid_ctr' \in 0..(UuidMod - 1),
           requests' \in [Prio -> Seq(Message)],
           RequestsGenuine',
           UNCHANGED <<serving, answers, sticky>>,
           CallerReady(c)'
    PROVE  Inv'
  <1>1. /\ \A u, n : Belongs(u, n) => Belongs(u, n)'
        /\ \A m : Genuine(m) => Genuine(m)'
    BY StillBelongs, CallAssumption DEF Inv, TypeOK
  <1>2. ASSUME NEW d \in Caller \ {c}
        PROVE  CallerReady(d)'
    <2>1. /\ pc'[d] = pc[d] /\ topic'[d] = topic[d] /\ call'[d] = call[d]
          /\ inbox'[d] = inbox[d] /\ ret_msg'[d] = ret_msg[d]
      BY DEF Goto, Inv, TypeOK
    <2>2. CallerReady(d)
      BY DEF Inv
    <2>3. InboxFits(d)'
      BY <1>1, <2>1, <2>2 DEF CallerReady, InboxFits
    <2> QED
      BY <1>1, <2>1, <2>2, <2>3 DEF CallerReady
  <1>3. \A d \in Caller : CallerReady(d)'
    BY <1>2
  <1>4. inbox' \in [Caller -> BoundedSeq(Message, 1)]
    <2>1. DOMAIN inbox' = Caller /\ inbox' = [d \in Caller |-> inbox'[d]]
      BY DEF Inv, TypeOK
    <2>2. \A d \in Caller : inbox'[d] \in BoundedSeq(Message, 1)
      BY <1>3, AtMostOne DEF CallerReady, InboxFits
    <2> QED
      BY <2>1, <2>2
  <1>5. TypeOK'
    BY <1>4 DEF Inv, TypeOK, Goto, Places
  <1>6. Numbered' /\ ServerReady'
    BY <1>1 DEF Inv, Numbered, ServerReady
  <1> QED
    BY <1>3, <1>5, <1>6 DEF Inv

\* The counter is that of the calls also after a step that makes none.
LEMMA SameCalls ==
    ASSUME Inv, UNCHANGED <<uuid_ctr, calls>>
    PROVE  /\ calls' \in 0..MaxCalls /\ calls <= calls' /\ uuid_ctr' = calls' % UuidMod
           /\ uuid_ctr' \in 0..(UuidMod - 1)
  BY CallAssumption DEF Inv, TypeOK, Numbered

\* The same for a step that makes no call and leaves the server alone.
LEMMA CallerGoesOnly ==
    ASSUME Inv, NEW c \in Caller, NEW l \in Places, Goto(c, l),
           UNCHANGED <<uuid_ctr, calls, topic, call, serverVars>>,
           NEW q, inbox' = [inbox EXCEPT ![c] = q],
           NEW r \in Message \cup {NoMessage}, ret_msg' = [ret_msg EXCEPT ![c] = r],
           CallerReady(c)'
    PROVE  Inv'
  <1>1. /\ topic[c] \in Topic /\ call[c] \in 0..MaxCalls
        /\ topic' = [topic EXCEPT ![c] = topic[c]] /\ call' = [call EXCEPT ![c] = call[c]]
    BY DEF Inv, TypeOK
  <1>2. /\ calls' \in 0..MaxCalls /\ calls <= calls' /\ uuid_ctr' = calls' % UuidMod
        /\ uuid_ctr' \in 0..(UuidMod - 1)
    BY SameCalls
  <1>3. /\ requests' \in [Prio -> Seq(Message)] /\ UNCHANGED <<serving, answers, sticky>>
        /\ RequestsGenuine'
    BY DEF Inv, TypeOK, ServerReady, RequestsGenuine, Genuine, Belongs, serverVars
  <1> QED
    BY <1>1, <1>2, <1>3, CallerMoves

\* ps_call takes the next number, which no message has.
LEMMA NamesInv ==
    ASSUME Inv, NEW c \in Caller, Names(c)
    PROVE  Inv'
  <1>1. /\ calls + 1 \in 0..MaxCalls /\ calls \in Nat /\ calls' = calls + 1
        /\ uuid_ctr' = calls' % UuidMod /\ uuid_ctr' \in 0..(UuidMod - 1)
    BY NextNumber, CallAssumption DEF Names, Inv, TypeOK
  <1>2. /\ uuid_ctr' \in Topic /\ NoMessage \in Message \cup {NoMessage}
        /\ inbox' = [inbox EXCEPT ![c] = inbox[c]] /\ "named" \in Places
    BY <1>1 DEF Names, Topic, Inv, TypeOK, serverVars, Places
  <1>3. /\ topic'[c] = uuid_ctr' /\ call'[c] = calls + 1 /\ ret_msg'[c] = NoMessage
        /\ pc'[c] = "named" /\ inbox'[c] = <<>>
    BY DEF Names, Goto, Inv, TypeOK, CallerReady
  <1>4. CallerReady(c)'
    BY <1>1, <1>3 DEF CallerReady, Belongs, InboxFits
  <1>5. requests' \in [Prio -> Seq(Message)] /\ RequestsGenuine'
    <2>1. \A m : Genuine(m) => Genuine(m)'
      BY <1>1, StillBelongs
    <2> QED
      BY <2>1 DEF Names, serverVars, Inv, TypeOK, ServerReady, RequestsGenuine
  <1>6. /\ Goto(c, "named") /\ topic' = [topic EXCEPT ![c] = uuid_ctr']
        /\ call' = [call EXCEPT ![c] = calls + 1]
        /\ ret_msg' = [ret_msg EXCEPT ![c] = NoMessage]
        /\ UNCHANGED <<serving, answers, sticky>> /\ calls <= calls' /\ calls' \in 0..MaxCalls
    BY <1>1 DEF Names, serverVars
  <1> QED
    BY <1>1, <1>2, <1>4, <1>5, <1>6, CallerMoves

\* A new subscriber is greeted with a message of its topic, if with any.
LEMMA GreetedFits ==
    ASSUME Inv, NEW c \in Caller, NEW t, Greeted(c, t), UNCHANGED calls
    PROVE  /\ inbox'[c] = <<>> \/ \E m \in Message : Genuine(m)' /\ m.topic = t /\ inbox'[c] = <<m>>
           /\ \E q : inbox' = [inbox EXCEPT ![c] = q]
  <1> DEFINE S == {m \in sticky : m.topic = t}
  <1>1. \A m, o \in S : m = o
    BY OneMessage DEF Inv, ServerReady
  <1>2. inbox'[c] = SetToSeq(S)
    BY DEF Greeted, Inv, TypeOK
  <1>3. \A m \in S : m \in Message /\ Genuine(m)' /\ m.topic = t
    BY DEF Inv, ServerReady, Genuine, Belongs
  <1> HIDE DEF S
  <1>4. SetToSeq(S) = <<>> \/ \E m \in S : SetToSeq(S) = <<m>>
    BY <1>1, SmallSetToSeq
  <1>5. \E q : inbox' = [inbox EXCEPT ![c] = q]
    BY DEF Greeted
  <1> QED
    BY <1>2, <1>3, <1>4, <1>5

LEMMA SubscribesInv ==
    ASSUME Inv, NEW c \in Caller, Subscribes(c)
    PROVE  Inv'
  <1>1. /\ Goto(c, "subscribed") /\ Greeted(c, topic[c]) /\ "subscribed" \in Places
        /\ UNCHANGED <<uuid_ctr, calls, topic, call, ret_msg, serverVars>>
    BY DEF Subscribes, Places
  <1>2. PICK q : inbox' = [inbox EXCEPT ![c] = q]
    BY <1>1, GreetedFits
  <1>3. InboxFits(c)'
    BY <1>1, GreetedFits DEF InboxFits
  <1>4. pc'[c] = "subscribed" /\ ret_msg[c] \in Message \cup {NoMessage}
        /\ ret_msg' = [ret_msg EXCEPT ![c] = ret_msg[c]]
    BY <1>1 DEF Goto, Inv, TypeOK
  <1>5. CallerReady(c)'
    BY <1>1, <1>3, <1>4 DEF Inv, CallerReady, Belongs
  <1> QED
    BY <1>1, <1>2, <1>4, <1>5, CallerGoesOnly

LEMMA WaitsForEventInv ==
    ASSUME Inv, NEW c \in Caller, WaitsForEvent(c)
    PROVE  Inv'
  <1>1. /\ Goto(c, "waiting") /\ Greeted(c, Event) /\ "waiting" \in Places
        /\ topic' = [topic EXCEPT ![c] = Event] /\ call' = [call EXCEPT ![c] = 0]
        /\ ret_msg' = [ret_msg EXCEPT ![c] = NoMessage]
        /\ UNCHANGED <<uuid_ctr, calls, serverVars>>
    BY DEF WaitsForEvent, Places
  <1>2. PICK q : inbox' = [inbox EXCEPT ![c] = q]
    BY <1>1, GreetedFits
  <1>3. /\ pc'[c] = "waiting" /\ topic'[c] = Event /\ call'[c] = 0 /\ ret_msg'[c] = NoMessage
        /\ calls' = calls /\ calls \in Nat
    BY <1>1, CallAssumption DEF Goto, Inv, TypeOK
  <1>4. InboxFits(c)'
    BY <1>1, <1>3, GreetedFits DEF InboxFits
  <1>5. CallerReady(c)'
    BY <1>3, <1>4 DEF CallerReady, Belongs
  <1>6. /\ calls' \in 0..MaxCalls /\ calls <= calls' /\ uuid_ctr' = calls' % UuidMod
        /\ uuid_ctr' \in 0..(UuidMod - 1)
        /\ Event \in Topic /\ 0 \in 0..MaxCalls
    BY <1>1, CallAssumption DEF Inv, TypeOK, Numbered, Topic
  <1>7. /\ requests' \in [Prio -> Seq(Message)] /\ UNCHANGED <<serving, answers, sticky>>
        /\ RequestsGenuine'
    BY <1>1 DEF Inv, TypeOK, ServerReady, RequestsGenuine, Genuine, Belongs, serverVars
  <1> QED
    BY <1>1, <1>2, <1>5, <1>6, <1>7, CallerMoves

\* The request is one of the call under way.
LEMMA PublishesRequest ==
    ASSUME Inv, NEW c \in Caller, pc[c] = "subscribed", NEW l \in {"gives up", "waiting"},
           Goto(c, l), requests' \in [Prio -> Seq(Message)], RequestsGenuine',
           UNCHANGED <<uuid_ctr, calls, topic, call, inbox, ret_msg, serving, answers, sticky>>
    PROVE  Inv'
  <1>1. /\ topic[c] \in Topic /\ call[c] \in 0..MaxCalls /\ ret_msg[c] \in Message \cup {NoMessage}
        /\ l \in Places /\ pc'[c] = l
    BY DEF Inv, TypeOK, Goto, Places, Leaving
  <1>2. /\ topic' = [topic EXCEPT ![c] = topic[c]] /\ call' = [call EXCEPT ![c] = call[c]]
        /\ inbox' = [inbox EXCEPT ![c] = inbox[c]] /\ ret_msg' = [ret_msg EXCEPT ![c] = ret_msg[c]]
    BY DEF Inv, TypeOK
  <1>3. /\ calls' \in 0..MaxCalls /\ calls <= calls' /\ uuid_ctr' = calls' % UuidMod
        /\ uuid_ctr' \in 0..(UuidMod - 1)
    BY SameCalls
  <1>4. CallerReady(c)'
    BY <1>1 DEF Inv, CallerReady, InboxFits, Genuine, Belongs
  <1> QED
    BY <1>1, <1>2, <1>3, <1>4, CallerMoves

\* Appending an element of S keeps the others.
LEMMA AppendedLast ==
    ASSUME NEW S, NEW s \in Seq(S), NEW x \in S, NEW i \in 1..Len(Append(s, x))
    PROVE  \/ Append(s, x)[i] = x
           \/ i \in 1..Len(s) /\ Append(s, x)[i] = s[i]
  OBVIOUS

\* A message that is appended to the requests.
LEMMA RequestAppended ==
    ASSUME Inv, UNCHANGED calls, NEW b \in [Prio -> Seq(Message)], b[1] = requests[1],
           NEW c \in Caller, NEW m, m = [topic |-> topic[c], call |-> call[c]],
           requests' = Insert(b, 1, m)
    PROVE  requests' \in [Prio -> Seq(Message)] /\ RequestsGenuine'
  <1>1. m \in Message /\ Genuine(m)
    BY DEF Inv, TypeOK, CallerReady, Genuine, Message
  <1>2. requests' \in [Prio -> Seq(Message)] /\ requests'[1] = Append(requests[1], m)
    BY <1>1, InsertType DEF Insert, Prio
  <1>3. requests[1] \in Seq(Message) /\ \A i \in 1..Len(requests[1]) : Genuine(requests[1][i])
    BY DEF Inv, TypeOK, Prio, ServerReady, RequestsGenuine
  <1>4. ASSUME NEW i \in 1..Len(requests'[1])
        PROVE  Genuine(requests'[1][i])
    <2>1. \/ requests'[1][i] = m
          \/ i \in 1..Len(requests[1]) /\ requests'[1][i] = requests[1][i]
      <3> DEFINE q == requests[1]
      <3>1. q \in Seq(Message) /\ m \in Message /\ i \in 1..Len(Append(q, m))
        BY <1>1, <1>2, <1>3
      <3> HIDE DEF q
      <3>2. \/ Append(q, m)[i] = m
            \/ i \in 1..Len(q) /\ Append(q, m)[i] = q[i]
        BY <3>1, AppendedLast
      <3> QED
        BY <1>2, <3>2 DEF q
    <2> QED
      BY <1>1, <1>3, <2>1
  <1> QED
    BY <1>2, <1>4 DEF RequestsGenuine, Genuine, Belongs

LEMMA PublishStoredInv ==
    ASSUME Inv, NEW c \in Caller, PublishStored(c) \/ PublishEvicted(c) \/ PublishRefused(c)
    PROVE  Inv'
  <1>1. CASE PublishStored(c)
    <2>1. requests' \in [Prio -> Seq(Message)] /\ RequestsGenuine'
      BY <1>1, RequestAppended DEF PublishStored, Inv, TypeOK
    <2> QED
      BY <1>1, <2>1, PublishesRequest DEF PublishStored
  <1>2. CASE PublishEvicted(c)
    <2>1. 0 \in Prio /\ 1 \in Prio /\ requests \in [Prio -> Seq(Message)] /\ requests[0] # <<>>
      BY <1>2 DEF PublishEvicted, Inv, TypeOK, Prio
    <2>2. /\ RemoveYoungest(requests, 0) \in [Prio -> Seq(Message)]
          /\ RemoveYoungest(requests, 0)[1] = requests[1]
      BY <2>1, RemoveType DEF RemoveYoungest
    <2>3. requests' \in [Prio -> Seq(Message)] /\ RequestsGenuine'
      BY <1>2, <2>2, RequestAppended DEF PublishEvicted
    <2> QED
      BY <1>2, <2>3, PublishesRequest DEF PublishEvicted
  <1>3. CASE PublishRefused(c)
    <2>1. requests' \in [Prio -> Seq(Message)] /\ RequestsGenuine'
      BY <1>3 DEF PublishRefused, serverVars, Inv, TypeOK, ServerReady, RequestsGenuine,
                  Genuine, Belongs
    <2> QED
      BY <1>3, <2>1, PublishesRequest DEF PublishRefused, serverVars
  <1> QED
    BY <1>1, <1>2, <1>3

\* Claims, times out or leaves: the queue stays.
LEMMA WaitsInv ==
    ASSUME Inv, NEW c \in Caller, Claims(c) \/ TimesOut(c) \/ Unsubscribes(c)
    PROVE  Inv'
  <1>1. PICK l \in {"claimed", "times out", "flushing"} :
           /\ Goto(c, l)
           /\ l = "claimed" => inbox[c] # <<>>
    BY DEF Claims, TimesOut, Unsubscribes
  <1>2. UNCHANGED <<uuid_ctr, calls, topic, call, inbox, ret_msg, serverVars>>
    BY DEF Claims, TimesOut, Unsubscribes
  <1>3. /\ l \in Places /\ pc'[c] = l /\ ret_msg[c] \in Message \cup {NoMessage}
        /\ inbox' = [inbox EXCEPT ![c] = inbox[c]] /\ ret_msg' = [ret_msg EXCEPT ![c] = ret_msg[c]]
    BY <1>1, <1>2 DEF Inv, TypeOK, Goto, Places, Leaving
  <1>4. Belongs(topic[c], call[c])' /\ InboxFits(c)'
    BY <1>2 DEF Inv, CallerReady, InboxFits, Genuine, Belongs
  <1>5. CallerReady(c)'
    <2>1. pc'[c] \notin {"idle", "named"} /\ (pc'[c] = "claimed" => inbox'[c] # <<>>)
      BY <1>1, <1>2, <1>3
    <2>2. ret_msg'[c] # NoMessage => ret_msg'[c].call = call'[c]
      BY <1>2 DEF Inv, CallerReady
    <2> QED
      BY <1>4, <2>1, <2>2 DEF CallerReady
  <1> QED
    BY <1>1, <1>2, <1>3, <1>5, CallerGoesOnly

\* The message that waits is an answer to this very call.
LEMMA TakesInv ==
    ASSUME Inv, NEW c \in Caller, Takes(c)
    PROVE  Inv'
  <1>1. PICK m \in Message : Genuine(m) /\ m.topic = topic[c] /\ inbox[c] = <<m>>
    BY DEF Takes, Inv, CallerReady, InboxFits
  <1>2. m.call = call[c]
    BY <1>1, OneCall DEF Inv, CallerReady, Genuine
  <1>3. Head(inbox[c]) = m /\ Tail(inbox[c]) = <<>>
    BY <1>1
  <1>4. /\ Goto(c, "freeing") /\ "freeing" \in Places
        /\ UNCHANGED <<uuid_ctr, calls, topic, call, serverVars>>
        /\ inbox' = [inbox EXCEPT ![c] = <<>>] /\ ret_msg' = [ret_msg EXCEPT ![c] = m]
    BY <1>3 DEF Takes, Places, Leaving
  <1>5. pc'[c] = "freeing" /\ inbox'[c] = <<>> /\ ret_msg'[c] = m
    BY <1>4 DEF Goto, Inv, TypeOK
  <1>6. CallerReady(c)'
    BY <1>2, <1>4, <1>5 DEF Inv, CallerReady, InboxFits, Belongs
  <1> QED
    BY <1>4, <1>6, CallerGoesOnly

LEMMA FlushesInv ==
    ASSUME Inv, NEW c \in Caller, Flushes(c)
    PROVE  Inv'
  <1>1. /\ Goto(c, "idle") /\ "idle" \in Places
        /\ UNCHANGED <<uuid_ctr, calls, topic, call, ret_msg, serverVars>>
        /\ inbox' = [inbox EXCEPT ![c] = <<>>]
    BY DEF Flushes, Places
  <1>2. /\ pc'[c] = "idle" /\ inbox'[c] = <<>> /\ ret_msg[c] \in Message \cup {NoMessage}
        /\ ret_msg' = [ret_msg EXCEPT ![c] = ret_msg[c]]
    BY <1>1 DEF Goto, Inv, TypeOK
  <1>3. CallerReady(c)'
    BY <1>1, <1>2 DEF Inv, CallerReady, InboxFits, Belongs
  <1> QED
    BY <1>1, <1>2, <1>3, CallerGoesOnly

\* A step of the server or of another publisher; callers may get a message each.
LEMMA ServerMoves ==
    ASSUME Inv, UNCHANGED <<uuid_ctr, calls, pc, topic, call, ret_msg>>,
           inbox' = [c \in Caller |-> inbox'[c]],
           \A c \in Caller : \/ inbox'[c] = inbox[c]
                             \/ /\ pc[c] \notin {"idle", "named"}
                                /\ \E m \in Message : Genuine(m) /\ m.topic = topic[c]
                                                                 /\ inbox'[c] = <<m>>,
           requests' \in [Prio -> Seq(Message)], RequestsGenuine',
           serving' = NoMessage \/ Genuine(serving'), answers' \in 0..MaxAnswers,
           \A m \in sticky' : Genuine(m)
    PROVE  Inv'
  <1>1. \A m : Genuine(m) => Genuine(m)'
    BY DEF Genuine, Belongs
  <1>2. ASSUME NEW c \in Caller
        PROVE  CallerReady(c)'
    <2>1. CallerReady(c) /\ pc'[c] = pc[c]
      BY DEF Inv
    <2>2. Belongs(topic[c], call[c])' /\ (ret_msg'[c] # NoMessage => ret_msg'[c].call = call'[c])
      BY <2>1 DEF CallerReady, Belongs
    <2>3. CASE inbox'[c] = inbox[c]
      <3>1. InboxFits(c)'
        BY <1>1, <2>1, <2>3 DEF CallerReady, InboxFits
      <3> QED
        BY <2>1, <2>2, <2>3, <3>1 DEF CallerReady
    <2>4. ASSUME pc[c] \notin {"idle", "named"},
                 NEW m \in Message, Genuine(m), m.topic = topic[c], inbox'[c] = <<m>>
          PROVE  CallerReady(c)'
      <3>1. InboxFits(c)' /\ inbox'[c] # <<>>
        BY <1>1, <2>4 DEF InboxFits
      <3> QED
        BY <2>1, <2>2, <2>4, <3>1 DEF CallerReady
    <2> QED
      BY <2>3, <2>4
  <1>3. inbox' \in [Caller -> BoundedSeq(Message, 1)]
    <2>1. \A c \in Caller : inbox'[c] \in BoundedSeq(Message, 1)
      BY <1>2, AtMostOne DEF CallerReady, InboxFits
    <2> QED
      BY <2>1
  <1>4. ServerReady'
    BY <1>1 DEF ServerReady
  <1>5. TypeOK'
    <2>1. sticky' \subseteq Message /\ serving' \in Message \cup {NoMessage}
      BY DEF Genuine
    <2> QED
      BY <1>3, <2>1 DEF Inv, TypeOK
  <1> QED
    BY <1>2, <1>4, <1>5 DEF Inv, Numbered

\* Callers who subscribe to the topic of a message get it if they have none.
LEMMA PublishesReaches ==
    ASSUME Inv, NEW m, Genuine(m), Publishes(m)
    PROVE  /\ inbox' = [c \in Caller |-> inbox'[c]]
           /\ \A c \in Caller : \/ inbox'[c] = inbox[c]
                                \/ /\ pc[c] \notin {"idle", "named"}
                                   /\ \E o \in Message : Genuine(o) /\ o.topic = topic[c]
                                                                    /\ inbox'[c] = <<o>>
           /\ \A o \in sticky' : Genuine(o)
  <1>1. inbox' = [c \in Caller |-> inbox'[c]]
    BY DEF Publishes
  <1>2. ASSUME NEW c \in Caller, inbox'[c] # inbox[c]
        PROVE  pc[c] \notin {"idle", "named"} /\ m.topic = topic[c] /\ inbox'[c] = <<m>>
    BY <1>2 DEF Publishes, Subscribed, Leaving
  <1>3. \A o \in sticky' : Genuine(o)
    BY DEF Publishes, Inv, ServerReady
  <1>4. m \in Message
    BY DEF Genuine
  <1> QED
    BY <1>1, <1>2, <1>3, <1>4

\* Requests that stay are those of calls made so far.
LEMMA RequestsStay ==
    ASSUME Inv, UNCHANGED <<calls, requests>>
    PROVE  requests' \in [Prio -> Seq(Message)] /\ RequestsGenuine'
  BY DEF Inv, TypeOK, ServerReady, RequestsGenuine, Genuine, Belongs

LEMMA ServerTakesInv ==
    ASSUME Inv, ServerTakes
    PROVE  Inv'
  <1>1. PICK p \in Prio :
           /\ IsHighest(requests, p)
           /\ requests' = RemoveOldest(requests, p)
           /\ serving' = IF p = 1 THEN Oldest(requests, p) ELSE NoMessage
    BY DEF ServerTakes
  <1>2. requests \in [Prio -> Seq(Message)] /\ requests[p] # <<>> /\ 1 \in Prio
    BY <1>1 DEF Inv, TypeOK, IsHighest, Prio
  <1>3. requests' \in [Prio -> Seq(Message)]
    BY <1>1, <1>2, RemoveType
  <1>4. p = 1 => Genuine(Oldest(requests, p))
    <2>1. p = 1 => 1 \in 1..Len(requests[1]) /\ Oldest(requests, p) = requests[1][1]
      BY <1>2 DEF Oldest
    <2> QED
      BY <2>1 DEF Inv, ServerReady, RequestsGenuine
  <1>5. RequestsGenuine'
    <2>1. CASE p = 1
      <3>1. requests'[1] = Tail(requests[1]) /\ requests[1] \in Seq(Message)
        BY <1>1, <1>2, <2>1 DEF RemoveOldest
      <3>2. \A i \in 1..Len(requests'[1]) :
               i + 1 \in 1..Len(requests[1]) /\ requests'[1][i] = requests[1][i + 1]
        BY <1>2, <2>1, <3>1
      <3> QED
        BY <3>2 DEF ServerTakes, Inv, ServerReady, RequestsGenuine, Genuine, Belongs
    <2>2. CASE p # 1
      <3>1. requests'[1] = requests[1]
        BY <1>1, <1>2, <2>2 DEF RemoveOldest
      <3> QED
        BY <3>1 DEF ServerTakes, Inv, ServerReady, RequestsGenuine, Genuine, Belongs
    <2> QED
      BY <2>1, <2>2
  <1>6. /\ UNCHANGED <<uuid_ctr, calls, pc, topic, call, inbox, ret_msg, sticky>>
        /\ answers' \in 0..MaxAnswers
    BY CallAssumption DEF ServerTakes, callerVars
  <1>7. inbox' = [c \in Caller |-> inbox'[c]] /\ \A m \in sticky' : Genuine(m)
    BY <1>6 DEF Inv, TypeOK, ServerReady
  <1> QED
    BY <1>1, <1>3, <1>4, <1>5, <1>6, <1>7, ServerMoves

LEMMA AnswersInv ==
    ASSUME Inv, Answers \/ ServerEnds \/ EventHappens
    PROVE  Inv'
  <1>1. UNCHANGED <<uuid_ctr, calls, pc, topic, call, ret_msg, requests>>
    BY DEF Answers, ServerEnds, EventHappens, callerVars
  <1>2. requests' \in [Prio -> Seq(Message)] /\ RequestsGenuine'
    BY <1>1, RequestsStay
  <1>3. serving' = NoMessage \/ Genuine(serving')
    BY DEF Answers, ServerEnds, EventHappens, Inv, ServerReady
  <1>4. answers' \in 0..MaxAnswers
    BY CallAssumption DEF Answers, ServerEnds, EventHappens, Inv, TypeOK
  <1>5. CASE Answers
    BY <1>1, <1>2, <1>3, <1>4, <1>5, PublishesReaches, ServerMoves DEF Answers, Inv, ServerReady
  <1>6. CASE EventHappens
    <2>1. Genuine(Other)
      BY CallAssumption DEF Genuine, Belongs, Other, Message, Topic, Inv, TypeOK
    <2> QED
      BY <1>1, <1>2, <1>3, <1>4, <1>6, <2>1, PublishesReaches, ServerMoves DEF EventHappens
  <1>7. CASE ServerEnds
    <2>1. inbox' = inbox /\ sticky' = sticky
      BY <1>7 DEF ServerEnds, callerVars
    <2>2. inbox' = [c \in Caller |-> inbox'[c]] /\ \A m \in sticky' : Genuine(m)
      BY <2>1 DEF Inv, TypeOK, ServerReady
    <2> QED
      BY <1>1, <1>2, <1>3, <1>4, <2>1, <2>2, ServerMoves
  <1> QED
    BY <1>5, <1>6, <1>7

LEMMA OtherArrivesInv ==
    ASSUME Inv, OtherArrives
    PROVE  Inv'
  <1>1. /\ 0 \in Prio /\ 1 \in Prio /\ Other \in Message /\ requests \in [Prio -> Seq(Message)]
        /\ requests' = Insert(requests, 0, Other)
        /\ UNCHANGED <<uuid_ctr, calls, pc, topic, call, inbox, ret_msg, serving, answers, sticky>>
    <2>1. Other \in Message
      BY CallAssumption DEF Other, Message, Topic
    <2> QED
      BY <2>1 DEF OtherArrives, callerVars, Prio, Inv, TypeOK
  <1>2. requests' \in [Prio -> Seq(Message)] /\ requests'[1] = requests[1]
    BY <1>1, InsertType DEF Insert
  <1>3. RequestsGenuine'
    BY <1>1, <1>2 DEF Inv, ServerReady, RequestsGenuine, Genuine, Belongs
  <1>4. /\ inbox' = [c \in Caller |-> inbox'[c]] /\ \A m \in sticky' : Genuine(m)
        /\ serving' = NoMessage \/ Genuine(serving')
        /\ answers' \in 0..MaxAnswers
    BY <1>1 DEF Inv, TypeOK, ServerReady
  <1> QED
    BY <1>1, <1>2, <1>3, <1>4, ServerMoves

LEMMA StutterInv ==
    ASSUME Inv, UNCHANGED vars
    PROVE  Inv'
  <1>1. UNCHANGED <<uuid_ctr, calls, pc, topic, call, inbox, ret_msg, requests, serving,
                    answers, sticky>>
    BY DEF vars
  <1>2. /\ inbox' = [c \in Caller |-> inbox'[c]] /\ \A m \in sticky' : Genuine(m)
        /\ serving' = NoMessage \/ Genuine(serving')
        /\ answers' \in 0..MaxAnswers
    BY <1>1 DEF Inv, TypeOK, ServerReady
  <1> QED
    BY <1>1, <1>2, RequestsStay, ServerMoves

LEMMA NextInv ==
    ASSUME Inv, [Next]_vars
    PROVE  Inv'
  <1>1. ASSUME NEW c \in Caller, Names(c) \/ WaitsForEvent(c) \/ CallerGoesOn(c)
        PROVE  Inv'
    BY <1>1, NamesInv, WaitsForEventInv, SubscribesInv, PublishStoredInv, WaitsInv, TakesInv,
       FlushesInv DEF CallerGoesOn
  <1>2. CASE ServerTakes
    BY <1>2, ServerTakesInv
  <1>3. CASE Answers \/ ServerEnds \/ EventHappens
    BY <1>3, AnswersInv
  <1>4. CASE OtherArrives
    BY <1>4, OtherArrivesInv
  <1>5. CASE UNCHANGED vars
    BY <1>5, StutterInv
  <1> QED
    BY <1>1, <1>2, <1>3, <1>4, <1>5 DEF Next

\* The inductive invariant holds in every reachable state.
THEOREM Invariance == Spec => []Inv
  BY InitInv, NextInv, PTL DEF Spec

\* A call returns an answer to its own request, never a late or sticky one to another
\* call, whatever the server does (pubsub.c:683-689).
THEOREM AnswersAreOwn == Spec => []AnswersOwnCall
  <1>1. Inv => AnswersOwnCall
    BY DEF Inv, CallerReady, AnswersOwnCall
  <1> QED
    BY <1>1, Invariance, PTL

\* Each caller has room for one message and nothing is left of a call that is over
\* (pubsub.c:685-692).
THEOREM CallsAreSeparate == Spec => []CallsSeparate
  <1>1. Inv => CallsSeparate
    BY DEF Inv, CallerReady, CallsSeparate, NothingLeftBehind
  <1> QED
    BY <1>1, Invariance, PTL

=============================================================================
