---------------------------- MODULE PubSubProofs ----------------------------
(***************************************************************************)
(* Proofs about the publish and subscribe core, for all sets of            *)
(* subscribers, messages and topics, all flags, sizes and priorities:      *)
(* first its invariant, then that it keeps the promise of TopicBus.        *)
(***************************************************************************)
EXTENDS PubSub, BucketsProofs

(***************************************************************************)
(* The inductive invariant: what the runs check, and what makes it last.   *)
(***************************************************************************)

\* No subscriber is twice in a list of entries, no topic twice in a list of topics.
NoneTwice(s) == \A i, j \in 1..Len(s) : s[i].su = s[j].su => i = j

AllDifferent(s) == \A i, j \in 1..Len(s) : s[i] = s[j] => i = j

ListsDistinct ==
    /\ \A t \in Topic : NoneTwice(subscribers[t])
    /\ \A su \in Sub : AllDifferent(subs[su])

\* The subscriber has an entry.
Enlisted(s, su) == \E i \in 1..Len(s) : s[i].su = su

\* The two kinds of list say the same.
ListsMirror ==
    \A su \in Sub, t \in Topic : Enlisted(subscribers[t], su) <=> Contains(subs[su], t)

Lists == ListsDistinct /\ ListsMirror /\ TopicsInUse

\* The test of on_empty has an entry it is about, and what a new subscriber is
\* still to get are sticky messages.
SectionReady ==
    /\ cs.op = "publish" /\ cs.checked => cs.todo # <<>>
    /\ cs.op = "subscribe" => \A t \in cs.todo : sticky[t] # NoMsg

\* The queues are finite, and empty as long as nobody has them.
QueuesReady ==
    \A su \in Sub :
        /\ IsFiniteSet(Slots(queue[su]))
        /\ status[su] = "none" => queue[su] = Empty(Prio)

Inv ==
    /\ TypeOK
    /\ Lists
    /\ OnlyLiveReached
    /\ SectionReady
    /\ QueuesReady
    /\ EmptyWhenPushed
    /\ ClaimsHonoured
    /\ RefsAccounted

(***************************************************************************)
(* Lists that lose or gain one element                                     *)
(***************************************************************************)

\* Deleting one element: the others stay, in their order.
LEMMA RemoveAtProperties ==
    ASSUME NEW M, NEW s \in Seq(M), NEW k \in 1..Len(s)
    PROVE  /\ RemoveAt(s, k) \in Seq(M)
           /\ Len(RemoveAt(s, k)) = Len(s) - 1
           /\ \A i \in 1..(Len(s) - 1) : RemoveAt(s, k)[i] = IF i < k THEN s[i] ELSE s[i + 1]
  <1> DEFINE a == SubSeq(s, 1, k - 1)
             b == SubSeq(s, k + 1, Len(s))
  <1>1. Len(s) \in Nat \ {0} /\ k \in Nat \ {0} /\ k <= Len(s) /\ \A i \in 1..Len(s) : s[i] \in M
    OBVIOUS
  <1>2. /\ a \in Seq(M) /\ Len(a) = k - 1
        /\ \A i \in 1..(k - 1) : a[i] = s[i]
    <2>1. \A i \in 1..(k - 1) : s[i] \in M
      BY <1>1
    <2> QED
      BY <1>1, <2>1, SubSeqProperties
  <1>3. /\ b \in Seq(M) /\ Len(b) = Len(s) - k
        /\ \A i \in 1..(Len(s) - k) : b[i] = s[k + i]
    <2>1. \A i \in (k + 1)..Len(s) : s[i] \in M
      BY <1>1
    <2>2. /\ SubSeq(s, k + 1, Len(s)) \in Seq(M)
          /\ Len(SubSeq(s, k + 1, Len(s))) = IF k + 1 <= Len(s) THEN Len(s) - (k + 1) + 1 ELSE 0
          /\ \A i \in 1..(Len(s) - (k + 1) + 1) : SubSeq(s, k + 1, Len(s))[i] = s[k + 1 + i - 1]
      BY <1>1, <2>1, SubSeqProperties
    <2>3. ASSUME NEW i \in 1..(Len(s) - k) PROVE b[i] = s[k + i]
      <3>1. i \in 1..(Len(s) - (k + 1) + 1) /\ k + 1 + i - 1 = k + i
        BY <1>1
      <3> QED
        BY <2>2, <3>1
    <2>4. Len(b) = Len(s) - k
      BY <1>1, <2>2
    <2> QED
      BY <2>2, <2>3, <2>4
  <1> HIDE DEF a, b
  <1>4. /\ a \o b \in Seq(M) /\ Len(a \o b) = Len(a) + Len(b)
        /\ \A i \in 1..(Len(a) + Len(b)) : (a \o b)[i] = IF i <= Len(a) THEN a[i] ELSE b[i - Len(a)]
    BY <1>2, <1>3, ConcatProperties
  <1>5. RemoveAt(s, k) = a \o b
    BY DEF RemoveAt, a, b
  <1>6. ASSUME NEW i \in 1..(Len(s) - 1)
        PROVE  (a \o b)[i] = IF i < k THEN s[i] ELSE s[i + 1]
    <2>1. i \in 1..(Len(a) + Len(b))
      BY <1>1, <1>2, <1>3
    <2>2. CASE i < k
      BY <1>1, <1>2, <1>4, <2>1, <2>2
    <2>3. CASE ~(i < k)
      <3>1. PICK j \in 1..(Len(s) - k) : j = i - Len(a)
        BY <1>1, <1>2, <2>3
      <3>2. k + j = i + 1 /\ ~(i <= Len(a))
        BY <1>1, <1>2, <2>3, <3>1
      <3>3. (a \o b)[i] = b[j]
        BY <1>4, <2>1, <3>1, <3>2
      <3>4. b[j] = s[i + 1]
        BY <1>3, <3>2
      <3> QED
        BY <2>3, <3>3, <3>4
    <2> QED
      BY <2>2, <2>3
  <1>7. Len(a \o b) = Len(s) - 1
    BY <1>1, <1>2, <1>3, <1>4
  <1> QED
    BY <1>4, <1>5, <1>6, <1>7

\* List c has the elements of s but the one at k.
Cut(c, s, k) ==
    /\ \A i \in 1..Len(c) : \E j \in 1..Len(s) : j # k /\ c[i] = s[j]
    /\ \A j \in 1..Len(s) : j # k => \E i \in 1..Len(c) : c[i] = s[j]
    /\ \A i, h \in 1..Len(c) : i # h =>
          \E j, l \in 1..Len(s) : j # l /\ c[i] = s[j] /\ c[h] = s[l]

LEMMA RemoveAtElements ==
    ASSUME NEW M, NEW s \in Seq(M), NEW k \in 1..Len(s)
    PROVE  RemoveAt(s, k) \in Seq(M) /\ Cut(RemoveAt(s, k), s, k)
  <1> DEFINE c == RemoveAt(s, k)
  <1>0. Len(s) \in Nat \ {0}
    OBVIOUS
  <1>1. /\ c \in Seq(M) /\ Len(c) = Len(s) - 1
        /\ \A i \in 1..(Len(s) - 1) : c[i] = IF i < k THEN s[i] ELSE s[i + 1]
    BY RemoveAtProperties
  <1> HIDE DEF c
  <1> DEFINE at(i) == IF i < k THEN i ELSE i + 1
  <1>2. \A i \in 1..Len(c) : at(i) \in 1..Len(s) /\ at(i) # k /\ c[i] = s[at(i)]
    BY <1>0, <1>1
  <1>3. \A i, h \in 1..Len(c) : i # h => at(i) # at(h)
    BY <1>0, <1>1
  <1>4. \A j \in 1..Len(s) : j # k => \E i \in 1..Len(c) : at(i) = j
    <2> SUFFICES ASSUME NEW j \in 1..Len(s), j # k PROVE \E i \in 1..Len(c) : at(i) = j
      OBVIOUS
    <2>1. CASE j < k
      <3>1. j \in 1..Len(c) /\ at(j) = j
        BY <1>0, <1>1, <2>1
      <3> QED
        BY <3>1
    <2>2. CASE j > k
      <3>1. j - 1 \in 1..Len(c) /\ at(j - 1) = j
        BY <1>0, <1>1, <2>2
      <3> QED
        BY <3>1
    <2> QED
      BY <1>1, <2>1, <2>2
  <1> HIDE DEF at
  <1>5. \A i, h \in 1..Len(c) : i # h =>
          \E j, l \in 1..Len(s) : j # l /\ c[i] = s[j] /\ c[h] = s[l]
    <2> TAKE i, h \in 1..Len(c)
    <2> HAVE i # h
    <2>1. /\ at(i) \in 1..Len(s) /\ at(h) \in 1..Len(s)
          /\ at(i) # at(h) /\ c[i] = s[at(i)] /\ c[h] = s[at(h)]
      BY <1>2, <1>3
    <2> QED
      BY <2>1
  <1>6. \A i \in 1..Len(c) : \E j \in 1..Len(s) : j # k /\ c[i] = s[j]
    BY <1>2
  <1>7. \A j \in 1..Len(s) : j # k => \E i \in 1..Len(c) : c[i] = s[j]
    BY <1>2, <1>4
  <1> QED
    BY <1>1, <1>5, <1>6, <1>7 DEF Cut, c

\* The library picks the least index that fits; here only one does.
LEMMA OnlyIndex ==
    ASSUME NEW k \in Int
    PROVE  Min({k}) = k
  BY DEF Min

\* List c has the entries of s but that of su.
WithoutEntry(c, s, su) ==
    /\ c \in Seq(Entry)
    /\ NoneTwice(c)
    /\ \A v : Enlisted(c, v) <=> v # su /\ Enlisted(s, v)
    /\ \A i \in 1..Len(c) : \E j \in 1..Len(s) : c[i] = s[j]

\* What DL_SEARCH_SCALAR and DL_DELETE leave of a list of subscribers in which
\* nobody is twice.
LEMMA EntryDeleted ==
    ASSUME NEW s \in Seq(Entry), NEW su, NoneTwice(s), Enlisted(s, su)
    PROVE  WithoutEntry(RemoveFirstMatch(s, LAMBDA e : e.su = su), s, su)
  <1>1. PICK k \in 1..Len(s) : s[k].su = su
    BY DEF Enlisted
  <1>2. {i \in 1..Len(s) : s[i].su = su} = {k}
    BY <1>1 DEF NoneTwice
  <1> DEFINE c == RemoveFirstMatch(s, LAMBDA e : e.su = su)
  <1>3. c = RemoveAt(s, k)
    <2>1. Min({k}) = k /\ {k} # {}
      BY OnlyIndex
    <2>2. c = RemoveAt(s, SelectInSeq(s, LAMBDA e : e.su = su))
      BY <1>1 DEF RemoveFirstMatch
    <2>3. SelectInSeq(s, LAMBDA e : e.su = su) = k
      BY <1>2, <2>1 DEF SelectInSeq
    <2> QED
      BY <2>2, <2>3
  <1> HIDE DEF c
  <1>4. c \in Seq(Entry) /\ Cut(c, s, k)
    BY <1>3, RemoveAtElements
  <1>5. ASSUME NEW i \in 1..Len(c), NEW h \in 1..Len(c), c[i].su = c[h].su PROVE i = h
    <2>1. SUFFICES ASSUME i # h PROVE FALSE
      OBVIOUS
    <2>2. PICK j, l \in 1..Len(s) : j # l /\ c[i] = s[j] /\ c[h] = s[l]
      BY <1>4, <2>1 DEF Cut
    <2>3. s[j].su = s[l].su
      BY <1>5, <2>2
    <2> QED
      BY <2>2, <2>3 DEF NoneTwice
  <1>6. ASSUME NEW i \in 1..Len(c) PROVE c[i].su # su /\ \E j \in 1..Len(s) : c[i] = s[j]
    <2>1. PICK j \in 1..Len(s) : j # k /\ c[i] = s[j]
      BY <1>4 DEF Cut
    <2>2. s[j].su # s[k].su
      BY <2>1 DEF NoneTwice
    <2> QED
      BY <1>1, <2>1, <2>2
  <1>7. \A j \in 1..Len(s) : s[j].su # su => \E i \in 1..Len(c) : c[i] = s[j]
    BY <1>1, <1>4 DEF Cut
  <1>8. ASSUME NEW v PROVE Enlisted(c, v) <=> v # su /\ Enlisted(s, v)
    <2>1. ASSUME Enlisted(c, v) PROVE v # su /\ Enlisted(s, v)
      BY <1>6, <2>1 DEF Enlisted
    <2>2. ASSUME v # su, Enlisted(s, v) PROVE Enlisted(c, v)
      BY <1>7, <2>2 DEF Enlisted
    <2> QED
      BY <2>1, <2>2
  <1> QED
    BY <1>4, <1>5, <1>6, <1>8 DEF WithoutEntry, NoneTwice, c

\* List c has the topics of s but t.
WithoutTopic(c, s, t) ==
    /\ c \in Seq(Topic)
    /\ AllDifferent(c)
    /\ \A u : Contains(c, u) <=> u # t /\ Contains(s, u)

\* The same for a subscriber's list of topics.
LEMMA TopicDeleted ==
    ASSUME NEW s \in Seq(Topic), NEW t, AllDifferent(s), Contains(s, t)
    PROVE  WithoutTopic(RemoveFirst(s, t), s, t)
  <1>1. PICK k \in 1..Len(s) : s[k] = t
    BY DEF Contains
  <1>2. {i \in 1..Len(s) : s[i] = t} = {k}
    BY <1>1 DEF AllDifferent
  <1> DEFINE c == RemoveFirst(s, t)
  <1>3. c = RemoveAt(s, k)
    <2>1. Min({k}) = k /\ {k} # {}
      BY OnlyIndex
    <2>2. c = RemoveAt(s, SelectInSeq(s, LAMBDA v : v = t))
      BY <1>1 DEF RemoveFirst
    <2>3. SelectInSeq(s, LAMBDA v : v = t) = k
      BY <1>2, <2>1 DEF SelectInSeq
    <2> QED
      BY <2>2, <2>3
  <1> HIDE DEF c
  <1>4. c \in Seq(Topic) /\ Cut(c, s, k)
    BY <1>3, RemoveAtElements
  <1>5. ASSUME NEW i \in 1..Len(c), NEW h \in 1..Len(c), c[i] = c[h] PROVE i = h
    <2>1. SUFFICES ASSUME i # h PROVE FALSE
      OBVIOUS
    <2>2. PICK j, l \in 1..Len(s) : j # l /\ c[i] = s[j] /\ c[h] = s[l]
      BY <1>4, <2>1 DEF Cut
    <2> QED
      BY <1>5, <2>2 DEF AllDifferent
  <1>6. ASSUME NEW u PROVE Contains(c, u) <=> u # t /\ Contains(s, u)
    <2>1. ASSUME Contains(c, u) PROVE u # t /\ Contains(s, u)
      <3>1. PICK i \in 1..Len(c) : c[i] = u
        BY <2>1 DEF Contains
      <3>2. PICK j \in 1..Len(s) : j # k /\ c[i] = s[j]
        BY <1>4 DEF Cut
      <3> QED
        BY <1>1, <3>1, <3>2 DEF Contains, AllDifferent
    <2>2. ASSUME u # t, Contains(s, u) PROVE Contains(c, u)
      BY <1>1, <1>4, <2>2 DEF Contains, Cut
    <2> QED
      BY <2>1, <2>2
  <1> QED
    BY <1>4, <1>5, <1>6 DEF WithoutTopic, AllDifferent, c

\* A list that gains one element at its end.
LEMMA Appended ==
    ASSUME NEW M, NEW s \in Seq(M), NEW e \in M, NEW c, c = Append(s, e)
    PROVE  /\ c \in Seq(M) /\ c # <<>>
           /\ Len(c) = Len(s) + 1 /\ Len(s) \in Nat
           /\ \A i \in 1..Len(c) : c[i] = e \/ (i \in 1..Len(s) /\ c[i] = s[i])
           /\ \A i \in 1..Len(s) : i \in 1..Len(c) /\ c[i] = s[i]
           /\ Len(c) \in 1..Len(c) /\ c[Len(c)] = e /\ Len(c) \notin 1..Len(s)
           /\ \A i \in 1..Len(c) : i \in 1..Len(s) \/ i = Len(c)
  <1>1. /\ c \in Seq(M) /\ c # <<>> /\ Len(c) = Len(s) + 1 /\ Len(s) \in Nat
        /\ \A i \in 1..Len(s) : c[i] = s[i]
        /\ c[Len(s) + 1] = e
    BY AppendProperties
  <1>2. /\ \A i \in 1..Len(c) : i \in 1..Len(s) \/ i = Len(c)
        /\ \A i \in 1..Len(s) : i \in 1..Len(c)
        /\ Len(c) \in 1..Len(c) /\ Len(c) \notin 1..Len(s)
    BY <1>1
  <1> QED
    BY <1>1, <1>2

(***************************************************************************)
(* The topic map and the two kinds of list                                 *)
(***************************************************************************)

LEMMA RangeOf ==
    ASSUME NEW M, NEW s \in Seq(M)
    PROVE  \A x : x \in Range(s) <=> \E i \in 1..Len(s) : s[i] = x
  BY DEF Range

LEMMA SubscribersOf ==
    ASSUME TypeOK, NEW t \in Topic
    PROVE  \A su : su \in Subscribers(t) <=> Enlisted(subscribers[t], su)
  <1>1. subscribers[t] \in Seq(Entry)
    BY DEF TypeOK
  <1> QED
    BY <1>1, RangeOf DEF Subscribers, Enlisted

ListsType ==
    /\ topics \subseteq Topic
    /\ subscribers \in [Topic -> Seq(Entry)]
    /\ sticky \in [Topic -> Msg \cup {NoMsg}]
    /\ subs \in [Sub -> Seq(Topic)]

LEMMA ListsStay ==
    ASSUME Lists, ListsType, UNCHANGED <<topics, subscribers, sticky, subs>>
    PROVE  Lists' /\ ListsType'
  BY DEF Lists, ListsType, ListsDistinct, ListsMirror, TopicsInUse, Used

\* Only the topics and the sticky messages change, and the topics are again those
\* in use.
LEMMA ListsStickies ==
    ASSUME Lists, ListsType, UNCHANGED <<subscribers, subs>>,
           sticky' \in [Topic -> Msg \cup {NoMsg}],
           topics' \subseteq Topic,
           \A t \in Topic : t \in topics' <=> Used(t, subscribers, sticky')
    PROVE  Lists' /\ ListsType'
  BY DEF Lists, ListsType, ListsDistinct, ListsMirror, TopicsInUse

LEMMA SubscribeLists ==
    ASSUME TypeOK, Lists, NEW su \in Sub, NEW t \in Topic, NEW f \in SubFlags,
           Subscribe(su, t, f)
    PROVE  /\ Lists' /\ ListsType'
           /\ \A u \in Topic : \A i \in 1..Len(subscribers'[u]) :
                 \/ subscribers'[u][i].su = su
                 \/ \E j \in 1..Len(subscribers[u]) : subscribers'[u][i] = subscribers[u][j]
  <1> DEFINE e == [su |-> su, hidden |-> f.hidden, on_empty |-> f.on_empty,
                   priority |-> f.priority]
             c == Append(subscribers[t], e)
             d == Append(subs[su], t)
  <1>1. /\ ListsType
        /\ topics' = topics \cup {t} /\ UNCHANGED sticky
        /\ subscribers' = [subscribers EXCEPT ![t] = c]
        /\ subs' = [subs EXCEPT ![su] = d]
        /\ subscribers[t] \in Seq(Entry) /\ subs[su] \in Seq(Topic)
        /\ \A i \in 1..Len(subscribers[t]) : subscribers[t][i].su # su
    BY SubscribersOf DEF TypeOK, ListsType, Subscribe, Enlisted
  <1>2. e \in Entry /\ e.su = su
    BY PubSubAssumption DEF Entry, Flags
  <1>3. /\ c \in Seq(Entry) /\ c # <<>>
        /\ \A i \in 1..Len(c) : c[i] = e \/ (i \in 1..Len(subscribers[t]) /\ c[i] = subscribers[t][i])
        /\ \A i \in 1..Len(subscribers[t]) : i \in 1..Len(c) /\ c[i] = subscribers[t][i]
        /\ Len(c) \in 1..Len(c) /\ c[Len(c)] = e
        /\ \A i \in 1..Len(c) : i \in 1..Len(subscribers[t]) \/ i = Len(c)
    <2> HIDE DEF e
    <2> QED
      BY <1>1, <1>2, Appended
  <1>4. /\ d \in Seq(Topic)
        /\ \A i \in 1..Len(d) : d[i] = t \/ (i \in 1..Len(subs[su]) /\ d[i] = subs[su][i])
        /\ \A i \in 1..Len(subs[su]) : i \in 1..Len(d) /\ d[i] = subs[su][i]
        /\ Len(d) \in 1..Len(d) /\ d[Len(d)] = t
        /\ \A i \in 1..Len(d) : i \in 1..Len(subs[su]) \/ i = Len(d)
    BY <1>1, Appended
  <1> HIDE DEF c, d, e
  <1>5. \A i \in 1..Len(subs[su]) : subs[su][i] # t
    BY <1>1 DEF Lists, ListsMirror, Enlisted, Contains
  <1>6. /\ subscribers'[t] = c /\ \A u \in Topic \ {t} : subscribers'[u] = subscribers[u]
        /\ subs'[su] = d /\ \A v \in Sub \ {su} : subs'[v] = subs[v]
    BY <1>1 DEF ListsType
  <1>7. ListsType'
    BY <1>1, <1>3, <1>4 DEF ListsType
  <1>8. ListsDistinct'
    <2>1. ASSUME NEW i \in 1..Len(c), NEW j \in 1..Len(c), c[i].su = c[j].su PROVE i = j
      <3>1. \A k \in 1..Len(subscribers[t]) : c[k].su # su
        BY <1>1, <1>3
      <3>2. c[Len(c)].su = su
        BY <1>2, <1>3
      <3>3. CASE i \in 1..Len(subscribers[t]) /\ j \in 1..Len(subscribers[t])
        BY <1>3, <2>1, <3>3 DEF Lists, ListsDistinct, NoneTwice
      <3>4. CASE i = Len(c) /\ j = Len(c)
        BY <3>4
      <3> QED
        BY <1>3, <2>1, <3>1, <3>2, <3>3, <3>4
    <2>2. \A i, j \in 1..Len(d) : d[i] = d[j] => i = j
      BY <1>4, <1>5 DEF Lists, ListsDistinct, AllDifferent
    <2> QED
      BY <1>6, <2>1, <2>2 DEF Lists, ListsDistinct, NoneTwice, AllDifferent
  <1>9. ListsMirror'
    <2>1. ASSUME NEW v \in Sub, NEW u \in Topic
          PROVE  Enlisted(subscribers'[u], v) <=> Contains(subs'[v], u)
      <3>1. Enlisted(subscribers[u], v) <=> Contains(subs[v], u)
        BY DEF Lists, ListsMirror
      <3>2. Enlisted(subscribers'[u], v) <=> (u = t /\ v = su) \/ Enlisted(subscribers[u], v)
        <4>1. CASE u = t
          BY <1>2, <1>3, <1>6, <4>1 DEF Enlisted
        <4>2. CASE u # t
          BY <1>6, <4>2
        <4> QED
          BY <4>1, <4>2
      <3>3. Contains(subs'[v], u) <=> (u = t /\ v = su) \/ Contains(subs[v], u)
        <4>1. CASE v = su
          BY <1>4, <1>6, <4>1 DEF Contains
        <4>2. CASE v # su
          BY <1>6, <4>2
        <4> QED
          BY <4>1, <4>2
      <3> QED
        BY <3>1, <3>2, <3>3
    <2> QED
      BY <2>1 DEF ListsMirror
  <1>10. TopicsInUse'
    BY <1>1, <1>3, <1>6 DEF Lists, TopicsInUse, Used
  <1>11. \A u \in Topic : \A i \in 1..Len(subscribers'[u]) :
            \/ subscribers'[u][i].su = su
            \/ \E j \in 1..Len(subscribers[u]) : subscribers'[u][i] = subscribers[u][j]
    BY <1>2, <1>3, <1>6
  <1> QED
    BY <1>7, <1>8, <1>9, <1>10, <1>11 DEF Lists

\* The list of a topic without the entry of su.
LEMMA WithoutDeleted ==
    ASSUME TypeOK, Lists, NEW su, NEW t \in Topic, Enlisted(subscribers[t], su)
    PROVE  WithoutEntry(Without(su, t), subscribers[t], su)
  BY EntryDeleted DEF TypeOK, Lists, ListsDistinct, Without

LEMMA NotInList ==
    ASSUME TypeOK, Lists, NEW su, NEW t \in Topic, ~Enlisted(subscribers[t], su)
    PROVE  WithoutEntry(subscribers[t], subscribers[t], su)
  BY DEF TypeOK, Lists, ListsDistinct, WithoutEntry, Enlisted

LEMMA UnsubscribeLists ==
    ASSUME TypeOK, Lists, NEW su \in Sub, NEW t \in Topic, Unsubscribe(su, t)
    PROVE  /\ Lists' /\ ListsType'
           /\ \A u \in Topic : \A i \in 1..Len(subscribers'[u]) :
                 \E j \in 1..Len(subscribers[u]) : subscribers'[u][i] = subscribers[u][j]
  <1> DEFINE c == Without(su, t)
             d == RemoveFirst(subs[su], t)
  <1>1. /\ ListsType /\ UNCHANGED sticky
        /\ subscribers' = [subscribers EXCEPT ![t] = c]
        /\ topics' = {u \in topics : u = t => Used(t, subscribers', sticky)}
        /\ subs' = [subs EXCEPT ![su] = d]
        /\ Enlisted(subscribers[t], su)
    BY SubscribersOf DEF TypeOK, ListsType, Unsubscribe
  <1>2. WithoutEntry(c, subscribers[t], su)
    BY <1>1, WithoutDeleted
  <1>3. WithoutTopic(d, subs[su], t)
    BY <1>1, TopicDeleted DEF Lists, ListsMirror, ListsDistinct, ListsType
  <1> HIDE DEF c, d
  <1>4. /\ subscribers'[t] = c /\ \A u \in Topic \ {t} : subscribers'[u] = subscribers[u]
        /\ subs'[su] = d /\ \A v \in Sub \ {su} : subs'[v] = subs[v]
    BY <1>1 DEF ListsType
  <1>5. ListsType'
    BY <1>1, <1>2, <1>3 DEF ListsType, WithoutEntry, WithoutTopic
  <1>6. ListsDistinct'
    BY <1>2, <1>3, <1>4 DEF Lists, ListsDistinct, WithoutEntry, WithoutTopic
  <1>7. ListsMirror'
    <2>1. ASSUME NEW v \in Sub, NEW u \in Topic
          PROVE  Enlisted(subscribers'[u], v) <=> Contains(subs'[v], u)
      <3>1. Enlisted(subscribers[u], v) <=> Contains(subs[v], u)
        BY DEF Lists, ListsMirror
      <3>2. Enlisted(subscribers'[u], v) <=> ~(u = t /\ v = su) /\ Enlisted(subscribers[u], v)
        BY <1>2, <1>4 DEF WithoutEntry
      <3>3. Contains(subs'[v], u) <=> ~(u = t /\ v = su) /\ Contains(subs[v], u)
        BY <1>3, <1>4 DEF WithoutTopic
      <3> QED
        BY <3>1, <3>2, <3>3
    <2> QED
      BY <2>1 DEF ListsMirror
  <1>8. TopicsInUse'
    <2>1. t \in topics
      BY <1>1 DEF Lists, TopicsInUse, Used, ListsType, Enlisted
    <2> QED
      BY <1>1, <1>4, <2>1 DEF Lists, TopicsInUse, Used
  <1>9. \A u \in Topic : \A i \in 1..Len(subscribers'[u]) :
            \E j \in 1..Len(subscribers[u]) : subscribers'[u][i] = subscribers[u][j]
    BY <1>2, <1>4 DEF WithoutEntry
  <1> QED
    BY <1>5, <1>6, <1>7, <1>8, <1>9 DEF Lists

\* A subscriber's own list has the topics that have an entry of it.
LEMMA ListedTopics ==
    ASSUME TypeOK, Lists, NEW su \in Sub
    PROVE  \A t \in Topic : t \in Range(subs[su]) <=> Enlisted(subscribers[t], su)
  <1> TAKE t \in Topic
  <1>1. subs[su] \in Seq(Topic)
    BY DEF TypeOK
  <1>2. t \in Range(subs[su]) <=> \E i \in 1..Len(subs[su]) : subs[su][i] = t
    BY <1>1, RangeOf
  <1>3. Enlisted(subscribers[t], su) <=> Contains(subs[su], t)
    BY DEF Lists, ListsMirror
  <1> QED
    BY <1>2, <1>3 DEF Contains

LEMMA DropAllLists ==
    ASSUME TypeOK, Lists, NEW su \in Sub, DropAll(su), UNCHANGED sticky
    PROVE  /\ Lists' /\ ListsType'
           /\ \A u \in Topic : \A i \in 1..Len(subscribers'[u]) :
                 /\ subscribers'[u][i].su # su
                 /\ \E j \in 1..Len(subscribers[u]) : subscribers'[u][i] = subscribers[u][j]
  <1>1. /\ ListsType
        /\ subscribers' = [t \in Topic |->
              IF t \in Range(subs[su]) THEN Without(su, t) ELSE subscribers[t]]
        /\ topics' = {t \in topics : t \in Range(subs[su]) => Used(t, subscribers', sticky)}
        /\ subs' = [subs EXCEPT ![su] = <<>>]
        /\ subs[su] \in Seq(Topic)
    BY DEF TypeOK, ListsType, DropAll
  <1>2. \A t \in Topic : t \in Range(subs[su]) <=> Enlisted(subscribers[t], su)
    BY ListedTopics
  <1>3. \A t \in Topic : WithoutEntry(subscribers'[t], subscribers[t], su)
    <2> TAKE t \in Topic
    <2>1. CASE t \in Range(subs[su])
      BY <1>1, <1>2, <2>1, WithoutDeleted
    <2>2. CASE t \notin Range(subs[su])
      BY <1>1, <1>2, <2>2, NotInList
    <2> QED
      BY <2>1, <2>2
  <1>4. /\ \A u : ~Contains(subs'[su], u)
        /\ \A v \in Sub \ {su} : subs'[v] = subs[v]
        /\ AllDifferent(subs'[su])
        /\ DOMAIN subscribers' = Topic
    BY <1>1 DEF ListsType, Contains, AllDifferent
  <1>5. ListsType'
    <2>1. subscribers' \in [Topic -> Seq(Entry)]
      BY <1>1, <1>3 DEF WithoutEntry
    <2> QED
      BY <1>1, <2>1 DEF ListsType
  <1>6. ListsDistinct'
    BY <1>3, <1>4 DEF Lists, ListsDistinct, WithoutEntry
  <1>7. ListsMirror'
    <2>1. ASSUME NEW v \in Sub, NEW u \in Topic
          PROVE  Enlisted(subscribers'[u], v) <=> Contains(subs'[v], u)
      <3>1. Enlisted(subscribers[u], v) <=> Contains(subs[v], u)
        BY DEF Lists, ListsMirror
      <3>2. Enlisted(subscribers'[u], v) <=> v # su /\ Enlisted(subscribers[u], v)
        BY <1>3 DEF WithoutEntry
      <3> QED
        BY <1>4, <3>1, <3>2
    <2> QED
      BY <2>1 DEF ListsMirror
  <1>8. TopicsInUse'
    <2>1. ASSUME NEW t \in Topic
          PROVE  t \in topics' <=> Used(t, subscribers', sticky)
      <3>1. t \in topics <=> Used(t, subscribers, sticky)
        BY DEF Lists, TopicsInUse
      <3>2. CASE t \in Range(subs[su])
        <4>1. subscribers[t] # <<>>
          BY <1>1, <1>2, <3>2 DEF ListsType, Enlisted
        <4> QED
          BY <1>1, <3>1, <3>2, <4>1 DEF Used
      <3>3. CASE t \notin Range(subs[su])
        BY <1>1, <3>1, <3>3 DEF Used
      <3> QED
        BY <3>2, <3>3
    <2> QED
      BY <2>1 DEF TopicsInUse
  <1>9. \A u \in Topic : \A i \in 1..Len(subscribers'[u]) :
           /\ subscribers'[u][i].su # su
           /\ \E j \in 1..Len(subscribers[u]) : subscribers'[u][i] = subscribers[u][j]
    BY <1>3 DEF WithoutEntry, Enlisted
  <1> QED
    BY <1>5, <1>6, <1>7, <1>8, <1>9 DEF Lists

(***************************************************************************)
(* Counting pointers                                                       *)
(***************************************************************************)

\* The pointers to message m from the queues of a set of subscribers.
HeldBy(q, S, m) == UNION {{su} \X Holding(q[su], m) : su \in S}

\* Queues of the right type with finitely many messages.
ProperQueues(q) ==
    /\ q \in [Sub -> [Prio -> Seq(Msg)]]
    /\ \A su \in Sub : IsFiniteSet(Slots(q[su]))

\* There are finitely many pointers from queues.
LEMMA HeldByFinite ==
    ASSUME NEW q, ProperQueues(q), NEW S \in SUBSET Sub, NEW m
    PROVE  IsFiniteSet(HeldBy(q, S, m)) /\ Cardinality(HeldBy(q, S, m)) \in Nat
  <1> DEFINE pairs == [su \in S |-> {su} \X Holding(q[su], m)]
             U == {{su} \X Holding(q[su], m) : su \in S}
  <1>1. IsFiniteSet(S)
    BY PubSubAssumption, FS_Subset
  <1>2. pairs \in Surjection(S, U)
    BY DEF Surjection
  <1>3. IsFiniteSet(U)
    <2> HIDE DEF pairs, U
    <2> QED
      BY <1>1, <1>2, FS_Surjection
  <1>4. ASSUME NEW T \in U PROVE IsFiniteSet(T)
    <2>1. PICK su \in S : T = {su} \X Holding(q[su], m)
      OBVIOUS
    <2>2. IsFiniteSet(Holding(q[su], m))
      BY HoldsFinite DEF ProperQueues
    <2>3. IsFiniteSet({su})
      BY FS_Singleton
    <2> QED
      BY <2>1, <2>2, <2>3, FS_Product
  <1> HIDE DEF U
  <1>5. IsFiniteSet(UNION U)
    BY <1>3, <1>4, FS_UNION
  <1> QED
    BY <1>5, FS_CardinalityType DEF HeldBy, U

\* The pointers from one queue and those from the others.
LEMMA HeldBySplit ==
    ASSUME NEW q, ProperQueues(q), NEW su \in Sub, NEW m
    PROVE  Cardinality(HeldBy(q, Sub, m)) =
             Cardinality(HeldBy(q, Sub \ {su}, m)) + Cardinality(Holding(q[su], m))
  <1> DEFINE H == Holding(q[su], m)
             A == HeldBy(q, Sub \ {su}, m)
             B == {su} \X H
  <1>1. HeldBy(q, Sub, m) = A \cup B
    BY DEF HeldBy
  <1>2. A \cap B = {}
    BY DEF HeldBy
  <1>3. IsFiniteSet(A) /\ Cardinality(A) \in Nat
    BY HeldByFinite
  <1>4. IsFiniteSet(H) /\ Cardinality(H) \in Nat
    BY HoldsFinite DEF ProperQueues
  <1> HIDE DEF H, A
  <1>5. IsFiniteSet(B) /\ Cardinality(B) = Cardinality(H)
    <2> DEFINE pair == [s \in H |-> <<su, s>>]
    <2>1. pair \in Bijection(H, B)
      BY DEF Bijection, Injection, Surjection, IsInjective
    <2> HIDE DEF pair
    <2>2. ExistsBijection(H, B)
      BY <2>1 DEF ExistsBijection
    <2> QED
      BY <1>4, <2>2, FS_Bijection
  <1> HIDE DEF B
  <1>6. Cardinality(A \cup B) = Cardinality(A) + Cardinality(B) - Cardinality(A \cap B)
    BY <1>3, <1>5, FS_Union
  <1>7. Cardinality(A \cap B) = 0
    BY <1>2, FS_EmptySet
  <1> QED
    BY <1>1, <1>3, <1>4, <1>5, <1>6, <1>7 DEF A, H

\* One queue changes: so many pointers more, or less, as it holds itself.
LEMMA HeldByChanges ==
    ASSUME NEW q, ProperQueues(q), NEW r, ProperQueues(r), NEW su \in Sub, NEW m,
           \A v \in Sub \ {su} : r[v] = q[v]
    PROVE  /\ Cardinality(HeldBy(q, Sub, m)) \in Nat
           /\ Cardinality(HeldBy(r, Sub, m)) \in Nat
           /\ Cardinality(Holding(q[su], m)) \in Nat
           /\ Cardinality(Holding(r[su], m)) \in Nat
           /\ Cardinality(HeldBy(r, Sub, m)) - Cardinality(HeldBy(q, Sub, m)) =
                Cardinality(Holding(r[su], m)) - Cardinality(Holding(q[su], m))
  <1>1. HeldBy(r, Sub \ {su}, m) = HeldBy(q, Sub \ {su}, m)
    BY DEF HeldBy
  <1>2. /\ Cardinality(HeldBy(q, Sub \ {su}, m)) \in Nat
        /\ Cardinality(HeldBy(q, Sub, m)) \in Nat
        /\ Cardinality(HeldBy(r, Sub, m)) \in Nat
    BY HeldByFinite
  <1>3. Cardinality(Holding(q[su], m)) \in Nat /\ Cardinality(Holding(r[su], m)) \in Nat
    BY HoldsFinite DEF ProperQueues
  <1>4. /\ Cardinality(HeldBy(q, Sub, m)) =
             Cardinality(HeldBy(q, Sub \ {su}, m)) + Cardinality(Holding(q[su], m))
        /\ Cardinality(HeldBy(r, Sub, m)) =
             Cardinality(HeldBy(r, Sub \ {su}, m)) + Cardinality(Holding(r[su], m))
    BY HeldBySplit
  <1> QED
    BY <1>1, <1>2, <1>3, <1>4

\* The topics whose sticky message is m.
StickyAt(st, m) == {t \in Topic : st[t] = m}

LEMMA StickyAtFinite ==
    ASSUME NEW st, NEW m
    PROVE  IsFiniteSet(StickyAt(st, m)) /\ Cardinality(StickyAt(st, m)) \in Nat
  BY PubSubAssumption, FS_Subset, FS_CardinalityType DEF StickyAt

\* From old to new, one topic has got the sticky message x instead of y.
StickyMoved(new, old, x, y, m) ==
    Cardinality(StickyAt(new, m)) = Cardinality(StickyAt(old, m)) + (IF m = x THEN 1 ELSE 0)
                                                                  - (IF m = y THEN 1 ELSE 0)

LEMMA StickyChanges ==
    ASSUME NEW st \in [Topic -> Msg \cup {NoMsg}], NEW t \in Topic,
           NEW x \in Msg \cup {NoMsg}, NEW m \in Msg
    PROVE  StickyMoved([st EXCEPT ![t] = x], st, x, st[t], m)
  <1> DEFINE new == StickyAt([st EXCEPT ![t] = x], m)
             old == StickyAt(st, m)
  <1>1. IsFiniteSet(old) /\ Cardinality(old) \in Nat /\ IsFiniteSet(new) /\ Cardinality(new) \in Nat
    BY StickyAtFinite
  <1>2. t \in old <=> m = st[t]
    BY DEF StickyAt
  <1>3. m = x => new = old \cup {t}
    BY DEF StickyAt
  <1>4. m # x => new = old \ {t}
    BY DEF StickyAt
  <1> HIDE DEF old, new
  <1>5. /\ Cardinality(old \cup {t}) = IF t \in old THEN Cardinality(old) ELSE Cardinality(old) + 1
        /\ Cardinality(old \ {t}) = IF t \in old THEN Cardinality(old) - 1 ELSE Cardinality(old)
    BY <1>1, FS_AddElement, FS_RemoveElement
  <1>6. Cardinality(new) = Cardinality(old) + (IF m = x THEN 1 ELSE 0)
                                            - (IF m = st[t] THEN 1 ELSE 0)
    <2>1. CASE m = x
      <3>1. Cardinality(new) = IF t \in old THEN Cardinality(old) ELSE Cardinality(old) + 1
        BY <1>3, <1>5, <2>1
      <3> QED
        BY <1>1, <1>2, <2>1, <3>1
    <2>2. CASE m # x
      <3>1. Cardinality(new) = IF t \in old THEN Cardinality(old) - 1 ELSE Cardinality(old)
        BY <1>4, <1>5, <2>2
      <3> QED
        BY <1>1, <1>2, <2>2, <3>1
    <2> QED
      BY <2>1, <2>2
  <1> QED
    BY <1>6 DEF old, new, StickyMoved

\* The sticky messages of several topics go.
LEMMA StickyCleaned ==
    ASSUME NEW st \in [Topic -> Msg \cup {NoMsg}], NEW C \in SUBSET Topic, NEW m \in Msg
    PROVE  /\ Cardinality(StickyAt([t \in Topic |-> IF t \in C THEN NoMsg ELSE st[t]], m)) =
                Cardinality(StickyAt(st, m)) - Cardinality({t \in C : st[t] = m})
           /\ Cardinality({t \in C : st[t] = m}) \in Nat
  <1> DEFINE new == StickyAt([t \in Topic |-> IF t \in C THEN NoMsg ELSE st[t]], m)
             old == StickyAt(st, m)
             gone == {t \in C : st[t] = m}
  <1>1. IsFiniteSet(old) /\ Cardinality(old) \in Nat
    BY StickyAtFinite
  <1>2. new = old \ gone /\ old \cap gone = gone /\ gone \subseteq old
    BY PubSubAssumption DEF StickyAt
  <1> HIDE DEF old, new, gone
  <1>3. Cardinality(old \ gone) = Cardinality(old) - Cardinality(old \cap gone)
    BY <1>1, FS_Difference
  <1>4. Cardinality(gone) \in Nat
    BY <1>1, <1>2, FS_Subset, FS_CardinalityType
  <1> QED
    BY <1>2, <1>3, <1>4 DEF old, new, gone

(***************************************************************************)
(* push_subscriber_queue and the pulls                                     *)
(***************************************************************************)

\* A new count for each message leaves each a topic and flags.
LEMMA RecountKind ==
    ASSUME TypeOK, NEW counts, Recount(counts)
    PROVE  kind' \in [Msg -> Kind] /\ ref' = counts
  <1>1. NoKind \in Kind
    BY PubSubAssumption DEF NoKind, Kind
  <1> QED
    BY <1>1 DEF Recount, TypeOK

\* The queue of su has become r, and the reference counts have followed it.
QueueStep(su, r) ==
    /\ queue' = [queue EXCEPT ![su] = r]
    /\ r \in [Prio -> Seq(Msg)] /\ IsFiniteSet(Slots(r))
    /\ kind' \in [Msg -> Kind]
    /\ ref' \in [Msg -> Int]
    /\ \A n \in Msg : ref'[n] = ref[n] + (Cardinality(Holding(r, n))
                                          - Cardinality(Holding(queue[su], n)))

\* A push never makes a queue shorter, and never longer than its size.
Pushed(su) ==
    /\ QueueStep(su, queue'[su])
    /\ overflow' \in [Sub -> 0..(OverflowMod - 1)]
    /\ Stored(queue'[su]) \in Nat
    /\ Stored(queue[su]) <= Stored(queue'[su])
    /\ Stored(queue'[su]) <= QueueSize[su]

LEMMA QueueFacts ==
    ASSUME TypeOK, QueuesReady, NEW su \in Sub
    PROVE  /\ queue[su] \in [Prio -> Seq(Msg)]
           /\ IsFiniteSet(Slots(queue[su]))
           /\ Stored(queue[su]) \in Nat
           /\ \A n : Cardinality(Holding(queue[su], n)) \in Nat
  <1>1. queue[su] \in [Prio -> Seq(Msg)] /\ IsFiniteSet(Slots(queue[su]))
    BY DEF TypeOK, QueuesReady
  <1>2. Stored(queue[su]) \in Nat
    BY <1>1, FS_CardinalityType DEF Stored
  <1>3. \A n : Cardinality(Holding(queue[su], n)) \in Nat
    BY <1>1, HoldsFinite
  <1> QED
    BY <1>1, <1>2, <1>3

LEMMA Overflowed ==
    ASSUME TypeOK, NEW su \in Sub, Overflow(su)
    PROVE  overflow' \in [Sub -> 0..(OverflowMod - 1)]
  <1>1. \A n \in Nat : (n + 1) % OverflowMod \in 0..(OverflowMod - 1)
    BY PubSubAssumption
  <1>2. overflow[su] \in Nat
    BY DEF TypeOK
  <1> QED
    BY <1>1, <1>2 DEF TypeOK, Overflow

LEMMA StoresPushed ==
    ASSUME TypeOK, QueuesReady, NEW su \in Sub, NEW m \in Msg, NEW p \in Prio,
           Stores(su, m, p)
    PROVE  Pushed(su)
  <1> DEFINE b == queue[su]
             r == Insert(b, p, m)
  <1>1. /\ b \in [Prio -> Seq(Msg)] /\ IsFiniteSet(Slots(b))
        /\ Stored(b) \in Nat /\ \A n : Cardinality(Holding(b, n)) \in Nat
    BY QueueFacts
  <1>2. r \in [Prio -> Seq(Msg)]
    BY <1>1, InsertType
  <1>3. IsFiniteSet(Slots(r)) /\ Stored(r) = Stored(b) + 1
    BY <1>1, InsertStored
  <1>4. \A n : Cardinality(Holding(r, n)) = Cardinality(Holding(b, n)) + (IF n = m THEN 1 ELSE 0)
    BY <1>1, InsertHolds
  <1>5. queue' = [queue EXCEPT ![su] = r] /\ queue'[su] = r
    BY DEF Stores, TypeOK
  <1> HIDE DEF r, b
  <1>6. kind' \in [Msg -> Kind]
        /\ ref' = [n \in Msg |-> ref[n] + (IF n = m THEN 1 ELSE 0) - (IF n = NoMsg THEN 1 ELSE 0)]
    BY RecountKind DEF Stores, Replace
  <1>7. /\ ref' \in [Msg -> Int]
        /\ \A n \in Msg : ref'[n] = ref[n] + (IF n = m THEN 1 ELSE 0)
    <2>1. ref \in [Msg -> Nat] /\ NoMsg \notin Msg
      BY PubSubAssumption DEF TypeOK
    <2>2. ASSUME NEW n \in Msg
          PROVE  ref'[n] = ref[n] + (IF n = m THEN 1 ELSE 0) /\ ref[n] \in Int
      BY <1>6, <2>1
    <2>3. \A n \in Msg : ref'[n] \in Int
      BY <2>2
    <2> QED
      BY <1>6, <2>2, <2>3
  <1>8. ASSUME NEW n \in Msg
        PROVE  ref'[n] = ref[n] + (Cardinality(Holding(r, n)) - Cardinality(Holding(b, n)))
    <2>1. Cardinality(Holding(b, n)) \in Nat /\ ref[n] \in Int
      BY <1>1 DEF TypeOK
    <2>2. Cardinality(Holding(r, n)) = Cardinality(Holding(b, n)) + (IF n = m THEN 1 ELSE 0)
      BY <1>4
    <2>3. ref'[n] = ref[n] + (IF n = m THEN 1 ELSE 0)
      BY <1>7
    <2> QED
      BY <2>1, <2>2, <2>3
  <1>9. QueueStep(su, r)
    BY <1>2, <1>3, <1>5, <1>6, <1>7, <1>8 DEF QueueStep, b
  <1>10. Stored(b) < QueueSize[su] /\ QueueSize[su] \in Nat /\ UNCHANGED overflow
    BY PubSubAssumption DEF Stores, HasRoom, b
  <1>11. Stored(r) \in Nat /\ Stored(b) <= Stored(r) /\ Stored(r) <= QueueSize[su]
    BY <1>1, <1>3, <1>10
  <1> QED
    BY <1>5, <1>9, <1>10, <1>11 DEF Pushed, TypeOK, b

LEMMA EvictsPushed ==
    ASSUME TypeOK, QueuesReady, ClaimsHonoured, NEW su \in Sub, NEW m \in Msg, NEW p \in Prio,
           Evicts(su, m, p)
    PROVE  Pushed(su)
  <1> DEFINE b == queue[su]
  <1>1. /\ b \in [Prio -> Seq(Msg)] /\ IsFiniteSet(Slots(b))
        /\ Stored(b) \in Nat /\ \A n : Cardinality(Holding(b, n)) \in Nat
    BY QueueFacts
  <1>2. PICK v \in Prio : /\ b[v] # <<>>
                          /\ queue' = [queue EXCEPT ![su] = Insert(RemoveYoungest(@, v), p, m)]
                          /\ Replace(m, Youngest(b, v))
    BY DEF Evicts, IsLowest
  <1> DEFINE c == RemoveYoungest(b, v)
             r == Insert(c, p, m)
             y == Youngest(b, v)
  <1>3. c \in [Prio -> Seq(Msg)] /\ y \in Msg
    BY <1>1, <1>2, RemoveType
  <1>4. IsFiniteSet(Slots(c)) /\ Stored(c) = Stored(b) - 1
    BY <1>1, <1>2, RemoveStored
  <1>5. \A n : Cardinality(Holding(c, n)) = Cardinality(Holding(b, n)) - (IF n = y THEN 1 ELSE 0)
    BY <1>1, <1>2, YoungestHolds
  <1>6. queue' = [queue EXCEPT ![su] = r] /\ queue'[su] = r
    BY <1>2 DEF TypeOK
  <1>7. kind' \in [Msg -> Kind]
        /\ ref' = [n \in Msg |-> ref[n] + (IF n = m THEN 1 ELSE 0) - (IF n = y THEN 1 ELSE 0)]
    BY <1>2, RecountKind DEF Replace
  <1> HIDE DEF c, b, y
  <1>8. r \in [Prio -> Seq(Msg)]
    BY <1>3, InsertType
  <1>9. IsFiniteSet(Slots(r)) /\ Stored(r) = Stored(c) + 1
    BY <1>3, <1>4, InsertStored
  <1>10. \A n : Cardinality(Holding(r, n)) = Cardinality(Holding(c, n)) + (IF n = m THEN 1 ELSE 0)
    BY <1>3, <1>4, InsertHolds
  <1> HIDE DEF r
  <1>11. /\ ref' \in [Msg -> Int]
         /\ \A n \in Msg : ref'[n] = ref[n] + (IF n = m THEN 1 ELSE 0) - (IF n = y THEN 1 ELSE 0)
    BY <1>7 DEF TypeOK
  <1>12. \A n \in Msg : ref'[n] = ref[n] + (Cardinality(Holding(r, n)) - Cardinality(Holding(b, n)))
    <2> TAKE n \in Msg
    <2>1. ref[n] \in Nat
      BY DEF TypeOK
    <2> DEFINE in == IF n = m THEN 1 ELSE 0
               out == IF n = y THEN 1 ELSE 0
    <2>2. in \in Int /\ out \in Int
      OBVIOUS
    <2>3. /\ Cardinality(Holding(r, n)) = Cardinality(Holding(c, n)) + in
          /\ Cardinality(Holding(c, n)) = Cardinality(Holding(b, n)) - out
          /\ Cardinality(Holding(b, n)) \in Nat
          /\ ref'[n] = ref[n] + in - out
      BY <1>1, <1>5, <1>10, <1>11
    <2> HIDE DEF in, out
    <2> QED
      BY <2>1, <2>2, <2>3
  <1>13. QueueStep(su, r)
    BY <1>6, <1>7, <1>8, <1>9, <1>11, <1>12 DEF QueueStep, b
  <1>14. overflow' \in [Sub -> 0..(OverflowMod - 1)]
    BY Overflowed DEF Evicts
  <1>15. Stored(b) <= QueueSize[su] /\ Stored(r) = Stored(b)
    BY <1>1, <1>4, <1>9 DEF ClaimsHonoured, b
  <1> QED
    BY <1>1, <1>6, <1>13, <1>14, <1>15 DEF Pushed, b

LEMMA RefusesPushed ==
    ASSUME TypeOK, QueuesReady, ClaimsHonoured, NEW su \in Sub, NEW m \in Msg, NEW p \in Prio,
           Refuses(su, m, p)
    PROVE  Pushed(su)
  <1>1. /\ queue[su] \in [Prio -> Seq(Msg)] /\ IsFiniteSet(Slots(queue[su]))
        /\ Stored(queue[su]) \in Nat /\ \A n : Cardinality(Holding(queue[su], n)) \in Nat
    BY QueueFacts
  <1>2. UNCHANGED <<queue, ref, kind>> /\ queue = [queue EXCEPT ![su] = queue[su]]
    BY DEF Refuses, TypeOK
  <1>3. \A n \in Msg : ref[n] = ref[n] + (Cardinality(Holding(queue[su], n))
                                           - Cardinality(Holding(queue[su], n)))
    BY <1>1 DEF TypeOK
  <1>4. overflow' \in [Sub -> 0..(OverflowMod - 1)]
    BY Overflowed DEF Refuses
  <1>5. Stored(queue[su]) <= QueueSize[su]
    BY DEF ClaimsHonoured
  <1>6. ref \in [Msg -> Int] /\ kind \in [Msg -> Kind]
    BY DEF TypeOK
  <1>7. QueueStep(su, queue'[su])
    BY <1>1, <1>2, <1>3, <1>6 DEF QueueStep
  <1> QED
    BY <1>1, <1>2, <1>4, <1>5, <1>7 DEF Pushed

LEMMA PushPushed ==
    ASSUME TypeOK, QueuesReady, ClaimsHonoured, NEW su \in Sub, NEW m \in Msg, NEW p \in Prio,
           Push(su, m, p)
    PROVE  Pushed(su)
  BY StoresPushed, EvictsPushed, RefusesPushed DEF Push

(***************************************************************************)
(* The reference counts                                                    *)
(***************************************************************************)

\* The publication under way holds a reference to its message.
InFlight(c, m) == IF c.op = "publish" /\ c.msg = m THEN 1 ELSE 0

LEMMA AccountedAs ==
    RefsAccounted <=>
        \A m \in Msg : ref[m] = app[m] + Cardinality(HeldBy(queue, Sub, m))
                                       + Cardinality(StickyAt(sticky, m)) + InFlight(cs, m)
  BY DEF RefsAccounted, InQueues, HeldBy, StickyAt, InFlight

LEMMA AccountedAsPrimed ==
    RefsAccounted' <=>
        \A m \in Msg : ref'[m] = app'[m] + Cardinality(HeldBy(queue', Sub, m))
                                         + Cardinality(StickyAt(sticky', m)) + InFlight(cs', m)
  BY DEF RefsAccounted, InQueues, HeldBy, StickyAt, InFlight

LEMMA Proper ==
    ASSUME TypeOK, QueuesReady
    PROVE  ProperQueues(queue)
  BY DEF TypeOK, QueuesReady, ProperQueues

\* What a step does to the count of a message and to the four kinds of pointer
\* to it.
Counted(m) ==
    ref'[m] = ref[m] + (app'[m] - app[m])
        + (Cardinality(HeldBy(queue', Sub, m)) - Cardinality(HeldBy(queue, Sub, m)))
        + (Cardinality(StickyAt(sticky', m)) - Cardinality(StickyAt(sticky, m)))
        + (InFlight(cs', m) - InFlight(cs, m))

LEMMA Accounting ==
    ASSUME TypeOK, QueuesReady, RefsAccounted,
           ProperQueues(queue'), app' \in [Msg -> 0..MaxApp], ref' \in [Msg -> Int],
           \A m \in Msg : Counted(m)
    PROVE  RefsAccounted' /\ ref' \in [Msg -> Nat]
  <1>1. ASSUME NEW m \in Msg
        PROVE  /\ ref'[m] = app'[m] + Cardinality(HeldBy(queue', Sub, m))
                                    + Cardinality(StickyAt(sticky', m)) + InFlight(cs', m)
               /\ ref'[m] \in Nat
    <2>1. /\ app[m] \in Nat /\ app'[m] \in Nat /\ ref[m] \in Nat /\ ref'[m] \in Int
          /\ InFlight(cs, m) \in Nat /\ InFlight(cs', m) \in Nat
      BY PubSubAssumption DEF TypeOK, InFlight
    <2>2. /\ Cardinality(StickyAt(sticky, m)) \in Nat
          /\ Cardinality(StickyAt(sticky', m)) \in Nat
      BY StickyAtFinite
    <2>3. /\ Cardinality(HeldBy(queue, Sub, m)) \in Nat
          /\ Cardinality(HeldBy(queue', Sub, m)) \in Nat
      BY HeldByFinite, Proper
    <2>4. ref[m] = app[m] + Cardinality(HeldBy(queue, Sub, m))
                          + Cardinality(StickyAt(sticky, m)) + InFlight(cs, m)
      BY AccountedAs
    <2>5. Counted(m)
      OBVIOUS
    <2> QED
      BY <2>1, <2>2, <2>3, <2>4, <2>5 DEF Counted
  <1> QED
    BY <1>1, AccountedAsPrimed

\* A queue step moves the counts as far as it moves the pointers.
LEMMA QueueStepCounts ==
    ASSUME TypeOK, QueuesReady, NEW su \in Sub, NEW r, QueueStep(su, r)
    PROVE  /\ ProperQueues(queue')
           /\ queue'[su] = r /\ \A v \in Sub \ {su} : queue'[v] = queue[v]
           /\ \A n \in Msg :
                 ref'[n] = ref[n] + (Cardinality(HeldBy(queue', Sub, n))
                                     - Cardinality(HeldBy(queue, Sub, n)))
  <1>1. queue'[su] = r /\ \A v \in Sub \ {su} : queue'[v] = queue[v]
    BY DEF QueueStep, TypeOK
  <1>2. ProperQueues(queue) /\ ProperQueues(queue')
    BY <1>1, Proper DEF QueueStep, ProperQueues
  <1>3. ASSUME NEW n \in Msg
        PROVE  ref'[n] = ref[n] + (Cardinality(HeldBy(queue', Sub, n))
                                     - Cardinality(HeldBy(queue, Sub, n)))
    <2>1. Cardinality(HeldBy(queue', Sub, n)) - Cardinality(HeldBy(queue, Sub, n)) =
             Cardinality(Holding(queue'[su], n)) - Cardinality(Holding(queue[su], n))
      BY <1>1, <1>2, HeldByChanges
    <2> QED
      BY <1>1, <2>1 DEF QueueStep
  <1> QED
    BY <1>1, <1>2, <1>3

(***************************************************************************)
(* Each action keeps the invariant                                         *)
(***************************************************************************)

LEMMA InitInv == Init => Inv
  <1> SUFFICES ASSUME Init PROVE Inv
    OBVIOUS
  <1>1. TypeOK
    <2>1. NoKind \in Kind
      BY PubSubAssumption DEF NoKind, Kind
    <2>2. Empty(Prio) \in [Prio -> Seq(Msg)]
      BY DEF Empty
    <2>3. 0 \in 0..(OverflowMod - 1) /\ 0 \in 0..MaxApp
      BY PubSubAssumption
    <2> QED
      BY <2>1, <2>2, <2>3 DEF Init, TypeOK
  <1>2. Lists
    BY DEF Init, Lists, ListsDistinct, NoneTwice, AllDifferent, ListsMirror, Enlisted,
           Contains, TopicsInUse, Used
  <1>3. OnlyLiveReached
    <2>1. \A t \in Topic : Range(subscribers[t]) = {}
      BY DEF Init, Range
    <2> QED
      BY <2>1 DEF Init, OnlyLiveReached, NoCS
  <1>4. SectionReady /\ EmptyWhenPushed
    BY DEF Init, SectionReady, EmptyWhenPushed, NoCS
  <1>5. Slots(Empty(Prio)) = {}
    BY DEF Slots, Empty
  <1>6. QueuesReady
    BY <1>5, FS_EmptySet DEF Init, QueuesReady
  <1>7. ClaimsHonoured
    <2>1. \A su \in Sub : Stored(queue[su]) = 0 /\ QueueSize[su] \in Nat /\ claims[su] = 0
      BY <1>5, FS_EmptySet, PubSubAssumption DEF Init, Stored
    <2> QED
      BY <2>1 DEF ClaimsHonoured
  <1>8. RefsAccounted
    <2>1. ASSUME NEW m \in Msg
          PROVE  /\ ref[m] = 0 /\ app[m] = 0 /\ InFlight(cs, m) = 0
                 /\ HeldBy(queue, Sub, m) = {} /\ StickyAt(sticky, m) = {}
      BY <1>5, PubSubAssumption DEF Init, InFlight, NoCS, HeldBy, Holding, StickyAt
    <2> QED
      BY <2>1, FS_EmptySet, AccountedAs
  <1> QED
    BY <1>1, <1>2, <1>3, <1>4, <1>6, <1>7, <1>8 DEF Inv

\* Everything the invariant says beyond types and reference counts is about these.
LEMMA OthersStay ==
    ASSUME Inv, UNCHANGED <<topics, subscribers, sticky, status, subs, queue, claims, cs>>
    PROVE  /\ Lists' /\ OnlyLiveReached' /\ SectionReady' /\ QueuesReady'
           /\ EmptyWhenPushed' /\ ClaimsHonoured'
  <1>1. Lists'
    BY ListsStay DEF Inv, TypeOK, ListsType
  <1>2. OnlyLiveReached' /\ SectionReady' /\ QueuesReady'
    BY DEF Inv, OnlyLiveReached, SectionReady, QueuesReady
  <1>3. EmptyWhenPushed' /\ ClaimsHonoured'
    BY DEF Inv, EmptyWhenPushed, ClaimsHonoured, Current, Waiting
  <1> QED
    BY <1>1, <1>2, <1>3

\* The steps of the application on its own references.
LEMMA AppStep ==
    ASSUME Inv, UNCHANGED <<topicVars, status, subs, queueVars, cs>>,
           ref' \in [Msg -> Int], kind' \in [Msg -> Kind], app' \in [Msg -> 0..MaxApp],
           \A m \in Msg : ref'[m] = ref[m] + (app'[m] - app[m])
    PROVE  Inv'
  <1>1. /\ Lists' /\ OnlyLiveReached' /\ SectionReady' /\ QueuesReady'
        /\ EmptyWhenPushed' /\ ClaimsHonoured'
    BY OthersStay DEF topicVars, queueVars
  <1>2. ProperQueues(queue')
    BY Proper DEF Inv, queueVars
  <1>3. ASSUME NEW m \in Msg PROVE Counted(m)
    <2>1. /\ ref[m] \in Int /\ app[m] \in Int /\ app'[m] \in Int /\ InFlight(cs, m) \in Int
          /\ Cardinality(StickyAt(sticky, m)) \in Int
          /\ Cardinality(HeldBy(queue, Sub, m)) \in Int
      BY HeldByFinite, StickyAtFinite, Proper DEF Inv, TypeOK, InFlight
    <2>2. queue' = queue /\ sticky' = sticky /\ cs' = cs
      BY DEF topicVars, queueVars
    <2> QED
      BY <2>1, <2>2 DEF Counted
  <1>4. RefsAccounted' /\ ref' \in [Msg -> Nat]
    BY <1>2, <1>3, Accounting DEF Inv
  <1>5. TypeOK'
    BY <1>4 DEF Inv, TypeOK, topicVars, queueVars
  <1> QED
    BY <1>1, <1>4, <1>5 DEF Inv

LEMMA NewMsgInv ==
    ASSUME Inv, NEW m \in Msg, NEW k \in MsgKind, NewMsg(m, k)
    PROVE  Inv'
  <1>1. app[m] = 0
    <2>1. ref[m] = 0 /\ app[m] \in Nat /\ InFlight(cs, m) \in Nat
      BY DEF NewMsg, Inv, TypeOK, InFlight
    <2>2. /\ Cardinality(HeldBy(queue, Sub, m)) \in Nat
          /\ Cardinality(StickyAt(sticky, m)) \in Nat
          /\ ref[m] = app[m] + Cardinality(HeldBy(queue, Sub, m))
                             + Cardinality(StickyAt(sticky, m)) + InFlight(cs, m)
      BY HeldByFinite, StickyAtFinite, Proper, AccountedAs DEF Inv
    <2> QED
      BY <2>1, <2>2
  <1>2. k \in Kind
    BY PubSubAssumption
  <1>3. /\ ref \in [Msg -> Nat] /\ app \in [Msg -> 0..MaxApp] /\ kind \in [Msg -> Kind]
        /\ ref[m] = 0 /\ 1 \in 0..MaxApp
    BY PubSubAssumption DEF Inv, TypeOK, NewMsg
  <1>4. /\ ref' = [ref EXCEPT ![m] = 1] /\ kind' = [kind EXCEPT ![m] = k]
        /\ app' = [app EXCEPT ![m] = 1]
        /\ UNCHANGED <<topicVars, status, subs, queueVars, cs>>
    BY DEF NewMsg
  <1>5. /\ ref' \in [Msg -> Int] /\ kind' \in [Msg -> Kind] /\ app' \in [Msg -> 0..MaxApp]
        /\ \A n \in Msg : ref'[n] = ref[n] + (app'[n] - app[n])
    BY <1>1, <1>2, <1>3, <1>4
  <1> QED
    BY <1>4, <1>5, AppStep

LEMMA RefMsgInv ==
    ASSUME Inv, NEW m \in Msg, RefMsg(m)
    PROVE  Inv'
  <1>1. /\ ref \in [Msg -> Nat] /\ app \in [Msg -> 0..MaxApp] /\ kind \in [Msg -> Kind]
        /\ app[m] + 1 \in 0..MaxApp
    BY PubSubAssumption DEF Inv, TypeOK, RefMsg
  <1>2. /\ ref' = [ref EXCEPT ![m] = @ + 1] /\ kind' = kind
        /\ app' = [app EXCEPT ![m] = @ + 1]
        /\ UNCHANGED <<topicVars, status, subs, queueVars, cs>>
    BY DEF RefMsg
  <1>3. /\ ref' \in [Msg -> Int] /\ kind' \in [Msg -> Kind] /\ app' \in [Msg -> 0..MaxApp]
        /\ \A n \in Msg : ref'[n] = ref[n] + (app'[n] - app[n])
    BY <1>1, <1>2
  <1> QED
    BY <1>2, <1>3, AppStep

LEMMA UnrefMsgInv ==
    ASSUME Inv, NEW m \in Msg, UnrefMsg(m)
    PROVE  Inv'
  <1>1. kind' \in [Msg -> Kind] /\ ref' = [ref EXCEPT ![m] = @ - 1]
    BY RecountKind DEF Inv, UnrefMsg
  <1>2. /\ ref \in [Msg -> Nat] /\ app \in [Msg -> 0..MaxApp]
        /\ app[m] - 1 \in 0..MaxApp
    BY PubSubAssumption DEF Inv, TypeOK, UnrefMsg
  <1>3. /\ app' = [app EXCEPT ![m] = @ - 1]
        /\ UNCHANGED <<topicVars, status, subs, queueVars, cs>>
    BY DEF UnrefMsg
  <1>4. /\ ref' \in [Msg -> Int] /\ app' \in [Msg -> 0..MaxApp]
        /\ \A n \in Msg : ref'[n] = ref[n] + (app'[n] - app[n])
    BY <1>1, <1>2, <1>3
  <1> QED
    BY <1>1, <1>3, <1>4, AppStep

\* Whoever is served next is live.
LEMMA CurrentLive ==
    ASSUME Inv, cs.op = "publish", cs.todo # <<>>
    PROVE  /\ cs \in PublishCS /\ Current \in Entry /\ Current.su \in Sub
           /\ status[Current.su] = "live"
           /\ Tail(cs.todo) \in Seq(Entry)
           /\ \A e \in Range(Tail(cs.todo)) : e \in Range(cs.todo)
  <1>1. cs \in PublishCS
    BY DEF Inv, TypeOK, NoCS, SubscribeCS
  <1>2. cs.todo \in Seq(Entry)
    BY <1>1 DEF PublishCS
  <1>3. Current \in Entry /\ Current = cs.todo[1] /\ 1 \in 1..Len(cs.todo)
    BY <1>2 DEF Current
  <1>4. Current \in Range(cs.todo)
    BY <1>2, <1>3, RangeOf
  <1>5. /\ Tail(cs.todo) \in Seq(Entry) /\ Len(Tail(cs.todo)) = Len(cs.todo) - 1
        /\ \A i \in 1..Len(Tail(cs.todo)) : Tail(cs.todo)[i] = cs.todo[i + 1] /\ i + 1 \in 1..Len(cs.todo)
    BY <1>2, HeadTailProperties
  <1>6. ASSUME NEW e \in Range(Tail(cs.todo)) PROVE e \in Range(cs.todo)
    <2>1. PICK i \in 1..Len(Tail(cs.todo)) : Tail(cs.todo)[i] = e
      BY <1>5, RangeOf
    <2> QED
      BY <1>2, <1>5, <2>1, RangeOf
  <1>7. status[Current.su] = "live" /\ Current.su \in Sub
    BY <1>3, <1>4 DEF Inv, OnlyLiveReached, Entry
  <1> QED
    BY <1>1, <1>3, <1>5, <1>6, <1>7

\* The oldest message of the greatest priority leaves a queue.
LEMMA Pulled ==
    ASSUME TypeOK, QueuesReady, NEW su \in Sub, NEW p \in Prio, queue[su][p] # <<>>
    PROVE  /\ RemoveOldest(queue[su], p) \in [Prio -> Seq(Msg)]
           /\ IsFiniteSet(Slots(RemoveOldest(queue[su], p)))
           /\ Stored(RemoveOldest(queue[su], p)) = Stored(queue[su]) - 1
           /\ Oldest(queue[su], p) \in Msg
           /\ \A n : Cardinality(Holding(RemoveOldest(queue[su], p), n)) =
                        Cardinality(Holding(queue[su], n))
                          - (IF n = Oldest(queue[su], p) THEN 1 ELSE 0)
  <1> DEFINE b == queue[su]
  <1>1. b \in [Prio -> Seq(Msg)] /\ IsFiniteSet(Slots(b)) /\ b[p] # <<>>
    BY QueueFacts
  <1> HIDE DEF b
  <1>2. RemoveOldest(b, p) \in [Prio -> Seq(Msg)] /\ Oldest(b, p) \in Msg
    BY <1>1, RemoveType
  <1>3. IsFiniteSet(Slots(RemoveOldest(b, p))) /\ Stored(RemoveOldest(b, p)) = Stored(b) - 1
    BY <1>1, RemoveStored
  <1>4. \A n : Cardinality(Holding(RemoveOldest(b, p), n)) =
                  Cardinality(Holding(b, n)) - (IF n = Oldest(b, p) THEN 1 ELSE 0)
    BY <1>1, OldestHolds
  <1> QED
    BY <1>2, <1>3, <1>4 DEF b

LEMMA TakeInv ==
    ASSUME Inv, NEW su \in Sub, Take(su)
    PROVE  Inv'
  <1>1. PICK p \in Prio :
           /\ queue[su][p] # <<>>
           /\ app[Oldest(queue[su], p)] < MaxApp
           /\ queue' = [queue EXCEPT ![su] = RemoveOldest(@, p)]
           /\ app' = [app EXCEPT ![Oldest(queue[su], p)] = @ + 1]
    BY DEF Take, IsHighest
  <1> DEFINE b == queue[su]
             r == RemoveOldest(queue[su], p)
             o == Oldest(queue[su], p)
  <1>2. /\ claims[su] > 0 /\ claims' = [claims EXCEPT ![su] = @ - 1]
        /\ UNCHANGED <<topicVars, status, subs, overflow, ref, kind, cs>>
        /\ claims \in [Sub -> Nat] /\ app \in [Msg -> 0..MaxApp] /\ ref \in [Msg -> Nat]
        /\ queue \in [Sub -> [Prio -> Seq(Msg)]]
    BY DEF Take, Inv, TypeOK
  <1>3. status[su] = "live"
    BY <1>2 DEF Inv, OnlyLiveReached
  <1>4. /\ r \in [Prio -> Seq(Msg)] /\ IsFiniteSet(Slots(r))
        /\ Stored(r) = Stored(b) - 1 /\ o \in Msg
        /\ \A n : Cardinality(Holding(r, n)) =
                     Cardinality(Holding(b, n)) - (IF n = o THEN 1 ELSE 0)
    BY <1>1, Pulled DEF Inv
  <1>5. Stored(b) \in Nat /\ \A n : Cardinality(Holding(b, n)) \in Nat
    BY QueueFacts DEF Inv
  <1>6. queue' = [queue EXCEPT ![su] = r] /\ app' = [app EXCEPT ![o] = @ + 1] /\ app[o] < MaxApp
    BY <1>1
  <1> HIDE DEF r, o
  <1>7. queue'[su] = r /\ \A v \in Sub \ {su} : queue'[v] = queue[v]
    BY <1>2, <1>6
  <1>8. ProperQueues(queue) /\ ProperQueues(queue')
    BY <1>4, <1>6, <1>7, Proper DEF Inv, ProperQueues
  <1>9. app' \in [Msg -> 0..MaxApp] /\ \A n \in Msg : app'[n] = app[n] + (IF n = o THEN 1 ELSE 0)
    BY <1>2, <1>4, <1>6, PubSubAssumption
  <1>10. ASSUME NEW n \in Msg PROVE Counted(n)
    <2>1. Cardinality(HeldBy(queue', Sub, n)) - Cardinality(HeldBy(queue, Sub, n)) =
             Cardinality(Holding(r, n)) - Cardinality(Holding(b, n))
      BY <1>7, <1>8, HeldByChanges
    <2>2. /\ ref' = ref /\ sticky' = sticky /\ cs' = cs
          /\ ref[n] \in Int /\ InFlight(cs, n) \in Int
          /\ Cardinality(StickyAt(sticky, n)) \in Int
      BY <1>2, StickyAtFinite DEF topicVars, InFlight
    <2>3. app'[n] - app[n] = IF n = o THEN 1 ELSE 0
      BY <1>2, <1>9
    <2>4. Cardinality(Holding(r, n)) - Cardinality(Holding(b, n)) = - (IF n = o THEN 1 ELSE 0)
      BY <1>4, <1>5
    <2> QED
      BY <2>1, <2>2, <2>3, <2>4 DEF Counted
  <1>11. ref' \in [Msg -> Int]
    BY <1>2
  <1>12. RefsAccounted'
    BY <1>8, <1>9, <1>10, <1>11, Accounting DEF Inv
  <1>13. claims' \in [Sub -> Nat] /\ claims'[su] = claims[su] - 1
         /\ \A v \in Sub \ {su} : claims'[v] = claims[v]
    BY <1>2
  <1>14. TypeOK'
    BY <1>2, <1>8, <1>9, <1>13 DEF Inv, TypeOK, ProperQueues, topicVars
  <1>15. Lists'
    BY <1>2, ListsStay DEF Inv, TypeOK, ListsType, topicVars
  <1>16. OnlyLiveReached' /\ SectionReady'
    BY <1>2, <1>3, <1>13 DEF Inv, OnlyLiveReached, SectionReady, topicVars
  <1>17. QueuesReady'
    BY <1>2, <1>3, <1>7, <1>8 DEF Inv, QueuesReady, ProperQueues
  <1>18. \A v \in Sub : Waiting(v)' = Waiting(v)
    <2> TAKE v \in Sub
    <2>1. CASE v = su
      <3>1. queue'[v] = r /\ claims'[v] = claims[v] - 1 /\ claims[v] \in Nat
        BY <1>2, <1>7, <1>13, <2>1
      <3>2. Stored(r) = Stored(queue[v]) - 1 /\ Stored(queue[v]) \in Nat
        BY <1>4, <1>5, <2>1
      <3> QED
        BY <3>1, <3>2 DEF Waiting
    <2>2. CASE v # su
      BY <1>7, <1>13, <2>2 DEF Waiting
    <2> QED
      BY <2>1, <2>2
  <1>19. EmptyWhenPushed'
    BY <1>2, <1>18, CurrentLive DEF Inv, EmptyWhenPushed, SectionReady, Current
  <1>20. ClaimsHonoured'
    BY <1>2, <1>4, <1>5, <1>7, <1>13, PubSubAssumption DEF Inv, ClaimsHonoured
  <1> QED
    BY <1>12, <1>14, <1>15, <1>16, <1>17, <1>19, <1>20 DEF Inv

LEMMA ClaimInv ==
    ASSUME Inv, NEW su \in Sub, Claim(su)
    PROVE  Inv'
  <1>1. /\ status[su] = "live" /\ Stored(queue[su]) - claims[su] > 0
        /\ claims' = [claims EXCEPT ![su] = @ + 1]
        /\ UNCHANGED <<topicVars, status, subs, queue, overflow, msgVars, cs>>
        /\ claims \in [Sub -> Nat] /\ Stored(queue[su]) \in Nat
    BY QueueFacts DEF Claim, Waiting, Inv, TypeOK
  <1>2. claims' \in [Sub -> Nat] /\ claims'[su] = claims[su] + 1
        /\ \A v \in Sub \ {su} : claims'[v] = claims[v]
    BY <1>1
  <1>3. TypeOK'
    BY <1>1, <1>2 DEF Inv, TypeOK, topicVars, msgVars
  <1>4. Lists'
    BY <1>1, ListsStay DEF Inv, TypeOK, ListsType, topicVars
  <1>5. OnlyLiveReached' /\ SectionReady' /\ QueuesReady'
    BY <1>1, <1>2 DEF Inv, OnlyLiveReached, SectionReady, QueuesReady, topicVars
  <1>6. EmptyWhenPushed'
    <2> SUFFICES ASSUME cs.op = "publish", cs.checked PROVE Waiting(Current.su)' = 0
      BY <1>1 DEF EmptyWhenPushed
    <2>1. Waiting(Current.su) = 0 /\ Current.su \in Sub
      BY CurrentLive DEF Inv, EmptyWhenPushed, SectionReady
    <2>2. Current.su # su
      BY <1>1, <2>1 DEF Waiting
    <2> QED
      BY <1>1, <1>2, <2>1, <2>2 DEF Waiting, Current
  <1>7. ClaimsHonoured'
    BY <1>1, <1>2 DEF Inv, ClaimsHonoured
  <1>8. RefsAccounted'
    BY <1>1, AccountedAs, AccountedAsPrimed DEF Inv, topicVars, msgVars
  <1> QED
    BY <1>3, <1>4, <1>5, <1>6, <1>7, <1>8 DEF Inv

\* A push under the global lock, whatever the critical section does with it.
LEMMA PushedInv ==
    ASSUME Inv, NEW su \in Sub, Pushed(su), status[su] = "live",
           UNCHANGED <<topicVars, status, subs, claims, app>>,
           \A n \in Msg : InFlight(cs', n) = InFlight(cs, n),
           cs' \in {NoCS} \cup PublishCS \cup SubscribeCS
    PROVE  TypeOK' /\ Lists' /\ QueuesReady' /\ ClaimsHonoured' /\ RefsAccounted'
  <1>1. /\ QueueStep(su, queue'[su])
        /\ overflow' \in [Sub -> 0..(OverflowMod - 1)]
        /\ Stored(queue'[su]) \in Nat
        /\ Stored(queue[su]) <= Stored(queue'[su])
        /\ Stored(queue'[su]) <= QueueSize[su]
    BY DEF Pushed
  <1>2. /\ ProperQueues(queue')
        /\ \A v \in Sub \ {su} : queue'[v] = queue[v]
        /\ \A n \in Msg :
              ref'[n] = ref[n] + (Cardinality(HeldBy(queue', Sub, n))
                                  - Cardinality(HeldBy(queue, Sub, n)))
    BY <1>1, QueueStepCounts DEF Inv
  <1>3. kind' \in [Msg -> Kind] /\ ref' \in [Msg -> Int]
    BY <1>1 DEF QueueStep
  <1>4. ASSUME NEW n \in Msg PROVE Counted(n)
    <2>1. /\ InFlight(cs, n) \in Int /\ InFlight(cs', n) = InFlight(cs, n)
          /\ app[n] \in Int /\ app' = app /\ sticky' = sticky /\ ref[n] \in Int
          /\ Cardinality(StickyAt(sticky, n)) \in Int
      BY StickyAtFinite DEF Inv, TypeOK, InFlight, topicVars
    <2>2. /\ Cardinality(HeldBy(queue', Sub, n)) \in Int
          /\ Cardinality(HeldBy(queue, Sub, n)) \in Int
      BY <1>2, HeldByFinite, Proper DEF Inv
    <2> QED
      BY <1>2, <2>1, <2>2 DEF Counted
  <1>5. RefsAccounted' /\ ref' \in [Msg -> Nat]
    BY <1>2, <1>3, <1>4, Accounting DEF Inv, TypeOK
  <1>6. TypeOK'
    BY <1>1, <1>2, <1>3, <1>5 DEF Inv, TypeOK, ProperQueues, topicVars
  <1>7. Lists'
    BY ListsStay DEF Inv, TypeOK, ListsType, topicVars
  <1>8. QueuesReady'
    BY <1>2 DEF Inv, QueuesReady, ProperQueues
  <1>9. ClaimsHonoured'
    <2> SUFFICES ASSUME NEW v \in Sub
                 PROVE  claims[v] <= Stored(queue'[v]) /\ Stored(queue'[v]) <= QueueSize[v]
      BY DEF ClaimsHonoured
    <2>1. claims[v] <= Stored(queue[v]) /\ Stored(queue[v]) <= QueueSize[v] /\ claims[v] \in Nat
          /\ Stored(queue[v]) \in Nat
      BY QueueFacts DEF Inv, ClaimsHonoured, TypeOK
    <2>2. CASE v = su
      BY <1>1, <2>1, <2>2
    <2>3. CASE v # su
      BY <1>2, <2>1, <2>3
    <2> QED
      BY <2>2, <2>3
  <1> QED
    BY <1>5, <1>6, <1>7, <1>8, <1>9

LEMMA DeliverInv ==
    ASSUME Inv, Deliver
    PROVE  Inv'
  <1>1. cs.op = "publish" /\ cs.todo # <<>>
    BY DEF Deliver
  <1>2. /\ cs \in PublishCS /\ Current \in Entry /\ Current.su \in Sub
        /\ status[Current.su] = "live" /\ Tail(cs.todo) \in Seq(Entry)
        /\ \A e \in Range(Tail(cs.todo)) : e \in Range(cs.todo)
    BY <1>1, CurrentLive
  <1>3. cs.msg \in Msg /\ Current.priority \in Prio /\ cs.ret \in Nat /\ cs.accepted \in Nat
    BY <1>2 DEF PublishCS, Entry
  <1>4. Pushed(Current.su) /\ UNCHANGED <<topicVars, status, subs, claims, app>>
    <2>1. Push(Current.su, cs.msg, Current.priority)
      BY DEF Deliver, Push
    <2> QED
      BY <1>2, <1>3, <2>1, PushPushed DEF Inv, Deliver
  <1>5. /\ cs' \in PublishCS /\ cs'.op = "publish" /\ cs'.msg = cs.msg
        /\ cs'.todo = Tail(cs.todo) /\ cs'.checked = FALSE
    <2> DEFINE visible == IF Current.hidden THEN 0 ELSE 1
    <2>1. visible \in Nat
      OBVIOUS
    <2> HIDE DEF visible
    <2>2. \/ cs' = [Served EXCEPT !.ret = @ + visible, !.accepted = @ + visible]
          \/ cs' = [Served EXCEPT !.accepted = @ + visible]
          \/ cs' = Served
      BY DEF Deliver, visible
    <2>3. /\ Served \in PublishCS /\ Served.msg = cs.msg
          /\ Served.todo = Tail(cs.todo) /\ Served.checked = FALSE
      BY <1>2 DEF PublishCS, Served
    <2>4. Served.ret + visible \in Nat /\ Served.accepted + visible \in Nat
      BY <2>1, <2>3 DEF PublishCS
    <2>5. CASE cs' = [Served EXCEPT !.ret = @ + visible, !.accepted = @ + visible]
      BY <2>3, <2>4, <2>5 DEF PublishCS
    <2>6. CASE cs' = [Served EXCEPT !.accepted = @ + visible]
      BY <2>3, <2>4, <2>6 DEF PublishCS
    <2>7. CASE cs' = Served
      BY <2>3, <2>7 DEF PublishCS
    <2> QED
      BY <2>2, <2>5, <2>6, <2>7
  <1>6. \A n \in Msg : InFlight(cs', n) = InFlight(cs, n)
    BY <1>1, <1>5 DEF InFlight
  <1>7. TypeOK' /\ Lists' /\ QueuesReady' /\ ClaimsHonoured' /\ RefsAccounted'
    BY <1>2, <1>4, <1>5, <1>6, PushedInv
  <1>8. OnlyLiveReached' /\ SectionReady' /\ EmptyWhenPushed'
    BY <1>1, <1>2, <1>4, <1>5
    DEF Inv, OnlyLiveReached, SectionReady, EmptyWhenPushed, topicVars
  <1> QED
    BY <1>7, <1>8 DEF Inv

LEMMA PushStickyInv ==
    ASSUME Inv, PushSticky
    PROVE  Inv'
  <1>1. /\ cs.op = "subscribe" /\ cs \in SubscribeCS /\ cs.su \in Sub /\ cs.priority \in Prio
        /\ status[cs.su] = "live"
    BY DEF PushSticky, Inv, TypeOK, NoCS, PublishCS, SubscribeCS, OnlyLiveReached
  <1>2. PICK t \in cs.todo :
           /\ Push(cs.su, sticky[t], cs.priority)
           /\ cs' = IF cs.todo = {t} THEN NoCS ELSE [cs EXCEPT !.todo = @ \ {t}]
    BY DEF PushSticky
  <1>3. sticky[t] \in Msg
    BY <1>1 DEF Inv, TypeOK, SectionReady, SubscribeCS
  <1>4. Pushed(cs.su) /\ UNCHANGED <<topicVars, status, subs, claims, app>>
    BY <1>1, <1>2, <1>3, PushPushed DEF Inv, PushSticky
  <1>5. /\ cs' \in {NoCS} \cup SubscribeCS
        /\ cs'.op # "publish"
        /\ cs'.op = "subscribe" => cs'.su = cs.su /\ cs'.todo \subseteq cs.todo
    BY <1>1, <1>2 DEF SubscribeCS, NoCS
  <1>6. \A n \in Msg : InFlight(cs', n) = InFlight(cs, n)
    BY <1>1, <1>5 DEF InFlight
  <1>7. TypeOK' /\ Lists' /\ QueuesReady' /\ ClaimsHonoured' /\ RefsAccounted'
    BY <1>1, <1>4, <1>5, <1>6, PushedInv
  <1>8. OnlyLiveReached' /\ SectionReady' /\ EmptyWhenPushed'
    BY <1>1, <1>4, <1>5
    DEF Inv, OnlyLiveReached, SectionReady, EmptyWhenPushed, topicVars
  <1> QED
    BY <1>7, <1>8 DEF Inv

LEMMA CheckEmptyInv ==
    ASSUME Inv, CheckEmpty
    PROVE  Inv'
  <1>1. /\ cs.op = "publish" /\ cs.todo # <<>>
        /\ cs' = IF Waiting(Current.su) # 0 THEN Served ELSE [cs EXCEPT !.checked = TRUE]
        /\ UNCHANGED <<topicVars, status, subs, queueVars, msgVars>>
    BY DEF CheckEmpty
  <1>2. /\ cs \in PublishCS /\ Current \in Entry /\ Current.su \in Sub
        /\ status[Current.su] = "live" /\ Tail(cs.todo) \in Seq(Entry)
        /\ \A e \in Range(Tail(cs.todo)) : e \in Range(cs.todo)
    BY <1>1, CurrentLive
  <1>3. /\ cs' \in PublishCS /\ cs'.op = "publish" /\ cs'.msg = cs.msg
        /\ cs'.todo = cs.todo \/ cs'.todo = Tail(cs.todo)
        /\ cs'.checked => cs'.todo = cs.todo /\ Waiting(Current.su) = 0
    BY <1>1, <1>2 DEF PublishCS, Served
  <1>4. TypeOK'
    BY <1>1, <1>3 DEF Inv, TypeOK, topicVars, queueVars, msgVars
  <1>5. Lists'
    BY <1>1, ListsStay DEF Inv, TypeOK, ListsType, topicVars
  <1>6. OnlyLiveReached' /\ SectionReady' /\ QueuesReady'
    BY <1>1, <1>2, <1>3 DEF Inv, OnlyLiveReached, SectionReady, QueuesReady, topicVars, queueVars
  <1>7. EmptyWhenPushed' /\ ClaimsHonoured'
    BY <1>1, <1>3 DEF Inv, EmptyWhenPushed, ClaimsHonoured, Waiting, Current, queueVars
  <1>8. \A n \in Msg : InFlight(cs', n) = InFlight(cs, n)
    BY <1>1, <1>3 DEF InFlight
  <1>9. RefsAccounted'
    BY <1>1, <1>8, AccountedAs, AccountedAsPrimed DEF Inv, topicVars, queueVars, msgVars
  <1> QED
    BY <1>4, <1>5, <1>6, <1>7, <1>9 DEF Inv

LEMMA NextTopicInv ==
    ASSUME Inv, NextTopic
    PROVE  Inv'
  <1>1. /\ cs.op = "publish" /\ cs.todo = <<>> /\ cs.topic # <<>>
        /\ cs' = [cs EXCEPT !.topic = Parent(@), !.todo = subscribers[Parent(cs.topic)]]
        /\ UNCHANGED <<topicVars, status, subs, queueVars, msgVars>>
    BY DEF NextTopic, LastTopic
  <1>2. cs \in PublishCS /\ ~cs.checked
    BY <1>1 DEF Inv, TypeOK, NoCS, SubscribeCS, SectionReady, PublishCS
  <1>3. Parent(cs.topic) \in Topic /\ subscribers[Parent(cs.topic)] \in Seq(Entry)
    BY <1>1, <1>2, PubSubAssumption DEF Inv, TypeOK, PublishCS
  <1>4. /\ cs' \in PublishCS /\ cs'.op = "publish" /\ cs'.msg = cs.msg /\ ~cs'.checked
        /\ cs'.todo = subscribers[Parent(cs.topic)]
    BY <1>1, <1>2, <1>3 DEF PublishCS
  <1>5. TypeOK'
    BY <1>1, <1>4 DEF Inv, TypeOK, topicVars, queueVars, msgVars
  <1>6. Lists'
    BY <1>1, ListsStay DEF Inv, TypeOK, ListsType, topicVars
  <1>7. OnlyLiveReached' /\ SectionReady' /\ QueuesReady'
    BY <1>1, <1>3, <1>4 DEF Inv, OnlyLiveReached, SectionReady, QueuesReady, topicVars, queueVars
  <1>8. EmptyWhenPushed' /\ ClaimsHonoured'
    BY <1>1, <1>4 DEF Inv, EmptyWhenPushed, ClaimsHonoured, queueVars
  <1>9. \A n \in Msg : InFlight(cs', n) = InFlight(cs, n)
    BY <1>1, <1>4 DEF InFlight
  <1>10. RefsAccounted'
    BY <1>1, <1>9, AccountedAs, AccountedAsPrimed DEF Inv, topicVars, queueVars, msgVars
  <1> QED
    BY <1>5, <1>6, <1>7, <1>8, <1>10 DEF Inv

\* ps_publish takes the lock and the sender's reference.
LEMMA PublishingFacts ==
    ASSUME Inv, NEW m \in Msg, Publishing(m)
    PROVE  /\ cs = NoCS /\ kind[m].topic \in Topic /\ UNCHANGED <<subscribers, status, subs, queueVars>>
           /\ app' \in [Msg -> 0..MaxApp]
           /\ \A n \in Msg : app'[n] + InFlight(cs', n) = app[n] + InFlight(cs, n)
           /\ cs' \in PublishCS /\ cs'.op = "publish" /\ cs'.checked = FALSE
           /\ cs'.todo = subscribers[kind[m].topic]
           /\ QueuesReady' /\ OnlyLiveReached' /\ SectionReady' /\ EmptyWhenPushed' /\ ClaimsHonoured'
  <1>1. /\ cs = NoCS /\ app[m] > 0 /\ app' = [app EXCEPT ![m] = @ - 1]
        /\ UNCHANGED <<subscribers, status, subs, queueVars>>
        /\ app \in [Msg -> 0..MaxApp]
    BY DEF Publishing, Inv, TypeOK
  <1>2. kind[m].topic \in Topic /\ subscribers[kind[m].topic] \in Seq(Entry)
    BY DEF Inv, TypeOK, Kind
  <1>3. /\ cs' \in PublishCS /\ cs'.op = "publish" /\ cs'.msg = m /\ cs'.checked = FALSE
        /\ cs'.todo = subscribers[kind[m].topic]
    BY <1>2 DEF Publishing, PublishCS
  <1>4. app' \in [Msg -> 0..MaxApp]
        /\ \A n \in Msg : app'[n] = app[n] - (IF n = m THEN 1 ELSE 0)
    BY <1>1, PubSubAssumption
  <1>5. \A n \in Msg : InFlight(cs', n) = (IF n = m THEN 1 ELSE 0) /\ InFlight(cs, n) = 0
    BY <1>1, <1>3 DEF InFlight, NoCS
  <1>6. \A n \in Msg : app'[n] + InFlight(cs', n) = app[n] + InFlight(cs, n)
    BY <1>1, <1>4, <1>5
  <1>7. QueuesReady' /\ OnlyLiveReached' /\ SectionReady'
    BY <1>1, <1>2, <1>3 DEF Inv, QueuesReady, OnlyLiveReached, SectionReady, queueVars
  <1>8. EmptyWhenPushed' /\ ClaimsHonoured'
    BY <1>1, <1>3 DEF Inv, EmptyWhenPushed, ClaimsHonoured, queueVars
  <1> QED
    BY <1>1, <1>2, <1>3, <1>4, <1>6, <1>7, <1>8

\* The rest of it, whatever becomes of the topic and its sticky message.
LEMMA PublishInv ==
    ASSUME Inv, NEW m \in Msg, Publishing(m), Lists', ListsType',
           kind' \in [Msg -> Kind], ref' \in [Msg -> Int],
           \A n \in Msg : ref'[n] = ref[n] + (Cardinality(StickyAt(sticky', n))
                                              - Cardinality(StickyAt(sticky, n)))
    PROVE  Inv'
  <1>1. /\ UNCHANGED <<subscribers, status, subs, queueVars>>
        /\ app' \in [Msg -> 0..MaxApp] /\ cs' \in PublishCS
        /\ \A n \in Msg : app'[n] + InFlight(cs', n) = app[n] + InFlight(cs, n)
        /\ QueuesReady' /\ OnlyLiveReached' /\ SectionReady' /\ EmptyWhenPushed' /\ ClaimsHonoured'
    BY PublishingFacts
  <1>2. ProperQueues(queue')
    BY <1>1, Proper DEF Inv, queueVars
  <1>3. ASSUME NEW n \in Msg PROVE Counted(n)
    <2>1. /\ ref[n] \in Int /\ app[n] \in Int /\ app'[n] \in Int
          /\ InFlight(cs, n) \in Int /\ InFlight(cs', n) \in Int
          /\ Cardinality(HeldBy(queue, Sub, n)) \in Int /\ queue' = queue
      BY <1>1, HeldByFinite, Proper DEF Inv, TypeOK, InFlight, queueVars
    <2>2. Cardinality(StickyAt(sticky, n)) \in Int /\ Cardinality(StickyAt(sticky', n)) \in Int
      BY StickyAtFinite
    <2>3. app'[n] + InFlight(cs', n) = app[n] + InFlight(cs, n)
      BY <1>1
    <2> QED
      BY <2>1, <2>2, <2>3 DEF Counted
  <1>4. RefsAccounted' /\ ref' \in [Msg -> Nat]
    BY <1>1, <1>2, <1>3, Accounting DEF Inv
  <1>5. TypeOK'
    BY <1>1, <1>4 DEF Inv, TypeOK, ListsType, queueVars
  <1> QED
    BY <1>1, <1>4, <1>5 DEF Inv

LEMMA PublishStickyInv ==
    ASSUME Inv, NEW m \in Msg, PublishSticky(m)
    PROVE  Inv'
  <1> DEFINE t == kind[m].topic
  <1>1. t \in Topic /\ m # NoMsg /\ UNCHANGED <<subscribers, subs>> /\ Publishing(m)
    BY PublishingFacts, PubSubAssumption DEF PublishSticky
  <1>2. /\ topics' = topics \cup {t} /\ sticky' = [sticky EXCEPT ![t] = m]
        /\ sticky \in [Topic -> Msg \cup {NoMsg}] /\ topics \subseteq Topic
        /\ Replace(m, sticky[t])
    BY DEF PublishSticky, Inv, TypeOK
  <1>3. /\ kind' \in [Msg -> Kind]
        /\ ref' = [n \in Msg |-> ref[n] + (IF n = m THEN 1 ELSE 0) - (IF n = sticky[t] THEN 1 ELSE 0)]
    BY <1>2, RecountKind DEF Inv, Replace
  <1> HIDE DEF t
  <1>4. Lists' /\ ListsType'
    <2>1. sticky' \in [Topic -> Msg \cup {NoMsg}] /\ topics' \subseteq Topic
      BY <1>1, <1>2
    <2>2. \A u \in Topic : u \in topics' <=> Used(u, subscribers, sticky')
      BY <1>1, <1>2 DEF Inv, Lists, TopicsInUse, Used
    <2> QED
      BY <1>1, <2>1, <2>2, ListsStickies DEF Inv, TypeOK, ListsType
  <1>5. /\ ref' \in [Msg -> Int]
        /\ \A n \in Msg : ref'[n] = ref[n] + (Cardinality(StickyAt(sticky', n))
                                              - Cardinality(StickyAt(sticky, n)))
    <2>1. ASSUME NEW n \in Msg
          PROVE  Cardinality(StickyAt(sticky', n)) = Cardinality(StickyAt(sticky, n))
                     + (IF n = m THEN 1 ELSE 0) - (IF n = sticky[t] THEN 1 ELSE 0)
      <3>1. sticky \in [Topic -> Msg \cup {NoMsg}] /\ t \in Topic /\ m \in Msg \cup {NoMsg}
        BY <1>1, <1>2
      <3>2. StickyMoved([sticky EXCEPT ![t] = m], sticky, m, sticky[t], n)
        BY <3>1, StickyChanges
      <3>3. sticky' = [sticky EXCEPT ![t] = m]
        BY <1>2
      <3> QED
        BY <3>2, <3>3 DEF StickyMoved
    <2>2. \A n \in Msg : Cardinality(StickyAt(sticky, n)) \in Nat /\ ref[n] \in Nat
      BY StickyAtFinite DEF Inv, TypeOK
    <2>3. ASSUME NEW n \in Msg
          PROVE  /\ ref'[n] \in Int
                 /\ ref'[n] = ref[n] + (Cardinality(StickyAt(sticky', n))
                                        - Cardinality(StickyAt(sticky, n)))
      <3> DEFINE in == IF n = m THEN 1 ELSE 0
                 out == IF n = sticky[t] THEN 1 ELSE 0
      <3>1. in \in Int /\ out \in Int
        OBVIOUS
      <3>2. /\ ref'[n] = ref[n] + in - out
            /\ Cardinality(StickyAt(sticky', n)) = Cardinality(StickyAt(sticky, n)) + in - out
        BY <1>3, <2>1
      <3> HIDE DEF in, out
      <3> QED
        BY <2>2, <3>1, <3>2
    <2> QED
      BY <1>3, <2>3
  <1> QED
    BY <1>1, <1>3, <1>4, <1>5, PublishInv

LEMMA PublishClearsInv ==
    ASSUME Inv, NEW m \in Msg, PublishClears(m)
    PROVE  Inv'
  <1> DEFINE t == kind[m].topic
  <1>1. t \in Topic /\ UNCHANGED <<subscribers, subs>> /\ Publishing(m)
    BY PublishingFacts DEF PublishClears
  <1>2. /\ sticky[t] # NoMsg /\ sticky' = [sticky EXCEPT ![t] = NoMsg]
        /\ topics' = {u \in topics : u = t => Used(t, subscribers, sticky')}
        /\ sticky \in [Topic -> Msg \cup {NoMsg}] /\ topics \subseteq Topic
        /\ Recount([ref EXCEPT ![sticky[t]] = @ - 1])
    BY DEF PublishClears, Inv, TypeOK
  <1>3. kind' \in [Msg -> Kind] /\ ref' = [ref EXCEPT ![sticky[t]] = @ - 1]
    BY <1>2, RecountKind DEF Inv
  <1> HIDE DEF t
  <1>4. Lists' /\ ListsType'
    <2>1. sticky' \in [Topic -> Msg \cup {NoMsg}] /\ topics' \subseteq Topic
      BY <1>1, <1>2
    <2>2. \A u \in Topic : u \in topics' <=> Used(u, subscribers, sticky')
      BY <1>1, <1>2 DEF Inv, Lists, TopicsInUse, Used
    <2> QED
      BY <1>1, <2>1, <2>2, ListsStickies DEF Inv, TypeOK, ListsType
  <1>5. /\ ref' \in [Msg -> Int]
        /\ \A n \in Msg : ref'[n] = ref[n] + (Cardinality(StickyAt(sticky', n))
                                              - Cardinality(StickyAt(sticky, n)))
    <2>1. ASSUME NEW n \in Msg
          PROVE  Cardinality(StickyAt(sticky', n)) = Cardinality(StickyAt(sticky, n))
                                                       - (IF n = sticky[t] THEN 1 ELSE 0)
      <3>0. sticky \in [Topic -> Msg \cup {NoMsg}] /\ t \in Topic /\ NoMsg \in Msg \cup {NoMsg}
        BY <1>1, <1>2
      <3>1. StickyMoved([sticky EXCEPT ![t] = NoMsg], sticky, NoMsg, sticky[t], n)
        BY <3>0, StickyChanges
      <3>2. n # NoMsg /\ Cardinality(StickyAt(sticky, n)) \in Nat
        BY PubSubAssumption, StickyAtFinite
      <3>3. sticky' = [sticky EXCEPT ![t] = NoMsg]
        BY <1>2
      <3> QED
        BY <3>1, <3>2, <3>3 DEF StickyMoved
    <2>2. \A n \in Msg : Cardinality(StickyAt(sticky, n)) \in Nat /\ ref[n] \in Nat
      BY StickyAtFinite DEF Inv, TypeOK
    <2>3. ref \in [Msg -> Nat] /\ sticky[t] \in Msg
      BY <1>1, <1>2 DEF Inv, TypeOK
    <2> QED
      BY <1>3, <2>1, <2>2, <2>3
  <1> QED
    BY <1>1, <1>3, <1>4, <1>5, PublishInv

LEMMA PublishPlainInv ==
    ASSUME Inv, NEW m \in Msg, PublishPlain(m)
    PROVE  Inv'
  <1>1. Publishing(m) /\ UNCHANGED <<topics, sticky, ref, kind>> /\ UNCHANGED <<subscribers, subs>>
    BY PublishingFacts DEF PublishPlain
  <1>2. Lists' /\ ListsType'
    BY <1>1, ListsStay DEF Inv, TypeOK, ListsType
  <1>3. /\ ref' \in [Msg -> Int] /\ kind' \in [Msg -> Kind]
        /\ \A n \in Msg : ref'[n] = ref[n] + (Cardinality(StickyAt(sticky', n))
                                              - Cardinality(StickyAt(sticky, n)))
    <2>1. \A n \in Msg : Cardinality(StickyAt(sticky, n)) \in Nat /\ ref[n] \in Nat
      BY StickyAtFinite DEF Inv, TypeOK
    <2> QED
      BY <1>1, <2>1 DEF Inv, TypeOK
  <1> QED
    BY <1>1, <1>2, <1>3, PublishInv

LEMMA PublishEndsInv ==
    ASSUME Inv, PublishEnds
    PROVE  Inv'
  <1>1. /\ cs.op = "publish" /\ cs' = NoCS
        /\ Recount([ref EXCEPT ![cs.msg] = @ - 1])
        /\ UNCHANGED <<topicVars, status, subs, queueVars, app>>
    BY DEF PublishEnds
  <1>2. cs \in PublishCS /\ cs.msg \in Msg
    BY <1>1 DEF Inv, TypeOK, NoCS, SubscribeCS, PublishCS
  <1>3. kind' \in [Msg -> Kind] /\ ref' = [ref EXCEPT ![cs.msg] = @ - 1]
    BY <1>1, RecountKind DEF Inv
  <1>4. /\ ref \in [Msg -> Nat] /\ ref' \in [Msg -> Int]
        /\ \A n \in Msg : ref'[n] = ref[n] - (IF n = cs.msg THEN 1 ELSE 0)
    BY <1>2, <1>3 DEF Inv, TypeOK
  <1>5. ProperQueues(queue')
    BY <1>1, Proper DEF Inv, queueVars
  <1>6. ASSUME NEW n \in Msg PROVE Counted(n)
    <2>1. /\ app[n] \in Int /\ app' = app /\ queue' = queue /\ sticky' = sticky /\ ref[n] \in Int
          /\ Cardinality(StickyAt(sticky, n)) \in Int
          /\ Cardinality(HeldBy(queue, Sub, n)) \in Int
      BY <1>1, HeldByFinite, StickyAtFinite, Proper DEF Inv, TypeOK, topicVars, queueVars
    <2>2. InFlight(cs', n) = 0 /\ InFlight(cs, n) = IF n = cs.msg THEN 1 ELSE 0
      BY <1>1 DEF InFlight, NoCS
    <2> QED
      BY <1>4, <2>1, <2>2 DEF Counted
  <1>7. RefsAccounted' /\ ref' \in [Msg -> Nat]
    BY <1>1, <1>4, <1>5, <1>6, Accounting DEF Inv, TypeOK
  <1>8. TypeOK'
    BY <1>1, <1>3, <1>7 DEF Inv, TypeOK, topicVars, queueVars
  <1>9. Lists'
    BY <1>1, ListsStay DEF Inv, TypeOK, ListsType, topicVars
  <1>10. OnlyLiveReached' /\ SectionReady' /\ QueuesReady' /\ EmptyWhenPushed' /\ ClaimsHonoured'
    BY <1>1 DEF Inv, OnlyLiveReached, SectionReady, QueuesReady, EmptyWhenPushed, ClaimsHonoured,
                NoCS, topicVars, queueVars
  <1> QED
    BY <1>7, <1>8, <1>9, <1>10 DEF Inv

LEMMA NewSubscriberInv ==
    ASSUME Inv, NEW su \in Sub, NewSubscriber(su)
    PROVE  Inv'
  <1>1. /\ status[su] = "none" /\ status' = [status EXCEPT ![su] = "live"]
        /\ queue' = queue
        /\ overflow' = [overflow EXCEPT ![su] = 0]
        /\ UNCHANGED <<topicVars, subs, claims, msgVars, cs>>
    BY DEF NewSubscriber, Inv, TypeOK, QueuesReady
  <1>2. status \in [Sub -> {"none", "live", "freeing"}] /\ status'[su] = "live"
        /\ \A v \in Sub \ {su} : status'[v] = status[v]
    BY <1>1 DEF Inv, TypeOK
  <1>3. TypeOK'
    <2>1. 0 \in 0..(OverflowMod - 1)
      BY PubSubAssumption
    <2> QED
      BY <1>1, <2>1 DEF Inv, TypeOK, topicVars, msgVars
  <1>4. Lists'
    BY <1>1, ListsStay DEF Inv, TypeOK, ListsType, topicVars
  <1>5. OnlyLiveReached'
    <2>1. \A t \in Topic : subscribers[t] \in Seq(Entry)
      BY DEF Inv, TypeOK
    <2>3. ASSUME NEW t \in Topic, NEW e \in Range(subscribers[t]) PROVE status'[e.su] = "live"
      <3>1. e \in Entry /\ status[e.su] = "live"
        BY <2>1, RangeOf DEF Inv, OnlyLiveReached
      <3> QED
        BY <1>2, <3>1 DEF Entry
    <2>4. ASSUME cs.op = "publish", NEW e \in Range(cs.todo) PROVE status'[e.su] = "live"
      <3>1. cs.todo \in Seq(Entry)
        BY <2>4 DEF Inv, TypeOK, NoCS, SubscribeCS, PublishCS
      <3>2. e \in Entry /\ status[e.su] = "live"
        BY <2>4, <3>1, RangeOf DEF Inv, OnlyLiveReached
      <3> QED
        BY <1>2, <3>2 DEF Entry
    <2>5. cs.op = "subscribe" => status'[cs.su] = "live"
      BY <1>2 DEF Inv, TypeOK, OnlyLiveReached, NoCS, PublishCS, SubscribeCS
    <2>6. \A v \in Sub : claims[v] > 0 => status'[v] = "live"
      BY <1>2 DEF Inv, OnlyLiveReached
    <2> QED
      BY <1>1, <2>3, <2>4, <2>5, <2>6 DEF OnlyLiveReached, topicVars
  <1>6. SectionReady' /\ QueuesReady'
    BY <1>1, <1>2 DEF Inv, SectionReady, QueuesReady, topicVars
  <1>7. EmptyWhenPushed' /\ ClaimsHonoured'
    BY <1>1 DEF Inv, EmptyWhenPushed, ClaimsHonoured, Waiting, Current
  <1>8. RefsAccounted'
    BY <1>1, AccountedAs, AccountedAsPrimed DEF Inv, topicVars, msgVars
  <1> QED
    BY <1>3, <1>4, <1>5, <1>6, <1>7, <1>8 DEF Inv

\* The critical sections that change only who subscribes to what.
LEMMA ListStep ==
    ASSUME Inv, cs = NoCS, Lists', ListsType', UNCHANGED <<sticky, queueVars, msgVars>>,
           status' \in [Sub -> {"none", "live", "freeing"}],
           \A su \in Sub : status'[su] = "none" => status[su] = "none",
           \A su \in Sub : claims[su] > 0 => status'[su] = "live",
           \A t \in Topic : \A i \in 1..Len(subscribers'[t]) :
               status'[subscribers'[t][i].su] = "live",
           cs' \in {NoCS} \cup SubscribeCS,
           cs'.op = "subscribe" => /\ status'[cs'.su] = "live"
                                   /\ \A t \in cs'.todo : sticky[t] # NoMsg
    PROVE  Inv'
  <1>1. TypeOK'
    BY DEF Inv, TypeOK, ListsType, queueVars, msgVars
  <1>2. cs'.op # "publish"
    BY DEF NoCS, SubscribeCS
  <1>3. OnlyLiveReached'
    <2>1. \A t \in Topic : \A e \in Range(subscribers'[t]) : status'[e.su] = "live"
      <3> TAKE t \in Topic
      <3>1. subscribers'[t] \in Seq(Entry)
        BY DEF ListsType
      <3>2. \A e \in Range(subscribers'[t]) : \E i \in 1..Len(subscribers'[t]) : subscribers'[t][i] = e
        BY <3>1, RangeOf
      <3> QED
        BY <3>2
    <2> QED
      BY <1>2, <2>1 DEF OnlyLiveReached, queueVars
  <1>4. SectionReady' /\ QueuesReady'
    BY <1>2 DEF Inv, SectionReady, QueuesReady, queueVars
  <1>5. EmptyWhenPushed' /\ ClaimsHonoured'
    BY <1>2 DEF Inv, EmptyWhenPushed, ClaimsHonoured, queueVars
  <1>6. \A m : InFlight(cs', m) = InFlight(cs, m)
    BY <1>2 DEF InFlight, NoCS
  <1>7. RefsAccounted'
    BY <1>6, AccountedAs, AccountedAsPrimed DEF Inv, queueVars, msgVars
  <1> QED
    BY <1>1, <1>3, <1>4, <1>5, <1>7 DEF Inv

\* The subscribers in the lists, at the beginning of a critical section.
LEMMA ListedLive ==
    ASSUME Inv, NEW t \in Topic, NEW i \in 1..Len(subscribers[t])
    PROVE  status[subscribers[t][i].su] = "live" /\ subscribers[t][i].su \in Sub
  <1>1. subscribers[t] \in Seq(Entry)
    BY DEF Inv, TypeOK
  <1>2. subscribers[t][i] \in Entry /\ subscribers[t][i] \in Range(subscribers[t])
    BY <1>1, RangeOf
  <1> QED
    BY <1>2 DEF Inv, OnlyLiveReached, Entry

LEMMA SubscribeInv ==
    ASSUME Inv, NEW su \in Sub, NEW t \in Topic, NEW f \in SubFlags, Subscribe(su, t, f)
    PROVE  Inv'
  <1>1. /\ Lists' /\ ListsType'
        /\ \A u \in Topic : \A i \in 1..Len(subscribers'[u]) :
              \/ subscribers'[u][i].su = su
              \/ \E j \in 1..Len(subscribers[u]) : subscribers'[u][i] = subscribers[u][j]
    BY SubscribeLists DEF Inv
  <1>2. /\ cs = NoCS /\ status[su] = "live"
        /\ UNCHANGED <<sticky, status, queueVars, msgVars>>
        /\ cs' = IF StickiesFor(t, f) = {} THEN NoCS
                 ELSE [op |-> "subscribe", su |-> su, todo |-> StickiesFor(t, f),
                       priority |-> f.priority]
    BY DEF Subscribe
  <1>3. /\ StickiesFor(t, f) \subseteq Topic /\ f.priority \in Prio
        /\ \A u \in StickiesFor(t, f) : sticky[u] # NoMsg
    BY PubSubAssumption DEF StickiesFor, Flags, Inv, TypeOK
  <1>4. /\ cs' \in {NoCS} \cup SubscribeCS
        /\ cs'.op = "subscribe" => cs'.su = su /\ cs'.todo = StickiesFor(t, f)
    BY <1>2, <1>3 DEF SubscribeCS, NoCS
  <1>5. \A u \in Topic : \A i \in 1..Len(subscribers'[u]) :
           status'[subscribers'[u][i].su] = "live"
    BY <1>1, <1>2, ListedLive
  <1>6. /\ status' \in [Sub -> {"none", "live", "freeing"}]
        /\ \A v \in Sub : status'[v] = "none" => status[v] = "none"
        /\ \A v \in Sub : claims[v] > 0 => status'[v] = "live"
    BY <1>2 DEF Inv, TypeOK, OnlyLiveReached
  <1> QED
    BY <1>1, <1>2, <1>3, <1>4, <1>5, <1>6, ListStep

LEMMA UnsubscribeInv ==
    ASSUME Inv, NEW su \in Sub, NEW t \in Topic, Unsubscribe(su, t)
    PROVE  Inv'
  <1>1. /\ Lists' /\ ListsType'
        /\ \A u \in Topic : \A i \in 1..Len(subscribers'[u]) :
              \E j \in 1..Len(subscribers[u]) : subscribers'[u][i] = subscribers[u][j]
    BY UnsubscribeLists DEF Inv
  <1>2. cs = NoCS /\ cs' = NoCS /\ UNCHANGED <<sticky, status, queueVars, msgVars>>
    BY DEF Unsubscribe
  <1>3. \A u \in Topic : \A i \in 1..Len(subscribers'[u]) :
           status'[subscribers'[u][i].su] = "live"
    BY <1>1, <1>2, ListedLive
  <1>4. /\ status' \in [Sub -> {"none", "live", "freeing"}]
        /\ \A v \in Sub : status'[v] = "none" => status[v] = "none"
        /\ \A v \in Sub : claims[v] > 0 => status'[v] = "live"
    BY <1>2 DEF Inv, TypeOK, OnlyLiveReached
  <1>5. cs' \in {NoCS} \cup SubscribeCS /\ cs'.op # "subscribe"
    BY <1>2 DEF NoCS
  <1> QED
    BY <1>1, <1>2, <1>3, <1>4, <1>5, ListStep

LEMMA UnsubscribeAllInv ==
    ASSUME Inv, NEW su \in Sub, UnsubscribeAll(su)
    PROVE  Inv'
  <1>0. DropAll(su) /\ UNCHANGED <<sticky, status, queueVars, msgVars, cs>>
    BY DEF UnsubscribeAll
  <1>1. /\ Lists' /\ ListsType'
        /\ \A u \in Topic : \A i \in 1..Len(subscribers'[u]) :
              \E j \in 1..Len(subscribers[u]) : subscribers'[u][i] = subscribers[u][j]
    BY <1>0, DropAllLists DEF Inv
  <1>2. cs = NoCS /\ cs' = NoCS
    BY <1>0 DEF DropAll
  <1>3. \A u \in Topic : \A i \in 1..Len(subscribers'[u]) :
           status'[subscribers'[u][i].su] = "live"
    BY <1>0, <1>1, ListedLive
  <1>4. /\ status' \in [Sub -> {"none", "live", "freeing"}]
        /\ \A v \in Sub : status'[v] = "none" => status[v] = "none"
        /\ \A v \in Sub : claims[v] > 0 => status'[v] = "live"
    BY <1>0 DEF Inv, TypeOK, OnlyLiveReached
  <1>5. cs' \in {NoCS} \cup SubscribeCS /\ cs'.op # "subscribe"
    BY <1>2 DEF NoCS
  <1> QED
    BY <1>0, <1>1, <1>2, <1>3, <1>4, <1>5, ListStep

LEMMA FreeSubscriberInv ==
    ASSUME Inv, NEW su \in Sub, FreeSubscriber(su)
    PROVE  Inv'
  <1>0. /\ status[su] = "live" /\ claims[su] = 0 /\ DropAll(su)
        /\ status' = [status EXCEPT ![su] = "freeing"]
        /\ UNCHANGED <<sticky, queueVars, msgVars, cs>>
        /\ status \in [Sub -> {"none", "live", "freeing"}]
    BY DEF FreeSubscriber, Inv, TypeOK
  <1>1. /\ Lists' /\ ListsType'
        /\ \A u \in Topic : \A i \in 1..Len(subscribers'[u]) :
              /\ subscribers'[u][i].su # su
              /\ \E j \in 1..Len(subscribers[u]) : subscribers'[u][i] = subscribers[u][j]
    BY <1>0, DropAllLists DEF Inv
  <1>2. cs = NoCS /\ cs' = NoCS
    BY <1>0 DEF DropAll
  <1>3. \A u \in Topic : \A i \in 1..Len(subscribers'[u]) :
           status'[subscribers'[u][i].su] = "live"
    BY <1>0, <1>1, ListedLive
  <1>4. /\ status' \in [Sub -> {"none", "live", "freeing"}]
        /\ \A v \in Sub : status'[v] = "none" => status[v] = "none"
        /\ \A v \in Sub : claims[v] > 0 => status'[v] = "live"
    BY <1>0 DEF Inv, OnlyLiveReached
  <1>5. cs' \in {NoCS} \cup SubscribeCS /\ cs'.op # "subscribe"
    BY <1>2 DEF NoCS
  <1> QED
    BY <1>0, <1>1, <1>2, <1>3, <1>4, <1>5, ListStep

\* A queue that only ps_free_subscriber can still reach gets shorter.
QueueFreed(su, r) ==
    /\ QueueStep(su, r)
    /\ status[su] = "freeing"
    /\ overflow' \in [Sub -> 0..(OverflowMod - 1)]
    /\ Stored(r) \in Nat /\ Stored(r) <= Stored(queue[su])
    /\ UNCHANGED <<topicVars, subs, claims, app, cs>>

LEMMA QueueFreedInv ==
    ASSUME Inv, NEW su \in Sub, NEW r, QueueFreed(su, r),
           \/ status' = status
           \/ status' = [status EXCEPT ![su] = "none"] /\ r = Empty(Prio)
    PROVE  Inv'
  <1>1. /\ QueueStep(su, r) /\ status[su] = "freeing"
        /\ overflow' \in [Sub -> 0..(OverflowMod - 1)]
        /\ Stored(r) \in Nat /\ Stored(r) <= Stored(queue[su])
        /\ UNCHANGED <<topicVars, subs, claims, app, cs>>
    BY DEF QueueFreed
  <1>2. /\ ProperQueues(queue')
        /\ queue'[su] = r /\ \A v \in Sub \ {su} : queue'[v] = queue[v]
        /\ \A n \in Msg :
              ref'[n] = ref[n] + (Cardinality(HeldBy(queue', Sub, n))
                                  - Cardinality(HeldBy(queue, Sub, n)))
    BY <1>1, QueueStepCounts DEF Inv
  <1>3. kind' \in [Msg -> Kind] /\ ref' \in [Msg -> Int]
    BY <1>1 DEF QueueStep
  <1>4. ASSUME NEW n \in Msg PROVE Counted(n)
    <2>1. /\ InFlight(cs, n) \in Int /\ cs' = cs
          /\ app[n] \in Int /\ app' = app /\ sticky' = sticky /\ ref[n] \in Int
          /\ Cardinality(StickyAt(sticky, n)) \in Int
      BY <1>1, StickyAtFinite DEF Inv, TypeOK, InFlight, topicVars
    <2>2. /\ Cardinality(HeldBy(queue', Sub, n)) \in Int
          /\ Cardinality(HeldBy(queue, Sub, n)) \in Int
      BY <1>2, HeldByFinite, Proper DEF Inv
    <2> QED
      BY <1>2, <2>1, <2>2 DEF Counted
  <1>5. RefsAccounted' /\ ref' \in [Msg -> Nat]
    BY <1>1, <1>2, <1>3, <1>4, Accounting DEF Inv, TypeOK
  <1>6. /\ status' \in [Sub -> {"none", "live", "freeing"}]
        /\ \A v \in Sub : status[v] = "live" => status'[v] = "live"
        /\ \A v \in Sub : status'[v] = "none" => status[v] = "none" \/ (v = su /\ r = Empty(Prio))
    BY <1>1 DEF Inv, TypeOK
  <1>7. TypeOK'
    BY <1>1, <1>2, <1>3, <1>5, <1>6 DEF Inv, TypeOK, ProperQueues, topicVars
  <1>8. Lists'
    BY <1>1, ListsStay DEF Inv, TypeOK, ListsType, topicVars
  <1>9. claims[su] = 0
    <2>1. claims[su] \in Nat
      BY DEF Inv, TypeOK
    <2>2. ~(claims[su] > 0)
      BY <1>1 DEF Inv, OnlyLiveReached
    <2> QED
      BY <2>1, <2>2
  <1>10. OnlyLiveReached'
    <2>1. \A t \in Topic : subscribers[t] \in Seq(Entry)
      BY DEF Inv, TypeOK
    <2>2. ASSUME NEW t \in Topic, NEW e \in Range(subscribers[t]) PROVE status'[e.su] = "live"
      <3>1. e \in Entry /\ status[e.su] = "live"
        BY <2>1, RangeOf DEF Inv, OnlyLiveReached
      <3> QED
        BY <1>6, <3>1 DEF Entry
    <2>3. ASSUME cs.op = "publish", NEW e \in Range(cs.todo) PROVE status'[e.su] = "live"
      <3>1. cs.todo \in Seq(Entry)
        BY <2>3 DEF Inv, TypeOK, NoCS, SubscribeCS, PublishCS
      <3>2. e \in Entry /\ status[e.su] = "live"
        BY <2>3, <3>1, RangeOf DEF Inv, OnlyLiveReached
      <3> QED
        BY <1>6, <3>2 DEF Entry
    <2>4. cs.op = "subscribe" => status'[cs.su] = "live"
      BY <1>6 DEF Inv, TypeOK, OnlyLiveReached, NoCS, PublishCS, SubscribeCS
    <2>5. \A v \in Sub : claims[v] > 0 => status'[v] = "live"
      BY <1>6 DEF Inv, OnlyLiveReached
    <2> QED
      BY <1>1, <2>2, <2>3, <2>4, <2>5 DEF OnlyLiveReached, topicVars
  <1>11. SectionReady' /\ QueuesReady'
    BY <1>1, <1>2, <1>6 DEF Inv, SectionReady, QueuesReady, ProperQueues, topicVars
  <1>12. EmptyWhenPushed'
    <2> SUFFICES ASSUME cs.op = "publish", cs.checked PROVE Waiting(Current.su)' = 0
      BY <1>1 DEF EmptyWhenPushed
    <2>1. Waiting(Current.su) = 0 /\ Current.su \in Sub /\ status[Current.su] = "live"
      BY CurrentLive DEF Inv, EmptyWhenPushed, SectionReady
    <2> QED
      BY <1>1, <1>2, <2>1 DEF Waiting, Current
  <1>13. ClaimsHonoured'
    <2> SUFFICES ASSUME NEW v \in Sub
                 PROVE  claims[v] <= Stored(queue'[v]) /\ Stored(queue'[v]) <= QueueSize[v]
      BY <1>1 DEF ClaimsHonoured
    <2>1. /\ claims[v] <= Stored(queue[v]) /\ Stored(queue[v]) <= QueueSize[v]
          /\ Stored(queue[v]) \in Nat /\ QueueSize[v] \in Nat
      BY QueueFacts, PubSubAssumption DEF Inv, ClaimsHonoured
    <2>2. CASE v = su
      BY <1>1, <1>2, <1>9, <2>1, <2>2
    <2>3. CASE v # su
      BY <1>2, <2>1, <2>3
    <2> QED
      BY <2>2, <2>3
  <1> QED
    BY <1>5, <1>7, <1>8, <1>10, <1>11, <1>12, <1>13 DEF Inv

LEMMA FreeFlushesInv ==
    ASSUME Inv, NEW su \in Sub, FreeFlushes(su)
    PROVE  Inv'
  <1>1. PICK p \in Prio :
           /\ queue[su][p] # <<>>
           /\ queue' = [queue EXCEPT ![su] = RemoveOldest(@, p)]
           /\ Recount([ref EXCEPT ![Oldest(queue[su], p)] = @ - 1])
    BY DEF FreeFlushes, IsHighest
  <1> DEFINE b == queue[su]
             r == RemoveOldest(queue[su], p)
             o == Oldest(queue[su], p)
  <1>2. /\ status[su] = "freeing"
        /\ UNCHANGED <<topicVars, status, subs, claims, overflow, app, cs>>
        /\ ref \in [Msg -> Nat]
    BY DEF FreeFlushes, Inv, TypeOK
  <1>3. /\ r \in [Prio -> Seq(Msg)] /\ IsFiniteSet(Slots(r))
        /\ Stored(r) = Stored(b) - 1 /\ o \in Msg
        /\ \A n : Cardinality(Holding(r, n)) =
                     Cardinality(Holding(b, n)) - (IF n = o THEN 1 ELSE 0)
    BY <1>1, Pulled DEF Inv
  <1>4. Stored(b) \in Nat /\ \A n : Cardinality(Holding(b, n)) \in Nat
    BY QueueFacts DEF Inv
  <1>5. kind' \in [Msg -> Kind] /\ ref' = [ref EXCEPT ![o] = @ - 1]
    BY <1>1, RecountKind DEF Inv
  <1>6. queue' = [queue EXCEPT ![su] = r]
    BY <1>1
  <1> HIDE DEF r, o
  <1>7. QueueStep(su, r)
    <2>1. ref' \in [Msg -> Int] /\ \A n \in Msg : ref'[n] = ref[n] - (IF n = o THEN 1 ELSE 0)
      BY <1>2, <1>3, <1>5
    <2>2. ASSUME NEW n \in Msg
          PROVE  ref'[n] = ref[n] + (Cardinality(Holding(r, n)) - Cardinality(Holding(b, n)))
      BY <1>2, <1>3, <1>4, <2>1
    <2> QED
      BY <1>3, <1>5, <1>6, <2>1, <2>2 DEF QueueStep
  <1>8. QueueFreed(su, r)
    <2>1. Stored(r) \in Nat /\ Stored(r) <= Stored(b)
      <3>1. Stored(r) \in Nat
        BY <1>3, FS_CardinalityType DEF Stored
      <3> QED
        BY <1>3, <1>4, <3>1
    <2> QED
      BY <1>2, <1>7, <2>1 DEF QueueFreed, Inv, TypeOK, topicVars
  <1>9. status' = status /\ r \in [Prio -> Seq(Msg)] /\ UNCHANGED overflow
    BY <1>2, <1>3
  <1> QED
    BY <1>2, <1>8, <1>9, QueueFreedInv DEF Inv, TypeOK

LEMMA FreeEndsInv ==
    ASSUME Inv, NEW su \in Sub, FreeEnds(su)
    PROVE  Inv'
  <1> DEFINE b == queue[su]
             r == Empty(Prio)
  <1>1. /\ status[su] = "freeing" /\ status' = [status EXCEPT ![su] = "none"]
        /\ queue' = [queue EXCEPT ![su] = r]
        /\ Recount([m \in Msg |-> ref[m] - Cardinality(Holding(b, m))])
        /\ overflow' = [overflow EXCEPT ![su] = 0]
        /\ UNCHANGED <<topicVars, subs, claims, app, cs>>
        /\ ref \in [Msg -> Nat] /\ overflow \in [Sub -> 0..(OverflowMod - 1)]
    BY DEF FreeEnds, FreeQueue, Inv, TypeOK
  <1>2. r \in [Prio -> Seq(Msg)] /\ Slots(r) = {}
    BY DEF Empty, Slots
  <1>3. /\ IsFiniteSet(Slots(r)) /\ Stored(r) = 0
        /\ \A n : Cardinality(Holding(r, n)) = 0
    <2>1. \A n : Holding(r, n) = {}
      BY <1>2 DEF Holding
    <2> QED
      BY <1>2, <2>1, FS_EmptySet DEF Stored
  <1>4. Stored(b) \in Nat /\ \A n : Cardinality(Holding(b, n)) \in Nat
    BY QueueFacts DEF Inv
  <1>5. kind' \in [Msg -> Kind] /\ ref' = [m \in Msg |-> ref[m] - Cardinality(Holding(b, m))]
    BY <1>1, RecountKind DEF Inv
  <1>6. QueueStep(su, r)
    <2>1. ref' \in [Msg -> Int] /\ \A n \in Msg : ref'[n] = ref[n] - Cardinality(Holding(b, n))
      BY <1>1, <1>4, <1>5
    <2>2. ASSUME NEW n \in Msg
          PROVE  ref'[n] = ref[n] + (Cardinality(Holding(r, n)) - Cardinality(Holding(b, n)))
      BY <1>1, <1>3, <1>4, <2>1
    <2> HIDE DEF r
    <2> QED
      BY <1>1, <1>2, <1>3, <1>5, <2>1, <2>2 DEF QueueStep
  <1>7. overflow' \in [Sub -> 0..(OverflowMod - 1)]
    <2>1. 0 \in 0..(OverflowMod - 1)
      BY PubSubAssumption
    <2> QED
      BY <1>1, <2>1
  <1>8. QueueFreed(su, r)
    BY <1>1, <1>3, <1>4, <1>6, <1>7 DEF QueueFreed, topicVars
  <1> QED
    BY <1>1, <1>8, QueueFreedInv DEF Inv, TypeOK

LEMMA CleanStickyInv ==
    ASSUME Inv, NEW prefix \in Topic, CleanSticky(prefix)
    PROVE  Inv'
  <1> DEFINE C == {t \in topics : HasPrefix(t, prefix) /\ sticky[t] # NoMsg}
  <1>1. /\ cs = NoCS /\ cs' = cs
        /\ Recount([m \in Msg |-> ref[m] - Cardinality({t \in C : sticky[t] = m})])
        /\ sticky' = [t \in Topic |-> IF t \in C THEN NoMsg ELSE sticky[t]]
        /\ topics' = {t \in topics : t \in C => Used(t, subscribers, sticky')}
        /\ UNCHANGED <<subscribers, status, subs, queueVars, app, cs>>
    BY DEF CleanSticky
  <1>2. /\ C \subseteq topics /\ C \subseteq Topic /\ topics \subseteq Topic
        /\ sticky \in [Topic -> Msg \cup {NoMsg}] /\ ref \in [Msg -> Nat]
    BY DEF Inv, TypeOK
  <1>3. /\ kind' \in [Msg -> Kind]
        /\ ref' = [m \in Msg |-> ref[m] - Cardinality({t \in C : sticky[t] = m})]
    BY <1>1, RecountKind DEF Inv
  <1> HIDE DEF C
  <1>4. Lists' /\ ListsType'
    <2>1. sticky' \in [Topic -> Msg \cup {NoMsg}] /\ topics' \subseteq Topic
      BY <1>1, <1>2
    <2>2. \A u \in Topic : u \in topics' <=> Used(u, subscribers, sticky')
      BY <1>1, <1>2 DEF Inv, Lists, TopicsInUse, Used
    <2> QED
      BY <1>1, <2>1, <2>2, ListsStickies DEF Inv, TypeOK, ListsType
  <1> DEFINE gone == [m \in Msg |-> Cardinality({t \in C : sticky[t] = m})]
  <1>5. ASSUME NEW m \in Msg
        PROVE  /\ ref'[m] = ref[m] - gone[m]
               /\ Cardinality(StickyAt(sticky', m)) = Cardinality(StickyAt(sticky, m)) - gone[m]
               /\ gone[m] \in Nat
    <2>1. ref'[m] = ref[m] - Cardinality({t \in C : sticky[t] = m})
      BY <1>3
    <2>2. /\ Cardinality(StickyAt(sticky', m)) =
                Cardinality(StickyAt(sticky, m)) - Cardinality({t \in C : sticky[t] = m})
          /\ Cardinality({t \in C : sticky[t] = m}) \in Nat
      BY <1>1, <1>2, StickyCleaned
    <2> QED
      BY <2>1, <2>2
  <1> HIDE DEF gone
  <1>6. ProperQueues(queue')
    BY <1>1, Proper DEF Inv, queueVars
  <1>7. ASSUME NEW n \in Msg PROVE Counted(n)
    <2>1. /\ app[n] \in Int /\ app' = app /\ queue' = queue /\ cs' = cs /\ ref[n] \in Int
          /\ InFlight(cs, n) \in Int
          /\ Cardinality(StickyAt(sticky, n)) \in Int
          /\ Cardinality(HeldBy(queue, Sub, n)) \in Int
      BY <1>1, HeldByFinite, StickyAtFinite, Proper DEF Inv, TypeOK, queueVars, InFlight
    <2> QED
      BY <1>5, <2>1 DEF Counted
  <1>8. RefsAccounted' /\ ref' \in [Msg -> Nat]
    <2>1. ref' \in [Msg -> Int]
      <3>1. DOMAIN ref' = Msg /\ ref' = [m \in DOMAIN ref' |-> ref'[m]]
        BY <1>3
      <3>2. \A m \in Msg : ref'[m] \in Int
        BY <1>2, <1>5
      <3> QED
        BY <3>1, <3>2
    <2> QED
      BY <1>1, <1>6, <1>7, <2>1, Accounting DEF Inv, TypeOK
  <1>9. TypeOK'
    BY <1>1, <1>3, <1>4, <1>8 DEF Inv, TypeOK, ListsType, queueVars
  <1>10. OnlyLiveReached' /\ SectionReady' /\ QueuesReady' /\ EmptyWhenPushed' /\ ClaimsHonoured'
    BY <1>1 DEF Inv, OnlyLiveReached, SectionReady, QueuesReady, EmptyWhenPushed, ClaimsHonoured,
                NoCS, queueVars
  <1> QED
    BY <1>4, <1>8, <1>9, <1>10 DEF Inv

(***************************************************************************)
(* The theorems                                                            *)
(***************************************************************************)

LEMMA StutterInv ==
    ASSUME Inv, UNCHANGED vars
    PROVE  Inv'
  <1>1. /\ Lists' /\ OnlyLiveReached' /\ SectionReady' /\ QueuesReady'
        /\ EmptyWhenPushed' /\ ClaimsHonoured'
    BY OthersStay DEF vars
  <1>2. TypeOK'
    BY DEF Inv, TypeOK, vars
  <1>3. RefsAccounted'
    BY AccountedAs, AccountedAsPrimed DEF Inv, vars
  <1> QED
    BY <1>1, <1>2, <1>3 DEF Inv

LEMMA NextInv ==
    ASSUME Inv, [Next]_vars
    PROVE  Inv'
  <1>1. ASSUME NEW m \in Msg, NEW k \in MsgKind, NewMsg(m, k) PROVE Inv'
    BY <1>1, NewMsgInv
  <1>2. ASSUME NEW m \in Msg, RefMsg(m) \/ UnrefMsg(m) PROVE Inv'
    BY <1>2, RefMsgInv, UnrefMsgInv
  <1>3. ASSUME NEW m \in Msg, Publish(m) PROVE Inv'
    BY <1>3, PublishStickyInv, PublishClearsInv, PublishPlainInv DEF Publish
  <1>4. ASSUME PublishGoesOn PROVE Inv'
    BY <1>4, CheckEmptyInv, DeliverInv, NextTopicInv, PublishEndsInv DEF PublishGoesOn
  <1>5. ASSUME NEW su \in Sub, NewSubscriber(su) PROVE Inv'
    BY <1>5, NewSubscriberInv
  <1>6. ASSUME NEW su \in Sub, NEW t \in Topic, NEW f \in SubFlags, Subscribe(su, t, f) PROVE Inv'
    BY <1>6, SubscribeInv
  <1>7. ASSUME NEW su \in Sub, NEW t \in Topic, Unsubscribe(su, t) PROVE Inv'
    BY <1>7, UnsubscribeInv
  <1>8. ASSUME NEW su \in Sub, UnsubscribeAll(su) PROVE Inv'
    BY <1>8, UnsubscribeAllInv
  <1>9. ASSUME NEW su \in Sub, FreeSubscriber(su) \/ FreeFlushes(su) \/ FreeEnds(su) PROVE Inv'
    BY <1>9, FreeSubscriberInv, FreeFlushesInv, FreeEndsInv
  <1>10. ASSUME NEW su \in Sub, Claim(su) \/ Take(su) PROVE Inv'
    BY <1>10, ClaimInv, TakeInv
  <1>11. ASSUME PushSticky PROVE Inv'
    BY <1>11, PushStickyInv
  <1>12. ASSUME NEW t \in Topic, CleanSticky(t) PROVE Inv'
    BY <1>12, CleanStickyInv
  <1>13. CASE UNCHANGED vars
    BY <1>13, StutterInv
  <1> QED
    BY <1>1, <1>2, <1>3, <1>4, <1>5, <1>6, <1>7, <1>8, <1>9, <1>10, <1>11, <1>12, <1>13 DEF Next

\* The inductive invariant holds in every reachable state.
THEOREM Invariance == Spec => []Inv
  BY InitInv, NextInv, PTL DEF Spec

\* The number of entries, counted as in SubscriptionsMirror.
LEMMA EntriesCounted ==
    ASSUME NEW s \in Seq(Entry), NoneTwice(s), NEW su
    PROVE  Cardinality({i \in DOMAIN s : s[i].su = su}) = IF Enlisted(s, su) THEN 1 ELSE 0
  <1>1. CASE Enlisted(s, su)
    <2>1. PICK k \in 1..Len(s) : s[k].su = su
      BY <1>1 DEF Enlisted
    <2>2. {i \in DOMAIN s : s[i].su = su} = {k}
      BY <2>1 DEF NoneTwice
    <2> QED
      BY <1>1, <2>2, FS_Singleton
  <1>2. CASE ~Enlisted(s, su)
    <2>1. {i \in DOMAIN s : s[i].su = su} = {}
      BY <1>2 DEF Enlisted
    <2> QED
      BY <1>2, <2>1, FS_EmptySet
  <1> QED
    BY <1>1, <1>2

LEMMA TopicsCounted ==
    ASSUME NEW s \in Seq(Topic), AllDifferent(s), NEW t
    PROVE  Cardinality({i \in DOMAIN s : s[i] = t}) = IF Contains(s, t) THEN 1 ELSE 0
  <1>1. CASE Contains(s, t)
    <2>1. PICK k \in 1..Len(s) : s[k] = t
      BY <1>1 DEF Contains
    <2>2. {i \in DOMAIN s : s[i] = t} = {k}
      BY <2>1 DEF AllDifferent
    <2> QED
      BY <1>1, <2>2, FS_Singleton
  <1>2. CASE ~Contains(s, t)
    <2>1. {i \in DOMAIN s : s[i] = t} = {}
      BY <1>2 DEF Contains
    <2> QED
      BY <1>2, <2>1, FS_EmptySet
  <1> QED
    BY <1>1, <1>2

LEMMA InvTopicMapSound == Inv => TopicMapSound
  <1> SUFFICES ASSUME Inv PROVE TopicMapSound
    OBVIOUS
  <1>1. ASSUME NEW su \in Sub, NEW t \in Topic
        PROVE  /\ Cardinality({i \in DOMAIN subscribers[t] : subscribers[t][i].su = su}) =
                    Cardinality({i \in DOMAIN subs[su] : subs[su][i] = t})
               /\ Cardinality({i \in DOMAIN subs[su] : subs[su][i] = t}) <= 1
    <2>1. /\ subscribers[t] \in Seq(Entry) /\ NoneTwice(subscribers[t])
          /\ subs[su] \in Seq(Topic) /\ AllDifferent(subs[su])
          /\ Enlisted(subscribers[t], su) <=> Contains(subs[su], t)
      BY DEF Inv, TypeOK, Lists, ListsDistinct, ListsMirror
    <2>2. Cardinality({i \in DOMAIN subscribers[t] : subscribers[t][i].su = su}) =
            IF Enlisted(subscribers[t], su) THEN 1 ELSE 0
      BY <2>1, EntriesCounted
    <2>3. Cardinality({i \in DOMAIN subs[su] : subs[su][i] = t}) =
            IF Contains(subs[su], t) THEN 1 ELSE 0
      BY <2>1, TopicsCounted
    <2> QED
      BY <2>1, <2>2, <2>3
  <1>2. SubscriptionsMirror
    BY <1>1, Zenon DEF SubscriptionsMirror
  <1> QED
    BY <1>2 DEF Inv, Lists, TopicMapSound

\* The topic map, the topics' lists of subscribers and the subscribers' lists of
\* topics always fit (pubsub.c:241 to pubsub.c:574).
THEOREM MapIsSound == Spec => []TopicMapSound
  BY Invariance, InvTopicMapSound, PTL

\* Every reference count is the number of pointers there are: no message is freed
\* while somebody holds it, and none stays when nobody does (pubsub.c:216, :222).
THEOREM CountsAreExact == Spec => []RefsAccounted
  <1>1. Inv => RefsAccounted
    BY DEF Inv
  <1> QED
    BY <1>1, Invariance, PTL

\* Whoever works through a list of subscribers meets no freed one (pubsub.c:318,
\* pubsub.c:612).
THEOREM FreedAreOut == Spec => []OnlyLiveReached
  <1>1. Inv => OnlyLiveReached
    BY DEF Inv
  <1> QED
    BY <1>1, Invariance, PTL

\* The queue an on_empty subscription found empty is empty when the message is
\* pushed (pubsub.c:614).
THEOREM EmptyTestHolds == Spec => []EmptyWhenPushed
  <1>1. Inv => EmptyWhenPushed
    BY DEF Inv
  <1> QED
    BY <1>1, Invariance, PTL

\* A pull that passed the semaphore finds a message, and no queue is longer than
\* its size (psqueue_b.c:112, :122).
THEOREM PullsFindMessages == Spec => []ClaimsHonoured
  <1>1. Inv => ClaimsHonoured
    BY DEF Inv
  <1> QED
    BY <1>1, Invariance, PTL

(***************************************************************************)
(* What the refinement needs besides the invariant                         *)
(***************************************************************************)

\* A message that is allocated has been made with a topic and flags of MsgKind.
KindsMade == \A m \in Msg : ref[m] # 0 => kind[m] \in MsgKind

\* Nobody is twice among the subscribers that a publication is still to serve, so
\* that one delivery is one promise less.
TodoDistinct == cs.op = "publish" => NoneTwice(cs.todo)

Ready == Inv /\ KindsMade /\ TodoDistinct

(***************************************************************************)
(* Topics and the topics above them                                        *)
(***************************************************************************)

LEMMA TopicSequence ==
    ASSUME NEW t \in Topic
    PROVE  /\ t \in Seq(Range(t)) /\ Len(t) \in Nat
           /\ t # <<>> => Parent(t) \in Topic
  BY PubSubAssumption

\* A prefix, position by position.
LEMMA PrefixElements ==
    ASSUME NEW t \in Topic, NEW u \in Topic
    PROVE  HasPrefix(t, u) <=> Len(u) <= Len(t) /\ \A i \in 1..Len(u) : u[i] = t[i]
  <1>1. /\ t \in Seq(Range(t)) /\ Len(t) \in Nat
        /\ u \in Seq(Range(u)) /\ Len(u) \in Nat
    BY TopicSequence
  <1> SUFFICES ASSUME Len(u) <= Len(t)
               PROVE  SubSeq(u, 1, Len(u)) = SubSeq(t, 1, Len(u))
                        <=> \A i \in 1..Len(u) : u[i] = t[i]
    BY DEF HasPrefix, IsPrefix
  <1>2. SubSeq(u, 1, Len(u)) = [i \in 1..Len(u) |-> u[i]]
    BY <1>1
  <1>3. SubSeq(t, 1, Len(u)) = [i \in 1..Len(u) |-> t[i]]
    BY <1>1
  <1> QED
    BY <1>2, <1>3

\* Only the topic itself is a prefix of its length.
LEMMA SameTopic ==
    ASSUME NEW t \in Topic, NEW u \in Topic, HasPrefix(t, u), Len(u) = Len(t)
    PROVE  u = t
  <1>1. t \in Seq(Range(t)) /\ u \in Seq(Range(u)) /\ \A i \in 1..Len(u) : u[i] = t[i]
    BY TopicSequence, PrefixElements
  <1> QED
    BY <1>1

LEMMA HasItself ==
    ASSUME NEW t \in Topic
    PROVE  HasPrefix(t, t)
  BY TopicSequence DEF HasPrefix, IsPrefix

\* The topics a message goes to are its own and those above.
LEMMA PrefixesAbove ==
    ASSUME NEW t \in Topic
    PROVE  \A u \in Topic : HasPrefix(t, u) <=> u = t \/ u \in Above(t)
  <1> TAKE u \in Topic
  <1>1. Len(u) \in Nat /\ Len(t) \in Nat
    BY TopicSequence
  <1>2. HasPrefix(t, u) => Len(u) <= Len(t)
    BY PrefixElements
  <1> QED
    BY <1>1, <1>2, SameTopic, HasItself DEF Above

\* ps_publish cuts a topic at its last dot: that is the next one above.
LEMMA AboveParent ==
    ASSUME NEW t \in Topic, t # <<>>
    PROVE  \A u : u \in Above(t) <=> u = Parent(t) \/ u \in Above(Parent(t))
  <1> DEFINE p == Parent(t)
  <1>1. t \in Seq(Range(t)) /\ Len(t) \in Nat \ {0} /\ p \in Topic
    BY TopicSequence
  <1>2. Len(p) = Len(t) - 1 /\ \A i \in 1..(Len(t) - 1) : p[i] = t[i]
    BY <1>1, FrontProperties DEF Parent
  <1> HIDE DEF p
  <1>3. ASSUME NEW u \in Topic
        PROVE  Len(u) < Len(t) /\ HasPrefix(t, u) <=> HasPrefix(p, u)
    <2>1. Len(u) \in Nat
      BY TopicSequence
    <2>2. HasPrefix(t, u) <=> Len(u) <= Len(t) /\ \A i \in 1..Len(u) : u[i] = t[i]
      BY PrefixElements
    <2>3. HasPrefix(p, u) <=> Len(u) <= Len(p) /\ \A i \in 1..Len(u) : u[i] = p[i]
      BY <1>1, PrefixElements
    <2>4. Len(u) < Len(t) <=> Len(u) <= Len(p)
      BY <1>1, <1>2, <2>1
    <2>5. ASSUME Len(u) <= Len(p)
          PROVE  \A i \in 1..Len(u) : p[i] = t[i]
      BY <1>1, <1>2, <2>1, <2>5
    <2> QED
      BY <1>1, <2>1, <2>2, <2>3, <2>4, <2>5
  <1>4. \A u \in Topic : HasPrefix(p, u) <=> u = p \/ u \in Above(p)
    BY <1>1, PrefixesAbove
  <1> QED
    BY <1>1, <1>3, <1>4 DEF Above, p

LEMMA NoneAboveRoot == Above(<<>>) = {}
  <1> SUFFICES ASSUME NEW u \in Topic, Len(u) < Len(<<>>) PROVE FALSE
    BY DEF Above
  <1>1. Len(u) \in Nat /\ Len(<<>>) = 0
    BY TopicSequence
  <1> QED
    BY <1>1

LEMMA NotAboveItself ==
    ASSUME NEW t \in Topic
    PROVE  t \notin Above(t)
  BY TopicSequence DEF Above

(***************************************************************************)
(* The abstract state                                                      *)
(***************************************************************************)

\* The subscription that an entry of the list of topic t stands for.
Bound(e, t) == [su |-> e.su, topic |-> t, hidden |-> e.hidden,
                on_empty |-> e.on_empty, priority |-> e.priority]

Subscribed(lists) == UNION {{Bound(e, t) : e \in Range(lists[t])} : t \in Topic}

\* The message that is owed to an entry of the list of topic t.
Owing(e, t, m) == [su |-> e.su, topic |-> t, on_empty |-> e.on_empty,
                   priority |-> e.priority, msg |-> m]

Owed(t, E, m) == {Owing(e, t, m) : e \in E}

\* What the publication of m still has to hand out at topic t and above it.
OwedFrom(t, todo, lists, m, nonrecursive) ==
    Owed(t, Range(todo), m)
    \cup (IF nonrecursive THEN {} ELSE UNION {Owed(u, Range(lists[u]), m) : u \in Above(t)})

\* What a new subscriber is still to get.
Greeting(su, T, st, p) ==
    {[su |-> su, topic |-> t, on_empty |-> FALSE, priority |-> p, msg |-> st[t]] : t \in T}

LEMMA SubscribedIs ==
    /\ Promise!vars = <<Subscribed(subscribers), sticky, queue, claims, Due>>
    /\ Promise!vars' = <<Subscribed(subscribers'), sticky', queue', claims', Due'>>
  BY DEF Promise!vars, Subscribed, Bound

LEMMA DueIs ==
    /\ cs.op = "publish" =>
          Due = OwedFrom(cs.topic, cs.todo, subscribers, cs.msg, kind[cs.msg].nonrecursive)
    /\ cs.op = "subscribe" => Due = Greeting(cs.su, cs.todo, sticky, cs.priority)
    /\ cs = NoCS => Due = {}
  BY DEF Due, OwedFrom, Owed, Owing, Greeting, NoCS

LEMMA DueIsPrimed ==
    /\ cs'.op = "publish" =>
          Due' = OwedFrom(cs'.topic, cs'.todo, subscribers', cs'.msg, kind'[cs'.msg].nonrecursive)
    /\ cs'.op = "subscribe" => Due' = Greeting(cs'.su, cs'.todo, sticky', cs'.priority)
    /\ cs' = NoCS => Due' = {}
  BY DEF Due, OwedFrom, Owed, Owing, Greeting, NoCS

(***************************************************************************)
(* The operators of TopicBus are those of PubSub                           *)
(***************************************************************************)

LEMMA SameCardinality == \A S : Promise!Cardinality(S) = Cardinality(S)
  BY DEF Promise!Cardinality, Cardinality

LEMMA SameOperators ==
    /\ Promise!Prio = Prio
    /\ \A b : Promise!Stored(b) = Stored(b)
    /\ \A b, p, m : Promise!Insert(b, p, m) = Insert(b, p, m)
    /\ \A b, p : Promise!RemoveOldest(b, p) = RemoveOldest(b, p)
    /\ \A b, p : Promise!RemoveYoungest(b, p) = RemoveYoungest(b, p)
    /\ \A b, p : Promise!IsHighest(b, p) <=> IsHighest(b, p)
    /\ \A b, p : Promise!IsLowest(b, p) <=> IsLowest(b, p)
    /\ \A t, u : Promise!Covers(u, t) <=> HasPrefix(t, u)
    /\ Promise!Empty(Prio) = Empty(Prio)
    /\ \A su : Promise!Waiting(su) = Waiting(su)
  <1>1. Promise!Prio = Prio
    BY DEF Promise!Prio, Prio
  <1>2. \A b : Promise!Slots(b) = Slots(b)
    BY DEF Promise!Slots, Slots
  <1>3. \A b : Promise!Stored(b) = Stored(b)
    BY <1>2, SameCardinality DEF Promise!Stored, Stored
  <1>4. \A b, p, m : Promise!Insert(b, p, m) = Insert(b, p, m)
    BY DEF Promise!Insert, Insert
  <1>5. \A b, p : Promise!RemoveOldest(b, p) = RemoveOldest(b, p)
    BY DEF Promise!RemoveOldest, RemoveOldest
  <1>6. \A b, p : Promise!RemoveYoungest(b, p) = RemoveYoungest(b, p)
    BY DEF Promise!RemoveYoungest, RemoveYoungest, Promise!Front, Front
  <1>7. \A b, p : Promise!IsHighest(b, p) <=> IsHighest(b, p)
    BY DEF Promise!IsHighest, IsHighest
  <1>8. \A b, p : Promise!IsLowest(b, p) <=> IsLowest(b, p)
    BY DEF Promise!IsLowest, IsLowest
  <1>9. \A t, u : Promise!Covers(u, t) <=> HasPrefix(t, u)
    BY DEF Promise!Covers, Promise!IsPrefix, HasPrefix, IsPrefix
  <1>10. Promise!Empty(Prio) = Empty(Prio)
    BY DEF Promise!Empty, Empty
  <1>11. \A su : Promise!Waiting(su) = Waiting(su)
    BY <1>3 DEF Promise!Waiting, Waiting
  <1> QED
    BY <1>1, <1>3, <1>4, <1>5, <1>6, <1>7, <1>8, <1>9, <1>10, <1>11

(***************************************************************************)
(* What is allocated keeps its topic and its flags                         *)
(***************************************************************************)

\* A pointer keeps the message it points to.
LEMMA Pointed ==
    ASSUME Inv, NEW m \in Msg,
           app[m] > 0 \/ (cs.op = "publish" /\ cs.msg = m) \/ (\E t \in Topic : sticky[t] = m)
    PROVE  ref[m] # 0
  <1>1. ref[m] = app[m] + Cardinality(HeldBy(queue, Sub, m))
                        + Cardinality(StickyAt(sticky, m)) + InFlight(cs, m)
    BY AccountedAs DEF Inv
  <1>2. /\ Cardinality(HeldBy(queue, Sub, m)) \in Nat
        /\ Cardinality(StickyAt(sticky, m)) \in Nat
        /\ InFlight(cs, m) \in Nat /\ app[m] \in Nat
    <2>1. Cardinality(HeldBy(queue, Sub, m)) \in Nat
      BY HeldByFinite, Proper DEF Inv
    <2>2. Cardinality(StickyAt(sticky, m)) \in Nat
      BY StickyAtFinite
    <2>3. InFlight(cs, m) \in Nat /\ app[m] \in Nat
      BY PubSubAssumption DEF Inv, InFlight, TypeOK
    <2> QED
      BY <2>1, <2>2, <2>3
  <1>3. (\E t \in Topic : sticky[t] = m) => Cardinality(StickyAt(sticky, m)) # 0
    <2>1. (\E t \in Topic : sticky[t] = m) => StickyAt(sticky, m) # {}
      BY DEF StickyAt
    <2> QED
      BY <2>1, StickyAtFinite, FS_EmptySet
  <1>4. cs.op = "publish" /\ cs.msg = m => InFlight(cs, m) = 1
    BY DEF InFlight
  <1> DEFINE h == Cardinality(HeldBy(queue, Sub, m))
             s == Cardinality(StickyAt(sticky, m))
             i == InFlight(cs, m)
  <1>5. /\ ref[m] = app[m] + h + s + i
        /\ h \in Nat /\ s \in Nat /\ i \in Nat /\ app[m] \in Nat
        /\ app[m] > 0 \/ s # 0 \/ i = 1
    BY <1>1, <1>2, <1>3, <1>4
  <1> HIDE DEF h, s, i
  <1> QED
    BY <1>5

\* A message that is allocated was so before, and is the same.
Kept == \A n \in Msg : ref'[n] # 0 => ref[n] # 0 /\ kind'[n] = kind[n]

LEMMA RecountKeeps ==
    ASSUME NEW counts, Recount(counts), \A n \in Msg : counts[n] # 0 => ref[n] # 0
    PROVE  Kept
  BY DEF Recount, Kept

\* One count goes up, that of a message that has a pointer; another one goes down.
LEMMA ReplaceKeeps ==
    ASSUME TypeOK, TypeOK', NEW m \in Msg, ref[m] # 0, NEW old, Replace(m, old)
    PROVE  Kept
  <1> DEFINE counts == [n \in Msg |-> ref[n] + (IF n = m THEN 1 ELSE 0)
                                             - (IF n = old THEN 1 ELSE 0)]
  <1>1. Recount(counts) /\ ref' = counts
    BY DEF Replace, Recount
  <1>2. ASSUME NEW n \in Msg, counts[n] # 0 PROVE ref[n] # 0
    <2>1. ref'[n] \in Nat /\ ref[n] \in Nat
      BY DEF TypeOK
    <2>2. ref'[n] = ref[n] + (IF n = m THEN 1 ELSE 0) - (IF n = old THEN 1 ELSE 0)
      BY <1>1
    <2> QED
      BY <1>1, <1>2, <2>1, <2>2
  <1> HIDE DEF counts
  <1> QED
    BY <1>1, <1>2, RecountKeeps

\* One count goes down.
LEMMA ReleaseKeeps ==
    ASSUME TypeOK, TypeOK', NEW m \in Msg, Recount([ref EXCEPT ![m] = @ - 1])
    PROVE  Kept
  <1> DEFINE counts == [ref EXCEPT ![m] = @ - 1]
  <1>1. Recount(counts) /\ ref' = counts
    BY DEF Recount
  <1>2. ASSUME NEW n \in Msg, counts[n] # 0 PROVE ref[n] # 0
    <2>1. ref'[n] \in Nat /\ ref[n] \in Nat
      BY DEF TypeOK
    <2>2. ref'[n] = IF n = m THEN ref[n] - 1 ELSE ref[n]
      BY <1>1 DEF TypeOK
    <2> QED
      BY <1>1, <1>2, <2>1, <2>2
  <1> HIDE DEF counts
  <1> QED
    BY <1>1, <1>2, RecountKeeps

\* Several counts go down.
LEMMA ReleasesKeep ==
    ASSUME TypeOK, TypeOK', NEW gone, \A n \in Msg : gone[n] \in Nat,
           Recount([n \in Msg |-> ref[n] - gone[n]])
    PROVE  Kept
  <1> DEFINE counts == [n \in Msg |-> ref[n] - gone[n]]
  <1>1. Recount(counts) /\ ref' = counts
    BY DEF Recount
  <1>2. ASSUME NEW n \in Msg, counts[n] # 0 PROVE ref[n] # 0
    <2>1. ref'[n] \in Nat /\ ref[n] \in Nat /\ ref'[n] = ref[n] - gone[n] /\ gone[n] \in Nat
      BY <1>1 DEF TypeOK
    <2> QED
      BY <1>1, <1>2, <2>1
  <1> HIDE DEF counts
  <1> QED
    BY <1>1, <1>2, RecountKeeps

LEMMA PushKeeps ==
    ASSUME Inv, TypeOK', NEW su \in Sub, NEW m \in Msg, ref[m] # 0, NEW p \in Prio, Push(su, m, p)
    PROVE  Kept
  <1>1. CASE Stores(su, m, p)
    BY <1>1, ReplaceKeeps DEF Stores, Inv
  <1>2. CASE Evicts(su, m, p)
    BY <1>2, ReplaceKeeps DEF Evicts, Inv
  <1>3. CASE Refuses(su, m, p)
    BY <1>3 DEF Refuses, Kept
  <1> QED
    BY <1>1, <1>2, <1>3 DEF Push

LEMMA PublishKeeps ==
    ASSUME Inv, TypeOK', NEW m \in Msg, Publish(m)
    PROVE  Kept
  <1>1. app[m] > 0 /\ kind[m].topic \in Topic /\ TypeOK
    BY DEF Publish, PublishSticky, PublishClears, PublishPlain, Publishing, Inv, TypeOK, Kind
  <1>2. CASE PublishSticky(m)
    <2>1. ref[m] # 0
      BY <1>1, Pointed
    <2> QED
      BY <1>1, <1>2, <2>1, ReplaceKeeps DEF PublishSticky
  <1>3. CASE PublishClears(m)
    <2>1. sticky[kind[m].topic] \in Msg /\ Recount([ref EXCEPT ![sticky[kind[m].topic]] = @ - 1])
      BY <1>1, <1>3 DEF PublishClears, TypeOK
    <2> QED
      BY <1>1, <2>1, ReleaseKeeps
  <1>4. CASE PublishPlain(m)
    BY <1>4 DEF PublishPlain, Kept
  <1> QED
    BY <1>2, <1>3, <1>4 DEF Publish

LEMMA PublishGoesOnKeeps ==
    ASSUME Inv, TypeOK', PublishGoesOn
    PROVE  Kept
  <1>1. cs \in PublishCS /\ cs.op = "publish" /\ cs.msg \in Msg /\ ref[cs.msg] # 0 /\ TypeOK
    <2>1. cs.op = "publish" /\ cs \in PublishCS
      BY DEF PublishGoesOn, CheckEmpty, Deliver, NextTopic, PublishEnds, Inv, TypeOK, NoCS,
             SubscribeCS
    <2>2. cs.msg \in Msg
      BY <2>1 DEF PublishCS
    <2> QED
      BY <2>1, <2>2, Pointed DEF Inv
  <1>2. CASE CheckEmpty \/ NextTopic
    BY <1>2 DEF CheckEmpty, NextTopic, msgVars, Kept
  <1>3. CASE Deliver
    <2>1. Current.su \in Sub /\ Current.priority \in Prio
      BY <1>1, <1>3, CurrentLive DEF Deliver, Entry
    <2>2. Push(Current.su, cs.msg, Current.priority)
      BY <1>3 DEF Deliver, Push
    <2> QED
      BY <1>1, <2>1, <2>2, PushKeeps
  <1>4. CASE PublishEnds
    BY <1>1, <1>4, ReleaseKeeps DEF PublishEnds
  <1> QED
    BY <1>2, <1>3, <1>4 DEF PublishGoesOn

LEMMA PushStickyKeeps ==
    ASSUME Inv, TypeOK', PushSticky
    PROVE  Kept
  <1>1. cs \in SubscribeCS
    BY DEF PushSticky, Inv, TypeOK, NoCS, PublishCS
  <1>2. PICK t \in cs.todo : Push(cs.su, sticky[t], cs.priority)
    BY DEF PushSticky
  <1>3. t \in Topic /\ cs.su \in Sub /\ cs.priority \in Prio /\ sticky[t] \in Msg
    BY <1>1 DEF SubscribeCS, Inv, TypeOK, SectionReady
  <1> QED
    BY <1>2, <1>3, Pointed, PushKeeps

LEMMA FreeingKeeps ==
    ASSUME Inv, TypeOK', NEW su \in Sub, FreeFlushes(su) \/ FreeEnds(su)
    PROVE  Kept
  <1>1. CASE FreeFlushes(su)
    <2>1. PICK p \in Prio : queue[su][p] # <<>>
                            /\ Recount([ref EXCEPT ![Oldest(queue[su], p)] = @ - 1])
      BY <1>1 DEF FreeFlushes, IsHighest
    <2>2. Oldest(queue[su], p) \in Msg
      BY <2>1, Pulled DEF Inv
    <2> QED
      BY <2>1, <2>2, ReleaseKeeps DEF Inv
  <1>2. CASE FreeEnds(su)
    <2> DEFINE gone == [m \in Msg |-> Cardinality(Holding(queue[su], m))]
    <2>1. \A m \in Msg : gone[m] \in Nat
      BY QueueFacts DEF Inv
    <2>2. Recount([m \in Msg |-> ref[m] - gone[m]])
      BY <1>2 DEF FreeEnds, FreeQueue
    <2> HIDE DEF gone
    <2> QED
      BY <2>1, <2>2, ReleasesKeep DEF Inv
  <1> QED
    BY <1>1, <1>2

LEMMA CleanStickyKeeps ==
    ASSUME Inv, TypeOK', NEW prefix \in Topic, CleanSticky(prefix)
    PROVE  Kept
  <1> DEFINE cleaned == {t \in topics : HasPrefix(t, prefix) /\ sticky[t] # NoMsg}
             gone == [m \in Msg |-> Cardinality({t \in cleaned : sticky[t] = m})]
  <1>1. cleaned \subseteq Topic
    BY DEF Inv, TypeOK
  <1>2. Recount([m \in Msg |-> ref[m] - gone[m]])
    BY DEF CleanSticky
  <1> HIDE DEF cleaned
  <1>3. \A m \in Msg : gone[m] \in Nat
    <2>1. sticky \in [Topic -> Msg \cup {NoMsg}]
      BY DEF Inv, TypeOK
    <2>2. \A m \in Msg : Cardinality({t \in cleaned : sticky[t] = m}) \in Nat
      BY <1>1, <2>1, StickyCleaned
    <2> QED
      BY <2>2
  <1> HIDE DEF gone
  <1> QED
    BY <1>2, <1>3, ReleasesKeep DEF Inv

LEMMA StepKeeps ==
    ASSUME Inv, [Next]_vars
    PROVE  Kept \/ \E m \in Msg, k \in MsgKind : NewMsg(m, k)
  <1>1. TypeOK' /\ TypeOK
    BY NextInv DEF Inv
  <1>2. ASSUME NEW m \in Msg, RefMsg(m) \/ UnrefMsg(m) PROVE Kept
    <2>1. CASE RefMsg(m)
      <3>1. ref[m] # 0
        BY <2>1, Pointed, PubSubAssumption DEF RefMsg
      <3> QED
        BY <1>1, <2>1, <3>1 DEF RefMsg, Kept, TypeOK
    <2>2. CASE UnrefMsg(m)
      BY <1>1, <2>2, ReleaseKeeps DEF UnrefMsg
    <2> QED
      BY <1>2, <2>1, <2>2
  <1>3. ASSUME NEW m \in Msg, Publish(m) PROVE Kept
    BY <1>1, <1>3, PublishKeeps
  <1>4. CASE PublishGoesOn
    BY <1>1, <1>4, PublishGoesOnKeeps
  <1>5. ASSUME NEW su \in Sub,
               \/ NewSubscriber(su)
               \/ \E t \in Topic : (\E f \in SubFlags : Subscribe(su, t, f)) \/ Unsubscribe(su, t)
               \/ UnsubscribeAll(su) \/ FreeSubscriber(su) \/ Claim(su) \/ Take(su)
        PROVE  Kept
    BY <1>5 DEF NewSubscriber, Subscribe, Unsubscribe, UnsubscribeAll, FreeSubscriber, Claim,
                Take, msgVars, Kept
  <1>6. ASSUME NEW su \in Sub, FreeFlushes(su) \/ FreeEnds(su) PROVE Kept
    BY <1>1, <1>6, FreeingKeeps
  <1>7. CASE PushSticky
    BY <1>1, <1>7, PushStickyKeeps
  <1>8. ASSUME NEW t \in Topic, CleanSticky(t) PROVE Kept
    BY <1>1, <1>8, CleanStickyKeeps
  <1>9. CASE UNCHANGED vars
    BY <1>9 DEF vars, Kept
  <1> QED
    BY <1>2, <1>3, <1>4, <1>5, <1>6, <1>7, <1>8, <1>9 DEF Next

\* The message of a publication is allocated.
CurrentAllocated == cs.op = "publish" => ref[cs.msg] # 0

LEMMA CurrentPointed == Inv => CurrentAllocated
  <1> SUFFICES ASSUME Inv, cs.op = "publish" PROVE ref[cs.msg] # 0
    BY DEF CurrentAllocated
  <1>1. cs.msg \in Msg
    BY DEF Inv, TypeOK, NoCS, PublishCS, SubscribeCS
  <1> QED
    BY <1>1, Pointed

LEMMA CurrentPointedPrimed == Inv' => CurrentAllocated'
  BY CurrentPointed, PTL

\* So a publication goes on with the flags that it began with.
LEMMA CurrentKept ==
    ASSUME Inv, [Next]_vars, cs.op = "publish", cs'.op = "publish", cs'.msg = cs.msg
    PROVE  kind'[cs.msg] = kind[cs.msg]
  <1>1. cs.msg \in Msg /\ ref[cs.msg] # 0 /\ ref'[cs.msg] # 0
    <2>1. cs.msg \in Msg
      BY DEF Inv, TypeOK, NoCS, PublishCS, SubscribeCS
    <2>2. ref[cs.msg] # 0
      BY CurrentPointed DEF CurrentAllocated
    <2>3. ref'[cs.msg] # 0
      BY NextInv, CurrentPointedPrimed DEF CurrentAllocated
    <2> QED
      BY <2>1, <2>2, <2>3
  <1>2. CASE Kept
    BY <1>1, <1>2 DEF Kept
  <1>3. ASSUME NEW m \in Msg, NEW k \in MsgKind, NewMsg(m, k) PROVE kind'[cs.msg] = kind[cs.msg]
    BY <1>1, <1>3 DEF NewMsg, Inv, TypeOK
  <1> QED
    BY <1>2, <1>3, StepKeeps

(***************************************************************************)
(* Ready lasts                                                             *)
(***************************************************************************)

LEMMA InitReady == Init => Ready
  BY InitInv DEF Init, Ready, KindsMade, TodoDistinct, NoCS

\* Every entry but the first.
LEMMA TailDistinct ==
    ASSUME NEW s \in Seq(Entry), s # <<>>, NoneTwice(s)
    PROVE  /\ NoneTwice(Tail(s))
           /\ Head(s) \in Range(s) /\ Head(s) \notin Range(Tail(s))
           /\ \A e : e \in Range(s) <=> e = Head(s) \/ e \in Range(Tail(s))
           /\ \A e \in Range(Tail(s)) : e.su # Head(s).su
  <1> DEFINE r == Tail(s)
  <1>1. /\ r \in Seq(Entry) /\ Len(r) = Len(s) - 1 /\ Len(s) \in Nat \ {0}
        /\ \A i \in 1..Len(r) : r[i] = s[i + 1]
        /\ Head(s) = s[1]
    BY HeadTailProperties
  <1> HIDE DEF r
  <1>2. /\ \A e : e \in Range(r) <=> \E i \in 1..Len(r) : r[i] = e
        /\ \A e : e \in Range(s) <=> \E i \in 1..Len(s) : s[i] = e
    BY <1>1, RangeOf
  <1>3. ASSUME NEW i \in 1..Len(r), NEW j \in 1..Len(r), r[i].su = r[j].su PROVE i = j
    <2>1. i + 1 \in 1..Len(s) /\ j + 1 \in 1..Len(s) /\ s[i + 1].su = s[j + 1].su
      BY <1>1, <1>3
    <2>2. i + 1 = j + 1
      BY <2>1 DEF NoneTwice
    <2> QED
      BY <2>2
  <1>4. ASSUME NEW e \in Range(r) PROVE e.su # s[1].su /\ e \in Range(s)
    <2>1. PICK i \in 1..Len(r) : r[i] = e
      BY <1>2
    <2>2. i + 1 \in 1..Len(s) /\ i + 1 # 1 /\ 1 \in 1..Len(s) /\ s[i + 1] = e
      BY <1>1, <2>1
    <2> QED
      BY <1>2, <2>2 DEF NoneTwice
  <1>5. ASSUME NEW e \in Range(s) PROVE e = s[1] \/ e \in Range(r)
    <2>1. PICK i \in 1..Len(s) : s[i] = e
      BY <1>2
    <2>2. CASE i = 1
      BY <2>1, <2>2
    <2>3. CASE i # 1
      <3>1. i - 1 \in 1..Len(r) /\ (i - 1) + 1 = i
        BY <1>1, <2>3
      <3>2. r[i - 1] = e
        BY <1>1, <2>1, <3>1
      <3> QED
        BY <1>2, <3>1, <3>2
    <2> QED
      BY <2>2, <2>3
  <1>6. s[1] \in Range(s)
    BY <1>1, <1>2
  <1> QED
    BY <1>1, <1>3, <1>4, <1>5, <1>6 DEF NoneTwice, r

\* A delivery leaves the publication with one subscriber less.
LEMMA DeliverStep ==
    ASSUME cs \in PublishCS, cs.todo # <<>>, Deliver
    PROVE  /\ cs' \in PublishCS /\ cs'.op = "publish" /\ cs'.msg = cs.msg /\ cs'.topic = cs.topic
           /\ cs'.todo = Tail(cs.todo) /\ cs'.checked = FALSE
  <1> DEFINE visible == IF Current.hidden THEN 0 ELSE 1
  <1>1. visible \in Nat
    OBVIOUS
  <1> HIDE DEF visible
  <1>2. \/ cs' = [Served EXCEPT !.ret = @ + visible, !.accepted = @ + visible]
        \/ cs' = [Served EXCEPT !.accepted = @ + visible]
        \/ cs' = Served
    BY DEF Deliver, visible
  <1>3. /\ Served \in PublishCS /\ Served.msg = cs.msg /\ Served.topic = cs.topic
        /\ Served.todo = Tail(cs.todo) /\ Served.checked = FALSE
    <2>1. Tail(cs.todo) \in Seq(Entry)
      BY HeadTailProperties DEF PublishCS
    <2> QED
      BY <2>1 DEF PublishCS, Served
  <1>4. Served.ret + visible \in Nat /\ Served.accepted + visible \in Nat
    BY <1>1, <1>3 DEF PublishCS
  <1>5. CASE cs' = [Served EXCEPT !.ret = @ + visible, !.accepted = @ + visible]
    BY <1>3, <1>4, <1>5 DEF PublishCS
  <1>6. CASE cs' = [Served EXCEPT !.accepted = @ + visible]
    BY <1>3, <1>4, <1>6 DEF PublishCS
  <1>7. CASE cs' = Served
    BY <1>3, <1>7 DEF PublishCS
  <1> QED
    BY <1>2, <1>5, <1>6, <1>7

LEMMA NextReady == Ready /\ [Next]_vars => Ready'
  <1> SUFFICES ASSUME Ready, [Next]_vars PROVE Ready'
    OBVIOUS
  <1>1. Inv /\ Inv' /\ TypeOK
    BY NextInv DEF Ready, Inv
  <1>2. KindsMade'
    <2>1. CASE Kept
      BY <2>1 DEF Kept, Ready, KindsMade
    <2>2. ASSUME NEW m \in Msg, NEW k \in MsgKind, NewMsg(m, k) PROVE KindsMade'
      BY <1>1, <2>2 DEF NewMsg, Ready, KindsMade, TypeOK
    <2> QED
      BY <1>1, <2>1, <2>2, StepKeeps
  <1>3. TodoDistinct'
    <2>1. CASE cs' = cs
      BY <2>1 DEF Ready, TodoDistinct
    <2>2. ASSUME NEW m \in Msg, Publish(m) PROVE TodoDistinct'
      <3>1. kind[m].topic \in Topic /\ cs'.todo = subscribers[kind[m].topic]
        BY <1>1, <2>2
        DEF Publish, PublishSticky, PublishClears, PublishPlain, Publishing, TypeOK, Kind
      <3> QED
        BY <1>1, <3>1 DEF TodoDistinct, Inv, Lists, ListsDistinct
    <2>3. CASE CheckEmpty \/ Deliver
      <3>1. /\ cs.op = "publish" /\ cs.todo # <<>> /\ cs \in PublishCS
            /\ cs'.todo = cs.todo \/ cs'.todo = Tail(cs.todo)
        <4>1. cs.op = "publish" /\ cs.todo # <<>>
          BY <2>3 DEF CheckEmpty, Deliver
        <4>2. cs \in PublishCS
          BY <1>1, <4>1, CurrentLive
        <4>3. CASE CheckEmpty
          BY <4>1, <4>2, <4>3 DEF CheckEmpty, Served, PublishCS
        <4>4. CASE Deliver
          BY <4>1, <4>2, <4>4, DeliverStep
        <4> QED
          BY <2>3, <4>1, <4>2, <4>3, <4>4
      <3>2. NoneTwice(cs.todo) /\ cs.todo \in Seq(Entry)
        BY <3>1 DEF Ready, TodoDistinct, PublishCS
      <3> QED
        BY <3>1, <3>2, TailDistinct DEF TodoDistinct
    <2>4. CASE NextTopic
      <3>1. /\ cs.op = "publish" /\ cs \in PublishCS /\ cs.topic # <<>>
            /\ cs'.todo = subscribers[Parent(cs.topic)]
        BY <1>1, <2>4 DEF NextTopic, LastTopic, TypeOK, NoCS, SubscribeCS, PublishCS
      <3>2. Parent(cs.topic) \in Topic
        BY <3>1, TopicSequence DEF PublishCS
      <3> QED
        BY <1>1, <3>1, <3>2 DEF TodoDistinct, Inv, Lists, ListsDistinct
    <2>5. CASE cs'.op # "publish"
      BY <2>5 DEF TodoDistinct
    <2>6. CASE PublishEnds \/ PushSticky
      <3>1. cs'.op # "publish"
        BY <1>1, <2>6
        DEF PublishEnds, PushSticky, NoCS, TypeOK, PublishCS, SubscribeCS
      <3> QED
        BY <2>5, <3>1
    <2>7. ASSUME NEW su \in Sub, NEW t \in Topic, NEW f \in SubFlags, Subscribe(su, t, f)
          PROVE  TodoDistinct'
      BY <2>5, <2>7 DEF Subscribe, NoCS
    <2>8. CASE \/ \E m \in Msg : (\E k \in MsgKind : NewMsg(m, k)) \/ RefMsg(m) \/ UnrefMsg(m)
               \/ \E su \in Sub :
                     \/ NewSubscriber(su)
                     \/ \E t \in Topic : Unsubscribe(su, t)
                     \/ UnsubscribeAll(su)
                     \/ FreeSubscriber(su) \/ FreeFlushes(su) \/ FreeEnds(su)
                     \/ Claim(su) \/ Take(su)
               \/ \E t \in Topic : CleanSticky(t)
               \/ UNCHANGED vars
      BY <2>1, <2>8
      DEF NewMsg, RefMsg, UnrefMsg, NewSubscriber, Unsubscribe, UnsubscribeAll, FreeSubscriber,
          FreeFlushes, FreeEnds, Claim, Take, CleanSticky, vars
    <2> QED
      BY <2>2, <2>3, <2>4, <2>6, <2>7, <2>8 DEF Next, PublishGoesOn
  <1> QED
    BY <1>1, <1>2, <1>3 DEF Ready

(***************************************************************************)
(* Each step keeps the promise                                             *)
(***************************************************************************)

LEMMA InitImplements == Init => Promise!Init
  <1> SUFFICES ASSUME Init PROVE Promise!Init
    OBVIOUS
  <1>1. Due = {}
    BY DueIs DEF Init
  <1>2. Subscribed(subscribers) = {}
    <2>1. \A t \in Topic : Range(subscribers[t]) = {}
      BY DEF Init, Range
    <2> QED
      BY <2>1 DEF Subscribed
  <1> QED
    BY <1>1, <1>2, SameOperators DEF Init, Promise!Init, Subscribed, Bound

\* What is due depends on the lists, the sticky messages and the critical section
\* alone.
LEMMA DueStays ==
    ASSUME Inv, [Next]_vars, UNCHANGED <<subscribers, sticky, cs>>
    PROVE  Due' = Due
  <1>1. CASE cs.op = "publish"
    <2>1. kind'[cs.msg] = kind[cs.msg]
      BY <1>1, CurrentKept
    <2> QED
      BY <1>1, <2>1, DueIs, DueIsPrimed
  <1>2. CASE cs.op = "subscribe"
    BY <1>2, DueIs, DueIsPrimed
  <1>3. CASE cs = NoCS
    BY <1>3, DueIs, DueIsPrimed
  <1> QED
    BY <1>1, <1>2, <1>3 DEF Inv, TypeOK, PublishCS, SubscribeCS

LEMMA Stutters ==
    ASSUME Inv, [Next]_vars, UNCHANGED <<subscribers, sticky, queue, claims, cs>>
    PROVE  UNCHANGED Promise!vars
  BY DueStays, SubscribedIs

\* A push does to an inbox what is promised, whatever of the three it does.
LEMMA PushAccepts ==
    ASSUME Inv, NEW su \in Sub, NEW m \in Msg, NEW p \in Prio, Push(su, m, p)
    PROVE  Promise!Accepts(su, m, p)
  <1>1. /\ Stored(queue[su]) \in Nat /\ QueueSize[su] \in Nat
        /\ Stored(queue[su]) <= QueueSize[su]
    BY QueueFacts, PubSubAssumption DEF Inv, ClaimsHonoured
  <1>2. ~HasRoom(su) => Stored(queue[su]) = QueueSize[su]
    BY <1>1 DEF HasRoom
  <1>3. CASE Stores(su, m, p)
    BY <1>3, SameOperators DEF Stores, HasRoom, Promise!Accepts
  <1>4. CASE Evicts(su, m, p)
    BY <1>2, <1>4, SameOperators DEF Evicts, Promise!Accepts
  <1>5. CASE Refuses(su, m, p)
    BY <1>2, <1>5, SameOperators DEF Refuses, Promise!Accepts
  <1> QED
    BY <1>3, <1>4, <1>5 DEF Push

\* A publication under way.
LEMMA InPublication ==
    ASSUME Ready, cs.op = "publish"
    PROVE  /\ cs \in PublishCS /\ cs.msg \in Msg /\ cs.topic \in Topic
           /\ cs.todo \in Seq(Entry) /\ NoneTwice(cs.todo)
  <1>1. cs \in PublishCS
    BY DEF Ready, Inv, TypeOK, NoCS, SubscribeCS
  <1> QED
    BY <1>1 DEF PublishCS, Ready, TodoDistinct

\* One entry served is one promise less.
LEMMA ServesOne ==
    ASSUME Ready, [Next]_vars, cs.op = "publish", cs.todo # <<>>, UNCHANGED subscribers,
           cs'.op = "publish", cs'.msg = cs.msg, cs'.topic = cs.topic, cs'.todo = Tail(cs.todo)
    PROVE  /\ Owing(Current, cs.topic, cs.msg) \in Due
           /\ Due' = Due \ {Owing(Current, cs.topic, cs.msg)}
  <1> DEFINE m == cs.msg
             t == cs.topic
             d == Owing(Current, t, m)
             n == kind[m].nonrecursive
             above == IF n THEN {} ELSE UNION {Owed(u, Range(subscribers[u]), m) : u \in Above(t)}
  <1>1. cs.todo \in Seq(Entry) /\ NoneTwice(cs.todo) /\ t \in Topic
    BY InPublication
  <1>2. /\ \A e : e \in Range(cs.todo) <=> e = Current \/ e \in Range(Tail(cs.todo))
        /\ \A e \in Range(Tail(cs.todo)) : e.su # Current.su
    BY <1>1, TailDistinct DEF Current
  <1>3. kind'[m] = kind[m]
    BY CurrentKept DEF Ready
  <1>4. /\ Due = Owed(t, Range(cs.todo), m) \cup above
        /\ Due' = Owed(t, Range(Tail(cs.todo)), m) \cup above
    BY <1>3, DueIs, DueIsPrimed DEF OwedFrom
  <1>5. Owed(t, Range(cs.todo), m) = Owed(t, Range(Tail(cs.todo)), m) \cup {d}
    BY <1>2 DEF Owed
  <1>6. d \notin Owed(t, Range(Tail(cs.todo)), m)
    BY <1>2 DEF Owed, Owing
  <1>7. d \notin above
    <2>1. t \notin Above(t)
      BY <1>1, NotAboveItself
    <2> QED
      BY <2>1 DEF Owed, Owing
  <1> HIDE DEF above, d
  <1>8. d \in Due /\ Due' = Due \ {d}
    BY <1>4, <1>5, <1>6, <1>7
  <1> QED
    BY <1>8 DEF d

LEMMA DeliverImplements ==
    ASSUME Ready, Deliver
    PROVE  Promise!Next
  <1> DEFINE d == Owing(Current, cs.topic, cs.msg)
  <1>1. /\ cs.op = "publish" /\ cs.todo # <<>>
        /\ Current.on_empty => cs.checked
        /\ UNCHANGED <<subscribers, sticky, claims>>
        /\ Push(Current.su, cs.msg, Current.priority)
    BY DEF Deliver, Push, topicVars
  <1>2. [Next]_vars
    BY DEF Next, PublishGoesOn
  <1>3. /\ cs \in PublishCS /\ cs.msg \in Msg
        /\ Current.su \in Sub /\ Current.priority \in Prio
    BY <1>1, InPublication, CurrentLive DEF Ready, Entry
  <1>4. d \in Due /\ Due' = Due \ {d}
    BY <1>1, <1>2, <1>3, DeliverStep, ServesOne
  <1>5. Promise!Accepts(Current.su, cs.msg, Current.priority)
    BY <1>1, <1>3, PushAccepts DEF Ready
  <1>6. ~(Current.on_empty /\ Waiting(Current.su) # 0)
    BY <1>1 DEF Ready, Inv, EmptyWhenPushed
  <1>7. /\ d.su = Current.su /\ d.on_empty = Current.on_empty
        /\ d.priority = Current.priority /\ d.msg = cs.msg
    BY DEF Owing
  <1> HIDE DEF d
  <1>8. Promise!Serve(d)
    BY <1>1, <1>4, <1>5, <1>6, <1>7, SameOperators DEF Promise!Serve
  <1> QED
    BY <1>4, <1>8 DEF Promise!Next

LEMMA CheckEmptyImplements ==
    ASSUME Ready, CheckEmpty
    PROVE  Promise!Next \/ UNCHANGED Promise!vars
  <1> DEFINE d == Owing(Current, cs.topic, cs.msg)
  <1>1. /\ cs.op = "publish" /\ cs.todo # <<>> /\ Current.on_empty
        /\ cs' = IF Waiting(Current.su) # 0 THEN Served ELSE [cs EXCEPT !.checked = TRUE]
        /\ UNCHANGED <<subscribers, sticky, queue, claims, msgVars>>
    BY DEF CheckEmpty, topicVars, queueVars
  <1>2. [Next]_vars /\ cs \in PublishCS
    BY <1>1, InPublication DEF Next, PublishGoesOn
  <1>3. CASE Waiting(Current.su) # 0
    <2>1. /\ cs'.op = "publish" /\ cs'.msg = cs.msg /\ cs'.topic = cs.topic
          /\ cs'.todo = Tail(cs.todo)
      BY <1>1, <1>2, <1>3 DEF Served, PublishCS
    <2>2. d \in Due /\ Due' = Due \ {d}
      BY <1>1, <1>2, <2>1, ServesOne
    <2>3. d.su = Current.su /\ d.on_empty = Current.on_empty
      BY DEF Owing
    <2> HIDE DEF d
    <2>4. Promise!Serve(d)
      BY <1>1, <1>3, <2>2, <2>3, SameOperators DEF Promise!Serve
    <2> QED
      BY <2>2, <2>4 DEF Promise!Next
  <1>4. CASE Waiting(Current.su) = 0
    <2>1. /\ cs'.op = "publish" /\ cs'.msg = cs.msg /\ cs'.topic = cs.topic
          /\ cs'.todo = cs.todo
      BY <1>1, <1>2, <1>4 DEF PublishCS
    <2>2. kind' = kind
      BY <1>1 DEF msgVars
    <2>3. Due' = Due
      BY <1>1, <2>1, <2>2, DueIs, DueIsPrimed
    <2> QED
      BY <1>1, <2>3, SubscribedIs
  <1> QED
    BY <1>3, <1>4

\* The next topic up is where what is still due is.
LEMMA NextTopicImplements ==
    ASSUME Ready, NextTopic
    PROVE  UNCHANGED Promise!vars
  <1> DEFINE p == Parent(cs.topic)
             m == cs.msg
  <1>1. /\ cs.op = "publish" /\ cs.todo = <<>> /\ cs.topic # <<>> /\ ~kind[m].nonrecursive
        /\ cs' = [cs EXCEPT !.topic = p, !.todo = subscribers[p]]
        /\ UNCHANGED <<subscribers, sticky, queue, claims, kind>>
    BY DEF NextTopic, LastTopic, topicVars, queueVars, msgVars
  <1>2. cs \in PublishCS /\ cs.topic \in Topic
    BY <1>1, InPublication
  <1>3. /\ cs'.op = "publish" /\ cs'.msg = m /\ cs'.topic = p
        /\ cs'.todo = subscribers[p]
    BY <1>1, <1>2 DEF PublishCS
  <1>4. Due = UNION {Owed(u, Range(subscribers[u]), m) : u \in Above(cs.topic)}
    <2>1. Range(cs.todo) = {}
      BY <1>1 DEF Range
    <2> QED
      BY <1>1, <2>1, DueIs DEF OwedFrom, Owed
  <1>5. Due' = Owed(p, Range(subscribers[p]), m)
                  \cup UNION {Owed(u, Range(subscribers[u]), m) : u \in Above(p)}
    BY <1>1, <1>3, DueIsPrimed DEF OwedFrom
  <1>6. \A u : u \in Above(cs.topic) <=> u = p \/ u \in Above(p)
    BY <1>1, <1>2, AboveParent
  <1> HIDE DEF p
  <1>7. Due' = Due
    BY <1>4, <1>5, <1>6
  <1> QED
    BY <1>1, <1>7, SubscribedIs

\* When the lock is released nothing is due any more.
LEMMA PublishEndsImplements ==
    ASSUME Ready, PublishEnds
    PROVE  UNCHANGED Promise!vars
  <1>1. /\ cs.op = "publish" /\ cs.todo = <<>> /\ LastTopic /\ cs' = NoCS
        /\ UNCHANGED <<subscribers, sticky, queue, claims>>
    BY DEF PublishEnds, topicVars, queueVars
  <1>2. Due = {}
    <2>1. Range(cs.todo) = {}
      BY <1>1 DEF Range
    <2>2. kind[cs.msg].nonrecursive \/ Above(cs.topic) = {}
      BY <1>1, NoneAboveRoot DEF LastTopic
    <2> QED
      BY <1>1, <2>1, <2>2, DueIs DEF OwedFrom, Owed
  <1> QED
    BY <1>1, <1>2, DueIsPrimed, SubscribedIs

\* The subscriptions, one by one.
LEMMA SubscribedElements ==
    ASSUME NEW lists
    PROVE  \A r : r \in Subscribed(lists)
                    <=> \E t \in Topic : \E e \in Range(lists[t]) : r = Bound(e, t)
  BY DEF Subscribed

\* The subscriptions that a message of topic t reaches, and what they are owed.
Reached(lists, t, n) ==
    {s \in Subscribed(lists) : IF n THEN s.topic = t ELSE HasPrefix(t, s.topic)}

OwedTo(R, m) == {Owing(r, r.topic, m) : r \in R}

\* A publication that begins owes its message to the subscriptions it reaches.
LEMMA OwedToReached ==
    ASSUME NEW t \in Topic, NEW lists, NEW m, NEW n
    PROVE  OwedFrom(t, lists[t], lists, m, n) = OwedTo(Reached(lists, t, n), m)
  <1> DEFINE reached(u) == IF n THEN u = t ELSE HasPrefix(t, u)
             promised == {Owing(r, r.topic, m) : r \in {s \in Subscribed(lists) : reached(s.topic)}}
  <1>1. \A u \in Topic : reached(u) <=> u = t \/ (~n /\ u \in Above(t))
    BY PrefixesAbove
  <1>2. \A e, u : Bound(e, u).topic = u /\ Owing(Bound(e, u), u, m) = Owing(e, u, m)
    BY DEF Bound, Owing
  <1>3. ASSUME NEW x
        PROVE  x \in promised
                 <=> \E u \in Topic : \E e \in Range(lists[u]) :
                        x = Owing(e, u, m) /\ reached(u)
    <2> HIDE DEF reached
    <2>1. x \in promised <=> \E r \in Subscribed(lists) : reached(r.topic) /\ x = Owing(r, r.topic, m)
      OBVIOUS
    <2> HIDE DEF promised
    <2>2. ASSUME NEW r \in Subscribed(lists), reached(r.topic), x = Owing(r, r.topic, m)
          PROVE  \E u \in Topic : \E e \in Range(lists[u]) : x = Owing(e, u, m) /\ reached(u)
      <3>1. PICK u \in Topic : \E e \in Range(lists[u]) : r = Bound(e, u)
        BY SubscribedElements
      <3>2. PICK e \in Range(lists[u]) : r = Bound(e, u)
        BY <3>1
      <3> QED
        BY <1>2, <2>2, <3>2
    <2>3. ASSUME NEW u \in Topic, NEW e \in Range(lists[u]), x = Owing(e, u, m), reached(u)
          PROVE  \E r \in Subscribed(lists) : reached(r.topic) /\ x = Owing(r, r.topic, m)
      <3>1. Bound(e, u) \in Subscribed(lists)
        BY SubscribedElements
      <3> QED
        BY <1>2, <2>3, <3>1
    <2> QED
      BY <2>1, <2>2, <2>3
  <1>4. ASSUME NEW x
        PROVE  x \in OwedFrom(t, lists[t], lists, m, n)
                 <=> \E u \in Topic : \E e \in Range(lists[u]) :
                        x = Owing(e, u, m) /\ (u = t \/ (~n /\ u \in Above(t)))
    <2>1. Above(t) \subseteq Topic
      BY DEF Above
    <2>2. x \in OwedFrom(t, lists[t], lists, m, n)
            <=> \/ \E e \in Range(lists[t]) : x = Owing(e, t, m)
                \/ ~n /\ \E u \in Above(t) : \E e \in Range(lists[u]) : x = Owing(e, u, m)
      BY DEF OwedFrom, Owed
    <2> QED
      BY <2>1, <2>2
  <1> HIDE DEF reached
  <1>5. OwedFrom(t, lists[t], lists, m, n) = promised
    <2> HIDE DEF promised
    <2> QED
      BY <1>1, <1>3, <1>4
  <1> QED
    BY <1>5 DEF reached, Reached, OwedTo

\* ps_publish takes the lock: from then on it is decided who gets the message.
LEMMA PublishingImplements ==
    ASSUME Ready, NEW m \in Msg, Publish(m), Publishing(m),
           sticky' = [sticky EXCEPT ![kind[m].topic] = IF kind[m].sticky THEN m ELSE NoMsg]
    PROVE  Promise!Next
  <1> DEFINE k == kind[m]
  <1>1. /\ cs = NoCS /\ app[m] > 0
        /\ cs' \in PublishCS /\ cs'.op = "publish" /\ k.topic \in Topic
        /\ UNCHANGED <<subscribers, queue, claims>>
    BY PublishingFacts DEF Ready, Publishing, queueVars
  <1>2. cs'.msg = m /\ cs'.topic = k.topic /\ cs'.todo = subscribers[k.topic]
    BY DEF Publishing
  <1>3. kind'[m] = k /\ k \in MsgKind
    <2>1. [Next]_vars
      BY DEF Next
    <2>2. Inv /\ Inv' /\ TypeOK'
      BY <2>1, NextInv DEF Ready, Inv
    <2>3. Kept
      BY <2>2, PublishKeeps
    <2>4. ref'[m] # 0
      BY <1>1, <1>2, <2>2, CurrentPointedPrimed DEF CurrentAllocated
    <2> QED
      BY <2>3, <2>4 DEF Kept, Ready, KindsMade
  <1>4. Due = {}
    BY <1>1, DueIs
  <1>5. Due' = OwedFrom(k.topic, subscribers[k.topic], subscribers, m, k.nonrecursive)
    BY <1>1, <1>2, <1>3, DueIsPrimed
  <1> DEFINE R == {s \in Subscribed(subscribers) :
                     IF k.nonrecursive THEN s.topic = k.topic
                     ELSE Promise!Covers(s.topic, k.topic)}
  <1>6. Due' = OwedTo(R, m)
    <2>1. \A s : Promise!Covers(s.topic, k.topic) <=> HasPrefix(k.topic, s.topic)
      BY SameOperators
    <2>2. R = Reached(subscribers, k.topic, k.nonrecursive)
      BY <2>1 DEF Reached
    <2>3. Due' = OwedTo(Reached(subscribers, k.topic, k.nonrecursive), m)
      BY <1>1, <1>5, OwedToReached
    <2> QED
      BY <2>2, <2>3
  <1> HIDE DEF k
  <1>7. Promise!Publish(m, k)
    BY <1>1, <1>4, <1>6 DEF Promise!Publish, OwedTo, Owing, Subscribed, Bound, k
  <1> QED
    BY <1>3, <1>7 DEF Promise!Next, k

LEMMA PublishImplements ==
    ASSUME Ready, NEW m \in Msg, Publish(m)
    PROVE  Promise!Next
  <1>1. sticky \in [Topic -> Msg \cup {NoMsg}]
    BY DEF Ready, Inv, TypeOK
  <1>2. CASE PublishSticky(m)
    BY <1>2, PublishingImplements DEF PublishSticky
  <1>3. CASE PublishClears(m)
    BY <1>3, PublishingImplements DEF PublishClears
  <1>4. CASE PublishPlain(m)
    <2>1. sticky' = [sticky EXCEPT ![kind[m].topic] = NoMsg]
      BY <1>1, <1>4 DEF PublishPlain
    <2> QED
      BY <1>4, <2>1, PublishingImplements DEF PublishPlain
  <1> QED
    BY <1>2, <1>3, <1>4 DEF Publish

\* ps_subscribe adds one subscription and owes it the sticky messages it asks for.
LEMMA SubscribeImplements ==
    ASSUME Ready, NEW su \in Sub, NEW t \in Topic, NEW f \in SubFlags, Subscribe(su, t, f)
    PROVE  Promise!Next
  <1> DEFINE new == [su |-> su, hidden |-> f.hidden, on_empty |-> f.on_empty,
                     priority |-> f.priority]
             asked(v) == /\ ~f.no_sticky
                         /\ IF f.child_sticky THEN HasPrefix(v, t) ELSE v = t
             T == StickiesFor(t, f)
  <1>1. /\ cs = NoCS /\ su \notin Subscribers(t)
        /\ subscribers' = [subscribers EXCEPT ![t] = Append(@, new)]
        /\ UNCHANGED <<sticky, queue, claims>>
        /\ TypeOK /\ Lists
    BY DEF Subscribe, queueVars, Ready, Inv
  <1>2. Due = {}
    BY <1>1, DueIs
  <1>3. T = {v \in Topic : sticky[v] # NoMsg /\ asked(v)}
    <2>1. \A v : v \in topics /\ sticky[v] # NoMsg <=> v \in Topic /\ sticky[v] # NoMsg
      BY <1>1 DEF TypeOK, Lists, TopicsInUse, Used
    <2> QED
      BY <2>1 DEF StickiesFor
  <1>4. Due' = Greeting(su, T, sticky, f.priority)
    <2>1. CASE T = {}
      <3>1. cs' = NoCS
        BY <2>1 DEF Subscribe
      <3> QED
        BY <2>1, <3>1, DueIsPrimed DEF Greeting
    <2>2. CASE T # {}
      <3>1. cs' = [op |-> "subscribe", su |-> su, todo |-> T, priority |-> f.priority]
        BY <2>2 DEF Subscribe
      <3> HIDE DEF T
      <3> QED
        BY <1>1, <3>1, DueIsPrimed
    <2> QED
      BY <2>1, <2>2
  <1>5. ASSUME NEW r \in Subscribed(subscribers), r.su = su PROVE r.topic # t
    <2>1. PICK u \in Topic : \E e \in Range(subscribers[u]) : r = Bound(e, u)
      BY SubscribedElements
    <2>2. PICK e \in Range(subscribers[u]) : r = Bound(e, u)
      BY <2>1
    <2>3. e.su = su /\ r.topic = u
      BY <1>5, <2>2 DEF Bound
    <2> QED
      BY <1>1, <2>3 DEF Subscribers
  <1>6. Subscribed(subscribers') = Subscribed(subscribers) \cup {Bound(new, t)}
    <2>1. /\ subscribers[t] \in Seq(Entry) /\ new \in Entry
          /\ subscribers'[t] = Append(subscribers[t], new)
          /\ \A u \in Topic \ {t} : subscribers'[u] = subscribers[u]
      BY <1>1, PubSubAssumption DEF TypeOK, Entry, Flags
    <2> HIDE DEF new
    <2>2. \A e : e \in Range(Append(subscribers[t], new)) <=> e = new \/ e \in Range(subscribers[t])
      <3> DEFINE c == Append(subscribers[t], new)
      <3>1. /\ c \in Seq(Entry)
            /\ \A i \in 1..Len(c) : c[i] = new \/ (i \in 1..Len(subscribers[t]) /\ c[i] = subscribers[t][i])
            /\ \A i \in 1..Len(subscribers[t]) : i \in 1..Len(c) /\ c[i] = subscribers[t][i]
            /\ Len(c) \in 1..Len(c) /\ c[Len(c)] = new
        BY <2>1, Appended
      <3> HIDE DEF c
      <3>2. /\ \A e : e \in Range(c) <=> \E i \in 1..Len(c) : c[i] = e
            /\ \A e : e \in Range(subscribers[t]) <=> \E i \in 1..Len(subscribers[t]) : subscribers[t][i] = e
        BY <2>1, <3>1, RangeOf
      <3>3. \A e : e \in Range(c) <=> e = new \/ e \in Range(subscribers[t])
        BY <3>1, <3>2
      <3> QED
        BY <3>3 DEF c
    <2>3. \A u \in Topic : \A e : e \in Range(subscribers'[u])
                                 <=> e \in Range(subscribers[u]) \/ (u = t /\ e = new)
      BY <2>1, <2>2
    <2> QED
      BY <2>3, SubscribedElements
  <1>7. Due' = {[su |-> su, topic |-> u, on_empty |-> FALSE, priority |-> f.priority,
                 msg |-> sticky[u]] :
                 u \in {v \in Topic : /\ sticky[v] # NoMsg
                                      /\ ~f.no_sticky
                                      /\ IF f.child_sticky THEN Promise!Covers(t, v) ELSE v = t}}
    <2> DEFINE A == {v \in Topic : /\ sticky[v] # NoMsg
                                   /\ ~f.no_sticky
                                   /\ IF f.child_sticky THEN Promise!Covers(t, v) ELSE v = t}
    <2>1. \A v : Promise!Covers(t, v) <=> HasPrefix(v, t)
      BY SameOperators
    <2>2. T = A
      BY <1>3, <2>1
    <2> HIDE DEF A, T
    <2>3. Due' = Greeting(su, A, sticky, f.priority)
      BY <1>4, <2>2
    <2>4. Due' = {[su |-> su, topic |-> u, on_empty |-> FALSE, priority |-> f.priority,
                   msg |-> sticky[u]] : u \in A}
      BY <2>3 DEF Greeting
    <2> QED
      BY <2>4 DEF A
  <1>8. Bound(new, t) = Promise!Subscription(su, t, f)
    BY DEF Bound, Promise!Subscription
  <1> HIDE DEF new, T, asked
  <1>9. Promise!Subscribe(su, t, f)
    BY <1>1, <1>2, <1>5, <1>6, <1>7, <1>8 DEF Promise!Subscribe, Subscribed, Bound
  <1> QED
    BY <1>9 DEF Promise!Next

\* The entries of a list that has lost those of su.
LEMMA EntriesWithout ==
    ASSUME NEW s \in Seq(Entry), NoneTwice(s), NEW c, NEW su, WithoutEntry(c, s, su)
    PROVE  \A e : e \in Range(c) <=> e \in Range(s) /\ e.su # su
  <1>1. /\ \A e : e \in Range(c) <=> \E i \in 1..Len(c) : c[i] = e
        /\ \A e : e \in Range(s) <=> \E j \in 1..Len(s) : s[j] = e
    BY RangeOf DEF WithoutEntry
  <1>2. ASSUME NEW e \in Range(c) PROVE e \in Range(s) /\ e.su # su
    <2>1. PICK i \in 1..Len(c) : c[i] = e
      BY <1>1
    <2>2. Enlisted(c, e.su)
      BY <2>1 DEF Enlisted
    <2> QED
      BY <1>1, <2>1, <2>2 DEF WithoutEntry
  <1>3. ASSUME NEW e \in Range(s), e.su # su PROVE e \in Range(c)
    <2>1. PICK j \in 1..Len(s) : s[j] = e
      BY <1>1
    <2>2. Enlisted(c, e.su)
      BY <1>3, <2>1 DEF Enlisted, WithoutEntry
    <2>3. PICK i \in 1..Len(c) : c[i].su = e.su
      BY <2>2 DEF Enlisted
    <2>4. PICK k \in 1..Len(s) : c[i] = s[k]
      BY DEF WithoutEntry
    <2>5. k = j
      BY <2>1, <2>3, <2>4 DEF NoneTwice
    <2> QED
      BY <1>1, <2>1, <2>4, <2>5
  <1> QED
    BY <1>2, <1>3

\* Subscriptions that go away while nothing is due.
LEMMA DropImplements ==
    ASSUME Ready, NEW su \in Sub, NEW T \in SUBSET Topic,
           cs = NoCS, UNCHANGED <<sticky, queue, claims, cs>>,
           \A t \in Topic : \A e :
              e \in Range(subscribers'[t]) <=> e \in Range(subscribers[t]) /\ ~(e.su = su /\ t \in T)
    PROVE  Promise!Next
  <1> DEFINE left == {r \in Subscribed(subscribers) : ~(r.su = su /\ r.topic \in T)}
  <1>1. Due = {} /\ Due' = {}
    BY DueIs, DueIsPrimed
  <1>2. \A e, t : Bound(e, t).su = e.su /\ Bound(e, t).topic = t
    BY DEF Bound
  <1>3. ASSUME NEW r \in Subscribed(subscribers') PROVE r \in left
    <2>1. PICK t \in Topic : \E e \in Range(subscribers'[t]) : r = Bound(e, t)
      BY SubscribedElements
    <2>2. PICK e \in Range(subscribers'[t]) : r = Bound(e, t)
      BY <2>1
    <2>3. e \in Range(subscribers[t]) /\ ~(e.su = su /\ t \in T)
      OBVIOUS
    <2> QED
      BY <1>2, <2>2, <2>3, SubscribedElements
  <1>4. ASSUME NEW r \in left PROVE r \in Subscribed(subscribers')
    <2>1. r \in Subscribed(subscribers) /\ ~(r.su = su /\ r.topic \in T)
      OBVIOUS
    <2>2. PICK t \in Topic : \E e \in Range(subscribers[t]) : r = Bound(e, t)
      BY <2>1, SubscribedElements
    <2>3. PICK e \in Range(subscribers[t]) : r = Bound(e, t)
      BY <2>2
    <2>4. e \in Range(subscribers'[t])
      BY <1>2, <2>1, <2>3
    <2> QED
      BY <2>3, <2>4, SubscribedElements
  <1>5. Subscribed(subscribers') = left
    <2> HIDE DEF left
    <2> QED
      BY <1>3, <1>4
  <1>6. Promise!Unsubscribe(su, T)
    BY <1>1, <1>5 DEF Promise!Unsubscribe, Subscribed, Bound
  <1> QED
    BY <1>6 DEF Promise!Next

LEMMA UnsubscribeImplements ==
    ASSUME Ready, NEW su \in Sub, NEW t \in Topic, Unsubscribe(su, t)
    PROVE  Promise!Next
  <1> DEFINE T == {t}
  <1>1. /\ cs = NoCS /\ su \in Subscribers(t)
        /\ subscribers' = [subscribers EXCEPT ![t] = Without(su, t)]
        /\ UNCHANGED <<sticky, queue, claims, cs>>
        /\ TypeOK /\ Lists /\ subscribers \in [Topic -> Seq(Entry)]
    BY DEF Unsubscribe, queueVars, Ready, Inv, TypeOK
  <1>2. WithoutEntry(Without(su, t), subscribers[t], su)
    BY <1>1, SubscribersOf, WithoutDeleted
  <1>3. \A e : e \in Range(Without(su, t)) <=> e \in Range(subscribers[t]) /\ e.su # su
    BY <1>1, <1>2, EntriesWithout DEF Lists, ListsDistinct
  <1>4. \A u \in Topic : subscribers'[u] = IF u = t THEN Without(su, t) ELSE subscribers[u]
    BY <1>1
  <1>5. \A u \in Topic : \A e :
           e \in Range(subscribers'[u]) <=> e \in Range(subscribers[u]) /\ ~(e.su = su /\ u \in T)
    BY <1>3, <1>4
  <1>6. T \in SUBSET Topic
    OBVIOUS
  <1> HIDE DEF T
  <1> QED
    BY <1>1, <1>5, <1>6, DropImplements

\* ps_unsubscribe_all, also as the beginning of ps_free_subscriber: the topics of
\* the subscriber's own list are all there are.
LEMMA DropAllImplements ==
    ASSUME Ready, NEW su \in Sub, UnsubscribeAll(su) \/ FreeSubscriber(su)
    PROVE  Promise!Next
  <1>1. /\ cs = NoCS
        /\ subscribers' = [t \in Topic |->
              IF t \in Range(subs[su]) THEN Without(su, t) ELSE subscribers[t]]
        /\ UNCHANGED <<sticky, queue, claims, cs>>
        /\ TypeOK /\ Lists /\ subscribers \in [Topic -> Seq(Entry)] /\ subs[su] \in Seq(Topic)
    BY DEF UnsubscribeAll, FreeSubscriber, DropAll, queueVars, Ready, Inv, TypeOK
  <1>2. \A t \in Topic : t \in Range(subs[su]) <=> Enlisted(subscribers[t], su)
    BY <1>1, ListedTopics
  <1>3. ASSUME NEW t \in Topic
        PROVE  \A e : e \in Range(subscribers'[t])
                        <=> e \in Range(subscribers[t]) /\ ~(e.su = su /\ t \in Range(subs[su]))
    <2>1. subscribers[t] \in Seq(Entry) /\ NoneTwice(subscribers[t])
      BY <1>1 DEF Lists, ListsDistinct
    <2>2. CASE t \in Range(subs[su])
      <3>1. WithoutEntry(subscribers'[t], subscribers[t], su)
        BY <1>1, <1>2, <2>2, WithoutDeleted
      <3> QED
        BY <2>1, <2>2, <3>1, EntriesWithout
    <2>3. CASE t \notin Range(subs[su])
      BY <1>1, <2>3
    <2> QED
      BY <2>2, <2>3
  <1>4. Range(subs[su]) \in SUBSET Topic
    BY <1>1, RangeOf
  <1> QED
    BY <1>1, <1>3, <1>4, DropImplements

\* ps_clean_sticky visits the topics of the map: every other one has no sticky
\* message to lose.
LEMMA CleanStickyImplements ==
    ASSUME Ready, NEW prefix \in Topic, CleanSticky(prefix)
    PROVE  Promise!Next
  <1> DEFINE cleaned == {t \in topics : HasPrefix(t, prefix) /\ sticky[t] # NoMsg}
  <1>1. /\ cs = NoCS
        /\ sticky' = [t \in Topic |-> IF t \in cleaned THEN NoMsg ELSE sticky[t]]
        /\ UNCHANGED <<subscribers, queue, claims, cs>>
    BY DEF CleanSticky, queueVars
  <1>2. Due = {} /\ Due' = {}
    BY <1>1, DueIs, DueIsPrimed
  <1>3. ASSUME NEW t \in Topic
        PROVE  sticky'[t] = IF Promise!Covers(prefix, t) THEN NoMsg ELSE sticky[t]
    <2>1. Promise!Covers(prefix, t) <=> HasPrefix(t, prefix)
      BY SameOperators
    <2>2. sticky[t] # NoMsg => t \in topics
      BY DEF Ready, Inv, Lists, TopicsInUse, Used
    <2> QED
      BY <1>1, <2>1, <2>2
  <1>4. sticky' = [t \in Topic |-> IF Promise!Covers(prefix, t) THEN NoMsg ELSE sticky[t]]
    BY <1>1, <1>3
  <1>5. Promise!CleanSticky(prefix)
    BY <1>1, <1>2, <1>4 DEF Promise!CleanSticky
  <1> QED
    BY <1>5 DEF Promise!Next

\* One sticky message of a new subscription.
LEMMA PushStickyImplements ==
    ASSUME Ready, PushSticky
    PROVE  Promise!Next
  <1>1. /\ cs.op = "subscribe" /\ UNCHANGED <<subscribers, sticky, claims>>
    BY DEF PushSticky, topicVars
  <1>2. PICK t \in cs.todo :
          /\ Push(cs.su, sticky[t], cs.priority)
          /\ cs' = IF cs.todo = {t} THEN NoCS ELSE [cs EXCEPT !.todo = @ \ {t}]
    BY DEF PushSticky
  <1>3. /\ cs \in SubscribeCS /\ t \in Topic /\ cs.su \in Sub /\ cs.priority \in Prio
        /\ sticky[t] \in Msg
    <2>1. cs \in SubscribeCS
      BY <1>1 DEF Ready, Inv, TypeOK, NoCS, PublishCS
    <2> QED
      BY <1>1, <2>1 DEF SubscribeCS, Ready, Inv, TypeOK, SectionReady
  <1> DEFINE d == [su |-> cs.su, topic |-> t, on_empty |-> FALSE, priority |-> cs.priority,
                   msg |-> sticky[t]]
  <1>4. Due = Greeting(cs.su, cs.todo, sticky, cs.priority)
    BY <1>1, DueIs
  <1>5. Due' = Greeting(cs.su, cs.todo \ {t}, sticky, cs.priority)
    <2>1. CASE cs.todo = {t}
      <3>1. Due' = {} /\ cs.todo \ {t} = {}
        BY <1>2, <2>1, DueIsPrimed
      <3> QED
        BY <3>1 DEF Greeting
    <2>2. CASE cs.todo # {t}
      <3>1. /\ cs'.op = "subscribe" /\ cs'.su = cs.su /\ cs'.priority = cs.priority
            /\ cs'.todo = cs.todo \ {t}
        BY <1>2, <1>3, <2>2 DEF SubscribeCS
      <3> QED
        BY <1>1, <3>1, DueIsPrimed
    <2> QED
      BY <2>1, <2>2
  <1>6. d \in Due /\ Due' = Due \ {d}
    <2> DEFINE g(u) == [su |-> cs.su, topic |-> u, on_empty |-> FALSE,
                        priority |-> cs.priority, msg |-> sticky[u]]
    <2>1. \A u, v : g(u) = g(v) => u = v
      <3>1. \A u : g(u).topic = u
        OBVIOUS
      <3> QED
        BY <3>1
    <2>2. d = g(t) /\ Due = {g(u) : u \in cs.todo} /\ Due' = {g(u) : u \in cs.todo \ {t}}
      BY <1>4, <1>5 DEF Greeting
    <2> HIDE DEF g, d
    <2> QED
      BY <2>1, <2>2
  <1>7. Promise!Accepts(cs.su, sticky[t], cs.priority)
    BY <1>2, <1>3, PushAccepts DEF Ready
  <1>8. d.su = cs.su /\ d.on_empty = FALSE /\ d.priority = cs.priority /\ d.msg = sticky[t]
    OBVIOUS
  <1> HIDE DEF d
  <1>9. Promise!Serve(d)
    BY <1>1, <1>6, <1>7, <1>8 DEF Promise!Serve
  <1> QED
    BY <1>6, <1>9 DEF Promise!Next

\* ps_get, in its two steps.
LEMMA ReadImplements ==
    ASSUME Ready, NEW su \in Sub, Claim(su) \/ Take(su)
    PROVE  Promise!Next
  <1>1. UNCHANGED <<subscribers, sticky, cs>> /\ Due' = Due
    <2>1. UNCHANGED <<subscribers, sticky, cs>>
      BY DEF Claim, Take, topicVars
    <2>2. [Next]_vars
      BY DEF Next
    <2> QED
      BY <2>1, <2>2, DueStays DEF Ready
  <1>2. CASE Claim(su)
    <2>1. Promise!Claim(su)
      BY <1>1, <1>2, SameOperators DEF Claim, Promise!Claim
    <2> QED
      BY <2>1 DEF Promise!Next
  <1>3. CASE Take(su)
    <2>1. Promise!Leaves(su)
      BY <1>3, SameOperators DEF Take, Promise!Leaves
    <2>2. Promise!Take(su)
      BY <1>1, <1>3, <2>1 DEF Take, Promise!Take
    <2> QED
      BY <2>2 DEF Promise!Next
  <1> QED
    BY <1>2, <1>3

\* A subscriber that is not live has no subscription, and nobody reads from it.
LEMMA OutOfReach ==
    ASSUME Inv, NEW su \in Sub, status[su] # "live"
    PROVE  claims[su] = 0 /\ \A r \in Subscribed(subscribers) : r.su # su
  <1>1. claims[su] = 0
    BY DEF Inv, TypeOK, OnlyLiveReached
  <1>2. ASSUME NEW r \in Subscribed(subscribers) PROVE r.su # su
    <2>1. PICK t \in Topic : \E e \in Range(subscribers[t]) : r = Bound(e, t)
      BY SubscribedElements
    <2>2. PICK e \in Range(subscribers[t]) : r = Bound(e, t)
      BY <2>1
    <2>3. status[e.su] = "live" /\ r.su = e.su
      BY <2>2 DEF Inv, OnlyLiveReached, Bound
    <2> QED
      BY <2>3
  <1> QED
    BY <1>1, <1>2

\* ps_flush inside ps_free_subscriber.
LEMMA FreeFlushesImplements ==
    ASSUME Ready, NEW su \in Sub, FreeFlushes(su)
    PROVE  Promise!Next
  <1>1. status[su] = "freeing" /\ UNCHANGED <<subscribers, sticky, claims, cs>>
    BY DEF FreeFlushes, topicVars
  <1>2. Due' = Due
    <2>1. [Next]_vars
      BY DEF Next
    <2> QED
      BY <1>1, <2>1, DueStays DEF Ready
  <1>3. claims[su] = 0 /\ \A r \in Subscribed(subscribers) : r.su # su
    BY <1>1, OutOfReach DEF Ready
  <1>4. Promise!Leaves(su)
    BY SameOperators DEF FreeFlushes, Promise!Leaves
  <1>5. Promise!Discard(su)
    BY <1>1, <1>2, <1>3, <1>4 DEF Promise!Discard, Subscribed, Bound
  <1> QED
    BY <1>5 DEF Promise!Next

\* A queue that stores nothing is the empty one, before it is freed and after.
LEMMA NothingLeft ==
    ASSUME Inv, NEW su \in Sub, FreeEnds(su)
    PROVE  queue[su] = Empty(Prio)
  <1>1. queue[su] \in [Prio -> Seq(Msg)] /\ IsFiniteSet(Slots(queue[su])) /\ Stored(queue[su]) \in Nat
    BY QueueFacts DEF Inv
  <1>2. claims[su] = 0 /\ Stored(queue[su]) - claims[su] = 0
    BY OutOfReach DEF FreeEnds, Waiting
  <1>3. Stored(queue[su]) = 0
    BY <1>1, <1>2
  <1>4. \A p \in Prio : queue[su][p] = <<>>
    BY <1>1, <1>3, StoredZero
  <1> QED
    BY <1>1, <1>4 DEF Empty

LEMMA LifeStutters ==
    ASSUME Ready, NEW su \in Sub, NewSubscriber(su) \/ FreeEnds(su)
    PROVE  UNCHANGED Promise!vars
  <1>1. /\ UNCHANGED <<subscribers, sticky, claims, cs>>
        /\ queue' = [queue EXCEPT ![su] = Empty(Prio)]
        /\ queue \in [Sub -> [Prio -> Seq(Msg)]]
    BY DEF NewSubscriber, FreeEnds, FreeQueue, topicVars, Ready, Inv, TypeOK
  <1>2. queue[su] = Empty(Prio)
    BY NothingLeft DEF NewSubscriber, Ready, Inv, QueuesReady
  <1>3. queue' = queue
    BY <1>1, <1>2
  <1>4. [Next]_vars
    BY DEF Next
  <1> QED
    BY <1>1, <1>3, <1>4, Stutters DEF Ready

LEMMA StepImplements == Ready /\ [Next]_vars => [Promise!Next]_(Promise!vars)
  <1> SUFFICES ASSUME Ready, [Next]_vars
               PROVE  Promise!Next \/ UNCHANGED Promise!vars
    OBVIOUS
  <1>1. ASSUME NEW m \in Msg, (\E k \in MsgKind : NewMsg(m, k)) \/ RefMsg(m) \/ UnrefMsg(m)
        PROVE  UNCHANGED Promise!vars
    <2>1. UNCHANGED <<subscribers, sticky, queue, claims, cs>>
      BY <1>1 DEF NewMsg, RefMsg, UnrefMsg, topicVars, queueVars
    <2> QED
      BY <2>1, Stutters DEF Ready
  <1>2. ASSUME NEW m \in Msg, Publish(m) PROVE Promise!Next
    BY <1>2, PublishImplements
  <1>3. CASE PublishGoesOn
    BY <1>3, CheckEmptyImplements, DeliverImplements, NextTopicImplements, PublishEndsImplements
    DEF PublishGoesOn
  <1>4. ASSUME NEW su \in Sub, NewSubscriber(su) \/ FreeEnds(su) PROVE UNCHANGED Promise!vars
    BY <1>4, LifeStutters
  <1>5. ASSUME NEW su \in Sub, NEW t \in Topic,
               (\E f \in SubFlags : Subscribe(su, t, f)) \/ Unsubscribe(su, t)
        PROVE  Promise!Next
    BY <1>5, SubscribeImplements, UnsubscribeImplements
  <1>6. ASSUME NEW su \in Sub, UnsubscribeAll(su) \/ FreeSubscriber(su) PROVE Promise!Next
    BY <1>6, DropAllImplements
  <1>7. ASSUME NEW su \in Sub, FreeFlushes(su) PROVE Promise!Next
    BY <1>7, FreeFlushesImplements
  <1>8. ASSUME NEW su \in Sub, Claim(su) \/ Take(su) PROVE Promise!Next
    BY <1>8, ReadImplements
  <1>9. CASE PushSticky
    BY <1>9, PushStickyImplements
  <1>10. ASSUME NEW t \in Topic, CleanSticky(t) PROVE Promise!Next
    BY <1>10, CleanStickyImplements
  <1>11. CASE UNCHANGED vars
    BY <1>11, Stutters DEF vars, Ready
  <1> QED
    BY <1>1, <1>2, <1>3, <1>4, <1>5, <1>6, <1>7, <1>8, <1>9, <1>10, <1>11 DEF Next

\* pubsub-c keeps the promise of TopicBus (ps_publish, ps_subscribe_flags,
\* ps_unsubscribe, ps_unsubscribe_all, ps_free_subscriber, ps_clean_sticky, ps_get):
\* what a call owes is decided at once, when the lock is taken, although the code
\* climbs from topic to topic and pushes message by message while readers go on;
\* each message that is owed reaches its inbox once, and no other does.
THEOREM Refinement == Spec => KeepsPromise
  <1>1. Init => Promise!Init
    BY InitImplements
  <1>2. Spec => []Ready
    BY InitReady, NextReady, PTL DEF Spec
  <1>3. Ready /\ [Next]_vars => [Promise!Next]_(Promise!vars)
    BY StepImplements
  <1> QED
    BY <1>1, <1>2, <1>3, PTL DEF Spec, KeepsPromise, Promise!Spec

=============================================================================
