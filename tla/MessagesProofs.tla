---------------------------- MODULE MessagesProofs ----------------------------
(***************************************************************************)
(* Proofs about what a message says: its topic, for all the strings and    *)
(* flags that the characters of the library make up; its value and its     *)
(* memory, for any number of threads, of messages and of references, any   *)
(* texts and any numbers.                                                  *)
(***************************************************************************)
EXTENDS Topics, Message, WellFoundedInduction, FiniteSetTheorems, TLAPS

(***************************************************************************)
(* Topics and their ancestors (Topics)                                     *)
(***************************************************************************)

\* Sequence s begins with a.
Begins(a, s) == Len(a) <= Len(s) /\ \A i \in 1..Len(a) : a[i] = s[i]

LEMMA PrefixBegins ==
    ASSUME NEW S, NEW a \in Seq(S), NEW s \in Seq(S)
    PROVE  IsPrefix(a, s) <=> Begins(a, s)
  <1> SUFFICES ASSUME Len(a) <= Len(s)
               PROVE  SubSeq(a, 1, Len(a)) = SubSeq(s, 1, Len(a))
                        <=> \A i \in 1..Len(a) : a[i] = s[i]
    BY DEF IsPrefix, Begins
  <1>1. SubSeq(a, 1, Len(a)) = [i \in 1..Len(a) |-> a[i]]
    OBVIOUS
  <1>2. SubSeq(s, 1, Len(a)) = [i \in 1..Len(a) |-> s[i]]
    OBVIOUS
  <1> QED
    BY <1>1, <1>2

\* What is left of a sequence that is cut.
LEMMA CutSequence ==
    ASSUME NEW S, NEW s \in Seq(S), NEW i \in 1..(Len(s) + 1)
    PROVE  /\ Cut(s, i) \in Seq(S) /\ Len(Cut(s, i)) = i - 1
           /\ \A j \in 1..(i - 1) : Cut(s, i)[j] = s[j]
  BY DEF Cut

LEMMA SameSequence ==
    ASSUME NEW S, NEW a \in Seq(S), NEW b \in Seq(S), Len(a) = Len(b),
           \A i \in 1..Len(a) : a[i] = b[i]
    PROVE  a = b
  OBVIOUS

\* A set of positions has a first one.
LEMMA FirstPosition ==
    ASSUME NEW B, B \subseteq Nat, B # {}
    PROVE  \E i \in B : \A j \in B : i <= j
  <1>1. PICK i \in B : \A j \in B : ~(<<j, i>> \in OpToRel(<, Nat))
    BY NatLessThanWellFounded, WFMin
  <1>2. \A j \in B : ~(j < i)
    BY <1>1 DEF OpToRel
  <1> QED
    BY <1>2

\* The part before the first blank.
LEMMA CutFlagsIs ==
    ASSUME NEW S, NEW s \in Seq(S)
    PROVE  /\ CutFlags(s) \in Seq(S) /\ Begins(CutFlags(s), s)
           /\ \A i \in 1..Len(CutFlags(s)) : CutFlags(s)[i] # Blank
           /\ CutFlags(s) = s \/ s[Len(CutFlags(s)) + 1] = Blank
  <1> DEFINE blanks == {i \in DOMAIN s : s[i] = Blank}
  <1>1. Len(s) \in Nat /\ DOMAIN s = 1..Len(s) /\ blanks \subseteq 1..Len(s)
    OBVIOUS
  <1>2. CASE blanks = {}
    <2>1. CutFlags(s) = s /\ \A i \in 1..Len(s) : s[i] # Blank
      BY <1>1, <1>2 DEF CutFlags
    <2> QED
      BY <1>1, <2>1 DEF Begins
  <1>3. CASE blanks # {}
    <2> DEFINE k == CHOOSE i \in blanks : \A j \in blanks : i <= j
    <2>1. k \in blanks /\ \A j \in blanks : k <= j
      <3>1. \E i \in blanks : \A j \in blanks : i <= j
        <4>1. blanks \subseteq Nat
          BY <1>1
        <4> HIDE DEF blanks
        <4> QED
          BY <1>3, <4>1, FirstPosition
      <3> HIDE DEF blanks
      <3> QED
        BY <3>1
    <2>2. CutFlags(s) = SubSeq(s, 1, k - 1)
      BY <1>3 DEF CutFlags
    <2>3. k \in 1..Len(s) /\ s[k] = Blank /\ \A j \in 1..(k - 1) : s[j] # Blank
      <3>1. k \in 1..Len(s) /\ s[k] = Blank
        BY <1>1, <2>1
      <3>2. \A j \in 1..Len(s) : s[j] = Blank => k <= j
        BY <1>1, <2>1
      <3> HIDE DEF k
      <3> QED
        BY <1>1, <3>1, <3>2
    <2> HIDE DEF k
    <2>4. /\ CutFlags(s) \in Seq(S) /\ Len(CutFlags(s)) = k - 1
          /\ \A j \in 1..(k - 1) : CutFlags(s)[j] = s[j]
      BY <1>1, <2>2, <2>3
    <2> QED
      BY <1>1, <2>3, <2>4 DEF Begins
  <1> QED
    BY <1>2, <1>3

\* An ancestor of t is where t begins, up to its end or one of its dots, or "".
LEMMA AncestorIs ==
    ASSUME NEW S, NEW t \in Seq(S)
    PROVE  \A a : a \in Ancestors(t)
                    <=> /\ a \in Seq(S) /\ Begins(a, t)
                        /\ Len(a) = 0 \/ Len(a) = Len(t) \/ t[Len(a) + 1] = Dot
  <1>1. Len(t) \in Nat /\ DOMAIN t = 1..Len(t)
    OBVIOUS
  <1>2. ASSUME NEW a \in Ancestors(t)
        PROVE  /\ a \in Seq(S) /\ Begins(a, t)
               /\ Len(a) = 0 \/ Len(a) = Len(t) \/ t[Len(a) + 1] = Dot
    <2>1. CASE a = t
      BY <1>1, <2>1 DEF Begins
    <2>3. CASE a = <<>>
      <3>1. a \in Seq(S) /\ Len(a) = 0
        BY <2>3
      <3> QED
        BY <1>1, <3>1 DEF Begins
    <2>2. CASE \E i \in 1..Len(t) : t[i] = Dot /\ a = Cut(t, i)
      <3>1. PICK i \in 1..Len(t) : t[i] = Dot /\ a = Cut(t, i)
        BY <2>2
      <3>2. a \in Seq(S) /\ Len(a) = i - 1 /\ \A j \in 1..(i - 1) : a[j] = t[j]
        <4>1. i \in 1..(Len(t) + 1)
          BY <1>1
        <4> QED
          BY <3>1, <4>1, CutSequence
      <3> QED
        BY <1>1, <3>1, <3>2 DEF Begins
    <2> QED
      BY <1>1, <2>1, <2>2, <2>3 DEF Ancestors
  <1>3. ASSUME NEW a \in Seq(S), Begins(a, t),
               Len(a) = 0 \/ Len(a) = Len(t) \/ t[Len(a) + 1] = Dot
        PROVE  a \in Ancestors(t)
    <2>1. Len(a) \in Nat
      OBVIOUS
    <2>2. CASE Len(a) = 0
      BY <2>2 DEF Ancestors
    <2>3. CASE Len(a) = Len(t)
      <3>1. a = t
        BY <1>3, <2>3, SameSequence DEF Begins
      <3> QED
        BY <3>1 DEF Ancestors
    <2>4. CASE Len(a) < Len(t) /\ t[Len(a) + 1] = Dot
      <3> DEFINE i == Len(a) + 1
      <3>1. i \in 1..Len(t) /\ t[i] = Dot
        BY <1>1, <2>1, <2>4
      <3>2. Cut(t, i) \in Seq(S) /\ Len(Cut(t, i)) = Len(a) /\ \A j \in 1..Len(a) : Cut(t, i)[j] = t[j]
        <4>1. i \in 1..(Len(t) + 1) /\ i - 1 = Len(a)
          BY <1>1, <2>1, <3>1
        <4> HIDE DEF i
        <4> QED
          BY <4>1, CutSequence
      <3>3. Cut(t, i) = a
        BY <1>3, <3>2, SameSequence DEF Begins
      <3> QED
        BY <1>1, <3>1, <3>3 DEF Ancestors
    <2> QED
      BY <1>1, <1>3, <2>1, <2>2, <2>3, <2>4 DEF Begins
  <1> QED
    BY <1>2, <1>3

(***************************************************************************)
(* The loops over the parents                                              *)
(***************************************************************************)

\* The longest topics come first.
Descending == \A i, j \in DOMAIN visited : i < j => Len(visited[i]) > Len(visited[j])

\* The ancestors that the loop has visited when it has come down to length k.
VisitedTo(k) ==
    \A a : a \in ToSet(visited) <=> a \in Ancestors(CutFlags(msg)) /\ a # <<>> /\ Len(a) >= k

\* The loops of ps_publish and ps_subs_count: at the outer one the topic that is
\* left is the next ancestor, at the inner one it is on the way there.
Climbing ==
    by # "subscribe" =>
        /\ by \in {"publish", "subs_count"}
        /\ msg \in Seq(Char) /\ wanted \in Seq(Char)
        /\ topic \in Seq(Char) /\ Begins(topic, CutFlags(msg))
        /\ visited \in Seq(Seq(Char)) /\ Descending
        /\ pc \in {"visit", "cut", "done"}
        /\ pc = "visit" => topic \in Ancestors(CutFlags(msg)) /\ VisitedTo(Len(topic) + 1)
        /\ pc = "cut" => n = Len(topic) /\ VisitedTo(Len(topic))
        /\ pc = "done" =>
              \A a : a \in ToSet(visited)
                        <=> a \in Ancestors(CutFlags(msg)) /\ (by = "publish" \/ a # <<>>)

LEMMA InitClimbing == Init => Climbing
  <1> SUFFICES ASSUME Init, by # "subscribe" PROVE Climbing
    BY DEF Climbing
  <1>1. /\ by \in {"publish", "subs_count"}
        /\ msg \in Seq(Char) /\ wanted \in Seq(Char) /\ topic = CutFlags(msg)
        /\ visited = <<>> /\ pc = "visit"
    <2>1. (by = "publish" /\ wanted \in Wanted) \/ (by = "subs_count" /\ wanted = <<>>)
      BY DEF Init
    <2>2. msg \in Published /\ topic = CutFlags(msg) /\ visited = <<>> /\ pc = "visit"
      BY DEF Init
    <2>3. <<>> \in Seq(Char)
      OBVIOUS
    <2> QED
      BY <2>1, <2>2, <2>3, TopicsAssumption
  <1>2. /\ topic \in Seq(Char) /\ Begins(topic, topic) /\ Len(topic) \in Nat
        /\ Begins(topic, msg)
    BY <1>1, CutFlagsIs DEF Begins
  <1>3. topic \in Ancestors(CutFlags(msg))
    BY <1>1 DEF Ancestors
  <1>4. VisitedTo(Len(topic) + 1)
    <2>1. ToSet(visited) = {}
      BY <1>1 DEF ToSet
    <2>2. ASSUME NEW a \in Ancestors(topic) PROVE ~(Len(a) >= Len(topic) + 1)
      <3>1. a \in Seq(Char) /\ Len(a) <= Len(topic)
        BY <1>2, AncestorIs DEF Begins
      <3> QED
        BY <1>2, <3>1
    <2> QED
      BY <1>1, <2>1, <2>2 DEF VisitedTo
  <1>5. visited \in Seq(Seq(Char)) /\ Descending
    BY <1>1 DEF Descending
  <1> QED
    BY <1>1, <1>2, <1>3, <1>4, <1>5 DEF Climbing

\* One more topic is visited.
LEMMA VisitsOne ==
    ASSUME visited \in Seq(Seq(Char)), topic \in Seq(Char), Descending,
           \A a \in ToSet(visited) : Len(a) > Len(topic),
           visited' = Append(visited, topic)
    PROVE  /\ visited' \in Seq(Seq(Char)) /\ Descending'
           /\ \A a : a \in ToSet(visited') <=> a \in ToSet(visited) \/ a = topic
  <1> DEFINE k == Len(visited)
  <1>1. /\ visited' \in Seq(Seq(Char)) /\ Len(visited') = k + 1 /\ k \in Nat
        /\ visited'[k + 1] = topic
        /\ \A i \in 1..k : visited'[i] = visited[i]
        /\ DOMAIN visited = 1..k /\ DOMAIN visited' = 1..(k + 1)
    OBVIOUS
  <1>2. \A i \in 1..k : Len(visited[i]) > Len(topic)
    BY <1>1 DEF ToSet
  <1>3. ASSUME NEW i \in 1..(k + 1), NEW j \in 1..(k + 1), i < j
        PROVE  Len(visited'[i]) > Len(visited'[j])
    <2>1. i \in 1..k
      BY <1>1, <1>3
    <2>2. CASE j \in 1..k
      BY <1>1, <1>3, <2>1, <2>2 DEF Descending
    <2>3. CASE j = k + 1
      BY <1>1, <1>2, <2>1, <2>3
    <2> QED
      BY <1>1, <2>2, <2>3
  <1>4. ASSUME NEW a PROVE a \in ToSet(visited') <=> a \in ToSet(visited) \/ a = topic
    <2>1. a \in ToSet(visited') <=> \E i \in 1..(k + 1) : visited'[i] = a
      BY <1>1 DEF ToSet
    <2>2. a \in ToSet(visited) <=> \E i \in 1..k : visited[i] = a
      BY <1>1 DEF ToSet
    <2>3. \A i : i \in 1..(k + 1) <=> i \in 1..k \/ i = k + 1
      BY <1>1
    <2> HIDE DEF k
    <2> QED
      BY <1>1, <2>1, <2>2, <2>3
  <1> QED
    BY <1>1, <1>3, <1>4 DEF Descending

LEMMA VisitClimbs ==
    ASSUME Climbing, by # "subscribe", Visit
    PROVE  Climbing'
  <1> DEFINE t == CutFlags(msg)
  <1>1. /\ pc = "visit" /\ visited' = Append(visited, topic) /\ n' = Len(topic)
        /\ pc' = IF topic = <<>> THEN "done" ELSE "cut"
        /\ UNCHANGED <<by, msg, wanted, topic>>
        /\ by = "subs_count" => topic # <<>>
    BY DEF Visit
  <1>2. /\ by \in {"publish", "subs_count"} /\ msg \in Seq(Char) /\ wanted \in Seq(Char)
        /\ topic \in Seq(Char) /\ Begins(topic, t) /\ Len(topic) \in Nat
        /\ visited \in Seq(Seq(Char)) /\ Descending
        /\ topic \in Ancestors(t)
        /\ \A a : a \in ToSet(visited) <=> a \in Ancestors(t) /\ a # <<>> /\ Len(a) >= Len(topic) + 1
    BY <1>1 DEF Climbing, VisitedTo
  <1>3. t \in Seq(Char) /\ \A a \in Ancestors(t) : a \in Seq(Char) /\ Begins(a, t)
    BY <1>2, CutFlagsIs, AncestorIs
  <1>4. /\ visited' \in Seq(Seq(Char)) /\ Descending'
        /\ \A a : a \in ToSet(visited') <=> a \in ToSet(visited) \/ a = topic
    <2>1. \A a \in ToSet(visited) : Len(a) > Len(topic)
      BY <1>2, <1>3
    <2> QED
      BY <1>1, <1>2, <2>1, VisitsOne
  <1> HIDE DEF t
  <1>5. ASSUME NEW a \in Ancestors(t)
        PROVE  /\ Len(a) >= Len(topic) <=> Len(a) >= Len(topic) + 1 \/ a = topic
               /\ topic = <<>> => (a # <<>> <=> Len(a) >= Len(topic) + 1)
    <2>1. a \in Seq(Char) /\ Len(a) \in Nat /\ Begins(a, t)
      BY <1>3
    <2>2. Len(a) = Len(topic) => a = topic
      BY <1>2, <1>3, <2>1, SameSequence DEF Begins
    <2> QED
      BY <1>2, <2>1, <2>2
  <1>6. CASE topic = <<>>
    <2>1. \A a : a \in ToSet(visited') <=> a \in Ancestors(t)
      BY <1>2, <1>4, <1>5, <1>6
    <2>2. by = "publish" /\ pc' = "done"
      BY <1>1, <1>6, <1>2 DEF Climbing
    <2> QED
      BY <1>1, <1>2, <1>4, <2>1, <2>2 DEF Climbing, t
  <1>7. CASE topic # <<>>
    <2>1. \A a : a \in ToSet(visited') <=> a \in Ancestors(t) /\ a # <<>> /\ Len(a) >= Len(topic)
      BY <1>2, <1>4, <1>5, <1>7
    <2> QED
      BY <1>1, <1>2, <1>4, <1>7, <2>1 DEF Climbing, VisitedTo, t
  <1> QED
    BY <1>6, <1>7

LEMMA CutOneClimbs ==
    ASSUME Climbing, by # "subscribe", CutOne
    PROVE  Climbing'
  <1> DEFINE t == CutFlags(msg)
             k == Len(topic)
  <1>1. /\ pc = "cut" /\ n > 0 /\ topic' = Cut(topic, n)
        /\ topic[n] = Dot => pc' = "visit"
        /\ topic[n] # Dot => pc' = "cut" /\ n' = n - 1
        /\ UNCHANGED <<by, msg, wanted, visited>>
    BY DEF CutOne
  <1>2. /\ by \in {"publish", "subs_count"} /\ msg \in Seq(Char) /\ wanted \in Seq(Char)
        /\ topic \in Seq(Char) /\ Begins(topic, t) /\ k \in Nat
        /\ visited \in Seq(Seq(Char)) /\ Descending
        /\ n = k
        /\ \A a : a \in ToSet(visited) <=> a \in Ancestors(t) /\ a # <<>> /\ Len(a) >= k
    BY <1>1 DEF Climbing, VisitedTo
  <1>3. /\ t \in Seq(Char)
        /\ \A a : a \in Ancestors(t)
                    <=> /\ a \in Seq(Char) /\ Begins(a, t)
                        /\ Len(a) = 0 \/ Len(a) = Len(t) \/ t[Len(a) + 1] = Dot
    BY <1>2, CutFlagsIs, AncestorIs
  <1>4. /\ topic' \in Seq(Char) /\ Len(topic') = k - 1
        /\ \A i \in 1..(k - 1) : topic'[i] = topic[i]
    <2>1. n \in 1..(Len(topic) + 1)
      BY <1>1, <1>2
    <2> QED
      BY <1>1, <1>2, <2>1, CutSequence
  <1>5. Begins(topic', t) /\ t[k] = topic[k] /\ k <= Len(t) /\ k >= 1 /\ Len(t) \in Nat
    <2>1. k >= 1 /\ k <= Len(t) /\ Len(t) \in Nat /\ \A i \in 1..k : topic[i] = t[i]
      BY <1>1, <1>2, <1>3 DEF Begins
    <2>2. \A i \in 1..(k - 1) : topic'[i] = t[i]
      BY <1>2, <1>4, <2>1
    <2> HIDE DEF k, t
    <2> QED
      BY <1>2, <1>4, <2>1, <2>2 DEF Begins
  <1> HIDE DEF k, t
  <1>6. CASE topic[n] = Dot
    <2>1. topic' \in Ancestors(t)
      BY <1>2, <1>3, <1>4, <1>5, <1>6
    <2>2. \A a : a \in ToSet(visited) <=> a \in Ancestors(t) /\ a # <<>> /\ Len(a) >= Len(topic') + 1
      <3>1. Len(topic') + 1 = k
        BY <1>2, <1>4
      <3> QED
        BY <1>2, <3>1
    <2>3. VisitedTo(Len(topic) + 1)'
      BY <1>1, <2>2 DEF VisitedTo, t
    <2>4. topic' \in Ancestors(CutFlags(msg))' /\ Begins(topic, CutFlags(msg))' /\ Descending'
      BY <1>1, <1>2, <1>5, <2>1 DEF t, Descending
    <2> QED
      BY <1>1, <1>2, <1>4, <1>6, <2>3, <2>4 DEF Climbing
  <1>7. CASE topic[n] # Dot
    <2>1. ASSUME NEW a \in Ancestors(t), a # <<>>
          PROVE  Len(a) >= k <=> Len(a) >= k - 1
      <3>1. /\ a \in Seq(Char) /\ Len(a) \in Nat /\ Begins(a, t)
            /\ Len(a) = 0 \/ Len(a) = Len(t) \/ t[Len(a) + 1] = Dot
        BY <1>3
      <3>2. Len(a) # 0
        BY <2>1, <3>1
      <3>3. Len(a) # k - 1
        <4>1. SUFFICES ASSUME Len(a) = k - 1 PROVE FALSE
          OBVIOUS
        <4>2. Len(a) + 1 = k /\ Len(a) # Len(t)
          BY <1>2, <1>5, <3>1, <4>1
        <4> QED
          BY <1>2, <1>5, <1>7, <3>1, <3>2, <4>2
      <3> QED
        BY <1>2, <3>1, <3>3
    <2>2. \A a : a \in ToSet(visited) <=> a \in Ancestors(t) /\ a # <<>> /\ Len(a) >= Len(topic')
      BY <1>2, <1>4, <2>1
    <2>3. VisitedTo(Len(topic))'
      BY <1>1, <2>2 DEF VisitedTo, t
    <2>4. Begins(topic, CutFlags(msg))' /\ Descending'
      BY <1>1, <1>2, <1>5 DEF t, Descending
    <2> QED
      BY <1>1, <1>2, <1>4, <1>7, <2>3, <2>4 DEF Climbing
  <1> QED
    BY <1>6, <1>7

LEMMA CutEndsClimbs ==
    ASSUME Climbing, by # "subscribe", CutEnds
    PROVE  Climbing'
  <1> DEFINE t == CutFlags(msg)
  <1>1. pc = "cut" /\ n = 0 /\ pc' = "visit" /\ UNCHANGED <<by, msg, wanted, visited, topic>>
    BY DEF CutEnds
  <1>2. /\ by \in {"publish", "subs_count"} /\ msg \in Seq(Char) /\ wanted \in Seq(Char)
        /\ topic \in Seq(Char) /\ Begins(topic, t) /\ n = Len(topic)
        /\ visited \in Seq(Seq(Char)) /\ Descending
        /\ \A a : a \in ToSet(visited) <=> a \in Ancestors(t) /\ a # <<>> /\ Len(a) >= 0
    BY <1>1 DEF Climbing, VisitedTo
  <1>3. topic = <<>> /\ Len(topic) + 1 = 1
    BY <1>1, <1>2
  <1>4. \A a : a \in ToSet(visited) <=> a \in Ancestors(t) /\ a # <<>> /\ Len(a) >= 1
    <2>1. \A a \in Ancestors(t) : a \in Seq(Char)
      BY <1>2, CutFlagsIs, AncestorIs
    <2>2. \A a \in Seq(Char) : a # <<>> => Len(a) >= 1 /\ Len(a) >= 0
      OBVIOUS
    <2> HIDE DEF t
    <2> QED
      BY <1>2, <2>1, <2>2
  <1>5. topic \in Ancestors(t)
    BY <1>3 DEF Ancestors
  <1>6. VisitedTo(Len(topic) + 1)'
    BY <1>1, <1>3, <1>4 DEF VisitedTo
  <1>7. topic' \in Ancestors(CutFlags(msg))' /\ Begins(topic, CutFlags(msg))' /\ Descending'
    BY <1>1, <1>2, <1>5 DEF Descending
  <1> QED
    BY <1>1, <1>2, <1>6, <1>7 DEF Climbing

LEMMA CountEndsClimbs ==
    ASSUME Climbing, by # "subscribe", CountEnds
    PROVE  Climbing'
  <1> DEFINE t == CutFlags(msg)
  <1>1. /\ pc = "visit" /\ topic = <<>> /\ by = "subs_count" /\ pc' = "done"
        /\ UNCHANGED <<by, msg, wanted, visited, topic>>
    BY DEF CountEnds
  <1>2. /\ msg \in Seq(Char) /\ wanted \in Seq(Char)
        /\ topic \in Seq(Char) /\ Begins(topic, t)
        /\ visited \in Seq(Seq(Char)) /\ Descending
        /\ \A a : a \in ToSet(visited) <=> a \in Ancestors(t) /\ a # <<>> /\ Len(a) >= 1
    <2>1. Len(topic) + 1 = 1
      BY <1>1
    <2> QED
      BY <1>1, <2>1 DEF Climbing, VisitedTo
  <1>3. \A a : a \in ToSet(visited) <=> a \in Ancestors(t) /\ a # <<>>
    <2>1. \A a \in Ancestors(t) : a \in Seq(Char)
      BY <1>2, CutFlagsIs, AncestorIs
    <2>2. \A a \in Seq(Char) : a # <<>> => Len(a) >= 1
      OBVIOUS
    <2> HIDE DEF t
    <2> QED
      BY <1>2, <2>1, <2>2
  <1>4. Begins(topic, CutFlags(msg))' /\ Descending'
    BY <1>1, <1>2 DEF Descending
  <1> QED
    BY <1>1, <1>2, <1>3, <1>4 DEF Climbing

LEMMA NextClimbing == Climbing /\ [Next]_vars => Climbing'
  <1> SUFFICES ASSUME Climbing, [Next]_vars PROVE Climbing'
    OBVIOUS
  <1>1. by' = by
    BY DEF Next, vars, Visit, CountEnds, CutOne, CutEnds, Parse, ParseEnds
  <1>2. CASE by = "subscribe"
    BY <1>1, <1>2 DEF Climbing
  <1>3. CASE by # "subscribe"
    <2>1. pc # "parse"
      BY <1>3 DEF Climbing
    <2>2. ~Parse /\ ~ParseEnds
      BY <2>1 DEF Parse, ParseEnds
    <2>3. CASE UNCHANGED vars
      BY <2>3 DEF vars, Climbing, VisitedTo, Descending
    <2> QED
      BY <1>3, <2>2, <2>3, VisitClimbs, CutOneClimbs, CutEndsClimbs, CountEndsClimbs DEF Next
  <1> QED
    BY <1>2, <1>3

(***************************************************************************)
(* The loop over the flags                                                 *)
(***************************************************************************)

\* The positions of a priority: a "p" with a digit behind it.
Priorities == {i \in 3..(Len(msg) - 1) : msg[i] = "p" /\ msg[i + 1] \in Digit}

\* The loop has met a letter.
Met(letter) == \E i \in 3..Len(msg) : i < n /\ msg[i] = letter

\* The priority is the passed one until the loop meets another, then the last.
PriorityIs ==
    \/ (\A i \in Priorities : ~(i < n)) /\ flags.priority = passed.priority
    \/ \E i \in Priorities :
         /\ i < n /\ \A j \in Priorities : j < n => j <= i
         /\ flags.priority = Ascii[msg[i + 1]] - Ascii["0"]

\* The flags are those passed and those that the loop has met.
FlagsSince ==
    /\ flags.hidden <=> passed.hidden \/ Met("h")
    /\ flags.on_empty <=> passed.on_empty \/ Met("e")
    /\ flags.no_sticky <=> passed.no_sticky \/ Met("s")
    /\ flags.child_sticky <=> passed.child_sticky \/ Met("S")
    /\ PriorityIs

\* The loop of ps_subscribe_flags.
Parsing ==
    by = "subscribe" =>
        /\ msg \in Seq(Char) /\ topic = <<"a">> /\ visited = <<>>
        /\ n \in Nat /\ n >= 3
        /\ pc \in {"parse", "done"} /\ (pc = "done" => n > Len(msg))
        /\ passed \in FlagSet /\ flags \in FlagSet /\ FlagsSince

\* What is subscribed to
LEMMA SubscribedTo ==
    ASSUME NEW s \in Seq(Char),
           NEW m \in {<<"a">>, <<"a", Blank>> \o s}
    PROVE  m \in Seq(Char) /\ CutFlags(m) = <<"a">>
  <1>1. "a" \in Char /\ Blank \in Char /\ "a" # Blank
    BY TopicsAssumption DEF Blank
  <1>2. /\ m \in Seq(Char) /\ Len(m) \in Nat /\ Len(m) >= 1 /\ m[1] = "a"
        /\ Len(m) = 1 \/ (Len(m) >= 2 /\ m[2] = Blank)
    <2>1. CASE m = <<"a">>
      BY <1>1, <2>1
    <2>2. CASE m = <<"a", Blank>> \o s
      <3>1. <<"a", Blank>> \in Seq(Char) /\ Len(<<"a", Blank>>) = 2
        BY <1>1
      <3>2. m \in Seq(Char) /\ Len(m) = 2 + Len(s)
        BY <2>2, <3>1
      <3>3. m[1] = "a" /\ m[2] = Blank
        BY <2>2, <3>1
      <3> QED
        BY <3>2, <3>3
    <2> QED
      BY <2>1, <2>2
  <1> DEFINE c == CutFlags(m)
  <1>3. /\ c \in Seq(Char) /\ Len(c) \in Nat /\ Len(c) <= Len(m)
        /\ \A i \in 1..Len(c) : c[i] = m[i] /\ c[i] # Blank
        /\ c = m \/ m[Len(c) + 1] = Blank
    BY <1>2, CutFlagsIs DEF Begins
  <1> HIDE DEF c
  <1>4. Len(c) = 1
    <2>1. Len(c) # 0
      BY <1>1, <1>2, <1>3
    <2>2. ~(Len(c) >= 2)
      <3>1. SUFFICES ASSUME Len(c) >= 2 PROVE FALSE
        OBVIOUS
      <3>2. c[2] = m[2] /\ c[2] # Blank /\ Len(m) >= 2
        BY <1>2, <1>3, <3>1
      <3> QED
        BY <1>2, <3>2
    <2>3. Len(c) \in Nat
      BY <1>3
    <2>4. \A l \in Nat : l # 0 /\ ~(l >= 2) => l = 1
      OBVIOUS
    <2> QED
      BY <2>1, <2>2, <2>3, <2>4
  <1>5. c[1] = "a"
    BY <1>2, <1>3, <1>4
  <1>6. c = <<"a">>
    <2>1. <<"a">> \in Seq(Char) /\ Len(<<"a">>) = 1 /\ <<"a">>[1] = "a"
      BY <1>1
    <2> QED
      BY <1>3, <1>4, <1>5, <2>1, SameSequence
  <1> QED
    BY <1>2, <1>6 DEF c

LEMMA InitParsing == Init => Parsing
  <1> SUFFICES ASSUME Init, by = "subscribe" PROVE Parsing
    BY DEF Parsing
  <1>1. /\ topic = CutFlags(msg) /\ n = Len(topic) + 2 /\ visited = <<>>
        /\ passed \in Passed \cup {NoFlags} /\ flags = passed /\ pc = "parse"
        /\ msg \in {<<"a">>} \cup {<<"a", Blank>> \o s : s \in Tails}
    BY DEF Init
  <1>2. msg \in Seq(Char) /\ topic = <<"a">>
    <2>1. CASE msg = <<"a">>
      <3>1. <<>> \in Seq(Char)
        OBVIOUS
      <3> QED
        BY <1>1, <2>1, <3>1, SubscribedTo
    <2>2. CASE \E s \in Tails : msg = <<"a", Blank>> \o s
      <3>1. PICK s \in Tails : msg = <<"a", Blank>> \o s
        BY <2>2
      <3>2. s \in Seq(Char)
        BY TopicsAssumption
      <3> QED
        BY <1>1, <3>1, <3>2, SubscribedTo
    <2> QED
      BY <1>1, <2>1, <2>2
  <1>3. n = 3
    BY <1>1, <1>2
  <1>4. passed \in FlagSet /\ flags \in FlagSet
    <2>1. NoFlags \in FlagSet
      BY DEF NoFlags, FlagSet
    <2> QED
      BY <1>1, <2>1, TopicsAssumption
  <1>5. FlagsSince
    <2>1. \A i \in 3..Len(msg) : ~(i < n)
      BY <1>2, <1>3
    <2>2. \A i \in Priorities : ~(i < n)
      BY <1>2, <1>3 DEF Priorities
    <2> QED
      BY <1>1, <2>1, <2>2 DEF FlagsSince, Met, PriorityIs
  <1> QED
    BY <1>1, <1>2, <1>3, <1>4, <1>5 DEF Parsing

\* The code of a digit is its value, counted from that of "0".
LEMMA DigitValue ==
    ASSUME NEW c \in Char
    PROVE  /\ IsDigit(c) <=> c \in Digit
           /\ IsDigit(c) => /\ (Ascii[c] - Ascii["0"]) % 256 = Ascii[c] - Ascii["0"]
                            /\ Ascii[c] - Ascii["0"] \in 0..9
  <1>1. IsDigit(c) <=> c \in Digit
    BY TopicsAssumption
  <1>2. /\ Ascii[c] \in 0..255 /\ Ascii["0"] \in 0..255 /\ Ascii["9"] = Ascii["0"] + 9
        /\ IsDigit(c) <=> Ascii[c] \in Ascii["0"]..Ascii["9"]
    BY TopicsAssumption DEF IsDigit
  <1>3. IsDigit(c) => Ascii[c] - Ascii["0"] \in 0..9
    <2>1. \A u, v \in 0..255 : u \in v..(v + 9) => u - v \in 0..9
      OBVIOUS
    <2> QED
      BY <1>2, <2>1
  <1>4. \A v \in 0..9 : v % 256 = v
    OBVIOUS
  <1> QED
    BY <1>1, <1>3, <1>4

\* A round of the loop has met one letter more.
LEMMA MeetsOne ==
    ASSUME NEW letter, n \in Nat, n >= 3, n <= Len(msg), msg \in Seq(Char), n' = n + 1, msg' = msg
    PROVE  Met(letter)' <=> Met(letter) \/ msg[n] = letter
  <1>1. n \in 3..Len(msg) /\ n < n' /\ \A i \in 3..Len(msg) : i < n' <=> i < n \/ i = n
    OBVIOUS
  <1> QED
    BY <1>1 DEF Met

LEMMA ParseParses ==
    ASSUME Parsing, by = "subscribe", Parse
    PROVE  Parsing'
  <1>1. /\ pc = "parse" /\ n <= Len(msg) /\ n' = n + 1
        /\ UNCHANGED <<by, msg, wanted, passed, topic, visited, pc>>
    BY DEF Parse
  <1>2. /\ msg \in Seq(Char) /\ topic = <<"a">> /\ visited = <<>>
        /\ n \in Nat /\ n >= 3 /\ passed \in FlagSet /\ flags \in FlagSet
    BY DEF Parsing
  <1>3. FlagsSince
    BY DEF Parsing
  <1> DEFINE c == msg[n]
             prio == c = "p" /\ n < Len(msg) /\ IsDigit(msg[n + 1])
             val == Ascii[msg[n + 1]] - Ascii["0"]
  <1>4. prio <=> n \in Priorities
    <2>1. n < Len(msg) => msg[n + 1] \in Char
      BY <1>2
    <2>2. n < Len(msg) => (IsDigit(msg[n + 1]) <=> msg[n + 1] \in Digit)
      BY <2>1, DigitValue
    <2>3. n \in 3..(Len(msg) - 1) <=> n < Len(msg)
      BY <1>2
    <2> QED
      BY <2>2, <2>3 DEF Priorities
  <1>5. prio => val % 256 = val /\ val \in 0..9
    <2>1. n < Len(msg) => msg[n + 1] \in Char
      BY <1>2
    <2> QED
      BY <2>1, DigitValue
  <1>6. /\ flags' \in FlagSet
        /\ flags'.hidden <=> flags.hidden \/ c = "h"
        /\ flags'.no_sticky <=> flags.no_sticky \/ c = "s"
        /\ flags'.child_sticky <=> flags.child_sticky \/ c = "S"
        /\ flags'.on_empty <=> flags.on_empty \/ c = "e"
        /\ flags'.priority = IF prio THEN val ELSE flags.priority
    <2> DEFINE d == val % 256
    <2>0. flags \in FlagSet
      BY <1>2
    <2>1. prio => c = "p" /\ d = val /\ d \in 0..255
      <3>1. \A k \in 0..9 : k \in 0..255
        OBVIOUS
      <3> QED
        BY <1>5, <3>1
    <2>2. /\ c = "h" => flags' = [flags EXCEPT !.hidden = TRUE]
          /\ c = "s" => flags' = [flags EXCEPT !.no_sticky = TRUE]
          /\ c = "S" => flags' = [flags EXCEPT !.child_sticky = TRUE]
          /\ c = "e" => flags' = [flags EXCEPT !.on_empty = TRUE]
          /\ prio => flags' = [flags EXCEPT !.priority = d]
          /\ c \notin {"h", "s", "S", "e"} /\ ~prio => flags' = flags
      <3>1. CASE c = "h"
        BY <3>1 DEF Parse
      <3>2. CASE c = "s"
        BY <3>2 DEF Parse
      <3>3. CASE c = "S"
        BY <3>3 DEF Parse
      <3>4. CASE c = "e"
        BY <3>4 DEF Parse
      <3>5. CASE prio
        BY <3>5 DEF Parse
      <3>6. CASE c \notin {"h", "s", "S", "e"} /\ ~prio
        BY <3>6 DEF Parse
      <3> QED
        BY <3>1, <3>2, <3>3, <3>4, <3>5, <3>6
    <2> HIDE DEF c, prio, val, d
    <2>3. flags' \in FlagSet
      <3>1. /\ [flags EXCEPT !.hidden = TRUE] \in FlagSet
            /\ [flags EXCEPT !.no_sticky = TRUE] \in FlagSet
            /\ [flags EXCEPT !.child_sticky = TRUE] \in FlagSet
            /\ [flags EXCEPT !.on_empty = TRUE] \in FlagSet
        BY <2>0 DEF FlagSet
      <3>2. prio => [flags EXCEPT !.priority = d] \in FlagSet
        BY <2>0, <2>1 DEF FlagSet
      <3> QED
        BY <2>0, <2>2, <3>1, <3>2
    <2> DEFINE Has(g) == /\ g.hidden <=> flags.hidden \/ c = "h"
                         /\ g.no_sticky <=> flags.no_sticky \/ c = "s"
                         /\ g.child_sticky <=> flags.child_sticky \/ c = "S"
                         /\ g.on_empty <=> flags.on_empty \/ c = "e"
                         /\ g.priority = IF prio THEN val ELSE flags.priority
    <2>4. Has(flags')
      <3>1. CASE c = "h"
        BY <2>0, <2>1, <2>2, <3>1 DEF FlagSet
      <3>2. CASE c = "s"
        BY <2>0, <2>1, <2>2, <3>2 DEF FlagSet
      <3>3. CASE c = "S"
        BY <2>0, <2>1, <2>2, <3>3 DEF FlagSet
      <3>4. CASE c = "e"
        BY <2>0, <2>1, <2>2, <3>4 DEF FlagSet
      <3>5. CASE prio
        BY <2>0, <2>1, <2>2, <3>5 DEF FlagSet
      <3>6. CASE c \notin {"h", "s", "S", "e"} /\ ~prio
        BY <2>0, <2>2, <3>6 DEF FlagSet
      <3> QED
        BY <3>1, <3>2, <3>3, <3>4, <3>5, <3>6
    <2> QED
      BY <2>3, <2>4
  <1>7. /\ Met("h")' <=> Met("h") \/ c = "h"
        /\ Met("s")' <=> Met("s") \/ c = "s"
        /\ Met("S")' <=> Met("S") \/ c = "S"
        /\ Met("e")' <=> Met("e") \/ c = "e"
    BY <1>1, <1>2, MeetsOne
  <1>8. PriorityIs'
    <2>1. \A i \in Priorities : i \in Nat /\ (i < n' <=> i < n \/ i = n) /\ (i < n => i <= n)
      BY <1>1, <1>2 DEF Priorities
    <2>2. Priorities' = Priorities
      BY <1>1 DEF Priorities
    <2>3. CASE prio
      <3>1. n \in Priorities /\ n < n' /\ flags'.priority = Ascii[msg[n + 1]] - Ascii["0"]
        BY <1>1, <1>2, <1>4, <1>6, <2>3
      <3>2. \A j \in Priorities : j < n' => j <= n
        BY <1>2, <2>1
      <3> QED
        BY <1>1, <2>2, <3>1, <3>2 DEF PriorityIs
    <2>4. CASE ~prio
      <3>1. n \notin Priorities /\ flags'.priority = flags.priority
        BY <1>4, <1>6, <2>4
      <3>2. \A i \in Priorities : i < n' <=> i < n
        BY <2>1, <3>1
      <3>3. PriorityIs
        BY <1>3 DEF FlagsSince
      <3> QED
        BY <1>1, <2>2, <3>1, <3>2, <3>3 DEF PriorityIs
    <2> QED
      BY <2>3, <2>4
  <1>9. FlagsSince'
    <2> HIDE DEF c, prio, val
    <2> QED
      BY <1>1, <1>3, <1>6, <1>7, <1>8 DEF FlagsSince
  <1> QED
    BY <1>1, <1>2, <1>3, <1>6, <1>9 DEF Parsing

LEMMA NextParsing == Parsing /\ [Next]_vars => Parsing'
  <1> SUFFICES ASSUME Parsing, [Next]_vars PROVE Parsing'
    OBVIOUS
  <1>1. by' = by
    BY DEF Next, vars, Visit, CountEnds, CutOne, CutEnds, Parse, ParseEnds
  <1>2. CASE by # "subscribe"
    BY <1>1, <1>2 DEF Parsing
  <1>3. CASE by = "subscribe"
    <2>1. pc \notin {"visit", "cut"}
      BY <1>3 DEF Parsing
    <2>2. ~Visit /\ ~CountEnds /\ ~CutOne /\ ~CutEnds
      BY <2>1 DEF Visit, CountEnds, CutOne, CutEnds
    <2>3. CASE UNCHANGED vars \/ ParseEnds
      <3>1. /\ UNCHANGED <<by, msg, passed, topic, n, visited, flags>>
            /\ pc' = pc \/ (pc' = "done" /\ n > Len(msg))
        BY <2>3 DEF vars, ParseEnds
      <3>2. FlagsSince' <=> FlagsSince
        BY <3>1 DEF FlagsSince, Met, PriorityIs, Priorities
      <3> QED
        BY <3>1, <3>2 DEF Parsing
    <2> QED
      BY <1>3, <2>2, <2>3, ParseParses DEF Next
  <1> QED
    BY <1>2, <1>3

(***************************************************************************)
(* The theorems                                                            *)
(***************************************************************************)

Looping == Climbing /\ Parsing

LEMMA LoopingInvariant == Spec => []Looping
  <1>1. Init => Looping
    BY InitClimbing, InitParsing DEF Looping
  <1>2. Looping /\ [Next]_vars => Looping'
    BY NextClimbing, NextParsing DEF Looping
  <1> QED
    BY <1>1, <1>2, PTL DEF Spec

LEMMA ClimbingVisits == Looping => VisitsAncestors
  <1> SUFFICES ASSUME Looping PROVE VisitsAncestors
    OBVIOUS
  <1>1. CASE by = "subscribe"
    <2>1. visited = <<>>
      BY <1>1 DEF Looping, Parsing
    <2>2. DOMAIN visited = {}
      BY <2>1
    <2> QED
      BY <1>1, <2>2 DEF VisitsAncestors
  <1>2. CASE by # "subscribe"
    <2>1. Descending
      BY <1>2 DEF Looping, Climbing
    <2>2. pc = "done" =>
              \A a : a \in ToSet(visited)
                        <=> a \in Ancestors(CutFlags(msg)) /\ (by = "publish" \/ a # <<>>)
      BY <1>2 DEF Looping, Climbing
    <2>3. pc = "done" /\ by = "publish" => ToSet(visited) = Ancestors(CutFlags(msg))
      BY <2>2
    <2>4. pc = "done" /\ by = "subs_count" => ToSet(visited) = Ancestors(CutFlags(msg)) \ {<<>>}
      BY <2>2
    <2> QED
      BY <2>1, <2>3, <2>4 DEF VisitsAncestors, Descending
  <1> QED
    BY <1>1, <1>2

\* For every topic the loop of ps_publish (pubsub.c:590) looks up every ancestor
\* once, the nearest first, and nothing else, and that of ps_subs_count
\* (pubsub.c:657) all of them but "".
THEOREM VisitsTheAncestors == Spec => []VisitsAncestors
  BY LoopingInvariant, ClimbingVisits, PTL

LEMMA ChildIs ==
    ASSUME NEW S, NEW t \in Seq(S), NEW w \in Seq(S)
    PROVE  w \in Ancestors(t) <=> IsChild(t, w)
  <1>1. /\ IsPrefix(w, t) <=> Begins(w, t)
        /\ Len(w) \in Nat /\ (Len(w) = 0 <=> w = <<>>)
        /\ w = <<>> => Begins(w, t)
    <2>1. IsPrefix(w, t) <=> Begins(w, t)
      BY PrefixBegins
    <2> QED
      BY <2>1 DEF Begins
  <1> QED
    BY <1>1, AncestorIs DEF IsChild

\* The flags behind a topic without blanks go.
LEMMA FlagsGo ==
    ASSUME NEW S, NEW w \in Seq(S), \A i \in 1..Len(w) : w[i] # Blank,
           NEW f \in Seq(S), Len(f) > 0, f[1] = Blank
    PROVE  CutFlags(w \o f) = w
  <1> DEFINE s == w \o f
             c == CutFlags(s)
  <1>1. /\ s \in Seq(S) /\ Len(s) = Len(w) + Len(f) /\ Len(w) \in Nat /\ Len(f) \in Nat
        /\ \A i \in 1..Len(w) : s[i] = w[i]
        /\ s[Len(w) + 1] = Blank
    OBVIOUS
  <1> HIDE DEF s
  <1>2. /\ c \in Seq(S) /\ Len(c) \in Nat /\ Len(c) <= Len(s)
        /\ \A i \in 1..Len(c) : c[i] = s[i] /\ c[i] # Blank
        /\ c = s \/ s[Len(c) + 1] = Blank
    BY <1>1, CutFlagsIs DEF Begins
  <1> HIDE DEF c
  <1>3. ~(Len(c) > Len(w))
    <2>1. SUFFICES ASSUME Len(c) > Len(w) PROVE FALSE
      OBVIOUS
    <2>2. Len(w) + 1 \in 1..Len(c)
      BY <1>1, <1>2, <2>1
    <2> QED
      BY <1>1, <1>2, <2>2
  <1>4. ~(Len(c) < Len(w))
    <2>1. SUFFICES ASSUME Len(c) < Len(w) PROVE FALSE
      OBVIOUS
    <2>2. Len(c) + 1 \in 1..Len(w) /\ Len(c) # Len(s)
      BY <1>1, <1>2, <2>1
    <2> QED
      BY <1>1, <1>2, <2>2
  <1>5. Len(c) = Len(w)
    BY <1>1, <1>2, <1>3, <1>4
  <1>6. \A i \in 1..Len(c) : c[i] = w[i]
    BY <1>1, <1>2, <1>5
  <1>7. c = w
    BY <1>2, <1>5, <1>6, SameSequence
  <1> QED
    BY <1>7 DEF c, s

LEMMA RoutingFits == Looping => TestsFit
  <1> SUFFICES ASSUME Looping, pc = "done", by = "publish" PROVE TestsFit
    BY DEF TestsFit, ChildrenAreReached, TestsFitRouting
  <1> DEFINE t == CutFlags(msg)
  <1>1. /\ msg \in Seq(Char) /\ wanted \in Seq(Char)
        /\ wanted \in ToSet(visited) <=> wanted \in Ancestors(t)
    BY DEF Looping, Climbing
  <1>2. t \in Seq(Char) /\ Begins(t, msg) /\ \A i \in 1..Len(t) : t[i] # Blank
    BY <1>1, CutFlagsIs
  <1>3. wanted \in Ancestors(t) <=> IsChild(t, wanted)
    BY <1>1, <1>2, ChildIs
  <1> HIDE DEF t
  <1>4. ASSUME wanted \in ToSet(visited)
        PROVE  HasTopicPrefix(msg, wanted \o <<Blank, "p", "5">>)
    <2>1. Begins(wanted, t) /\ Len(t) \in Nat /\ Len(wanted) \in Nat
      BY <1>1, <1>2, <1>4, AncestorIs
    <2>2. \A i \in 1..Len(wanted) : wanted[i] # Blank
      BY <1>2, <2>1 DEF Begins
    <2>3. CutFlags(wanted \o <<Blank, "p", "5">>) = wanted
      <3> DEFINE S == Char \cup {Blank, "p", "5"}
                 f == <<Blank, "p", "5">>
      <3>1. wanted \in Seq(S) /\ f \in Seq(S) /\ Len(f) > 0 /\ f[1] = Blank
        BY <1>1
      <3> HIDE DEF S, f
      <3>2. CutFlags(wanted \o f) = wanted
        BY <2>2, <3>1, FlagsGo
      <3> QED
        BY <3>2 DEF f
    <2>4. Begins(wanted, msg)
      BY <1>1, <1>2, <2>1 DEF Begins
    <2>5. IsPrefix(wanted, msg)
      BY <1>1, <2>4, PrefixBegins
    <2> QED
      BY <2>3, <2>5 DEF HasTopicPrefix
  <1>5. HasTopic(msg, msg)
    <2>1. IsPrefix(t, msg)
      BY <1>1, <1>2, PrefixBegins
    <2> QED
      BY <2>1 DEF HasTopic, t
  <1>6. HasTopicSuffix(msg, msg)
    <2>1. Len(msg) - Len(msg) + 1 = 1 /\ Len(msg) <= Len(msg)
      BY <1>1
    <2>2. SubSeq(msg, 1, Len(msg)) = msg
      BY <1>1
    <2> QED
      BY <2>1, <2>2 DEF HasTopicSuffix
  <1> QED
    BY <1>1, <1>3, <1>4, <1>5, <1>6 DEF TestsFit, ChildrenAreReached, TestsFitRouting, t

\* The test by which ps_subscribe_flags picks sticky messages (push_child_sticky,
\* pubsub.c:296) accepts the topics that ps_publish routes to the subscription and no
\* other, and ps_has_topic_prefix, ps_has_topic and ps_has_topic_suffix
\* (pubsub.c:704) accept what a subscription gets.
THEOREM TestsFitTheRouting == Spec => []TestsFit
  BY LoopingInvariant, RoutingFits, PTL

LEMMA ParsedIsWritten == Looping => FlagsAsWritten
  <1> SUFFICES ASSUME Looping, pc = "done", by = "subscribe" PROVE FlagsAsWritten
    BY DEF FlagsAsWritten
  <1> DEFINE tail == SubSeq(msg, Len(topic) + 2, Len(msg))
             prios == {i \in 1..(Len(tail) - 1) : tail[i] = "p" /\ tail[i + 1] \in Digit}
             m == Len(msg)
  <1>1. /\ msg \in Seq(Char) /\ topic = <<"a">> /\ n \in Nat /\ n > m /\ m \in Nat
        /\ flags \in FlagSet
    BY DEF Looping, Parsing
  <1>2. FlagsSince
    BY DEF Looping, Parsing
  <1>3. passed \in FlagSet
    BY DEF Looping, Parsing
  <1>4. /\ Len(tail) = IF m >= 3 THEN m - 2 ELSE 0
        /\ \A i \in 1..Len(tail) : tail[i] = msg[i + 2]
    <2>1. tail = SubSeq(msg, 3, m)
      BY <1>1
    <2> HIDE DEF tail
    <2> QED
      BY <1>1, <2>1
  <1> HIDE DEF tail, m
  <1>5. \A letter : Met(letter) <=> Contains(tail, letter)
    <2>1. ASSUME NEW i \in 3..m PROVE i - 2 \in 1..Len(tail) /\ tail[i - 2] = msg[i] /\ i < n
      <3>1. i - 2 \in 1..Len(tail) /\ i < n /\ (i - 2) + 2 = i
        BY <1>1, <1>4
      <3> QED
        BY <1>4, <3>1
    <2>2. ASSUME NEW i \in 1..Len(tail) PROVE i + 2 \in 3..m /\ tail[i] = msg[i + 2]
      BY <1>1, <1>4
    <2> QED
      BY <2>1, <2>2 DEF Met, Contains, m
  <1>6. /\ \A i \in Priorities : i - 2 \in prios /\ i < n /\ i \in Int
        /\ \A i \in prios : i + 2 \in Priorities /\ i \in Int /\ msg[i + 3] = tail[i + 1]
    <2>1. ASSUME NEW i \in Priorities PROVE i - 2 \in prios /\ i < n /\ i \in Int
      <3>1. /\ i \in 3..(m - 1) /\ msg[i] = "p" /\ msg[i + 1] \in Digit
            /\ i \in Int /\ i < n
        BY <1>1 DEF Priorities, m
      <3>2. /\ i - 2 \in 1..(Len(tail) - 1) /\ i - 2 \in 1..Len(tail) /\ (i - 2) + 1 \in 1..Len(tail)
            /\ (i - 2) + 2 = i /\ ((i - 2) + 1) + 2 = i + 1
        BY <1>1, <1>4, <3>1
      <3>3. tail[i - 2] = "p" /\ tail[(i - 2) + 1] \in Digit
        BY <1>4, <3>1, <3>2
      <3> QED
        BY <3>1, <3>2, <3>3
    <2>2. ASSUME NEW i \in prios PROVE i + 2 \in Priorities /\ i \in Int /\ msg[i + 3] = tail[i + 1]
      <3>1. /\ i \in 1..(Len(tail) - 1) /\ tail[i] = "p" /\ tail[i + 1] \in Digit /\ i \in Int
        OBVIOUS
      <3>2. /\ i + 2 \in 3..(m - 1) /\ i \in 1..Len(tail) /\ i + 1 \in 1..Len(tail)
            /\ (i + 1) + 2 = (i + 2) + 1 /\ i + 3 = (i + 1) + 2
        BY <1>1, <1>4, <3>1
      <3>3. msg[i + 2] = "p" /\ msg[(i + 2) + 1] \in Digit /\ msg[i + 3] = tail[i + 1]
        BY <1>4, <3>1, <3>2
      <3> QED
        BY <3>1, <3>2, <3>3 DEF Priorities, m
    <2> QED
      BY <2>1, <2>2
  <1> HIDE DEF prios
  <1>7. flags.priority = IF prios = {} THEN passed.priority
                         ELSE Ascii[tail[Max(prios) + 1]] - Ascii["0"]
    <2>1. PriorityIs
      BY <1>2 DEF FlagsSince
    <2>2. CASE (\A i \in Priorities : ~(i < n)) /\ flags.priority = passed.priority
      <3>1. prios = {}
        BY <1>6, <2>2
      <3> QED
        BY <2>2, <3>1
    <2>3. CASE \E i \in Priorities :
                 /\ i < n /\ \A j \in Priorities : j < n => j <= i
                 /\ flags.priority = Ascii[msg[i + 1]] - Ascii["0"]
      <3>1. PICK i \in Priorities :
                 /\ i < n /\ \A j \in Priorities : j < n => j <= i
                 /\ flags.priority = Ascii[msg[i + 1]] - Ascii["0"]
        BY <2>3
      <3> DEFINE k == i - 2
      <3>2. k \in prios /\ k \in Int /\ i = k + 2 /\ i \in Int
        BY <1>6
      <3> HIDE DEF k
      <3>3. \A j \in prios : k >= j
        BY <1>6, <3>1, <3>2
      <3>4. Max(prios) = k
        <4>1. \A x \in prios : (\A y \in prios : x >= y) => x = k
          BY <1>6, <3>2, <3>3
        <4> QED
          BY <3>2, <3>3, <4>1 DEF Max
      <3>5. msg[i + 1] = tail[k + 1]
        <4>1. i + 1 = k + 3
          BY <3>2
        <4> QED
          BY <1>6, <3>2, <4>1
      <3> QED
        BY <3>1, <3>2, <3>4, <3>5
    <2> QED
      BY <2>1, <2>2, <2>3 DEF PriorityIs
  <1> DEFINE prio == IF prios = {} THEN passed.priority
                         ELSE Ascii[tail[Max(prios) + 1]] - Ascii["0"]
  <1>8. flags = [hidden |-> passed.hidden \/ Contains(tail, "h"),
                 on_empty |-> passed.on_empty \/ Contains(tail, "e"),
                 no_sticky |-> passed.no_sticky \/ Contains(tail, "s"),
                 child_sticky |-> passed.child_sticky \/ Contains(tail, "S"),
                 priority |-> prio]
    <2> DEFINE hidden == passed.hidden \/ Contains(tail, "h")
               on_empty == passed.on_empty \/ Contains(tail, "e")
               no_sticky == passed.no_sticky \/ Contains(tail, "s")
               child_sticky == passed.child_sticky \/ Contains(tail, "S")
    <2>1. /\ flags.hidden = hidden /\ flags.on_empty = on_empty
          /\ flags.no_sticky = no_sticky /\ flags.child_sticky = child_sticky
      BY <1>1, <1>2, <1>3, <1>5 DEF FlagsSince, FlagSet, Contains
    <2>2. flags.priority = prio
      BY <1>7
    <2> HIDE DEF hidden, on_empty, no_sticky, child_sticky, prio
    <2>3. flags = [hidden |-> hidden, on_empty |-> on_empty, no_sticky |-> no_sticky,
                   child_sticky |-> child_sticky, priority |-> prio]
      BY <1>1, <2>1, <2>2 DEF FlagSet
    <2> QED
      BY <2>3 DEF hidden, on_empty, no_sticky, child_sticky
  <1>9. prios # {} => flags.priority \in 0..9
    <2>1. SUFFICES ASSUME prios # {} PROVE flags.priority \in 0..9
      OBVIOUS
    <2>2. PICK i \in prios : TRUE
      BY <2>1
    <2>3. i + 2 \in Priorities /\ i + 2 < n
      <3>1. i + 2 \in Priorities
        BY <1>6
      <3> QED
        BY <1>6, <3>1
    <2>4. PriorityIs
      BY <1>2 DEF FlagsSince
    <2>5. PICK k \in Priorities : flags.priority = Ascii[msg[k + 1]] - Ascii["0"]
      BY <2>3, <2>4 DEF PriorityIs
    <2>6. msg[k + 1] \in Char /\ msg[k + 1] \in Digit
      BY <1>1 DEF Priorities
    <2> QED
      BY <2>5, <2>6, DigitValue
  <1> QED
    BY <1>8, <1>9 DEF FlagsAsWritten, tail, prios

\* Whatever is written behind a topic, the flags that the loop of
\* ps_subscribe_flags (pubsub.c:375) ends with are those passed and those
\* written; the last priority written counts, and it is one of the ten digits.  A
\* priority that is passed may be any byte and is taken as it is.
THEOREM FlagsAreAsWritten == Spec => []FlagsAsWritten
  BY LoopingInvariant, ParsedIsWritten, PTL

(***************************************************************************)
(* Values and reference counts (Message)                                   *)
(***************************************************************************)

(***************************************************************************)
(* The memory of one message                                               *)
(***************************************************************************)

\* The blocks that the message at b may own
Region(b) == (b + 1)..(b + 3)

Contents == Record \cup Cell \cup {Garbage}
Heaps == [Block -> Contents]

\* What a text may be, and a pointer to it
Optional == Text \cup {NULL}

\* Of the region of b exactly the blocks of A are allocated.
Uses(h, b, A) ==
    /\ A \subseteq Region(b)
    /\ \A q \in Region(b) : IF q \in A THEN h[q] \in Cell ELSE h[q] = Garbage

\* The pair of a heap and a pointer after malloc for message b, which used A
Got(h, b, A, s, text) ==
    /\ s[1] \in Heaps /\ s[2] \in (Region(b) \ A) \cup {NULL}
    /\ Uses(s[1], b, A \cup ({s[2]} \ {NULL}))
    /\ \A q \in Block : q # s[2] => s[1][q] = h[q]
    /\ Deref(s[1], s[2]) = text

LEMMA Regions ==
    ASSUME NEW b \in Address
    PROVE  /\ b \in Block /\ Region(b) \subseteq Block /\ b \notin Region(b)
           /\ Region(b) = {b + 1, b + 2, b + 3} /\ Region(b) \cap Address = {} /\ b \in Int
           /\ \A a \in Address \ {b} : a \notin Region(b) /\ Region(a) \cap Region(b) = {}
  <1>1. MaxMsg \in Nat
    BY MessageAssumption
  <1>2. PICK i \in 0..(MaxMsg - 1) : b = 4 * i + 1
    BY DEF Address
  <1>3. b \in Int /\ b \in Block /\ Region(b) \subseteq Block /\ b \notin Region(b)
    BY <1>1, <1>2 DEF Block, Region
  <1>4. Region(b) = {b + 1, b + 2, b + 3}
    BY <1>3 DEF Region
  <1>5. ASSUME NEW a \in Address PROVE a \notin Region(b)
    <2>1. PICK j \in 0..(MaxMsg - 1) : a = 4 * j + 1
      BY DEF Address
    <2> QED
      BY <1>1, <1>2, <2>1 DEF Region
  <1>6. ASSUME NEW a \in Address \ {b} PROVE Region(a) \cap Region(b) = {}
    <2>1. PICK j \in 0..(MaxMsg - 1) : a = 4 * j + 1
      BY DEF Address
    <2>2. SUFFICES ASSUME NEW q \in Region(a), q \in Region(b) PROVE FALSE
      OBVIOUS
    <2>3. i # j /\ i \in Int /\ j \in Int
      BY <1>1, <1>2, <2>1
    <2>4. q \in Int /\ 4 * i + 2 <= q /\ q <= 4 * i + 4 /\ 4 * j + 2 <= q /\ q <= 4 * j + 4
      BY <1>2, <2>1, <2>2, <2>3 DEF Region
    <2> QED
      BY <2>3, <2>4
  <1> QED
    BY <1>3, <1>4, <1>5, <1>6

\* Every block is a struct or in the region of one.
LEMMA BlockInRegion ==
    ASSUME NEW q \in Block \ Address
    PROVE  \E b \in Address : q \in Region(b)
  <1>1. MaxMsg \in Nat /\ q \in 1..(4 * MaxMsg)
    BY MessageAssumption DEF Block
  <1> DEFINE i == (q - 1) \div 4
             b == 4 * i + 1
  <1>2. i \in Int /\ 4 * i <= q - 1 /\ q - 1 <= 4 * i + 3
    BY <1>1
  <1> HIDE DEF i
  <1>3. i \in 0..(MaxMsg - 1)
    BY <1>1, <1>2
  <1>4. b \in Address
    BY <1>3 DEF Address
  <1>5. q # b
    BY <1>4
  <1>6. q \in Region(b)
    BY <1>1, <1>2, <1>5 DEF Region
  <1> QED
    BY <1>4, <1>6

\* A null pointer is no block, and a text is none.
LEMMA Pointers ==
    /\ NULL \notin Block /\ NULL # Garbage
    /\ \A x \in Optional : x \notin Block /\ \A h : Deref(h, x) = x
  BY MessageAssumption DEF Optional, Deref

LEMMA MallocGets ==
    ASSUME NEW h \in Heaps, NEW b \in Address, NEW A, Uses(h, b, A), A # Region(b),
           NEW text \in Optional
    PROVE  Got(h, b, A, Malloc(h, b, text), text) /\ Malloc(h, b, text)[2] # NULL
  <1> DEFINE p == CHOOSE q \in (b + 1)..(b + 3) : h[q] = Garbage
             c == [text |-> text]
             g == [h EXCEPT ![p] = c]
  <1>1. Malloc(h, b, text) = <<g, p>>
    BY DEF Malloc
  <1>2. /\ Region(b) \subseteq Block /\ NULL \notin Block
        /\ A \subseteq Region(b)
        /\ \A q \in Region(b) : IF q \in A THEN h[q] \in Cell ELSE h[q] = Garbage
    BY Regions, Pointers DEF Uses
  <1>3. c \in Cell /\ c.text = text
    BY DEF Cell, Optional
  <1>4. p \in Region(b) /\ h[p] = Garbage
    <2>1. \E q \in Region(b) : h[q] = Garbage
      BY <1>2
    <2>2. \E q \in (b + 1)..(b + 3) : h[q] = Garbage
      BY <2>1 DEF Region
    <2>3. p \in (b + 1)..(b + 3) /\ h[p] = Garbage
      BY <2>2
    <2> HIDE DEF p
    <2> QED
      BY <2>3 DEF Region
  <1> HIDE DEF p, c
  <1>5. p \notin A
    BY <1>2, <1>4, MessageAssumption
  <1>6. /\ g \in Heaps /\ g[p] = c /\ \A q \in Block : q # p => g[q] = h[q]
    BY <1>2, <1>3, <1>4 DEF Heaps, Contents
  <1>7. Uses(g, b, A \cup {p})
    BY <1>2, <1>3, <1>4, <1>6 DEF Uses
  <1>8. Deref(g, p) = text
    BY <1>2, <1>3, <1>4, <1>6 DEF Deref
  <1>9. p # NULL /\ {p} \ {NULL} = {p}
    BY <1>2, <1>4
  <1> DEFINE s == <<g, p>>
  <1>10. s[1] = g /\ s[2] = p
    OBVIOUS
  <1> HIDE DEF g, s
  <1>11. Got(h, b, A, s, text)
    BY <1>4, <1>5, <1>6, <1>7, <1>8, <1>9, <1>10 DEF Got
  <1> QED
    BY <1>1, <1>9, <1>10, <1>11 DEF s

\* Nothing is allocated for a text that is not there.
LEMMA NothingGot ==
    ASSUME NEW h \in Heaps, NEW b \in Address, NEW A, Uses(h, b, A)
    PROVE  Got(h, b, A, <<h, NULL>>, NULL)
  <1>1. A \cup ({NULL} \ {NULL}) = A
    OBVIOUS
  <1>2. Deref(h, NULL) = NULL
    BY Pointers DEF Deref
  <1> DEFINE s == <<h, NULL>>
  <1>3. s[1] = h /\ s[2] = NULL
    OBVIOUS
  <1> HIDE DEF s
  <1>4. Got(h, b, A, s, NULL)
    BY <1>1, <1>2, <1>3 DEF Got
  <1> QED
    BY <1>4 DEF s

LEMMA StrdupGets ==
    ASSUME NEW h \in Heaps, NEW b \in Address, NEW A, Uses(h, b, A), A # Region(b),
           NEW text \in Optional
    PROVE  /\ Got(h, b, A, Strdup(h, b, text), text)
           /\ Strdup(h, b, text)[2] = NULL <=> text = NULL
  <1>1. CASE text = NULL
    <2>1. Strdup(h, b, text) = <<h, NULL>>
      BY <1>1 DEF Strdup
    <2> QED
      BY <1>1, <2>1, NothingGot
  <1>2. CASE text # NULL
    <2>1. Strdup(h, b, text) = Malloc(h, b, text)
      BY <1>2 DEF Strdup
    <2> QED
      BY <1>2, <2>1, MallocGets
  <1> QED
    BY <1>1, <1>2

LEMMA FreeBlockFrees ==
    ASSUME NEW h \in Heaps, NEW b \in Address, NEW A, Uses(h, b, A), NEW p \in A \cup {NULL}
    PROVE  /\ FreeBlock(h, p) \in Heaps /\ Uses(FreeBlock(h, p), b, A \ {p})
           /\ \A q \in Block : q # p => FreeBlock(h, p)[q] = h[q]
  <1> DEFINE g == FreeBlock(h, p)
  <1>1. /\ Region(b) \subseteq Block /\ NULL \notin Block
        /\ A \subseteq Region(b)
        /\ \A q \in Region(b) : IF q \in A THEN h[q] \in Cell ELSE h[q] = Garbage
    BY Regions, Pointers DEF Uses
  <1>2. CASE p = NULL
    <2>1. g = h /\ A \ {p} = A
      BY <1>1, <1>2 DEF FreeBlock
    <2> HIDE DEF g
    <2> QED
      BY <2>1 DEF g
  <1>3. CASE p # NULL
    <2>1. p \in A /\ p \in Block /\ g = [h EXCEPT ![p] = Garbage]
      BY <1>1, <1>3 DEF FreeBlock
    <2> HIDE DEF g
    <2>2. g \in Heaps /\ g[p] = Garbage /\ \A q \in Block : q # p => g[q] = h[q]
      BY <2>1 DEF Heaps, Contents
    <2>3. Uses(g, b, A \ {p})
      BY <1>1, <2>1, <2>2 DEF Uses
    <2> QED
      BY <2>2, <2>3 DEF g
  <1> QED
    BY <1>2, <1>3

(***************************************************************************)
(* The value of a message                                                  *)
(***************************************************************************)

\* The value is in a block that the message must free.
Owned(typ, dtor) == typ \in {"STR", "ERR"} \/ (typ = "BUF" /\ dtor # NULL)

LEMMA OwnValueIs ==
    ASSUME NEW m, m.typ \in Typ
    PROVE  /\ m.typ = "STR" => OwnValue(m) = m.union[1]
           /\ m.typ = "BUF" => OwnValue(m) = IF m.union[3] # NULL THEN m.union[1] ELSE NULL
           /\ m.typ = "ERR" => OwnValue(m) = m.union[2]
           /\ m.typ \in {"INT", "DBL", "BOOL", "PTR", "NIL"} => OwnValue(m) = NULL
  <1>1. CASE m.typ = "STR"
    BY <1>1 DEF OwnValue
  <1>2. CASE m.typ = "BUF" /\ m.union[3] # NULL
    BY <1>2 DEF OwnValue
  <1>3. CASE m.typ = "BUF" /\ m.union[3] = NULL
    BY <1>3 DEF OwnValue
  <1>4. CASE m.typ = "ERR"
    BY <1>4 DEF OwnValue
  <1>5. CASE m.typ \in {"INT", "DBL", "BOOL", "PTR", "NIL"}
    BY <1>5 DEF OwnValue
  <1> QED
    BY <1>1, <1>2, <1>3, <1>4, <1>5 DEF Typ

LEMMA OwnValueKept ==
    ASSUME NEW m, NEW k, m.typ \in Typ, k.typ = m.typ, k.union = m.union
    PROVE  OwnValue(k) = OwnValue(m)
  <1>1. /\ k.typ = "STR" => OwnValue(k) = k.union[1]
        /\ k.typ = "BUF" => OwnValue(k) = IF k.union[3] # NULL THEN k.union[1] ELSE NULL
        /\ k.typ = "ERR" => OwnValue(k) = k.union[2]
        /\ k.typ \in {"INT", "DBL", "BOOL", "PTR", "NIL"} => OwnValue(k) = NULL
    BY OwnValueIs
  <1>2. /\ m.typ = "STR" => OwnValue(m) = m.union[1]
        /\ m.typ = "BUF" => OwnValue(m) = IF m.union[3] # NULL THEN m.union[1] ELSE NULL
        /\ m.typ = "ERR" => OwnValue(m) = m.union[2]
        /\ m.typ \in {"INT", "DBL", "BOOL", "PTR", "NIL"} => OwnValue(m) = NULL
    BY OwnValueIs
  <1> QED
    BY <1>1, <1>2 DEF Typ

LEMMA StoredIs ==
    ASSUME NEW typ \in Typ, NEW num, NEW p, NEW dtor
    PROVE  /\ typ \in {"INT", "DBL", "BOOL"} => Stored(typ, num, p, dtor) = <<num, NULL, NULL>>
           /\ typ \in {"PTR", "STR"} => Stored(typ, num, p, dtor) = <<p, NULL, NULL>>
           /\ typ = "BUF" => Stored(typ, num, p, dtor) = <<p, p, dtor>>
           /\ typ = "ERR" => Stored(typ, num, p, dtor) = <<num, p, NULL>>
           /\ typ = "NIL" => Stored(typ, num, p, dtor) = <<NULL, NULL, NULL>>
  <1>1. CASE typ \in {"INT", "DBL", "BOOL"}
    BY <1>1 DEF Stored
  <1>2. CASE typ \in {"PTR", "STR"}
    BY <1>2 DEF Stored
  <1>3. CASE typ = "BUF"
    BY <1>3 DEF Stored
  <1>4. CASE typ = "ERR"
    BY <1>4 DEF Stored
  <1>5. CASE typ = "NIL"
    BY <1>5 DEF Stored
  <1> QED
    BY <1>1, <1>2, <1>3, <1>4, <1>5 DEF Typ

\* Message b in heap h owns the blocks it points to, each with one field, and in
\* its region no other block is allocated.
Whole(h, b) ==
    LET m == h[b]
        own == OwnValue(m)
    IN  /\ m \in Record /\ own \in Block \cup {NULL}
        /\ Uses(h, b, {m.topic, m.rtopic, own} \ {NULL})
        /\ m.topic = m.rtopic \/ m.topic = own => m.topic = NULL
        /\ m.rtopic = own => m.rtopic = NULL

\* The value of message b in heap h is v.
Bears(h, b, v) ==
    LET m == h[b]
    IN  /\ v \in Values /\ m.typ = v.typ /\ m.enc = v.enc
        /\ v.typ \in {"INT", "DBL", "BOOL", "ERR"} => m.union[1] = v.num
        /\ v.typ \in {"STR", "BUF", "PTR"} => Deref(h, m.union[1]) = v.text
        /\ v.typ = "PTR" \/ (v.typ = "BUF" /\ m.union[3] = NULL) => m.union[1] = v.text
        /\ v.typ = "ERR" => Deref(h, m.union[2]) = v.text

\* The topics of message b in heap h are those of s.
Titled(h, b, s) ==
    /\ Deref(h, h[b].topic) = s.topic /\ Deref(h, h[b].rtopic) = s.rtopic
    /\ h[b].sticky = s.sticky /\ s.topic \in Optional /\ s.rtopic \in Optional

\* The value is stored, and the pointer p with it.
LEMMA ValueStored ==
    ASSUME NEW g, NEW b, NEW v \in Values, NEW p, NEW dtor \in {NULL, "free"},
           g[b].typ = v.typ, g[b].enc = v.enc, g[b].union = Stored(v.typ, v.num, p, dtor),
           v.typ \in {"STR", "BUF", "PTR", "ERR"} => Deref(g, p) = v.text,
           v.typ = "PTR" \/ (v.typ = "BUF" /\ dtor = NULL) => p = v.text
    PROVE  Bears(g, b, v) /\ OwnValue(g[b]) = IF Owned(v.typ, dtor) THEN p ELSE NULL
  <1> DEFINE m == g[b]
             w == Stored(v.typ, v.num, p, dtor)
  <1>1. v.typ \in Typ /\ m.typ = v.typ /\ m.enc = v.enc /\ m.union = w
    BY DEF Values
  <1>2. /\ v.typ \in {"INT", "DBL", "BOOL"} => w[1] = v.num
        /\ v.typ \in {"PTR", "STR"} => w[1] = p
        /\ v.typ = "BUF" => w[1] = p /\ w[3] = dtor
        /\ v.typ = "ERR" => w[1] = v.num /\ w[2] = p
    BY <1>1, StoredIs
  <1> HIDE DEF w, m
  <1>3. OwnValue(m) = IF Owned(v.typ, dtor) THEN p ELSE NULL
    <2>1. /\ m.typ = "STR" => OwnValue(m) = m.union[1]
          /\ m.typ = "BUF" => OwnValue(m) = IF m.union[3] # NULL THEN m.union[1] ELSE NULL
          /\ m.typ = "ERR" => OwnValue(m) = m.union[2]
          /\ m.typ \in {"INT", "DBL", "BOOL", "PTR", "NIL"} => OwnValue(m) = NULL
      BY <1>1, OwnValueIs
    <2> QED
      BY <1>1, <1>2, <2>1 DEF Owned, Typ
  <1>4. /\ v.typ \in {"INT", "DBL", "BOOL", "ERR"} => m.union[1] = v.num
        /\ v.typ \in {"STR", "BUF", "PTR"} => Deref(g, m.union[1]) = v.text
        /\ v.typ = "PTR" \/ (v.typ = "BUF" /\ m.union[3] = NULL) => m.union[1] = v.text
        /\ v.typ = "ERR" => Deref(g, m.union[2]) = v.text
    BY <1>1, <1>2
  <1>5. Bears(g, b, v)
    BY <1>1, <1>4 DEF Bears, m
  <1> QED
    BY <1>3, <1>5 DEF m

LEMMA StoredIsWords ==
    ASSUME NEW typ \in Typ, NEW num \in Word, NEW p \in Word, NEW dtor \in {NULL, "free"}
    PROVE  Stored(typ, num, p, dtor) \in Word \X Word \X Word
  <1>1. NULL \in Word /\ dtor \in Word
    BY DEF Word
  <1> DEFINE w == Stored(typ, num, p, dtor)
  <1>2. \/ w = <<num, NULL, NULL>> \/ w = <<p, NULL, NULL>> \/ w = <<p, p, dtor>>
        \/ w = <<num, p, NULL>> \/ w = <<NULL, NULL, NULL>>
    BY StoredIs DEF Typ
  <1> HIDE DEF w
  <1>3. w \in Word \X Word \X Word
    BY <1>1, <1>2
  <1> QED
    BY <1>3 DEF w

LEMMA WriteStruct ==
    ASSUME NEW h \in Heaps, NEW b \in Address, NEW A, Uses(h, b, A), NEW m \in Record
    PROVE  LET g == [h EXCEPT ![b] = m]
           IN  /\ g \in Heaps /\ g[b] = m /\ \A q \in Block : q # b => g[q] = h[q]
               /\ Uses(g, b, A)
  <1> DEFINE g == [h EXCEPT ![b] = m]
  <1>1. b \in Block /\ b \notin Region(b) /\ Region(b) \subseteq Block
    BY Regions
  <1>2. g \in Heaps /\ g[b] = m /\ \A q \in Block : q # b => g[q] = h[q]
    BY <1>1 DEF Heaps, Contents
  <1> HIDE DEF g
  <1>3. Uses(g, b, A)
    BY <1>1, <1>2 DEF Uses
  <1> QED
    BY <1>2, <1>3 DEF g

LEMMA FreeValueFrees ==
    ASSUME NEW h \in Heaps, NEW b \in Address, h[b] \in Record, NEW A, Uses(h, b, A),
           OwnValue(h[b]) \in A \cup {NULL}
    PROVE  LET g == FreeValue(h, b)
               m == h[b]
           IN  /\ g \in Heaps /\ g[b] = [m EXCEPT !.typ = "NIL", !.enc = "RAW"]
               /\ Uses(g, b, A \ {OwnValue(m)})
               /\ \A q \in Block : q # b /\ q # OwnValue(m) => g[q] = h[q]
  <1> DEFINE m == h[b]
             own == OwnValue(m)
             f == FreeBlock(h, own)
             nil == [m EXCEPT !.typ = "NIL", !.enc = "RAW"]
  <1>1. m \in Record /\ own \in A \cup {NULL} /\ Uses(h, b, A)
    OBVIOUS
  <1>2. b \in Block /\ b \notin Region(b) /\ A \subseteq Region(b)
    BY <1>1, Regions DEF Uses
  <1>4. nil \in Record
    BY <1>1 DEF Record, Typ, Enc
  <1>5. FreeValue(h, b) = [f EXCEPT ![b] = [f[b] EXCEPT !.typ = "NIL", !.enc = "RAW"]]
    BY DEF FreeValue
  <1> HIDE DEF m, own
  <1>6. f \in Heaps /\ Uses(f, b, A \ {own}) /\ \A q \in Block : q # own => f[q] = h[q]
    BY <1>1, <1>2, FreeBlockFrees
  <1>7. f[b] = m
    <2>1. own # b
      BY <1>1, <1>2, Pointers
    <2> QED
      BY <1>2, <1>6, <2>1 DEF m
  <1> HIDE DEF f
  <1>8. [f[b] EXCEPT !.typ = "NIL", !.enc = "RAW"] = nil
    BY <1>7
  <1> HIDE DEF nil
  <1> DEFINE g == [f EXCEPT ![b] = nil]
  <1>9. /\ g \in Heaps /\ g[b] = nil /\ \A q \in Block : q # b => g[q] = f[q]
        /\ Uses(g, b, A \ {own})
    BY <1>4, <1>6, WriteStruct
  <1> HIDE DEF g
  <1>10. FreeValue(h, b) = g
    BY <1>5, <1>8 DEF g
  <1> QED
    BY <1>6, <1>9, <1>10 DEF m, own, nil

\* Two of three blocks are not all of them.
LEMMA RoomForValue ==
    ASSUME NEW b \in Address, NEW x, NEW y
    PROVE  {x, y} \ {NULL} # Region(b)
  <1>1. Region(b) = {b + 1, b + 2, b + 3} /\ b \in Int
    BY Regions
  <1>2. b + 1 # b + 2 /\ b + 1 # b + 3 /\ b + 2 # b + 3
    BY <1>1
  <1> QED
    BY <1>1, <1>2

\* What Handed gives: the pointer to the value, in a block of its own or not
LEMMA HandedIs ==
    ASSUME NEW h \in Heaps, NEW b \in Address, NEW A, Uses(h, b, A), A # Region(b),
           NEW v \in Values
    PROVE  LET s == Handed(h, b, v)
           IN  /\ s[1] \in Heaps /\ s[2] \in Word /\ Deref(s[1], s[2]) = v.text
               /\ Owned(v.typ, v.dtor) => Got(h, b, A, s, v.text)
               /\ ~Owned(v.typ, v.dtor) => s[1] = h /\ s[2] = v.text
  <1> DEFINE s == Handed(h, b, v)
  <1>1. v.text \in Optional /\ (v.dtor # NULL => v.typ = "BUF")
    BY DEF Values, Optional
  <1>2. CASE Owned(v.typ, v.dtor)
    <2>1. s = Strdup(h, b, v.text)
      BY <1>1, <1>2 DEF Owned, Handed
    <2> HIDE DEF s
    <2>2. Got(h, b, A, s, v.text)
      BY <1>1, <2>1, StrdupGets
    <2>3. s[1] \in Heaps /\ s[2] \in Region(b) \cup {NULL} /\ Deref(s[1], s[2]) = v.text
      BY <2>2 DEF Got
    <2>4. s[2] \in Word
      BY <2>3, Regions DEF Word
    <2> QED
      BY <1>2, <2>2, <2>3, <2>4 DEF s
  <1>3. CASE ~Owned(v.typ, v.dtor)
    <2>1. s = <<h, v.text>>
      BY <1>1, <1>3 DEF Owned, Handed
    <2>2. s[1] = h /\ s[2] = v.text
      BY <2>1
    <2> HIDE DEF s
    <2>3. s[2] \in Word /\ Deref(s[1], s[2]) = v.text
      BY <1>1, <2>2, Pointers DEF Word, Optional
    <2> QED
      BY <1>3, <2>2, <2>3 DEF s
  <1> QED
    BY <1>2, <1>3

LEMMA SetVvalueSets ==
    ASSUME NEW h \in Heaps, NEW b \in Address, Whole(h, b), NEW v \in Values
    PROVE  LET g == SetVvalue(h, b, v)
               m == h[b]
           IN  /\ g \in Heaps /\ Whole(g, b) /\ Bears(g, b, v)
               /\ g[b].ref = m.ref /\ g[b].sticky = m.sticky
               /\ g[b].topic = m.topic /\ g[b].rtopic = m.rtopic
               /\ \A q \in Block : q # b /\ (q \notin Region(b) \/ q \in {m.topic, m.rtopic})
                                    => g[q] = h[q]
  <1> DEFINE m == h[b]
             own == OwnValue(m)
             A == {m.topic, m.rtopic} \ {NULL}
             f == FreeValue(h, b)
             s == Handed(f, b, v)
             w == Stored(v.typ, v.num, s[2], v.dtor)
             new == [s[1][b] EXCEPT !.typ = v.typ, !.enc = v.enc, !.union = w]
             g == [s[1] EXCEPT ![b] = new]
  <1>1. /\ m \in Record /\ own \in Block \cup {NULL}
        /\ Uses(h, b, {m.topic, m.rtopic, own} \ {NULL})
        /\ m.topic = m.rtopic \/ m.topic = own => m.topic = NULL
        /\ m.rtopic = own => m.rtopic = NULL
    BY DEF Whole
  <1>2. /\ v.typ \in Typ /\ v.enc \in Enc /\ v.num \in Word /\ v.dtor \in {NULL, "free"}
        /\ v.dtor # NULL => v.typ = "BUF"
    BY DEF Values, Word
  <1>3. /\ f \in Heaps /\ f[b] = [m EXCEPT !.typ = "NIL", !.enc = "RAW"]
        /\ Uses(f, b, A) /\ \A q \in Block : q # b /\ q # own => f[q] = h[q]
    <2> DEFINE U == {m.topic, m.rtopic, own} \ {NULL}
    <2>1. own \in U \cup {NULL} /\ Uses(h, b, U) /\ h[b] \in Record
      BY <1>1
    <2>2. U \ {own} = A
      <3> HIDE DEF m, own
      <3> QED
        BY <1>1
    <2> HIDE DEF U, A
    <2> QED
      BY <2>1, <2>2, FreeValueFrees
  <1>4. A # Region(b)
    BY RoomForValue
  <1> HIDE DEF f, A
  <1>5. /\ s[1] \in Heaps /\ s[2] \in Word /\ Deref(s[1], s[2]) = v.text
        /\ Owned(v.typ, v.dtor) => Got(f, b, A, s, v.text)
        /\ ~Owned(v.typ, v.dtor) => s[1] = f /\ s[2] = v.text
    BY <1>3, <1>4, HandedIs
  <1>6. SetVvalue(h, b, v) = g
    BY DEF SetVvalue, f
  <1> HIDE DEF s
  <1>7. b \in Block /\ b \notin Region(b) /\ NULL \notin Block /\ Region(b) \subseteq Block
    BY Regions, Pointers
  <1> DEFINE B == A \cup (IF Owned(v.typ, v.dtor) THEN {s[2]} \ {NULL} ELSE {})
  <1>8. /\ Uses(s[1], b, B)
        /\ Owned(v.typ, v.dtor) => s[2] \in (Region(b) \ A) \cup {NULL}
        /\ \A q \in Block : q \notin Region(b) \/ q \in A => s[1][q] = f[q]
    <2>1. CASE Owned(v.typ, v.dtor)
      <3>1. Got(f, b, A, s, v.text) /\ B = A \cup ({s[2]} \ {NULL})
        BY <1>5, <2>1
      <3> HIDE DEF B
      <3>2. Uses(s[1], b, B) /\ s[2] \in (Region(b) \ A) \cup {NULL}
        BY <3>1 DEF Got
      <3>3. \A q \in Block : q # s[2] => s[1][q] = f[q]
        BY <3>1 DEF Got
      <3> QED
        BY <1>7, <3>2, <3>3
    <2>2. CASE ~Owned(v.typ, v.dtor)
      <3>1. s[1] = f /\ B = A
        BY <1>5, <2>2
      <3> HIDE DEF B
      <3> QED
        BY <1>3, <2>2, <3>1
    <2> QED
      BY <2>1, <2>2
  <1> HIDE DEF B
  <1>9. s[1][b] = f[b] /\ f[b] \in Record
    <2>1. f[b] \in Record
      BY <1>1, <1>3 DEF Record, Typ, Enc
    <2> QED
      BY <1>7, <1>8, <2>1
  <1>10. w \in Word \X Word \X Word
    BY <1>2, <1>5, StoredIsWords
  <1>12. /\ new \in Record /\ new.typ = v.typ /\ new.enc = v.enc /\ new.union = w
         /\ new.ref = m.ref /\ new.topic = m.topic /\ new.rtopic = m.rtopic
         /\ new.sticky = m.sticky
    <2> HIDE DEF w
    <2> DEFINE z == s[1][b]
    <2>1. /\ z \in Record /\ z.ref = m.ref /\ z.topic = m.topic /\ z.rtopic = m.rtopic
          /\ z.sticky = m.sticky
      <3>1. z = [m EXCEPT !.typ = "NIL", !.enc = "RAW"] /\ z \in Record
        BY <1>3, <1>9
      <3> HIDE DEF z, m
      <3> QED
        BY <1>1, <3>1 DEF Record
    <2> HIDE DEF z, m
    <2> QED
      BY <1>2, <1>10, <2>1 DEF Record, z
  <1> HIDE DEF new
  <1>13. /\ g \in Heaps /\ g[b] = new /\ \A q \in Block : q # b => g[q] = s[1][q]
         /\ Uses(g, b, B)
    BY <1>5, <1>8, <1>12, WriteStruct
  <1> HIDE DEF g
  <1>14. Deref(g, s[2]) = v.text
    <2>1. s[2] # b
      <3>1. CASE Owned(v.typ, v.dtor)
        BY <1>7, <1>8, <3>1
      <3>2. CASE ~Owned(v.typ, v.dtor)
        <4>1. s[2] \in Optional
          BY <1>5, <3>2 DEF Values, Optional
        <4> QED
          BY <1>7, <4>1, Pointers
      <3> QED
        BY <3>1, <3>2
    <2> QED
      BY <1>5, <1>13, <2>1 DEF Deref
  <1>15. Bears(g, b, v) /\ OwnValue(g[b]) = IF Owned(v.typ, v.dtor) THEN s[2] ELSE NULL
    <2>1. v.typ = "PTR" \/ (v.typ = "BUF" /\ v.dtor = NULL) => s[2] = v.text
      BY <1>5 DEF Owned
    <2>2. g[b].typ = v.typ /\ g[b].enc = v.enc /\ g[b].union = Stored(v.typ, v.num, s[2], v.dtor)
      BY <1>12, <1>13
    <2> HIDE DEF w
    <2> QED
      BY <1>2, <1>14, <2>1, <2>2, ValueStored
  <1>16. Whole(g, b)
    <2> DEFINE o == OwnValue(g[b])
    <2>1. o = IF Owned(v.typ, v.dtor) THEN s[2] ELSE NULL
      BY <1>15
    <2>2. o \in (Region(b) \ A) \cup {NULL} /\ B = A \cup ({o} \ {NULL})
      BY <1>8, <2>1 DEF B
    <2>3. {g[b].topic, g[b].rtopic, o} \ {NULL} = B
      BY <1>12, <1>13, <2>2 DEF A
    <2>4. o \in A => o = NULL
      BY <2>2
    <2>5. o \in Block \cup {NULL}
      BY <1>7, <2>2
    <2>6. /\ g[b].topic = m.topic /\ g[b].rtopic = m.rtopic /\ g[b] \in Record
          /\ m.topic # NULL => m.topic \in A
          /\ m.rtopic # NULL => m.rtopic \in A
      BY <1>12, <1>13 DEF A
    <2> HIDE DEF o, m
    <2>7. /\ g[b].topic = g[b].rtopic \/ g[b].topic = o => g[b].topic = NULL
          /\ g[b].rtopic = o => g[b].rtopic = NULL
      BY <1>1, <2>4, <2>6
    <2> QED
      BY <1>13, <2>3, <2>5, <2>6, <2>7 DEF Whole, o
  <1>17. \A q \in Block : q # b /\ (q \notin Region(b) \/ q \in {m.topic, m.rtopic})
                                    => g[q] = h[q]
    <2>1. SUFFICES ASSUME NEW q \in Block, q # b, q \notin Region(b) \/ q \in {m.topic, m.rtopic}
                   PROVE  g[q] = h[q]
      OBVIOUS
    <2>2. q \notin Region(b) \/ q \in A
      BY <1>7, <2>1 DEF A
    <2>3. q # own
      <3>1. own \in Region(b) \cup {NULL}
        BY <1>1 DEF Uses
      <3>2. CASE q \notin Region(b)
        BY <1>7, <3>1, <3>2
      <3>3. CASE q \in A
        <4>1. q # NULL /\ (q = m.topic \/ q = m.rtopic)
          BY <3>3 DEF A
        <4> HIDE DEF m, own
        <4> QED
          BY <1>1, <4>1
      <3> QED
        BY <2>2, <3>2, <3>3
    <2> QED
      BY <1>3, <1>8, <1>13, <2>1, <2>2, <2>3
  <1> QED
    BY <1>6, <1>12, <1>13, <1>15, <1>16, <1>17

(***************************************************************************)
(* What stays                                                              *)
(***************************************************************************)

LEMMA DerefKept ==
    ASSUME NEW h, NEW g, NEW p \in Block \cup Optional, p \in Block => g[p] = h[p]
    PROVE  Deref(g, p) = Deref(h, p)
  BY Pointers DEF Deref

LEMMA BearsKept ==
    ASSUME NEW h, NEW g, NEW b \in Address, NEW v, Bears(h, b, v), h[b] \in Record,
           OwnValue(h[b]) \in Block \cup {NULL},
           OwnValue(h[b]) \in Block => g[OwnValue(h[b])] = h[OwnValue(h[b])],
           g[b].typ = h[b].typ, g[b].enc = h[b].enc, g[b].union = h[b].union
    PROVE  Bears(g, b, v) /\ OwnValue(g[b]) = OwnValue(h[b])
  <1> DEFINE m == h[b]
             k == g[b]
             own == OwnValue(m)
  <1>1. /\ v \in Values /\ m.typ = v.typ /\ m.enc = v.enc
        /\ v.typ \in {"INT", "DBL", "BOOL", "ERR"} => m.union[1] = v.num
        /\ v.typ \in {"STR", "BUF", "PTR"} => Deref(h, m.union[1]) = v.text
        /\ v.typ = "PTR" \/ (v.typ = "BUF" /\ m.union[3] = NULL) => m.union[1] = v.text
        /\ v.typ = "ERR" => Deref(h, m.union[2]) = v.text
    BY DEF Bears
  <1>2. k.typ = m.typ /\ k.enc = m.enc /\ k.union = m.union
    OBVIOUS
  <1>3. m.typ \in Typ /\ v.text \in Optional
    BY <1>1 DEF Values, Optional
  <1>4. Deref(g, own) = Deref(h, own) /\ Deref(g, v.text) = v.text
    <2>1. own \in Block \cup Optional /\ (own \in Block => g[own] = h[own])
      BY DEF Optional
    <2> HIDE DEF own
    <2> QED
      BY <1>3, <2>1, DerefKept, Pointers
  <1> HIDE DEF m, k
  <1>5. /\ m.typ = "STR" => own = m.union[1]
        /\ m.typ = "BUF" => own = IF m.union[3] # NULL THEN m.union[1] ELSE NULL
        /\ m.typ = "ERR" => own = m.union[2]
        /\ m.typ \in {"INT", "DBL", "BOOL", "PTR", "NIL"} => own = NULL
    BY <1>3, OwnValueIs
  <1>7. OwnValue(k) = own
    BY <1>2, <1>3, OwnValueKept
  <1> HIDE DEF own
  <1>8. /\ v.typ \in {"STR", "BUF", "PTR"} => Deref(g, m.union[1]) = v.text
        /\ v.typ = "ERR" => Deref(g, m.union[2]) = v.text
    BY <1>1, <1>4, <1>5
  <1>9. Bears(g, b, v)
    BY <1>1, <1>2, <1>8 DEF Bears, k
  <1> QED
    BY <1>7, <1>9 DEF own, m, k

\* What a thread does to one message leaves the memory of another as it is, but
\* for the count of references.
LEMMA ElsewhereKept ==
    ASSUME NEW h, NEW g, NEW b \in Address, Whole(h, b), NEW c \in Int,
           g[b] = [h[b] EXCEPT !.ref = c], \A q \in Region(b) : g[q] = h[q]
    PROVE  /\ Whole(g, b)
           /\ \A v : Bears(h, b, v) => Bears(g, b, v)
           /\ \A s : Titled(h, b, s) => Titled(g, b, s)
  <1> DEFINE m == h[b]
             k == g[b]
             own == OwnValue(m)
             A == {m.topic, m.rtopic, own} \ {NULL}
  <1>1. /\ m \in Record /\ own \in Block \cup {NULL} /\ Uses(h, b, A)
        /\ m.topic = m.rtopic \/ m.topic = own => m.topic = NULL
        /\ m.rtopic = own => m.rtopic = NULL
    BY DEF Whole
  <1>2. /\ k \in Record /\ k.topic = m.topic /\ k.rtopic = m.rtopic /\ k.sticky = m.sticky
        /\ k.typ = m.typ /\ k.enc = m.enc /\ k.union = m.union
    <2>1. k = [m EXCEPT !.ref = c]
      OBVIOUS
    <2> HIDE DEF k, m
    <2> QED
      BY <1>1, <2>1 DEF Record
  <1>3. m.topic \in Block \cup {NULL} /\ m.rtopic \in Block \cup {NULL} /\ m.typ \in Typ
    <2> HIDE DEF m
    <2> QED
      BY <1>1 DEF Record
  <1>4. A \subseteq Region(b)
    BY <1>1 DEF Uses
  <1>5. \A p \in {m.topic, m.rtopic, own} : p \in Block => p \in Region(b) /\ g[p] = h[p]
    <2>1. \A p \in {m.topic, m.rtopic, own} : p \in Block => p \in A
      BY Pointers
    <2> HIDE DEF A
    <2> QED
      BY <1>4, <2>1
  <1> HIDE DEF A, m, k
  <1>6. OwnValue(k) = own
    BY <1>2, <1>3, OwnValueKept
  <1>7. Uses(g, b, A)
    BY <1>1 DEF Uses
  <1>8. Whole(g, b)
    <2> HIDE DEF own
    <2> QED
      BY <1>1, <1>2, <1>6, <1>7 DEF Whole, A, k
  <1>9. ASSUME NEW v, Bears(h, b, v) PROVE Bears(g, b, v)
    <2>1. /\ h[b] \in Record /\ OwnValue(h[b]) \in Block \cup {NULL}
          /\ OwnValue(h[b]) \in Block => g[OwnValue(h[b])] = h[OwnValue(h[b])]
          /\ g[b].typ = h[b].typ /\ g[b].enc = h[b].enc /\ g[b].union = h[b].union
      BY <1>1, <1>2, <1>5 DEF m, k
    <2> QED
      BY <1>9, <2>1, BearsKept
  <1>10. ASSUME NEW s, Titled(h, b, s) PROVE Titled(g, b, s)
    <2>1. Deref(g, m.topic) = Deref(h, m.topic) /\ Deref(g, m.rtopic) = Deref(h, m.rtopic)
      BY <1>3, <1>5, DerefKept DEF Optional
    <2> QED
      BY <1>2, <1>10, <2>1 DEF Titled, m, k
  <1> QED
    BY <1>8, <1>9, <1>10

(***************************************************************************)
(* What the functions do to the memory                                     *)
(***************************************************************************)

\* Only the memory of message b differs.
Elsewhere(h, g, b) == \A q \in Block : q # b /\ q \notin Region(b) => g[q] = h[q]

\* ps_msg_set_topic and ps_msg_set_rtopic
SetsTopic(h, b, x) ==
    LET s == Strdup(FreeBlock(h, h[b].topic), b, x) IN [s[1] EXCEPT ![b].topic = s[2]]
SetsRtopic(h, b, x) ==
    LET s == Strdup(FreeBlock(h, h[b].rtopic), b, x) IN [s[1] EXCEPT ![b].rtopic = s[2]]

\* Message b owns what is at old, x and y; old is none of the others.
UsesThree(h, b, old, x, y) ==
    Uses(h, b, {old, x, y} \ {NULL}) /\ (old = x \/ old = y => old = NULL)

\* Message b has got the text at s[2], and x and y are what they were.
Replaced(h, b, x, y, s, text) ==
    /\ s[1] \in Heaps /\ s[2] \in Block \cup {NULL} /\ Deref(s[1], s[2]) = text
    /\ s[1][b] = h[b] /\ Elsewhere(h, s[1], b)
    /\ UsesThree(s[1], b, s[2], x, y)
    /\ \A q \in {x, y} : q \in Block => s[1][q] = h[q]

LEMMA TextReplaced ==
    ASSUME NEW h \in Heaps, NEW b \in Address, NEW old, NEW x, NEW y,
           UsesThree(h, b, old, x, y), NEW text \in Optional
    PROVE  Replaced(h, b, x, y, Strdup(FreeBlock(h, old), b, text), text)
  <1> DEFINE A == {old, x, y} \ {NULL}
             f == FreeBlock(h, old)
             s == Strdup(f, b, text)
             B == {x, y} \ {NULL}
  <1>1. b \in Block /\ b \notin Region(b) /\ Region(b) \subseteq Block /\ NULL \notin Block
    BY Regions, Pointers
  <1>2. old \in A \cup {NULL} /\ A \ {old} = B /\ A \subseteq Region(b)
    BY DEF Uses, UsesThree
  <1>3. f \in Heaps /\ Uses(f, b, B) /\ \A q \in Block : q # old => f[q] = h[q]
    <2>1. Uses(h, b, A)
      BY DEF UsesThree
    <2> HIDE DEF A, B
    <2> QED
      BY <1>2, <2>1, FreeBlockFrees
  <1>4. B # Region(b)
    BY RoomForValue
  <1> HIDE DEF f, A, B
  <1>5. Got(f, b, B, s, text)
    BY <1>3, <1>4, StrdupGets
  <1> HIDE DEF s
  <1>6. /\ s[1] \in Heaps /\ s[2] \in (Region(b) \ B) \cup {NULL}
        /\ Uses(s[1], b, B \cup ({s[2]} \ {NULL}))
        /\ \A q \in Block : q # s[2] => s[1][q] = f[q]
        /\ Deref(s[1], s[2]) = text
    BY <1>5 DEF Got
  <1>7. \A q \in Block : q # s[2] /\ q # old => s[1][q] = h[q]
    BY <1>3, <1>6
  <1>8. old \in Region(b) \cup {NULL} /\ s[2] \in Region(b) \cup {NULL}
    BY <1>2, <1>6
  <1>9. s[1][b] = h[b] /\ Elsewhere(h, s[1], b)
    BY <1>1, <1>7, <1>8 DEF Elsewhere
  <1>10. B \cup ({s[2]} \ {NULL}) = {s[2], x, y} \ {NULL}
    BY DEF B
  <1>11. s[2] = x \/ s[2] = y => s[2] = NULL
    BY <1>6 DEF B
  <1>12. \A q \in {x, y} : q \in Block => s[1][q] = h[q]
    BY <1>1, <1>7, <1>11 DEF UsesThree
  <1>13. Replaced(h, b, x, y, s, text)
    BY <1>1, <1>6, <1>8, <1>9, <1>10, <1>11, <1>12 DEF Replaced, UsesThree
  <1> QED
    BY <1>13 DEF s, f

LEMMA SetsTopicIs ==
    ASSUME NEW h \in Heaps, NEW b \in Address, Whole(h, b), NEW x \in Optional
    PROVE  LET g == SetsTopic(h, b, x)
           IN  /\ g \in Heaps /\ Whole(g, b) /\ Elsewhere(h, g, b)
               /\ \A v : Bears(h, b, v) => Bears(g, b, v)
               /\ g[b].ref = h[b].ref /\ g[b].sticky = h[b].sticky
               /\ Deref(g, g[b].topic) = x /\ Deref(g, g[b].rtopic) = Deref(h, h[b].rtopic)
  <1> DEFINE m == h[b]
             own == OwnValue(m)
             s == Strdup(FreeBlock(h, m.topic), b, x)
             k == [m EXCEPT !.topic = s[2]]
             g == [s[1] EXCEPT ![b] = k]
  <1>1. /\ m \in Record /\ own \in Block \cup {NULL}
        /\ Uses(h, b, {m.topic, m.rtopic, own} \ {NULL})
        /\ m.topic = m.rtopic \/ m.topic = own => m.topic = NULL
        /\ m.rtopic = own => m.rtopic = NULL
    BY DEF Whole
  <1>2. /\ s[1] \in Heaps /\ s[2] \in Block \cup {NULL} /\ Deref(s[1], s[2]) = x
        /\ s[1][b] = h[b] /\ Elsewhere(h, s[1], b)
        /\ Uses(s[1], b, {s[2], m.rtopic, own} \ {NULL})
        /\ s[2] = m.rtopic \/ s[2] = own => s[2] = NULL
        /\ \A q \in {m.rtopic, own} : q \in Block => s[1][q] = h[q]
    <2>1. UsesThree(h, b, m.topic, m.rtopic, own)
      BY <1>1 DEF UsesThree
    <2> HIDE DEF own
    <2>2. Replaced(h, b, m.rtopic, own, s, x)
      BY <2>1, TextReplaced
    <2> QED
      BY <2>2 DEF Replaced, UsesThree
  <1>3. b \in Block /\ b \notin Region(b) /\ NULL \notin Block
    BY Regions, Pointers
  <1>4. SetsTopic(h, b, x) = g
    <2>1. SetsTopic(h, b, x) = [s[1] EXCEPT ![b].topic = s[2]]
      BY DEF SetsTopic
    <2> HIDE DEF s
    <2>2. [s[1] EXCEPT ![b].topic = s[2]] = g
      BY <1>2, <1>3 DEF Heaps
    <2> QED
      BY <2>1, <2>2
  <1> HIDE DEF s
  <1>5. /\ k \in Record /\ k.topic = s[2] /\ k.rtopic = m.rtopic /\ k.sticky = m.sticky
        /\ k.ref = m.ref /\ k.typ = m.typ /\ k.enc = m.enc /\ k.union = m.union
        /\ m.rtopic \in Block \cup {NULL}
    <2> HIDE DEF m
    <2> QED
      BY <1>1, <1>2 DEF Record
  <1> HIDE DEF k
  <1>6. /\ g \in Heaps /\ g[b] = k /\ \A q \in Block : q # b => g[q] = s[1][q]
        /\ Uses(g, b, {s[2], m.rtopic, own} \ {NULL})
    <2> HIDE DEF own, m
    <2> QED
      BY <1>2, <1>5, WriteStruct
  <1> HIDE DEF g
  <1>7. OwnValue(k) = own
    BY <1>1, <1>5, OwnValueKept DEF Record
  <1>8. b \notin {s[2], m.rtopic, own}
    <2>1. {s[2], m.rtopic, own} \ {NULL} \subseteq Region(b)
      BY <1>2 DEF Uses
    <2> QED
      BY <1>3, <2>1
  <1>9. \A q \in {m.rtopic, own} : q \in Block => g[q] = h[q]
    BY <1>2, <1>6, <1>8
  <1>10. Whole(g, b)
    <2> HIDE DEF own, m
    <2> QED
      BY <1>1, <1>2, <1>5, <1>6, <1>7 DEF Whole
  <1>11. ASSUME NEW v, Bears(h, b, v) PROVE Bears(g, b, v)
    <2>1. own \in Block => g[own] = h[own]
      BY <1>9
    <2>2. g[b].typ = m.typ /\ g[b].enc = m.enc /\ g[b].union = m.union
      BY <1>5, <1>6
    <2> QED
      BY <1>1, <1>11, <2>1, <2>2, BearsKept
  <1>12. Deref(g, s[2]) = x
    <2>1. s[2] \in Block \cup Optional /\ (s[2] \in Block => g[s[2]] = s[1][s[2]])
      BY <1>2, <1>6, <1>8 DEF Optional
    <2> QED
      BY <1>2, <2>1, DerefKept
  <1>13. Deref(g, m.rtopic) = Deref(h, m.rtopic)
    <2>1. m.rtopic \in Block \cup Optional /\ (m.rtopic \in Block => g[m.rtopic] = h[m.rtopic])
      BY <1>5, <1>9 DEF Optional
    <2> QED
      BY <2>1, DerefKept
  <1>14. Elsewhere(h, g, b)
    BY <1>2, <1>6 DEF Elsewhere
  <1> QED
    BY <1>4, <1>5, <1>6, <1>10, <1>11, <1>12, <1>13, <1>14

LEMMA SetsRtopicIs ==
    ASSUME NEW h \in Heaps, NEW b \in Address, Whole(h, b), NEW x \in Optional
    PROVE  LET g == SetsRtopic(h, b, x)
           IN  /\ g \in Heaps /\ Whole(g, b) /\ Elsewhere(h, g, b)
               /\ \A v : Bears(h, b, v) => Bears(g, b, v)
               /\ g[b].ref = h[b].ref /\ g[b].sticky = h[b].sticky
               /\ Deref(g, g[b].rtopic) = x /\ Deref(g, g[b].topic) = Deref(h, h[b].topic)
  <1> DEFINE m == h[b]
             own == OwnValue(m)
             s == Strdup(FreeBlock(h, m.rtopic), b, x)
             k == [m EXCEPT !.rtopic = s[2]]
             g == [s[1] EXCEPT ![b] = k]
  <1>1. /\ m \in Record /\ own \in Block \cup {NULL}
        /\ Uses(h, b, {m.topic, m.rtopic, own} \ {NULL})
        /\ m.topic = m.rtopic \/ m.topic = own => m.topic = NULL
        /\ m.rtopic = own => m.rtopic = NULL
    BY DEF Whole
  <1>2. /\ s[1] \in Heaps /\ s[2] \in Block \cup {NULL} /\ Deref(s[1], s[2]) = x
        /\ s[1][b] = h[b] /\ Elsewhere(h, s[1], b)
        /\ Uses(s[1], b, {s[2], m.topic, own} \ {NULL})
        /\ s[2] = m.topic \/ s[2] = own => s[2] = NULL
        /\ \A q \in {m.topic, own} : q \in Block => s[1][q] = h[q]
    <2>1. UsesThree(h, b, m.rtopic, m.topic, own)
      BY <1>1 DEF UsesThree
    <2> HIDE DEF own
    <2>2. Replaced(h, b, m.topic, own, s, x)
      BY <2>1, TextReplaced
    <2> QED
      BY <2>2 DEF Replaced, UsesThree
  <1>3. b \in Block /\ b \notin Region(b) /\ NULL \notin Block
    BY Regions, Pointers
  <1>4. SetsRtopic(h, b, x) = g
    <2>1. SetsRtopic(h, b, x) = [s[1] EXCEPT ![b].rtopic = s[2]]
      BY DEF SetsRtopic
    <2> HIDE DEF s
    <2>2. [s[1] EXCEPT ![b].rtopic = s[2]] = g
      BY <1>2, <1>3 DEF Heaps
    <2> QED
      BY <2>1, <2>2
  <1> HIDE DEF s
  <1>5. /\ k \in Record /\ k.rtopic = s[2] /\ k.topic = m.topic /\ k.sticky = m.sticky
        /\ k.ref = m.ref /\ k.typ = m.typ /\ k.enc = m.enc /\ k.union = m.union
        /\ m.topic \in Block \cup {NULL}
    <2> HIDE DEF m
    <2> QED
      BY <1>1, <1>2 DEF Record
  <1> HIDE DEF k
  <1>6. /\ g \in Heaps /\ g[b] = k /\ \A q \in Block : q # b => g[q] = s[1][q]
        /\ Uses(g, b, {s[2], m.topic, own} \ {NULL})
    <2> HIDE DEF own, m
    <2> QED
      BY <1>2, <1>5, WriteStruct
  <1> HIDE DEF g
  <1>7. OwnValue(k) = own
    BY <1>1, <1>5, OwnValueKept DEF Record
  <1>8. b \notin {s[2], m.topic, own}
    <2>1. {s[2], m.topic, own} \ {NULL} \subseteq Region(b)
      BY <1>2 DEF Uses
    <2> QED
      BY <1>3, <2>1
  <1>9. \A q \in {m.topic, own} : q \in Block => g[q] = h[q]
    BY <1>2, <1>6, <1>8
  <1>10. Whole(g, b)
    <2> HIDE DEF own, m
    <2> QED
      BY <1>1, <1>2, <1>5, <1>6, <1>7 DEF Whole
  <1>11. ASSUME NEW v, Bears(h, b, v) PROVE Bears(g, b, v)
    <2>1. own \in Block => g[own] = h[own]
      BY <1>9
    <2>2. g[b].typ = m.typ /\ g[b].enc = m.enc /\ g[b].union = m.union
      BY <1>5, <1>6
    <2> QED
      BY <1>1, <1>11, <2>1, <2>2, BearsKept
  <1>12. Deref(g, s[2]) = x
    <2>1. s[2] \in Block \cup Optional /\ (s[2] \in Block => g[s[2]] = s[1][s[2]])
      BY <1>2, <1>6, <1>8 DEF Optional
    <2> QED
      BY <1>2, <2>1, DerefKept
  <1>13. Deref(g, m.topic) = Deref(h, m.topic)
    <2>1. m.topic \in Block \cup Optional /\ (m.topic \in Block => g[m.topic] = h[m.topic])
      BY <1>5, <1>9 DEF Optional
    <2> QED
      BY <2>1, DerefKept
  <1>14. Elsewhere(h, g, b)
    BY <1>2, <1>6 DEF Elsewhere
  <1> QED
    BY <1>4, <1>5, <1>6, <1>10, <1>11, <1>12, <1>13, <1>14

\* The end of ps_unref_msg
FreesAll(h, b) ==
    FreeBlock(FreeValue(FreeBlock(FreeBlock(h, h[b].topic), h[b].rtopic), b), b)

LEMMA FreesAllIs ==
    ASSUME NEW h \in Heaps, NEW b \in Address, Whole(h, b)
    PROVE  LET g == FreesAll(h, b)
           IN  /\ g \in Heaps /\ g[b] = Garbage /\ \A q \in Region(b) : g[q] = Garbage
               /\ Elsewhere(h, g, b)
  <1> DEFINE m == h[b]
             own == OwnValue(m)
             A == {m.topic, m.rtopic, own} \ {NULL}
             f1 == FreeBlock(h, m.topic)
             f2 == FreeBlock(f1, m.rtopic)
             f3 == FreeValue(f2, b)
             g == [f3 EXCEPT ![b] = Garbage]
  <1>1. /\ m \in Record /\ Uses(h, b, A) /\ A \subseteq Region(b)
        /\ m.topic = m.rtopic \/ m.topic = own => m.topic = NULL
        /\ m.rtopic = own => m.rtopic = NULL
    BY DEF Whole, Uses
  <1>2. b \in Block /\ b \notin Region(b) /\ Region(b) \subseteq Block /\ NULL \notin Block
    BY Regions, Pointers
  <1>3. /\ m.topic \in A \cup {NULL} /\ m.rtopic \in (A \ {m.topic}) \cup {NULL}
        /\ own \in ((A \ {m.topic}) \ {m.rtopic}) \cup {NULL}
        /\ ((A \ {m.topic}) \ {m.rtopic}) \ {own} = {}
    <2> HIDE DEF m, own
    <2> QED
      BY <1>1
  <1>4. FreesAll(h, b) = g
    BY <1>2 DEF FreesAll, FreeBlock
  <1> HIDE DEF A
  <1>5. /\ f1 \in Heaps /\ Uses(f1, b, A \ {m.topic})
        /\ \A q \in Block : q # m.topic => f1[q] = h[q]
    <2> HIDE DEF m
    <2> QED
      BY <1>1, <1>3, FreeBlockFrees
  <1> HIDE DEF f1
  <1>6. /\ f2 \in Heaps /\ Uses(f2, b, (A \ {m.topic}) \ {m.rtopic})
        /\ \A q \in Block : q # m.rtopic => f2[q] = f1[q]
    <2> DEFINE B == A \ {m.topic}
               p == m.rtopic
    <2>1. f1 \in Heaps /\ Uses(f1, b, B) /\ p \in B \cup {NULL}
      BY <1>3, <1>5
    <2> HIDE DEF m, B, p
    <2>2. /\ FreeBlock(f1, p) \in Heaps /\ Uses(FreeBlock(f1, p), b, B \ {p})
          /\ \A q \in Block : q # p => FreeBlock(f1, p)[q] = f1[q]
      BY ONLY <2>1, FreeBlockFrees, b \in Address
    <2> QED
      BY <2>2 DEF B, p
  <1> HIDE DEF f2
  <1>7. b # m.topic /\ b # m.rtopic /\ b # own
    BY <1>1, <1>2, <1>3
  <1>8. f2[b] = m
    BY <1>2, <1>5, <1>6, <1>7
  <1>9. /\ f3 \in Heaps /\ Uses(f3, b, {})
        /\ \A q \in Block : q # b /\ q # own => f3[q] = f2[q]
    <2>1. f2[b] \in Record /\ OwnValue(f2[b]) = own
      BY <1>1, <1>8
    <2> DEFINE C == (A \ {m.topic}) \ {m.rtopic}
    <2>2. /\ Uses(f2, b, C) /\ OwnValue(f2[b]) \in C \cup {NULL}
          /\ C \ {OwnValue(f2[b])} = {}
      BY <1>3, <1>6, <2>1
    <2> HIDE DEF C, own, m
    <2>3. /\ f3 \in Heaps /\ Uses(f3, b, C \ {OwnValue(f2[b])})
          /\ \A q \in Block : q # b /\ q # OwnValue(f2[b]) => f3[q] = f2[q]
      BY <1>6, <2>1, <2>2, FreeValueFrees
    <2> HIDE DEF f3
    <2> QED
      BY <2>1, <2>2, <2>3
  <1> HIDE DEF f3
  <1>10. g \in Heaps /\ g[b] = Garbage /\ \A q \in Block : q # b => g[q] = f3[q]
    BY <1>2, <1>9 DEF Heaps, Contents
  <1> HIDE DEF g
  <1>11. \A q \in Region(b) : g[q] = Garbage
    BY <1>2, <1>9, <1>10 DEF Uses
  <1>12. Elsewhere(h, g, b)
    <2>1. \A q \in {m.topic, m.rtopic, own} : q \in Block => q \in Region(b)
      BY <1>1, <1>2, <1>3
    <2> QED
      BY <1>5, <1>6, <1>9, <1>10, <2>1 DEF Elsewhere
  <1> QED
    BY <1>4, <1>10, <1>11, <1>12

\* A free place for a message
Vacant(h, b) == h[b] = Garbage /\ \A q \in Region(b) : h[q] = Garbage

LEMMA StructWritten ==
    ASSUME NEW h \in Heaps, NEW b \in Address, Vacant(h, b), NEW m \in Record
    PROVE  LET g == [h EXCEPT ![b] = m]
           IN  g \in Heaps /\ g[b] = m /\ Uses(g, b, {}) /\ Elsewhere(h, g, b)
  <1>1. Uses(h, b, {})
    BY DEF Vacant, Uses
  <1>2. LET g == [h EXCEPT ![b] = m]
        IN  /\ g \in Heaps /\ g[b] = m /\ \A q \in Block : q # b => g[q] = h[q]
            /\ Uses(g, b, {})
    BY <1>1, WriteStruct
  <1> QED
    BY <1>2 DEF Elsewhere

\* ps_new_msg up to the value
NewMsg(h, b, m, x) ==
    LET s == Strdup([h EXCEPT ![b] = m], b, x) IN [s[1] EXCEPT ![b].topic = s[2]]

LEMMA NewMsgIs ==
    ASSUME NEW h \in Heaps, NEW b \in Address, Vacant(h, b), NEW m \in Record,
           m.topic = NULL, m.rtopic = NULL, m.union = <<NULL, NULL, NULL>>, NEW x \in Optional
    PROVE  LET g == NewMsg(h, b, m, x)
           IN  /\ g \in Heaps /\ Whole(g, b) /\ Elsewhere(h, g, b)
               /\ g[b].ref = m.ref
               /\ Titled(g, b, [topic |-> x, rtopic |-> NULL, sticky |-> m.sticky])
  <1> DEFINE f == [h EXCEPT ![b] = m]
             g == SetsTopic(f, b, x)
  <1>1. f \in Heaps /\ f[b] = m /\ Uses(f, b, {}) /\ Elsewhere(h, f, b)
    BY StructWritten
  <1>2. OwnValue(m) = NULL
    BY OwnValueIs DEF Record, Typ
  <1> HIDE DEF f
  <1>3. Whole(f, b)
    <2>1. {NULL, NULL, NULL} \ {NULL} = {}
      OBVIOUS
    <2> QED
      BY <1>1, <1>2, <2>1 DEF Whole
  <1>4. NewMsg(h, b, m, x) = g
    <2>1. FreeBlock(f, f[b].topic) = f
      BY <1>1 DEF FreeBlock
    <2> QED
      BY <2>1 DEF NewMsg, SetsTopic, f
  <1>5. /\ g \in Heaps /\ Whole(g, b) /\ Elsewhere(f, g, b)
        /\ g[b].ref = f[b].ref /\ g[b].sticky = f[b].sticky
        /\ Deref(g, g[b].topic) = x /\ Deref(g, g[b].rtopic) = Deref(f, f[b].rtopic)
    BY <1>1, <1>3, SetsTopicIs
  <1> HIDE DEF g
  <1>6. Deref(g, g[b].rtopic) = NULL
    BY <1>1, <1>5, Pointers DEF Optional
  <1>7. Elsewhere(h, g, b)
    BY <1>1, <1>5 DEF Elsewhere
  <1>8. Titled(g, b, [topic |-> x, rtopic |-> NULL, sticky |-> m.sticky])
    BY <1>1, <1>5, <1>6 DEF Titled, Optional
  <1> QED
    BY <1>1, <1>4, <1>5, <1>7, <1>8

LEMMA DupValueIs ==
    ASSUME NEW h \in Heaps, NEW b \in Address, NEW A, Uses(h, b, A), A # Region(b),
           NEW p \in Address, h[p] \in Record, NEW v, Bears(h, p, v)
    PROVE  LET u == DupValue(h, b, h[p])
           IN  /\ u[1] \in Heaps /\ u[2] \in Word
               /\ Owned(v.typ, "free") => Got(h, b, A, u, v.text)
               /\ ~Owned(v.typ, "free") => u[1] = h /\ u[2] = h[p].union[1]
  <1> DEFINE m == h[p]
             u == DupValue(h, b, m)
  <1>1. /\ v.typ \in Typ /\ v.text \in Optional /\ m.typ = v.typ
        /\ v.typ \in {"STR", "BUF", "PTR"} => Deref(h, m.union[1]) = v.text
        /\ v.typ = "ERR" => Deref(h, m.union[2]) = v.text
        /\ "free" # NULL /\ m \in Record
    BY MessageAssumption DEF Bears, Values, Optional
  <1>2. Region(b) \subseteq Block
    BY Regions
  <1> HIDE DEF m
  <1>3. CASE v.typ \in {"STR", "ERR"}
    <2>1. Deref(h, OwnValue(m)) = v.text
      BY <1>1, <1>3, OwnValueIs
    <2>2. u = Strdup(h, b, v.text)
      BY <1>1, <1>3, <2>1 DEF DupValue
    <2>3. Got(h, b, A, Strdup(h, b, v.text), v.text)
      BY <1>1, StrdupGets
    <2> HIDE DEF u
    <2>4. Got(h, b, A, u, v.text)
      BY <2>2, <2>3
    <2>5. u[1] \in Heaps /\ u[2] \in Word
      BY <1>2, <2>4 DEF Got, Word
    <2>6. Owned(v.typ, "free")
      BY <1>3 DEF Owned
    <2> QED
      BY <2>4, <2>5, <2>6 DEF u, m
  <1>4. CASE v.typ = "BUF"
    <2>1. u = Malloc(h, b, v.text)
      BY <1>1, <1>4 DEF DupValue
    <2>2. Got(h, b, A, Malloc(h, b, v.text), v.text)
      BY <1>1, MallocGets
    <2> HIDE DEF u
    <2>3. Got(h, b, A, u, v.text)
      BY <2>1, <2>2
    <2>4. u[1] \in Heaps /\ u[2] \in Word
      BY <1>2, <2>3 DEF Got, Word
    <2>5. Owned(v.typ, "free")
      BY <1>1, <1>4 DEF Owned
    <2> QED
      BY <2>3, <2>4, <2>5 DEF u, m
  <1>5. CASE v.typ \notin {"STR", "ERR", "BUF"}
    <2>1. u = <<h, m.union[1]>>
      BY <1>1, <1>5 DEF DupValue
    <2>2. u[1] = h /\ u[2] = m.union[1]
      BY <2>1
    <2>3. m.union[1] \in Word
      BY <1>1 DEF Record
    <2>4. ~Owned(v.typ, "free")
      BY <1>5 DEF Owned
    <2> HIDE DEF u
    <2> QED
      BY <2>2, <2>3, <2>4 DEF u, m
  <1> QED
    BY <1>3, <1>4, <1>5

\* ps_dup_msg
DupMsg(h, p, b) ==
    LET m == h[p]
        a == [h EXCEPT ![b] = [m EXCEPT !.ref = 1]]
        s == Strdup(a, b, Deref(h, m.topic))
        r == Strdup(s[1], b, Deref(h, m.rtopic))
        u == DupValue(r[1], b, m)
        x == Stored(m.typ, m.union[1], u[2], "free")
    IN  [u[1] EXCEPT ![b] = [@ EXCEPT !.topic = s[2], !.rtopic = r[2], !.union = x]]

LEMMA DupMsgIs ==
    ASSUME NEW h \in Heaps, NEW p \in Address, NEW b \in Address, p # b, Whole(h, p),
           Vacant(h, b), NEW v, Bears(h, p, v), NEW w, Titled(h, p, w)
    PROVE  LET g == DupMsg(h, p, b)
           IN  /\ g \in Heaps /\ Whole(g, b) /\ Elsewhere(h, g, b) /\ g[b].ref = 1
               /\ Bears(g, b, v) /\ Titled(g, b, w)
  <1> DEFINE m == h[p]
             k == [m EXCEPT !.ref = 1]
             a == [h EXCEPT ![b] = k]
             s == Strdup(a, b, Deref(h, m.topic))
             r == Strdup(s[1], b, Deref(h, m.rtopic))
             u == DupValue(r[1], b, m)
             new == [k EXCEPT !.topic = s[2], !.rtopic = r[2],
                              !.union = Stored(m.typ, m.union[1], u[2], "free")]
             g == [u[1] EXCEPT ![b] = new]
             A1 == {s[2]} \ {NULL}
             A2 == {s[2], r[2]} \ {NULL}
             B == A2 \cup (IF Owned(v.typ, "free") THEN {u[2]} \ {NULL} ELSE {})
  <1>1. /\ b \in Block /\ b \notin Region(b) /\ NULL \notin Block /\ Region(b) \subseteq Block
        /\ p \in Block /\ p \notin Region(b) /\ p \in Int /\ Region(p) \subseteq Block
        /\ Region(p) \cap Region(b) = {} /\ b \notin Region(p) /\ "free" # NULL
    BY Regions, Pointers, MessageAssumption
  <1>2. /\ m \in Record /\ w.topic \in Optional /\ w.rtopic \in Optional
        /\ Deref(h, m.topic) = w.topic /\ Deref(h, m.rtopic) = w.rtopic /\ m.sticky = w.sticky
    BY DEF Whole, Titled
  <1>3. /\ v.typ \in Typ /\ v \in Values /\ v.text \in Optional /\ m.typ = v.typ /\ m.enc = v.enc
        /\ v.typ \in {"INT", "DBL", "BOOL", "ERR"} => m.union[1] = v.num
        /\ v.typ = "PTR" => m.union[1] = v.text
    BY DEF Bears, Values, Optional
  <1> HIDE DEF m
  <1>4. /\ k \in Record /\ k.ref = 1 /\ k.sticky = m.sticky /\ k.typ = m.typ /\ k.enc = m.enc
        /\ k.union = m.union
    BY <1>2 DEF Record
  <1> HIDE DEF k
  <1>5. /\ a \in Heaps /\ a[b] = k /\ Uses(a, b, {})
        /\ \A q \in Block : q # b /\ q \notin Region(b) => a[q] = h[q]
    <2>1. a \in Heaps /\ a[b] = k /\ Uses(a, b, {}) /\ Elsewhere(h, a, b)
      BY <1>4, StructWritten
    <2> HIDE DEF a
    <2> QED
      BY <2>1 DEF Elsewhere
  <1> HIDE DEF a
  <1>6. {} # Region(b) /\ A1 # Region(b) /\ A2 # Region(b)
    <2>1. {s[2], s[2]} \ {NULL} # Region(b) /\ {NULL, NULL} \ {NULL} # Region(b)
      BY RoomForValue
    <2>2. {s[2], r[2]} \ {NULL} # Region(b)
      BY RoomForValue
    <2> HIDE DEF s, r
    <2> QED
      BY <2>1, <2>2
  <1>7. Got(a, b, {}, s, w.topic)
    BY <1>2, <1>5, <1>6, StrdupGets
  <1> HIDE DEF s
  <1>8. /\ s[1] \in Heaps /\ s[2] \in Region(b) \cup {NULL} /\ Uses(s[1], b, A1)
        /\ \A q \in Block : q # s[2] => s[1][q] = a[q]
        /\ Deref(s[1], s[2]) = w.topic
    <2>1. {} \cup ({s[2]} \ {NULL}) = A1 /\ (Region(b) \ {}) \cup {NULL} = Region(b) \cup {NULL}
      OBVIOUS
    <2> HIDE DEF A1
    <2> QED
      BY <1>7, <2>1 DEF Got
  <1> HIDE DEF A1
  <1>9. Got(s[1], b, A1, r, w.rtopic)
    BY <1>2, <1>6, <1>8, StrdupGets
  <1> HIDE DEF r
  <1>10. /\ r[1] \in Heaps /\ r[2] \in (Region(b) \ A1) \cup {NULL} /\ Uses(r[1], b, A2)
         /\ \A q \in Block : q # r[2] => r[1][q] = s[1][q]
         /\ Deref(r[1], r[2]) = w.rtopic
    <2>1. A1 \cup ({r[2]} \ {NULL}) = A2
      BY DEF A1
    <2> HIDE DEF A2
    <2> QED
      BY <1>9, <2>1 DEF Got
  <1>11. /\ \A q \in Block : q # b /\ q \notin Region(b) => r[1][q] = h[q]
         /\ r[1][b] = k
    BY <1>1, <1>5, <1>8, <1>10
  <1>12. r[1][p] = m /\ Bears(r[1], p, v)
    <2>1. r[1][p] = h[p] /\ \A q \in Region(p) : r[1][q] = h[q]
      BY <1>1, <1>11
    <2>2. h[p].ref \in Int /\ h[p] = [h[p] EXCEPT !.ref = h[p].ref]
      BY <1>2 DEF Record, m
    <2>3. Bears(r[1], p, v)
      BY <2>1, <2>2, ElsewhereKept
    <2> QED
      BY <2>1, <2>3 DEF m
  <1> HIDE DEF A2
  <1>13. /\ u[1] \in Heaps /\ u[2] \in Word
         /\ Owned(v.typ, "free") => Got(r[1], b, A2, u, v.text)
         /\ ~Owned(v.typ, "free") => u[1] = r[1] /\ u[2] = m.union[1]
    BY <1>2, <1>6, <1>10, <1>12, DupValueIs
  <1> HIDE DEF u
  <1>14. /\ Uses(u[1], b, B)
         /\ Owned(v.typ, "free") => u[2] \in (Region(b) \ A2) \cup {NULL}
                                    /\ Deref(u[1], u[2]) = v.text
         /\ \A q \in Block : q \notin Region(b) \/ q \in A2 => u[1][q] = r[1][q]
    <2>1. CASE Owned(v.typ, "free")
      <3>1. Got(r[1], b, A2, u, v.text) /\ B = A2 \cup ({u[2]} \ {NULL})
        BY <1>13, <2>1
      <3> HIDE DEF B
      <3>2. /\ Uses(u[1], b, B) /\ u[2] \in (Region(b) \ A2) \cup {NULL}
            /\ Deref(u[1], u[2]) = v.text
        BY <3>1 DEF Got
      <3>3. \A q \in Block : q # u[2] => u[1][q] = r[1][q]
        BY <3>1 DEF Got
      <3> QED
        BY <1>1, <3>2, <3>3
    <2>2. CASE ~Owned(v.typ, "free")
      <3>1. u[1] = r[1] /\ B = A2
        BY <1>13, <2>2
      <3> HIDE DEF B
      <3> QED
        BY <1>10, <2>2, <3>1
    <2> QED
      BY <2>1, <2>2
  <1> HIDE DEF B
  <1> DEFINE x == Stored(m.typ, m.union[1], u[2], "free")
  <1>15. x \in Word \X Word \X Word
    <2>1. m.union[1] \in Word /\ m.typ \in Typ
      BY <1>2 DEF Record
    <2> QED
      BY <1>13, <2>1, StoredIsWords
  <1>16. x = Stored(v.typ, v.num, u[2], "free")
    <2>1. CASE v.typ \in {"INT", "DBL", "BOOL", "ERR"}
      BY <1>3, <2>1
    <2>2. CASE v.typ \in {"PTR", "STR"}
      BY <1>3, <2>2, StoredIs
    <2>3. CASE v.typ = "BUF"
      BY <1>3, <2>3, StoredIs
    <2>4. CASE v.typ = "NIL"
      BY <1>3, <2>4, StoredIs
    <2> QED
      BY <1>3, <2>1, <2>2, <2>3, <2>4 DEF Typ
  <1>17. u[1][b] = k
    BY <1>1, <1>11, <1>14
  <1>18. DupMsg(h, p, b) = g
    <2>1. DupMsg(h, p, b) = [u[1] EXCEPT ![b] =
                               [u[1][b] EXCEPT !.topic = s[2], !.rtopic = r[2],
                                  !.union = Stored(m.typ, m.union[1], u[2], "free")]]
      BY DEF DupMsg, u, r, s, a, k, m
    <2> QED
      BY <1>17, <2>1
  <1>19. /\ new \in Record /\ new.ref = 1 /\ new.topic = s[2] /\ new.rtopic = r[2]
         /\ new.sticky = m.sticky /\ new.typ = v.typ /\ new.enc = v.enc /\ new.union = x
    <2>1. s[2] \in Block \cup {NULL} /\ r[2] \in Block \cup {NULL}
      BY <1>1, <1>8, <1>10
    <2> HIDE DEF x
    <2> QED
      BY <1>3, <1>4, <1>15, <2>1 DEF Record, x
  <1> HIDE DEF new, x
  <1>20. /\ g \in Heaps /\ g[b] = new /\ \A q \in Block : q # b => g[q] = u[1][q]
         /\ Uses(g, b, B)
    BY <1>13, <1>14, <1>19, WriteStruct
  <1> HIDE DEF g
  <1>21. Bears(g, b, v) /\ OwnValue(g[b]) = IF Owned(v.typ, "free") THEN u[2] ELSE NULL
    <2>1. v.typ \in {"STR", "BUF", "PTR", "ERR"} => Deref(g, u[2]) = v.text
      <3>1. CASE Owned(v.typ, "free")
        <4>1. u[2] # b /\ Deref(u[1], u[2]) = v.text
          BY <1>1, <1>14, <3>1
        <4> QED
          BY <1>20, <4>1 DEF Deref
      <3>2. CASE v.typ = "PTR"
        <4>1. u[2] = v.text
          BY <1>3, <1>13, <3>2 DEF Owned
        <4> QED
          BY <1>3, <4>1, Pointers
      <3> QED
        BY <1>1, <3>1, <3>2 DEF Owned
    <2>2. v.typ = "PTR" \/ (v.typ = "BUF" /\ "free" = NULL) => u[2] = v.text
      BY <1>1, <1>3, <1>13 DEF Owned
    <2>3. g[b].typ = v.typ /\ g[b].enc = v.enc /\ g[b].union = Stored(v.typ, v.num, u[2], "free")
      BY <1>16, <1>19, <1>20
    <2> QED
      BY <1>3, <2>1, <2>2, <2>3, ValueStored
  <1>22. Whole(g, b)
    <2> DEFINE o == OwnValue(g[b])
    <2>1. o = IF Owned(v.typ, "free") THEN u[2] ELSE NULL
      BY <1>21
    <2>2. o \in (Region(b) \ A2) \cup {NULL} /\ B = A2 \cup ({o} \ {NULL})
      BY <1>14, <2>1 DEF B
    <2>3. {s[2], r[2], o} \ {NULL} = B
      BY <2>2 DEF A2
    <2>4. o \in A2 => o = NULL
      BY <2>2
    <2>5. o \in Block \cup {NULL}
      BY <1>1, <2>2
    <2> HIDE DEF o
    <2>6. /\ s[2] = r[2] \/ s[2] = o => s[2] = NULL
          /\ r[2] = o => r[2] = NULL
      BY <1>10, <2>4 DEF A1, A2
    <2> QED
      BY <1>19, <1>20, <2>3, <2>5, <2>6 DEF Whole, o
  <1>23. Deref(g, s[2]) = w.topic /\ Deref(g, r[2]) = w.rtopic
    <2>1. /\ s[2] \in Block \cup Optional /\ (s[2] \in Block => g[s[2]] = s[1][s[2]])
          /\ r[2] \in Block \cup Optional /\ (r[2] \in Block => g[r[2]] = r[1][r[2]])
      <3>1. /\ s[2] \in Block => s[2] # b /\ s[2] \in A2 /\ s[2] # r[2]
            /\ r[2] \in Block => r[2] # b /\ r[2] \in A2
        BY <1>1, <1>8, <1>10 DEF A1, A2
      <3> QED
        BY <1>1, <1>8, <1>10, <1>14, <1>20, <3>1 DEF Optional
    <2> QED
      BY <1>8, <1>10, <2>1, DerefKept
  <1>24. Titled(g, b, w)
    BY <1>2, <1>19, <1>20, <1>23 DEF Titled
  <1>25. Elsewhere(h, g, b)
    BY <1>11, <1>14, <1>20 DEF Elsewhere
  <1> QED
    BY <1>18, <1>19, <1>20, <1>21, <1>22, <1>24, <1>25

(***************************************************************************)
(* The invariant                                                           *)
(***************************************************************************)

Said == [topic : Optional, rtopic : Optional, sticky : BOOLEAN, value : Values]

Calls == [op : {"none", "new", "count", "free", "uncount"}, msg : Address \cup {NULL},
          value : Values \cup {NULL}]

MessageTypeOK ==
    /\ heap \in Heaps
    /\ held \in [Thread -> [Address -> Nat]]
    /\ call \in [Thread -> Calls]
    /\ stat_live_msg \in Int
    /\ said \in [Address -> Said \cup {NULL}]

\* Thread t is making message b, and has the reference with which it is made.
Making(t, b) == call[t].op \in {"new", "count"} /\ call[t].msg = b

\* Thread t is in ps_new_msg, before the value of message b is set.
NewOf(t, b) == call[t].op = "new" /\ call[t].msg = b

\* The memory of message b is sound, and says what it should once it has a value.
Sound(b) ==
    IF heap[b] = Garbage THEN Vacant(heap, b)
    ELSE /\ Whole(heap, b) /\ said[b] \in Said /\ Titled(heap, b, said[b])
         /\ \A t \in Thread : NewOf(t, b) => call[t].value = said[b].value
         /\ (\A t \in Thread : ~NewOf(t, b)) => Bears(heap, b, said[b].value)

\* A call that makes or frees a message has it to itself.
Exclusive(t) == call[t].op \in {"new", "count", "free"}

Alone(t) ==
    Exclusive(t) =>
        /\ call[t].msg \in Struct
        /\ \A u \in Thread : held[u][call[t].msg] = 0
        /\ \A u \in Thread \ {t} : Exclusive(u) => call[u].msg # call[t].msg

\* The references to message b are counted, and there is a thread to free it when
\* there are none.
Counted(b) ==
    /\ IsFiniteSet(References(b))
    /\ b \notin Struct => References(b) = {}
    /\ b \in Struct => heap[b].ref = Cardinality(References(b))
    /\ b \in Struct /\ References(b) = {} =>
          \E t \in Thread : call[t].op = "free" /\ call[t].msg = b

MessageInv ==
    /\ MessageTypeOK /\ StatsExact
    /\ \A b \in Address : Sound(b) /\ Counted(b)
    /\ \A t \in Thread : Alone(t)

\* The references to message b, one by one
Listed(b) ==
    /\ \A t \in Thread, i \in Nat : <<t, i>> \in References(b) <=>
            i \in 1..held[t][b] \/ (i = 0 /\ Making(t, b))
    /\ \A r \in References(b) : \E t \in Thread, i \in Nat : r = <<t, i>>

LEMMA ReferencesAre == MessageTypeOK => \A b \in Address : Listed(b)
  <1> SUFFICES ASSUME MessageTypeOK, NEW b \in Address PROVE Listed(b)
    OBVIOUS
  <1> DEFINE hand == UNION {{t} \X (1..held[t][b]) : t \in Thread}
             made == InCallOf(b, {"new", "count"}) \X {0}
  <1>1. References(b) = hand \cup made
    BY DEF References
  <1>2. \A t \in Thread : held[t][b] \in Nat
    BY DEF MessageTypeOK
  <1>3. \A r : r \in hand <=> \E t \in Thread : \E i \in 1..held[t][b] : r = <<t, i>>
    OBVIOUS
  <1>4. \A r : r \in made <=>
            \E t \in Thread : Making(t, b) /\ r = <<t, 0>>
    BY DEF InCallOf, Making
  <1> HIDE DEF hand, made
  <1>5. ASSUME NEW t \in Thread, NEW i \in Nat
        PROVE  <<t, i>> \in References(b) <=> i \in 1..held[t][b] \/ (i = 0 /\ Making(t, b))
    <2>1. <<t, i>> \in hand <=> i \in 1..held[t][b]
      BY <1>3
    <2>2. <<t, i>> \in made <=> i = 0 /\ Making(t, b)
      BY <1>4
    <2> QED
      BY <1>1, <2>1, <2>2
  <1>6. ASSUME NEW r \in References(b) PROVE \E t \in Thread, i \in Nat : r = <<t, i>>
    <2>1. CASE r \in hand
      <3>1. PICK t \in Thread : \E i \in 1..held[t][b] : r = <<t, i>>
        BY <1>3, <2>1
      <3>2. PICK i \in 1..held[t][b] : r = <<t, i>>
        BY <3>1
      <3>3. i \in Nat
        BY <1>2
      <3> QED
        BY <3>2, <3>3
    <2>2. CASE r \in made
      BY <1>4, <2>2
    <2> QED
      BY <1>1, <2>1, <2>2
  <1> QED
    BY <1>5, <1>6 DEF Listed

LEMMA ReferencesArePrimed == MessageTypeOK' => (\A b \in Address : Listed(b))'
  BY ReferencesAre, PTL

Unreferred(b) == \A t \in Thread : held[t][b] = 0 /\ ~Making(t, b)

LEMMA NotReferred ==
    MessageTypeOK => \A b \in Address : References(b) = {} <=> Unreferred(b)
  <1> SUFFICES ASSUME MessageTypeOK, NEW b \in Address
               PROVE  References(b) = {} <=> Unreferred(b)
    OBVIOUS
  <1>1. /\ \A t \in Thread, i \in Nat : <<t, i>> \in References(b) <=>
              i \in 1..held[t][b] \/ (i = 0 /\ Making(t, b))
        /\ \A r \in References(b) : \E t \in Thread, i \in Nat : r = <<t, i>>
    BY ReferencesAre DEF Listed
  <1>2. \A t \in Thread : held[t][b] \in Nat
    BY DEF MessageTypeOK
  <1>3. ASSUME References(b) = {}, NEW t \in Thread
        PROVE  held[t][b] = 0 /\ ~Making(t, b)
    <2>1. <<t, 0>> \notin References(b) /\ <<t, 1>> \notin References(b)
      BY <1>3
    <2>2. 1 \notin 1..held[t][b] /\ ~Making(t, b)
      BY <1>1, <2>1
    <2> QED
      BY <1>2, <2>2
  <1>4. ASSUME \A t \in Thread : held[t][b] = 0 /\ ~Making(t, b)
        PROVE  References(b) = {}
    <2> SUFFICES ASSUME NEW r \in References(b) PROVE FALSE
      OBVIOUS
    <2>1. PICK t \in Thread, i \in Nat : r = <<t, i>>
      BY <1>1
    <2>2. i \in 1..held[t][b]
      BY <1>1, <1>4, <2>1
    <2> QED
      BY <1>4, <2>2
  <1> QED
    BY <1>3, <1>4 DEF Unreferred

LEMMA NotReferredPrimed ==
    MessageTypeOK' => (\A b \in Address : References(b) = {} <=> Unreferred(b))'
  BY NotReferred, PTL

LEMMA StructIs ==
    ASSUME NEW b \in Address
    PROVE  (b \in Struct <=> heap[b] # Garbage) /\ (Whole(heap, b) => b \in Struct)
  BY MessageAssumption DEF Struct, Whole

LEMMA MessageInitInv == MessageInit => MessageInv
  <1> SUFFICES ASSUME MessageInit PROVE MessageInv
    OBVIOUS
  <1>1. /\ heap = [b \in Block |-> Garbage] /\ held = [t \in Thread |-> [b \in Address |-> 0]]
        /\ call = [t \in Thread |-> NoCall] /\ stat_live_msg = 0
        /\ said = [b \in Address |-> NULL]
    BY DEF MessageInit
  <1>2. NoCall \in Calls /\ NoCall.op = "none"
    BY DEF NoCall, Calls
  <1>3. MessageTypeOK
    BY <1>1, <1>2 DEF MessageTypeOK, Heaps, Contents
  <1>4. \A t \in Thread : call[t].op = "none" /\ Alone(t)
    BY <1>1, <1>2 DEF Alone, Exclusive
  <1>5. Struct = {}
    <2>1. \A b \in Address : b \in Block
      BY Regions
    <2> QED
      BY <1>1, <2>1 DEF Struct
  <1>6. StatsExact
    <2> DEFINE making == {t \in Thread : call[t].op \in {"new", "count"}}
               freed == {t \in Thread : call[t].op = "uncount"}
    <2>1. making = {} /\ freed = {}
      BY <1>4
    <2>2. Cardinality({}) = 0
      BY FS_EmptySet
    <2>3. StatsExact <=> stat_live_msg = Cardinality(Struct) - Cardinality(making) + Cardinality(freed)
      BY DEF StatsExact
    <2> HIDE DEF making, freed
    <2> QED
      BY <1>1, <1>5, <2>1, <2>2, <2>3
  <1>7. ASSUME NEW b \in Address PROVE Sound(b) /\ Counted(b)
    <2>1. b \in Block /\ Region(b) \subseteq Block
      BY Regions
    <2>2. Sound(b)
      BY <1>1, <2>1 DEF Sound, Vacant
    <2>3. Unreferred(b)
      BY <1>1, <1>4 DEF Unreferred, Making
    <2>4. References(b) = {}
      BY <1>3, <2>3, NotReferred
    <2> QED
      BY <1>5, <2>2, <2>4, FS_EmptySet DEF Counted
  <1> QED
    BY <1>3, <1>4, <1>6, <1>7 DEF MessageInv

(***************************************************************************)
(* The memory after a step                                                 *)
(***************************************************************************)

\* A step on one message leaves the others sound.
LEMMA OthersSound ==
    ASSUME NEW a \in Address, NEW b \in Address, a # b, Sound(a),
           Elsewhere(heap, heap', b), said'[a] = said[a],
           \A t \in Thread : call'[t] = call[t] \/ (~NewOf(t, a) /\ ~NewOf(t, a)')
    PROVE  Sound(a)'
  <1>1. /\ a \in Block /\ a \notin Region(b) /\ Region(a) \subseteq Block /\ b \notin Region(a)
        /\ Region(a) \cap Region(b) = {}
    BY Regions
  <1>2. heap'[a] = heap[a] /\ \A q \in Region(a) : heap'[q] = heap[q]
    BY <1>1 DEF Elsewhere
  <1>3. CASE heap[a] = Garbage
    BY <1>2, <1>3 DEF Sound, Vacant
  <1>4. CASE heap[a] # Garbage
    <2>1. /\ Whole(heap, a) /\ said[a] \in Said /\ Titled(heap, a, said[a])
          /\ \A t \in Thread : NewOf(t, a) => call[t].value = said[a].value
          /\ (\A t \in Thread : ~NewOf(t, a)) => Bears(heap, a, said[a].value)
      BY <1>4 DEF Sound
    <2>2. heap[a].ref \in Int /\ heap'[a] = [heap[a] EXCEPT !.ref = heap[a].ref]
      <3>1. heap[a] \in Record
        BY <2>1 DEF Whole
      <3> QED
        BY <1>2, <3>1 DEF Record
    <2>3. /\ Whole(heap', a) /\ Titled(heap', a, said[a])
          /\ Bears(heap, a, said[a].value) => Bears(heap', a, said[a].value)
      BY <1>2, <2>1, <2>2, ElsewhereKept
    <2>4. \A t \in Thread : (NewOf(t, a)' <=> NewOf(t, a)) /\ (NewOf(t, a) => call'[t] = call[t])
      BY DEF NewOf
    <2> QED
      BY <1>2, <1>4, <2>1, <2>3, <2>4 DEF Sound
  <1> QED
    BY <1>3, <1>4

(***************************************************************************)
(* The steps of a thread on a message                                      *)
(***************************************************************************)

\* No other thread is making or freeing message b.
OffBy(t, b) == \A u \in Thread \ {t} : Exclusive(u) => call[u].msg # b

\* A message in the hands of a thread, one that the thread makes or frees itself,
\* and a place that is free: other threads are off it.
LEMMA OthersOff ==
    ASSUME MessageInv, NEW t \in Thread, NEW b \in Address,
           held[t][b] # 0 \/ b \notin Struct \/ (Exclusive(t) /\ call[t].msg = b)
    PROVE  OffBy(t, b)
  BY DEF MessageInv, Alone, OffBy

\* Thread t makes a step on message b: nothing else is touched.
Touches(t, b) ==
    /\ \A u \in Thread \ {t} : call'[u] = call[u]
    /\ call[t].msg \in {b, NULL} /\ call'[t].msg \in {b, NULL}
    /\ \A a \in Address \ {b} :
          said'[a] = said[a] /\ \A u \in Thread : held'[u][a] = held[u][a]
    /\ Elsewhere(heap, heap', b)

\* After it the thread has the message to itself, if it is in a call that makes or
\* frees it.
AloneOn(t, b) ==
    Exclusive(t) => call[t].msg = b /\ b \in Struct /\ \A u \in Thread : held[u][b] = 0

LEMMA ElsewhereTo ==
    ASSUME NEW b \in Address, NEW a \in Address \ {b}, NEW h, NEW g, Elsewhere(h, g, b)
    PROVE  g[a] = h[a] /\ \A q \in Region(a) : g[q] = h[q]
  <1>1. /\ a \in Block /\ a \notin Region(b) /\ Region(a) \subseteq Block /\ b \notin Region(a)
        /\ Region(a) \cap Region(b) = {}
    BY Regions
  <1> QED
    BY <1>1 DEF Elsewhere

LEMMA CallsAlone ==
    ASSUME NEW t \in Thread, NEW b \in Address, \A u \in Thread : Alone(u), OffBy(t, b),
           Touches(t, b), AloneOn(t, b)'
    PROVE  \A u \in Thread : Alone(u)'
  <1>1. \A a \in Address \ {b} : heap'[a] = heap[a]
    BY ElsewhereTo DEF Touches
  <1>2. \A a \in Address \ {b} : (a \in Struct)' <=> a \in Struct
    BY <1>1 DEF Struct
  <1>3. ASSUME NEW u \in Thread \ {t}, Exclusive(u)'
        PROVE  /\ Exclusive(u) /\ call'[u] = call[u] /\ call[u].msg \in Address \ {b}
               /\ call[u].msg \in Struct /\ \A v \in Thread : held[v][call[u].msg] = 0
               /\ \A v \in Thread \ {u} : Exclusive(v) => call[v].msg # call[u].msg
    <2>1. call'[u] = call[u] /\ Exclusive(u)
      BY <1>3 DEF Touches, Exclusive
    <2> QED
      BY <2>1 DEF Alone, OffBy, Struct
  <1>4. ASSUME NEW u \in Thread \ {t}, Exclusive(u)'
        PROVE  Alone(u)'
    <2>1. call'[u].msg \in Struct'
      BY <1>2, <1>3, <1>4
    <2>2. \A v \in Thread : held'[v][call'[u].msg] = 0
      BY <1>3, <1>4 DEF Touches
    <2>3. ASSUME NEW v \in Thread \ {u}, Exclusive(v)' PROVE call'[v].msg # call'[u].msg
      <3>1. CASE v = t
        BY <1>3, <1>4, <2>3, <3>1 DEF AloneOn
      <3>2. CASE v # t
        BY <1>3, <1>4, <2>3, <3>2
      <3> QED
        BY <3>1, <3>2
    <2> QED
      BY <2>1, <2>2, <2>3 DEF Alone
  <1>5. Alone(t)'
    <2>1. \A u \in Thread \ {t} : Exclusive(u)' => call'[u].msg # b
      BY <1>3
    <2> QED
      BY <2>1 DEF Alone, AloneOn
  <1> QED
    BY <1>4, <1>5 DEF Alone

\* What the memory of message b is before the step and must be after it
Stands(t, b) ==
    /\ Whole(heap, b) /\ said[b] \in Said /\ Titled(heap, b, said[b])
    /\ NewOf(t, b) => call[t].value = said[b].value
    /\ ~NewOf(t, b) => Bears(heap, b, said[b].value)

LEMMA StandsBefore ==
    ASSUME MessageInv, NEW t \in Thread, NEW b \in Address, b \in Struct, OffBy(t, b)
    PROVE  Stands(t, b)
  <1>1. heap[b] # Garbage /\ Sound(b)
    BY DEF MessageInv, Struct
  <1>2. \A u \in Thread \ {t} : ~NewOf(u, b)
    BY DEF OffBy, NewOf, Exclusive
  <1> QED
    BY <1>1, <1>2 DEF Sound, Stands

LEMMA SoundAfter ==
    ASSUME NEW t \in Thread, NEW b \in Address, OffBy(t, b), Touches(t, b), Stands(t, b)'
    PROVE  Sound(b)'
  <1>1. ASSUME NEW u \in Thread \ {t} PROVE ~NewOf(u, b)'
    BY DEF OffBy, Touches, NewOf, Exclusive
  <1>2. heap'[b] # Garbage
    BY MessageAssumption DEF Stands, Whole
  <1> QED
    BY <1>1, <1>2 DEF Sound, Stands

LEMMA OthersStand ==
    ASSUME NEW t \in Thread, NEW b \in Address, NEW a \in Address \ {b}, Sound(a), Touches(t, b)
    PROVE  Sound(a)'
  <1>1. \A u \in Thread : call'[u] = call[u] \/ (~NewOf(u, a) /\ ~NewOf(u, a)')
    <2>1. a # NULL
      BY Regions, Pointers
    <2> QED
      BY <2>1 DEF Touches, NewOf
  <1>2. Elsewhere(heap, heap', b) /\ said'[a] = said[a]
    BY DEF Touches
  <1> QED
    BY <1>1, <1>2, OthersSound

\* References that nobody touches
LEMMA ReferencesSame ==
    ASSUME MessageTypeOK, MessageTypeOK', NEW b \in Address,
           \A t \in Thread : held'[t][b] = held[t][b],
           \A t \in Thread : Making(t, b)' <=> Making(t, b)
    PROVE  References(b)' = References(b)
  <1>1. /\ \A t \in Thread, i \in Nat : <<t, i>> \in References(b) <=>
              i \in 1..held[t][b] \/ (i = 0 /\ Making(t, b))
        /\ \A r \in References(b) : \E t \in Thread, i \in Nat : r = <<t, i>>
    BY ReferencesAre DEF Listed
  <1>2. /\ \A t \in Thread, i \in Nat : <<t, i>> \in References(b)' <=>
              i \in 1..held'[t][b] \/ (i = 0 /\ Making(t, b)')
        /\ \A r \in References(b)' : \E t \in Thread, i \in Nat : r = <<t, i>>
    BY ReferencesArePrimed DEF Listed
  <1>3. \A t \in Thread, i \in Nat : <<t, i>> \in References(b)' <=> <<t, i>> \in References(b)
    BY <1>1, <1>2
  <1>4. ASSUME NEW r \in References(b)' PROVE r \in References(b)
    BY <1>2, <1>3
  <1>5. ASSUME NEW r \in References(b) PROVE r \in References(b)'
    BY <1>1, <1>3
  <1> QED
    BY <1>4, <1>5

LEMMA CountedKept ==
    ASSUME MessageTypeOK, MessageTypeOK', NEW b \in Address, Counted(b),
           heap'[b] = Garbage <=> heap[b] = Garbage,
           heap[b] # Garbage => heap'[b].ref = heap[b].ref,
           \A t \in Thread : held'[t][b] = held[t][b],
           \A t \in Thread : Making(t, b)' <=> Making(t, b),
           \A t \in Thread : (call[t].op = "free" /\ call[t].msg = b)
                                => (call'[t].op = "free" /\ call'[t].msg = b)
    PROVE  Counted(b)'
  <1>1. References(b)' = References(b)
    BY ReferencesSame
  <1>2. (b \in Struct)' <=> b \in Struct
    BY DEF Struct
  <1>3. b \in Struct => heap'[b].ref = heap[b].ref
    BY DEF Struct
  <1> QED
    BY <1>1, <1>2, <1>3 DEF Counted

LEMMA OthersCounted ==
    ASSUME MessageTypeOK, MessageTypeOK', NEW t \in Thread, NEW b \in Address,
           NEW a \in Address \ {b}, Counted(a), Touches(t, b)
    PROVE  Counted(a)'
  <1>1. heap'[a] = heap[a]
    BY ElsewhereTo DEF Touches
  <1>2. \A u \in Thread : held'[u][a] = held[u][a]
    BY DEF Touches
  <1>3. \A u \in Thread : call'[u] = call[u] \/ (call[u].msg # a /\ call'[u].msg # a)
    <2>1. a # NULL
      BY Regions, Pointers
    <2> QED
      BY <2>1 DEF Touches
  <1>4. /\ \A u \in Thread : Making(u, a)' <=> Making(u, a)
        /\ \A u \in Thread : (call[u].op = "free" /\ call[u].msg = a)
                                => (call'[u].op = "free" /\ call'[u].msg = a)
    BY <1>3 DEF Making
  <1> QED
    BY <1>1, <1>2, <1>4, CountedKept

\* A step on message b keeps the invariant if it does so for b.
LEMMA StepOn ==
    ASSUME MessageInv, MessageTypeOK', StatsExact', NEW t \in Thread, NEW b \in Address,
           OffBy(t, b), Touches(t, b), Sound(b)', Counted(b)', AloneOn(t, b)'
    PROVE  MessageInv'
  <1>1. MessageTypeOK /\ \A u \in Thread : Alone(u)
    BY DEF MessageInv
  <1>2. \A u \in Thread : Alone(u)'
    BY <1>1, CallsAlone
  <1>3. ASSUME NEW a \in Address PROVE Sound(a)' /\ Counted(a)'
    <2>1. CASE a = b
      BY <2>1
    <2>2. CASE a # b
      <3>1. Sound(a) /\ Counted(a)
        BY DEF MessageInv
      <3> QED
        BY <1>1, <2>2, <3>1, OthersStand, OthersCounted
    <2> QED
      BY <2>1, <2>2
  <1> QED
    BY <1>2, <1>3 DEF MessageInv

(***************************************************************************)
(* The statistics                                                          *)
(***************************************************************************)

\* The threads that have made a message and not yet counted it, and those that
\* have freed one
Makers == {t \in Thread : call[t].op \in {"new", "count"}}
Freers == {t \in Thread : call[t].op = "uncount"}

Finite == IsFiniteSet(Struct) /\ IsFiniteSet(Makers) /\ IsFiniteSet(Freers)

LEMMA FinitelyMany == MessageTypeOK => Finite
  <1>1. IsFiniteSet(1..(4 * MaxMsg))
    <2>1. 1 \in Int /\ 4 * MaxMsg \in Int
      BY MessageAssumption
    <2> QED
      BY <2>1, FS_Interval
  <1>2. Struct \subseteq 1..(4 * MaxMsg)
    BY Regions DEF Struct, Block
  <1>3. IsFiniteSet(Struct)
    BY <1>1, <1>2, FS_Subset
  <1>4. IsFiniteSet(Makers) /\ IsFiniteSet(Freers)
    BY MessageAssumption, FS_Subset DEF Makers, Freers
  <1> QED
    BY <1>3, <1>4 DEF Finite

\* The numbers that the statistics are made of
Numbers(s, m, f) ==
    /\ s = Cardinality(Struct) /\ m = Cardinality(Makers) /\ f = Cardinality(Freers)
    /\ s \in Int /\ m \in Int /\ f \in Int

SumsUp == \A s, m, f : Numbers(s, m, f) => (StatsExact <=> stat_live_msg = s - m + f)

LEMMA NumbersAre == MessageTypeOK => SumsUp /\ \E s, m, f : Numbers(s, m, f)
  <1> SUFFICES ASSUME Finite PROVE  SumsUp /\ \E s, m, f : Numbers(s, m, f)
    BY FinitelyMany
  <1>1. /\ Cardinality(Struct) \in Int /\ Cardinality(Makers) \in Int
        /\ Cardinality(Freers) \in Int
    BY FS_CardinalityType DEF Finite
  <1>2. StatsExact <=>
            stat_live_msg = Cardinality(Struct) - Cardinality(Makers) + Cardinality(Freers)
    BY DEF StatsExact, Makers, Freers
  <1> QED
    BY <1>1, <1>2 DEF Numbers, SumsUp

LEMMA SumsUpPrimed == MessageTypeOK' => SumsUp'
  BY NumbersAre, PTL

LEMMA CallersAfter ==
    ASSUME NEW t \in Thread, \A u \in Thread \ {t} : call'[u] = call[u]
    PROVE  /\ Makers' = IF call'[t].op \in {"new", "count"} THEN Makers \cup {t} ELSE Makers \ {t}
           /\ Freers' = IF call'[t].op = "uncount" THEN Freers \cup {t} ELSE Freers \ {t}
  BY DEF Makers, Freers

LEMMA StatsKept ==
    ASSUME StatsExact, Struct' = Struct, stat_live_msg' = stat_live_msg,
           \A t \in Thread : /\ call'[t].op \in {"new", "count"} <=> call[t].op \in {"new", "count"}
                             /\ call'[t].op = "uncount" <=> call[t].op = "uncount"
    PROVE  StatsExact'
  <1>1. Makers' = Makers /\ Freers' = Freers
    BY DEF Makers, Freers
  <1> QED
    BY <1>1 DEF StatsExact, Makers, Freers

(***************************************************************************)
(* The setters                                                             *)
(***************************************************************************)

\* The state of message b in the hands of thread t, which is in no call
LEMMA InHands ==
    ASSUME MessageInv, NEW t \in Thread, NEW b \in Address, Idle(t), held[t][b] > 0
    PROVE  /\ b \in Struct /\ OffBy(t, b) /\ Stands(t, b) /\ call[t].msg = NULL
           /\ call[t].op = "none" /\ Bears(heap, b, said[b].value) /\ heap[b].ref \in Int
  <1>1. MessageTypeOK /\ held[t][b] \in Nat /\ held[t][b] # 0
    BY DEF MessageInv, MessageTypeOK
  <1>2. OffBy(t, b)
    BY <1>1, OthersOff
  <1>3. b \in Struct
    <2>1. References(b) # {}
      BY <1>1, NotReferred DEF Unreferred
    <2> QED
      BY <2>1 DEF MessageInv, Counted
  <1>4. Stands(t, b)
    BY <1>2, <1>3, StandsBefore
  <1>5. call[t].msg = NULL /\ call[t].op = "none"
    BY DEF Idle, NoCall
  <1>6. heap[b].ref \in Int
    BY <1>4 DEF Stands, Whole, Record
  <1> QED
    BY <1>2, <1>3, <1>4, <1>5, <1>6 DEF Stands, NewOf

\* A setter changes what message b says to s.
LEMMA Sets ==
    ASSUME MessageInv, NEW t \in Thread, NEW b \in Address, Idle(t), held[t][b] > 0,
           heap' \in Heaps, Whole(heap', b), Elsewhere(heap, heap', b), heap'[b].ref = heap[b].ref,
           NEW s \in Said, Titled(heap', b, s), Bears(heap', b, s.value),
           said' = [said EXCEPT ![b] = s], UNCHANGED <<held, call, stat_live_msg>>
    PROVE  MessageInv'
  <1>1. /\ b \in Struct /\ OffBy(t, b) /\ call[t].msg = NULL /\ call[t].op = "none"
        /\ heap[b] # Garbage
    BY InHands DEF Struct
  <1>2. MessageTypeOK /\ StatsExact /\ Counted(b)
    BY DEF MessageInv
  <1>3. MessageTypeOK' /\ said'[b] = s /\ \A a \in Address \ {b} : said'[a] = said[a]
    BY <1>2 DEF MessageTypeOK
  <1>4. Touches(t, b)
    BY <1>1, <1>3 DEF Touches
  <1>5. Stands(t, b)'
    BY <1>1, <1>3 DEF Stands, NewOf
  <1>6. Sound(b)'
    BY <1>1, <1>4, <1>5, SoundAfter
  <1>7. heap'[b] # Garbage
    BY MessageAssumption DEF Whole
  <1>8. Counted(b)'
    BY <1>1, <1>2, <1>3, <1>7, CountedKept DEF Making
  <1>9. AloneOn(t, b)'
    BY <1>1 DEF AloneOn, Exclusive
  <1>10. \A a \in Address : heap'[a] = Garbage <=> heap[a] = Garbage
    BY <1>1, <1>7, ElsewhereTo
  <1>11. Struct' = Struct
    BY <1>10 DEF Struct
  <1>12. StatsExact'
    BY <1>2, <1>11, StatsKept
  <1> QED
    BY <1>1, <1>3, <1>4, <1>6, <1>8, <1>9, <1>12, StepOn

LEMMA SetTopicInv ==
    ASSUME MessageInv, NEW t \in Thread, NEW b \in Address, NEW x \in Optional, SetTopic(t, b, x)
    PROVE  MessageInv'
  <1>1. /\ Idle(t) /\ held[t][b] > 0 /\ heap' = SetsTopic(heap, b, x)
        /\ said' = [said EXCEPT ![b].topic = x] /\ UNCHANGED <<held, call, stat_live_msg>>
    BY DEF SetTopic, OnlyHolder, SetsTopic
  <1>2. Stands(t, b) /\ Bears(heap, b, said[b].value)
    BY <1>1, InHands
  <1>3. heap \in Heaps /\ said \in [Address -> Said \cup {NULL}]
    BY DEF MessageInv, MessageTypeOK
  <1> DEFINE s == [said[b] EXCEPT !.topic = x]
  <1>4. /\ s \in Said /\ s.topic = x /\ s.rtopic = said[b].rtopic /\ s.sticky = said[b].sticky
        /\ s.value = said[b].value /\ said' = [said EXCEPT ![b] = s]
    BY <1>1, <1>2, <1>3 DEF Stands, Said
  <1> HIDE DEF s
  <1>5. /\ heap' \in Heaps /\ Whole(heap', b) /\ Elsewhere(heap, heap', b)
        /\ Bears(heap', b, said[b].value) /\ heap'[b].ref = heap[b].ref
        /\ heap'[b].sticky = heap[b].sticky /\ Deref(heap', heap'[b].topic) = x
        /\ Deref(heap', heap'[b].rtopic) = Deref(heap, heap[b].rtopic)
    BY <1>1, <1>2, <1>3, SetsTopicIs DEF Stands
  <1>6. Titled(heap', b, s)
    BY <1>2, <1>4, <1>5 DEF Stands, Titled
  <1> QED
    BY <1>1, <1>4, <1>5, <1>6, Sets

LEMMA SetRtopicInv ==
    ASSUME MessageInv, NEW t \in Thread, NEW b \in Address, NEW x \in Optional,
           SetRtopic(t, b, x)
    PROVE  MessageInv'
  <1>1. /\ Idle(t) /\ held[t][b] > 0 /\ heap' = SetsRtopic(heap, b, x)
        /\ said' = [said EXCEPT ![b].rtopic = x] /\ UNCHANGED <<held, call, stat_live_msg>>
    BY DEF SetRtopic, OnlyHolder, SetsRtopic
  <1>2. Stands(t, b) /\ Bears(heap, b, said[b].value)
    BY <1>1, InHands
  <1>3. heap \in Heaps /\ said \in [Address -> Said \cup {NULL}]
    BY DEF MessageInv, MessageTypeOK
  <1> DEFINE s == [said[b] EXCEPT !.rtopic = x]
  <1>4. /\ s \in Said /\ s.rtopic = x /\ s.topic = said[b].topic /\ s.sticky = said[b].sticky
        /\ s.value = said[b].value /\ said' = [said EXCEPT ![b] = s]
    BY <1>1, <1>2, <1>3 DEF Stands, Said
  <1> HIDE DEF s
  <1>5. /\ heap' \in Heaps /\ Whole(heap', b) /\ Elsewhere(heap, heap', b)
        /\ Bears(heap', b, said[b].value) /\ heap'[b].ref = heap[b].ref
        /\ heap'[b].sticky = heap[b].sticky /\ Deref(heap', heap'[b].rtopic) = x
        /\ Deref(heap', heap'[b].topic) = Deref(heap, heap[b].topic)
    BY <1>1, <1>2, <1>3, SetsRtopicIs DEF Stands
  <1>6. Titled(heap', b, s)
    BY <1>2, <1>4, <1>5 DEF Stands, Titled
  <1> QED
    BY <1>1, <1>4, <1>5, <1>6, Sets

\* ps_msg_set_vvalue leaves the topics as they are.
LEMMA TitlesKept ==
    ASSUME NEW h \in Heaps, NEW b \in Address, Whole(h, b), NEW v \in Values,
           NEW s, Titled(h, b, s)
    PROVE  LET g == SetVvalue(h, b, v)
           IN  /\ g \in Heaps /\ Whole(g, b) /\ Bears(g, b, v) /\ Titled(g, b, s)
               /\ Elsewhere(h, g, b) /\ g[b].ref = h[b].ref
  <1> DEFINE g == SetVvalue(h, b, v)
             m == h[b]
  <1>1. /\ g \in Heaps /\ Whole(g, b) /\ Bears(g, b, v)
        /\ g[b].ref = m.ref /\ g[b].sticky = m.sticky
        /\ g[b].topic = m.topic /\ g[b].rtopic = m.rtopic
        /\ \A q \in Block : q # b /\ (q \notin Region(b) \/ q \in {m.topic, m.rtopic})
                              => g[q] = h[q]
    BY SetVvalueSets
  <1>2. /\ m.topic \in Block \cup {NULL} /\ m.rtopic \in Block \cup {NULL}
        /\ m.topic # b /\ m.rtopic # b
    <2>1. m \in Record /\ {m.topic, m.rtopic, OwnValue(m)} \ {NULL} \subseteq Region(b)
      BY DEF Whole, Uses
    <2>2. b \notin Region(b) /\ b # NULL
      BY Regions, Pointers
    <2> HIDE DEF m
    <2> QED
      BY <2>1, <2>2 DEF Record
  <1> HIDE DEF g
  <1>3. Deref(g, m.topic) = Deref(h, m.topic) /\ Deref(g, m.rtopic) = Deref(h, m.rtopic)
    <2>1. /\ m.topic \in Block => g[m.topic] = h[m.topic]
          /\ m.rtopic \in Block => g[m.rtopic] = h[m.rtopic]
      BY <1>1, <1>2
    <2> QED
      BY <1>2, <2>1, DerefKept DEF Optional
  <1>4. Titled(g, b, s)
    BY <1>1, <1>3 DEF Titled
  <1>5. Elsewhere(h, g, b)
    BY <1>1 DEF Elsewhere
  <1> QED
    BY <1>1, <1>4, <1>5 DEF g

LEMMA SetValueInv ==
    ASSUME MessageInv, NEW t \in Thread, NEW b \in Address, NEW v \in Values, SetValue(t, b, v)
    PROVE  MessageInv'
  <1>1. /\ Idle(t) /\ held[t][b] > 0 /\ heap' = SetVvalue(heap, b, v)
        /\ said' = [said EXCEPT ![b].value = v] /\ UNCHANGED <<held, call, stat_live_msg>>
    BY DEF SetValue, OnlyHolder
  <1>2. Stands(t, b)
    BY <1>1, InHands
  <1>3. heap \in Heaps /\ said \in [Address -> Said \cup {NULL}]
    BY DEF MessageInv, MessageTypeOK
  <1> DEFINE s == [said[b] EXCEPT !.value = v]
  <1>4. /\ s \in Said /\ s.rtopic = said[b].rtopic /\ s.topic = said[b].topic
        /\ s.sticky = said[b].sticky /\ s.value = v /\ said' = [said EXCEPT ![b] = s]
    BY <1>1, <1>2, <1>3 DEF Stands, Said
  <1> HIDE DEF s
  <1>5. /\ heap' \in Heaps /\ Whole(heap', b) /\ Elsewhere(heap, heap', b)
        /\ Bears(heap', b, v) /\ Titled(heap', b, said[b]) /\ heap'[b].ref = heap[b].ref
    BY <1>1, <1>2, <1>3, TitlesKept DEF Stands
  <1>6. Titled(heap', b, s)
    BY <1>4, <1>5 DEF Titled
  <1> QED
    BY <1>1, <1>4, <1>5, <1>6, Sets

(***************************************************************************)
(* The statistics after a step                                             *)
(***************************************************************************)

LEMMA StatsMade ==
    ASSUME MessageTypeOK, MessageTypeOK', StatsExact, NEW t \in Thread,
           \A u \in Thread \ {t} : call'[u] = call[u], NEW b, b \notin Struct,
           Struct' = Struct \cup {b}, call[t].op = "none", call'[t].op \in {"new", "count"},
           stat_live_msg' = stat_live_msg
    PROVE  StatsExact'
  <1>1. PICK s, m, f : Numbers(s, m, f)
    BY NumbersAre
  <1>2. Makers' = Makers \cup {t} /\ Freers' = Freers \ {t}
    BY CallersAfter
  <1>3. t \notin Makers /\ t \notin Freers /\ Freers \ {t} = Freers
    BY DEF Makers, Freers
  <1>4. /\ Cardinality(Struct \cup {b}) = Cardinality(Struct) + 1
        /\ Cardinality(Makers \cup {t}) = Cardinality(Makers) + 1
    BY <1>3, FinitelyMany, FS_AddElement DEF Finite
  <1>5. Numbers(s + 1, m + 1, f)'
    <2>1. /\ s = Cardinality(Struct) /\ m = Cardinality(Makers) /\ f = Cardinality(Freers)
          /\ s \in Int /\ m \in Int /\ f \in Int
      BY <1>1 DEF Numbers
    <2>2. /\ Cardinality(Struct') = s + 1 /\ Cardinality(Makers') = m + 1
          /\ Cardinality(Freers') = f
      BY <1>2, <1>3, <1>4, <2>1
    <2> QED
      BY <2>1, <2>2 DEF Numbers
  <1>6. stat_live_msg = s - m + f /\ s \in Int /\ m \in Int /\ f \in Int
    BY <1>1, NumbersAre DEF SumsUp, Numbers
  <1>7. StatsExact' <=> stat_live_msg' = (s + 1) - (m + 1) + f
    BY <1>5, SumsUpPrimed DEF SumsUp
  <1> QED
    BY <1>6, <1>7

LEMMA StatsCounted ==
    ASSUME MessageTypeOK, MessageTypeOK', StatsExact, NEW t \in Thread,
           \A u \in Thread \ {t} : call'[u] = call[u], Struct' = Struct,
           call[t].op \in {"new", "count"}, call'[t].op = "none",
           stat_live_msg' = stat_live_msg + 1
    PROVE  StatsExact'
  <1>1. PICK s, m, f : Numbers(s, m, f)
    BY NumbersAre
  <1>2. Makers' = Makers \ {t} /\ Freers' = Freers \ {t}
    BY CallersAfter
  <1>3. t \in Makers /\ t \notin Freers /\ Freers \ {t} = Freers
    BY DEF Makers, Freers
  <1>4. Cardinality(Makers \ {t}) = Cardinality(Makers) - 1
    BY <1>3, FinitelyMany, FS_RemoveElement DEF Finite
  <1>5. Numbers(s, m - 1, f)'
    <2>1. /\ s = Cardinality(Struct) /\ m = Cardinality(Makers) /\ f = Cardinality(Freers)
          /\ s \in Int /\ m \in Int /\ f \in Int
      BY <1>1 DEF Numbers
    <2>2. /\ Cardinality(Struct') = s /\ Cardinality(Makers') = m - 1
          /\ Cardinality(Freers') = f
      BY <1>2, <1>3, <1>4, <2>1
    <2> QED
      BY <2>1, <2>2 DEF Numbers
  <1>6. stat_live_msg = s - m + f /\ s \in Int /\ m \in Int /\ f \in Int
    BY <1>1, NumbersAre DEF SumsUp, Numbers
  <1>7. StatsExact' <=> stat_live_msg' = s - (m - 1) + f
    BY <1>5, SumsUpPrimed DEF SumsUp
  <1> QED
    BY <1>6, <1>7

LEMMA StatsFreed ==
    ASSUME MessageTypeOK, MessageTypeOK', StatsExact, NEW t \in Thread,
           \A u \in Thread \ {t} : call'[u] = call[u], NEW b \in Struct,
           Struct' = Struct \ {b}, call[t].op = "free", call'[t].op = "uncount",
           stat_live_msg' = stat_live_msg
    PROVE  StatsExact'
  <1>1. PICK s, m, f : Numbers(s, m, f)
    BY NumbersAre
  <1>2. Makers' = Makers \ {t} /\ Freers' = Freers \cup {t}
    BY CallersAfter
  <1>3. t \notin Makers /\ t \notin Freers /\ Makers \ {t} = Makers
    BY DEF Makers, Freers
  <1>4. /\ Cardinality(Struct \ {b}) = Cardinality(Struct) - 1
        /\ Cardinality(Freers \cup {t}) = Cardinality(Freers) + 1
    BY <1>3, FinitelyMany, FS_AddElement, FS_RemoveElement DEF Finite
  <1>5. Numbers(s - 1, m, f + 1)'
    <2>1. /\ s = Cardinality(Struct) /\ m = Cardinality(Makers) /\ f = Cardinality(Freers)
          /\ s \in Int /\ m \in Int /\ f \in Int
      BY <1>1 DEF Numbers
    <2>2. /\ Cardinality(Struct') = s - 1 /\ Cardinality(Makers') = m
          /\ Cardinality(Freers') = f + 1
      BY <1>2, <1>3, <1>4, <2>1
    <2> QED
      BY <2>1, <2>2 DEF Numbers
  <1>6. stat_live_msg = s - m + f /\ s \in Int /\ m \in Int /\ f \in Int
    BY <1>1, NumbersAre DEF SumsUp, Numbers
  <1>7. StatsExact' <=> stat_live_msg' = (s - 1) - m + (f + 1)
    BY <1>5, SumsUpPrimed DEF SumsUp
  <1> QED
    BY <1>6, <1>7

LEMMA StatsUncounted ==
    ASSUME MessageTypeOK, MessageTypeOK', StatsExact, NEW t \in Thread,
           \A u \in Thread \ {t} : call'[u] = call[u], Struct' = Struct,
           call[t].op = "uncount", call'[t].op = "none", stat_live_msg' = stat_live_msg - 1
    PROVE  StatsExact'
  <1>1. PICK s, m, f : Numbers(s, m, f)
    BY NumbersAre
  <1>2. Makers' = Makers \ {t} /\ Freers' = Freers \ {t}
    BY CallersAfter
  <1>3. t \notin Makers /\ t \in Freers /\ Makers \ {t} = Makers
    BY DEF Makers, Freers
  <1>4. Cardinality(Freers \ {t}) = Cardinality(Freers) - 1
    BY <1>3, FinitelyMany, FS_RemoveElement DEF Finite
  <1>5. Numbers(s, m, f - 1)'
    <2>1. /\ s = Cardinality(Struct) /\ m = Cardinality(Makers) /\ f = Cardinality(Freers)
          /\ s \in Int /\ m \in Int /\ f \in Int
      BY <1>1 DEF Numbers
    <2>2. /\ Cardinality(Struct') = s /\ Cardinality(Makers') = m
          /\ Cardinality(Freers') = f - 1
      BY <1>2, <1>3, <1>4, <2>1
    <2> QED
      BY <2>1, <2>2 DEF Numbers
  <1>6. stat_live_msg = s - m + f /\ s \in Int /\ m \in Int /\ f \in Int
    BY <1>1, NumbersAre DEF SumsUp, Numbers
  <1>7. StatsExact' <=> stat_live_msg' = s - m + (f - 1)
    BY <1>5, SumsUpPrimed DEF SumsUp
  <1> QED
    BY <1>6, <1>7

(***************************************************************************)
(* Making and freeing a message                                            *)
(***************************************************************************)

\* The state of message b that thread t is making or freeing
LEMMA InMaking ==
    ASSUME MessageInv, NEW t \in Thread, Exclusive(t), NEW b, b = call[t].msg
    PROVE  /\ b \in Address /\ b \in Struct /\ OffBy(t, b) /\ Stands(t, b)
           /\ \A u \in Thread : held[u][b] = 0
  <1>1. b \in Struct /\ \A u \in Thread : held[u][b] = 0
    BY DEF MessageInv, Alone
  <1>2. b \in Address
    BY <1>1 DEF Struct
  <1> QED
    BY <1>1, <1>2, OthersOff, StandsBefore

LEMMA NewSetsValueInv ==
    ASSUME MessageInv, NEW t \in Thread, NewSetsValue(t)
    PROVE  MessageInv'
  <1>3. PICK b, v : b = call[t].msg /\ v = call[t].value
    OBVIOUS
  <1>1. /\ call[t].op = "new" /\ heap' = SetVvalue(heap, b, v) /\ InCall(t, "count", b)
        /\ UNCHANGED <<held, stat_live_msg, said>>
    BY <1>3 DEF NewSetsValue
  <1>2. Exclusive(t)
    BY <1>1 DEF Exclusive
  <1>4. /\ b \in Address /\ b \in Struct /\ OffBy(t, b) /\ Stands(t, b)
        /\ \A u \in Thread : held[u][b] = 0
    BY <1>2, <1>3, InMaking
  <1>5. MessageTypeOK /\ StatsExact /\ Counted(b)
    BY <1>4 DEF MessageInv
  <1>6. /\ Whole(heap, b) /\ said[b] \in Said /\ Titled(heap, b, said[b])
        /\ v = said[b].value /\ v \in Values
    BY <1>1, <1>3, <1>4 DEF Stands, NewOf, Said
  <1>7. /\ heap' \in Heaps /\ Whole(heap', b) /\ Elsewhere(heap, heap', b)
        /\ Bears(heap', b, v) /\ Titled(heap', b, said[b]) /\ heap'[b].ref = heap[b].ref
    BY <1>1, <1>4, <1>5, <1>6, TitlesKept DEF MessageTypeOK
  <1>8. /\ call'[t] = [op |-> "count", msg |-> b, value |-> NULL] /\ call'[t] \in Calls
        /\ call' \in [Thread -> Calls] /\ \A u \in Thread \ {t} : call'[u] = call[u]
    BY <1>1, <1>4, <1>5 DEF MessageTypeOK, InCall, NoCall, Calls
  <1>9. MessageTypeOK'
    BY <1>1, <1>5, <1>7, <1>8 DEF MessageTypeOK
  <1>10. Touches(t, b)
    BY <1>1, <1>3, <1>7, <1>8 DEF Touches
  <1>11. Stands(t, b)'
    BY <1>1, <1>6, <1>7, <1>8 DEF Stands, NewOf
  <1>12. Sound(b)'
    BY <1>4, <1>10, <1>11, SoundAfter
  <1>13. heap'[b] # Garbage /\ heap[b] # Garbage
    BY <1>4, <1>7, MessageAssumption DEF Whole, Struct
  <1>14. \A u \in Thread : /\ Making(u, b)' <=> Making(u, b)
                           /\ call'[u].op = "free" <=> call[u].op = "free"
                           /\ call'[u].op = "uncount" <=> call[u].op = "uncount"
                           /\ call'[u].op \in {"new", "count"} <=> call[u].op \in {"new", "count"}
                           /\ call'[u].op = "free" => call'[u] = call[u]
    BY <1>1, <1>3, <1>8 DEF Making
  <1>15. Counted(b)'
    BY <1>1, <1>4, <1>5, <1>7, <1>9, <1>13, <1>14, CountedKept
  <1>16. AloneOn(t, b)'
    BY <1>1, <1>4, <1>8, <1>13 DEF AloneOn, Struct
  <1>17. \A a \in Address : heap'[a] = Garbage <=> heap[a] = Garbage
    BY <1>4, <1>7, <1>13, ElsewhereTo
  <1>18. Struct' = Struct
    BY <1>17 DEF Struct
  <1>19. StatsExact'
    BY <1>1, <1>5, <1>14, <1>18, StatsKept
  <1> QED
    BY <1>4, <1>9, <1>10, <1>12, <1>15, <1>16, <1>19, StepOn

\* A message has just the one reference with which it is made, or the first one in
\* the hands of its maker.
LEMMA OneReference ==
    ASSUME MessageTypeOK, NEW t \in Thread, NEW b \in Address, NEW i \in {0, 1},
           \A u \in Thread \ {t} : held[u][b] = 0 /\ ~Making(u, b),
           held[t][b] = i, Making(t, b) <=> i = 0
    PROVE  References(b) = {<<t, i>>}
  <1>1. /\ \A u \in Thread, j \in Nat : <<u, j>> \in References(b) <=>
              j \in 1..held[u][b] \/ (j = 0 /\ Making(u, b))
        /\ \A r \in References(b) : \E u \in Thread, j \in Nat : r = <<u, j>>
    BY ReferencesAre DEF Listed
  <1>2. <<t, i>> \in References(b)
    BY <1>1
  <1>3. ASSUME NEW r \in References(b) PROVE r = <<t, i>>
    <2>1. PICK u \in Thread, j \in Nat : r = <<u, j>>
      BY <1>1
    <2>2. j \in 1..held[u][b] \/ (j = 0 /\ Making(u, b))
      BY <1>1, <2>1
    <2>3. u = t
      BY <2>2
    <2>4. j = i
      BY <2>2, <2>3
    <2> QED
      BY <2>1, <2>3, <2>4
  <1> QED
    BY <1>2, <1>3

Single(t, b, i) ==
    /\ \A u \in Thread \ {t} : held[u][b] = 0 /\ ~Making(u, b)
    /\ held[t][b] = i /\ (Making(t, b) <=> i = 0)

CountsSingle ==
    \A t \in Thread, b \in Address, i \in {0, 1} : Single(t, b, i) => References(b) = {<<t, i>>}

LEMMA SingleCounts == MessageTypeOK => CountsSingle
  BY OneReference DEF CountsSingle, Single

LEMMA SingleCountsPrimed == MessageTypeOK' => CountsSingle'
  BY SingleCounts, PTL

LEMMA CountedSingle ==
    ASSUME MessageTypeOK', NEW t \in Thread, NEW b \in Address, NEW i \in {0, 1},
           Single(t, b, i)', (b \in Struct)', heap'[b].ref = 1
    PROVE  Counted(b)'
  <1>1. References(b)' = {<<t, i>>}
    BY SingleCountsPrimed DEF CountsSingle
  <1>2. IsFiniteSet({<<t, i>>}) /\ Cardinality({<<t, i>>}) = 1 /\ {<<t, i>>} # {}
    BY FS_Singleton
  <1> QED
    BY <1>1, <1>2 DEF Counted

LEMMA CountsInv ==
    ASSUME MessageInv, NEW t \in Thread, Counts(t)
    PROVE  MessageInv'
  <1>0. PICK b : b = call[t].msg
    OBVIOUS
  <1>1. /\ call[t].op = "count" /\ stat_live_msg' = stat_live_msg + 1
        /\ held' = [held EXCEPT ![t][b] = 1] /\ call' = [call EXCEPT ![t] = NoCall]
        /\ heap' = heap /\ said' = said
    BY <1>0 DEF Counts
  <1>2. Exclusive(t) /\ b = call[t].msg
    BY <1>0, <1>1 DEF Exclusive
  <1>3. /\ b \in Address /\ b \in Struct /\ OffBy(t, b) /\ Stands(t, b)
        /\ \A u \in Thread : held[u][b] = 0
    BY <1>2, InMaking
  <1>4. MessageTypeOK /\ StatsExact /\ Counted(b)
    BY <1>3 DEF MessageInv
  <1>5. NoCall = [op |-> "none", msg |-> NULL, value |-> NULL] /\ NoCall \in Calls
    BY DEF NoCall, Calls
  <1>6. /\ call'[t] = NoCall /\ call' \in [Thread -> Calls]
        /\ \A u \in Thread \ {t} : call'[u] = call[u]
    BY <1>1, <1>4, <1>5 DEF MessageTypeOK
  <1>7. /\ held'[t][b] = 1 /\ held' \in [Thread -> [Address -> Nat]]
        /\ \A u \in Thread \ {t} : held'[u] = held[u]
        /\ \A a \in Address \ {b} : held'[t][a] = held[t][a]
    BY <1>1, <1>3, <1>4 DEF MessageTypeOK
  <1>8. MessageTypeOK'
    BY <1>1, <1>4, <1>6, <1>7 DEF MessageTypeOK
  <1>9. Touches(t, b)
    BY <1>1, <1>2, <1>5, <1>6, <1>7 DEF Touches, Elsewhere
  <1>10. Stands(t, b)'
    BY <1>1, <1>3, <1>5, <1>6 DEF Stands, NewOf
  <1>11. Sound(b)'
    BY <1>3, <1>9, <1>10, SoundAfter
  <1>12. \A u \in Thread \ {t} : ~Making(u, b) /\ ~Making(u, b)'
    BY <1>3, <1>6 DEF OffBy, Making, Exclusive
  <1>13. heap[b].ref = 1
    <2>1. Single(t, b, 0)
      BY <1>1, <1>2, <1>3, <1>12 DEF Single, Making
    <2>2. References(b) = {<<t, 0>>}
      BY <1>3, <1>4, <2>1, SingleCounts DEF CountsSingle
    <2>3. Cardinality({<<t, 0>>}) = 1
      BY FS_Singleton
    <2> QED
      BY <1>3, <1>4, <2>2, <2>3 DEF Counted
  <1>14. Single(t, b, 1)'
    BY <1>3, <1>5, <1>6, <1>7, <1>12 DEF Single, Making
  <1>15. (b \in Struct)' /\ Struct' = Struct
    BY <1>1, <1>3 DEF Struct
  <1>16. Counted(b)'
    BY <1>1, <1>3, <1>8, <1>13, <1>14, <1>15, CountedSingle
  <1>17. AloneOn(t, b)'
    BY <1>5, <1>6 DEF AloneOn, Exclusive
  <1>18. StatsExact'
    BY <1>1, <1>4, <1>5, <1>6, <1>8, <1>15, StatsCounted
  <1> QED
    BY <1>3, <1>8, <1>9, <1>11, <1>16, <1>17, <1>18, StepOn

(***************************************************************************)
(* Sharing a message                                                       *)
(***************************************************************************)

LEMMA ReferenceMore ==
    ASSUME MessageTypeOK, MessageTypeOK', NEW u \in Thread, NEW b \in Address, NEW k,
           k = held[u][b], held'[u][b] = k + 1,
           \A t \in Thread \ {u} : held'[t][b] = held[t][b],
           \A t \in Thread : Making(t, b)' <=> Making(t, b)
    PROVE  References(b)' = References(b) \cup {<<u, k + 1>>} /\ <<u, k + 1>> \notin References(b)
  <1>1. /\ \A t \in Thread, i \in Nat : <<t, i>> \in References(b) <=>
              i \in 1..held[t][b] \/ (i = 0 /\ Making(t, b))
        /\ \A r \in References(b) : \E t \in Thread, i \in Nat : r = <<t, i>>
    BY ReferencesAre DEF Listed
  <1>2. /\ \A t \in Thread, i \in Nat : <<t, i>> \in References(b)' <=>
              i \in 1..held'[t][b] \/ (i = 0 /\ Making(t, b)')
        /\ \A r \in References(b)' : \E t \in Thread, i \in Nat : r = <<t, i>>
    BY ReferencesArePrimed DEF Listed
  <1>3. k \in Nat /\ 1..(k + 1) = 1..k \cup {k + 1} /\ k + 1 \notin 1..k /\ k + 1 # 0
    <2>1. k \in Nat
      BY DEF MessageTypeOK
    <2> QED
      BY <2>1
  <1>4. \A t \in Thread, i \in Nat : <<t, i>> \in References(b)' <=>
              <<t, i>> \in References(b) \/ <<t, i>> = <<u, k + 1>>
    <2>1. ASSUME NEW t \in Thread, NEW i \in Nat
          PROVE  i \in 1..held'[t][b] <=> i \in 1..held[t][b] \/ (t = u /\ i = k + 1)
      <3>1. CASE t = u
        BY <1>3, <3>1
      <3>2. CASE t # u
        BY <3>2
      <3> QED
        BY <3>1, <3>2
    <2> QED
      BY <1>1, <1>2, <2>1
  <1>5. <<u, k + 1>> \notin References(b) /\ <<u, k + 1>> \in References(b)'
    BY <1>1, <1>3, <1>4
  <1>6. ASSUME NEW r \in References(b)' PROVE r \in References(b) \cup {<<u, k + 1>>}
    BY <1>2, <1>4
  <1>7. ASSUME NEW r \in References(b) PROVE r \in References(b)'
    BY <1>1, <1>4
  <1> QED
    BY <1>5, <1>6, <1>7

LEMMA ReferenceLess ==
    ASSUME MessageTypeOK, MessageTypeOK', NEW u \in Thread, NEW b \in Address, NEW k,
           k = held[u][b], k > 0, held'[u][b] = k - 1,
           \A t \in Thread \ {u} : held'[t][b] = held[t][b],
           \A t \in Thread : Making(t, b)' <=> Making(t, b)
    PROVE  References(b)' = References(b) \ {<<u, k>>} /\ <<u, k>> \in References(b)
  <1>1. /\ \A t \in Thread, i \in Nat : <<t, i>> \in References(b) <=>
              i \in 1..held[t][b] \/ (i = 0 /\ Making(t, b))
        /\ \A r \in References(b) : \E t \in Thread, i \in Nat : r = <<t, i>>
    BY ReferencesAre DEF Listed
  <1>2. /\ \A t \in Thread, i \in Nat : <<t, i>> \in References(b)' <=>
              i \in 1..held'[t][b] \/ (i = 0 /\ Making(t, b)')
        /\ \A r \in References(b)' : \E t \in Thread, i \in Nat : r = <<t, i>>
    BY ReferencesArePrimed DEF Listed
  <1>3. k \in Nat /\ 1..(k - 1) = (1..k) \ {k} /\ k \in 1..k /\ k # 0
    <2>1. k \in Nat
      BY DEF MessageTypeOK
    <2> QED
      BY <2>1
  <1>4. \A t \in Thread, i \in Nat : <<t, i>> \in References(b)' <=>
              <<t, i>> \in References(b) /\ <<t, i>> # <<u, k>>
    <2>1. ASSUME NEW t \in Thread, NEW i \in Nat
          PROVE  i \in 1..held'[t][b] <=> i \in 1..held[t][b] /\ ~(t = u /\ i = k)
      <3>1. CASE t = u
        BY <1>3, <3>1
      <3>2. CASE t # u
        BY <3>2
      <3> QED
        BY <3>1, <3>2
    <2> QED
      BY <1>1, <1>2, <1>3, <2>1
  <1>5. <<u, k>> \in References(b) /\ <<u, k>> \notin References(b)'
    BY <1>1, <1>3, <1>4
  <1>6. ASSUME NEW r \in References(b)' PROVE r \in References(b)
    BY <1>2, <1>4
  <1>7. ASSUME NEW r \in References(b) \ {<<u, k>>} PROVE r \in References(b)'
    BY <1>1, <1>4
  <1> QED
    BY <1>5, <1>6, <1>7

\* Only the reference count of message b changes.
LEMMA RecountKeeps ==
    ASSUME MessageTypeOK, NEW b \in Address, Whole(heap, b), NEW c \in Int,
           heap' = [heap EXCEPT ![b].ref = c]
    PROVE  /\ heap' \in Heaps /\ Whole(heap', b) /\ Elsewhere(heap, heap', b) /\ heap'[b].ref = c
           /\ \A v : Bears(heap, b, v) => Bears(heap', b, v)
           /\ \A s : Titled(heap, b, s) => Titled(heap', b, s)
           /\ Struct' = Struct
  <1>1. /\ heap \in Heaps /\ heap[b] \in Record /\ b \in Block
        /\ b \notin Region(b) /\ Region(b) \subseteq Block
    BY Regions DEF MessageTypeOK, Whole
  <1>2. heap' = [heap EXCEPT ![b] = [heap[b] EXCEPT !.ref = c]]
    BY <1>1 DEF Heaps
  <1>3. [heap[b] EXCEPT !.ref = c] \in Record /\ [heap[b] EXCEPT !.ref = c].ref = c
    BY <1>1 DEF Record
  <1>4. /\ heap' \in Heaps /\ heap'[b] = [heap[b] EXCEPT !.ref = c]
        /\ \A q \in Block \ {b} : heap'[q] = heap[q]
    BY <1>1, <1>2, <1>3 DEF Heaps, Contents
  <1>5. \A q \in Region(b) : heap'[q] = heap[q]
    BY <1>1, <1>4
  <1>6. /\ Whole(heap', b)
        /\ \A v : Bears(heap, b, v) => Bears(heap', b, v)
        /\ \A s : Titled(heap, b, s) => Titled(heap', b, s)
    <2>1. /\ Whole(heap, b) /\ heap'[b] = [heap[b] EXCEPT !.ref = c]
          /\ \A q \in Region(b) : heap'[q] = heap[q]
      BY <1>4, <1>5
    <2>2. PICK h, g : h = heap /\ g = heap'
      OBVIOUS
    <2>3. Whole(h, b) /\ g[b] = [h[b] EXCEPT !.ref = c] /\ \A q \in Region(b) : g[q] = h[q]
      BY <2>1, <2>2
    <2>4. /\ Whole(g, b)
          /\ \A v : Bears(h, b, v) => Bears(g, b, v)
          /\ \A s : Titled(h, b, s) => Titled(g, b, s)
      BY ONLY <2>3, b \in Address, c \in Int, ElsewhereKept
    <2> QED
      BY <2>2, <2>4
  <1>7. Elsewhere(heap, heap', b)
    BY <1>4 DEF Elsewhere
  <1>8. \A a \in Address : heap'[a] = Garbage <=> heap[a] = Garbage
    <2>1. heap'[b] # Garbage /\ heap[b] # Garbage
      BY <1>1, <1>3, <1>4, MessageAssumption
    <2> QED
      BY <1>7, <2>1, ElsewhereTo
  <1>9. Struct' = Struct
    BY <1>8 DEF Struct
  <1> QED
    BY <1>3, <1>4, <1>6, <1>7, <1>9

LEMMA RefInv ==
    ASSUME MessageInv, NEW t \in Thread, NEW u \in Thread, NEW b \in Address, Ref(t, u, b)
    PROVE  MessageInv'
  <1>1. /\ Idle(t) /\ held[t][b] > 0 /\ heap' = [heap EXCEPT ![b].ref = @ + 1]
        /\ held' = [held EXCEPT ![u][b] = @ + 1] /\ UNCHANGED <<call, stat_live_msg, said>>
    BY DEF Ref
  <1>2. /\ b \in Struct /\ OffBy(t, b) /\ Stands(t, b) /\ call[t].msg = NULL
        /\ call[t].op = "none" /\ Bears(heap, b, said[b].value) /\ heap[b].ref \in Int
    BY <1>1, InHands
  <1>3. MessageTypeOK /\ StatsExact /\ Counted(b)
    BY DEF MessageInv
  <1>4. PICK c, k : c = heap[b].ref + 1 /\ k = held[u][b]
    OBVIOUS
  <1>5. heap' = [heap EXCEPT ![b].ref = c] /\ c \in Int /\ k \in Nat
    BY <1>1, <1>2, <1>3, <1>4 DEF MessageTypeOK
  <1>6. Whole(heap, b) /\ said[b] \in Said /\ Titled(heap, b, said[b])
    BY <1>2 DEF Stands
  <1>7. /\ heap' \in Heaps /\ Whole(heap', b) /\ Elsewhere(heap, heap', b) /\ heap'[b].ref = c
        /\ Bears(heap', b, said[b].value) /\ Titled(heap', b, said[b]) /\ Struct' = Struct
    BY <1>2, <1>3, <1>5, <1>6, RecountKeeps
  <1>8. /\ held'[u][b] = k + 1 /\ held' \in [Thread -> [Address -> Nat]]
        /\ \A v \in Thread \ {u} : held'[v] = held[v]
        /\ \A a \in Address \ {b} : held'[u][a] = held[u][a]
    BY <1>1, <1>3, <1>4, <1>5 DEF MessageTypeOK
  <1>9. MessageTypeOK'
    BY <1>1, <1>3, <1>7, <1>8 DEF MessageTypeOK
  <1>10. Touches(t, b)
    BY <1>1, <1>2, <1>7, <1>8 DEF Touches
  <1>11. Stands(t, b)'
    BY <1>1, <1>2, <1>6, <1>7 DEF Stands, NewOf
  <1>12. Sound(b)'
    BY <1>2, <1>10, <1>11, SoundAfter
  <1>13. References(b)' = References(b) \cup {<<u, k + 1>>} /\ <<u, k + 1>> \notin References(b)
    BY <1>1, <1>3, <1>4, <1>8, <1>9, ReferenceMore DEF Making
  <1>14. Counted(b)'
    <2>1. IsFiniteSet(References(b)) /\ heap[b].ref = Cardinality(References(b))
      BY <1>2, <1>3 DEF Counted
    <2>2. /\ IsFiniteSet(References(b) \cup {<<u, k + 1>>})
          /\ Cardinality(References(b) \cup {<<u, k + 1>>}) = Cardinality(References(b)) + 1
      BY <1>13, <2>1, FS_AddElement
    <2>3. /\ IsFiniteSet(References(b)') /\ heap'[b].ref = Cardinality(References(b)')
          /\ References(b)' # {} /\ b \in Struct'
      BY <1>2, <1>4, <1>7, <1>13, <2>1, <2>2
    <2> QED
      BY <2>3 DEF Counted
  <1>15. AloneOn(t, b)'
    BY <1>1, <1>2 DEF AloneOn, Exclusive
  <1>16. StatsExact'
    BY <1>1, <1>3, <1>7, StatsKept
  <1> QED
    BY <1>2, <1>9, <1>10, <1>12, <1>14, <1>15, <1>16, StepOn

LEMMA UnrefDropsInv ==
    ASSUME MessageInv, NEW t \in Thread, NEW b \in Address, UnrefDrops(t, b)
    PROVE  MessageInv'
  <1>1. /\ Idle(t) /\ held[t][b] > 0 /\ heap' = [heap EXCEPT ![b].ref = @ - 1]
        /\ held' = [held EXCEPT ![t][b] = @ - 1] /\ UNCHANGED <<stat_live_msg, said>>
        /\ heap[b].ref = 1 => InCall(t, "free", b)
        /\ heap[b].ref # 1 => call' = call
    BY DEF UnrefDrops
  <1>2. /\ b \in Struct /\ OffBy(t, b) /\ Stands(t, b) /\ call[t].msg = NULL
        /\ call[t].op = "none" /\ Bears(heap, b, said[b].value) /\ heap[b].ref \in Int
    BY <1>1, InHands
  <1>3. MessageTypeOK /\ StatsExact /\ Counted(b)
    BY DEF MessageInv
  <1>4. PICK c, k : c = heap[b].ref - 1 /\ k = held[t][b]
    OBVIOUS
  <1>5. heap' = [heap EXCEPT ![b].ref = c] /\ c \in Int /\ k \in Nat /\ k > 0
    BY <1>1, <1>2, <1>3, <1>4 DEF MessageTypeOK
  <1>6. Whole(heap, b) /\ said[b] \in Said /\ Titled(heap, b, said[b])
    BY <1>2 DEF Stands
  <1>7. /\ heap' \in Heaps /\ Whole(heap', b) /\ Elsewhere(heap, heap', b) /\ heap'[b].ref = c
        /\ Bears(heap', b, said[b].value) /\ Titled(heap', b, said[b]) /\ Struct' = Struct
    BY <1>2, <1>3, <1>5, <1>6, RecountKeeps
  <1>8. /\ held'[t][b] = k - 1 /\ held' \in [Thread -> [Address -> Nat]]
        /\ \A v \in Thread \ {t} : held'[v] = held[v]
        /\ \A a \in Address \ {b} : held'[t][a] = held[t][a]
    BY <1>1, <1>3, <1>4, <1>5 DEF MessageTypeOK
  <1>9. /\ call' \in [Thread -> Calls] /\ \A u \in Thread \ {t} : call'[u] = call[u]
        /\ call'[t].op = (IF c = 0 THEN "free" ELSE "none")
        /\ call'[t].msg = (IF c = 0 THEN b ELSE NULL)
    <2>1. CASE c = 0
      <3>1. InCall(t, "free", b)
        BY <1>1, <1>2, <1>4, <2>1
      <3>2. /\ call' \in [Thread -> Calls] /\ \A u \in Thread \ {t} : call'[u] = call[u]
            /\ call'[t].op = "free" /\ call'[t].msg = b
        BY <1>3, <3>1 DEF MessageTypeOK, InCall, NoCall, Calls
      <3> QED
        BY <2>1, <3>2
    <2>2. CASE c # 0
      BY <1>1, <1>2, <1>3, <1>4, <2>2 DEF MessageTypeOK
    <2> QED
      BY <2>1, <2>2
  <1>10. MessageTypeOK'
    BY <1>1, <1>3, <1>7, <1>8, <1>9 DEF MessageTypeOK
  <1>11. Touches(t, b)
    BY <1>1, <1>2, <1>7, <1>8, <1>9 DEF Touches
  <1>12. Stands(t, b)'
    BY <1>1, <1>2, <1>6, <1>7, <1>9 DEF Stands, NewOf
  <1>13. Sound(b)'
    BY <1>2, <1>11, <1>12, SoundAfter
  <1>14. \A u \in Thread : Making(u, b)' <=> Making(u, b)
    BY <1>2, <1>9 DEF Making
  <1>15. References(b)' = References(b) \ {<<t, k>>} /\ <<t, k>> \in References(b)
    BY <1>3, <1>4, <1>5, <1>8, <1>10, <1>14, ReferenceLess
  <1>16. /\ IsFiniteSet(References(b)') /\ c = Cardinality(References(b)')
         /\ References(b)' = {} <=> c = 0
    <2>1. IsFiniteSet(References(b)) /\ heap[b].ref = Cardinality(References(b))
      BY <1>2, <1>3 DEF Counted
    <2>2. /\ IsFiniteSet(References(b) \ {<<t, k>>})
          /\ Cardinality(References(b) \ {<<t, k>>}) = Cardinality(References(b)) - 1
      BY <1>15, <2>1, FS_RemoveElement
    <2>3. IsFiniteSet(References(b)') /\ c = Cardinality(References(b)')
      BY <1>4, <1>15, <2>1, <2>2
    <2> QED
      BY <2>3, FS_EmptySet
  <1>17. Counted(b)'
    <2>1. References(b)' = {} => call'[t].op = "free" /\ call'[t].msg = b
      BY <1>9, <1>16
    <2> QED
      BY <1>2, <1>7, <1>16, <2>1 DEF Counted
  <1>18. AloneOn(t, b)'
    <2>1. CASE c = 0
      <3>1. Unreferred(b)'
        BY <1>10, <1>16, <2>1, NotReferredPrimed
      <3> QED
        BY <1>2, <1>7, <1>9, <2>1, <3>1 DEF AloneOn, Unreferred
    <2>2. CASE c # 0
      BY <1>9, <2>2 DEF AloneOn, Exclusive
    <2> QED
      BY <2>1, <2>2
  <1>19. StatsExact'
    <2>1. \A u \in Thread :
            /\ call'[u].op \in {"new", "count"} <=> call[u].op \in {"new", "count"}
            /\ call'[u].op = "uncount" <=> call[u].op = "uncount"
      BY <1>2, <1>9
    <2> QED
      BY <1>1, <1>3, <1>7, <2>1, StatsKept
  <1> QED
    BY <1>2, <1>10, <1>11, <1>13, <1>17, <1>18, <1>19, StepOn

LEMMA UnrefFreesInv ==
    ASSUME MessageInv, NEW t \in Thread, UnrefFrees(t)
    PROVE  MessageInv'
  <1>1. PICK b : b = call[t].msg
    OBVIOUS
  <1>2. /\ call[t].op = "free" /\ heap' = FreesAll(heap, b) /\ said' = [said EXCEPT ![b] = NULL]
        /\ InCall(t, "uncount", NULL) /\ UNCHANGED <<held, stat_live_msg>>
    BY <1>1 DEF UnrefFrees, FreesAll
  <1>3. Exclusive(t)
    BY <1>2 DEF Exclusive
  <1>4. /\ b \in Address /\ b \in Struct /\ OffBy(t, b) /\ Stands(t, b)
        /\ \A u \in Thread : held[u][b] = 0
    BY <1>1, <1>3, InMaking
  <1>5. MessageTypeOK /\ StatsExact
    BY DEF MessageInv
  <1>6. /\ heap' \in Heaps /\ heap'[b] = Garbage /\ \A q \in Region(b) : heap'[q] = Garbage
        /\ Elsewhere(heap, heap', b)
    BY <1>2, <1>4, <1>5, FreesAllIs DEF MessageTypeOK, Stands
  <1>7. /\ call'[t] = [op |-> "uncount", msg |-> NULL, value |-> NULL]
        /\ call' \in [Thread -> Calls] /\ \A u \in Thread \ {t} : call'[u] = call[u]
    BY <1>2, <1>5 DEF MessageTypeOK, InCall, NoCall, Calls
  <1>8. MessageTypeOK'
    BY <1>2, <1>5, <1>6, <1>7 DEF MessageTypeOK
  <1>9. Touches(t, b)
    BY <1>1, <1>2, <1>5, <1>6, <1>7 DEF Touches, MessageTypeOK
  <1>10. Sound(b)'
    BY <1>6 DEF Sound, Vacant
  <1>11. b \notin Struct' /\ Struct' = Struct \ {b}
    <2>1. \A a \in Address \ {b} : heap'[a] = heap[a]
      BY <1>4, <1>6, ElsewhereTo
    <2> QED
      BY <1>4, <1>6, <2>1 DEF Struct
  <1>12. Counted(b)'
    <2>1. \A u \in Thread \ {t} : ~Making(u, b)'
      BY <1>4, <1>7 DEF OffBy, Exclusive, Making
    <2>2. Unreferred(b)'
      BY <1>2, <1>4, <1>7, <2>1 DEF Unreferred, Making
    <2>3. References(b)' = {}
      BY <1>4, <1>8, <2>2, NotReferredPrimed
    <2> QED
      BY <1>11, <2>3, FS_EmptySet DEF Counted
  <1>13. AloneOn(t, b)'
    BY <1>7 DEF AloneOn, Exclusive
  <1>14. StatsExact'
    BY <1>2, <1>4, <1>5, <1>7, <1>8, <1>11, StatsFreed
  <1> QED
    BY <1>4, <1>8, <1>9, <1>10, <1>12, <1>13, <1>14, StepOn

LEMMA UnrefCountsInv ==
    ASSUME MessageInv, NEW t \in Thread, UnrefCounts(t)
    PROVE  MessageInv'
  <1>1. /\ call[t].op = "uncount" /\ stat_live_msg' = stat_live_msg - 1
        /\ call' = [call EXCEPT ![t] = NoCall] /\ heap' = heap /\ held' = held /\ said' = said
    BY DEF UnrefCounts
  <1>2. MessageTypeOK /\ StatsExact
    BY DEF MessageInv
  <1>3. NoCall.op = "none" /\ NoCall \in Calls
    BY DEF NoCall, Calls
  <1>4. /\ call'[t].op = "none" /\ call' \in [Thread -> Calls]
        /\ \A u \in Thread \ {t} : call'[u] = call[u]
    BY <1>1, <1>2, <1>3 DEF MessageTypeOK
  <1>5. MessageTypeOK'
    BY <1>1, <1>2, <1>4 DEF MessageTypeOK
  <1>6. Struct' = Struct
    BY <1>1 DEF Struct
  <1>7. ASSUME NEW b \in Address PROVE Sound(b)' /\ Counted(b)'
    <2>1. Sound(b) /\ Counted(b)
      BY DEF MessageInv
    <2>2. \A u \in Thread : Making(u, b)' <=> Making(u, b)
      BY <1>1, <1>4 DEF Making
    <2>3. \A u \in Thread : /\ NewOf(u, b)' <=> NewOf(u, b)
                            /\ NewOf(u, b) => call'[u] = call[u]
      BY <1>1, <1>4 DEF NewOf
    <2>4. Sound(b)'
      BY <1>1, <2>1, <2>3 DEF Sound
    <2>5. Counted(b)'
      BY <1>1, <1>2, <1>4, <1>5, <2>1, <2>2, CountedKept
    <2> QED
      BY <2>4, <2>5
  <1>8. ASSUME NEW u \in Thread PROVE Alone(u)'
    <2>1. Alone(u)
      BY DEF MessageInv
    <2>2. \A v \in Thread : /\ Exclusive(v)' <=> Exclusive(v)
                            /\ Exclusive(v) => call'[v] = call[v]
      BY <1>1, <1>4 DEF Exclusive
    <2> QED
      BY <1>1, <1>6, <2>1, <2>2 DEF Alone
  <1>9. StatsExact'
    BY <1>1, <1>2, <1>4, <1>5, <1>6, StatsUncounted
  <1> QED
    BY <1>5, <1>7, <1>8, <1>9 DEF MessageInv

(***************************************************************************)
(* Making a message                                                        *)
(***************************************************************************)

\* The place of a new message
LEMMA Place ==
    ASSUME MessageInv, Struct # Address, NEW t \in Thread, NEW b, b = CHOOSE a \in Address \ Struct : TRUE
    PROVE  /\ b \in Address /\ b \notin Struct /\ OffBy(t, b) /\ Vacant(heap, b)
           /\ \A u \in Thread : held[u][b] = 0 /\ ~Making(u, b)
  <1>1. b \in Address /\ b \notin Struct
    BY DEF Struct
  <1>2. OffBy(t, b)
    BY <1>1, OthersOff
  <1>3. Vacant(heap, b)
    BY <1>1 DEF MessageInv, Sound, Struct
  <1>4. Unreferred(b)
    BY <1>1, NotReferred DEF MessageInv, Counted
  <1> QED
    BY <1>1, <1>2, <1>3, <1>4 DEF Unreferred

\* Message b is made by thread t and says s.
LEMMA Makes ==
    ASSUME MessageInv, MessageTypeOK', NEW t \in Thread, NEW b \in Address, b \notin Struct,
           OffBy(t, b), \A u \in Thread : held[u][b] = 0 /\ ~Making(u, b),
           Idle(t), Making(t, b)', \A u \in Thread \ {t} : call'[u] = call[u],
           Elsewhere(heap, heap', b), heap'[b].ref = 1, Stands(t, b)',
           \A a \in Address \ {b} : said'[a] = said[a], UNCHANGED <<held, stat_live_msg>>
    PROVE  MessageInv'
  <1>1. MessageTypeOK /\ StatsExact /\ call[t].msg = NULL /\ call[t].op = "none"
    BY DEF MessageInv, Idle, NoCall
  <1>2. call'[t].op \in {"new", "count"} /\ call'[t].msg = b
    BY DEF Making
  <1>3. Touches(t, b)
    BY <1>1, <1>2 DEF Touches
  <1>4. Sound(b)'
    BY <1>3, SoundAfter
  <1>5. heap'[b] # Garbage
    BY MessageAssumption DEF Stands, Whole
  <1>6. (b \in Struct)' /\ Struct' = Struct \cup {b}
    <2>1. \A a \in Address \ {b} : heap'[a] = heap[a]
      BY ElsewhereTo
    <2> QED
      BY <1>5, <2>1 DEF Struct
  <1>7. Single(t, b, 0)'
    <2>1. \A u \in Thread \ {t} : ~Making(u, b)'
      BY DEF Making
    <2> QED
      BY <2>1 DEF Single
  <1>8. Counted(b)'
    BY <1>6, <1>7, CountedSingle
  <1>9. AloneOn(t, b)'
    BY <1>2, <1>6 DEF AloneOn
  <1>10. StatsExact'
    BY <1>1, <1>2, <1>6, StatsMade
  <1> QED
    BY <1>3, <1>4, <1>8, <1>9, <1>10, StepOn

LEMMA NewCallocsInv ==
    ASSUME MessageInv, NEW t \in Thread, NEW x \in Text, NEW sticky \in BOOLEAN,
           NEW v \in Values, NewCallocs(t, x, sticky, v)
    PROVE  MessageInv'
  <1> DEFINE m == [ref |-> 1, topic |-> NULL, rtopic |-> NULL, sticky |-> sticky,
                   typ |-> v.typ, enc |-> v.enc, union |-> <<NULL, NULL, NULL>>]
             s == [topic |-> x, rtopic |-> NULL, sticky |-> sticky, value |-> v]
  <1>1. PICK b : b = CHOOSE a \in Address \ Struct : TRUE
    OBVIOUS
  <1>2. /\ Idle(t) /\ Struct # Address /\ heap' = NewMsg(heap, b, m, x)
        /\ call' = [call EXCEPT ![t] = [op |-> "new", msg |-> b, value |-> v]]
        /\ said' = [said EXCEPT ![b] = s] /\ UNCHANGED <<held, stat_live_msg>>
    BY <1>1 DEF NewCallocs, NewStruct, NewMsg
  <1>3. /\ b \in Address /\ b \notin Struct /\ OffBy(t, b) /\ Vacant(heap, b)
        /\ \A u \in Thread : held[u][b] = 0 /\ ~Making(u, b)
    BY <1>1, <1>2, Place
  <1>4. MessageTypeOK
    BY DEF MessageInv
  <1>5. m \in Record /\ s \in Said /\ [op |-> "new", msg |-> b, value |-> v] \in Calls
    BY <1>3 DEF Record, Said, Calls, Values, Optional, Word
  <1>6. /\ m.topic = NULL /\ m.rtopic = NULL /\ m.union = <<NULL, NULL, NULL>> /\ m.ref = 1
        /\ m.sticky = sticky /\ s.value = v
        /\ s.topic = x /\ s.rtopic = NULL /\ s.sticky = sticky
    OBVIOUS
  <1> HIDE DEF m, s
  <1>7. /\ heap' \in Heaps /\ Whole(heap', b) /\ Elsewhere(heap, heap', b) /\ heap'[b].ref = 1
        /\ Titled(heap', b, [topic |-> x, rtopic |-> NULL, sticky |-> m.sticky])
    BY <1>2, <1>3, <1>4, <1>5, <1>6, NewMsgIs DEF MessageTypeOK, Optional
  <1>8. Titled(heap', b, s)
    BY <1>5, <1>6, <1>7 DEF Titled, Said
  <1>9. /\ call' \in [Thread -> Calls] /\ call'[t] = [op |-> "new", msg |-> b, value |-> v]
        /\ \A u \in Thread \ {t} : call'[u] = call[u]
    BY <1>2, <1>4, <1>5 DEF MessageTypeOK
  <1>10. /\ said' \in [Address -> Said \cup {NULL}] /\ said'[b] = s
         /\ \A a \in Address \ {b} : said'[a] = said[a]
    BY <1>2, <1>3, <1>4, <1>5 DEF MessageTypeOK
  <1>11. MessageTypeOK'
    BY <1>2, <1>4, <1>7, <1>9, <1>10 DEF MessageTypeOK
  <1>12. Making(t, b)' /\ NewOf(t, b)' /\ call'[t].value = v
    BY <1>9 DEF Making, NewOf
  <1>13. Stands(t, b)'
    BY <1>5, <1>6, <1>7, <1>8, <1>10, <1>12 DEF Stands
  <1> QED
    BY <1>2, <1>3, <1>7, <1>9, <1>10, <1>11, <1>12, <1>13, Makes

LEMMA DupInv ==
    ASSUME MessageInv, NEW t \in Thread, NEW p \in Address, Dup(t, p)
    PROVE  MessageInv'
  <1>1. PICK b : b = CHOOSE a \in Address \ Struct : TRUE
    OBVIOUS
  <1>2. /\ Idle(t) /\ held[t][p] > 0 /\ Struct # Address /\ heap' = DupMsg(heap, p, b)
        /\ said' = [said EXCEPT ![b] = said[p]] /\ InCall(t, "count", b)
        /\ UNCHANGED <<held, stat_live_msg>>
    BY <1>1 DEF Dup, NewStruct, DupMsg
  <1>3. /\ b \in Address /\ b \notin Struct /\ OffBy(t, b) /\ Vacant(heap, b)
        /\ \A u \in Thread : held[u][b] = 0 /\ ~Making(u, b)
    BY <1>1, <1>2, Place
  <1>4. p \in Struct /\ Stands(t, p) /\ Bears(heap, p, said[p].value)
    BY <1>2, InHands
  <1>5. MessageTypeOK /\ p # b
    BY <1>3, <1>4 DEF MessageInv
  <1>6. Whole(heap, p) /\ said[p] \in Said /\ Titled(heap, p, said[p])
    BY <1>4 DEF Stands
  <1>7. PICK v, w : v = said[p].value /\ w = said[p]
    OBVIOUS
  <1>8. /\ heap' \in Heaps /\ Whole(heap', b) /\ Elsewhere(heap, heap', b) /\ heap'[b].ref = 1
        /\ Bears(heap', b, v) /\ Titled(heap', b, w)
    BY <1>2, <1>3, <1>4, <1>5, <1>6, <1>7, DupMsgIs DEF MessageTypeOK
  <1>9. /\ call' \in [Thread -> Calls] /\ call'[t] = [op |-> "count", msg |-> b, value |-> NULL]
        /\ \A u \in Thread \ {t} : call'[u] = call[u]
    BY <1>2, <1>3, <1>5 DEF MessageTypeOK, InCall, NoCall, Calls
  <1>10. /\ said' \in [Address -> Said \cup {NULL}] /\ said'[b] = w
         /\ \A a \in Address \ {b} : said'[a] = said[a]
    BY <1>2, <1>3, <1>5, <1>6, <1>7 DEF MessageTypeOK
  <1>11. MessageTypeOK'
    BY <1>2, <1>5, <1>8, <1>9, <1>10 DEF MessageTypeOK
  <1>12. Making(t, b)' /\ ~NewOf(t, b)'
    BY <1>9 DEF Making, NewOf
  <1>13. Stands(t, b)'
    BY <1>6, <1>7, <1>8, <1>10, <1>12 DEF Stands
  <1> QED
    BY <1>2, <1>3, <1>8, <1>9, <1>10, <1>11, <1>12, <1>13, Makes

(***************************************************************************)
(* The invariant is one of the specification                               *)
(***************************************************************************)

LEMMA StutterInv == MessageInv /\ UNCHANGED messageVars => MessageInv'
  <1> SUFFICES ASSUME MessageInv, UNCHANGED messageVars PROVE MessageInv'
    OBVIOUS
  <1>1. /\ heap' = heap /\ held' = held /\ call' = call /\ stat_live_msg' = stat_live_msg
        /\ said' = said
    BY DEF messageVars
  <1>2. MessageTypeOK' /\ StatsExact' /\ Struct' = Struct
    BY <1>1 DEF MessageInv, MessageTypeOK, StatsExact, Struct
  <1>3. ASSUME NEW b \in Address PROVE Sound(b)' /\ Counted(b)'
    <2>1. Sound(b) /\ Counted(b)
      BY DEF MessageInv
    <2>2. References(b)' = References(b)
      BY <1>1 DEF References, InCallOf
    <2> QED
      BY <1>1, <1>2, <2>1, <2>2 DEF Sound, Counted, NewOf
  <1>4. ASSUME NEW t \in Thread PROVE Alone(t)'
    BY <1>1, <1>2 DEF MessageInv, Alone, Exclusive
  <1> QED
    BY <1>2, <1>3, <1>4 DEF MessageInv

LEMMA MessageNextInv == MessageInv /\ [MessageNext]_messageVars => MessageInv'
  <1> SUFFICES ASSUME MessageInv, [MessageNext]_messageVars PROVE MessageInv'
    OBVIOUS
  <1>1. ASSUME NEW t \in Thread, NEW m \in Made, NewCallocs(t, m.topic, m.sticky, m.value)
        PROVE  MessageInv'
    <2>1. m.topic \in Text /\ m.sticky \in BOOLEAN /\ m.value \in Values
      BY MessageAssumption
    <2> QED
      BY <1>1, <2>1, NewCallocsInv
  <1>2. ASSUME NEW t \in Thread, NEW p \in Address,
               NEW x \in Retopic, SetTopic(t, p, x) \/ SetRtopic(t, p, x)
        PROVE  MessageInv'
    <2>1. x \in Optional
      BY MessageAssumption DEF Optional
    <2> QED
      BY <1>2, <2>1, SetTopicInv, SetRtopicInv
  <1>3. ASSUME NEW t \in Thread, NEW p \in Address,
               NEW v \in Given, SetValue(t, p, v) \/ SetShorthand(t, p, v)
        PROVE  MessageInv'
    <2>1. v \in Values /\ [v EXCEPT !.enc = "RAW"] \in Values
      BY MessageAssumption DEF Values, Enc
    <2>2. CASE SetValue(t, p, v)
      BY <2>1, <2>2, SetValueInv
    <2>3. CASE SetShorthand(t, p, v)
      <3>1. SetValue(t, p, v) \/ SetValue(t, p, [v EXCEPT !.enc = "RAW"])
        BY <2>3 DEF SetShorthand
      <3> QED
        BY <2>1, <3>1, SetValueInv
    <2> QED
      BY <1>3, <2>2, <2>3
  <1>4. CASE UNCHANGED messageVars
    BY <1>4, StutterInv
  <1>5. CASE MessageNext
    <2>1. PICK t \in Thread :
            \/ \E m \in Made : NewCallocs(t, m.topic, m.sticky, m.value)
            \/ NewSetsValue(t) \/ Counts(t)
            \/ \E p \in Address :
                 \/ Dup(t, p) \/ UnrefDrops(t, p)
                 \/ \E u \in Thread : Ref(t, u, p)
                 \/ \E x \in Retopic : SetTopic(t, p, x) \/ SetRtopic(t, p, x)
                 \/ \E v \in Given : SetValue(t, p, v) \/ SetShorthand(t, p, v)
            \/ UnrefFrees(t) \/ UnrefCounts(t)
      BY <1>5 DEF MessageNext
    <2> QED
      BY <1>1, <1>2, <1>3, <2>1, NewSetsValueInv, CountsInv, DupInv, UnrefDropsInv, RefInv,
         UnrefFreesInv, UnrefCountsInv
  <1> QED
    BY <1>4, <1>5

LEMMA MessageInvariance == MessageSpec => []MessageInv
  BY MessageInitInv, MessageNextInv, PTL DEF MessageSpec

(***************************************************************************)
(* What the invariant says                                                 *)
(***************************************************************************)

LEMMA FreedByOne ==
    ASSUME MessageInv, NEW b \in Address
    PROVE  Cardinality(InCallOf(b, {"free"})) = IF b \in Struct /\ References(b) = {} THEN 1 ELSE 0
  <1>1. \A t : t \in InCallOf(b, {"free"}) <=>
                 t \in Thread /\ call[t].op = "free" /\ call[t].msg = b
    BY DEF InCallOf
  <1>2. CASE b \in Struct /\ References(b) = {}
    <2>1. PICK t \in Thread : call[t].op = "free" /\ call[t].msg = b
      BY <1>2 DEF MessageInv, Counted
    <2>2. \A u \in Thread \ {t} : ~(call[u].op = "free" /\ call[u].msg = b)
      BY <2>1 DEF MessageInv, Alone, Exclusive
    <2>3. InCallOf(b, {"free"}) = {t}
      BY <1>1, <2>1, <2>2
    <2>4. Cardinality({t}) = 1
      BY FS_Singleton
    <2> QED
      BY <1>2, <2>3, <2>4
  <1>3. CASE ~(b \in Struct /\ References(b) = {})
    <2>1. ASSUME NEW t \in Thread, call[t].op = "free", call[t].msg = b PROVE FALSE
      <3>1. /\ b \in Struct /\ \A u \in Thread : held[u][b] = 0
            /\ \A u \in Thread \ {t} : Exclusive(u) => call[u].msg # b
        BY <2>1 DEF MessageInv, Alone, Exclusive
      <3>2. Unreferred(b)
        BY <2>1, <3>1 DEF Unreferred, Making, Exclusive
      <3>3. References(b) = {}
        BY <3>2, NotReferred DEF MessageInv
      <3> QED
        BY <1>3, <3>1, <3>3
    <2>2. InCallOf(b, {"free"}) = {}
      BY <1>1, <2>1
    <2> QED
      BY <1>3, <2>2, FS_EmptySet
  <1> QED
    BY <1>2, <1>3

\* The reference count of a message is the number of references there are, with any
\* number of threads in ps_ref_msg, ps_unref_msg, ps_dup_msg and ps_new_msg at the
\* same time: a message is freed by exactly one thread, when nobody holds it any
\* more; and the statistics are exact (pubsub.c:123, 218, 225, 233).
THEOREM CountsAlwaysExact == MessageSpec => []CountsExact
  <1>1. MessageInv => CountsExact
    <2> SUFFICES ASSUME MessageInv PROVE RefsHeld /\ StatsExact
      BY DEF CountsExact
    <2>1. \A b \in Address : /\ b \in Struct => heap[b].ref = Cardinality(References(b))
                             /\ b \notin Struct => References(b) = {}
      BY DEF MessageInv, Counted
    <2> QED
      BY <2>1, FreedByOne DEF RefsHeld, MessageInv
  <1> QED
    BY <1>1, MessageInvariance, PTL

\* The fields of a message that own a block
LEMMA OwnersAre ==
    ASSUME MessageInv, NEW o \in Owners
    PROVE  \E b \in Address :
             /\ b \in Struct /\ Whole(heap, b) /\ o[1] = b
             /\ \/ o = <<b, "topic">> /\ Owns(o) = heap[b].topic
                \/ o = <<b, "rtopic">> /\ Owns(o) = heap[b].rtopic
                \/ o = <<b, "value">> /\ Owns(o) = OwnValue(heap[b])
             /\ Owns(o) \in Region(b) /\ heap[Owns(o)] \in Cell
  <1>1. o \in Struct \X {"topic", "rtopic", "value"} /\ Owns(o) # NULL
    BY DEF Owners
  <1>2. PICK b \in Struct, f \in {"topic", "rtopic", "value"} : o = <<b, f>>
    BY <1>1
  <1>3. b \in Address /\ Whole(heap, b)
    BY DEF Struct, MessageInv, Sound
  <1>4. \/ f = "topic" /\ Owns(o) = heap[b].topic
        \/ f = "rtopic" /\ Owns(o) = heap[b].rtopic
        \/ f = "value" /\ Owns(o) = OwnValue(heap[b])
    BY <1>2 DEF Owns
  <1>5. Owns(o) \in {heap[b].topic, heap[b].rtopic, OwnValue(heap[b])} \ {NULL}
    BY <1>1, <1>4
  <1>6. Owns(o) \in Region(b) /\ heap[Owns(o)] \in Cell
    BY <1>3, <1>5 DEF Whole, Uses
  <1> QED
    BY <1>2, <1>3, <1>4, <1>6

\* Every string and every buffer has exactly one message that will free it, whatever
\* has been duplicated and set anew (ps_msg_free_value, ps_unref_msg, the setters):
\* nothing is freed twice or read after it, and nothing is lost.
THEOREM MemoryIsOwnedOnce == MessageSpec => []OwnedOnce
  <1>1. MessageInv => OwnedOnce
    <2> SUFFICES ASSUME MessageInv PROVE OwnedOnce
      OBVIOUS
    <2>1. ASSUME NEW o \in Owners PROVE Owns(o) \in Block \ Address /\ heap[Owns(o)] # Garbage
      <3>1. PICK b \in Address : Owns(o) \in Region(b) /\ heap[Owns(o)] \in Cell
        BY OwnersAre
      <3> QED
        BY <3>1, Regions, MessageAssumption
    <2>2. ASSUME NEW o \in Owners, NEW p \in Owners, Owns(o) = Owns(p) PROVE o = p
      <3>1. PICK b \in Address :
             /\ Whole(heap, b) /\ Owns(o) \in Region(b)
             /\ \/ o = <<b, "topic">> /\ Owns(o) = heap[b].topic
                \/ o = <<b, "rtopic">> /\ Owns(o) = heap[b].rtopic
                \/ o = <<b, "value">> /\ Owns(o) = OwnValue(heap[b])
        BY OwnersAre
      <3>2. PICK c \in Address :
             /\ Owns(p) \in Region(c)
             /\ \/ p = <<c, "topic">> /\ Owns(p) = heap[c].topic
                \/ p = <<c, "rtopic">> /\ Owns(p) = heap[c].rtopic
                \/ p = <<c, "value">> /\ Owns(p) = OwnValue(heap[c])
        BY OwnersAre
      <3>3. b = c
        BY <2>2, <3>1, <3>2, Regions
      <3>4. Owns(o) # NULL
        BY DEF Owners
      <3>5. /\ heap[b].topic = heap[b].rtopic \/ heap[b].topic = OwnValue(heap[b])
                  => heap[b].topic = NULL
            /\ heap[b].rtopic = OwnValue(heap[b]) => heap[b].rtopic = NULL
        BY <3>1 DEF Whole
      <3> QED
        BY <2>2, <3>1, <3>2, <3>3, <3>4, <3>5
    <2>3. ASSUME NEW q \in Block \ Address, heap[q] # Garbage
          PROVE  \E o \in Owners : Owns(o) = q
      <3>1. PICK b \in Address : q \in Region(b)
        BY BlockInRegion
      <3>2. Sound(b)
        BY DEF MessageInv
      <3>3. heap[b] # Garbage
        BY <2>3, <3>1, <3>2 DEF Sound, Vacant
      <3>4. b \in Struct /\ Whole(heap, b)
        BY <3>2, <3>3 DEF Sound, Struct
      <3>5. q \in {heap[b].topic, heap[b].rtopic, OwnValue(heap[b])} \ {NULL}
        BY <2>3, <3>1, <3>4 DEF Whole, Uses
      <3>6. PICK f \in {"topic", "rtopic", "value"} : Owns(<<b, f>>) = q
        <4>1. Owns(<<b, "topic">>) = heap[b].topic
          BY DEF Owns
        <4>2. Owns(<<b, "rtopic">>) = heap[b].rtopic
          BY DEF Owns
        <4>3. Owns(<<b, "value">>) = OwnValue(heap[b])
          BY DEF Owns
        <4> QED
          BY <3>5, <4>1, <4>2, <4>3
      <3>7. <<b, f>> \in Owners
        BY <3>4, <3>5, <3>6 DEF Owners
      <3> QED
        BY <3>6, <3>7
    <2> QED
      BY <2>1, <2>2, <2>3 DEF OwnedOnce
  <1> QED
    BY <1>1, MessageInvariance, PTL

\* Cutting off what is behind the point
LEMMA TruncatedIs ==
    ASSUME NEW d \in Int
    PROVE  /\ Truncated(d) \in Int
           /\ 2 * Truncated(d) - d \in (IF d < 0 THEN {0, 1} ELSE {0, -1})
  <1>1. CASE d >= 0
    <2> DEFINE h == d \div 2
    <2>1. h \in Int /\ 2 * h <= d /\ d <= 2 * h + 1
      BY <1>1
    <2>2. Truncated(d) = h
      BY <1>1 DEF Truncated
    <2> HIDE DEF h
    <2> QED
      BY <1>1, <2>1, <2>2
  <1>2. CASE d < 0
    <2> DEFINE h == (-d) \div 2
    <2>1. h \in Int /\ 2 * h <= -d /\ -d <= 2 * h + 1
      BY <1>2
    <2>2. Truncated(d) = -h
      BY <1>2 DEF Truncated
    <2> HIDE DEF h
    <2> QED
      BY <1>2, <2>1, <2>2
  <1> QED
    BY <1>1, <1>2

\* The numbers that the conversions give, type by type
LEMMA Conversions ==
    ASSUME NEW m, NEW v \in Values, m.typ = v.typ,
           v.typ \in {"INT", "DBL", "BOOL"} => m.union[1] = v.num
    PROVE  Converts(m, v)
  <1>1. /\ v.typ \in Typ /\ v.num \in Int
        /\ v.typ \in {"INT", "BOOL"} => v.num \in Int64
        /\ v.typ = "DBL" => v.num \in Double
    BY DEF Values
  <1>2. CASE v.typ \in {"INT", "BOOL"}
    <2> DEFINE k == v.num
    <2>1. Halves(v) = 2 * k /\ k \in Int64 /\ k \in Int
      BY <1>1, <1>2 DEF Halves
    <2>2. ValueDouble(m) = Rounded[k] /\ ValueInt(m) = {k}
      BY <1>2 DEF ValueDouble, ValueInt
    <2>3. IsNumber(m) /\ (ValueBool(m) <=> k # 0)
      BY <1>2 DEF IsNumber, Is, ValueBool
    <2> HIDE DEF k
    <2>4. /\ ValueDouble(m) \in Double
          /\ \A d \in Double : Apart(ValueDouble(m), Halves(v)) <= Apart(d, Halves(v))
      BY <2>1, <2>2, NumberAssumption
    <2>5. \A i \in ValueInt(m) : 2 * i - Halves(v) = 0 /\ i \in Int64
      BY <2>1, <2>2
    <2>6. ValueInt(m) # {} /\ ValueInt(m) \subseteq Int64
      BY <2>2, <2>5
    <2>7. ValueBool(m) <=> Halves(v) # 0
      BY <2>1, <2>3
    <2> QED
      BY <2>3, <2>4, <2>5, <2>6, <2>7 DEF Converts
  <1>3. CASE v.typ = "DBL"
    <2> DEFINE d == v.num
               t == Truncated(d)
    <2>1. Halves(v) = d /\ d \in Double /\ d \in Int
      BY <1>1, <1>3 DEF Halves
    <2>2. /\ ValueDouble(m) = d
          /\ ValueInt(m) = IF t \in Int64 THEN {t} ELSE Int64
      BY <1>3 DEF ValueDouble, ValueInt
    <2>3. IsNumber(m) /\ (ValueBool(m) <=> d # 0)
      BY <1>3 DEF IsNumber, Is, ValueBool
    <2>4. t \in Int /\ 2 * t - d \in (IF d < 0 THEN {0, 1} ELSE {0, -1})
      BY <2>1, TruncatedIs
    <2> HIDE DEF d, t
    <2>5. \A e \in Double : Apart(d, d) <= Apart(e, d)
      BY <2>1, NumberAssumption DEF Apart
    <2>6. d \in Holdable => t \in Int64
      BY <2>1, <2>4, NumberAssumption DEF Holdable, Int64
    <2>7. Int64 # {}
      <3>1. 0 \in Int64
        BY NumberAssumption DEF Int64
      <3> QED
        BY <3>1
    <2>8. ValueInt(m) # {} /\ ValueInt(m) \subseteq Int64
      BY <2>2, <2>7
    <2>9. d \in Holdable => \A i \in ValueInt(m) : i = t
      BY <2>2, <2>6
    <2> QED
      BY <2>1, <2>2, <2>3, <2>4, <2>5, <2>8, <2>9 DEF Converts
  <1>4. CASE v.typ \in {"PTR", "STR", "BUF", "ERR", "NIL"}
    <2>1. Halves(v) = 0
      BY <1>4 DEF Halves
    <2>2. ValueDouble(m) = 0 /\ ValueInt(m) = {0}
      BY <1>4 DEF ValueDouble, ValueInt
    <2>3. ~ValueBool(m) /\ ~IsNumber(m)
      BY <1>4 DEF ValueBool, IsNumber, Is
    <2>4. 0 \in Int64
      BY NumberAssumption DEF Int64
    <2> QED
      BY <2>1, <2>2, <2>3, <2>4 DEF Converts
  <1> QED
    BY <1>1, <1>2, <1>3, <1>4 DEF Typ

\* A message says what it was last given, and a duplicate what the original said when
\* it was made, through its fields and through the conversions, whatever has become of
\* the other since (ps_dup_msg, ps_msg_set_vvalue and the setters of the topics).  The
\* conversions round and cut off as Converts says, for any width of integers and any
\* set of doubles; of a double that int64_t cannot hold, nothing is said.
THEOREM MessagesReadAsSaid == MessageSpec => []ReadsAsSaid
  <1>1. MessageInv => ReadsAsSaid
    <2> SUFFICES ASSUME MessageInv, NEW b \in Struct, InCallOf(b, {"new"}) = {}
                 PROVE  LET m == heap[b]
                            v == said[b].value
                        IN  /\ Deref(heap, m.topic) = said[b].topic
                            /\ Deref(heap, m.rtopic) = said[b].rtopic
                            /\ m.sticky = said[b].sticky
                            /\ Is(m, v.typ) /\ m.enc = v.enc
                            /\ v.typ \in {"STR", "BUF", "PTR"} => Deref(heap, m.union[1]) = v.text
                            /\ v.typ = "ERR" => m.union[1] = v.num /\ Deref(heap, m.union[2]) = v.text
                            /\ Converts(m, v)
      BY DEF ReadsAsSaid
    <2> DEFINE m == heap[b]
               v == said[b].value
    <2>1. Sound(b) /\ m # Garbage
      BY DEF MessageInv, Struct
    <2>2. \A t \in Thread : ~NewOf(t, b)
      BY DEF InCallOf, NewOf
    <2>3. Titled(heap, b, said[b]) /\ Bears(heap, b, v)
      BY <2>1, <2>2 DEF Sound
    <2>4. /\ Deref(heap, m.topic) = said[b].topic /\ Deref(heap, m.rtopic) = said[b].rtopic
          /\ m.sticky = said[b].sticky
      BY <2>3 DEF Titled
    <2>5. /\ v \in Values /\ m.typ = v.typ /\ m.enc = v.enc
          /\ v.typ \in {"INT", "DBL", "BOOL", "ERR"} => m.union[1] = v.num
          /\ v.typ \in {"STR", "BUF", "PTR"} => Deref(heap, m.union[1]) = v.text
          /\ v.typ = "ERR" => Deref(heap, m.union[2]) = v.text
      BY <2>3 DEF Bears
    <2> HIDE DEF m, v
    <2>6. Converts(m, v)
      BY <2>5, Conversions
    <2>7. Is(m, v.typ)
      BY <2>5 DEF Is
    <2> QED
      BY <2>4, <2>5, <2>6, <2>7 DEF m, v
  <1> QED
    BY <1>1, MessageInvariance, PTL

=============================================================================
