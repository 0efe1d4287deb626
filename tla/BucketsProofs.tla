--------------------------- MODULE BucketsProofs ---------------------------
(***************************************************************************)
(* Facts about the lists of a bucket queue, for every set P of priorities  *)
(* and every set M of messages: what an insertion and a removal do to the  *)
(* shape of the lists and to the number of messages stored.                *)
(***************************************************************************)
EXTENDS Buckets, FiniteSetTheorems, SequenceTheorems, TLAPS

\* The slots of a queue, one by one.
LEMMA SlotsElements ==
    ASSUME NEW P, NEW b, DOMAIN b = P, NEW s
    PROVE  s \in Slots(b) <=> \E p \in P : \E i \in 1..Len(b[p]) : s = <<p, i>>
  BY DEF Slots

\* bqueue_insert keeps the shape of the lists.
LEMMA InsertType ==
    ASSUME NEW P, NEW M, NEW b \in [P -> Seq(M)], NEW p \in P, NEW m \in M
    PROVE  Insert(b, p, m) \in [P -> Seq(M)]
  BY DEF Insert

\* bqueue_insert fills one new slot, so it stores one message more.
LEMMA InsertStored ==
    ASSUME NEW P, NEW M, NEW b \in [P -> Seq(M)], NEW p \in P, NEW m \in M,
           IsFiniteSet(Slots(b))
    PROVE  /\ IsFiniteSet(Slots(Insert(b, p, m)))
           /\ Stored(Insert(b, p, m)) = Stored(b) + 1
  <1> DEFINE c == Insert(b, p, m)
             new == <<p, Len(b[p]) + 1>>
  <1>1. c \in [P -> Seq(M)]
    BY InsertType
  <1>2. /\ Len(c[p]) = Len(b[p]) + 1
        /\ \A q \in P : q # p => Len(c[q]) = Len(b[q])
    BY DEF Insert
  <1>3. Len(b[p]) \in Nat
    OBVIOUS
  <1>4. Slots(c) = Slots(b) \cup {new}
    <2>1. ASSUME NEW s PROVE s \in Slots(c) <=> s \in Slots(b) \cup {new}
      <3>1. s \in Slots(c) <=> \E q \in P : \E i \in 1..Len(c[q]) : s = <<q, i>>
        BY <1>1, SlotsElements
      <3>2. s \in Slots(b) <=> \E q \in P : \E i \in 1..Len(b[q]) : s = <<q, i>>
        BY SlotsElements
      <3> HIDE DEF c
      <3>3. \A q \in P : \A i : i \in 1..Len(c[q]) <=>
                                  i \in 1..Len(b[q]) \/ (q = p /\ i = Len(b[p]) + 1)
        BY <1>2, <1>3
      <3> QED
        BY <3>1, <3>2, <3>3
    <2> QED
      BY <2>1
  <1>5. new \notin Slots(b)
    <2>1. new \in Slots(b) <=> \E q \in P : \E i \in 1..Len(b[q]) : new = <<q, i>>
      BY SlotsElements
    <2>2. Len(b[p]) + 1 \notin 1..Len(b[p])
      BY <1>3
    <2> QED
      BY <2>1, <2>2
  <1> QED
    BY <1>4, <1>5, FS_AddElement DEF Stored

\* Front and Last of a nonempty list.
LEMMA FrontProperties ==
    ASSUME NEW M, NEW s \in Seq(M), s # <<>>
    PROVE  /\ Front(s) \in Seq(M)
           /\ Len(Front(s)) = Len(s) - 1
           /\ \A i \in 1..(Len(s) - 1) : Front(s)[i] = s[i]
           /\ Last(s) \in M
  <1>1. Len(s) \in Nat \ {0} /\ \A i \in 1..Len(s) : s[i] \in M
    OBVIOUS
  <1> DEFINE n == Len(s) - 1
  <1>2. n \in Nat /\ \A i \in 1..n : s[i] \in M
    BY <1>1
  <1> HIDE DEF n
  <1>3. /\ SubSeq(s, 1, n) \in Seq(M)
        /\ Len(SubSeq(s, 1, n)) = n
        /\ \A i \in 1..n : SubSeq(s, 1, n)[i] = s[i]
    BY <1>2, SubSeqProperties
  <1>4. Last(s) \in M
    BY <1>1 DEF Last
  <1> QED
    BY <1>3, <1>4 DEF Front, n

\* Deleting the head or the last node keeps the shape of the lists.
LEMMA RemoveType ==
    ASSUME NEW P, NEW M, NEW b \in [P -> Seq(M)], NEW p \in P, b[p] # <<>>
    PROVE  /\ RemoveOldest(b, p) \in [P -> Seq(M)]
           /\ RemoveYoungest(b, p) \in [P -> Seq(M)]
           /\ Oldest(b, p) \in M
           /\ Youngest(b, p) \in M
  <1>1. Tail(b[p]) \in Seq(M) /\ Head(b[p]) \in M
    BY HeadTailProperties
  <1>2. Front(b[p]) \in Seq(M) /\ Last(b[p]) \in M
    BY FrontProperties
  <1> QED
    BY <1>1, <1>2 DEF RemoveOldest, RemoveYoungest, Oldest, Youngest

\* The queue whose list of priority p is s.
WithList(b, p, s) == [b EXCEPT ![p] = s]

\* A list that loses one node frees the last slot of its priority.
LEMMA ShorterStored ==
    ASSUME NEW P, NEW M, NEW b \in [P -> Seq(M)], NEW p \in P, NEW short \in Seq(M),
           b[p] # <<>>,
           Len(short) = Len(b[p]) - 1,
           IsFiniteSet(Slots(b))
    PROVE  /\ IsFiniteSet(Slots(WithList(b, p, short)))
           /\ Stored(WithList(b, p, short)) = Stored(b) - 1
  <1> DEFINE c == WithList(b, p, short)
  <1>0. /\ c \in [P -> Seq(M)] /\ DOMAIN c = P
        /\ Len(c[p]) = Len(b[p]) - 1
        /\ \A q \in P : q # p => c[q] = b[q]
    BY DEF WithList
  <1> DEFINE old == <<p, Len(b[p])>>
  <1>1. Len(b[p]) \in Nat \ {0}
    OBVIOUS
  <1>2. Slots(c) = Slots(b) \ {old}
    <2>1. ASSUME NEW s PROVE s \in Slots(c) <=> s \in Slots(b) \ {old}
      <3> HIDE DEF c
      <3>1. s \in Slots(c) <=> \E q \in P : \E i \in 1..Len(c[q]) : s = <<q, i>>
        BY <1>0, SlotsElements
      <3>2. s \in Slots(b) <=> \E q \in P : \E i \in 1..Len(b[q]) : s = <<q, i>>
        BY SlotsElements
      <3>3. \A q \in P : \A i : i \in 1..Len(c[q]) <=>
                                  i \in 1..Len(b[q]) /\ ~(q = p /\ i = Len(b[p]))
        BY <1>0, <1>1
      <3>4. \A q \in P : \A i : <<q, i>> = old <=> q = p /\ i = Len(b[p])
        OBVIOUS
      <3> HIDE DEF old
      <3> QED
        BY <3>1, <3>2, <3>3, <3>4
    <2> QED
      BY <2>1
  <1>3. old \in Slots(b)
    <2>1. old \in Slots(b) <=> \E q \in P : \E i \in 1..Len(b[q]) : old = <<q, i>>
      BY SlotsElements
    <2>2. Len(b[p]) \in 1..Len(b[p])
      BY <1>1
    <2> QED
      BY <2>1, <2>2
  <1> QED
    BY <1>2, <1>3, FS_RemoveElement DEF Stored

\* bqueue_get and bqueue_get_available's eviction both store one message less.
LEMMA RemoveStored ==
    ASSUME NEW P, NEW M, NEW b \in [P -> Seq(M)], NEW p \in P, b[p] # <<>>,
           IsFiniteSet(Slots(b))
    PROVE  /\ IsFiniteSet(Slots(RemoveOldest(b, p)))
           /\ Stored(RemoveOldest(b, p)) = Stored(b) - 1
           /\ IsFiniteSet(Slots(RemoveYoungest(b, p)))
           /\ Stored(RemoveYoungest(b, p)) = Stored(b) - 1
  <1>1. /\ Tail(b[p]) \in Seq(M)
        /\ Len(Tail(b[p])) = Len(b[p]) - 1
    BY HeadTailProperties
  <1>2. /\ Front(b[p]) \in Seq(M)
        /\ Len(Front(b[p])) = Len(b[p]) - 1
    BY FrontProperties
  <1>3. /\ RemoveOldest(b, p) = WithList(b, p, Tail(b[p]))
        /\ RemoveYoungest(b, p) = WithList(b, p, Front(b[p]))
    BY DEF RemoveOldest, RemoveYoungest, WithList
  <1>4. /\ IsFiniteSet(Slots(WithList(b, p, Tail(b[p]))))
        /\ Stored(WithList(b, p, Tail(b[p]))) = Stored(b) - 1
    <2> DEFINE short == Tail(b[p])
    <2>1. short \in Seq(M) /\ Len(short) = Len(b[p]) - 1
      BY <1>1
    <2> HIDE DEF short
    <2>2. /\ IsFiniteSet(Slots(WithList(b, p, short)))
          /\ Stored(WithList(b, p, short)) = Stored(b) - 1
      BY <2>1, ShorterStored
    <2> QED
      BY <2>2 DEF short
  <1>5. /\ IsFiniteSet(Slots(WithList(b, p, Front(b[p]))))
        /\ Stored(WithList(b, p, Front(b[p]))) = Stored(b) - 1
    BY <1>2, ShorterStored
  <1> QED
    BY <1>3, <1>4, <1>5

\* A new queue stores nothing.
LEMMA EmptyStored ==
    ASSUME NEW P, NEW M
    PROVE  /\ Empty(P) \in [P -> Seq(M)]
           /\ IsFiniteSet(Slots(Empty(P)))
           /\ Stored(Empty(P)) = 0
  <1>1. Slots(Empty(P)) = {}
    BY DEF Slots, Empty
  <1> QED
    BY <1>1, FS_EmptySet DEF Stored, Empty

\* A queue whose lists are all empty stores nothing, and any other has a
\* message: what the semaphore counts is what bqueue_get finds.
LEMMA StoredZero ==
    ASSUME NEW P, NEW M, NEW b \in [P -> Seq(M)], IsFiniteSet(Slots(b))
    PROVE  /\ Stored(b) \in Nat
           /\ Stored(b) = 0 <=> \A p \in P : b[p] = <<>>
  <1>1. Slots(b) = {} <=> \A p \in P : b[p] = <<>>
    <2>1. ASSUME NEW p \in P, b[p] # <<>> PROVE <<p, 1>> \in Slots(b)
      <3>1. Len(b[p]) \in Nat \ {0}
        BY <2>1
      <3>2. 1 \in 1..Len(b[p])
        BY <3>1
      <3> QED
        BY <3>2, SlotsElements
    <2>2. ASSUME \A p \in P : b[p] = <<>>, NEW s \in Slots(b) PROVE FALSE
      <3>1. PICK p \in P : \E i \in 1..Len(b[p]) : s = <<p, i>>
        BY SlotsElements
      <3> QED
        BY <2>2, <3>1
    <2> QED
      BY <2>1, <2>2
  <1> QED
    BY <1>1, FS_CardinalityType, FS_EmptySet DEF Stored

\* A set that one element enters or leaves.
LEMMA OneMoves ==
    ASSUME NEW A, IsFiniteSet(A), NEW t
    PROVE  /\ Cardinality(A) \in Nat
           /\ t \in A => Cardinality(A) >= 1
           /\ Cardinality(A \cup {t}) = IF t \in A THEN Cardinality(A) ELSE Cardinality(A) + 1
           /\ Cardinality(A \ {t}) = IF t \in A THEN Cardinality(A) - 1 ELSE Cardinality(A)
           /\ IsFiniteSet(A \cup {t}) /\ IsFiniteSet(A \ {t})
  <1>1. Cardinality(A) \in Nat
    BY FS_CardinalityType
  <1>2. t \in A => Cardinality(A) >= 1
    BY <1>1, FS_EmptySet
  <1> QED
    BY <1>1, <1>2, FS_AddElement, FS_RemoveElement

(***************************************************************************)
(* Where a message is held                                                 *)
(***************************************************************************)

\* The slots that hold n are finitely many, and there are some if n is stored.
LEMMA HoldsFinite ==
    ASSUME NEW b, IsFiniteSet(Slots(b)), NEW n
    PROVE  IsFiniteSet(Holding(b, n)) /\ Cardinality(Holding(b, n)) \in Nat
  BY FS_Subset, FS_CardinalityType DEF Holding

\* An insertion holds the new message in one slot more.
LEMMA InsertHolds ==
    ASSUME NEW P, NEW M, NEW b \in [P -> Seq(M)], NEW p \in P, NEW m \in M,
           IsFiniteSet(Slots(b)), NEW n
    PROVE  Cardinality(Holding(Insert(b, p, m), n)) =
             Cardinality(Holding(b, n)) + (IF n = m THEN 1 ELSE 0)
  <1> DEFINE c == Insert(b, p, m)
             new == <<p, Len(b[p]) + 1>>
  <1>1. /\ c \in [P -> Seq(M)] /\ DOMAIN c = P
        /\ \A q \in P : Len(b[q]) \in Nat
        /\ Len(c[p]) = Len(b[p]) + 1 /\ c[p][Len(b[p]) + 1] = m
        /\ \A i \in 1..Len(b[p]) : c[p][i] = b[p][i]
        /\ \A q \in P : q # p => c[q] = b[q]
    <2>1. c \in [P -> Seq(M)] /\ c[p] = Append(b[p], m) /\ \A q \in P : q # p => c[q] = b[q]
      BY InsertType DEF Insert
    <2> QED
      BY <2>1, AppendProperties
  <1> HIDE DEF c
  <1>2. Holding(c, n) = IF n = m THEN Holding(b, n) \cup {new} ELSE Holding(b, n)
    <2>1. ASSUME NEW s PROVE s \in Holding(c, n) <=> s \in Holding(b, n) \/ (n = m /\ s = new)
      <3>1. s \in Holding(c, n) <=> \E q \in P : \E i \in 1..Len(c[q]) : s = <<q, i>> /\ c[q][i] = n
        BY <1>1, SlotsElements DEF Holding
      <3>2. s \in Holding(b, n) <=> \E q \in P : \E i \in 1..Len(b[q]) : s = <<q, i>> /\ b[q][i] = n
        BY SlotsElements DEF Holding
      <3>3. \A q \in P : \A i : i \in 1..Len(c[q]) /\ c[q][i] = n <=>
              (i \in 1..Len(b[q]) /\ b[q][i] = n) \/ (q = p /\ i = Len(b[p]) + 1 /\ n = m)
        <4> TAKE q \in P
        <4> TAKE i
        <4>1. CASE q # p
          BY <1>1, <4>1
        <4>2. CASE q = p
          <5>1. i \in 1..Len(c[p]) <=> i \in 1..Len(b[p]) \/ i = Len(b[p]) + 1
            BY <1>1
          <5>2. Len(b[p]) + 1 \notin 1..Len(b[p])
            BY <1>1
          <5> QED
            BY <1>1, <4>2, <5>1, <5>2
        <4> QED
          BY <4>1, <4>2
      <3>4. s \in Holding(c, n) => s \in Holding(b, n) \/ (n = m /\ s = new)
        BY <3>1, <3>2, <3>3
      <3>5. s \in Holding(b, n) => s \in Holding(c, n)
        BY <3>1, <3>2, <3>3
      <3>6. n = m /\ s = new => s \in Holding(c, n)
        BY <3>1, <3>3
      <3> QED
        BY <3>4, <3>5, <3>6
    <2> QED
      BY <2>1
  <1>3. new \notin Holding(b, n)
    <2>1. new \in Slots(b) <=> \E q \in P : \E i \in 1..Len(b[q]) : new = <<q, i>>
      BY SlotsElements
    <2>2. Len(b[p]) + 1 \notin 1..Len(b[p])
      BY <1>1
    <2> QED
      BY <2>1, <2>2 DEF Holding
  <1>4. IsFiniteSet(Holding(b, n)) /\ Cardinality(Holding(b, n)) \in Nat
    BY HoldsFinite
  <1>5. Cardinality(Holding(b, n) \cup {new}) = Cardinality(Holding(b, n)) + 1
    BY <1>3, <1>4, FS_AddElement
  <1> QED
    BY <1>2, <1>4, <1>5 DEF c

\* The eviction takes the youngest message out of the last slot of its list.
LEMMA YoungestHolds ==
    ASSUME NEW P, NEW M, NEW b \in [P -> Seq(M)], NEW p \in P, b[p] # <<>>,
           IsFiniteSet(Slots(b)), NEW n
    PROVE  /\ Cardinality(Holding(RemoveYoungest(b, p), n)) =
                Cardinality(Holding(b, n)) - (IF n = Youngest(b, p) THEN 1 ELSE 0)
           /\ n = Youngest(b, p) => Cardinality(Holding(b, n)) >= 1
  <1> DEFINE c == RemoveYoungest(b, p)
             old == <<p, Len(b[p])>>
  <1>1. /\ c \in [P -> Seq(M)] /\ DOMAIN c = P
        /\ Len(b[p]) \in Nat \ {0}
        /\ Len(c[p]) = Len(b[p]) - 1 /\ b[p][Len(b[p])] = Youngest(b, p)
        /\ \A i \in 1..(Len(b[p]) - 1) : c[p][i] = b[p][i]
        /\ \A q \in P : q # p => c[q] = b[q]
    <2>1. c \in [P -> Seq(M)] /\ c[p] = Front(b[p]) /\ \A q \in P : q # p => c[q] = b[q]
      BY RemoveType DEF RemoveYoungest
    <2> QED
      BY <2>1, FrontProperties DEF Youngest, Last
  <1> HIDE DEF c
  <1>2. Holding(c, n) = Holding(b, n) \ {old}
    <2>1. ASSUME NEW s PROVE s \in Holding(c, n) <=> s \in Holding(b, n) /\ s # old
      <3>1. s \in Holding(c, n) <=> \E q \in P : \E i \in 1..Len(c[q]) : s = <<q, i>> /\ c[q][i] = n
        BY <1>1, SlotsElements DEF Holding
      <3>2. s \in Holding(b, n) <=> \E q \in P : \E i \in 1..Len(b[q]) : s = <<q, i>> /\ b[q][i] = n
        BY SlotsElements DEF Holding
      <3>3. \A q \in P : \A i : i \in 1..Len(c[q]) /\ c[q][i] = n <=>
              i \in 1..Len(b[q]) /\ b[q][i] = n /\ ~(q = p /\ i = Len(b[p]))
        <4> TAKE q \in P
        <4> TAKE i
        <4>1. CASE q # p
          BY <1>1, <4>1
        <4>2. CASE q = p
          <5>1. i \in 1..Len(c[p]) <=> i \in 1..Len(b[p]) /\ i # Len(b[p])
            BY <1>1
          <5>2. i \in 1..Len(c[p]) => c[p][i] = b[p][i]
            BY <1>1
          <5> QED
            BY <4>2, <5>1, <5>2
        <4> QED
          BY <4>1, <4>2
      <3> QED
        BY <3>1, <3>2, <3>3
    <2> QED
      BY <2>1
  <1>3. old \in Holding(b, n) <=> n = Youngest(b, p)
    <2>1. old \in Slots(b)
      <3>1. Len(b[p]) \in 1..Len(b[p])
        BY <1>1
      <3> QED
        BY <3>1, SlotsElements
    <2> QED
      BY <1>1, <2>1 DEF Holding
  <1>4. IsFiniteSet(Holding(b, n)) /\ Cardinality(Holding(b, n)) \in Nat
    BY HoldsFinite
  <1>5. /\ Cardinality(Holding(b, n) \ {old}) =
              IF old \in Holding(b, n) THEN Cardinality(Holding(b, n)) - 1
                                       ELSE Cardinality(Holding(b, n))
        /\ old \in Holding(b, n) => Cardinality(Holding(b, n)) >= 1
    BY <1>4, OneMoves
  <1> QED
    BY <1>2, <1>3, <1>4, <1>5 DEF c

\* The delivery takes the oldest message; the others of its list move up.
LEMMA OldestHolds ==
    ASSUME NEW P, NEW M, NEW b \in [P -> Seq(M)], NEW p \in P, b[p] # <<>>,
           IsFiniteSet(Slots(b)), NEW n
    PROVE  /\ Cardinality(Holding(RemoveOldest(b, p), n)) =
                Cardinality(Holding(b, n)) - (IF n = Oldest(b, p) THEN 1 ELSE 0)
           /\ n = Oldest(b, p) => Cardinality(Holding(b, n)) >= 1
  <1> DEFINE c == RemoveOldest(b, p)
             old == <<p, 1>>
             up == [s \in Holding(c, n) |-> IF s[1] = p THEN <<p, s[2] + 1>> ELSE s]
  <1>1. /\ c \in [P -> Seq(M)] /\ DOMAIN c = P
        /\ Len(b[p]) \in Nat \ {0}
        /\ Len(c[p]) = Len(b[p]) - 1 /\ b[p][1] = Oldest(b, p)
        /\ \A i \in 1..(Len(b[p]) - 1) : c[p][i] = b[p][i + 1]
        /\ \A q \in P : q # p => c[q] = b[q]
    <2>1. c \in [P -> Seq(M)] /\ c[p] = Tail(b[p]) /\ \A q \in P : q # p => c[q] = b[q]
      BY RemoveType DEF RemoveOldest
    <2> QED
      BY <2>1, HeadTailProperties DEF Oldest
  <1> HIDE DEF c
  <1>2. \A s : s \in Holding(c, n) <=> \E q \in P : \E i \in 1..Len(c[q]) : s = <<q, i>> /\ c[q][i] = n
    BY <1>1, SlotsElements DEF Holding
  <1>3. \A s : s \in Holding(b, n) <=> \E q \in P : \E i \in 1..Len(b[q]) : s = <<q, i>> /\ b[q][i] = n
    BY SlotsElements DEF Holding
  <1>4. \A i : i \in 1..Len(c[p]) <=> i \in Int /\ i + 1 \in 1..Len(b[p]) /\ i + 1 # 1
    BY <1>1
  <1>5. \A s \in Holding(c, n) : up[s] \in Holding(b, n) \ {old}
    <2> TAKE s \in Holding(c, n)
    <2>0. PICK q \in P : \E i \in 1..Len(c[q]) : s = <<q, i>> /\ c[q][i] = n
      BY <1>2
    <2>1. PICK i \in 1..Len(c[q]) : s = <<q, i>> /\ c[q][i] = n
      BY <2>0
    <2>2. CASE q = p
      <3>1. up[s] = <<p, i + 1>> /\ i + 1 \in 1..Len(b[p]) /\ i + 1 # 1 /\ b[p][i + 1] = n
        BY <1>1, <1>4, <2>1, <2>2
      <3> QED
        BY <1>3, <3>1
    <2>3. CASE q # p
      BY <1>1, <1>3, <2>1, <2>3
    <2> QED
      BY <2>2, <2>3
  <1>6. \A s, r \in Holding(c, n) : up[s] = up[r] => s = r
    <2> TAKE s, r \in Holding(c, n)
    <2>a. PICK q \in P : \E i \in 1..Len(c[q]) : s = <<q, i>>
      BY <1>2
    <2>b. PICK z \in P : \E j \in 1..Len(c[z]) : r = <<z, j>>
      BY <1>2
    <2>1. PICK i \in 1..Len(c[q]) : s = <<q, i>>
      BY <2>a
    <2>2. PICK j \in 1..Len(c[z]) : r = <<z, j>>
      BY <2>b
    <2>3. /\ up[s] = IF q = p THEN <<p, i + 1>> ELSE <<q, i>>
          /\ up[r] = IF z = p THEN <<p, j + 1>> ELSE <<z, j>>
      BY <2>1, <2>2
    <2>4. i \in Int /\ j \in Int
      OBVIOUS
    <2> HIDE DEF up
    <2> QED
      BY <2>1, <2>2, <2>3, <2>4
  <1>7. \A r \in Holding(b, n) \ {old} : \E s \in Holding(c, n) : up[s] = r
    <2> TAKE r \in Holding(b, n) \ {old}
    <2>0. PICK q \in P : \E j \in 1..Len(b[q]) : r = <<q, j>> /\ b[q][j] = n
      BY <1>3
    <2>1. PICK j \in 1..Len(b[q]) : r = <<q, j>> /\ b[q][j] = n
      BY <2>0
    <2>2. CASE q = p
      <3>1. j - 1 \in 1..Len(c[p]) /\ j # 1 /\ (j - 1) + 1 = j
        BY <1>1, <2>1, <2>2
      <3>2. c[p][j - 1] = n
        BY <1>1, <2>1, <2>2, <3>1
      <3>3. <<p, j - 1>> \in Holding(c, n)
        BY <1>2, <3>1, <3>2
      <3>4. up[<<p, j - 1>>] = r
        BY <2>1, <2>2, <3>1, <3>3
      <3> QED
        BY <3>3, <3>4
    <2>3. CASE q # p
      <3>1. r \in Holding(c, n)
        BY <1>1, <1>2, <2>1, <2>3
      <3> QED
        BY <2>1, <2>3, <3>1
    <2> QED
      BY <2>2, <2>3
  <1>8. up \in Bijection(Holding(c, n), Holding(b, n) \ {old})
    <2>1. up \in [Holding(c, n) -> Holding(b, n) \ {old}]
      BY <1>5
    <2> HIDE DEF up
    <2> QED
      BY <2>1, <1>6, <1>7 DEF Bijection, Injection, Surjection, IsInjective
  <1>9. IsFiniteSet(Slots(c))
    BY RemoveStored DEF c
  <1>10. /\ IsFiniteSet(Holding(b, n)) /\ IsFiniteSet(Holding(c, n))
         /\ Cardinality(Holding(b, n)) \in Nat
    BY <1>9, HoldsFinite
  <1>11. Cardinality(Holding(c, n)) = Cardinality(Holding(b, n) \ {old})
    BY <1>8, <1>10, FS_Bijection DEF ExistsBijection
  <1>12. old \in Holding(b, n) <=> n = Oldest(b, p)
    <2>1. 1 \in 1..Len(b[p])
      BY <1>1
    <2>2. old \in Slots(b)
      BY <2>1, SlotsElements
    <2> QED
      BY <1>1, <2>2 DEF Holding
  <1>13. /\ Cardinality(Holding(b, n) \ {old}) =
              IF old \in Holding(b, n) THEN Cardinality(Holding(b, n)) - 1
                                       ELSE Cardinality(Holding(b, n))
         /\ old \in Holding(b, n) => Cardinality(Holding(b, n)) >= 1
    BY <1>10, OneMoves
  <1> QED
    BY <1>10, <1>11, <1>12, <1>13 DEF c

=============================================================================
