--------------------------- MODULE PSQueueLLProofs ---------------------------
(***************************************************************************)
(* Proofs about the ring queue, for every set of threads and messages and  *)
(* every capacity.                                                         *)
(***************************************************************************)
EXTENDS PSQueueLL, BucketsProofs

(***************************************************************************)
(* The inductive invariant: RingSound, and what the mutex is good for.     *)
(***************************************************************************)

\* The thread inside the mutex is the one whose pc says so.
MuxOwned ==
    \A t \in Thread : mux = t <=> pc[t] \in {"push", "post", "take", "unlock"}

\* A push still has its message.
ArgReady == \A t \in Thread : pc[t] = "push" => arg \in Msg

Inv == RingSound /\ MuxOwned /\ ArgReady

(***************************************************************************)
(* Arithmetic of the ring                                                  *)
(***************************************************************************)

\* The remainder of a number that is less than two rounds of the ring.
LEMMA Wrap ==
    ASSUME NEW C \in Nat \ {0}, NEW x \in 0..(2 * C - 1)
    PROVE  x % C = IF x < C THEN x ELSE x - C
  <1>1. CASE x < C
    BY <1>1, SMT
  <1>2. CASE x >= C
    <2>1. (x - C) + C = x /\ x - C \in 0..(C - 1)
      BY <1>2
    <2>2. (x - C) % C = x - C
      BY <2>1, SMT
    <2>3. x % C = (x - C) % C
      BY <1>2, SMT
    <2> QED
      BY <1>2, <2>2, <2>3
  <1> QED
    BY <1>1, <1>2


\* The cell after i, in the arithmetic of the ring.
LEMMA AdvanceWraps ==
    ASSUME NEW i \in Cell
    PROVE  /\ Capacity \in Nat \ {0}
           /\ Advance(i) \in Cell
           /\ Advance(i) = IF i + 1 = Capacity THEN 0 ELSE i + 1
  BY RingAssumption DEF Cell, Advance

\* Where the i-th message of the ring is.
Place(i) == (tail + i - 1) % Capacity

\* The places of the messages and of the next one, without the remainder.
LEMMA Places ==
    ASSUME Inv, Capacity > 0, NEW i \in 1..(count + 1)
    PROVE  /\ Place(i) = IF tail + i - 1 < Capacity THEN tail + i - 1
                                                    ELSE tail + i - 1 - Capacity
           /\ Place(i) \in Cell
           /\ head = Place(count + 1)
           /\ count \in Nat /\ tail \in Cell /\ count <= Capacity
  <1>1. /\ Capacity \in Nat \ {0} /\ count \in 0..Capacity /\ tail \in 0..(Capacity - 1)
        /\ head = (tail + count) % Capacity
    BY RingAssumption DEF Inv, RingSound, TypeOK, RingConsistent, Cell
  <1>2. tail + i - 1 \in 0..(2 * Capacity - 1)
    BY <1>1
  <1>3. Place(i) = IF tail + i - 1 < Capacity THEN tail + i - 1 ELSE tail + i - 1 - Capacity
    BY <1>1, <1>2, Wrap DEF Place
  <1>4. tail + (count + 1) - 1 = tail + count
    BY <1>1
  <1> QED
    BY <1>1, <1>2, <1>3, <1>4 DEF Cell, Place

(***************************************************************************)
(* Threads and tokens                                                      *)
(***************************************************************************)

\* The threads in a pull, and those before their post, when t moves to l.
LEMMA TokensMove ==
    ASSUME TypeOK, NEW t \in Thread, NEW l \in Label, Goto(t, l)
    PROVE  /\ Cardinality(At({"claimed", "take"})) \in Nat
           /\ Cardinality(At({"post"})) \in Nat
           /\ Cardinality(At({"claimed", "take"})') = Cardinality(At({"claimed", "take"}))
                + (IF l \in {"claimed", "take"} THEN 1 ELSE 0)
                - (IF pc[t] \in {"claimed", "take"} THEN 1 ELSE 0)
           /\ Cardinality(At({"post"})') = Cardinality(At({"post"}))
                + (IF l = "post" THEN 1 ELSE 0) - (IF pc[t] = "post" THEN 1 ELSE 0)
           /\ pc[t] \in {"claimed", "take"} => Cardinality(At({"claimed", "take"})) >= 1
           /\ pc[t] = "post" => Cardinality(At({"post"})) >= 1
  <1>1. ASSUME NEW S
        PROVE  /\ Cardinality(At(S)) \in Nat
               /\ Cardinality(At(S)') = Cardinality(At(S)) + (IF l \in S THEN 1 ELSE 0)
                                                           - (IF pc[t] \in S THEN 1 ELSE 0)
               /\ pc[t] \in S => Cardinality(At(S)) >= 1
    <2>1. IsFiniteSet(At(S))
      BY RingAssumption, FS_Subset DEF At
    <2>2. At(S)' = IF l \in S THEN At(S) \cup {t} ELSE At(S) \ {t}
      BY DEF At, Goto, TypeOK
    <2>3. t \in At(S) <=> pc[t] \in S
      BY DEF At
    <2>4. /\ Cardinality(At(S)) \in Nat
          /\ t \in At(S) => Cardinality(At(S)) >= 1
          /\ Cardinality(At(S) \cup {t}) =
               IF t \in At(S) THEN Cardinality(At(S)) ELSE Cardinality(At(S)) + 1
          /\ Cardinality(At(S) \ {t}) =
               IF t \in At(S) THEN Cardinality(At(S)) - 1 ELSE Cardinality(At(S))
      BY <2>1, OneMoves
    <2> QED
      BY <2>2, <2>3, <2>4
  <1>2. \A x : x \in {"post"} <=> x = "post"
    OBVIOUS
  <1> QED
    BY <1>1, <1>2

\* A thread that moves outside the mutex, or in and out of it.
LEMMA MuxMoves ==
    ASSUME Inv, NEW t \in Thread, NEW l \in Label, Goto(t, l),
           pc[t] \notin {"push", "post", "take", "unlock"} => mux = NoThread \/ mux' = mux,
           mux' = IF l \in {"push", "post", "take", "unlock"} THEN t
                  ELSE IF pc[t] \in {"push", "post", "take", "unlock"} THEN NoThread ELSE mux,
           \A u \in Thread \ {t} : pc[u] = "push" => arg' = arg,
           l = "push" => arg' \in Msg
    PROVE  MuxOwned' /\ ArgReady' /\ mux' \in Thread \cup {NoThread} /\ pc' \in [Thread -> Label]
  <1>1. /\ pc \in [Thread -> Label] /\ pc' = [pc EXCEPT ![t] = l]
        /\ mux \in Thread \cup {NoThread} /\ NoThread \notin Thread
        /\ MuxOwned /\ ArgReady
    BY RingAssumption DEF Inv, RingSound, TypeOK, Goto
  <1> DEFINE In == {"push", "post", "take", "unlock"}
  <1>2. pc'[t] = l /\ \A u \in Thread \ {t} : pc'[u] = pc[u]
    BY <1>1
  <1>3. \A u \in Thread : mux = u <=> pc[u] \in In
    BY <1>1 DEF MuxOwned
  <1>4. mux' = IF l \in In THEN t ELSE IF pc[t] \in In THEN NoThread ELSE mux
    OBVIOUS
  <1>5. pc[t] \notin In => mux = NoThread \/ mux' = mux
    OBVIOUS
  <1> HIDE DEF In
  <1>6. \A u \in Thread : mux' = u <=> pc'[u] \in In
    BY <1>1, <1>2, <1>3, <1>4, <1>5
  <1>7. ArgReady'
    BY <1>1, <1>2 DEF ArgReady
  <1> QED
    BY <1>1, <1>4, <1>6, <1>7 DEF In, MuxOwned

\* When a function on 1..n is a sequence one longer, or one shorter, than s.
LEMMA IsAppend ==
    ASSUME NEW M, NEW s \in Seq(M), NEW e \in M, NEW f,
           DOMAIN f = 1..(Len(s) + 1), f = [i \in 1..(Len(s) + 1) |-> f[i]],
           \A i \in 1..Len(s) : f[i] = s[i],
           f[Len(s) + 1] = e
    PROVE  f = Append(s, e)
  <1>1. Len(s) \in Nat /\ \A i \in 1..Len(s) : s[i] \in M
    OBVIOUS
  <1>2. \A i \in 1..(Len(s) + 1) : i \in 1..Len(s) \/ i = Len(s) + 1
    BY <1>1
  <1>3. f \in Seq(M) /\ Len(f) = Len(s) + 1
    <2>1. Len(s) + 1 \in Nat /\ \A i \in 1..(Len(s) + 1) : f[i] \in M
      <3>1. ASSUME NEW i \in 1..(Len(s) + 1) PROVE f[i] \in M
        <4>1. CASE i = Len(s) + 1
          BY <4>1
        <4>2. CASE i \in 1..Len(s)
          BY <1>1, <4>2
        <4> QED
          BY <1>2, <4>1, <4>2
      <3> QED
        BY <1>1, <3>1
    <2> DEFINE n == Len(s) + 1
    <2> HIDE DEF n
    <2>2. n \in Nat /\ (\A i \in 1..n : f[i] \in M) /\ f = [i \in 1..n |-> f[i]]
      BY <2>1 DEF n
    <2>3. f \in Seq(M) /\ Len(f) = n
      BY <2>2
    <2> QED
      BY <2>3 DEF n
  <1>4. /\ Append(s, e) \in Seq(M) /\ Len(Append(s, e)) = Len(s) + 1
        /\ \A i \in 1..Len(s) : Append(s, e)[i] = s[i]
        /\ Append(s, e)[Len(s) + 1] = e
    BY AppendProperties
  <1>5. \A i \in 1..Len(f) : f[i] = Append(s, e)[i]
    BY <1>2, <1>3, <1>4
  <1> QED
    BY <1>3, <1>4, <1>5, SeqEqual

LEMMA IsTail ==
    ASSUME NEW M, NEW s \in Seq(M), s # <<>>, NEW f,
           f = [i \in 1..(Len(s) - 1) |-> f[i]],
           \A i \in 1..(Len(s) - 1) : f[i] = s[i + 1]
    PROVE  f = Tail(s)
  <1>1. Len(s) \in Nat \ {0} /\ \A i \in 1..Len(s) : s[i] \in M
    OBVIOUS
  <1>2. \A i \in 1..(Len(s) - 1) : i + 1 \in 1..Len(s)
    BY <1>1
  <1>3. f \in Seq(M) /\ Len(f) = Len(s) - 1
    BY <1>1, <1>2
  <1>4. /\ Tail(s) \in Seq(M) /\ Len(Tail(s)) = Len(s) - 1
        /\ \A i \in 1..(Len(s) - 1) : Tail(s)[i] = s[i + 1]
    BY HeadTailProperties
  <1> QED
    BY <1>3, <1>4, SeqEqual

\* The messages in the ring are a sequence of messages.
LEMMA ContentsType ==
    ASSUME Inv
    PROVE  /\ Contents \in Seq(Msg) /\ Len(Contents) = count
           /\ \A i \in 1..count : Contents[i] = messages[Place(i)]
  <1>1. count \in Nat /\ \A i \in 1..count : messages[Place(i)] \in Msg
    BY RingAssumption DEF Inv, RingSound, TypeOK, RingConsistent, Place
  <1>2. Contents = [i \in 1..count |-> messages[Place(i)]]
    BY DEF Contents, Place
  <1> QED
    BY <1>1, <1>2

\* What a push that finds room does to the ring.
LEMMA RingPush ==
    ASSUME Inv, NEW t \in Thread, PushStores(t)
    PROVE  /\ RingConsistent' /\ head' \in Cell /\ count' \in 0..Capacity
           /\ messages' \in [Cell -> Msg \cup {NoMsg}]
           /\ Contents' = Append(Contents, arg)
  <1>1. /\ arg \in Msg /\ count < Capacity /\ count' = count + 1 /\ tail' = tail
        /\ messages' = [messages EXCEPT ![head] = arg] /\ head' = Advance(head)
        /\ count \in Nat /\ Capacity \in Nat \ {0} /\ Capacity > 0
        /\ messages \in [Cell -> Msg \cup {NoMsg}]
        /\ \A i \in 1..count : messages[Place(i)] \in Msg
    BY RingAssumption
    DEF Inv, RingSound, TypeOK, RingConsistent, PushStores, ArgReady, Place
  <1>2. /\ \A i \in 1..(count + 1) :
              /\ Place(i) = IF tail + i - 1 < Capacity THEN tail + i - 1
                                                       ELSE tail + i - 1 - Capacity
              /\ Place(i) \in Cell
        /\ head = Place(count + 1) /\ tail \in Cell /\ count + 1 \in 1..(count + 1)
    BY <1>1, Places
  <1>3. \A i \in 1..count : Place(i) # head /\ i \in 1..(count + 1)
    BY <1>1, <1>2 DEF Cell
  <1>4. head' = (tail' + count') % Capacity
    <2>1. /\ tail + count \in 0..(2 * Capacity - 1) /\ tail + count + 1 \in 0..(2 * Capacity - 1)
          /\ tail + (count + 1) = tail + count + 1 /\ tail + (count + 1) - 1 = tail + count
      BY <1>1, <1>2 DEF Cell
    <2>2. (tail + count + 1) % Capacity = IF tail + count + 1 < Capacity
              THEN tail + count + 1 ELSE tail + count + 1 - Capacity
      <3>1. PICK x \in Int : x = tail + count + 1
        BY <2>1
      <3>2. x % Capacity = IF x < Capacity THEN x ELSE x - Capacity
        BY <1>1, <2>1, <3>1, Wrap
      <3> QED
        BY <1>1, <1>2, <3>1, <3>2 DEF Cell
    <2>3. head' = IF head + 1 = Capacity THEN 0 ELSE head + 1
      BY <1>1, <1>2, AdvanceWraps
    <2> QED
      BY <1>1, <1>2, <2>1, <2>2, <2>3 DEF Cell
  <1>5. head' \in Cell
    BY <1>1, <1>2, AdvanceWraps
  <1>6. \A i \in 1..(count + 1) : /\ Place(i)' = Place(i)
                                  /\ messages'[Place(i)] = IF i = count + 1 THEN arg
                                                           ELSE messages[Place(i)]
    BY <1>1, <1>2, <1>3 DEF Place
  <1>7. RingConsistent'
    BY <1>1, <1>4, <1>6 DEF RingConsistent, Place
  <1>8. Contents' = Append(Contents, arg)
    <2>1. Contents' = [i \in 1..(count + 1) |-> messages'[Place(i)]]
      BY <1>1, <1>6 DEF Contents, Place
    <2>2. /\ Contents \in Seq(Msg) /\ Len(Contents) = count
          /\ \A i \in 1..count : Contents[i] = messages[Place(i)]
      BY ContentsType
    <2>3. \A i \in 1..count : i \in 1..(count + 1) /\ i # count + 1
      BY <1>1
    <2>4. /\ \A i \in 1..count : Contents'[i] = Contents[i]
          /\ Contents'[count + 1] = arg
      BY <1>2, <1>6, <2>1, <2>2, <2>3
    <2>5. DOMAIN Contents' = 1..(count + 1) /\ Contents' = [i \in 1..(count + 1) |-> Contents'[i]]
      BY <2>1
    <2> QED
      BY <1>1, <2>2, <2>4, <2>5, IsAppend
  <1> QED
    BY <1>1, <1>2, <1>5, <1>7, <1>8

\* What a pull does to a ring that is not empty.
LEMMA RingPull ==
    ASSUME Inv, NEW t \in Thread, PullTakes(t), count >= 1
    PROVE  /\ RingConsistent' /\ tail' \in Cell /\ count' \in 0..Capacity
           /\ messages[tail] \in Msg
           /\ Contents # <<>> /\ Contents' = Tail(Contents) /\ messages[tail] = Head(Contents)
  <1>1. /\ count' = count - 1 /\ tail' = Advance(tail)
        /\ messages' = messages /\ head' = head
        /\ count \in Nat \ {0} /\ Capacity \in Nat \ {0} /\ Capacity > 0 /\ count <= Capacity
        /\ \A i \in 1..count : messages[Place(i)] \in Msg
    BY RingAssumption
    DEF Inv, RingSound, TypeOK, RingConsistent, PullTakes, Place
  <1>2. /\ \A i \in 1..(count + 1) :
              /\ Place(i) = IF tail + i - 1 < Capacity THEN tail + i - 1
                                                       ELSE tail + i - 1 - Capacity
              /\ Place(i) \in Cell
        /\ head = Place(count + 1) /\ tail \in Cell
        /\ 1 \in 1..count /\ 1 \in 1..(count + 1)
    BY <1>1, Places
  <1>3. tail' = (IF tail + 1 = Capacity THEN 0 ELSE tail + 1) /\ tail' \in Cell
    BY <1>1, <1>2, AdvanceWraps
  <1>4. \A i \in 1..count :
          /\ tail' + i - 1 \in 0..(2 * Capacity - 1)
          /\ Place(i)' = IF tail' + i - 1 < Capacity THEN tail' + i - 1
                                                     ELSE tail' + i - 1 - Capacity
    <2> TAKE i \in 1..count
    <2>1. tail' + i - 1 \in 0..(2 * Capacity - 1)
      BY <1>1, <1>2, <1>3 DEF Cell
    <2>2. PICK x \in Int : x = tail' + i - 1
      BY <2>1
    <2>3. x % Capacity = IF x < Capacity THEN x ELSE x - Capacity
      BY <1>1, <2>1, <2>2, Wrap
    <2> QED
      BY <1>1, <1>3, <2>1, <2>2, <2>3 DEF Place, Cell
  <1>5. \A i \in 1..count : Place(i)' = Place(i + 1) /\ i + 1 \in 1..(count + 1)
    BY <1>1, <1>2, <1>3, <1>4 DEF Cell
  <1>6. /\ Place(1) = tail
        /\ (tail' + count - 1) % Capacity = (tail' + count') % Capacity
        /\ count \in 1..count
    <2>1. Place(1) = tail /\ count \in 1..count
      BY <1>1, <1>2 DEF Cell
    <2>2. tail' + count - 1 = tail' + count'
      BY <1>1, <1>2, <1>3 DEF Cell
    <2> QED
      BY <2>1, <2>2
  <1>7. /\ head' = (tail' + count') % Capacity
        /\ \A i \in 1..count' : i + 1 \in 1..count /\ i \in 1..count
    <2>1. head = (tail' + count - 1) % Capacity
      BY <1>2, <1>5, <1>6 DEF Place
    <2>2. \A i \in 1..(count - 1) : i + 1 \in 1..count /\ i \in 1..count
      BY <1>1
    <2> QED
      BY <1>1, <1>6, <2>1, <2>2
  <1>8. RingConsistent'
    BY <1>1, <1>5, <1>7 DEF RingConsistent, Place
  <1>9. /\ Contents \in Seq(Msg) /\ Len(Contents) = count
        /\ \A i \in 1..count : Contents[i] = messages[Place(i)]
    BY ContentsType
  <1>10. Contents' = Tail(Contents)
    <2>1. Contents' = [i \in 1..(count - 1) |-> messages[Place(i + 1)]]
      BY <1>1, <1>5, <1>7 DEF Contents, Place
    <2>2. \A i \in 1..(count - 1) : Contents'[i] = Contents[i + 1]
      BY <1>1, <1>7, <1>9, <2>1
    <2>3. Contents # <<>>
      BY <1>1, <1>9
    <2> QED
      BY <1>9, <2>1, <2>2, <2>3, IsTail
  <1>11. messages[tail] = Head(Contents)
    BY <1>1, <1>2, <1>6, <1>9
  <1> QED
    BY <1>1, <1>2, <1>3, <1>6, <1>8, <1>9, <1>10, <1>11

\* A pull that has passed the semaphore finds the ring not empty.
LEMMA TokenMeansMessage ==
    ASSUME Inv, NEW t \in Thread, pc[t] \in {"claimed", "take"}
    PROVE  count >= 1
  <1>1. TypeOK /\ TokenAccounting /\ pc[t] \in Label
    BY DEF Inv, RingSound, TypeOK
  <1>2. IsFiniteSet(At({"claimed", "take"})) /\ t \in At({"claimed", "take"})
        /\ IsFiniteSet(At({"post"}))
    BY RingAssumption, FS_Subset DEF At
  <1>3. /\ Cardinality(At({"claimed", "take"})) \in Nat
        /\ Cardinality(At({"claimed", "take"})) >= 1
    BY <1>2, OneMoves
  <1>4. Cardinality(At({"post"})) \in Nat
    BY <1>2, FS_CardinalityType
  <1> QED
    BY <1>1, <1>3, <1>4 DEF TypeOK, TokenAccounting

(***************************************************************************)
(* One lemma for each action                                               *)
(***************************************************************************)

LEMMA InitInv == Init => Inv
  <1> SUFFICES ASSUME Init PROVE Inv
    OBVIOUS
  <1>1. TypeOK /\ MuxOwned /\ ArgReady
    BY RingAssumption DEF Init, TypeOK, Code, Label, MuxOwned, ArgReady, Cell
  <1>2. TokenAccounting
    <2>1. At({"claimed", "take"}) = {} /\ At({"post"}) = {}
      BY DEF Init, At
    <2> QED
      BY <2>1, FS_EmptySet DEF Init, TokenAccounting
  <1>3. RingConsistent
    <2>1. Capacity > 0 => 0 % Capacity = 0
      BY RingAssumption, Wrap
    <2> QED
      BY <2>1, RingAssumption DEF Init, RingConsistent
  <1> QED
    BY <1>1, <1>2, <1>3 DEF Inv, RingSound

\* A step that leaves the ring alone and takes the token, if there is one, along.
LEMMA QuietStep ==
    ASSUME Inv, NEW t \in Thread, NEW l \in Label, Goto(t, l),
           UNCHANGED <<messages, count, head, tail>>,
           not_empty' \in Nat,
           not_empty' - not_empty
             = (IF pc[t] \in {"claimed", "take"} THEN 1 ELSE 0)
               - (IF l \in {"claimed", "take"} THEN 1 ELSE 0)
               + (IF pc[t] = "post" THEN 1 ELSE 0) - (IF l = "post" THEN 1 ELSE 0)
    PROVE  TokenAccounting' /\ RingConsistent'
  <1>1. RingConsistent'
    BY DEF Inv, RingSound, RingConsistent
  <1>2. TypeOK /\ TokenAccounting /\ not_empty \in Nat /\ count \in Int
    BY DEF Inv, RingSound, TypeOK
  <1>3. TokenAccounting'
    <2> DEFINE claims == Cardinality(At({"claimed", "take"}))
               posts == Cardinality(At({"post"}))
    <2>1. /\ claims \in Nat /\ posts \in Nat
          /\ claims' = claims + (IF l \in {"claimed", "take"} THEN 1 ELSE 0)
                              - (IF pc[t] \in {"claimed", "take"} THEN 1 ELSE 0)
          /\ posts' = posts + (IF l = "post" THEN 1 ELSE 0) - (IF pc[t] = "post" THEN 1 ELSE 0)
      BY <1>2, TokensMove
    <2>2. not_empty + claims + posts = count
      BY <1>2 DEF TokenAccounting
    <2> HIDE DEF claims, posts
    <2>3. (not_empty + claims + posts)' = count'
      <3> DEFINE in  == IF l \in {"claimed", "take"} THEN 1 ELSE 0
                 out == IF pc[t] \in {"claimed", "take"} THEN 1 ELSE 0
                 post == IF l = "post" THEN 1 ELSE 0
                 done == IF pc[t] = "post" THEN 1 ELSE 0
      <3>1. {in, out, post, done} \subseteq Int
        OBVIOUS
      <3>2. /\ claims' = claims + in - out
            /\ posts' = posts + post - done
            /\ not_empty' - not_empty = out - in + done - post
        BY <2>1
      <3> HIDE DEF in, out, post, done
      <3>3. not_empty' = not_empty + out - in + done - post
        BY <1>2, <3>1, <3>2
      <3>4. not_empty' + claims' + posts' = not_empty + claims + posts
        BY <1>2, <2>1, <3>1, <3>2, <3>3
      <3> QED
        BY <2>2, <3>4
    <2> QED
      BY <2>3 DEF TokenAccounting, claims, posts
  <1> QED
    BY <1>1, <1>3

LEMMA PushLockInv ==
    ASSUME Inv, NEW t \in Thread, NEW m \in Msg, PushLock(t, m)
    PROVE  Inv'
  <1>1. Goto(t, "push") /\ pc[t] = "idle" /\ "push" \in Label /\ TypeOK
    BY DEF PushLock, Label, Inv, RingSound
  <1>2. /\ MuxOwned' /\ ArgReady' /\ mux' \in Thread \cup {NoThread} /\ pc' \in [Thread -> Label]
    <2>1. mux = NoThread /\ mux' = t /\ arg' \in Msg
      BY DEF PushLock
    <2>2. \A u \in Thread \ {t} : pc[u] # "push"
      BY <2>1, RingAssumption DEF Inv, MuxOwned
    <2> QED
      BY <1>1, <2>1, <2>2, MuxMoves
  <1>3. TokenAccounting' /\ RingConsistent'
    BY <1>1, QuietStep DEF PushLock, TypeOK
  <1>4. TypeOK'
    BY <1>1, <1>2 DEF PushLock, TypeOK
  <1> QED
    BY <1>2, <1>3, <1>4 DEF Inv, RingSound

LEMMA PushStoresInv ==
    ASSUME Inv, NEW t \in Thread, PushStores(t)
    PROVE  Inv'
  <1>1. /\ Goto(t, "post") /\ pc[t] = "push" /\ "post" \in Label /\ TypeOK /\ TokenAccounting
        /\ count' = count + 1 /\ not_empty' = not_empty /\ mux' = mux /\ tail' = tail
        /\ arg' = NoMsg /\ Return(t, "OK", NoMsg)
    BY DEF PushStores, AfterPush, Label, Inv, RingSound
  <1>2. /\ MuxOwned' /\ ArgReady' /\ mux' \in Thread \cup {NoThread} /\ pc' \in [Thread -> Label]
    <2>1. mux = t /\ \A u \in Thread \ {t} : pc[u] # "push"
      BY <1>1 DEF Inv, MuxOwned
    <2> QED
      BY <1>1, <2>1, MuxMoves
  <1>3. TokenAccounting'
    BY <1>1, TokensMove DEF TokenAccounting, TypeOK
  <1>4. TypeOK' /\ RingConsistent'
    BY <1>1, <1>2, RingPush DEF TypeOK, Return, Code
  <1> QED
    BY <1>2, <1>3, <1>4 DEF Inv, RingSound

LEMMA PushRefusesInv ==
    ASSUME Inv, NEW t \in Thread, PushRefuses(t)
    PROVE  Inv'
  <1>1. /\ Goto(t, "unlock") /\ pc[t] = "push" /\ "unlock" \in Label /\ TypeOK
        /\ UNCHANGED <<messages, count, head, tail, mux, not_empty>>
        /\ arg \in Msg /\ arg' = NoMsg /\ Return(t, "EFULL", arg)
    BY DEF PushRefuses, AfterPush, Label, Inv, RingSound, ArgReady
  <1>2. /\ MuxOwned' /\ ArgReady' /\ mux' \in Thread \cup {NoThread} /\ pc' \in [Thread -> Label]
    <2>1. mux = t /\ \A u \in Thread \ {t} : pc[u] # "push"
      BY <1>1 DEF Inv, MuxOwned
    <2> QED
      BY <1>1, <2>1, MuxMoves
  <1>3. TokenAccounting' /\ RingConsistent'
    BY <1>1, QuietStep DEF TypeOK
  <1>4. TypeOK'
    BY <1>1, <1>2 DEF TypeOK, Return, Code
  <1> QED
    BY <1>2, <1>3, <1>4 DEF Inv, RingSound

LEMMA PushPostInv ==
    ASSUME Inv, NEW t \in Thread, PushPost(t)
    PROVE  Inv'
  <1>1. /\ Goto(t, "unlock") /\ pc[t] = "post" /\ "unlock" \in Label /\ TypeOK
        /\ not_empty \in Nat /\ not_empty' = not_empty + 1
        /\ UNCHANGED <<messages, count, head, tail, mux, arg, ret>>
    BY DEF PushPost, Label, Inv, RingSound, TypeOK
  <1>2. /\ MuxOwned' /\ ArgReady' /\ mux' \in Thread \cup {NoThread} /\ pc' \in [Thread -> Label]
    <2>1. mux = t
      BY <1>1 DEF Inv, MuxOwned
    <2> QED
      BY <1>1, <2>1, MuxMoves
  <1>3. TokenAccounting' /\ RingConsistent'
    BY <1>1, QuietStep
  <1>4. TypeOK'
    BY <1>1, <1>2 DEF TypeOK
  <1> QED
    BY <1>2, <1>3, <1>4 DEF Inv, RingSound

LEMMA PullWaitInv ==
    ASSUME Inv, NEW t \in Thread, PullWait(t)
    PROVE  Inv'
  <1>1. /\ Goto(t, "claimed") /\ pc[t] = "idle" /\ "claimed" \in Label /\ TypeOK
        /\ not_empty \in Nat /\ not_empty' = not_empty - 1 /\ not_empty' \in Nat
        /\ UNCHANGED <<messages, count, head, tail, mux, arg, ret>>
    BY DEF PullWait, Label, Inv, RingSound, TypeOK
  <1>2. /\ MuxOwned' /\ ArgReady' /\ mux' \in Thread \cup {NoThread} /\ pc' \in [Thread -> Label]
    BY <1>1, MuxMoves
  <1>3. TokenAccounting' /\ RingConsistent'
    BY <1>1, QuietStep
  <1>4. TypeOK'
    BY <1>1, <1>2 DEF TypeOK
  <1> QED
    BY <1>2, <1>3, <1>4 DEF Inv, RingSound

LEMMA PullFailsInv ==
    ASSUME Inv, NEW t \in Thread, PullFails(t)
    PROVE  Inv'
  <1>1. At({"claimed", "take"})' = At({"claimed", "take"}) /\ At({"post"})' = At({"post"})
    BY DEF PullFails, At
  <1> QED
    BY <1>1
    DEF PullFails, Return, Code, Inv, RingSound, TypeOK, TokenAccounting, RingConsistent,
        MuxOwned, ArgReady

LEMMA PullLockInv ==
    ASSUME Inv, NEW t \in Thread, PullLock(t)
    PROVE  Inv'
  <1>1. /\ Goto(t, "take") /\ pc[t] = "claimed" /\ "take" \in Label /\ TypeOK
        /\ mux = NoThread /\ mux' = t
        /\ UNCHANGED <<messages, count, head, tail, not_empty, arg, ret>>
    BY DEF PullLock, Label, Inv, RingSound
  <1>2. /\ MuxOwned' /\ ArgReady' /\ mux' \in Thread \cup {NoThread} /\ pc' \in [Thread -> Label]
    BY <1>1, MuxMoves
  <1>3. TokenAccounting' /\ RingConsistent'
    BY <1>1, QuietStep DEF TypeOK
  <1>4. TypeOK'
    BY <1>1, <1>2 DEF TypeOK
  <1> QED
    BY <1>2, <1>3, <1>4 DEF Inv, RingSound

LEMMA PullTakesInv ==
    ASSUME Inv, NEW t \in Thread, PullTakes(t)
    PROVE  Inv'
  <1>1. /\ Goto(t, "unlock") /\ pc[t] = "take" /\ "unlock" \in Label /\ TypeOK /\ TokenAccounting
        /\ count' = count - 1 /\ Return(t, "PULLED", messages[tail])
        /\ UNCHANGED <<messages, head, mux, not_empty, arg>>
    BY DEF PullTakes, Label, Inv, RingSound
  <1>2. /\ MuxOwned' /\ ArgReady' /\ mux' \in Thread \cup {NoThread} /\ pc' \in [Thread -> Label]
    <2>1. mux = t
      BY <1>1 DEF Inv, MuxOwned
    <2> QED
      BY <1>1, <2>1, MuxMoves
  <1>3. TokenAccounting'
    BY <1>1, TokensMove DEF TokenAccounting, TypeOK
  <1>4. TypeOK' /\ RingConsistent'
    <2>1. count >= 1
      BY <1>1, TokenMeansMessage
    <2> QED
      BY <1>1, <1>2, <2>1, RingPull DEF TypeOK, Return, Code
  <1> QED
    BY <1>2, <1>3, <1>4 DEF Inv, RingSound

LEMMA UnlockInv ==
    ASSUME Inv, NEW t \in Thread, Unlock(t)
    PROVE  Inv'
  <1>1. /\ Goto(t, "idle") /\ pc[t] = "unlock" /\ "idle" \in Label /\ TypeOK
        /\ mux' = NoThread
        /\ UNCHANGED <<messages, count, head, tail, not_empty, arg, ret>>
    BY DEF Unlock, Label, Inv, RingSound
  <1>2. /\ MuxOwned' /\ ArgReady' /\ mux' \in Thread \cup {NoThread} /\ pc' \in [Thread -> Label]
    BY <1>1, MuxMoves
  <1>3. TokenAccounting' /\ RingConsistent'
    BY <1>1, QuietStep DEF TypeOK
  <1>4. TypeOK'
    BY <1>1, <1>2 DEF TypeOK
  <1> QED
    BY <1>2, <1>3, <1>4 DEF Inv, RingSound

LEMMA NextInv == Inv /\ [Next]_vars => Inv'
  <1> SUFFICES ASSUME Inv, [Next]_vars PROVE Inv'
    OBVIOUS
  <1>1. ASSUME NEW t \in Thread, NEW m \in Msg, PushLock(t, m) PROVE Inv'
    BY <1>1, PushLockInv
  <1>2. ASSUME NEW t \in Thread, PushBody(t) PROVE Inv'
    BY <1>2, PushStoresInv, PushRefusesInv DEF PushBody
  <1>3. ASSUME NEW t \in Thread, PushPost(t) PROVE Inv'
    BY <1>3, PushPostInv
  <1>4. ASSUME NEW t \in Thread, PullWait(t) PROVE Inv'
    BY <1>4, PullWaitInv
  <1>5. ASSUME NEW t \in Thread, PullFails(t) PROVE Inv'
    BY <1>5, PullFailsInv
  <1>6. ASSUME NEW t \in Thread, PullLock(t) PROVE Inv'
    BY <1>6, PullLockInv
  <1>7. ASSUME NEW t \in Thread, PullTakes(t) PROVE Inv'
    BY <1>7, PullTakesInv
  <1>8. ASSUME NEW t \in Thread, Unlock(t) PROVE Inv'
    BY <1>8, UnlockInv
  <1>9. ASSUME UNCHANGED vars PROVE Inv'
    <2>1. At({"claimed", "take"})' = At({"claimed", "take"}) /\ At({"post"})' = At({"post"})
      BY <1>9 DEF vars, At
    <2> QED
      BY <1>9, <2>1
      DEF vars, Inv, RingSound, TypeOK, TokenAccounting, RingConsistent, MuxOwned, ArgReady
  <1> QED
    BY <1>1, <1>2, <1>3, <1>4, <1>5, <1>6, <1>7, <1>8, <1>9 DEF Next

(***************************************************************************)
(* Theorems                                                                *)
(***************************************************************************)

\* The inductive invariant holds in every reachable state.
THEOREM Invariance == Spec => []Inv
  BY InitInv, NextInv, PTL DEF Spec

\* The ring is sound: its indices and its counter agree, every occupied cell holds
\* a message, and there is one token for each (psqueue_ll.c:36-76).
THEOREM RingIsSound == Spec => []RingSound
  <1>1. Inv => RingSound
    BY DEF Inv
  <1> QED
    BY <1>1, Invariance, PTL

(***************************************************************************)
(* The ring implements BoundedQueue with the one priority 0: a push takes  *)
(* effect when it writes the cell, a pull reserves when it passes the      *)
(* semaphore and takes when it reads the cell.                             *)
(***************************************************************************)

\* A queue with one list stores as many messages as the list is long.
LEMMA OneListStored ==
    ASSUME NEW M, NEW s \in Seq(M)
    PROVE  Stored([p \in {0} |-> s]) = Len(s)
  <1> DEFINE b == [p \in {0} |-> s]
             f == [i \in 1..Len(s) |-> <<0, i>>]
  <1>1. Len(s) \in Nat
    OBVIOUS
  <1>2. DOMAIN b = {0} /\ b[0] = s
    OBVIOUS
  <1>3. \A x : x \in Slots(b) <=> \E i \in 1..Len(s) : x = <<0, i>>
    BY <1>2, SlotsElements
  <1>4. f \in Bijection(1..Len(s), Slots(b))
    <2>1. f \in [1..Len(s) -> Slots(b)]
      BY <1>3
    <2>2. \A i, j \in 1..Len(s) : f[i] = f[j] => i = j
      OBVIOUS
    <2>3. \A x \in Slots(b) : \E i \in 1..Len(s) : f[i] = x
      BY <1>3
    <2> QED
      BY <2>1, <2>2, <2>3 DEF Bijection, Injection, Surjection, IsInjective
  <1>5. IsFiniteSet(1..Len(s)) /\ Cardinality(1..Len(s)) = Len(s)
    BY <1>1, FS_Interval
  <1>6. Cardinality(Slots(b)) = Len(s)
    BY <1>4, <1>5, FS_Bijection DEF ExistsBijection
  <1> QED
    BY <1>6 DEF Stored

\* The instance has copies of the operators on lists; they are the same.
LEMMA SameOperators ==
    /\ Abstract!Prio = {0}
    /\ \A b : Abstract!Stored(b) = Stored(b)
    /\ \A b, p, m : Abstract!Insert(b, p, m) = Insert(b, p, m)
    /\ \A b, p : Abstract!RemoveOldest(b, p) = RemoveOldest(b, p)
    /\ \A b, p : Abstract!Oldest(b, p) = Oldest(b, p)
    /\ \A b, p : Abstract!IsHighest(b, p) <=> IsHighest(b, p)
    /\ \A t, c, m : Abstract!Result(t, c, m) = [thread |-> t, code |-> c, msg |-> m]
    /\ \A S : Abstract!Empty(S) = Empty(S)
    /\ \A S : Abstract!Cardinality(S) = Cardinality(S)
  <1>1. Abstract!Prio = {0}
    BY DEF Abstract!Prio
  <1>2. \A b : Abstract!Slots(b) = Slots(b)
    BY DEF Abstract!Slots, Slots
  <1>3. \A S : Abstract!Cardinality(S) = Cardinality(S)
    BY DEF Abstract!Cardinality, Cardinality
  <1>4. \A b : Abstract!Stored(b) = Stored(b)
    BY <1>2, <1>3 DEF Abstract!Stored, Stored
  <1>5. \A b, p, m : Abstract!Insert(b, p, m) = Insert(b, p, m)
    BY DEF Abstract!Insert, Insert
  <1>6. \A b, p : Abstract!RemoveOldest(b, p) = RemoveOldest(b, p)
    BY DEF Abstract!RemoveOldest, RemoveOldest
  <1>7. \A b, p : Abstract!Oldest(b, p) = Oldest(b, p)
    BY DEF Abstract!Oldest, Oldest
  <1>8. \A b, p : Abstract!IsHighest(b, p) <=> IsHighest(b, p)
    BY DEF Abstract!IsHighest, IsHighest
  <1>9. \A t, c, m : Abstract!Result(t, c, m) = [thread |-> t, code |-> c, msg |-> m]
    BY DEF Abstract!Result
  <1>10. \A S : Abstract!Empty(S) = Empty(S)
    BY DEF Abstract!Empty, Empty
  <1> QED
    BY <1>1, <1>3, <1>4, <1>5, <1>6, <1>7, <1>8, <1>9, <1>10

\* The abstract queue's only list.
Content == [p \in {0} |-> Contents]

LEMMA ContentStored ==
    ASSUME Inv
    PROVE  Stored(Content) = count
  BY ContentsType, OneListStored DEF Content

LEMMA InitImplements == Init => Abstract!Init
  <1> SUFFICES ASSUME Init PROVE Abstract!Init
    OBVIOUS
  <1>1. At({"claimed", "take"}) = {} /\ Content = Empty({0})
    BY DEF Init, At, Content, Contents, Empty
  <1> QED
    BY <1>1, SameOperators DEF Init, Abstract!Init, Content

\* A step that moves a thread between labels outside a pull changes no claim.
LEMMA ClaimsStay ==
    ASSUME TypeOK, NEW t \in Thread, NEW l \in Label, Goto(t, l),
           l \in {"claimed", "take"} <=> pc[t] \in {"claimed", "take"}
    PROVE  At({"claimed", "take"})' = At({"claimed", "take"})
  BY DEF At, Goto, TypeOK

LEMMA PushImplements ==
    ASSUME Inv, NEW t \in Thread, PushBody(t)
    PROVE  \E m \in Msg, p \in {0} : Abstract!Push(t, m, p)
  <1>1. /\ TypeOK /\ arg \in Msg /\ pc[t] = "push"
        /\ count \in Nat /\ Capacity \in Nat /\ count <= Capacity
        /\ Stored(Content) = count /\ Abstract!Stored(Content) = count
    BY ContentStored, SameOperators, RingAssumption
    DEF Inv, RingSound, TypeOK, ArgReady, PushBody, PushStores, PushRefuses
  <1>2. At({"claimed", "take"})' = At({"claimed", "take"})
    <2>1. PICK l \in {"post", "unlock"} : Goto(t, l)
      BY DEF PushBody, PushStores, PushRefuses, AfterPush
    <2> QED
      BY <1>1, <2>1, ClaimsStay DEF Label
  <1>3. CASE PushStores(t)
    <2>1. Content' = Insert(Content, 0, arg)
      BY <1>3, RingPush DEF Content, Insert
    <2>2. Abstract!PushStores(t, arg, 0)
      BY <1>1, <1>2, <1>3, <2>1, SameOperators
      DEF PushStores, Abstract!PushStores, Return, Content
    <2> QED
      BY <1>1, <2>2 DEF Abstract!Push
  <1>4. CASE PushRefuses(t)
    <2>1. Stored(Content) = Capacity /\ Contents' = Contents
      BY <1>1, <1>4 DEF PushRefuses, Contents
    <2>2. \A v \in {0} : ~ v < 0
      OBVIOUS
    <2>3. Abstract!PushRefuses(t, arg, 0)
      BY <1>1, <1>2, <1>4, <2>1, <2>2, SameOperators
      DEF PushRefuses, Abstract!PushRefuses, Return, Content
    <2> QED
      BY <1>1, <2>3 DEF Abstract!Push
  <1> QED
    BY <1>3, <1>4 DEF PushBody

LEMMA ClaimImplements ==
    ASSUME Inv, NEW t \in Thread, PullWait(t)
    PROVE  Abstract!Claim(t)
  <1>1. /\ TypeOK /\ TokenAccounting
        /\ Goto(t, "claimed") /\ pc[t] = "idle" /\ not_empty > 0
    BY DEF Inv, RingSound, PullWait
  <1>2. /\ At({"claimed", "take"})' = At({"claimed", "take"}) \cup {t}
        /\ t \notin At({"claimed", "take"})
    BY <1>1 DEF At, Goto, TypeOK
  <1>3. Cardinality(At({"claimed", "take"})) < count
    <2>1. IsFiniteSet(At({"claimed", "take"})) /\ IsFiniteSet(At({"post"}))
      BY RingAssumption, FS_Subset DEF At
    <2>2. /\ Cardinality(At({"claimed", "take"})) \in Nat
          /\ Cardinality(At({"post"})) \in Nat /\ not_empty \in Nat
      BY <1>1, <2>1, FS_CardinalityType DEF TypeOK
    <2> QED
      BY <1>1, <2>2 DEF TokenAccounting
  <1>4. Contents' = Contents
    BY DEF PullWait, Contents
  <1> QED
    BY <1>2, <1>3, <1>4, ContentStored, SameOperators DEF PullWait, Abstract!Claim, Content

LEMMA TakeImplements ==
    ASSUME Inv, NEW t \in Thread, PullTakes(t)
    PROVE  Abstract!Take(t)
  <1>1. TypeOK /\ Goto(t, "unlock") /\ pc[t] = "take" /\ count >= 1
    BY TokenMeansMessage DEF Inv, RingSound, PullTakes
  <1>2. /\ At({"claimed", "take"})' = At({"claimed", "take"}) \ {t}
        /\ t \in At({"claimed", "take"})
    BY <1>1 DEF At, Goto, TypeOK
  <1>3. /\ IsHighest(Content, 0)
        /\ Content' = RemoveOldest(Content, 0)
        /\ ret' = [thread |-> t, code |-> "PULLED", msg |-> Oldest(Content, 0)]
    <2>1. Contents # <<>> /\ Contents' = Tail(Contents) /\ messages[tail] = Head(Contents)
      BY <1>1, RingPull
    <2>2. Content[0] = Contents /\ DOMAIN Content = {0} /\ \A q \in {0} : ~ q > 0
      BY DEF Content
    <2>3. IsHighest(Content, 0)
      BY <2>1, <2>2, Zenon DEF IsHighest
    <2>4. Content' = RemoveOldest(Content, 0)
      BY <2>1 DEF Content, RemoveOldest
    <2>5. ret' = [thread |-> t, code |-> "PULLED", msg |-> Oldest(Content, 0)]
      BY <2>1, <2>2 DEF Oldest, PullTakes, Return
    <2> QED
      BY <2>3, <2>4, <2>5
  <1> QED
    BY <1>2, <1>3, SameOperators DEF Abstract!Take, Content

LEMMA StepImplements == Inv /\ [Next]_vars => [Abstract!Next]_(Abstract!vars)
  <1> SUFFICES ASSUME Inv, [Next]_vars PROVE [Abstract!Next]_(Abstract!vars)
    OBVIOUS
  <1>0. TypeOK
    BY DEF Inv, RingSound
  <1>1. ASSUME NEW t \in Thread, NEW l \in Label, Goto(t, l),
               l \in {"claimed", "take"} <=> pc[t] \in {"claimed", "take"},
               UNCHANGED <<messages, count, tail, ret>>
        PROVE  UNCHANGED Abstract!vars
    BY <1>0, <1>1, ClaimsStay DEF Abstract!vars, Contents
  <1>2. ASSUME NEW t \in Thread, NEW m \in Msg, PushLock(t, m)
        PROVE  UNCHANGED Abstract!vars
    BY <1>1, <1>2 DEF PushLock, Label
  <1>3. ASSUME NEW t \in Thread, PushBody(t) PROVE Abstract!Next
    BY <1>3, PushImplements, SameOperators DEF Abstract!Next
  <1>4. ASSUME NEW t \in Thread, PushPost(t) PROVE UNCHANGED Abstract!vars
    BY <1>1, <1>4 DEF PushPost, Label
  <1>5. ASSUME NEW t \in Thread, PullWait(t) PROVE Abstract!Next
    BY <1>5, ClaimImplements DEF Abstract!Next
  <1>6. ASSUME NEW t \in Thread, PullFails(t) PROVE Abstract!Next
    <2>1. t \notin At({"claimed", "take"})
      BY <1>6 DEF PullFails, At
    <2>2. At({"claimed", "take"})' = At({"claimed", "take"}) /\ Contents' = Contents
      BY <1>6 DEF PullFails, At, Contents
    <2>3. Abstract!Timeout(t)
      BY <1>6, <2>1, <2>2, SameOperators DEF PullFails, Abstract!Timeout, Return
    <2> QED
      BY <2>3 DEF Abstract!Next
  <1>7. ASSUME NEW t \in Thread, PullLock(t) PROVE UNCHANGED Abstract!vars
    BY <1>1, <1>7 DEF PullLock, Label
  <1>8. ASSUME NEW t \in Thread, PullTakes(t) PROVE Abstract!Next
    BY <1>8, TakeImplements DEF Abstract!Next
  <1>9. ASSUME NEW t \in Thread, Unlock(t) PROVE UNCHANGED Abstract!vars
    BY <1>1, <1>9 DEF Unlock, Label
  <1>10. ASSUME UNCHANGED vars PROVE UNCHANGED Abstract!vars
    BY <1>10 DEF vars, Abstract!vars, At, Contents
  <1> QED
    BY <1>2, <1>3, <1>4, <1>5, <1>6, <1>7, <1>8, <1>9, <1>10 DEF Next

\* The ring, with its mutex and its semaphore, does what the atomic queue of
\* BoundedQueue does (psqueue_ll.c as a whole).
THEOREM Refinement == Spec => Refines
  BY InitImplements, StepImplements, Invariance, PTL DEF Spec, Refines, Abstract!Spec

=============================================================================
