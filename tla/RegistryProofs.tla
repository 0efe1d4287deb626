---------------------------- MODULE RegistryProofs ----------------------------
(***************************************************************************)
(* Proofs about the lists of utlist.h, the table of uthash.h and what      *)
(* pubsub.c does with them, for all finite sets of subscribers and topics, *)
(* every hash function and a call of ps_num_subs at any time.              *)
(*                                                                         *)
(* First the recursions that the models are built from (a chain of         *)
(* pointers, a bucket count, a rehash, FlattenSeq) are given their         *)
(* equations.  Then each operation on a container is shown to do to its    *)
(* pointers what an operation on a sequence does to a sequence: DL_APPEND  *)
(* and DL_DELETE, HASH_FIND, HASH_ADD with its expansion, HASH_DEL.  On    *)
(* these rest one invariant of Registry, which says what sequences the     *)
(* pointers stand for, and with it every safety property of Registry and   *)
(* the refinement of TopicRegistry.                                        *)
(***************************************************************************)
EXTENDS Registry, FiniteSetTheorems, SequenceTheorems, WellFoundedInduction, TLAPS

(***************************************************************************)
(* Recursion                                                               *)
(***************************************************************************)

\* A set of numbers that has 0, and with a number the next, has them all.
LEMMA SetInduction ==
    ASSUME NEW B, 0 \in B, \A n \in Nat : n \in B => n + 1 \in B
    PROVE  \A n \in Nat : n \in B
  <1> DEFINE C == {n \in Nat : n \notin B}
  <1>1. CASE C = {}
    BY <1>1
  <1>2. CASE C # {}
    <2>1. PICK i \in C : \A j \in C : ~(<<j, i>> \in OpToRel(<, Nat))
      BY <1>2, NatLessThanWellFounded, WFMin
    <2>2. i \in Nat /\ i \notin B /\ i # 0
      BY <2>1
    <2>3. i - 1 \in Nat /\ i - 1 < i /\ i - 1 + 1 = i
      BY <2>2
    <2>4. i - 1 \in C
      BY <2>2, <2>3
    <2> QED
      BY <2>1, <2>2, <2>3, <2>4 DEF OpToRel
  <1> QED
    BY <1>1, <1>2

\* g is what the recursion with the step F computes from a up to n.
Computes(g, A, a, F, n) ==
    /\ g \in [0..n -> A]
    /\ g[0] = a
    /\ \A i \in Nat : i < n => g[i + 1] = F[<<i, g[i]>>]

Agree(g, h, n) == \A i \in 0..n : g[i] = h[i]

\* There is only one, and a longer one agrees with it.
LEMMA ComputesAgree ==
    ASSUME NEW A, NEW a \in A, NEW F \in [Nat \X A -> A],
           NEW n \in Nat, NEW m \in Nat, n <= m, NEW g, NEW h,
           Computes(g, A, a, F, n), Computes(h, A, a, F, m)
    PROVE  Agree(g, h, n)
  <1> DEFINE B == {i \in Nat : i <= n => g[i] = h[i]}
  <1>1. 0 \in B
    BY DEF Computes
  <1>2. ASSUME NEW i \in Nat, i \in B PROVE i + 1 \in B
    <2>1. CASE i < n
      <3>1. g[i + 1] = F[<<i, g[i]>>] /\ h[i + 1] = F[<<i, h[i]>>]
        BY <2>1 DEF Computes
      <3> QED
        BY <1>2, <2>1, <3>1
    <2>2. CASE ~(i < n)
      BY <2>2
    <2> QED
      BY <2>1, <2>2
  <1>3. \A i \in Nat : i \in B
    <2> HIDE DEF B
    <2> QED
      BY <1>1, <1>2, SetInduction
  <1> QED
    BY <1>3 DEF Agree

\* f is what the recursion with the step F computes from a.
Recurs(f, A, a, F) ==
    f \in [Nat -> A] /\ f[0] = a /\ \A n \in Nat : f[n + 1] = F[<<n, f[n]>>]

\* A step, taken any number of times.
LEMMA NatRecursion ==
    ASSUME NEW A, NEW a \in A, NEW F \in [Nat \X A -> A]
    PROVE  \E f : Recurs(f, A, a, F)
  <1> DEFINE B == {n \in Nat : \E g : Computes(g, A, a, F, n)}
  <1>1. 0 \in B
    <2>1. Computes([i \in 0..0 |-> a], A, a, F, 0)
      BY DEF Computes
    <2> QED
      BY <2>1
  <1>2. ASSUME NEW n \in Nat, n \in B PROVE n + 1 \in B
    <2>1. PICK g : Computes(g, A, a, F, n)
      BY <1>2
    <2> DEFINE h == [i \in 0..(n + 1) |-> IF i = n + 1 THEN F[<<n, g[n]>>] ELSE g[i]]
    <2>2. g[n] \in A /\ F[<<n, g[n]>>] \in A
      BY <2>1 DEF Computes
    <2>3. h \in [0..(n + 1) -> A]
      BY <2>1, <2>2 DEF Computes
    <2>4. h[0] = a
      BY <2>1 DEF Computes
    <2>5. ASSUME NEW i \in Nat, i < n + 1 PROVE h[i + 1] = F[<<i, h[i]>>]
      <3>1. CASE i = n
        <4>1. h[i + 1] = F[<<n, g[n]>>] /\ h[i] = g[n]
          BY <3>1
        <4> QED
          BY <3>1, <4>1
      <3>2. CASE i < n
        <4>1. h[i + 1] = g[i + 1] /\ h[i] = g[i]
          BY <3>2
        <4>2. g[i + 1] = F[<<i, g[i]>>]
          BY <2>1, <3>2 DEF Computes
        <4> QED
          BY <4>1, <4>2
      <3> QED
        BY <2>5, <3>1, <3>2
    <2>6. Computes(h, A, a, F, n + 1)
      <3> HIDE DEF h
      <3> QED
        BY <2>3, <2>4, <2>5 DEF Computes
    <2> QED
      BY <2>6
  <1>3. \A n \in Nat : n \in B
    <2> HIDE DEF B
    <2> QED
      BY <1>1, <1>2, SetInduction
  <1> DEFINE G == [n \in Nat |-> CHOOSE g : Computes(g, A, a, F, n)]
             f == [n \in Nat |-> G[n][n]]
  <1>4. \A n \in Nat : Computes(G[n], A, a, F, n)
    BY <1>3
  <1> HIDE DEF G
  <1>5. \A n \in Nat : G[n][n] \in A
    BY <1>4 DEF Computes
  <1>6. f \in [Nat -> A]
    BY <1>5
  <1>7. f[0] = a
    BY <1>4 DEF Computes
  <1>8. ASSUME NEW n \in Nat PROVE f[n + 1] = F[<<n, f[n]>>]
    <2>1. G[n + 1][n + 1] = F[<<n, G[n + 1][n]>>]
      BY <1>4 DEF Computes
    <2>2. G[n][n] = G[n + 1][n]
      <3>1. Computes(G[n], A, a, F, n) /\ Computes(G[n + 1], A, a, F, n + 1)
            /\ n + 1 \in Nat /\ n <= n + 1
        BY <1>4
      <3>2. Agree(G[n], G[n + 1], n)
        BY <3>1, ComputesAgree
      <3> QED
        BY <3>2 DEF Agree
    <2> QED
      BY <2>1, <2>2
  <1> HIDE DEF f
  <1> QED
    BY <1>6, <1>7, <1>8 DEF Recurs

(***************************************************************************)
(* Chains of nodes                                                         *)
(***************************************************************************)

\* What Chain computes.
Follows(from, next, left, n) ==
    from[<<left, n>>] =
        IF n = NULL THEN <<>>
        ELSE IF n = Garbage \/ left = 0 THEN <<n>>
        ELSE <<n>> \o from[<<left - 1, next[n]>>]

LEMMA ChainComputes ==
    ASSUME NEW N, NEW next \in [N -> N \cup {NULL, Garbage}]
    PROVE  \E from :
              /\ \A first : Chain(first, next) = from[<<Cardinality(DOMAIN next), first>>]
              /\ \A left \in Nat : \A n \in N \cup {NULL, Garbage} : Follows(from, next, left, n)
  <1> DEFINE D == N \cup {NULL, Garbage}
             A == [D -> Seq(D)]
             a == [n \in D |-> IF n = NULL THEN <<>> ELSE <<n>>]
             step(i, f) == [n \in D |-> IF n = NULL THEN <<>>
                                        ELSE IF n = Garbage THEN <<n>>
                                        ELSE <<n>> \o f[next[n]]]
             F == [p \in Nat \X A |-> step(p[1], p[2])]
  <1>1. a \in A
    <2>1. <<>> \in Seq(D) /\ \A n \in D : <<n>> \in Seq(D)
      BY EmptySeq
    <2> QED
      BY <2>1
  <1>2. ASSUME NEW i \in Nat, NEW f \in A PROVE step(i, f) \in A
    <2>1. \A n \in D : f[n] \in Seq(D) /\ <<n>> \in Seq(D) /\ <<>> \in Seq(D)
      OBVIOUS
    <2>2. ASSUME NEW n \in D, n # NULL, n # Garbage PROVE <<n>> \o f[next[n]] \in Seq(D)
      <3>1. next[n] \in D
        BY <2>2
      <3> QED
        BY <2>1, <3>1, ConcatProperties
    <2> HIDE DEF D
    <2> QED
      BY <2>1, <2>2
  <1>3. F \in [Nat \X A -> A]
    <2> HIDE DEF A, step
    <2> QED
      BY <1>2
  <1> HIDE DEF a, F, A
  <1>4. PICK f : Recurs(f, A, a, F)
    BY <1>1, <1>3, NatRecursion
  <1>5. \A i \in Nat : f[i + 1] = step(i, f[i])
    BY <1>4 DEF F, Recurs
  <1> DEFINE it == [p \in Nat \X D |-> f[p[1]][p[2]]]
  <1>6. ASSUME NEW left \in Nat, NEW n \in D PROVE Follows(it, next, left, n)
    <2>1. it[<<left, n>>] = f[left][n]
      OBVIOUS
    <2>2. CASE left = 0
      BY <1>4, <2>1, <2>2 DEF a, Follows, Recurs
    <2>3. CASE left # 0
      <3>1. left - 1 \in Nat /\ left - 1 + 1 = left
        BY <2>3
      <3>2. f[left] = step(left - 1, f[left - 1])
        BY <1>5, <3>1
      <3>3. n \in N => it[<<left - 1, next[n]>>] = f[left - 1][next[n]]
        BY <3>1
      <3> QED
        BY <2>1, <2>3, <3>2, <3>3 DEF Follows
    <2> QED
      BY <2>2, <2>3
  <1> DEFINE body(from) ==
        [p \in Nat \X (DOMAIN next \cup {NULL, Garbage}) |->
            IF p[2] = NULL THEN <<>>
            ELSE IF p[2] = Garbage \/ p[1] = 0 THEN <<p[2]>>
            ELSE <<p[2]>> \o from[<<p[1] - 1, next[p[2]]>>]]
             chosen == CHOOSE from : from = body(from)
  <1>7. it = body(it)
    <2>1. DOMAIN next \cup {NULL, Garbage} = D
      OBVIOUS
    <2>2. \A p \in Nat \X D : it[p] = body(it)[p]
      <3>1. ASSUME NEW p \in Nat \X D PROVE it[p] = body(it)[p]
        <4>1. p = <<p[1], p[2]>> /\ p[1] \in Nat /\ p[2] \in D
          OBVIOUS
        <4>2. Follows(it, next, p[1], p[2])
          BY <1>6, <4>1
        <4> HIDE DEF it
        <4> QED
          BY <2>1, <4>1, <4>2 DEF Follows
      <3> QED
        BY <3>1
    <2>3. PICK b : b = body(it)
      <3> HIDE DEF body, it
      <3> QED
        OBVIOUS
    <2>4. b = [p \in Nat \X D |-> b[p]]
      BY <2>1, <2>3
    <2>5. \A p \in Nat \X D : it[p] = b[p]
      BY <2>2, <2>3
    <2> HIDE DEF body
    <2>6. it = b
      BY <2>4, <2>5
    <2> QED
      BY <2>3, <2>6
  <1>8. chosen = body(chosen)
    <2>1. \E from : from = body(from)
      BY <1>7
    <2> HIDE DEF body
    <2> QED
      BY <2>1
  <1>9. \A first : Chain(first, next) = chosen[<<Cardinality(DOMAIN next), first>>]
    BY DEF Chain
  <1>10. ASSUME NEW left \in Nat, NEW n \in D PROVE Follows(chosen, next, left, n)
    <2> HIDE DEF chosen
    <2>1. <<left, n>> \in Nat \X (DOMAIN next \cup {NULL, Garbage})
      OBVIOUS
    <2>2. chosen[<<left, n>>] = body(chosen)[<<left, n>>]
      BY <1>8
    <2> QED
      BY <2>1, <2>2 DEF Follows
  <1> HIDE DEF chosen
  <1> QED
    BY <1>9, <1>10

\* No node twice
Once(s) == \A i, j \in 1..Len(s) : s[i] = s[j] => i = j

\* The pointers of nodes of N: a function of N to them is a field.
Pointer(N) == N \cup {NULL, Garbage}

\* Nodes are in memory, and finitely many.
Nodes(N) == IsFiniteSet(N) /\ NULL \notin N /\ Garbage \notin N

\* The field next leads from first through the nodes of s, and then to NULL.
Leads(next, s, first) ==
    /\ first = IF s = <<>> THEN NULL ELSE s[1]
    /\ \A i \in 1..Len(s) : next[s[i]] = IF i = Len(s) THEN NULL ELSE s[i + 1]

\* A sequence without repetition is no longer than its set is large.
LEMMA OnceFits ==
    ASSUME NEW N, IsFiniteSet(N), NEW s \in Seq(N), Once(s)
    PROVE  Len(s) <= Cardinality(N) /\ Cardinality(N) \in Nat /\ Len(s) \in Nat
  <1>1. Len(s) \in Nat /\ s \in [1..Len(s) -> N]
    BY LenProperties
  <1>2. s \in Injection(1..Len(s), N)
    BY <1>1 DEF Injection, IsInjective, Once
  <1>3. Cardinality(1..Len(s)) <= Cardinality(N)
    BY <1>2, FS_Injection
  <1>4. Cardinality(1..Len(s)) = Len(s)
    BY <1>1, FS_Interval
  <1>5. Cardinality(N) \in Nat
    BY FS_CardinalityType
  <1> QED
    BY <1>1, <1>3, <1>4, <1>5

\* Chain computes the sequence through which next leads.
LEMMA ChainIs ==
    ASSUME NEW N, Nodes(N), NEW next \in [N -> Pointer(N)],
           NEW s \in Seq(N), Once(s), NEW first, Leads(next, s, first)
    PROVE  Chain(first, next) = s
  <1>1. PICK from :
           /\ \A one : Chain(one, next) = from[<<Cardinality(DOMAIN next), one>>]
           /\ \A left \in Nat : \A n \in N \cup {NULL, Garbage} : Follows(from, next, left, n)
    BY ChainComputes DEF Pointer
  <1>2. Len(s) <= Cardinality(N) /\ Cardinality(N) \in Nat /\ Len(s) \in Nat
    BY OnceFits DEF Nodes
  <1>3. \A j \in 1..Len(s) : s[j] \in N /\ s[j] # NULL /\ s[j] # Garbage
    BY ElementOfSeq DEF Nodes
  <1> DEFINE at(j)   == IF j = Len(s) + 1 THEN NULL ELSE s[j]
             rest(j) == SubSeq(s, j, Len(s))
  <1>4. PICK L \in Nat : L = Len(s)
    BY <1>2
  <1>5. at(L + 1) = NULL /\ \A j \in 1..L : at(j) = s[j]
    <2>1. \A n \in Nat : \A j \in 1..n : j # n + 1
      OBVIOUS
    <2> QED
      BY <1>4, <2>1
  <1>6. rest(L + 1) = <<>> /\ \A j \in 1..L : rest(j) = <<s[j]>> \o rest(j + 1)
    <2>1. SubSeq(s, Len(s) + 1, Len(s)) = <<>>
      BY <1>2, SubSeqEmpty
    <2>2. ASSUME NEW j \in 1..Len(s)
          PROVE  SubSeq(s, j, Len(s)) = <<s[j]>> \o SubSeq(s, j + 1, Len(s))
      <3>1. Len(s) \in j..Len(s)
        BY <1>2
      <3> QED
        BY <3>1, SubSeqRecursiveFirst
    <2> QED
      BY <1>4, <2>1, <2>2
  <1>7. first = at(1) /\ \A j \in 1..L : next[s[j]] = at(j + 1)
    <2>1. s = <<>> <=> Len(s) = 0
      BY EmptySeq, <1>2
    <2>2. \A n \in Nat : (1 = n + 1 <=> n = 0) /\ \A j \in 1..n : j = n <=> j + 1 = n + 1
      OBVIOUS
    <2> QED
      BY <1>2, <2>1, <2>2, <1>4 DEF Leads
  <1>8. rest(1) = s
    BY SubSeqFull
  <1>9. \A j \in 1..L : s[j] \in N /\ s[j] # NULL /\ s[j] # Garbage
    BY <1>3, <1>4
  <1>10. L <= Cardinality(N) /\ Cardinality(N) \in Nat
    BY <1>2, <1>4
  <1> HIDE DEF at, rest
  <1> DEFINE P(i) == i <= L => \A left \in Nat : left >= i =>
                         from[<<left, at(L - i + 1)>>] = rest(L - i + 1)
             B    == {i \in Nat : P(i)}
  <1>11. P(0)
    <2>1. ASSUME NEW left \in Nat PROVE from[<<left, NULL>>] = <<>>
      <3>1. Follows(from, next, left, NULL)
        BY <1>1
      <3> QED
        BY <3>1 DEF Follows
    <2>2. L - 0 + 1 = L + 1
      BY <1>4
    <2> QED
      BY <1>5, <1>6, <2>1, <2>2
  <1>12. ASSUME NEW i \in Nat, P(i) PROVE P(i + 1)
    <2>1. SUFFICES ASSUME i + 1 <= L, NEW left \in Nat, left >= i + 1
                   PROVE  from[<<left, at(L - (i + 1) + 1)>>] = rest(L - (i + 1) + 1)
      OBVIOUS
    <2>2. PICK j \in 1..L : L - (i + 1) + 1 = j /\ L - i + 1 = j + 1
      <3>1. L - i \in 1..L /\ L - (i + 1) + 1 = L - i
        BY <2>1
      <3> QED
        BY <3>1
    <2>3. i <= L /\ left - 1 \in Nat /\ left - 1 >= i /\ left # 0
      BY <2>1
    <2>4. from[<<left - 1, at(j + 1)>>] = rest(j + 1)
      <3>1. from[<<left - 1, at(L - i + 1)>>] = rest(L - i + 1)
        BY <1>12, <2>3
      <3> QED
        BY <2>2, <3>1
    <2>5. from[<<left, s[j]>>] = <<s[j]>> \o from[<<left - 1, next[s[j]]>>]
      <3>1. s[j] \in N /\ s[j] # NULL /\ s[j] # Garbage
        BY <1>9
      <3>2. Follows(from, next, left, s[j])
        BY <1>1, <3>1
      <3> QED
        BY <2>3, <3>1, <3>2 DEF Follows
    <2>6. from[<<left, at(j)>>] = rest(j)
      BY <1>5, <1>6, <1>7, <2>4, <2>5
    <2> QED
      BY <2>2, <2>6
  <1>13. \A i \in Nat : P(i)
    <2> HIDE DEF P
    <2>1. 0 \in B /\ \A i \in Nat : i \in B => i + 1 \in B
      BY <1>11, <1>12
    <2>2. \A i \in Nat : i \in B
      <3> HIDE DEF B
      <3> QED
        BY <2>1, SetInduction
    <2> QED
      BY <2>2
  <1>14. from[<<Cardinality(N), at(1)>>] = rest(1)
    <2>1. P(L)
      <3> HIDE DEF P
      <3> QED
        BY <1>13
    <2>2. L <= L /\ Cardinality(N) >= L /\ L - L + 1 = 1
      BY <1>10
    <2> QED
      BY <1>10, <2>1, <2>2
  <1> QED
    BY <1>1, <1>7, <1>8, <1>14

\* next leads through s whatever is in the fields of other nodes.
LEMMA LeadsStill ==
    ASSUME NEW N, NEW s \in Seq(N), NEW f, NEW g, NEW first, Leads(f, s, first),
           \A i \in 1..Len(s) : g[s[i]] = f[s[i]]
    PROVE  Leads(g, s, first)
  BY DEF Leads

(***************************************************************************)
(* A sequence with one element more or less                                *)
(***************************************************************************)

\* s without the element at p
Without(s, p) == [i \in 1..(Len(s) - 1) |-> IF i < p THEN s[i] ELSE s[i + 1]]

LEMMA WithoutIs ==
    ASSUME NEW N, NEW s \in Seq(N), NEW p \in 1..Len(s), Once(s)
    PROVE  /\ Without(s, p) \in Seq(N)
           /\ Len(Without(s, p)) = Len(s) - 1
           /\ Once(Without(s, p))
           /\ ToSet(Without(s, p)) = ToSet(s) \ {s[p]}
           /\ RemoveFirst(s, s[p]) = Without(s, p)
  <1> DEFINE w == Without(s, p)
  <1>1. Len(s) \in Nat /\ DOMAIN s = 1..Len(s) /\ \A i \in 1..Len(s) : s[i] \in N
    BY LenProperties
  <1>2. w \in Seq(N) /\ Len(w) = Len(s) - 1 /\ DOMAIN w = 1..(Len(s) - 1)
    <2>1. Len(s) - 1 \in Nat
      BY <1>1
    <2>2. \A i \in 1..(Len(s) - 1) : (IF i < p THEN s[i] ELSE s[i + 1]) \in N
      BY <1>1
    <2>3. w \in [1..(Len(s) - 1) -> N]
      BY <2>1, <2>2 DEF Without
    <2> QED
      BY <2>1, <2>3 DEF Without
  <1>3. \A i \in 1..(Len(s) - 1) : w[i] = IF i < p THEN s[i] ELSE s[i + 1]
    BY DEF Without
  <1> HIDE DEF w
  <1>4. Once(w)
    <2>1. SUFFICES ASSUME NEW i \in 1..(Len(s) - 1), NEW j \in 1..(Len(s) - 1), w[i] = w[j]
                   PROVE  i = j
      BY <1>2 DEF Once
    <2> DEFINE i1 == IF i < p THEN i ELSE i + 1
               j1 == IF j < p THEN j ELSE j + 1
    <2>2. i1 \in 1..Len(s) /\ j1 \in 1..Len(s)
      BY <1>1
    <2>3. s[i1] = s[j1]
      BY <1>3, <2>1
    <2>4. i1 = j1
      <3> HIDE DEF i1, j1
      <3> QED
        BY <2>2, <2>3 DEF Once
    <2> QED
      BY <2>4
  <1>5. ToSet(w) = ToSet(s) \ {s[p]}
    <2>1. ASSUME NEW x \in ToSet(w) PROVE x \in ToSet(s) \ {s[p]}
      <3>1. PICK i \in 1..(Len(s) - 1) : x = w[i]
        BY <1>2, <2>1 DEF ToSet
      <3> DEFINE i1 == IF i < p THEN i ELSE i + 1
      <3>2. i1 \in 1..Len(s) /\ i1 # p /\ x = s[i1]
        BY <1>1, <1>3, <3>1
      <3> HIDE DEF i1
      <3> QED
        BY <1>1, <3>2 DEF ToSet, Once
    <2>2. ASSUME NEW x \in ToSet(s), x # s[p] PROVE x \in ToSet(w)
      <3>1. PICK i \in 1..Len(s) : x = s[i]
        BY <1>1 DEF ToSet
      <3>2. i # p
        BY <2>2, <3>1
      <3> DEFINE j == IF i < p THEN i ELSE i - 1
      <3>3. j \in 1..(Len(s) - 1) /\ w[j] = x
        BY <1>1, <1>3, <3>1, <3>2
      <3> HIDE DEF j
      <3> QED
        BY <1>2, <3>3 DEF ToSet
    <2> QED
      BY <2>1, <2>2
  <1>6. RemoveFirst(s, s[p]) = w
    <2> DEFINE I == {i \in 1..Len(s) : s[i] = s[p]}
    <2>1. I = {p}
      BY DEF Once
    <2>2. SelectInSeq(s, LAMBDA v : v = s[p]) = p
      <3>1. Min(I) = p
        BY <2>1 DEF Min
      <3>2. I # {}
        BY <2>1
      <3> QED
        BY <3>1, <3>2 DEF SelectInSeq
    <2>3. RemoveFirst(s, s[p]) = SubSeq(s, 1, p - 1) \o SubSeq(s, p + 1, Len(s))
      BY <2>2 DEF RemoveFirst, RemoveAt
    <2> DEFINE a == SubSeq(s, 1, p - 1)
               b == SubSeq(s, p + 1, Len(s))
    <2>4. /\ a \in Seq(N) /\ Len(a) = p - 1
          /\ \A i \in 1..(p - 1) : a[i] = s[i]
      <3>1. \A i \in 1..(p - 1) : s[i] \in N
        BY <1>1
      <3>2. /\ a \in Seq(N) /\ Len(a) = IF 1 <= p - 1 THEN p - 1 - 1 + 1 ELSE 0
            /\ \A i \in 1..(p - 1 - 1 + 1) : a[i] = s[1 + i - 1]
        BY <3>1, SubSeqProperties
      <3> HIDE DEF a
      <3> QED
        BY <3>2
    <2>5. /\ b \in Seq(N) /\ Len(b) = Len(s) - p
          /\ \A i \in 1..(Len(s) - p) : b[i] = s[p + i]
      <3>1. PICK L \in Nat : L = Len(s)
        BY <1>1
      <3>2. p + 1 \in Nat /\ p \in 1..L
        BY <3>1
      <3>3. \A i \in (p + 1)..L : s[i] \in N
        <4>1. \A i \in (p + 1)..L : i \in 1..L
          BY <3>2
        <4>2. \A i \in 1..L : s[i] \in N
          BY <1>1, <3>1
        <4> QED
          BY <4>1, <4>2
      <3>4. /\ b \in Seq(N) /\ Len(b) = IF p + 1 <= L THEN L - (p + 1) + 1 ELSE 0
            /\ \A i \in 1..(L - (p + 1) + 1) : b[i] = s[p + 1 + i - 1]
        BY <3>1, <3>2, <3>3, SubSeqProperties
      <3>5. /\ L - (p + 1) + 1 = L - p
            /\ (IF p + 1 <= L THEN L - (p + 1) + 1 ELSE 0) = L - p
            /\ \A i \in 1..(L - p) : p + 1 + i - 1 = p + i
        BY ONLY <3>2
      <3> HIDE DEF b
      <3>6. Len(b) = L - p /\ \A i \in 1..(L - p) : b[i] = s[p + i]
        BY <3>4, <3>5
      <3> QED
        BY <3>1, <3>4, <3>6
    <2> HIDE DEF a, b
    <2>6. /\ a \o b \in Seq(N) /\ Len(a \o b) = Len(s) - 1
          /\ \A i \in 1..(Len(s) - 1) : (a \o b)[i] = IF i <= p - 1 THEN a[i] ELSE b[i - (p - 1)]
      <3>1. p - 1 + (Len(s) - p) = Len(s) - 1
        BY <1>1
      <3>2. /\ a \o b \in Seq(N) /\ Len(a \o b) = Len(a) + Len(b)
            /\ \A i \in 1..(Len(a) + Len(b)) : (a \o b)[i] =
                  IF i <= Len(a) THEN a[i] ELSE b[i - Len(a)]
        BY <2>4, <2>5, ConcatProperties
      <3> QED
        BY <2>4, <2>5, <3>1, <3>2
    <2>7. \A i \in 1..(Len(s) - 1) : (a \o b)[i] = w[i]
      BY <1>1, <1>3, <2>4, <2>5, <2>6
    <2>8. a \o b = w
      BY <1>2, <2>6, <2>7, SeqEqual
    <2> QED
      BY <2>3, <2>8 DEF a, b
  <1> QED
    BY <1>2, <1>4, <1>5, <1>6 DEF w

LEMMA SeqFacts ==
    ASSUME NEW N, NEW s \in Seq(N)
    PROVE  /\ Len(s) \in Nat /\ DOMAIN s = 1..Len(s)
           /\ \A i \in 1..Len(s) : s[i] \in N /\ s[i] \in ToSet(s)
           /\ \A x \in ToSet(s) : x \in N /\ \E i \in 1..Len(s) : x = s[i]
           /\ s = <<>> <=> Len(s) = 0
  <1>1. Len(s) \in Nat /\ DOMAIN s = 1..Len(s) /\ \A i \in 1..Len(s) : s[i] \in N
    BY LenProperties
  <1>2. s = <<>> <=> Len(s) = 0
    BY EmptySeq, <1>1
  <1> QED
    BY <1>1, <1>2 DEF ToSet

LEMMA AppendIs ==
    ASSUME NEW N, NEW s \in Seq(N), NEW n \in N, n \notin ToSet(s), Once(s)
    PROVE  /\ Append(s, n) \in Seq(N) /\ Len(Append(s, n)) = Len(s) + 1
           /\ \A i \in 1..Len(s) : Append(s, n)[i] = s[i]
           /\ Append(s, n)[Len(s) + 1] = n
           /\ Append(s, n) # <<>>
           /\ Once(Append(s, n))
           /\ ToSet(Append(s, n)) = ToSet(s) \cup {n}
  <1> DEFINE t == Append(s, n)
  <1>1. Len(s) \in Nat /\ DOMAIN s = 1..Len(s) /\ \A i \in 1..Len(s) : s[i] \in N /\ s[i] # n
    BY SeqFacts
  <1>2. t \in Seq(N) /\ Len(t) = Len(s) + 1 /\ DOMAIN t = 1..(Len(s) + 1)
    <2>1. t \in Seq(N) /\ Len(t) = Len(s) + 1
      OBVIOUS
    <2> HIDE DEF t
    <2> QED
      BY <2>1, SeqFacts
  <1>3. \A i \in 1..Len(s) : t[i] = s[i]
    OBVIOUS
  <1>4. t[Len(s) + 1] = n
    OBVIOUS
  <1> HIDE DEF t
  <1>5. t # <<>>
    BY <1>1, <1>2, SeqFacts
  <1>6. Once(t)
    BY <1>1, <1>2, <1>3, <1>4 DEF Once
  <1>7. ToSet(t) = ToSet(s) \cup {n}
    BY <1>1, <1>2, <1>3, <1>4 DEF ToSet
  <1> QED
    BY <1>2, <1>3, <1>4, <1>5, <1>6, <1>7 DEF t

LEMMA PrependIs ==
    ASSUME NEW N, NEW s \in Seq(N), NEW n \in N, n \notin ToSet(s), Once(s)
    PROVE  /\ <<n>> \o s \in Seq(N) /\ Len(<<n>> \o s) = Len(s) + 1
           /\ (<<n>> \o s)[1] = n
           /\ \A i \in 1..Len(s) : (<<n>> \o s)[i + 1] = s[i]
           /\ <<n>> \o s # <<>>
           /\ Once(<<n>> \o s)
           /\ ToSet(<<n>> \o s) = ToSet(s) \cup {n}
  <1> DEFINE t == <<n>> \o s
  <1>1. Len(s) \in Nat /\ DOMAIN s = 1..Len(s) /\ \A i \in 1..Len(s) : s[i] \in N /\ s[i] # n
    BY SeqFacts
  <1>2. /\ t \in Seq(N) /\ Len(t) = 1 + Len(s)
        /\ \A i \in 1..(1 + Len(s)) : t[i] = IF i <= 1 THEN <<n>>[i] ELSE s[i - 1]
    <2>1. <<n>> \in Seq(N) /\ Len(<<n>>) = 1
      OBVIOUS
    <2> QED
      BY <2>1, ConcatProperties
  <1> HIDE DEF t
  <1>3. Len(t) = Len(s) + 1 /\ DOMAIN t = 1..(Len(s) + 1)
    BY <1>1, <1>2, SeqFacts
  <1>4. t[1] = n
    BY <1>1, <1>2
  <1>5. \A i \in 1..Len(s) : t[i + 1] = s[i]
    BY <1>1, <1>2
  <1>6. t # <<>>
    BY <1>1, <1>2, <1>3, SeqFacts
  <1>7. \A i \in 1..(Len(s) + 1) : i = 1 \/ \E j \in 1..Len(s) : i = j + 1
    <2>1. \A i \in 1..(Len(s) + 1) : i # 1 => i - 1 \in 1..Len(s) /\ i = (i - 1) + 1
      BY <1>1
    <2> QED
      BY <2>1
  <1>8. Once(t)
    <2>1. ASSUME NEW i \in 1..Len(t), NEW j \in 1..Len(t), t[i] = t[j] PROVE i = j
      <3>1. CASE i = 1
        BY <1>1, <1>3, <1>4, <1>5, <1>7, <2>1, <3>1
      <3>2. CASE j = 1
        BY <1>1, <1>3, <1>4, <1>5, <1>7, <2>1, <3>2
      <3>3. CASE i # 1 /\ j # 1
        <4>1. PICK i1 \in 1..Len(s) : i = i1 + 1
          BY <1>3, <1>7, <3>3
        <4>2. PICK j1 \in 1..Len(s) : j = j1 + 1
          BY <1>3, <1>7, <3>3
        <4>3. s[i1] = s[j1]
          BY <1>5, <2>1, <4>1, <4>2
        <4> QED
          BY <4>1, <4>2, <4>3 DEF Once
      <3> QED
        BY <3>1, <3>2, <3>3
    <2> QED
      BY <2>1 DEF Once
  <1>9. ToSet(t) = ToSet(s) \cup {n}
    <2>1. ASSUME NEW x \in ToSet(t) PROVE x \in ToSet(s) \cup {n}
      BY <1>1, <1>3, <1>4, <1>5, <1>7 DEF ToSet
    <2>2. ASSUME NEW x \in ToSet(s) PROVE x \in ToSet(t)
      <3>1. PICK i \in 1..Len(s) : x = s[i]
        BY <1>1 DEF ToSet
      <3>2. i + 1 \in 1..(Len(s) + 1) /\ t[i + 1] = x
        BY <1>1, <1>5, <3>1
      <3> QED
        BY <1>3, <3>2 DEF ToSet
    <2>3. n \in ToSet(t)
      <3>1. 1 \in 1..(Len(s) + 1)
        BY <1>1
      <3> QED
        BY <1>3, <1>4, <3>1 DEF ToSet
    <2> QED
      BY <2>1, <2>2, <2>3
  <1> QED
    BY <1>2, <1>3, <1>4, <1>5, <1>6, <1>8, <1>9 DEF t

(***************************************************************************)
(* One node more or less                                                   *)
(***************************************************************************)

\* A node after the last one
LEMMA LeadsAppend ==
    ASSUME NEW N, NEW s \in Seq(N), Once(s), NEW n \in N, n \notin ToSet(s),
           NEW f, NEW g, NEW first, Leads(f, s, first),
           g[n] = NULL,
           s # <<>> => g[s[Len(s)]] = n,
           \A i \in 1..Len(s) : i < Len(s) => g[s[i]] = f[s[i]]
    PROVE  Leads(g, Append(s, n), IF s = <<>> THEN n ELSE first)
  <1> DEFINE t == Append(s, n)
  <1>1. Len(s) \in Nat /\ (s = <<>> <=> Len(s) = 0)
    BY SeqFacts
  <1>2. /\ Len(t) = Len(s) + 1 /\ \A i \in 1..Len(s) : t[i] = s[i]
        /\ t[Len(s) + 1] = n /\ t # <<>>
    BY AppendIs
  <1> HIDE DEF t
  <1>3. (IF s = <<>> THEN n ELSE first) = IF t = <<>> THEN NULL ELSE t[1]
    BY <1>1, <1>2 DEF Leads
  <1>4. ASSUME NEW i \in 1..Len(t) PROVE g[t[i]] = IF i = Len(t) THEN NULL ELSE t[i + 1]
    <2>1. CASE i = Len(s) + 1
      BY <1>2, <2>1
    <2>2. CASE i = Len(s)
      BY <1>1, <1>2, <2>2
    <2>3. CASE i < Len(s)
      <3>1. i \in 1..Len(s) /\ i + 1 \in 1..Len(s) /\ i # Len(t) /\ i # Len(s)
        BY <1>1, <1>2, <2>3
      <3>2. g[s[i]] = s[i + 1]
        BY <2>3, <3>1 DEF Leads
      <3> QED
        BY <1>2, <3>1, <3>2
    <2> QED
      BY <1>1, <1>2, <2>1, <2>2, <2>3
  <1>5. Leads(g, t, IF s = <<>> THEN n ELSE first)
    BY <1>3, <1>4 DEF Leads
  <1> QED
    BY <1>5 DEF t

\* A node before the first one
LEMMA LeadsPrepend ==
    ASSUME NEW N, NEW s \in Seq(N), Once(s), NEW n \in N, n \notin ToSet(s),
           NEW f, NEW g, NEW first, Leads(f, s, first),
           g[n] = first,
           \A i \in 1..Len(s) : g[s[i]] = f[s[i]]
    PROVE  Leads(g, <<n>> \o s, n)
  <1> DEFINE t == <<n>> \o s
  <1>1. Len(s) \in Nat /\ (s = <<>> <=> Len(s) = 0)
    BY SeqFacts
  <1>2. /\ Len(t) = Len(s) + 1 /\ \A i \in 1..Len(s) : t[i + 1] = s[i]
        /\ t[1] = n /\ t # <<>>
    BY PrependIs
  <1> HIDE DEF t
  <1>4. ASSUME NEW i \in 1..Len(t) PROVE g[t[i]] = IF i = Len(t) THEN NULL ELSE t[i + 1]
    <2>1. CASE i = 1
      <3>1. CASE Len(s) = 0
        BY <1>1, <1>2, <2>1, <3>1 DEF Leads
      <3>2. CASE Len(s) # 0
        <4>1. 1 \in 1..Len(s) /\ i # Len(t) /\ first = s[1]
          BY <1>1, <1>2, <2>1, <3>2 DEF Leads
        <4> QED
          BY <1>2, <2>1, <4>1
      <3> QED
        BY <3>1, <3>2
    <2>2. CASE i # 1
      <3> DEFINE j == i - 1
      <3>1. j \in 1..Len(s) /\ i = j + 1 /\ (i = Len(t) <=> j = Len(s))
        BY <1>1, <1>2, <2>2
      <3> HIDE DEF j
      <3>2. t[i] = s[j] /\ g[s[j]] = f[s[j]]
        BY <1>2, <3>1
      <3>3. f[s[j]] = IF j = Len(s) THEN NULL ELSE s[j + 1]
        BY <3>1 DEF Leads
      <3>4. j # Len(s) => s[j + 1] = t[i + 1]
        <4>1. j # Len(s) => j + 1 \in 1..Len(s)
          BY <1>1, <3>1
        <4> QED
          BY <1>2, <3>1, <4>1
      <3> QED
        BY <3>1, <3>2, <3>3, <3>4
    <2> QED
      BY <2>1, <2>2
  <1>5. Leads(g, t, n)
    BY <1>2, <1>4 DEF Leads
  <1> QED
    BY <1>5 DEF t

\* A node out
LEMMA LeadsWithout ==
    ASSUME NEW N, NEW s \in Seq(N), Once(s), NEW p \in 1..Len(s),
           NEW f, NEW g, NEW first, Leads(f, s, first),
           p > 1 => g[s[p - 1]] = f[s[p]],
           \A i \in 1..Len(s) : i # p /\ i # p - 1 => g[s[i]] = f[s[i]]
    PROVE  Leads(g, Without(s, p), IF p = 1 THEN f[s[p]] ELSE first)
  <1> DEFINE t == Without(s, p)
             one == IF p = 1 THEN f[s[p]] ELSE first
  <1>1. Len(s) \in Nat /\ Len(s) >= 1 /\ s # <<>>
    BY SeqFacts
  <1>2. Len(t) = Len(s) - 1 /\ t \in Seq(N)
    BY WithoutIs
  <1>3. \A i \in 1..(Len(s) - 1) : t[i] = IF i < p THEN s[i] ELSE s[i + 1]
    BY DEF Without
  <1>4. t = <<>> <=> Len(s) = 1
    BY <1>1, <1>2, SeqFacts
  <1> HIDE DEF t
  <1>5. \A i \in 1..Len(s) : f[s[i]] = IF i = Len(s) THEN NULL ELSE s[i + 1]
    BY DEF Leads
  <1>6. one = IF t = <<>> THEN NULL ELSE t[1]
    <2>1. CASE Len(s) = 1
      BY <1>1, <1>4, <1>5, <2>1
    <2>2. CASE Len(s) # 1
      <3>1. 1 \in 1..(Len(s) - 1) /\ 1 \in 1..Len(s)
        <4>1. \A m \in Nat : m >= 1 /\ m # 1 => 1 \in 1..(m - 1) /\ 1 \in 1..m
          OBVIOUS
        <4> QED
          BY <1>1, <2>2, <4>1
      <3>2. t[1] = IF 1 < p THEN s[1] ELSE s[1 + 1]
        BY <1>3, <3>1
      <3>3. CASE p = 1
        BY <1>4, <1>5, <2>2, <3>1, <3>2, <3>3
      <3>4. CASE p # 1
        BY <1>1, <1>4, <2>2, <3>2, <3>4 DEF Leads
      <3> QED
        BY <3>3, <3>4
    <2> QED
      BY <2>1, <2>2
  <1> HIDE DEF one
  <1>7. ASSUME NEW i \in 1..Len(t) PROVE g[t[i]] = IF i = Len(t) THEN NULL ELSE t[i + 1]
    <2>1. i \in 1..(Len(s) - 1) /\ i \in 1..Len(s) /\ i + 1 \in 1..Len(s)
      BY <1>1, <1>2
    <2>2. i # Len(t) => i + 1 \in 1..(Len(s) - 1)
      BY <1>1, <1>2
    <2>3. CASE i < p - 1
      <3>1. i # Len(t) /\ i < p /\ i + 1 < p /\ i # p /\ i # p - 1 /\ i # Len(s)
        BY <1>2, <2>1, <2>3
      <3>2. t[i] = s[i] /\ t[i + 1] = s[i + 1]
        BY <1>3, <2>1, <2>2, <3>1
      <3>3. g[s[i]] = f[s[i]] /\ f[s[i]] = s[i + 1]
        BY <1>5, <2>1, <3>1
      <3> QED
        BY <3>1, <3>2, <3>3
    <2>4. CASE i = p - 1
      <3>1. i < p /\ p > 1 /\ (i = Len(t) <=> p = Len(s)) /\ ~(i + 1 < p)
        BY <1>2, <2>1, <2>4
      <3>2. t[i] = s[p - 1] /\ g[s[p - 1]] = f[s[p]]
        BY <1>3, <2>1, <2>4, <3>1
      <3>3. f[s[p]] = IF p = Len(s) THEN NULL ELSE s[p + 1]
        BY <1>5
      <3>4. i # Len(t) => t[i + 1] = s[p + 1]
        <4>1. i # Len(t) => t[i + 1] = s[i + 1 + 1]
          BY <1>3, <2>2, <3>1
        <4> QED
          BY <2>4, <4>1
      <3> QED
        BY <3>1, <3>2, <3>3, <3>4
    <2>5. CASE i >= p
      <3>1. ~(i < p) /\ ~(i + 1 < p) /\ i + 1 # p /\ i + 1 # p - 1
            /\ (i = Len(t) <=> i + 1 = Len(s))
        BY <1>2, <2>1, <2>5
      <3>2. t[i] = s[i + 1]
        BY <1>3, <2>1, <3>1
      <3>3. g[s[i + 1]] = f[s[i + 1]]
        BY <2>1, <3>1
      <3>4. f[s[i + 1]] = IF i + 1 = Len(s) THEN NULL ELSE s[i + 1 + 1]
        BY <1>5, <2>1
      <3>5. i # Len(t) => t[i + 1] = s[i + 1 + 1]
        BY <1>3, <2>2, <3>1
      <3> QED
        BY <3>1, <3>2, <3>3, <3>4, <3>5
    <2> QED
      BY <2>1, <2>3, <2>4, <2>5
  <1>8. Leads(g, t, one)
    BY <1>6, <1>7 DEF Leads
  <1> QED
    BY <1>8 DEF t, one

\* Each node of s but the first has the one before it in the field back.
Backs(back, s) == \A i \in 1..Len(s) : i > 1 => back[s[i]] = s[i - 1]

LEMMA BacksAppend ==
    ASSUME NEW N, NEW s \in Seq(N), Once(s), NEW n \in N, n \notin ToSet(s),
           NEW f, NEW g, Backs(f, s),
           s # <<>> => g[n] = s[Len(s)],
           \A i \in 1..Len(s) : i > 1 => g[s[i]] = f[s[i]]
    PROVE  Backs(g, Append(s, n))
  <1> DEFINE t == Append(s, n)
  <1>1. Len(s) \in Nat /\ (s = <<>> <=> Len(s) = 0)
    BY SeqFacts
  <1>2. /\ Len(t) = Len(s) + 1 /\ \A i \in 1..Len(s) : t[i] = s[i]
        /\ t[Len(s) + 1] = n
    BY AppendIs
  <1> HIDE DEF t
  <1>3. ASSUME NEW i \in 1..Len(t), i > 1 PROVE g[t[i]] = t[i - 1]
    <2>1. i - 1 \in 1..Len(s) /\ t[i - 1] = s[i - 1]
      BY <1>1, <1>2, <1>3
    <2>2. CASE i = Len(s) + 1
      <3>1. s # <<>> /\ i - 1 = Len(s)
        BY <1>1, <1>3, <2>2
      <3> QED
        BY <1>2, <2>1, <2>2, <3>1
    <2>3. CASE i # Len(s) + 1
      <3>1. i \in 1..Len(s)
        BY <1>1, <1>2, <2>3
      <3> QED
        BY <1>2, <1>3, <2>1, <3>1 DEF Backs
    <2> QED
      BY <2>2, <2>3
  <1>4. Backs(g, t)
    BY <1>3 DEF Backs
  <1> QED
    BY <1>4 DEF t

LEMMA BacksPrepend ==
    ASSUME NEW N, NEW s \in Seq(N), Once(s), NEW n \in N, n \notin ToSet(s),
           NEW f, NEW g, Backs(f, s),
           s # <<>> => g[s[1]] = n,
           \A i \in 1..Len(s) : i > 1 => g[s[i]] = f[s[i]]
    PROVE  Backs(g, <<n>> \o s)
  <1> DEFINE t == <<n>> \o s
  <1>1. Len(s) \in Nat /\ (s = <<>> <=> Len(s) = 0)
    BY SeqFacts
  <1>2. /\ Len(t) = Len(s) + 1 /\ \A i \in 1..Len(s) : t[i + 1] = s[i]
        /\ t[1] = n
    BY PrependIs
  <1> HIDE DEF t
  <1>3. ASSUME NEW i \in 1..Len(t), i > 1 PROVE g[t[i]] = t[i - 1]
    <2> DEFINE j == i - 1
    <2>1. j \in 1..Len(s) /\ i = j + 1 /\ s # <<>>
      BY <1>1, <1>2, <1>3
    <2>2. t[i - 1] = t[j]
      OBVIOUS
    <2> HIDE DEF j
    <2>3. t[i] = s[j]
      BY <1>2, <2>1
    <2>4. CASE j = 1
      BY <1>2, <2>1, <2>2, <2>3, <2>4
    <2>5. CASE j # 1
      <3>1. j > 1 /\ j - 1 \in 1..Len(s) /\ j - 1 + 1 = j
        BY <1>1, <2>1, <2>5
      <3>2. g[s[j]] = s[j - 1]
        BY <2>1, <3>1 DEF Backs
      <3>3. t[j] = s[j - 1]
        BY <1>2, <3>1
      <3> QED
        BY <2>2, <2>3, <3>2, <3>3
    <2> QED
      BY <2>4, <2>5
  <1>4. Backs(g, t)
    BY <1>3 DEF Backs
  <1> QED
    BY <1>4 DEF t

LEMMA BacksWithout ==
    ASSUME NEW N, NEW s \in Seq(N), Once(s), NEW p \in 1..Len(s),
           NEW f, NEW g, Backs(f, s),
           1 < p /\ p < Len(s) => g[s[p + 1]] = f[s[p]],
           \A i \in 1..Len(s) : i > 1 /\ i # p /\ i # p + 1 => g[s[i]] = f[s[i]]
    PROVE  Backs(g, Without(s, p))
  <1> DEFINE t == Without(s, p)
  <1>1. Len(s) \in Nat /\ Len(s) >= 1
    BY SeqFacts
  <1>2. Len(t) = Len(s) - 1
    BY WithoutIs
  <1>3. \A i \in 1..(Len(s) - 1) : t[i] = IF i < p THEN s[i] ELSE s[i + 1]
    BY DEF Without
  <1> HIDE DEF t
  <1>4. ASSUME NEW i \in 1..Len(t), i > 1 PROVE g[t[i]] = t[i - 1]
    <2>1. i \in 1..(Len(s) - 1) /\ i - 1 \in 1..(Len(s) - 1) /\ i \in 1..Len(s) /\ i + 1 \in 1..Len(s)
      BY <1>1, <1>2, <1>4
    <2>2. CASE i < p
      <3>1. t[i] = s[i] /\ t[i - 1] = s[i - 1]
        BY <1>3, <2>1, <2>2
      <3>2. g[s[i]] = f[s[i]] /\ f[s[i]] = s[i - 1]
        BY <1>4, <2>1, <2>2 DEF Backs
      <3> QED
        BY <3>1, <3>2
    <2>3. CASE i = p
      <3>1. t[i] = s[p + 1] /\ t[i - 1] = s[p - 1]
        BY <1>3, <2>1, <2>3
      <3>2. 1 < p /\ p < Len(s)
        BY <1>1, <1>4, <2>1, <2>3
      <3>3. f[s[p]] = s[p - 1]
        BY <3>2 DEF Backs
      <3> QED
        BY <3>1, <3>2, <3>3
    <2>4. CASE i > p
      <3>1. t[i] = s[i + 1] /\ t[i - 1] = s[i]
        <4>1. t[i - 1] = s[i - 1 + 1] /\ i - 1 + 1 = i
          BY <1>3, <2>1, <2>4
        <4> QED
          BY <1>3, <2>1, <2>4, <4>1
      <3>2. i + 1 > 1 /\ i + 1 # p /\ i + 1 # p + 1 /\ i + 1 - 1 = i
        BY <2>1, <2>4
      <3>3. g[s[i + 1]] = f[s[i + 1]] /\ f[s[i + 1]] = s[i]
        BY <2>1, <3>2 DEF Backs
      <3> QED
        BY <3>1, <3>3
    <2> QED
      BY <2>1, <2>2, <2>3, <2>4
  <1>5. Backs(g, t)
    BY <1>4 DEF Backs
  <1> QED
    BY <1>5 DEF t

(***************************************************************************)
(* The lists of utlist.h                                                   *)
(***************************************************************************)

ListType(N) == [head : N \cup {NULL}, prev : [N -> Pointer(N)], next : [N -> Pointer(N)]]

\* The nodes of l are those of s, as far as a reader of next sees, and no others
\* are in memory; a node other than the first points back.
Linking(l, s, N) ==
    /\ l \in ListType(N)
    /\ s \in Seq(N) /\ Once(s)
    /\ Leads(l.next, s, l.head)
    /\ Backs(l.prev, s)
    /\ \A n \in N : n \notin ToSet(s) => l.next[n] = Garbage

\* And the first node points to the last.
Holds(l, s, N) == Linking(l, s, N) /\ (s # <<>> => l.prev[s[1]] = s[Len(s)])

LEMMA LinkingIterates ==
    ASSUME NEW N, Nodes(N), NEW l, NEW s, Linking(l, s, N)
    PROVE  DL_FOREACH(l) = s
  <1>1. /\ s \in Seq(N) /\ Once(s) /\ Leads(l.next, s, l.head)
        /\ l.next \in [N -> Pointer(N)]
    BY DEF Linking, ListType
  <1>2. Chain(l.head, l.next) = s
    BY <1>1, ChainIs
  <1> QED
    BY <1>2 DEF DL_FOREACH

LEMMA HoldsRepresents ==
    ASSUME NEW N, Nodes(N), NEW l, NEW s, Holds(l, s, N)
    PROVE  Represents(l, s)
  <1>1. /\ s \in Seq(N) /\ Once(s) /\ Leads(l.next, s, l.head) /\ Backs(l.prev, s)
        /\ s # <<>> => l.prev[s[1]] = s[Len(s)]
        /\ DOMAIN l.next = N
    BY DEF Linking, Holds, ListType
  <1>2. Len(s) \in Nat /\ DOMAIN s = 1..Len(s) /\ \A i \in 1..Len(s) : s[i] \in N
    BY <1>1, SeqFacts
  <1>3. \A i, j \in DOMAIN s : s[i] = s[j] => i = j
    BY <1>1, <1>2 DEF Once
  <1>4. l.head = IF s = <<>> THEN NULL ELSE s[1]
    BY <1>1 DEF Leads
  <1>5. ASSUME NEW i \in 1..Len(s)
        PROVE  /\ l.next[s[i]] = IF i = Len(s) THEN NULL ELSE s[i + 1]
               /\ l.prev[s[i]] = IF i = 1 THEN s[Len(s)] ELSE s[i - 1]
    <2>1. l.next[s[i]] = IF i = Len(s) THEN NULL ELSE s[i + 1]
      BY <1>1 DEF Leads
    <2>2. s # <<>>
      BY <1>1, <1>2, SeqFacts
    <2>3. i # 1 => i > 1
      OBVIOUS
    <2>4. l.prev[s[i]] = IF i = 1 THEN s[Len(s)] ELSE s[i - 1]
      BY <1>1, <2>2, <2>3 DEF Backs
    <2> QED
      BY <2>1, <2>4
  <1> QED
    BY <1>1, <1>2, <1>3, <1>4, <1>5 DEF Represents

LEMMA EmptyHolds ==
    ASSUME NEW N, Nodes(N), NEW l \in ListType(N), l.head = NULL,
           \A n \in N : l.next[n] = Garbage
    PROVE  Holds(l, <<>>, N)
  <1>1. <<>> \in Seq(N) /\ Len(<<>>) = 0
    BY EmptySeq
  <1>2. 1..0 = {}
    OBVIOUS
  <1> QED
    BY <1>1, <1>2 DEF Holds, Linking, Once, Leads, Backs

\* DL_APPEND up to the store that lets a reader reach the node
LEMMA LinkedLinks ==
    ASSUME NEW N, Nodes(N), NEW l, NEW s, Holds(l, s, N), NEW n \in N, n \notin ToSet(s)
    PROVE  Linking(Linked(Calloc(l, n), n), Append(s, n), N)
  <1> DEFINE c == Calloc(l, n)
             m == Linked(c, n)
             t == Append(s, n)
             last == s[Len(s)]
  <1>1. /\ l \in ListType(N) /\ s \in Seq(N) /\ Once(s)
        /\ Leads(l.next, s, l.head) /\ Backs(l.prev, s)
        /\ s # <<>> => l.prev[s[1]] = s[Len(s)]
        /\ \A k \in N : k \notin ToSet(s) => l.next[k] = Garbage
    BY DEF Holds, Linking
  <1>2. /\ Len(s) \in Nat
        /\ \A i \in 1..Len(s) : s[i] \in N /\ s[i] \in ToSet(s) /\ s[i] # n /\ s[i] # NULL
        /\ s = <<>> <=> Len(s) = 0
    BY <1>1, SeqFacts DEF Nodes
  <1>3. /\ t \in Seq(N) /\ Once(t) /\ ToSet(t) = ToSet(s) \cup {n}
    BY <1>1, AppendIs
  <1>4. l.prev \in [N -> Pointer(N)] /\ l.next \in [N -> Pointer(N)] /\ l.head \in N \cup {NULL}
    BY <1>1 DEF ListType
  <1>5. NULL \in Pointer(N) /\ N \subseteq Pointer(N) /\ Garbage \in Pointer(N)
    BY DEF Pointer
  <1>6. /\ c.head = l.head /\ c \in ListType(N)
        /\ c.prev = Store(l.prev, n, NULL) /\ c.next = Store(l.next, n, NULL)
    <2>1. Store(l.prev, n, NULL) \in [N -> Pointer(N)] /\ Store(l.next, n, NULL) \in [N -> Pointer(N)]
      BY <1>4, <1>5 DEF Store
    <2> QED
      BY <1>1, <2>1 DEF Calloc, ListType
  <1>7. /\ c.prev \in [N -> Pointer(N)] /\ c.next \in [N -> Pointer(N)] /\ c.next[n] = NULL
        /\ \A k \in N : k # n => c.prev[k] = l.prev[k] /\ c.next[k] = l.next[k]
    BY <1>4, <1>5, <1>6 DEF Store
  <1> HIDE DEF c, t
  <1>8. CASE s = <<>>
    <2>1. l.head = NULL
      BY <1>1, <1>8 DEF Leads
    <2>2. /\ m \in ListType(N)
          /\ m.head = n /\ m.prev = c.prev /\ m.next = c.next
      BY <1>6, <2>1 DEF Linked, ListType
    <2> HIDE DEF m
    <2>3. Len(s) = 0 /\ 1..Len(s) = {}
      BY <1>2, <1>8
    <2>4. Leads(m.next, t, IF s = <<>> THEN n ELSE l.head)
      BY <1>1, <1>7, <1>8, <2>2, <2>3, LeadsAppend DEF t
    <2>5. Backs(m.prev, t)
      BY <1>1, <1>8, <2>3, BacksAppend DEF t
    <2>6. \A k \in N : k \notin ToSet(t) => m.next[k] = Garbage
      BY <1>1, <1>3, <1>7, <2>2
    <2>7. Leads(m.next, t, m.head)
      BY <1>8, <2>2, <2>4
    <2>8. Linking(m, t, N)
      BY <1>3, <2>2, <2>5, <2>6, <2>7 DEF Linking
    <2> QED
      BY <2>8 DEF m, c, t
  <1>9. CASE s # <<>>
    <2>1. l.head = s[1] /\ 1 \in 1..Len(s) /\ Len(s) \in 1..Len(s)
      BY <1>1, <1>2, <1>9 DEF Leads
    <2>2. c.head = s[1] /\ s[1] # NULL /\ c.prev[c.head] = last /\ last \in N /\ last # n
      BY <1>1, <1>2, <1>6, <1>7, <1>9, <2>1
    <2>3. /\ Store(c.prev, n, last) \in [N -> Pointer(N)]
          /\ Store(c.prev, n, last)[n] = last
          /\ \A k \in N : k # n => Store(c.prev, n, last)[k] = c.prev[k]
      BY <1>5, <1>7, <2>2 DEF Store
    <2>4. /\ Store(c.next, last, n) \in [N -> Pointer(N)]
          /\ Store(c.next, last, n)[last] = n
          /\ \A k \in N : k # last => Store(c.next, last, n)[k] = c.next[k]
      BY <1>5, <1>7, <2>2 DEF Store
    <2>5. /\ m \in ListType(N)
          /\ m.head = c.head /\ m.prev = Store(c.prev, n, last) /\ m.next = Store(c.next, last, n)
      <3> HIDE DEF last
      <3> QED
        BY <1>6, <2>2, <2>3, <2>4 DEF Linked, ListType
    <2>6. \A i \in 1..Len(s) : i < Len(s) => s[i] # last
      BY <1>1, <2>1 DEF Once
    <2> HIDE DEF m
    <2>7. Leads(m.next, t, IF s = <<>> THEN n ELSE l.head)
      <3>1. m.next[n] = NULL /\ m.next[s[Len(s)]] = n
        BY <1>7, <2>2, <2>4, <2>5
      <3>2. \A i \in 1..Len(s) : i < Len(s) => m.next[s[i]] = l.next[s[i]]
        BY <1>2, <1>7, <2>4, <2>5, <2>6
      <3> QED
        BY <1>1, <3>1, <3>2, LeadsAppend DEF t
    <2>8. Backs(m.prev, t)
      <3>1. m.prev[n] = s[Len(s)]
        BY <2>3, <2>5
      <3>2. \A i \in 1..Len(s) : m.prev[s[i]] = l.prev[s[i]]
        BY <1>2, <1>7, <2>3, <2>5
      <3> QED
        BY <1>1, <3>1, <3>2, BacksAppend DEF t
    <2>9. \A k \in N : k \notin ToSet(t) => m.next[k] = Garbage
      <3>1. last \in ToSet(s)
        BY <1>2, <2>1
      <3> HIDE DEF last
      <3> QED
        BY <1>1, <1>3, <1>7, <2>4, <2>5, <3>1
    <2>10. Leads(m.next, t, m.head)
      BY <1>6, <1>9, <2>5, <2>7
    <2>11. Linking(m, t, N)
      BY <1>3, <2>5, <2>8, <2>9, <2>10 DEF Linking
    <2> QED
      BY <2>11 DEF m, c, t
  <1> QED
    BY <1>8, <1>9

\* The stores of DL_APPEND after it
LEMMA SettledHolds ==
    ASSUME NEW N, Nodes(N), NEW l, NEW s, Linking(l, s, N), s # <<>>
    PROVE  Holds(Settled(l, s[Len(s)]), s, N)
  <1> DEFINE last == s[Len(s)]
             m == Settled(l, last)
  <1>1. /\ l \in ListType(N) /\ s \in Seq(N) /\ Once(s)
        /\ Leads(l.next, s, l.head) /\ Backs(l.prev, s)
        /\ \A k \in N : k \notin ToSet(s) => l.next[k] = Garbage
    BY DEF Linking
  <1>2. /\ Len(s) \in Nat /\ 1 \in 1..Len(s) /\ Len(s) \in 1..Len(s)
        /\ \A i \in 1..Len(s) : s[i] \in N /\ s[i] \in ToSet(s)
    BY <1>1, SeqFacts
  <1>3. l.head = s[1] /\ l.next[last] = NULL /\ last \in N /\ l.head \in N /\ last \in ToSet(s)
    BY <1>1, <1>2 DEF Leads
  <1>4. l.prev \in [N -> Pointer(N)] /\ l.next \in [N -> Pointer(N)]
        /\ NULL \in Pointer(N) /\ last \in Pointer(N)
    BY <1>1, <1>3 DEF ListType, Pointer
  <1> HIDE DEF last
  <1>5. /\ Store(l.prev, l.head, last) \in [N -> Pointer(N)]
        /\ Store(l.prev, l.head, last)[l.head] = last
        /\ \A k \in N : k # l.head => Store(l.prev, l.head, last)[k] = l.prev[k]
    BY <1>3, <1>4 DEF Store
  <1>6. /\ Store(l.next, last, NULL) \in [N -> Pointer(N)]
        /\ \A k \in N : Store(l.next, last, NULL)[k] = l.next[k]
    BY <1>3, <1>4 DEF Store
  <1>7. /\ m \in ListType(N) /\ m.head = l.head
        /\ m.prev = Store(l.prev, l.head, last) /\ m.next = Store(l.next, last, NULL)
    BY <1>1, <1>5, <1>6 DEF Settled, ListType
  <1> HIDE DEF m
  <1>8. Leads(m.next, s, m.head)
    <2>1. \A i \in 1..Len(s) : m.next[s[i]] = l.next[s[i]]
      BY <1>2, <1>6, <1>7
    <2> QED
      BY <1>1, <1>7, <2>1, LeadsStill
  <1>9. Backs(m.prev, s)
    <2>1. ASSUME NEW i \in 1..Len(s), i > 1 PROVE m.prev[s[i]] = l.prev[s[i]]
      <3>1. s[i] # l.head /\ s[i] \in N
        BY <1>1, <1>2, <1>3, <2>1 DEF Once
      <3> QED
        BY <1>5, <1>7, <3>1
    <2> QED
      BY <1>1, <2>1 DEF Backs
  <1>10. m.prev[s[1]] = s[Len(s)]
    BY <1>3, <1>5, <1>7 DEF last
  <1>11. \A k \in N : k \notin ToSet(s) => m.next[k] = Garbage
    BY <1>1, <1>6, <1>7
  <1>12. Holds(m, s, N)
    BY <1>1, <1>7, <1>8, <1>9, <1>10, <1>11 DEF Holds, Linking
  <1> QED
    BY <1>12 DEF m, last

\* A list from which the node p is out, and freed
LEMMA RemovedHolds ==
    ASSUME NEW N, Nodes(N), NEW l, NEW s, Holds(l, s, N), NEW p \in 1..Len(s)
    PROVE  Holds(Removed(l, s[p]), Without(s, p), N)
  <1> DEFINE del == s[p]
             d == DL_DELETE(l, del)
             m == Free(d, del)
             t == Without(s, p)
  <1>1. /\ l \in ListType(N) /\ s \in Seq(N) /\ Once(s)
        /\ Leads(l.next, s, l.head) /\ Backs(l.prev, s)
        /\ s # <<>> => l.prev[s[1]] = s[Len(s)]
        /\ \A k \in N : k \notin ToSet(s) => l.next[k] = Garbage
    BY DEF Holds, Linking
  <1>2. /\ Len(s) \in Nat /\ 1 \in 1..Len(s) /\ Len(s) \in 1..Len(s) /\ s # <<>>
        /\ \A i \in 1..Len(s) : s[i] \in N /\ s[i] \in ToSet(s)
        /\ \A k \in ToSet(s) : k \in N /\ \E i \in 1..Len(s) : k = s[i]
    <2>1. /\ Len(s) \in Nat /\ (s = <<>> <=> Len(s) = 0)
          /\ \A i \in 1..Len(s) : s[i] \in N /\ s[i] \in ToSet(s)
          /\ \A k \in ToSet(s) : k \in N /\ \E i \in 1..Len(s) : k = s[i]
      BY <1>1, SeqFacts
    <2> QED
      BY <2>1
  <1>3. /\ t \in Seq(N) /\ Once(t) /\ ToSet(t) = ToSet(s) \ {del} /\ Len(t) = Len(s) - 1
        /\ t = <<>> <=> Len(s) = 1
    <2>1. t \in Seq(N) /\ Once(t) /\ ToSet(t) = ToSet(s) \ {del} /\ Len(t) = Len(s) - 1
      BY <1>1, WithoutIs
    <2>2. t = <<>> <=> Len(t) = 0
      BY <2>1, SeqFacts
    <2> QED
      BY <1>2, <2>1, <2>2
  <1>4. /\ l.prev \in [N -> Pointer(N)] /\ l.next \in [N -> Pointer(N)]
        /\ NULL \in Pointer(N) /\ N \subseteq Pointer(N) /\ Garbage \in Pointer(N)
        /\ del \in N /\ NULL \notin N /\ del # NULL
    BY <1>1, <1>2 DEF ListType, Pointer, Nodes
  <1>5. /\ l.head = s[1]
        /\ l.next[del] = IF p = Len(s) THEN NULL ELSE s[p + 1]
        /\ l.prev[del] = IF p = 1 THEN s[Len(s)] ELSE s[p - 1]
    <2>1. l.head = s[1] /\ l.next[del] = IF p = Len(s) THEN NULL ELSE s[p + 1]
      BY <1>1, <1>2 DEF Leads
    <2>2. p # 1 => p > 1
      OBVIOUS
    <2>3. l.prev[del] = IF p = 1 THEN s[Len(s)] ELSE s[p - 1]
      BY <1>1, <1>2, <2>2 DEF Backs
    <2> QED
      BY <2>1, <2>3
  <1>6. /\ p # Len(s) => p + 1 \in 1..Len(s) /\ s[p + 1] \in N
        /\ p # 1 => p - 1 \in 1..Len(s) /\ s[p - 1] \in N
        /\ \A i, j \in 1..Len(s) : i # j => s[i] # s[j]
    <2>1. /\ p # Len(s) => p + 1 \in 1..Len(s)
          /\ p # 1 => p - 1 \in 1..Len(s)
      BY <1>2
    <2>2. \A i, j \in 1..Len(s) : i # j => s[i] # s[j]
      BY <1>1 DEF Once
    <2> QED
      BY <1>2, <2>1, <2>2
  \* What DL_DELETE stores
  <1> DEFINE next == IF p = 1 THEN l.next ELSE Store(l.next, s[p - 1], l.next[del])
             prev == IF p = Len(s)
                     THEN IF p = 1 THEN l.prev ELSE Store(l.prev, l.head, l.prev[del])
                     ELSE Store(l.prev, s[p + 1], l.prev[del])
             head == IF p = 1 THEN l.next[del] ELSE l.head
  <1>7. l.next[del] \in Pointer(N) /\ l.prev[del] \in Pointer(N) /\ l.prev[del] \in N
    BY <1>2, <1>4, <1>5, <1>6
  <1>8. next \in [N -> Pointer(N)] /\ prev \in [N -> Pointer(N)] /\ head \in N \cup {NULL}
    <2>1. next \in [N -> Pointer(N)]
      BY <1>4, <1>6, <1>7 DEF Store
    <2>2. prev \in [N -> Pointer(N)]
      <3>1. l.head \in N
        BY <1>2, <1>5
      <3> QED
        BY <1>4, <1>6, <1>7, <3>1 DEF Store
    <2>3. head \in N \cup {NULL}
      BY <1>2, <1>5, <1>6
    <2> QED
      BY <2>1, <2>2, <2>3
  <1>9. d = [l EXCEPT !.prev = prev, !.next = next, !.head = head]
    <2>1. CASE Len(s) = 1
      <3>1. p = 1 /\ p = Len(s)
        BY <2>1
      <3>2. l.prev[del] = del
        BY <1>5, <2>1, <3>1
      <3>3. d = [l EXCEPT !.head = NULL]
        BY <3>2 DEF DL_DELETE
      <3>4. next = l.next /\ prev = l.prev /\ head = NULL
        BY <1>5, <3>1
      <3> HIDE DEF d, next, prev, head
      <3> QED
        BY <1>1, <3>3, <3>4 DEF ListType
    <2>2. CASE Len(s) # 1
      <3>1. l.prev[del] # del
        <4>1. CASE p = 1
          <5>1. Len(s) # p
            BY <2>2, <4>1
          <5>2. s[Len(s)] # s[p]
            BY <1>2, <1>6, <5>1
          <5> QED
            BY <1>5, <4>1, <5>2
        <4>2. CASE p # 1
          <5>1. p - 1 # p /\ p - 1 \in 1..Len(s)
            BY <1>6, <4>2
          <5>2. s[p - 1] # s[p]
            BY <1>6, <5>1
          <5> QED
            BY <1>5, <4>2, <5>2
        <4> QED
          BY <4>1, <4>2
      <3>2. CASE p = 1
        <4>1. l.head = del /\ p # Len(s) /\ l.next[del] = s[p + 1]
          BY <1>5, <2>2, <3>2
        <4>2. d = [l EXCEPT !.prev = Store(@, l.next[del], l.prev[del]), !.head = l.next[del]]
          BY <3>1, <4>1 DEF DL_DELETE
        <4>3. /\ next = l.next /\ prev = Store(l.prev, l.next[del], l.prev[del])
              /\ head = l.next[del]
          BY <3>2, <4>1
        <4> HIDE DEF d, next, prev, head
        <4> QED
          BY <1>1, <4>2, <4>3 DEF ListType
      <3>3. CASE p # 1 /\ p # Len(s)
        <4>1. l.head # del /\ l.next[del] # NULL /\ l.next[del] = s[p + 1] /\ l.prev[del] = s[p - 1]
          BY <1>2, <1>4, <1>5, <1>6, <3>3
        <4>2. d = [l EXCEPT !.next = Store(@, l.prev[del], l.next[del]),
                            !.prev = Store(@, l.next[del], l.prev[del])]
          BY <3>1, <4>1 DEF DL_DELETE
        <4>3. /\ next = Store(l.next, l.prev[del], l.next[del])
              /\ prev = Store(l.prev, l.next[del], l.prev[del])
              /\ head = l.head
          BY <3>3, <4>1
        <4> HIDE DEF d, next, prev, head
        <4> QED
          BY <1>1, <4>2, <4>3 DEF ListType
      <3>4. CASE p # 1 /\ p = Len(s)
        <4>1. l.head # del /\ l.next[del] = NULL /\ l.prev[del] = s[p - 1]
          BY <1>2, <1>4, <1>5, <1>6, <3>4
        <4>2. d = [l EXCEPT !.next = Store(@, l.prev[del], NULL),
                            !.prev = Store(@, l.head, l.prev[del])]
          BY <3>1, <4>1 DEF DL_DELETE
        <4>3. /\ next = Store(l.next, l.prev[del], NULL)
              /\ prev = Store(l.prev, l.head, l.prev[del])
              /\ head = l.head
          BY <3>4, <4>1
        <4> HIDE DEF d, next, prev, head
        <4> QED
          BY <1>1, <4>2, <4>3 DEF ListType
      <3> QED
        BY <3>2, <3>3, <3>4
    <2> QED
      BY <2>1, <2>2
  <1>10. /\ m \in ListType(N) /\ m.head = head
         /\ m.prev = Store(prev, del, Garbage) /\ m.next = Store(next, del, Garbage)
    <2> HIDE DEF next, prev, head, d
    <2>1. d.prev = prev /\ d.next = next /\ d.head = head /\ d \in ListType(N)
      BY <1>1, <1>8, <1>9 DEF ListType
    <2>2. Store(prev, del, Garbage) \in [N -> Pointer(N)] /\ Store(next, del, Garbage) \in [N -> Pointer(N)]
      BY <1>4, <1>8 DEF Store
    <2> QED
      BY <2>1, <2>2 DEF Free, ListType
  <1> HIDE DEF m, d
  <1>11. /\ \A k \in N : k # del => m.next[k] = next[k] /\ m.prev[k] = prev[k]
         /\ m.next[del] = Garbage
    <2> HIDE DEF next, prev
    <2> QED
      BY <1>4, <1>8, <1>10 DEF Store
  <1>12. /\ p # 1 => m.next[s[p - 1]] = l.next[del]
         /\ \A i \in 1..Len(s) : i # p /\ i # p - 1 => m.next[s[i]] = l.next[s[i]]
    <2>1. p # 1 => s[p - 1] # del /\ next[s[p - 1]] = l.next[del]
      BY <1>2, <1>4, <1>6, <1>7 DEF Store
    <2>2. ASSUME NEW i \in 1..Len(s), i # p, i # p - 1 PROVE m.next[s[i]] = l.next[s[i]]
      <3>1. s[i] # del /\ s[i] \in N /\ (p # 1 => s[i] # s[p - 1])
        BY <1>2, <1>6, <2>2
      <3>2. next[s[i]] = l.next[s[i]]
        BY <1>4, <1>6, <1>7, <3>1 DEF Store
      <3> QED
        BY <1>11, <3>1, <3>2
    <2> QED
      BY <1>6, <1>11, <2>1, <2>2
  <1>13. Leads(m.next, t, m.head)
    <2>1. Leads(m.next, t, IF p = 1 THEN l.next[s[p]] ELSE l.head)
      <3>1. p > 1 => p # 1
        OBVIOUS
      <3> HIDE DEF next, prev, head, m
      <3> QED
        BY <1>1, <1>12, <3>1, LeadsWithout
    <2> QED
      BY <1>10, <2>1
  <1>14. Backs(m.prev, t)
    <2>1. 1 < p /\ p < Len(s) => m.prev[s[p + 1]] = l.prev[s[p]]
      <3>1. SUFFICES ASSUME 1 < p, p < Len(s) PROVE m.prev[s[p + 1]] = l.prev[s[p]]
        OBVIOUS
      <3>2. p # Len(s) /\ p + 1 # p /\ p + 1 \in 1..Len(s) /\ s[p + 1] # del /\ s[p + 1] \in N
        BY <1>2, <1>6, <3>1
      <3>3. prev[s[p + 1]] = l.prev[del]
        BY <1>4, <1>7, <3>2 DEF Store
      <3> QED
        BY <1>11, <3>2, <3>3
    <2>2. ASSUME NEW i \in 1..Len(s), i > 1, i # p, i # p + 1 PROVE m.prev[s[i]] = l.prev[s[i]]
      <3>1. s[i] # del /\ s[i] \in N /\ s[i] # s[1] /\ s[i] # l.head
            /\ (p # Len(s) => s[i] # s[p + 1])
        BY <1>2, <1>5, <1>6, <2>2
      <3>2. prev[s[i]] = l.prev[s[i]]
        BY <1>2, <1>4, <1>5, <1>6, <1>7, <3>1 DEF Store
      <3> QED
        BY <1>11, <3>1, <3>2
    <2> HIDE DEF next, prev, head
    <2> QED
      BY <1>1, <2>1, <2>2, BacksWithout
  <1>15. t # <<>> => m.prev[t[1]] = t[Len(t)]
    <2>1. SUFFICES ASSUME Len(s) # 1 PROVE m.prev[t[1]] = t[Len(s) - 1]
      BY <1>3
    <2>2. 1 \in 1..(Len(s) - 1) /\ Len(s) - 1 \in 1..(Len(s) - 1) /\ Len(s) - 1 + 1 = Len(s)
          /\ (Len(s) - 1 < p <=> p = Len(s))
      <3>1. PICK L \in Nat : L = Len(s)
        BY <1>2
      <3>2. p \in 1..L /\ L # 1
        BY <1>2, <2>1, <3>1
      <3>3. /\ 1 \in 1..(L - 1) /\ L - 1 \in 1..(L - 1) /\ L - 1 + 1 = L
            /\ L - 1 < p <=> p = L
        BY ONLY <3>2
      <3> QED
        BY <3>1, <3>3
    <2>3. t[1] = IF 1 < p THEN s[1] ELSE s[1 + 1]
      BY <2>2 DEF Without
    <2>4. t[Len(s) - 1] = IF p = Len(s) THEN s[Len(s) - 1] ELSE s[Len(s)]
      BY <2>2 DEF Without
    <2>5. CASE p = 1
      <3>1. t[1] = s[p + 1] /\ t[Len(s) - 1] = s[Len(s)] /\ p # Len(s)
        BY <2>1, <2>3, <2>4, <2>5
      <3>2. l.prev[del] = s[Len(s)] /\ s[p + 1] # del /\ s[p + 1] \in N
        BY <1>5, <1>6, <2>5, <3>1
      <3>3. prev[s[p + 1]] = s[Len(s)]
        BY <1>4, <1>7, <3>1, <3>2 DEF Store
      <3> QED
        BY <1>11, <3>1, <3>2, <3>3
    <2>6. CASE p # 1 /\ p = Len(s)
      <3>1. t[1] = s[1] /\ t[Len(s) - 1] = s[p - 1] /\ s[1] # del /\ s[1] \in N
        BY <1>2, <1>6, <2>3, <2>4, <2>6
      <3>2. prev[s[1]] = s[p - 1]
        BY <1>2, <1>4, <1>5, <1>7, <2>6, <3>1 DEF Store
      <3> QED
        BY <1>11, <3>1, <3>2
    <2>7. CASE p # 1 /\ p # Len(s)
      <3>1. t[1] = s[1] /\ t[Len(s) - 1] = s[Len(s)] /\ s[1] # del /\ s[1] \in N
        BY <1>2, <1>6, <2>3, <2>4, <2>7
      <3>2. s[1] # s[p + 1] /\ l.prev[s[1]] = s[Len(s)]
        BY <1>1, <1>2, <1>6, <2>7
      <3>3. prev[s[1]] = s[Len(s)]
        BY <1>4, <1>6, <1>7, <2>7, <3>1, <3>2 DEF Store
      <3> QED
        BY <1>11, <3>1, <3>3
    <2> QED
      BY <2>5, <2>6, <2>7
  <1>16. ASSUME NEW k \in N, k \notin ToSet(t) PROVE m.next[k] = Garbage
    <2>1. CASE k = del
      BY <1>11, <2>1
    <2>2. CASE k # del
      <3>1. k \notin ToSet(s) /\ l.next[k] = Garbage
        BY <1>1, <1>3, <1>16, <2>2
      <3>2. p # 1 => k # s[p - 1]
        BY <1>2, <1>6, <3>1
      <3>3. next[k] = l.next[k]
        BY <1>4, <1>6, <1>7, <3>2 DEF Store
      <3> QED
        BY <1>11, <2>2, <3>1, <3>3
    <2> QED
      BY <2>1, <2>2
  <1>17. Holds(m, t, N)
    <2> HIDE DEF t, next, prev, head
    <2> QED
      BY <1>3, <1>10, <1>13, <1>14, <1>15, <1>16 DEF Holds, Linking
  <1> QED
    BY <1>17 DEF m, d, t, Removed

(***************************************************************************)
(* The table of uthash.h                                                   *)
(***************************************************************************)

BucketType == [hh_head : Key \cup {NULL}, count : Nat, expand_mult : Nat]

Array(n) == [0..(n - 1) -> BucketType]

Arrays == {<<>>} \cup UNION {Array(n) : n \in Nat \ {0}}

Field == [Key -> Pointer(Key)]

TableType ==
    [head : Key \cup {NULL}, tail : Key \cup {NULL}, prev : Field, next : Field,
     hh_prev : Field, hh_next : Field, buckets : Arrays, num_items : Nat,
     ideal_chain_maxlen : Nat, nonideal_items : Nat, ineff_expands : Nat,
     noexpand : BOOLEAN]

\* The chain of the bucket b is c.
ChainOf(h, b, c) ==
    /\ c \in Seq(Key) /\ Once(c)
    /\ Leads(h.hh_next, c, h.buckets[b].hh_head)
    /\ Backs(h.hh_prev, c)
    /\ c # <<>> => h.hh_prev[c[1]] = NULL
    /\ h.buckets[b].count = Len(c)

\* The elements of S, and no others, are in the chains of n buckets, each where
\* its hash value says.
Chained(h, n, chains, S) ==
    /\ n \in Nat \ {0}
    /\ h.buckets \in Array(n)
    /\ \A b \in 0..(n - 1) : ChainOf(h, b, chains[b])
    /\ \A b \in 0..(n - 1) : \A k \in ToSet(chains[b]) : k \in S /\ Hash[k] % n = b
    /\ S \subseteq Key
    /\ \A k \in S : k \in ToSet(chains[Hash[k] % n])

\* The elements in the order they came
Ordered(h, order) ==
    /\ order \in Seq(Key) /\ Once(order)
    /\ Leads(h.next, order, h.head)
    /\ Backs(h.prev, order)
    /\ order # <<>> => h.prev[order[1]] = NULL
    /\ order # <<>> => h.tail = order[Len(order)]
    /\ \A k \in Key : k \notin ToSet(order) => h.next[k] = Garbage
    /\ h.num_items = Len(order)

\* A bucket is not longer than it may be.
BucketFits(bucket, ideal) ==
    \/ bucket.count < (bucket.expand_mult + 1) * Threshold
    \/ bucket.count <= (bucket.expand_mult + 1) * ideal

Fits(h) == \A b \in DOMAIN h.buckets : BucketFits(h.buckets[b], h.ideal_chain_maxlen)

\* h is a table of the elements of order.
TableIs(h, order) ==
    /\ h \in TableType
    /\ Ordered(h, order)
    /\ order # <<>> => \E n, chains : Chained(h, n, chains, ToSet(order))
    /\ order # <<>> /\ ~h.noexpand => Fits(h)
    /\ order = <<>> => ~h.noexpand

LEMMA KeyNodes == Nodes(Key)
  BY HashAssumption, RegistryAssumption DEF Nodes, Key, Topic

LEMMA ModRange ==
    \A a \in Nat : \A n \in Nat \ {0} : a % n \in 0..(n - 1)
  OBVIOUS

\* Where the number of buckets is n
LEMMA BucketIs ==
    ASSUME NEW n \in Nat \ {0}, NEW h, h.buckets \in Array(n), NEW k \in Key
    PROVE  NumBuckets(h) = n /\ Bucket(h, k) = Hash[k] % n /\ Bucket(h, k) \in 0..(n - 1)
           /\ DOMAIN h.buckets = 0..(n - 1)
  <1>1. DOMAIN h.buckets = 0..(n - 1)
    BY DEF Array
  <1>2. Cardinality(0..(n - 1)) = n
    <2>1. 0 \in Int /\ n - 1 \in Int /\ ~(0 > n - 1) /\ n - 1 - 0 + 1 = n
      OBVIOUS
    <2>2. Cardinality(0..(n - 1)) = IF 0 > n - 1 THEN 0 ELSE n - 1 - 0 + 1
      BY <2>1, FS_Interval
    <2> QED
      BY <2>1, <2>2
  <1>3. Hash[k] \in Nat
    BY HashAssumption DEF Key
  <1>4. NumBuckets(h) = n /\ Bucket(h, k) = Hash[k] % n
    BY <1>1, <1>2 DEF NumBuckets, Bucket
  <1> QED
    BY <1>1, <1>3, <1>4, ModRange

LEMMA InBucketIs ==
    ASSUME NEW h \in TableType, NEW b, NEW c, ChainOf(h, b, c)
    PROVE  InBucket(h, b) = c
  <1>1. h.hh_next \in [Key -> Pointer(Key)]
    BY DEF TableType, Field
  <1>2. c \in Seq(Key) /\ Once(c) /\ Leads(h.hh_next, c, h.buckets[b].hh_head)
    BY DEF ChainOf
  <1>3. Chain(h.buckets[b].hh_head, h.hh_next) = c
    BY <1>1, <1>2, KeyNodes, ChainIs
  <1> QED
    BY <1>3 DEF InBucket

LEMMA IterIs ==
    ASSUME NEW h, NEW order, TableIs(h, order)
    PROVE  HASH_ITER(h) = order
  <1>1. h.next \in [Key -> Pointer(Key)]
    BY DEF TableIs, TableType, Field
  <1>2. order \in Seq(Key) /\ Once(order) /\ Leads(h.next, order, h.head)
    BY DEF TableIs, Ordered
  <1>3. Chain(h.head, h.next) = order
    BY <1>1, <1>2, KeyNodes, ChainIs
  <1> QED
    BY <1>3 DEF HASH_ITER

LEMMA HeadIs ==
    ASSUME NEW h, NEW order, TableIs(h, order)
    PROVE  h.head = NULL <=> order = <<>>
  <1>1. order \in Seq(Key) /\ h.head = IF order = <<>> THEN NULL ELSE order[1]
    BY DEF TableIs, Ordered, Leads
  <1>2. order # <<>> => order[1] \in Key
    BY <1>1, SeqFacts
  <1> QED
    BY <1>1, <1>2, KeyNodes DEF Nodes

LEMMA FindIs ==
    ASSUME NEW h, NEW order, TableIs(h, order), NEW k \in Key
    PROVE  HASH_FIND(h, k) = IF k \in ToSet(order) THEN k ELSE NULL
  <1>1. CASE order = <<>>
    <2>1. k \notin ToSet(order)
      BY <1>1 DEF ToSet
    <2>2. h.head = NULL
      BY <1>1, HeadIs
    <2> QED
      BY <2>1, <2>2 DEF HASH_FIND
  <1>2. CASE order # <<>>
    <2>1. h.head # NULL
      BY <1>2, HeadIs
    <2>2. PICK n, chains : Chained(h, n, chains, ToSet(order))
      BY <1>2 DEF TableIs
    <2>3. h \in TableType
      BY DEF TableIs
    <2>4. n \in Nat \ {0} /\ h.buckets \in Array(n)
      BY <2>2 DEF Chained
    <2> DEFINE b == Hash[k] % n
               c == chains[b]
    <2>5. Bucket(h, k) = b /\ b \in 0..(n - 1)
      BY <2>4, BucketIs
    <2>6. ChainOf(h, b, c)
      BY <2>2, <2>5 DEF Chained
    <2>7. InBucket(h, b) = c
      BY <2>3, <2>6, InBucketIs
    <2>8. Contains(c, k) <=> k \in ToSet(c)
      <3>1. c \in Seq(Key)
        BY <2>6 DEF ChainOf
      <3> HIDE DEF c
      <3>2. DOMAIN c = 1..Len(c)
        BY <3>1, SeqFacts
      <3> QED
        BY <3>2 DEF Contains, ToSet
    <2>9. k \in ToSet(c) <=> k \in ToSet(order)
      BY <2>2, <2>5 DEF Chained
    <2> HIDE DEF b, c
    <2> QED
      BY <2>1, <2>5, <2>7, <2>8, <2>9 DEF HASH_FIND
  <1> QED
    BY <1>1, <1>2

\* What the work on chains leaves alone
SameButChains(g, h) ==
    /\ g.head = h.head /\ g.tail = h.tail /\ g.prev = h.prev /\ g.next = h.next
    /\ g.num_items = h.num_items /\ g.ideal_chain_maxlen = h.ideal_chain_maxlen
    /\ g.ineff_expands = h.ineff_expands /\ g.noexpand = h.noexpand

\* The chains with k in front of the chain b
Prefixed(chains, n, b, k) ==
    [c \in 0..(n - 1) |-> IF c = b THEN <<k>> \o chains[b] ELSE chains[c]]

LEMMA ArrayStore ==
    ASSUME NEW n \in Nat \ {0}, NEW a \in Array(n), NEW b \in 0..(n - 1), NEW v \in BucketType
    PROVE  /\ Store(a, b, v) \in Array(n) /\ Store(a, b, v) \in Arrays
           /\ Store(a, b, v)[b] = v
           /\ \A c \in 0..(n - 1) : c # b => Store(a, b, v)[c] = a[c]
  <1>1. Store(a, b, v) \in Array(n)
    BY DEF Store, Array
  <1>2. Store(a, b, v) \in Arrays
    BY <1>1 DEF Arrays
  <1> QED
    BY <1>1, <1>2 DEF Store, Array

\* g is h with k put in front of the chain b, as far as the fields go.
Added(g, h, n, b, k) ==
    /\ g \in TableType /\ SameButChains(g, h) /\ g.nonideal_items = h.nonideal_items
    /\ g.buckets \in Array(n)
    /\ g.buckets[b].count = h.buckets[b].count + 1
    /\ g.buckets[b].hh_head = k
    /\ g.buckets[b].expand_mult = h.buckets[b].expand_mult
    /\ \A c \in 0..(n - 1) : c # b => g.buckets[c] = h.buckets[c]
    /\ g.hh_next = Store(h.hh_next, k, h.buckets[b].hh_head)
    /\ g.hh_prev = Put(Store(h.hh_prev, k, NULL), h.buckets[b].hh_head, k)

\* HASH_ADD_TO_BKT
LEMMA AddFields ==
    ASSUME NEW h \in TableType, NEW n \in Nat \ {0}, h.buckets \in Array(n), NEW k \in Key
    PROVE  Added(AddToBucket(h, k), h, n, Hash[k] % n, k)
  <1> DEFINE b      == Hash[k] % n
             bucket == h.buckets[b]
             first  == bucket.hh_head
             new    == [bucket EXCEPT !.count = bucket.count + 1, !.hh_head = k]
             g      == AddToBucket(h, k)
  <1>1. Bucket(h, k) = b /\ b \in 0..(n - 1)
    BY BucketIs
  <1>2. bucket \in BucketType
    BY <1>1 DEF Array
  <1>3. /\ new \in BucketType /\ first \in Key \cup {NULL}
        /\ new.count = bucket.count + 1 /\ new.hh_head = k /\ new.expand_mult = bucket.expand_mult
    <2> HIDE DEF bucket
    <2>1. bucket.count \in Nat /\ bucket.count + 1 \in Nat /\ first \in Key \cup {NULL}
      BY <1>2 DEF BucketType
    <2> QED
      BY <1>2, <2>1 DEF BucketType
  <1> HIDE DEF bucket, new
  <1>4. /\ Store(h.buckets, b, new) \in Array(n) /\ Store(h.buckets, b, new) \in Arrays
        /\ Store(h.buckets, b, new)[b] = new
        /\ \A c \in 0..(n - 1) : c # b => Store(h.buckets, b, new)[c] = h.buckets[c]
    <2> HIDE DEF b
    <2> QED
      BY <1>1, <1>3, ArrayStore
  <1>5. h.hh_next \in Field /\ h.hh_prev \in Field
    BY DEF TableType
  <1>6. Store(h.hh_next, k, first) \in Field
    BY <1>3, <1>5 DEF Store, Field, Pointer
  <1>7. Put(Store(h.hh_prev, k, NULL), first, k) \in Field
    <2>1. Store(h.hh_prev, k, NULL) \in Field
      BY <1>5 DEF Store, Field, Pointer
    <2>2. CASE first = NULL
      BY <2>1, <2>2 DEF Put
    <2>3. CASE first # NULL
      <3> HIDE DEF first
      <3>1. first \in Key
        BY <1>3, <2>3
      <3>2. Store(Store(h.hh_prev, k, NULL), first, k) \in Field
        BY <2>1, <3>1 DEF Store, Field, Pointer
      <3> QED
        BY <2>3, <3>2 DEF Put
    <2> QED
      BY <2>2, <2>3
  <1>8. g = [h EXCEPT !.buckets = Store(h.buckets, b, new),
                      !.hh_next = Store(h.hh_next, k, first),
                      !.hh_prev = Put(Store(h.hh_prev, k, NULL), first, k)]
    BY <1>1 DEF AddToBucket, new, bucket
  <1> HIDE DEF g, first, b
  <1>9. /\ g.buckets = Store(h.buckets, b, new)
        /\ g.hh_next = Store(h.hh_next, k, first)
        /\ g.hh_prev = Put(Store(h.hh_prev, k, NULL), first, k)
    BY <1>8 DEF TableType
  <1>10. SameButChains(g, h) /\ g.nonideal_items = h.nonideal_items
    BY <1>8 DEF TableType, SameButChains
  <1>11. g \in TableType
    BY <1>4, <1>6, <1>7, <1>8 DEF TableType
  <1> QED
    BY <1>3, <1>4, <1>9, <1>10, <1>11 DEF Added, bucket, g, b, first

\* HASH_ADD_TO_BKT puts an element in front of its chain.
LEMMA AddPlaces ==
    ASSUME NEW h \in TableType, NEW n, NEW chains, NEW S, Chained(h, n, chains, S),
           NEW k \in Key, k \notin S
    PROVE  Chained(AddToBucket(h, k), n, Prefixed(chains, n, Hash[k] % n, k), S \cup {k})
  <1> DEFINE b     == Hash[k] % n
             first == h.buckets[b].hh_head
             g     == AddToBucket(h, k)
             new   == Prefixed(chains, n, b, k)
             c     == chains[b]
  <1>1. /\ n \in Nat \ {0} /\ h.buckets \in Array(n) /\ S \subseteq Key
        /\ \A i \in 0..(n - 1) : ChainOf(h, i, chains[i])
        /\ \A i \in 0..(n - 1) : \A x \in ToSet(chains[i]) : x \in S /\ Hash[x] % n = i
        /\ \A x \in S : x \in ToSet(chains[Hash[x] % n])
    BY DEF Chained
  <1>2. b \in 0..(n - 1)
    BY <1>1, BucketIs
  <1>3. /\ g \in TableType
        /\ g.buckets \in Array(n)
        /\ g.buckets[b].count = h.buckets[b].count + 1 /\ g.buckets[b].hh_head = k
        /\ \A i \in 0..(n - 1) : i # b => g.buckets[i] = h.buckets[i]
        /\ g.hh_next = Store(h.hh_next, k, first)
        /\ g.hh_prev = Put(Store(h.hh_prev, k, NULL), first, k)
    <2>1. Added(g, h, n, b, k)
      BY <1>1, AddFields
    <2> QED
      BY <2>1 DEF Added
  <1>6. ChainOf(h, b, c)
    BY <1>1, <1>2
  <1>7. /\ c \in Seq(Key) /\ Once(c)
        /\ Leads(h.hh_next, c, first) /\ Backs(h.hh_prev, c)
        /\ c # <<>> => h.hh_prev[c[1]] = NULL
        /\ h.buckets[b].count = Len(c)
    BY <1>6 DEF ChainOf
  <1>8. first = IF c = <<>> THEN NULL ELSE c[1]
    BY <1>7 DEF Leads
  <1> HIDE DEF g, new
  <1>9. k \notin ToSet(c) /\ \A i \in 0..(n - 1) : k \notin ToSet(chains[i])
    BY <1>1, <1>2
  <1>10. /\ Len(c) \in Nat /\ (c = <<>> <=> Len(c) = 0)
         /\ \A i \in 1..Len(c) : c[i] \in Key /\ c[i] \in ToSet(c)
         /\ c # <<>> => first \in Key /\ first \in ToSet(c) /\ 1 \in 1..Len(c)
    <2>1. /\ Len(c) \in Nat /\ (c = <<>> <=> Len(c) = 0)
          /\ \A i \in 1..Len(c) : c[i] \in Key /\ c[i] \in ToSet(c)
      BY <1>7, SeqFacts
    <2>2. c # <<>> => 1 \in 1..Len(c)
      BY <2>1
    <2> QED
      BY <1>8, <2>1, <2>2
  <1>11. first # k /\ (first = NULL <=> c = <<>>)
    BY <1>8, <1>9, <1>10, KeyNodes DEF Nodes
  <1>12. h.hh_next \in Field /\ h.hh_prev \in Field
    BY DEF TableType
  <1> HIDE DEF first, c
  <1>13. g.hh_next[k] = first /\ \A x \in Key : x # k => g.hh_next[x] = h.hh_next[x]
    BY <1>3, <1>12 DEF Store, Field
  <1>14. /\ g.hh_prev[k] = NULL
         /\ c # <<>> => g.hh_prev[first] = k
         /\ \A x \in Key : x # k /\ x # first => g.hh_prev[x] = h.hh_prev[x]
    <2> DEFINE one == Store(h.hh_prev, k, NULL)
    <2>1. DOMAIN one = Key /\ one[k] = NULL /\ \A x \in Key : x # k => one[x] = h.hh_prev[x]
      BY <1>12 DEF Store, Field
    <2> HIDE DEF one
    <2>2. CASE c = <<>>
      BY <1>3, <1>11, <2>1, <2>2 DEF Put, one
    <2>3. CASE c # <<>>
      <3>1. g.hh_prev = Store(one, first, k)
        BY <1>3, <1>11, <2>3 DEF Put, one
      <3> QED
        BY <1>10, <1>11, <2>1, <2>3, <3>1 DEF Store
    <2> QED
      BY <2>2, <2>3
  <1>15. ChainOf(g, b, <<k>> \o c)
    <2>1. /\ <<k>> \o c \in Seq(Key) /\ Len(<<k>> \o c) = Len(c) + 1 /\ (<<k>> \o c)[1] = k
          /\ Once(<<k>> \o c)
      BY <1>7, <1>9, PrependIs
    <2>2. Leads(g.hh_next, <<k>> \o c, k)
      <3>1. \A i \in 1..Len(c) : g.hh_next[c[i]] = h.hh_next[c[i]]
        BY <1>9, <1>10, <1>13
      <3> QED
        BY <1>7, <1>9, <1>13, <3>1, LeadsPrepend
    <2>3. Backs(g.hh_prev, <<k>> \o c)
      <3>1. c # <<>> => g.hh_prev[c[1]] = k
        BY <1>8, <1>14
      <3>2. ASSUME NEW i \in 1..Len(c), i > 1 PROVE g.hh_prev[c[i]] = h.hh_prev[c[i]]
        <4>1. c # <<>>
          BY <1>10
        <4>2. c[i] # c[1]
          BY <1>7, <1>10, <3>2, <4>1 DEF Once
        <4>3. c[i] # first /\ c[i] # k /\ c[i] \in Key
          BY <1>8, <1>9, <1>10, <4>1, <4>2
        <4> QED
          BY <1>14, <4>3
      <3> QED
        BY <1>7, <1>9, <3>1, <3>2, BacksPrepend
    <2>4. g.buckets[b].count = Len(<<k>> \o c)
      BY <1>3, <1>7, <2>1
    <2> QED
      BY <1>3, <1>14, <2>1, <2>2, <2>3, <2>4 DEF ChainOf
  <1>16. ASSUME NEW i \in 0..(n - 1), i # b PROVE ChainOf(g, i, chains[i])
    <2> DEFINE o == chains[i]
    <2>1. /\ o \in Seq(Key) /\ Once(o)
          /\ Leads(h.hh_next, o, h.buckets[i].hh_head) /\ Backs(h.hh_prev, o)
          /\ o # <<>> => h.hh_prev[o[1]] = NULL
          /\ h.buckets[i].count = Len(o)
      BY <1>1 DEF ChainOf
    <2>2. g.buckets[i] = h.buckets[i]
      BY <1>3, <1>16
    <2>3. \A x \in ToSet(o) : x # k /\ x # first
      <3>1. \A x \in ToSet(o) : Hash[x] % n = i
        BY <1>1
      <3>2. first # NULL => Hash[first] % n = b
        BY <1>1, <1>2, <1>10, <1>11 DEF c
      <3>3. \A x \in ToSet(o) : x \in Key
        BY <1>1
      <3>4. NULL \notin Key
        BY KeyNodes DEF Nodes
      <3> HIDE DEF b
      <3> QED
        BY <1>9, <1>16, <3>1, <3>2, <3>3, <3>4
    <2> HIDE DEF o
    <2>4. \A j \in 1..Len(o) : o[j] \in Key /\ o[j] # k /\ o[j] # first
      BY <2>1, <2>3, SeqFacts
    <2>5. \A j \in 1..Len(o) : g.hh_next[o[j]] = h.hh_next[o[j]] /\ g.hh_prev[o[j]] = h.hh_prev[o[j]]
      BY <1>13, <1>14, <2>4
    <2>6. Leads(g.hh_next, o, g.buckets[i].hh_head)
      BY <2>1, <2>2, <2>5, LeadsStill
    <2>7. Backs(g.hh_prev, o)
      BY <2>1, <2>5 DEF Backs
    <2>8. o # <<>> => g.hh_prev[o[1]] = NULL
      <3>1. o # <<>> => 1 \in 1..Len(o)
        BY <2>1, SeqFacts
      <3> QED
        BY <2>1, <2>5, <3>1
    <2>9. ChainOf(g, i, o)
      BY <2>1, <2>2, <2>6, <2>7, <2>8 DEF ChainOf
    <2> QED
      BY <2>9 DEF o
  <1>17. new[b] = <<k>> \o c /\ \A i \in 0..(n - 1) : i # b => new[i] = chains[i]
    BY <1>2 DEF new, Prefixed, c
  <1>18. ToSet(<<k>> \o c) = ToSet(c) \cup {k}
    BY <1>7, <1>9, PrependIs
  <1>19. \A i \in 0..(n - 1) : ChainOf(g, i, new[i])
    BY <1>15, <1>16, <1>17
  <1>20. \A i \in 0..(n - 1) : \A x \in ToSet(new[i]) : x \in S \cup {k} /\ Hash[x] % n = i
    <2>1. \A x \in ToSet(<<k>> \o c) : x \in S \cup {k} /\ Hash[x] % n = b
      BY <1>1, <1>2, <1>18 DEF c
    <2> HIDE DEF b
    <2> QED
      BY <1>1, <1>17, <2>1
  <1>21. \A x \in S \cup {k} : x \in ToSet(new[Hash[x] % n])
    <2>1. k \in ToSet(new[b])
      BY <1>17, <1>18
    <2>2. ASSUME NEW x \in S PROVE x \in ToSet(new[Hash[x] % n])
      <3>1. Hash[x] % n \in 0..(n - 1) /\ x \in ToSet(chains[Hash[x] % n])
        BY <1>1, BucketIs
      <3>2. CASE Hash[x] % n = b
        BY <1>17, <1>18, <3>1, <3>2 DEF c
      <3>3. CASE Hash[x] % n # b
        BY <1>17, <3>1, <3>3
      <3> QED
        BY <3>2, <3>3
    <2> QED
      BY <2>1, <2>2
  <1>22. Chained(g, n, new, S \cup {k})
    <2> HIDE DEF b
    <2> QED
      BY <1>1, <1>3, <1>19, <1>20, <1>21 DEF Chained
  <1> QED
    BY <1>22 DEF g, new

\* While HASH_EXPAND_BUCKETS fills the buckets, none is longer than this.
Tight(h) ==
    \A b \in DOMAIN h.buckets :
        h.buckets[b].count <= (h.buckets[b].expand_mult + 1) * h.ideal_chain_maxlen

LEMMA TightSteps ==
    ASSUME NEW c \in Nat, NEW e \in Nat, NEW i \in Nat, i >= 1, c <= (e + 1) * i
    PROVE  c + 1 <= ((IF c + 1 > i /\ c + 1 > e * i THEN e + 1 ELSE e) + 1) * i
  <1>1. (e + 1) * i = e * i + i /\ (e + 1 + 1) * i = e * i + i + i /\ e * i \in Nat
    BY SMT
  <1>2. CASE c + 1 > i /\ c + 1 > e * i
    <2>1. c + 1 <= (e + 1 + 1) * i
      BY <1>1
    <2> QED
      BY <1>2, <2>1
  <1>3. CASE ~(c + 1 > i /\ c + 1 > e * i)
    <2> DEFINE x == e * i
               y == (e + 1) * i
    <2>1. x \in Nat /\ y = x + i /\ (c + 1 <= i \/ c + 1 <= x)
      BY <1>1, <1>3
    <2>2. c + 1 <= y
      <3> HIDE DEF x, y
      <3> QED
        BY <2>1
    <2> QED
      BY <1>3, <2>2
  <1> QED
    BY <1>2, <1>3

\* Chains stay what they are if their pointers and counts do.
LEMMA ChainedStill ==
    ASSUME NEW h, NEW g, NEW n, NEW chains, NEW S, Chained(h, n, chains, S),
           g.hh_next = h.hh_next, g.hh_prev = h.hh_prev, g.buckets \in Array(n),
           \A b \in 0..(n - 1) : /\ g.buckets[b].hh_head = h.buckets[b].hh_head
                                 /\ g.buckets[b].count = h.buckets[b].count
    PROVE  Chained(g, n, chains, S)
  <1>1. \A b \in 0..(n - 1) : ChainOf(g, b, chains[b])
    BY DEF Chained, ChainOf
  <1> QED
    BY <1>1 DEF Chained

\* g is h with k gone to its new bucket, as far as the fields go.
Rehashed(g, h, n, b, k) ==
    /\ g \in TableType /\ SameButChains(g, h) /\ g.buckets \in Array(n)
    /\ g.hh_next = AddToBucket(h, k).hh_next /\ g.hh_prev = AddToBucket(h, k).hh_prev
    /\ \A c \in 0..(n - 1) : /\ g.buckets[c].hh_head = AddToBucket(h, k).buckets[c].hh_head
                             /\ g.buckets[c].count = AddToBucket(h, k).buckets[c].count
                             /\ c # b => g.buckets[c] = h.buckets[c]
    /\ g.buckets[b].count = h.buckets[b].count + 1
    /\ g.buckets[b].expand_mult =
          IF /\ h.buckets[b].count + 1 > h.ideal_chain_maxlen
             /\ h.buckets[b].count + 1 > h.buckets[b].expand_mult * h.ideal_chain_maxlen
          THEN h.buckets[b].expand_mult + 1
          ELSE h.buckets[b].expand_mult

LEMMA RehashFields ==
    ASSUME NEW h \in TableType, NEW n \in Nat \ {0}, h.buckets \in Array(n), NEW k \in Key
    PROVE  Rehashed(Rehash(h, k), h, n, Hash[k] % n, k)
  <1> DEFINE b      == Hash[k] % n
             m      == AddToBucket(h, k)
             bucket == m.buckets[b]
             ideal  == h.ideal_chain_maxlen
             longer == [bucket EXCEPT !.expand_mult = bucket.expand_mult + 1]
             long   == bucket.count > bucket.expand_mult * ideal
             g      == Rehash(h, k)
  <1>1. Bucket(h, k) = b /\ b \in 0..(n - 1)
    BY BucketIs
  <1>2. Added(m, h, n, b, k)
    BY AddFields
  <1>3. /\ m \in TableType /\ m.buckets \in Array(n) /\ SameButChains(m, h)
        /\ bucket.count = h.buckets[b].count + 1
        /\ bucket.expand_mult = h.buckets[b].expand_mult
        /\ \A c \in 0..(n - 1) : c # b => m.buckets[c] = h.buckets[c]
    BY <1>2 DEF Added
  <1>4. bucket \in BucketType
    BY <1>1, <1>3 DEF Array
  <1>5. bucket.count \in Nat /\ ideal \in Nat /\ bucket.expand_mult \in Nat
    BY <1>4 DEF BucketType, TableType
  <1> HIDE DEF b, m
  <1>6. CASE bucket.count <= ideal
    <2>1. g = m
      BY <1>1, <1>6 DEF Rehash, m
    <2>2. ~(h.buckets[b].count + 1 > ideal)
      BY <1>3, <1>5, <1>6
    <2>3. Rehashed(m, h, n, b, k)
      BY <1>3, <2>2 DEF Rehashed, m
    <2> QED
      BY <2>1, <2>3 DEF b
  <1>7. CASE ~(bucket.count <= ideal)
    <2>1. h.buckets[b].count + 1 > ideal
      BY <1>3, <1>5, <1>7
    <2>2. g = [m EXCEPT !.nonideal_items = m.nonideal_items + 1,
                        !.buckets = IF long THEN Store(m.buckets, b, longer) ELSE m.buckets]
      BY <1>1, <1>7 DEF Rehash, m
    <2> DEFINE a == IF long THEN Store(m.buckets, b, longer) ELSE m.buckets
    <2>3. /\ longer \in BucketType /\ longer.expand_mult = bucket.expand_mult + 1
          /\ longer.count = bucket.count /\ longer.hh_head = bucket.hh_head
      <3> HIDE DEF bucket
      <3> QED
        BY <1>4, <1>5 DEF BucketType
    <2> HIDE DEF longer
    <2>4. /\ Store(m.buckets, b, longer) \in Array(n) /\ Store(m.buckets, b, longer) \in Arrays
          /\ Store(m.buckets, b, longer)[b] = longer
          /\ \A c \in 0..(n - 1) : c # b => Store(m.buckets, b, longer)[c] = m.buckets[c]
      BY <1>1, <1>3, <2>3, ArrayStore
    <2>5. m.buckets \in Arrays /\ m.nonideal_items \in Nat /\ m.nonideal_items + 1 \in Nat
      BY <1>3 DEF TableType
    <2> HIDE DEF long, g
    <2>6. /\ a \in Array(n) /\ a \in Arrays
          /\ a[b].expand_mult = IF long THEN bucket.expand_mult + 1 ELSE bucket.expand_mult
          /\ a[b].count = bucket.count /\ a[b].hh_head = bucket.hh_head
          /\ \A c \in 0..(n - 1) : c # b => a[c] = m.buckets[c]
      BY <1>3, <2>3, <2>4, <2>5
    <2> HIDE DEF a
    <2>7. /\ g.hh_next = m.hh_next /\ g.hh_prev = m.hh_prev /\ g.buckets = a
          /\ SameButChains(g, m)
      BY <1>3, <2>2 DEF TableType, SameButChains, a
    <2>8. g \in TableType
      BY <1>3, <2>2, <2>5, <2>6 DEF TableType, a
    <2>9. SameButChains(g, h)
      BY <1>3, <2>7 DEF SameButChains
    <2>10. \A c \in 0..(n - 1) : /\ g.buckets[c].hh_head = m.buckets[c].hh_head
                                 /\ g.buckets[c].count = m.buckets[c].count
                                 /\ c # b => g.buckets[c] = h.buckets[c]
      BY <1>3, <2>6, <2>7
    <2>11. g.buckets[b].expand_mult =
             IF /\ h.buckets[b].count + 1 > h.ideal_chain_maxlen
                /\ h.buckets[b].count + 1 > h.buckets[b].expand_mult * h.ideal_chain_maxlen
             THEN h.buckets[b].expand_mult + 1
             ELSE h.buckets[b].expand_mult
      <3>1. long <=> h.buckets[b].count + 1 > h.buckets[b].expand_mult * h.ideal_chain_maxlen
        BY <1>3 DEF long
      <3> QED
        BY <1>3, <2>1, <2>6, <2>7, <3>1
    <2>12. g.buckets[b].count = h.buckets[b].count + 1
      BY <1>3, <2>6, <2>7
    <2>13. Rehashed(g, h, n, b, k)
      BY <2>6, <2>7, <2>8, <2>9, <2>10, <2>11, <2>12 DEF Rehashed, m
    <2> QED
      BY <2>13 DEF g, b
  <1> QED
    BY <1>6, <1>7

LEMMA RehashPlaces ==
    ASSUME NEW h \in TableType, NEW n, NEW chains, NEW S, Chained(h, n, chains, S),
           NEW k \in Key, k \notin S
    PROVE  Chained(Rehash(h, k), n, Prefixed(chains, n, Hash[k] % n, k), S \cup {k})
  <1>1. n \in Nat \ {0} /\ h.buckets \in Array(n)
    BY DEF Chained
  <1>2. Chained(AddToBucket(h, k), n, Prefixed(chains, n, Hash[k] % n, k), S \cup {k})
    BY AddPlaces
  <1>3. Rehashed(Rehash(h, k), h, n, Hash[k] % n, k)
    BY <1>1, RehashFields
  <1> QED
    BY <1>2, <1>3, ChainedStill DEF Rehashed

LEMMA RehashTight ==
    ASSUME NEW h \in TableType, NEW n \in Nat \ {0}, h.buckets \in Array(n), NEW k \in Key,
           Tight(h), h.ideal_chain_maxlen >= 1
    PROVE  Tight(Rehash(h, k))
  <1> DEFINE b == Hash[k] % n
             g == Rehash(h, k)
             old == h.buckets[b]
  <1>1. b \in 0..(n - 1)
    BY BucketIs
  <1>2. Rehashed(g, h, n, b, k)
    BY RehashFields
  <1>3. /\ g.buckets \in Array(n) /\ g.ideal_chain_maxlen = h.ideal_chain_maxlen
        /\ \A c \in 0..(n - 1) : c # b => g.buckets[c] = h.buckets[c]
        /\ g.buckets[b].count = old.count + 1
        /\ g.buckets[b].expand_mult =
              IF /\ old.count + 1 > h.ideal_chain_maxlen
                 /\ old.count + 1 > old.expand_mult * h.ideal_chain_maxlen
              THEN old.expand_mult + 1
              ELSE old.expand_mult
    BY <1>2 DEF Rehashed, SameButChains
  <1>4. DOMAIN g.buckets = 0..(n - 1) /\ DOMAIN h.buckets = 0..(n - 1)
    BY <1>3 DEF Array
  <1>5. old \in BucketType
    BY <1>1 DEF Array
  <1>6. old.count \in Nat /\ old.expand_mult \in Nat /\ h.ideal_chain_maxlen \in Nat
    <2> HIDE DEF old
    <2> QED
      BY <1>5 DEF BucketType, TableType
  <1>7. old.count <= (old.expand_mult + 1) * h.ideal_chain_maxlen
    BY <1>1, <1>4 DEF Tight
  <1> HIDE DEF b, old, g
  <1>8. g.buckets[b].count <= (g.buckets[b].expand_mult + 1) * g.ideal_chain_maxlen
    <2>1. old.count + 1 <= ((IF old.count + 1 > h.ideal_chain_maxlen
                                /\ old.count + 1 > old.expand_mult * h.ideal_chain_maxlen
                             THEN old.expand_mult + 1 ELSE old.expand_mult) + 1) * h.ideal_chain_maxlen
      BY <1>6, <1>7, TightSteps
    <2> QED
      BY <1>3, <2>1
  <1>9. ASSUME NEW c \in 0..(n - 1), c # b
        PROVE  g.buckets[c].count <= (g.buckets[c].expand_mult + 1) * g.ideal_chain_maxlen
    <2>1. h.buckets[c].count <= (h.buckets[c].expand_mult + 1) * h.ideal_chain_maxlen
      BY <1>4 DEF Tight
    <2> QED
      BY <1>3, <1>9, <2>1
  <1>10. Tight(g)
    BY <1>4, <1>8, <1>9 DEF Tight
  <1> QED
    BY <1>10 DEF g

\* One sequence after another
LEMMA ConcatIs ==
    ASSUME NEW N, NEW s \in Seq(N), NEW t \in Seq(N), Once(s), Once(t),
           \A x \in ToSet(s) : x \notin ToSet(t)
    PROVE  /\ s \o t \in Seq(N) /\ Once(s \o t)
           /\ ToSet(s \o t) = ToSet(s) \cup ToSet(t)
  <1> DEFINE c == s \o t
  <1>1. /\ Len(s) \in Nat /\ DOMAIN s = 1..Len(s) /\ \A i \in 1..Len(s) : s[i] \in ToSet(s)
        /\ \A x \in ToSet(s) : \E i \in 1..Len(s) : x = s[i]
    BY SeqFacts
  <1>2. /\ Len(t) \in Nat /\ DOMAIN t = 1..Len(t) /\ \A i \in 1..Len(t) : t[i] \in ToSet(t)
        /\ \A x \in ToSet(t) : \E i \in 1..Len(t) : x = t[i]
    BY SeqFacts
  <1>3. /\ c \in Seq(N) /\ Len(c) = Len(s) + Len(t)
        /\ \A i \in 1..(Len(s) + Len(t)) : c[i] = IF i <= Len(s) THEN s[i] ELSE t[i - Len(s)]
    BY ConcatProperties
  <1> HIDE DEF c
  <1>4. DOMAIN c = 1..(Len(s) + Len(t))
    BY <1>3, SeqFacts
  <1>5. \A i \in 1..Len(c) : \/ i \in 1..Len(s) /\ c[i] = s[i]
                             \/ i - Len(s) \in 1..Len(t) /\ c[i] = t[i - Len(s)] /\ i > Len(s)
    BY <1>1, <1>2, <1>3
  <1>6. Once(c)
    <2>1. ASSUME NEW i \in 1..Len(c), NEW j \in 1..Len(c), c[i] = c[j] PROVE i = j
      <3>1. CASE i \in 1..Len(s) /\ c[i] = s[i]
        <4>1. c[i] \in ToSet(s) /\ c[i] \notin ToSet(t)
          BY <1>1, <3>1
        <4>2. j \in 1..Len(s) /\ c[j] = s[j]
          BY <1>2, <1>5, <2>1, <4>1
        <4> QED
          BY <2>1, <3>1, <4>2 DEF Once
      <3>2. CASE i - Len(s) \in 1..Len(t) /\ c[i] = t[i - Len(s)] /\ i > Len(s)
        <4>1. c[i] \in ToSet(t) /\ c[i] \notin ToSet(s)
          BY <1>2, <3>2
        <4>2. j - Len(s) \in 1..Len(t) /\ c[j] = t[j - Len(s)]
          BY <1>1, <1>5, <2>1, <4>1
        <4>3. i - Len(s) = j - Len(s)
          BY <2>1, <3>2, <4>2 DEF Once
        <4> QED
          BY <1>1, <1>3, <4>3
      <3> QED
        BY <1>5, <3>1, <3>2
    <2> QED
      BY <2>1 DEF Once
  <1>7. ToSet(c) = ToSet(s) \cup ToSet(t)
    <2>1. ASSUME NEW x \in ToSet(c) PROVE x \in ToSet(s) \cup ToSet(t)
      <3>1. PICK i \in 1..Len(c) : x = c[i]
        BY <1>3, <1>4 DEF ToSet
      <3> QED
        BY <1>1, <1>2, <1>5, <3>1
    <2>2. ASSUME NEW x \in ToSet(s) PROVE x \in ToSet(c)
      <3>1. PICK i \in 1..Len(s) : x = s[i]
        BY <1>1
      <3>2. i \in 1..(Len(s) + Len(t)) /\ c[i] = x
        BY <1>1, <1>2, <1>3, <3>1
      <3> QED
        BY <1>4, <3>2 DEF ToSet
    <2>3. ASSUME NEW x \in ToSet(t) PROVE x \in ToSet(c)
      <3>1. PICK i \in 1..Len(t) : x = t[i]
        BY <1>2
      <3>2. i + Len(s) \in 1..(Len(s) + Len(t)) /\ ~(i + Len(s) <= Len(s)) /\ i + Len(s) - Len(s) = i
        BY <1>1, <1>2
      <3>3. c[i + Len(s)] = x
        BY <1>3, <3>1, <3>2
      <3> QED
        BY <1>4, <3>2, <3>3 DEF ToSet
    <2> QED
      BY <2>1, <2>2, <2>3
  <1> QED
    BY <1>3, <1>6, <1>7 DEF c

\* f is what FlattenSeq has of n sequences after each of them.
Flattens(f, seqs, n) ==
    /\ FlattenSeq(seqs) = f[n]
    /\ f[1] = seqs[1]
    /\ \A i \in 1..n : i > 1 => f[i] = f[i - 1] \o seqs[i]

\* What FlattenSeq computes
LEMMA FlattenComputes ==
    ASSUME NEW N, NEW n \in Nat \ {0}, NEW seqs \in [1..n -> Seq(N)]
    PROVE  \E f : Flattens(f, seqs, n)
  <1>1. Len(seqs) = n /\ DOMAIN seqs = 1..n
    <2>1. seqs \in Seq(Seq(N))
      OBVIOUS
    <2> QED
      BY <2>1, LenProperties
  <1> DEFINE A == Seq(N)
             a == seqs[1]
             F == [p \in Nat \X A |-> IF p[1] + 2 <= n THEN p[2] \o seqs[p[1] + 2] ELSE p[2]]
  <1>2. a \in A /\ \A i \in 1..n : seqs[i] \in A
    <2>1. 1 \in 1..n
      OBVIOUS
    <2> QED
      BY <2>1
  <1>3. F \in [Nat \X A -> A]
    <2>1. ASSUME NEW i \in Nat, NEW x \in A PROVE (IF i + 2 <= n THEN x \o seqs[i + 2] ELSE x) \in A
      <3>1. CASE i + 2 <= n
        <4>1. i + 2 \in 1..n
          BY <3>1
        <4>2. seqs[i + 2] \in Seq(N)
          BY <1>2, <4>1
        <4>3. x \o seqs[i + 2] \in Seq(N)
          BY <4>2, ConcatProperties
        <4> QED
          BY <3>1, <4>3
      <3> QED
        BY <3>1
    <2> HIDE DEF A
    <2> QED
      BY <2>1
  <1> HIDE DEF A, a, F
  <1>4. PICK f : Recurs(f, A, a, F)
    BY <1>2, <1>3, NatRecursion
  <1>5. /\ f[0] = a /\ \A i \in Nat : f[i] \in A
        /\ \A i \in Nat : i + 2 <= n => f[i + 1] = f[i] \o seqs[i + 2]
    <2>1. f[0] = a /\ \A i \in Nat : f[i] \in A /\ f[i + 1] = F[<<i, f[i]>>]
      BY <1>4 DEF Recurs
    <2> QED
      BY <2>1 DEF F
  <1> DEFINE it == [i \in 1..n |-> f[i - 1]]
             body(g) == [i \in 1..n |-> IF i = 1 THEN seqs[i] ELSE g[i - 1] \o seqs[i]]
             chosen == CHOOSE g : g = body(g)
  <1>6. it = body(it)
    <2>1. ASSUME NEW i \in 1..n PROVE it[i] = body(it)[i]
      <3>1. CASE i = 1
        BY <1>5, <3>1 DEF a
      <3>2. CASE i # 1
        <4>1. i - 2 \in Nat /\ i - 2 + 2 = i /\ i - 2 + 2 <= n /\ i - 2 + 1 = i - 1
              /\ i - 1 \in 1..n /\ i - 1 - 1 = i - 2
          BY <3>2
        <4>2. f[i - 1] = f[i - 2] \o seqs[i]
          BY <1>5, <4>1
        <4>3. it[i] = f[i - 1] /\ it[i - 1] = f[i - 2]
          BY <4>1
        <4>4. body(it)[i] = it[i - 1] \o seqs[i]
          BY <3>2
        <4> QED
          BY <4>2, <4>3, <4>4
      <3> QED
        BY <3>1, <3>2
    <2> HIDE DEF it
    <2>2. it \in [1..n -> {it[i] : i \in 1..n}] /\ DOMAIN body(it) = 1..n
      BY DEF it
    <2> QED
      BY <2>1, <2>2
  <1>7. chosen = body(chosen)
    <2>1. \E g : g = body(g)
      BY <1>6
    <2> HIDE DEF body
    <2> QED
      BY <2>1
  <1>8. FlattenSeq(seqs) = chosen[n]
    <2>1. Len(seqs) # 0
      BY <1>1
    <2> QED
      BY <1>1, <2>1 DEF FlattenSeq
  <1> HIDE DEF chosen
  <1>9. \A i \in 1..n : chosen[i] = IF i = 1 THEN seqs[i] ELSE chosen[i - 1] \o seqs[i]
    BY <1>7
  <1>10. 1 \in 1..n /\ \A i \in 1..n : i > 1 => i # 1
    OBVIOUS
  <1>11. chosen[1] = seqs[1] /\ \A i \in 1..n : i > 1 => chosen[i] = chosen[i - 1] \o seqs[i]
    BY <1>9, <1>10
  <1> QED
    BY <1>8, <1>11 DEF Flattens

\* Flattening sequences that have nothing in common
LEMMA FlattenIs ==
    ASSUME NEW N, NEW n \in Nat \ {0}, NEW seqs \in [1..n -> Seq(N)],
           \A i \in 1..n : Once(seqs[i]),
           \A i, j \in 1..n : i # j => \A x \in ToSet(seqs[i]) : x \notin ToSet(seqs[j])
    PROVE  /\ FlattenSeq(seqs) \in Seq(N) /\ Once(FlattenSeq(seqs))
           /\ \A x : x \in ToSet(FlattenSeq(seqs)) <=> \E i \in 1..n : x \in ToSet(seqs[i])
  <1>a. PICK f : Flattens(f, seqs, n)
    BY FlattenComputes
  <1>1. /\ FlattenSeq(seqs) = f[n]
        /\ f[1] = seqs[1]
        /\ \A i \in 1..n : i > 1 => f[i] = f[i - 1] \o seqs[i]
    BY <1>a DEF Flattens
  <1> DEFINE P(i) == i + 1 <= n =>
                /\ f[i + 1] \in Seq(N) /\ Once(f[i + 1])
                /\ \A x : x \in ToSet(f[i + 1]) <=> \E j \in 1..(i + 1) : x \in ToSet(seqs[j])
             B == {i \in Nat : P(i)}
  <1>2. P(0)
    <2>1. 1 \in 1..n /\ 0 + 1 = 1 /\ 1..1 = {1}
      OBVIOUS
    <2> QED
      BY <1>1, <2>1
  <1>3. ASSUME NEW i \in Nat, P(i) PROVE P(i + 1)
    <2>1. SUFFICES ASSUME i + 1 + 1 <= n
                   PROVE  /\ f[i + 1 + 1] \in Seq(N) /\ Once(f[i + 1 + 1])
                          /\ \A x : x \in ToSet(f[i + 1 + 1]) <=>
                                \E j \in 1..(i + 1 + 1) : x \in ToSet(seqs[j])
      OBVIOUS
    <2> DEFINE m == i + 1 + 1
    <2>2. m \in 1..n /\ m > 1 /\ m - 1 = i + 1 /\ i + 1 <= n /\ i + 1 \in Nat
          /\ 1..m = (1..(i + 1)) \cup {m} /\ \A j \in 1..(i + 1) : j \in 1..n /\ j # m
      BY <2>1
    <2>3. f[m] = f[i + 1] \o seqs[m]
      <3>1. f[m] = f[m - 1] \o seqs[m]
        BY <1>1, <2>2
      <3> HIDE DEF m
      <3> QED
        BY <2>2, <3>1
    <2>4. /\ f[i + 1] \in Seq(N) /\ Once(f[i + 1])
          /\ \A x : x \in ToSet(f[i + 1]) <=> \E j \in 1..(i + 1) : x \in ToSet(seqs[j])
      BY <1>3, <2>2
    <2> HIDE DEF m
    <2>5. seqs[m] \in Seq(N) /\ Once(seqs[m])
      BY <2>2
    <2>6. \A x \in ToSet(f[i + 1]) : x \notin ToSet(seqs[m])
      BY <2>2, <2>4
    <2>7. /\ f[m] \in Seq(N) /\ Once(f[m])
          /\ ToSet(f[m]) = ToSet(f[i + 1]) \cup ToSet(seqs[m])
      BY <2>3, <2>4, <2>5, <2>6, ConcatIs
    <2>8. \A x : x \in ToSet(f[m]) <=> \E j \in 1..m : x \in ToSet(seqs[j])
      BY <2>2, <2>4, <2>7
    <2> QED
      BY <2>7, <2>8 DEF m
  <1>4. \A i \in Nat : P(i)
    <2> HIDE DEF P
    <2>1. 0 \in B /\ \A i \in Nat : i \in B => i + 1 \in B
      BY <1>2, <1>3
    <2>2. \A i \in Nat : i \in B
      <3> HIDE DEF B
      <3> QED
        BY <2>1, SetInduction
    <2> QED
      BY <2>2
  <1>5. P(n - 1)
    <2> HIDE DEF P
    <2>1. n - 1 \in Nat
      OBVIOUS
    <2> QED
      BY <1>4, <2>1
  <1>6. n - 1 + 1 = n /\ n - 1 + 1 <= n
    OBVIOUS
  <1> QED
    BY <1>1, <1>5, <1>6

\* Without repetition, a sequence is as long as its set is large.
LEMMA OnceLen ==
    ASSUME NEW N, NEW s \in Seq(N), Once(s)
    PROVE  Len(s) = Cardinality(ToSet(s))
  <1>1. /\ Len(s) \in Nat /\ DOMAIN s = 1..Len(s)
        /\ \A i \in 1..Len(s) : s[i] \in ToSet(s)
        /\ \A x \in ToSet(s) : \E i \in 1..Len(s) : x = s[i]
    BY SeqFacts
  <1>2. s \in [1..Len(s) -> ToSet(s)]
    BY <1>1, LenProperties
  <1>3. s \in Bijection(1..Len(s), ToSet(s))
    BY <1>1, <1>2 DEF Bijection, Injection, Surjection, IsInjective, Once
  <1>4. IsFiniteSet(1..Len(s)) /\ Cardinality(1..Len(s)) = Len(s)
    BY <1>1, FS_Interval
  <1>5. ExistsBijection(1..Len(s), ToSet(s))
    BY <1>3 DEF ExistsBijection
  <1> QED
    BY <1>4, <1>5, FS_Bijection

\* The chains, one after another, have the elements, each once.
LEMMA ItemsIs ==
    ASSUME NEW h \in TableType, NEW n, NEW chains, NEW S, Chained(h, n, chains, S)
    PROVE  /\ Items(h) \in Seq(Key) /\ Once(Items(h)) /\ ToSet(Items(h)) = S
           /\ Len(Items(h)) = Cardinality(S)
  <1> DEFINE seqs == [b \in 1..n |-> InBucket(h, b - 1)]
  <1>1. /\ n \in Nat \ {0} /\ h.buckets \in Array(n) /\ S \subseteq Key
        /\ \A b \in 0..(n - 1) : ChainOf(h, b, chains[b])
        /\ \A b \in 0..(n - 1) : \A k \in ToSet(chains[b]) : k \in S /\ Hash[k] % n = b
        /\ \A k \in S : k \in ToSet(chains[Hash[k] % n])
    BY DEF Chained
  <1>2. NumBuckets(h) = n
    <2>1. DOMAIN h.buckets = 0..(n - 1)
      BY <1>1 DEF Array
    <2>2. 0 \in Int /\ n - 1 \in Int /\ ~(0 > n - 1) /\ n - 1 - 0 + 1 = n
      BY <1>1
    <2>3. Cardinality(0..(n - 1)) = IF 0 > n - 1 THEN 0 ELSE n - 1 - 0 + 1
      BY <2>2, FS_Interval
    <2> QED
      BY <2>1, <2>2, <2>3 DEF NumBuckets
  <1>3. \A b \in 1..n : b - 1 \in 0..(n - 1)
    BY <1>1
  <1>4. \A b \in 1..n : seqs[b] = chains[b - 1]
    BY <1>1, <1>3, InBucketIs
  <1>5. seqs \in [1..n -> Seq(Key)]
    <2>1. \A b \in 1..n : chains[b - 1] \in Seq(Key)
      BY <1>1, <1>3 DEF ChainOf
    <2>2. \A b \in 1..n : seqs[b] \in Seq(Key)
      BY <1>4, <2>1
    <2> QED
      BY <2>2
  <1>6. Items(h) = FlattenSeq(seqs)
    BY <1>2 DEF Items
  <1> HIDE DEF seqs
  <1>7. \A b \in 1..n : Once(seqs[b])
    BY <1>1, <1>3, <1>4 DEF ChainOf
  <1>8. ASSUME NEW b \in 1..n, NEW c \in 1..n, b # c, NEW x \in ToSet(seqs[b])
        PROVE  x \notin ToSet(seqs[c])
    <2>1. Hash[x] % n = b - 1 /\ b - 1 # c - 1
      BY <1>1, <1>3, <1>4, <1>8
    <2> QED
      BY <1>1, <1>3, <1>4, <2>1
  <1>9. /\ FlattenSeq(seqs) \in Seq(Key) /\ Once(FlattenSeq(seqs))
        /\ \A x : x \in ToSet(FlattenSeq(seqs)) <=> \E i \in 1..n : x \in ToSet(seqs[i])
    BY <1>1, <1>5, <1>7, <1>8, FlattenIs
  <1>10. ASSUME NEW x PROVE x \in S <=> \E i \in 1..n : x \in ToSet(seqs[i])
    <2>1. ASSUME x \in S PROVE \E i \in 1..n : x \in ToSet(seqs[i])
      <3>1. Hash[x] % n \in 0..(n - 1) /\ x \in ToSet(chains[Hash[x] % n])
        BY <1>1, <2>1, BucketIs
      <3>2. \A j \in 0..(n - 1) : j + 1 \in 1..n /\ j + 1 - 1 = j
        BY <1>1
      <3>3. (Hash[x] % n) + 1 \in 1..n /\ seqs[(Hash[x] % n) + 1] = chains[Hash[x] % n]
        BY <1>4, <3>1, <3>2
      <3> QED
        BY <3>1, <3>3
    <2>2. ASSUME NEW i \in 1..n, x \in ToSet(seqs[i]) PROVE x \in S
      BY <1>1, <1>3, <1>4, <2>2
    <2> QED
      BY <2>1, <2>2
  <1>11. ToSet(Items(h)) = S
    BY <1>6, <1>9, <1>10
  <1>12. Items(h) \in Seq(Key) /\ Once(Items(h))
    BY <1>6, <1>9
  <1> QED
    BY <1>11, <1>12, OnceLen

\* What HASH_EXPAND_BUCKETS leaves alone
SameOrder(g, h) ==
    /\ g.head = h.head /\ g.tail = h.tail /\ g.prev = h.prev /\ g.next = h.next
    /\ g.num_items = h.num_items

\* The elements of items up to the i-th
UpTo(items, i) == {items[j] : j \in 1..i}

\* Filling empty buckets with the elements of a sequence
LEMMA FillPlaces ==
    ASSUME NEW n \in Nat \ {0}, NEW e \in TableType, NEW none, Chained(e, n, none, {}), Tight(e),
           e.ideal_chain_maxlen >= 1,
           NEW items \in Seq(Key), Once(items),
           NEW filled,
           filled = [i \in 0..Len(items) |->
                        IF i = 0 THEN e ELSE Rehash(filled[i - 1], items[i])]
    PROVE  LET g == filled[Len(items)]
           IN  /\ g \in TableType /\ SameButChains(g, e) /\ Tight(g)
               /\ \E chains : Chained(g, n, chains, ToSet(items))
  <1> DEFINE L == Len(items)
             P(i) == i <= L => /\ filled[i] \in TableType /\ SameButChains(filled[i], e)
                               /\ Tight(filled[i])
                               /\ \E chains : Chained(filled[i], n, chains, UpTo(items, i))
             B == {i \in Nat : P(i)}
  <1>1. /\ L \in Nat /\ \A i \in 1..L : items[i] \in Key
        /\ DOMAIN items = 1..L
    BY SeqFacts
  <1>2. filled[0] = e /\ \A i \in 1..L : filled[i] = Rehash(filled[i - 1], items[i])
    <2>1. 0 \in 0..L /\ \A i \in 1..L : i \in 0..L /\ i # 0
      BY <1>1
    <2> QED
      BY <2>1
  <1>3. P(0)
    <2>1. UpTo(items, 0) = {}
      BY DEF UpTo
    <2> QED
      BY <1>2, <2>1 DEF SameButChains
  <1>4. ASSUME NEW i \in Nat, P(i) PROVE P(i + 1)
    <2>1. SUFFICES ASSUME i + 1 <= L
                   PROVE  /\ filled[i + 1] \in TableType /\ SameButChains(filled[i + 1], e)
                          /\ Tight(filled[i + 1])
                          /\ \E chains : Chained(filled[i + 1], n, chains, UpTo(items, i + 1))
      OBVIOUS
    <2> DEFINE h == filled[i]
               k == items[i + 1]
               g == filled[i + 1]
    <2>2. i <= L /\ i + 1 \in 1..L /\ i + 1 - 1 = i /\ 1..(i + 1) = (1..i) \cup {i + 1}
          /\ \A j \in 1..i : j \in 1..L /\ j # i + 1
      BY <1>1, <2>1
    <2>3. /\ h \in TableType /\ SameButChains(h, e) /\ Tight(h)
          /\ \E chains : Chained(h, n, chains, UpTo(items, i))
      BY <1>4, <2>2
    <2>4. PICK chains : Chained(h, n, chains, UpTo(items, i))
      BY <2>3
    <2>5. g = Rehash(h, k) /\ k \in Key
      BY <1>1, <1>2, <2>2
    <2>6. k \notin UpTo(items, i)
      BY <2>2 DEF UpTo, Once
    <2>7. UpTo(items, i + 1) = UpTo(items, i) \cup {k}
      BY <2>2 DEF UpTo
    <2> HIDE DEF h, k, g
    <2>8. Chained(g, n, Prefixed(chains, n, Hash[k] % n, k), UpTo(items, i) \cup {k})
      BY <2>3, <2>4, <2>5, <2>6, RehashPlaces
    <2>9. h.buckets \in Array(n)
      BY <2>4 DEF Chained
    <2>10. g \in TableType /\ SameButChains(g, h)
      BY <2>3, <2>5, <2>9, RehashFields DEF Rehashed
    <2>11. h.ideal_chain_maxlen >= 1
      BY <2>3 DEF SameButChains
    <2>12. Tight(g)
      BY <2>3, <2>5, <2>9, <2>11, RehashTight
    <2>13. SameButChains(g, e)
      BY <2>3, <2>10 DEF SameButChains
    <2> QED
      BY <2>7, <2>8, <2>10, <2>12, <2>13 DEF g
  <1>5. \A i \in Nat : P(i)
    <2> HIDE DEF P
    <2>1. 0 \in B /\ \A i \in Nat : i \in B => i + 1 \in B
      BY <1>3, <1>4
    <2>2. \A i \in Nat : i \in B
      <3> HIDE DEF B
      <3> QED
        BY <2>1, SetInduction
    <2> QED
      BY <2>2
  <1>6. P(L)
    <2> HIDE DEF P
    <2> QED
      BY <1>1, <1>5
  <1>7. UpTo(items, L) = ToSet(items)
    BY <1>1 DEF UpTo, ToSet
  <1> QED
    BY <1>1, <1>6, <1>7

\* The recursion is one.
LEMMA FillExists ==
    ASSUME NEW n \in Nat \ {0}, NEW e \in TableType, e.buckets \in Array(n),
           NEW items \in Seq(Key)
    PROVE  \E filled : filled = [i \in 0..Len(items) |->
                                    IF i = 0 THEN e ELSE Rehash(filled[i - 1], items[i])]
  <1> DEFINE L == Len(items)
             A == {h \in TableType : h.buckets \in Array(n)}
             F == [p \in Nat \X A |-> IF p[1] + 1 <= L THEN Rehash(p[2], items[p[1] + 1]) ELSE p[2]]
  <1>1. L \in Nat /\ \A i \in 1..L : items[i] \in Key
    BY SeqFacts
  <1>2. e \in A
    OBVIOUS
  <1>3. F \in [Nat \X A -> A]
    <2>1. ASSUME NEW i \in Nat, NEW h \in A
          PROVE  (IF i + 1 <= L THEN Rehash(h, items[i + 1]) ELSE h) \in A
      <3>1. CASE i + 1 <= L
        <4>1. i + 1 \in 1..L
          BY <1>1, <3>1
        <4>2. items[i + 1] \in Key /\ h \in TableType /\ h.buckets \in Array(n)
          BY <1>1, <4>1
        <4>3. Rehashed(Rehash(h, items[i + 1]), h, n, Hash[items[i + 1]] % n, items[i + 1])
          BY <4>2, RehashFields
        <4>4. Rehash(h, items[i + 1]) \in A
          BY <4>3 DEF Rehashed
        <4> HIDE DEF A
        <4> QED
          BY <3>1, <4>4
      <3> QED
        BY <3>1
    <2> HIDE DEF A
    <2> QED
      BY <2>1
  <1> HIDE DEF A, F, L
  <1>4. PICK f : Recurs(f, A, e, F)
    BY <1>2, <1>3, NatRecursion
  <1>5. /\ f[0] = e
        /\ \A i \in Nat : i + 1 <= L => f[i + 1] = Rehash(f[i], items[i + 1])
    <2>1. f[0] = e /\ \A i \in Nat : f[i] \in A /\ f[i + 1] = F[<<i, f[i]>>]
      BY <1>4 DEF Recurs
    <2> QED
      BY <2>1 DEF F
  <1> DEFINE it == [i \in 0..L |-> f[i]]
             body(g) == [i \in 0..L |-> IF i = 0 THEN e ELSE Rehash(g[i - 1], items[i])]
  <1>6. it = body(it)
    <2>1. ASSUME NEW i \in 0..L PROVE it[i] = body(it)[i]
      <3>1. CASE i = 0
        BY <1>5, <3>1
      <3>2. CASE i # 0
        <4>1. i - 1 \in Nat /\ i - 1 + 1 = i /\ i - 1 + 1 <= L /\ i - 1 \in 0..L
          BY <1>1, <3>2
        <4>2. f[i] = Rehash(f[i - 1], items[i])
          BY <1>5, <4>1
        <4>3. it[i] = f[i] /\ it[i - 1] = f[i - 1]
          BY <4>1
        <4>4. body(it)[i] = Rehash(it[i - 1], items[i])
          BY <3>2
        <4> QED
          BY <4>2, <4>3, <4>4
      <3> QED
        BY <3>1, <3>2
    <2> HIDE DEF it
    <2>2. it \in [0..L -> {it[i] : i \in 0..L}] /\ DOMAIN body(it) = 0..L
      BY DEF it
    <2> QED
      BY <2>1, <2>2
  <1> HIDE DEF it
  <1> QED
    BY <1>6 DEF L

LEMMA DivPositive ==
    ASSUME NEW a \in Nat, NEW m \in Nat \ {0}, a >= m
    PROVE  a \div m \in Nat /\ a \div m >= 1
  OBVIOUS

\* The order stays what it is if its pointers do.
LEMMA OrderedStill ==
    ASSUME NEW h, NEW g, NEW order, Ordered(h, order), SameOrder(g, h)
    PROVE  Ordered(g, order)
  BY DEF Ordered, SameOrder

LEMMA ChainedFrame ==
    ASSUME NEW h, NEW g, NEW n, NEW chains, NEW S, Chained(h, n, chains, S),
           g.buckets = h.buckets,
           \A x \in S : g.hh_next[x] = h.hh_next[x] /\ g.hh_prev[x] = h.hh_prev[x]
    PROVE  Chained(g, n, chains, S)
  <1>1. ASSUME NEW b \in 0..(n - 1) PROVE ChainOf(g, b, chains[b])
    <2> DEFINE c == chains[b]
    <2>1. ChainOf(h, b, c) /\ \A x \in ToSet(c) : x \in S
      BY DEF Chained
    <2> HIDE DEF c
    <2>2. /\ c \in Seq(Key) /\ Once(c)
          /\ Leads(h.hh_next, c, h.buckets[b].hh_head) /\ Backs(h.hh_prev, c)
          /\ c # <<>> => h.hh_prev[c[1]] = NULL
          /\ h.buckets[b].count = Len(c)
      BY <2>1 DEF ChainOf
    <2>3. /\ \A i \in 1..Len(c) : c[i] \in S
          /\ c # <<>> => 1 \in 1..Len(c)
      BY <2>1, <2>2, SeqFacts
    <2>4. \A i \in 1..Len(c) : g.hh_next[c[i]] = h.hh_next[c[i]] /\ g.hh_prev[c[i]] = h.hh_prev[c[i]]
      BY <2>3
    <2>5. Leads(g.hh_next, c, g.buckets[b].hh_head)
      BY <2>2, <2>4, LeadsStill
    <2>6. Backs(g.hh_prev, c)
      BY <2>2, <2>4 DEF Backs
    <2>7. c # <<>> => g.hh_prev[c[1]] = NULL
      BY <2>2, <2>3, <2>4
    <2>8. ChainOf(g, b, c)
      BY <2>2, <2>5, <2>6, <2>7 DEF ChainOf
    <2> QED
      BY <2>8 DEF c
  <1> QED
    BY <1>1 DEF Chained

\* Buckets with nothing in them
LEMMA EmptyChained ==
    ASSUME NEW h, NEW n \in Nat \ {0}, h.buckets = [b \in 0..(n - 1) |-> EmptyBucket]
    PROVE  /\ h.buckets \in Array(n) /\ h.buckets \in Arrays
           /\ Chained(h, n, [b \in 0..(n - 1) |-> <<>>], {})
           /\ \A b \in DOMAIN h.buckets : h.buckets[b].count = 0 /\ h.buckets[b].expand_mult = 0
  <1>1. /\ EmptyBucket \in BucketType /\ EmptyBucket.count = 0 /\ EmptyBucket.expand_mult = 0
        /\ EmptyBucket.hh_head = NULL
    BY DEF EmptyBucket, BucketType
  <1>2. h.buckets \in Array(n) /\ h.buckets \in Arrays
    <2>1. h.buckets \in Array(n)
      BY <1>1 DEF Array
    <2> QED
      BY <2>1 DEF Arrays
  <1> DEFINE none == [b \in 0..(n - 1) |-> <<>>]
  <1>3. \A b \in 0..(n - 1) : h.buckets[b] = EmptyBucket /\ none[b] = <<>>
    OBVIOUS
  <1>4. <<>> \in Seq(Key) /\ Len(<<>>) = 0 /\ 1..0 = {} /\ ToSet(<<>>) = {}
    BY EmptySeq DEF ToSet
  <1>5. \A b \in 0..(n - 1) : ChainOf(h, b, <<>>)
    BY <1>1, <1>3, <1>4 DEF ChainOf, Once, Leads, Backs
  <1> HIDE DEF none
  <1>6. Chained(h, n, none, {})
    BY <1>2, <1>3, <1>4, <1>5 DEF Chained
  <1> QED
    BY <1>1, <1>2, <1>3, <1>6 DEF none

\* HASH_EXPAND_BUCKETS
Expanded(g, h, S) ==
    /\ g \in TableType /\ SameOrder(g, h) /\ Fits(g)
    /\ \E n, chains : Chained(g, n, chains, S)

LEMMA ExpandIs ==
    ASSUME NEW h \in TableType, NEW n, NEW chains, NEW S, Chained(h, n, chains, S),
           h.num_items >= 1
    PROVE  Expanded(Expand(h), h, S)
  <1> DEFINE m == 2 * NumBuckets(h)
             items == Items(h)
             ideal == (h.num_items + m - 1) \div m
             e == [h EXCEPT !.buckets = [b \in 0..(m - 1) |-> EmptyBucket],
                            !.ideal_chain_maxlen = ideal,
                            !.nonideal_items = 0]
             filled == CHOOSE f : f = [i \in 0..Len(items) |->
                                         IF i = 0 THEN e ELSE Rehash(f[i - 1], items[i])]
             done == filled[Len(items)]
             ineff == IF done.nonideal_items > h.num_items \div 2 THEN h.ineff_expands + 1 ELSE 0
             g == [done EXCEPT !.ineff_expands = ineff, !.noexpand = h.noexpand \/ ineff > 1]
  <1>1. Expand(h) = g
    BY DEF Expand
  <1>2. items \in Seq(Key) /\ Once(items) /\ ToSet(items) = S
    BY ItemsIs
  <1>3. m \in Nat \ {0}
    <2>1. n \in Nat \ {0} /\ h.buckets \in Array(n)
      BY DEF Chained
    <2>2. NumBuckets(h) = n
      <3>1. DOMAIN h.buckets = 0..(n - 1)
        BY <2>1 DEF Array
      <3>2. 0 \in Int /\ n - 1 \in Int /\ ~(0 > n - 1) /\ n - 1 - 0 + 1 = n
        BY <2>1
      <3>3. Cardinality(0..(n - 1)) = IF 0 > n - 1 THEN 0 ELSE n - 1 - 0 + 1
        BY <3>2, FS_Interval
      <3> QED
        BY <3>1, <3>2, <3>3 DEF NumBuckets
    <2> QED
      BY <2>1, <2>2
  <1> HIDE DEF m, items
  <1>4. ideal \in Nat /\ ideal >= 1 /\ h.ineff_expands \in Nat /\ h.noexpand \in BOOLEAN
        /\ h.num_items \in Nat
    <2>1. h.num_items \in Nat /\ h.ineff_expands \in Nat /\ h.noexpand \in BOOLEAN
      BY DEF TableType
    <2>2. h.num_items + m - 1 \in Nat /\ h.num_items + m - 1 >= m
      BY <1>3, <2>1
    <2> QED
      BY <1>3, <2>1, <2>2, DivPositive
  <1> HIDE DEF ideal
  <1>5. e.buckets = [b \in 0..(m - 1) |-> EmptyBucket]
    BY DEF TableType
  <1>6. /\ e.head = h.head /\ e.tail = h.tail /\ e.prev = h.prev /\ e.next = h.next
        /\ e.num_items = h.num_items /\ e.ideal_chain_maxlen = ideal
    BY DEF TableType
  <1>7. e \in TableType
    <2>1. [b \in 0..(m - 1) |-> EmptyBucket] \in Arrays
      <3>1. e.buckets \in Arrays
        <4> HIDE DEF e
        <4> QED
          BY <1>3, <1>5, EmptyChained
      <3> QED
        BY <1>5, <3>1
    <2> QED
      BY <1>4, <2>1 DEF TableType
  <1> HIDE DEF e
  <1>8. /\ Chained(e, m, [b \in 0..(m - 1) |-> <<>>], {}) /\ e.buckets \in Array(m)
        /\ \A b \in DOMAIN e.buckets : e.buckets[b].count = 0 /\ e.buckets[b].expand_mult = 0
    BY <1>3, <1>5, EmptyChained
  <1>9. Tight(e)
    <2>1. 0 <= (0 + 1) * e.ideal_chain_maxlen
      BY <1>4, <1>6
    <2> QED
      BY <1>8, <2>1 DEF Tight
  <1>10. filled = [i \in 0..Len(items) |->
                     IF i = 0 THEN e ELSE Rehash(filled[i - 1], items[i])]
    <2>1. \E f : f = [i \in 0..Len(items) |->
                        IF i = 0 THEN e ELSE Rehash(f[i - 1], items[i])]
      BY <1>2, <1>3, <1>7, <1>8, FillExists
    <2> QED
      BY <2>1
  <1> HIDE DEF filled
  <1>11. /\ done \in TableType /\ SameButChains(done, e) /\ Tight(done)
         /\ \E new : Chained(done, m, new, ToSet(items))
    <2>1. e.ideal_chain_maxlen >= 1
      BY <1>4, <1>6
    <2> QED
      BY <1>2, <1>3, <1>7, <1>8, <1>9, <1>10, <2>1, FillPlaces
  <1> HIDE DEF done
  <1>12. ineff \in Nat /\ (h.noexpand \/ ineff > 1) \in BOOLEAN
    BY <1>4
  <1> HIDE DEF ineff
  <1>13. g \in TableType
    BY <1>11, <1>12 DEF TableType
  <1>14. /\ g.buckets = done.buckets /\ g.hh_next = done.hh_next /\ g.hh_prev = done.hh_prev
         /\ g.ideal_chain_maxlen = done.ideal_chain_maxlen
         /\ SameOrder(g, done)
    BY <1>11 DEF TableType, SameOrder
  <1> HIDE DEF g
  <1>15. SameOrder(g, h)
    BY <1>6, <1>11, <1>14 DEF SameOrder, SameButChains
  <1>16. Fits(g)
    BY <1>11, <1>14 DEF Tight, Fits, BucketFits
  <1>17. PICK new : Chained(done, m, new, ToSet(items))
    BY <1>11
  <1>18. Chained(g, m, new, S)
    BY <1>2, <1>14, <1>17, ChainedFrame
  <1> QED
    BY <1>1, <1>13, <1>15, <1>16, <1>18 DEF Expanded

\* A field with another value at k
LEMMA FieldStore ==
    ASSUME NEW f \in Field, NEW k \in Key, NEW v \in Pointer(Key)
    PROVE  /\ Store(f, k, v) \in Field
           /\ Store(f, k, v)[k] = v
           /\ \A x \in Key : x # k => Store(f, k, v)[x] = f[x]
  BY DEF Store, Field

\* g is h but for the pointers of k: those of the order are v.
Renewed(g, h, k, v) ==
    /\ g \in TableType
    /\ g.head = h.head /\ g.tail = h.tail /\ g.buckets = h.buckets
    /\ g.num_items = h.num_items /\ g.ideal_chain_maxlen = h.ideal_chain_maxlen
    /\ g.noexpand = h.noexpand
    /\ g.next[k] = v /\ g.prev[k] = v
    /\ \A x \in Key : x # k => /\ g.next[x] = h.next[x] /\ g.prev[x] = h.prev[x]
                               /\ g.hh_next[x] = h.hh_next[x] /\ g.hh_prev[x] = h.hh_prev[x]

\* calloc and free of an element
LEMMA RenewFields ==
    ASSUME NEW h \in TableType, NEW k \in Key
    PROVE  Renewed(HashCalloc(h, k), h, k, NULL) /\ Renewed(HashFree(h, k), h, k, Garbage)
  <1>1. h.prev \in Field /\ h.next \in Field /\ h.hh_prev \in Field /\ h.hh_next \in Field
    BY DEF TableType
  <1>2. ASSUME NEW v \in {NULL, Garbage}, NEW g,
               g = [h EXCEPT !.prev = Store(h.prev, k, v), !.next = Store(h.next, k, v),
                             !.hh_prev = Store(h.hh_prev, k, v), !.hh_next = Store(h.hh_next, k, v)]
        PROVE  Renewed(g, h, k, v)
    <2>1. v \in Pointer(Key)
      BY DEF Pointer
    <2>2. \A f \in Field : /\ Store(f, k, v) \in Field
                           /\ Store(f, k, v)[k] = v
                           /\ \A x \in Key : x # k => Store(f, k, v)[x] = f[x]
      BY <2>1, FieldStore
    <2>3. /\ g.prev = Store(h.prev, k, v) /\ g.next = Store(h.next, k, v)
          /\ g.hh_prev = Store(h.hh_prev, k, v) /\ g.hh_next = Store(h.hh_next, k, v)
          /\ g.head = h.head /\ g.tail = h.tail /\ g.buckets = h.buckets
          /\ g.num_items = h.num_items /\ g.ideal_chain_maxlen = h.ideal_chain_maxlen
          /\ g.noexpand = h.noexpand
      BY <1>2 DEF TableType
    <2>4. g \in TableType
      BY <1>1, <1>2, <2>2 DEF TableType
    <2> QED
      BY <1>1, <2>2, <2>3, <2>4 DEF Renewed
  <1>3. Renewed(HashCalloc(h, k), h, k, NULL)
    BY <1>2 DEF HashCalloc
  <1>4. Renewed(HashFree(h, k), h, k, Garbage)
    BY <1>2 DEF HashFree
  <1> QED
    BY <1>3, <1>4

\* The table with k at the end of the order and not yet in a bucket
Lists(g, order, k) ==
    /\ g \in TableType /\ Ordered(g, Append(order, k))
    /\ \E n, chains : Chained(g, n, chains, ToSet(order))
    /\ ~g.noexpand => Fits(g)

LEMMA MakeTableLists ==
    ASSUME NEW h, TableIs(h, <<>>), NEW k \in Key
    PROVE  Lists([MakeTable(HashCalloc(h, k), k) EXCEPT !.num_items = @ + 1], <<>>, k)
  <1> DEFINE c == HashCalloc(h, k)
             array == [b \in 0..(InitialBuckets - 1) |-> EmptyBucket]
             m == MakeTable(c, k)
             g == [m EXCEPT !.num_items = m.num_items + 1]
             one == Append(<<>>, k)
  <1>1. h \in TableType /\ Ordered(h, <<>>) /\ ~h.noexpand
    BY DEF TableIs
  <1>2. Renewed(c, h, k, NULL)
    BY <1>1, RenewFields
  <1> HIDE DEF c
  <1>3. /\ c \in TableType /\ c.next[k] = NULL /\ c.prev[k] = NULL
        /\ c.num_items = 0 /\ ~c.noexpand
        /\ \A x \in Key : x # k => c.next[x] = h.next[x]
    BY <1>1, <1>2, EmptySeq DEF Renewed, Ordered
  <1>4. InitialBuckets \in Nat \ {0} /\ Threshold \in Nat \ {0}
    BY HashAssumption
  <1>5. array \in Arrays
    <2>1. [buckets |-> array].buckets = array
      OBVIOUS
    <2> HIDE DEF array
    <2>2. [buckets |-> array].buckets \in Arrays
      BY <1>4, <2>1, EmptyChained DEF array
    <2> QED
      BY <2>1, <2>2
  <1>6. m = [c EXCEPT !.head = k, !.tail = k, !.buckets = array]
    BY DEF MakeTable
  <1> HIDE DEF array, m
  <1>7. /\ m \in TableType /\ m.head = k /\ m.tail = k /\ m.buckets = array
        /\ m.prev = c.prev /\ m.next = c.next /\ m.num_items = c.num_items
        /\ m.noexpand = c.noexpand
    BY <1>3, <1>5, <1>6 DEF TableType
  <1>8. /\ g \in TableType /\ g.head = k /\ g.tail = k /\ g.buckets = array
        /\ g.prev = c.prev /\ g.next = c.next /\ g.num_items = 1
        /\ g.noexpand = FALSE
    BY <1>3, <1>7 DEF TableType
  <1> HIDE DEF g
  <1>9. /\ <<>> \in Seq(Key) /\ ToSet(<<>>) = {} /\ Once(<<>>) /\ Len(<<>>) = 0 /\ 1..Len(<<>>) = {}
    BY EmptySeq DEF ToSet, Once
  <1>10. /\ one \in Seq(Key) /\ Len(one) = 1 /\ one[1] = k /\ one # <<>> /\ Once(one)
         /\ ToSet(one) = {k}
    <2>1. k \notin ToSet(<<>>)
      BY <1>9
    <2>2. PICK e : e = <<>>
      OBVIOUS
    <2>3. e \in Seq(Key) /\ Once(e) /\ k \notin ToSet(e)
      BY <1>9, <2>2
    <2>4. ToSet(e) = {} /\ Len(e) = 0
      BY <1>9, <2>2
    <2>5. /\ Append(e, k) \in Seq(Key) /\ Len(Append(e, k)) = Len(e) + 1
          /\ Append(e, k)[Len(e) + 1] = k /\ Append(e, k) # <<>> /\ Once(Append(e, k))
          /\ ToSet(Append(e, k)) = ToSet(e) \cup {k}
      BY <2>3, AppendIs
    <2>6. one = Append(e, k)
      BY <2>2
    <2> HIDE DEF one
    <2> QED
      BY <2>4, <2>5, <2>6
  <1>11. Leads(g.next, one, IF <<>> = <<>> THEN k ELSE h.head)
    <2>1. Leads(h.next, <<>>, h.head)
      BY <1>1 DEF Ordered
    <2>2. g.next[k] = NULL
      BY <1>3, <1>8
    <2> QED
      BY <1>9, <2>1, <2>2, LeadsAppend
  <1>12. Backs(g.prev, one)
    BY <1>10 DEF Backs
  <1> HIDE DEF one
  <1>13. \A x \in Key : x \notin ToSet(one) => g.next[x] = Garbage
    BY <1>1, <1>3, <1>8, <1>9, <1>10 DEF Ordered
  <1>14. Ordered(g, one)
    BY <1>3, <1>8, <1>10, <1>11, <1>12, <1>13 DEF Ordered
  <1>15. Chained(g, InitialBuckets, [b \in 0..(InitialBuckets - 1) |-> <<>>], ToSet(<<>>))
    <2>1. Chained(g, InitialBuckets, [b \in 0..(InitialBuckets - 1) |-> <<>>], {})
      BY <1>4, <1>8, EmptyChained DEF array
    <2> QED
      BY <1>9, <2>1
  <1>16. Fits(g)
    <2>1. \A b \in DOMAIN g.buckets : g.buckets[b].count = 0 /\ g.buckets[b].expand_mult = 0
      BY <1>4, <1>8, EmptyChained DEF array
    <2>2. 0 < (0 + 1) * Threshold
      BY <1>4
    <2> QED
      BY <2>1, <2>2 DEF Fits, BucketFits
  <1>17. Lists(g, <<>>, k)
    BY <1>8, <1>14, <1>15, <1>16 DEF Lists, one
  <1> QED
    BY <1>17 DEF g, m, c

LEMMA AppendListLists ==
    ASSUME NEW h, NEW order, TableIs(h, order), order # <<>>, NEW k \in Key, k \notin ToSet(order)
    PROVE  Lists([AppendList(HashCalloc(h, k), k) EXCEPT !.num_items = @ + 1], order, k)
  <1> DEFINE c == HashCalloc(h, k)
             last == order[Len(order)]
             next == Store(Store(c.next, k, NULL), last, k)
             prev == Store(c.prev, k, last)
             m == AppendList(c, k)
             g == [m EXCEPT !.num_items = m.num_items + 1]
             new == Append(order, k)
  <1>1. h \in TableType /\ Ordered(h, order)
    BY DEF TableIs
  <1>2. /\ order \in Seq(Key) /\ Once(order) /\ Leads(h.next, order, h.head)
        /\ Backs(h.prev, order) /\ h.prev[order[1]] = NULL /\ h.tail = last
        /\ \A x \in Key : x \notin ToSet(order) => h.next[x] = Garbage
        /\ h.num_items = Len(order)
    BY <1>1 DEF Ordered
  <1>3. Renewed(c, h, k, NULL)
    BY <1>1, RenewFields
  <1>4. /\ Len(order) \in Nat /\ Len(order) \in 1..Len(order) /\ 1 \in 1..Len(order)
        /\ \A i \in 1..Len(order) : order[i] \in Key /\ order[i] \in ToSet(order) /\ order[i] # k
    BY <1>2, SeqFacts
  <1>5. last \in Key /\ last \in ToSet(order) /\ last # k
    BY <1>4
  <1> HIDE DEF c, last
  <1>6. c \in TableType /\ c.tail = last
    BY <1>2, <1>3 DEF Renewed
  <1>7. c.next \in Field /\ c.prev \in Field /\ c.num_items \in Nat /\ c.num_items = Len(order)
    BY <1>2, <1>3, <1>6 DEF TableType, Renewed
  <1>8. NULL \in Pointer(Key) /\ k \in Pointer(Key) /\ last \in Pointer(Key)
    BY <1>5 DEF Pointer
  <1>9. /\ next \in Field /\ next[last] = k /\ next[k] = NULL
        /\ \A x \in Key : x # k /\ x # last => next[x] = c.next[x]
    <2> DEFINE step == Store(c.next, k, NULL)
    <2>1. step \in Field /\ step[k] = NULL /\ \A x \in Key : x # k => step[x] = c.next[x]
      BY <1>7, <1>8 DEF Store, Field
    <2> HIDE DEF step
    <2>2. /\ Store(step, last, k) \in Field /\ Store(step, last, k)[last] = k
          /\ \A x \in Key : x # last => Store(step, last, k)[x] = step[x]
      BY <1>5, <1>8, <2>1 DEF Store, Field
    <2> QED
      BY <1>5, <2>1, <2>2 DEF step
  <1>10. prev \in Field /\ prev[k] = last /\ \A x \in Key : x # k => prev[x] = c.prev[x]
    BY <1>7, <1>8 DEF Store, Field
  <1>11. m = [c EXCEPT !.prev = prev, !.next = next, !.tail = k]
    BY <1>6 DEF AppendList
  <1> HIDE DEF next, prev, m
  <1>12. /\ m \in TableType /\ m.head = c.head /\ m.tail = k /\ m.prev = prev /\ m.next = next
         /\ m.buckets = c.buckets /\ m.hh_next = c.hh_next /\ m.hh_prev = c.hh_prev
         /\ m.num_items = c.num_items /\ m.noexpand = c.noexpand
         /\ m.ideal_chain_maxlen = c.ideal_chain_maxlen
    BY <1>6, <1>9, <1>10, <1>11 DEF TableType
  <1>13. /\ g \in TableType /\ g.head = c.head /\ g.tail = k /\ g.prev = prev /\ g.next = next
         /\ g.buckets = c.buckets /\ g.hh_next = c.hh_next /\ g.hh_prev = c.hh_prev
         /\ g.num_items = Len(order) + 1 /\ g.noexpand = c.noexpand
         /\ g.ideal_chain_maxlen = c.ideal_chain_maxlen
    BY <1>7, <1>12 DEF TableType
  <1> HIDE DEF g
  <1>14. /\ new \in Seq(Key) /\ Len(new) = Len(order) + 1 /\ new[Len(order) + 1] = k /\ new # <<>>
         /\ new[1] = order[1] /\ Once(new) /\ ToSet(new) = ToSet(order) \cup {k}
    BY <1>2, <1>4, AppendIs
  <1>15. \A i \in 1..Len(order) : c.next[order[i]] = h.next[order[i]] /\ c.prev[order[i]] = h.prev[order[i]]
    BY <1>3, <1>4 DEF Renewed
  <1>16. Leads(g.next, new, g.head)
    <2>1. g.next[k] = NULL /\ g.next[order[Len(order)]] = k
      BY <1>9, <1>13 DEF last
    <2>2. ASSUME NEW i \in 1..Len(order), i < Len(order) PROVE g.next[order[i]] = h.next[order[i]]
      <3>1. order[i] # last
        BY <1>2, <1>4, <2>2 DEF Once, last
      <3> QED
        BY <1>4, <1>9, <1>13, <1>15, <3>1
    <2>3. Leads(g.next, new, IF order = <<>> THEN k ELSE h.head)
      BY <1>2, <2>1, <2>2, LeadsAppend
    <2> QED
      BY <1>3, <1>13, <2>3 DEF Renewed
  <1>17. Backs(g.prev, new)
    <2>1. g.prev[k] = order[Len(order)]
      BY <1>10, <1>13 DEF last
    <2>2. \A i \in 1..Len(order) : g.prev[order[i]] = h.prev[order[i]]
      BY <1>4, <1>10, <1>13, <1>15
    <2> QED
      BY <1>2, <2>1, <2>2, BacksAppend
  <1>18. g.prev[new[1]] = NULL
    BY <1>2, <1>4, <1>10, <1>13, <1>14, <1>15
  <1>19. \A x \in Key : x \notin ToSet(new) => g.next[x] = Garbage
    BY <1>2, <1>3, <1>5, <1>9, <1>13, <1>14 DEF Renewed
  <1> HIDE DEF new
  <1>20. Ordered(g, new)
    BY <1>13, <1>14, <1>16, <1>17, <1>18, <1>19 DEF Ordered
  <1>21. PICK n, chains : Chained(h, n, chains, ToSet(order))
    BY DEF TableIs
  <1>22. Chained(g, n, chains, ToSet(order))
    <2>1. \A x \in ToSet(order) : g.hh_next[x] = h.hh_next[x] /\ g.hh_prev[x] = h.hh_prev[x]
      <3>1. \A x \in ToSet(order) : x \in Key /\ x # k
        BY <1>2, SeqFacts
      <3> QED
        BY <1>3, <1>13, <3>1 DEF Renewed
    <2>2. g.buckets = h.buckets
      BY <1>3, <1>13 DEF Renewed
    <2> QED
      BY <1>21, <2>1, <2>2, ChainedFrame
  <1>23. ~g.noexpand => Fits(g)
    BY <1>3, <1>13 DEF Renewed, TableIs, Fits
  <1>24. Lists(g, order, k)
    BY <1>13, <1>20, <1>22, <1>23 DEF Lists, new
  <1> QED
    BY <1>24 DEF g, m, c

\* HASH_ADD puts an element at the end of the order and in its bucket.
LEMMA AddIs ==
    ASSUME NEW h, NEW order, TableIs(h, order), NEW k \in Key, k \notin ToSet(order)
    PROVE  TableIs(HASH_ADD(HashCalloc(h, k), k), Append(order, k))
  <1> DEFINE c == HashCalloc(h, k)
             listed == IF c.head = NULL THEN MakeTable(c, k) ELSE AppendList(c, k)
             l == [listed EXCEPT !.num_items = @ + 1]
             g == AddToBucket(l, k)
             new == Append(order, k)
  <1>1. h \in TableType /\ order \in Seq(Key) /\ Once(order)
    BY DEF TableIs, Ordered
  <1>2. /\ new \in Seq(Key) /\ new # <<>> /\ ToSet(new) = ToSet(order) \cup {k}
        /\ Len(new) = Len(order) + 1 /\ Len(order) \in Nat
    BY <1>1, AppendIs, SeqFacts
  <1>3. Lists(l, order, k)
    <2>1. c.head = h.head
      BY <1>1, RenewFields DEF Renewed
    <2>2. CASE order = <<>>
      BY <2>1, <2>2, HeadIs, MakeTableLists
    <2>3. CASE order # <<>>
      BY <2>1, <2>3, HeadIs, AppendListLists
    <2> QED
      BY <2>2, <2>3
  <1>4. HASH_ADD(c, k) = IF IsFull(g, k) /\ ~g.noexpand THEN Expand(g) ELSE g
    BY DEF HASH_ADD
  <1> HIDE DEF l, new
  <1>5. l \in TableType /\ Ordered(l, new) /\ (~l.noexpand => Fits(l))
    BY <1>3 DEF Lists, new
  <1>6. PICK n, chains : Chained(l, n, chains, ToSet(order))
    BY <1>3 DEF Lists
  <1>7. n \in Nat \ {0} /\ l.buckets \in Array(n)
    BY <1>6 DEF Chained
  <1> DEFINE b == Hash[k] % n
  <1>8. Added(g, l, n, b, k)
    BY <1>5, <1>7, AddFields
  <1>9. Chained(g, n, Prefixed(chains, n, b, k), ToSet(new))
    BY <1>2, <1>5, <1>6, AddPlaces
  <1> HIDE DEF g
  <1>10. g \in TableType /\ g.buckets \in Array(n) /\ g.noexpand = l.noexpand
    BY <1>8 DEF Added, SameButChains
  <1>11. Ordered(g, new)
    <2>1. SameOrder(g, l)
      BY <1>8 DEF Added, SameButChains, SameOrder
    <2> QED
      BY <1>5, <2>1, OrderedStill
  <1>12. CASE IsFull(g, k) /\ ~g.noexpand
    <2>1. g.num_items >= 1
      <3>1. g.num_items = Len(order) + 1
        BY <1>2, <1>11 DEF Ordered
      <3> QED
        BY <1>2, <3>1
    <2>2. Expanded(Expand(g), g, ToSet(new))
      BY <1>9, <1>10, <2>1, ExpandIs
    <2> DEFINE e == Expand(g)
    <2> HIDE DEF e
    <2>3. e \in TableType /\ SameOrder(e, g) /\ Fits(e) /\ \E i, some : Chained(e, i, some, ToSet(new))
      BY <2>2 DEF Expanded, e
    <2>4. Ordered(e, new)
      BY <1>11, <2>3, OrderedStill
    <2>5. TableIs(e, new)
      BY <1>2, <2>3, <2>4 DEF TableIs
    <2> QED
      BY <1>4, <1>12, <2>5 DEF e, c, new
  <1>13. CASE ~(IsFull(g, k) /\ ~g.noexpand)
    <2>1. ~g.noexpand => Fits(g)
      <3>1. SUFFICES ASSUME ~g.noexpand PROVE Fits(g)
        OBVIOUS
      <3>2. Bucket(g, k) = b /\ b \in 0..(n - 1) /\ DOMAIN g.buckets = 0..(n - 1) /\ DOMAIN l.buckets = 0..(n - 1)
        BY <1>7, <1>10, BucketIs
      <3>3. ~(g.buckets[b].count >= (g.buckets[b].expand_mult + 1) * Threshold)
        BY <1>13, <3>1, <3>2 DEF IsFull
      <3>4. g.buckets[b].count \in Nat /\ g.buckets[b].expand_mult \in Nat
        BY <1>10, <3>2 DEF Array, BucketType
      <3> HIDE DEF b
      <3>5. BucketFits(g.buckets[b], g.ideal_chain_maxlen)
        <4>1. Threshold \in Nat
          BY HashAssumption
        <4>2. \A x, y \in Nat : ~(x >= (y + 1) * Threshold) => x < (y + 1) * Threshold
          BY <4>1
        <4> QED
          BY <3>3, <3>4, <4>2 DEF BucketFits
      <3>6. \A i \in 0..(n - 1) : i # b => BucketFits(g.buckets[i], g.ideal_chain_maxlen)
        BY <1>5, <1>8, <1>10, <3>1, <3>2 DEF Added, SameButChains, Fits
      <3> QED
        BY <3>2, <3>5, <3>6 DEF Fits
    <2>2. TableIs(g, new)
      BY <1>2, <1>9, <1>10, <1>11, <2>1 DEF TableIs
    <2> QED
      BY <1>4, <1>13, <2>2 DEF c, new
  <1> QED
    BY <1>12, <1>13

\* g is the field f with v at q, if q is an element.
PutTo(g, f, q, v) ==
    /\ g \in Field
    /\ q # NULL => g[q] = v
    /\ \A x \in Key : x # q => g[x] = f[x]

LEMMA PutIs ==
    ASSUME NEW f \in Field, NEW q \in Key \cup {NULL}, NEW v \in Pointer(Key)
    PROVE  PutTo(Put(f, q, v), f, q, v)
  <1>1. CASE q = NULL
    BY <1>1 DEF PutTo, Put
  <1>2. CASE q # NULL
    <2>1. q \in Key
      BY <1>2
    <2>2. /\ Store(f, q, v) \in Field /\ Store(f, q, v)[q] = v
          /\ \A x \in Key : x # q => Store(f, q, v)[x] = f[x]
      BY <2>1 DEF Store, Field
    <2> QED
      BY <1>2, <2>2 DEF PutTo, Put
  <1> QED
    BY <1>1, <1>2

\* The neighbours of the p-th element of s
Before(s, p) == IF p = 1 THEN NULL ELSE s[p - 1]
After(s, p)  == IF p = Len(s) THEN NULL ELSE s[p + 1]

LEMMA Neighbours ==
    ASSUME NEW s \in Seq(Key), Once(s), NEW p \in 1..Len(s)
    PROVE  /\ Before(s, p) \in Key \cup {NULL} /\ After(s, p) \in Key \cup {NULL}
           /\ Before(s, p) \in Pointer(Key) /\ After(s, p) \in Pointer(Key)
           /\ Before(s, p) = NULL <=> p = 1
           /\ After(s, p) = NULL <=> p = Len(s)
           /\ p > 1 => Before(s, p) = s[p - 1] /\ Before(s, p) \in ToSet(s)
           /\ p < Len(s) => After(s, p) = s[p + 1] /\ After(s, p) \in ToSet(s)
           /\ Before(s, p) # s[p] /\ After(s, p) # s[p]
           /\ \A i \in 1..Len(s) : /\ i # p - 1 => s[i] # Before(s, p)
                                   /\ i # p + 1 => s[i] # After(s, p)
  <1>1. /\ Len(s) \in Nat /\ \A i \in 1..Len(s) : s[i] \in Key /\ s[i] \in ToSet(s) /\ s[i] # NULL
    BY SeqFacts, KeyNodes DEF Nodes
  <1>2. \A L \in Nat : \A q \in 1..L : /\ q # 1 => q - 1 \in 1..L /\ q - 1 # q /\ q > 1
                                       /\ q # L => q + 1 \in 1..L /\ q + 1 # q /\ q < L
                                       /\ q > 1 => q # 1
                                       /\ q < L => q # L
    OBVIOUS
  <1>3. /\ p # 1 => p - 1 \in 1..Len(s) /\ p - 1 # p /\ p > 1
        /\ p # Len(s) => p + 1 \in 1..Len(s) /\ p + 1 # p /\ p < Len(s)
        /\ p > 1 => p # 1
        /\ p < Len(s) => p # Len(s)
    BY <1>1, <1>2
  <1>4. \A i, j \in 1..Len(s) : s[i] = s[j] => i = j
    BY DEF Once
  <1>5. NULL \in Pointer(Key) /\ Key \subseteq Pointer(Key)
    BY DEF Pointer
  <1>6. CASE p = 1
    <2>1. Before(s, p) = NULL
      BY <1>6 DEF Before
    <2>2. CASE p = Len(s)
      <3>1. After(s, p) = NULL
        BY <2>2 DEF After
      <3> QED
        BY <1>1, <1>3, <1>5, <1>6, <2>1, <2>2, <3>1
    <2>3. CASE p # Len(s)
      <3>1. After(s, p) = s[p + 1]
        BY <2>3 DEF After
      <3> QED
        BY <1>1, <1>3, <1>4, <1>5, <1>6, <2>1, <2>3, <3>1
    <2> QED
      BY <2>2, <2>3
  <1>7. CASE p # 1
    <2>1. Before(s, p) = s[p - 1]
      BY <1>7 DEF Before
    <2>2. CASE p = Len(s)
      <3>1. After(s, p) = NULL
        BY <2>2 DEF After
      <3> QED
        BY <1>1, <1>3, <1>4, <1>5, <1>7, <2>1, <2>2, <3>1
    <2>3. CASE p # Len(s)
      <3>1. After(s, p) = s[p + 1]
        BY <2>3 DEF After
      <3> QED
        BY <1>1, <1>3, <1>4, <1>5, <1>7, <2>1, <2>3, <3>1
    <2> QED
      BY <2>2, <2>3
  <1> QED
    BY <1>6, <1>7

\* g is h without k in the chain b, as far as the fields go.
Deleted(g, h, n, b, k) ==
    /\ g \in TableType /\ SameButChains(g, h)
    /\ g.buckets \in Array(n)
    /\ g.buckets[b].count = h.buckets[b].count - 1
    /\ g.buckets[b].hh_head = IF h.buckets[b].hh_head = k THEN h.hh_next[k] ELSE h.buckets[b].hh_head
    /\ g.buckets[b].expand_mult = h.buckets[b].expand_mult
    /\ \A c \in 0..(n - 1) : c # b => g.buckets[c] = h.buckets[c]
    /\ PutTo(g.hh_next, h.hh_next, h.hh_prev[k], h.hh_next[k])
    /\ PutTo(g.hh_prev, h.hh_prev, h.hh_next[k], h.hh_prev[k])

\* HASH_DEL_IN_BKT
LEMMA DelFields ==
    ASSUME NEW h \in TableType, NEW n \in Nat \ {0}, h.buckets \in Array(n), NEW k \in Key,
           h.buckets[Hash[k] % n].count >= 1,
           h.hh_next[k] \in Key \cup {NULL}, h.hh_prev[k] \in Key \cup {NULL}
    PROVE  Deleted(DelInBucket(h, k), h, n, Hash[k] % n, k)
  <1> DEFINE b      == Hash[k] % n
             bucket == h.buckets[b]
             after  == h.hh_next[k]
             before == h.hh_prev[k]
             first  == IF bucket.hh_head = k THEN after ELSE bucket.hh_head
             new    == [bucket EXCEPT !.count = bucket.count - 1, !.hh_head = first]
             g      == DelInBucket(h, k)
  <1>1. Bucket(h, k) = b /\ b \in 0..(n - 1)
    BY BucketIs
  <1>2. bucket \in BucketType /\ bucket.count >= 1 /\ after \in Key \cup {NULL} /\ before \in Key \cup {NULL}
    BY <1>1 DEF Array
  <1> HIDE DEF after, before, bucket
  <1>3. bucket.count - 1 \in Nat /\ first \in Key \cup {NULL}
    BY <1>2 DEF BucketType
  <1> HIDE DEF first
  <1>4. /\ new \in BucketType
        /\ new.count = bucket.count - 1 /\ new.hh_head = first /\ new.expand_mult = bucket.expand_mult
    BY <1>2, <1>3 DEF BucketType
  <1> HIDE DEF new
  <1>5. /\ Store(h.buckets, b, new) \in Array(n) /\ Store(h.buckets, b, new) \in Arrays
        /\ Store(h.buckets, b, new)[b] = new
        /\ \A c \in 0..(n - 1) : c # b => Store(h.buckets, b, new)[c] = h.buckets[c]
    <2> HIDE DEF b
    <2> QED
      BY <1>1, <1>4, ArrayStore
  <1>6. h.hh_next \in Field /\ h.hh_prev \in Field
    BY DEF TableType
  <1>7. after \in Pointer(Key) /\ before \in Pointer(Key)
    BY <1>2 DEF Pointer
  <1>8. PutTo(Put(h.hh_next, before, after), h.hh_next, before, after)
    BY <1>2, <1>6, <1>7, PutIs
  <1>9. PutTo(Put(h.hh_prev, after, before), h.hh_prev, after, before)
    BY <1>2, <1>6, <1>7, PutIs
  <1>10. g = [h EXCEPT !.buckets = Store(h.buckets, b, new),
                       !.hh_next = Put(h.hh_next, before, after),
                       !.hh_prev = Put(h.hh_prev, after, before)]
    BY <1>1 DEF DelInBucket, new, first, bucket, after, before
  <1> HIDE DEF g, b
  <1>11. /\ g.buckets = Store(h.buckets, b, new)
         /\ g.hh_next = Put(h.hh_next, before, after)
         /\ g.hh_prev = Put(h.hh_prev, after, before)
         /\ SameButChains(g, h)
    BY <1>10 DEF TableType, SameButChains
  <1>12. g \in TableType
    <2>1. Put(h.hh_next, before, after) \in Field /\ Put(h.hh_prev, after, before) \in Field
      BY <1>8, <1>9 DEF PutTo
    <2> QED
      BY <1>5, <1>10, <2>1 DEF TableType
  <1>13. Deleted(g, h, n, b, k)
    BY <1>4, <1>5, <1>8, <1>9, <1>11, <1>12 DEF Deleted, bucket, after, before, first
  <1> QED
    BY <1>13 DEF g, b

\* The chains without the q-th element of the chain b
Dropped(chains, n, b, q) ==
    [c \in 0..(n - 1) |-> IF c = b THEN Without(chains[b], q) ELSE chains[c]]

\* HASH_DEL_IN_BKT takes an element out of its chain.
DelDone(g, h, n, S, k) ==
    /\ Deleted(g, h, n, Hash[k] % n, k)
    /\ \E chains : Chained(g, n, chains, S \ {k})

LEMMA DelPlaces ==
    ASSUME NEW h \in TableType, NEW n, NEW chains, NEW S, Chained(h, n, chains, S), NEW k \in S
    PROVE  DelDone(DelInBucket(h, k), h, n, S, k)
  <1> DEFINE b     == Hash[k] % n
             first == h.buckets[b].hh_head
             g     == DelInBucket(h, k)
             c     == chains[b]
  <1>1. /\ n \in Nat \ {0} /\ h.buckets \in Array(n) /\ S \subseteq Key /\ k \in Key
        /\ \A i \in 0..(n - 1) : ChainOf(h, i, chains[i])
        /\ \A i \in 0..(n - 1) : \A x \in ToSet(chains[i]) : x \in S /\ Hash[x] % n = i
        /\ \A x \in S : x \in ToSet(chains[Hash[x] % n])
    BY DEF Chained
  <1>2. b \in 0..(n - 1)
    BY <1>1, BucketIs
  <1>3. ChainOf(h, b, c) /\ k \in ToSet(c)
    BY <1>1, <1>2
  <1>4. /\ c \in Seq(Key) /\ Once(c)
        /\ Leads(h.hh_next, c, first) /\ Backs(h.hh_prev, c)
        /\ c # <<>> => h.hh_prev[c[1]] = NULL
        /\ h.buckets[b].count = Len(c)
    BY <1>3 DEF ChainOf
  <1> HIDE DEF c
  <1>5. PICK q \in 1..Len(c) : k = c[q]
    BY <1>3, <1>4, SeqFacts
  <1>6. Len(c) \in Nat /\ c # <<>> /\ Len(c) >= 1 /\ 1 \in 1..Len(c)
    BY <1>4, <1>5, SeqFacts
  <1>7. h.hh_next[k] = After(c, q)
    BY <1>4, <1>5 DEF Leads, After
  <1>8. h.hh_prev[k] = Before(c, q)
    <2>1. q # 1 => q > 1
      OBVIOUS
    <2> QED
      BY <1>4, <1>5, <1>6, <2>1 DEF Backs, Before
  <1> DEFINE before == Before(c, q)
             after  == After(c, q)
             new    == Without(c, q)
             all    == Dropped(chains, n, b, q)
  <1>9. /\ before \in Key \cup {NULL} /\ after \in Key \cup {NULL}
        /\ before = NULL <=> q = 1
        /\ after = NULL <=> q = Len(c)
        /\ q > 1 => before = c[q - 1] /\ before \in ToSet(c)
        /\ q < Len(c) => after = c[q + 1] /\ after \in ToSet(c)
        /\ before # k /\ after # k
        /\ \A i \in 1..Len(c) : /\ i # q - 1 => c[i] # before
                                /\ i # q + 1 => c[i] # after
    BY <1>4, <1>5, Neighbours
  <1>10. Deleted(g, h, n, b, k)
    BY <1>1, <1>4, <1>6, <1>7, <1>8, <1>9, DelFields
  <1> HIDE DEF g, before, after
  <1>11. /\ g \in TableType /\ g.buckets \in Array(n)
         /\ g.buckets[b].count = Len(c) - 1
         /\ g.buckets[b].hh_head = IF first = k THEN after ELSE first
         /\ \A i \in 0..(n - 1) : i # b => g.buckets[i] = h.buckets[i]
         /\ before # NULL => g.hh_next[before] = after
         /\ \A x \in Key : x # before => g.hh_next[x] = h.hh_next[x]
         /\ after # NULL => g.hh_prev[after] = before
         /\ \A x \in Key : x # after => g.hh_prev[x] = h.hh_prev[x]
    BY <1>4, <1>7, <1>8, <1>10 DEF Deleted, PutTo, before, after
  <1>12. \A i \in 1..Len(c) : c[i] \in Key /\ c[i] \in ToSet(c)
    BY <1>4, SeqFacts
  <1>13. /\ new \in Seq(Key) /\ Len(new) = Len(c) - 1 /\ Once(new) /\ ToSet(new) = ToSet(c) \ {k}
    BY <1>4, <1>5, WithoutIs
  <1>14. first = k <=> q = 1
    BY <1>4, <1>5, <1>6 DEF Leads, Once
  <1>15. Leads(g.hh_next, new, g.buckets[b].hh_head)
    <2>1. q > 1 => g.hh_next[c[q - 1]] = h.hh_next[c[q]]
      BY <1>5, <1>7, <1>9, <1>11 DEF after
    <2>2. \A i \in 1..Len(c) : i # q /\ i # q - 1 => g.hh_next[c[i]] = h.hh_next[c[i]]
      BY <1>9, <1>11, <1>12
    <2>3. Leads(g.hh_next, Without(c, q), IF q = 1 THEN h.hh_next[c[q]] ELSE first)
      BY <1>4, <2>1, <2>2, LeadsWithout
    <2> QED
      BY <1>5, <1>7, <1>11, <1>14, <2>3 DEF after
  <1>16. Backs(g.hh_prev, new)
    <2>1. 1 < q /\ q < Len(c) => g.hh_prev[c[q + 1]] = h.hh_prev[c[q]]
      <3>1. 1 < q /\ q < Len(c) => q # Len(c)
        BY <1>6
      <3> QED
        BY <1>5, <1>8, <1>9, <1>11, <3>1 DEF before
    <2>2. \A i \in 1..Len(c) : i > 1 /\ i # q /\ i # q + 1 => g.hh_prev[c[i]] = h.hh_prev[c[i]]
      BY <1>9, <1>11, <1>12
    <2> QED
      BY <1>4, <2>1, <2>2, BacksWithout
  <1>17. new # <<>> => g.hh_prev[new[1]] = NULL
    <2>1. SUFFICES ASSUME new # <<>> PROVE g.hh_prev[new[1]] = NULL
      OBVIOUS
    <2>2. 1 \in 1..Len(new)
      BY <1>13, <2>1, SeqFacts
    <2>3. new[1] = IF 1 < q THEN c[1] ELSE c[2]
      BY <1>13, <2>2 DEF Without
    <2>4. CASE q = 1
      <3>1. 1 < Len(c) /\ ~(1 < 1) /\ 1 + 1 = 2
        BY <1>6, <1>13, <2>2
      <3>2. after = c[2] /\ new[1] = c[2] /\ after # NULL /\ before = NULL
        BY <1>6, <1>9, <2>3, <2>4, <3>1
      <3> QED
        BY <1>11, <3>2
    <2>5. CASE q # 1
      <3>1. 1 < q /\ 1 # q + 1
        BY <2>5
      <3>2. new[1] = c[1] /\ c[1] # after /\ c[1] \in Key
        BY <1>6, <1>9, <1>12, <2>3, <3>1
      <3> QED
        BY <1>4, <1>6, <1>11, <3>2
    <2> QED
      BY <2>4, <2>5
  <1> HIDE DEF new, all
  <1>18. ChainOf(g, b, new)
    BY <1>11, <1>13, <1>15, <1>16, <1>17 DEF ChainOf
  <1>19. ASSUME NEW i \in 0..(n - 1), i # b PROVE ChainOf(g, i, chains[i])
    <2> DEFINE o == chains[i]
    <2>1. /\ o \in Seq(Key) /\ Once(o)
          /\ Leads(h.hh_next, o, h.buckets[i].hh_head) /\ Backs(h.hh_prev, o)
          /\ o # <<>> => h.hh_prev[o[1]] = NULL
          /\ h.buckets[i].count = Len(o)
      BY <1>1 DEF ChainOf
    <2>2. g.buckets[i] = h.buckets[i]
      BY <1>11, <1>19
    <2>3. \A x \in ToSet(o) : x # before /\ x # after /\ x \in Key
      <3>1. \A x \in ToSet(o) : Hash[x] % n = i /\ x \in Key
        BY <1>1
      <3>2. \A x \in ToSet(c) : Hash[x] % n = b
        BY <1>1, <1>2 DEF c
      <3>3. (before = NULL \/ before \in ToSet(c)) /\ (after = NULL \/ after \in ToSet(c))
        <4>1. (q = 1 \/ q > 1) /\ (q = Len(c) \/ q < Len(c))
          BY <1>6
        <4> QED
          BY <1>9, <4>1
      <3>4. NULL \notin Key
        BY KeyNodes DEF Nodes
      <3> HIDE DEF b, o
      <3> QED
        BY <1>19, <3>1, <3>2, <3>3, <3>4
    <2> HIDE DEF o
    <2>4. \A j \in 1..Len(o) : o[j] \in Key /\ o[j] # before /\ o[j] # after
      BY <2>1, <2>3, SeqFacts
    <2>5. \A j \in 1..Len(o) : g.hh_next[o[j]] = h.hh_next[o[j]] /\ g.hh_prev[o[j]] = h.hh_prev[o[j]]
      BY <1>11, <2>4
    <2>6. Leads(g.hh_next, o, g.buckets[i].hh_head)
      BY <2>1, <2>2, <2>5, LeadsStill
    <2>7. Backs(g.hh_prev, o)
      BY <2>1, <2>5 DEF Backs
    <2>8. o # <<>> => g.hh_prev[o[1]] = NULL
      <3>1. o # <<>> => 1 \in 1..Len(o)
        BY <2>1, SeqFacts
      <3> QED
        BY <2>1, <2>5, <3>1
    <2>9. ChainOf(g, i, o)
      BY <2>1, <2>2, <2>6, <2>7, <2>8 DEF ChainOf
    <2> QED
      BY <2>9 DEF o
  <1>20. all[b] = new /\ \A i \in 0..(n - 1) : i # b => all[i] = chains[i]
    BY <1>2 DEF all, new, c, Dropped
  <1>21. \A i \in 0..(n - 1) : ChainOf(g, i, all[i])
    BY <1>18, <1>19, <1>20
  <1>22. \A i \in 0..(n - 1) : \A x \in ToSet(all[i]) : x \in S \ {k} /\ Hash[x] % n = i
    <2>1. \A x \in ToSet(new) : x \in S \ {k} /\ Hash[x] % n = b
      BY <1>1, <1>2, <1>13 DEF c
    <2>2. Hash[k] % n = b
      OBVIOUS
    <2> HIDE DEF b
    <2> QED
      BY <1>1, <1>20, <2>1, <2>2
  <1>23. \A x \in S \ {k} : x \in ToSet(all[Hash[x] % n])
    <2> SUFFICES ASSUME NEW x \in S \ {k} PROVE x \in ToSet(all[Hash[x] % n])
      OBVIOUS
    <2>1. Hash[x] % n \in 0..(n - 1) /\ x \in ToSet(chains[Hash[x] % n])
      BY <1>1, BucketIs
    <2>2. CASE Hash[x] % n = b
      BY <1>13, <1>20, <2>1, <2>2 DEF c
    <2>3. CASE Hash[x] % n # b
      BY <1>20, <2>1, <2>3
    <2> QED
      BY <2>2, <2>3
  <1>24. Chained(g, n, all, S \ {k})
    <2> HIDE DEF b
    <2> QED
      BY <1>1, <1>11, <1>21, <1>22, <1>23 DEF Chained
  <1> QED
    BY <1>10, <1>24 DEF g, DelDone

\* Where there is nothing, nothing is to be checked.
LEMMA EmptyTable ==
    ASSUME NEW g \in TableType, g.head = NULL, g.num_items = 0, ~g.noexpand,
           \A x \in Key : g.next[x] = Garbage
    PROVE  TableIs(g, <<>>)
  <1>1. /\ <<>> \in Seq(Key) /\ ToSet(<<>>) = {} /\ Len(<<>>) = 0 /\ 1..0 = {}
    BY EmptySeq DEF ToSet
  <1>2. Ordered(g, <<>>)
    BY <1>1 DEF Ordered, Once, Leads, Backs
  <1> QED
    BY <1>2 DEF TableIs

\* The table in the beginning
LEMMA NoTableEmpty == TableIs(NoTable, <<>>)
  <1> DEFINE garbage == [k \in Key |-> Garbage]
  <1>1. garbage \in Field /\ \A x \in Key : garbage[x] = Garbage
    BY DEF Field, Pointer
  <1>2. <<>> \in Arrays
    BY DEF Arrays
  <1> HIDE DEF garbage
  <1>3. /\ NoTable \in TableType /\ NoTable.head = NULL /\ NoTable.num_items = 0
        /\ NoTable.noexpand = FALSE /\ NoTable.next = garbage
    BY <1>1, <1>2 DEF NoTable, TableType, garbage
  <1> QED
    BY <1>1, <1>3, EmptyTable

\* HASH_DEL of the only element
LEMMA DelLast ==
    ASSUME NEW h, NEW order, TableIs(h, order), Len(order) = 1
    PROVE  TableIs(HashFree(HASH_DEL(h, order[1]), order[1]), Without(order, 1))
  <1> DEFINE k == order[1]
             d == HASH_DEL(h, k)
             g == HashFree(d, k)
  <1>1. h \in TableType /\ Ordered(h, order)
    BY DEF TableIs
  <1>2. /\ order \in Seq(Key) /\ Once(order) /\ Leads(h.next, order, h.head)
        /\ order # <<>> => h.prev[k] = NULL
        /\ \A x \in Key : x \notin ToSet(order) => h.next[x] = Garbage
    BY <1>1 DEF Ordered
  <1>3. order # <<>> /\ 1 \in 1..Len(order) /\ k \in Key
    <2>1. order = <<>> <=> Len(order) = 0
      BY <1>2, SeqFacts
    <2>2. 1 \in 1..Len(order)
      OBVIOUS
    <2> QED
      BY <1>2, <2>1, <2>2, SeqFacts
  <1>4. h.next[k] = NULL
    BY <1>2, <1>3 DEF Leads
  <1>5. d = [NoTable EXCEPT !.prev = h.prev, !.next = h.next,
                            !.hh_prev = h.hh_prev, !.hh_next = h.hh_next]
    BY <1>2, <1>3, <1>4 DEF HASH_DEL
  <1>6. h.prev \in Field /\ h.next \in Field /\ h.hh_prev \in Field /\ h.hh_next \in Field
    BY <1>1 DEF TableType
  <1> HIDE DEF d
  <1>7. /\ d \in TableType /\ d.head = NULL /\ d.num_items = 0 /\ d.noexpand = FALSE
        /\ d.next = h.next
    <2>1. <<>> \in Arrays
      BY DEF Arrays
    <2> HIDE DEF k
    <2> QED
      BY <1>5, <1>6, <2>1 DEF NoTable, TableType
  <1>8. Renewed(g, d, k, Garbage)
    BY <1>3, <1>7, RenewFields
  <1> HIDE DEF g, k
  <1>9. ToSet(order) = {k}
    <2>1. \A x \in ToSet(order) : \E i \in 1..Len(order) : x = order[i]
      BY <1>2, SeqFacts
    <2>2. 1..1 = {1}
      OBVIOUS
    <2>3. k \in ToSet(order)
      BY <1>2, <1>3, SeqFacts DEF k
    <2> QED
      BY <2>1, <2>2, <2>3 DEF k
  <1>10. g \in TableType /\ g.head = NULL /\ g.num_items = 0 /\ ~g.noexpand
    BY <1>7, <1>8 DEF Renewed
  <1>11. \A x \in Key : g.next[x] = Garbage
    BY <1>2, <1>7, <1>8, <1>9 DEF Renewed
  <1>12. TableIs(g, <<>>)
    BY <1>10, <1>11, EmptyTable
  <1>13. Without(order, 1) = <<>>
    <2>1. Without(order, 1) \in Seq(Key) /\ Len(Without(order, 1)) = 0
      BY <1>2, <1>3, WithoutIs
    <2> QED
      BY <2>1, SeqFacts
  <1> QED
    BY <1>12, <1>13 DEF g, d, k

\* HASH_DEL of one of several elements, up to HASH_DEL_IN_BKT
Unlisted(h, k) ==
    [h EXCEPT !.tail = IF @ = k THEN h.prev[k] ELSE @,
              !.head = IF h.prev[k] = NULL THEN h.next[k] ELSE @,
              !.next = Put(@, h.prev[k], h.next[k]),
              !.prev = Put(@, h.next[k], h.prev[k]),
              !.num_items = @ - 1]

\* g is h without the p-th element in the order.
Unlists(g, h, order, p) ==
    /\ g \in TableType
    /\ g.buckets = h.buckets /\ g.hh_next = h.hh_next /\ g.hh_prev = h.hh_prev
    /\ g.noexpand = h.noexpand /\ g.ideal_chain_maxlen = h.ideal_chain_maxlen
    /\ g.num_items = Len(order) - 1
    /\ Leads(g.next, Without(order, p), g.head)
    /\ Backs(g.prev, Without(order, p))
    /\ g.prev[Without(order, p)[1]] = NULL
    /\ g.tail = Without(order, p)[Len(Without(order, p))]
    /\ \A x \in Key : x \notin ToSet(order) => g.next[x] = Garbage

LEMMA UnlistedIs ==
    ASSUME NEW h, NEW order, TableIs(h, order), NEW p \in 1..Len(order), Len(order) # 1
    PROVE  /\ Unlists(Unlisted(h, order[p]), h, order, p)
           /\ HASH_DEL(h, order[p]) = DelInBucket(Unlisted(h, order[p]), order[p])
  <1> DEFINE k      == order[p]
             L      == Len(order)
             before == Before(order, p)
             after  == After(order, p)
             new    == Without(order, p)
             g      == Unlisted(h, k)
             tail   == IF h.tail = k THEN before ELSE h.tail
             head   == IF before = NULL THEN after ELSE h.head
             next   == Put(h.next, before, after)
             prev   == Put(h.prev, after, before)
  <1>1. h \in TableType /\ Ordered(h, order)
    BY DEF TableIs
  <1>2. L \in Nat /\ L > 1 /\ order # <<>> /\ 1 \in 1..L /\ L \in 1..L /\ k \in Key
        /\ \A i \in 1..L : order[i] \in Key /\ order[i] \in ToSet(order)
    <2>1. order \in Seq(Key)
      BY <1>1 DEF Ordered
    <2>2. L \in Nat /\ k \in Key /\ \A i \in 1..L : order[i] \in Key /\ order[i] \in ToSet(order)
      BY <2>1, SeqFacts
    <2>3. order = <<>> <=> L = 0
      BY <2>1, SeqFacts
    <2>4. L > 1 /\ 1 \in 1..L /\ L \in 1..L
      <3>1. L # 1 /\ p \in 1..L
        OBVIOUS
      <3> HIDE DEF L
      <3> QED
        BY <2>2, <3>1
    <2> QED
      BY <2>2, <2>3, <2>4
  <1>3. /\ order \in Seq(Key) /\ Once(order) /\ Leads(h.next, order, h.head)
        /\ Backs(h.prev, order) /\ h.prev[order[1]] = NULL /\ h.tail = order[L]
        /\ \A x \in Key : x \notin ToSet(order) => h.next[x] = Garbage
        /\ h.num_items = L
    BY <1>1, <1>2 DEF Ordered
  <1>4. h.next[k] = after
    BY <1>3 DEF Leads, After
  <1>5. h.prev[k] = before
    <2>1. p # 1 => p > 1
      OBVIOUS
    <2> QED
      BY <1>3, <2>1 DEF Backs, Before
  <1>6. /\ before \in Key \cup {NULL} /\ after \in Key \cup {NULL}
        /\ before \in Pointer(Key) /\ after \in Pointer(Key)
        /\ before = NULL <=> p = 1
        /\ after = NULL <=> p = L
        /\ p > 1 => before = order[p - 1] /\ before \in ToSet(order)
        /\ p < L => after = order[p + 1] /\ after \in ToSet(order)
        /\ before # k /\ after # k
        /\ \A i \in 1..L : /\ i # p - 1 => order[i] # before
                           /\ i # p + 1 => order[i] # after
    BY <1>3, Neighbours
  <1>7. HASH_DEL(h, k) = DelInBucket(g, k)
    <2>1. ~(h.prev[k] = NULL /\ h.next[k] = NULL)
      BY <1>2, <1>4, <1>5, <1>6
    <2> QED
      BY <2>1 DEF HASH_DEL, Unlisted
  <1>8. h.next \in Field /\ h.prev \in Field /\ h.tail \in Key \cup {NULL} /\ h.head \in Key \cup {NULL}
        /\ h.num_items - 1 \in Nat
    BY <1>1, <1>2, <1>3 DEF TableType
  <1> HIDE DEF k, before, after
  <1>9. PutTo(next, h.next, before, after) /\ PutTo(prev, h.prev, after, before)
    BY <1>6, <1>8, PutIs
  <1>10. tail \in Key \cup {NULL} /\ head \in Key \cup {NULL}
    BY <1>6, <1>8
  <1>11. g = [h EXCEPT !.tail = tail, !.head = head, !.next = next, !.prev = prev,
                       !.num_items = h.num_items - 1]
    BY <1>4, <1>5 DEF Unlisted
  <1> HIDE DEF g, tail, head, next, prev
  <1>12. /\ g.tail = tail /\ g.head = head /\ g.next = next /\ g.prev = prev
         /\ g.num_items = h.num_items - 1
         /\ g.buckets = h.buckets /\ g.hh_next = h.hh_next /\ g.hh_prev = h.hh_prev
         /\ g.noexpand = h.noexpand /\ g.ideal_chain_maxlen = h.ideal_chain_maxlen
    BY <1>1, <1>11 DEF TableType
  <1>13. g \in TableType
    <2>1. next \in Field /\ prev \in Field
      BY <1>9 DEF PutTo
    <2> QED
      BY <1>1, <1>8, <1>10, <1>11, <2>1 DEF TableType
  <1>14. /\ before # NULL => g.next[before] = after
         /\ \A x \in Key : x # before => g.next[x] = h.next[x]
         /\ after # NULL => g.prev[after] = before
         /\ \A x \in Key : x # after => g.prev[x] = h.prev[x]
    BY <1>9, <1>12 DEF PutTo
  <1>15. new \in Seq(Key) /\ Len(new) = L - 1
    BY <1>3, WithoutIs
  <1>16. Leads(g.next, new, g.head)
    <2>1. p > 1 => g.next[order[p - 1]] = h.next[order[p]]
      BY <1>4, <1>6, <1>14 DEF k
    <2>2. \A i \in 1..L : i # p /\ i # p - 1 => g.next[order[i]] = h.next[order[i]]
      BY <1>2, <1>6, <1>14
    <2>3. Leads(g.next, Without(order, p), IF p = 1 THEN h.next[order[p]] ELSE h.head)
      BY <1>3, <2>1, <2>2, LeadsWithout
    <2> QED
      BY <1>4, <1>6, <1>12, <2>3 DEF k, head
  <1>17. Backs(g.prev, new)
    <2>1. 1 < p /\ p < L => g.prev[order[p + 1]] = h.prev[order[p]]
      <3>1. 1 < p /\ p < L => p # L
        BY <1>2
      <3> QED
        BY <1>5, <1>6, <1>14, <3>1 DEF k
    <2>2. \A i \in 1..L : i > 1 /\ i # p /\ i # p + 1 => g.prev[order[i]] = h.prev[order[i]]
      BY <1>2, <1>6, <1>14
    <2> QED
      BY <1>3, <2>1, <2>2, BacksWithout
  <1>18. \A i \in 1..(L - 1) : new[i] = IF i < p THEN order[i] ELSE order[i + 1]
    BY DEF Without
  <1>19. g.prev[new[1]] = NULL
    <2>1. 1 \in 1..(L - 1)
      BY <1>2
    <2>2. CASE p = 1
      <3>1. new[1] = order[2] /\ p < L /\ p + 1 = 2 /\ p # L
        BY <1>2, <1>18, <2>1, <2>2
      <3>2. new[1] = after /\ after # NULL /\ before = NULL
        BY <1>6, <2>2, <3>1
      <3> QED
        BY <1>14, <3>2
    <2>3. CASE p # 1
      <3>1. 1 < p /\ 1 # p + 1
        BY <2>3
      <3>2. new[1] = order[1] /\ order[1] # after /\ order[1] \in Key
        BY <1>2, <1>6, <1>18, <2>1, <3>1
      <3> QED
        BY <1>3, <1>14, <3>2
    <2> QED
      BY <2>2, <2>3
  <1>20. g.tail = new[L - 1]
    <2>1. L - 1 \in 1..(L - 1) /\ L - 1 + 1 = L
      BY <1>2
    <2>2. CASE p = L
      <3>1. tail = before /\ before = order[L - 1]
        <4>1. p > 1
          BY <1>2, <2>2
        <4> QED
          BY <1>3, <1>6, <2>2, <4>1 DEF tail, k
      <3>2. L - 1 < p
        BY <1>2, <2>2
      <3> QED
        BY <1>12, <1>18, <2>1, <3>1, <3>2
    <2>3. CASE p # L
      <3>1. order[L] # k
        BY <1>2, <1>3, <2>3 DEF Once, k
      <3>2. ~(L - 1 < p)
        BY <1>2, <2>3
      <3> QED
        BY <1>3, <1>12, <1>18, <2>1, <3>1, <3>2 DEF tail
    <2> QED
      BY <2>2, <2>3
  <1>21. \A x \in Key : x \notin ToSet(order) => g.next[x] = Garbage
    <2>1. before = NULL \/ before \in ToSet(order)
      <3>1. p = 1 \/ p > 1
        OBVIOUS
      <3> QED
        BY <1>6, <3>1
    <2>2. NULL \notin Key
      BY KeyNodes DEF Nodes
    <2> QED
      BY <1>3, <1>14, <2>1, <2>2
  <1> HIDE DEF new
  <1>22. Unlists(g, h, order, p)
    BY <1>3, <1>12, <1>13, <1>15, <1>16, <1>17, <1>19, <1>20, <1>21 DEF Unlists, new
  <1> QED
    BY <1>7, <1>22 DEF g, k

\* HASH_DEL takes an element out of the order and out of its bucket.
LEMMA DelIs ==
    ASSUME NEW h, NEW order, TableIs(h, order), NEW p \in 1..Len(order)
    PROVE  TableIs(HashFree(HASH_DEL(h, order[p]), order[p]), Without(order, p))
  <1>1. CASE Len(order) = 1
    <2>1. p = 1
      BY <1>1
    <2> QED
      BY <1>1, <2>1, DelLast
  <1>2. CASE Len(order) # 1
    <2> DEFINE k   == order[p]
               u   == Unlisted(h, k)
               d   == DelInBucket(u, k)
               g   == HashFree(d, k)
               new == Without(order, p)
    <2>1. Unlists(u, h, order, p) /\ HASH_DEL(h, k) = d
      BY <1>2, UnlistedIs
    <2>2. h \in TableType /\ order \in Seq(Key) /\ Once(order)
      BY DEF TableIs, Ordered
    <2>3. k \in Key /\ k \in ToSet(order) /\ order # <<>> /\ Len(order) \in Nat
      BY <2>2, SeqFacts
    <2>4. new \in Seq(Key) /\ Len(new) = Len(order) - 1 /\ Once(new) /\ ToSet(new) = ToSet(order) \ {k}
      BY <2>2, WithoutIs
    <2>5. new # <<>> /\ 1 \in 1..Len(new) /\ Len(new) \in 1..Len(new)
      <3>1. Len(new) # 0 /\ Len(new) \in Nat
        BY <1>2, <2>3, <2>4
      <3> QED
        BY <2>4, <3>1, SeqFacts
    <2> HIDE DEF u, k, new
    <2>6. PICK n, chains : Chained(h, n, chains, ToSet(order))
      BY <2>3 DEF TableIs
    <2>7. Chained(u, n, chains, ToSet(order))
      BY <2>1, <2>6, ChainedFrame DEF Unlists
    <2>8. u \in TableType
      BY <2>1 DEF Unlists
    <2>9. DelDone(d, u, n, ToSet(order), k)
      BY <2>3, <2>7, <2>8, DelPlaces
    <2> HIDE DEF d
    <2>10. Deleted(d, u, n, Hash[k] % n, k) /\ d \in TableType /\ SameButChains(d, u)
      BY <2>9 DEF DelDone, Deleted
    <2>11. PICK some : Chained(d, n, some, ToSet(new))
      BY <2>4, <2>9 DEF DelDone
    <2>12. Renewed(g, d, k, Garbage)
      BY <2>3, <2>10, RenewFields
    <2> HIDE DEF g
    <2>13. Chained(g, n, some, ToSet(new))
      <3>1. \A x \in ToSet(new) : x \in Key /\ x # k
        BY <2>4, SeqFacts
      <3>2. /\ g.buckets = d.buckets
            /\ \A x \in ToSet(new) : g.hh_next[x] = d.hh_next[x] /\ g.hh_prev[x] = d.hh_prev[x]
        BY <2>12, <3>1 DEF Renewed
      <3> QED
        BY <2>11, <3>2, ChainedFrame
    <2>14. \A i \in 1..Len(new) : new[i] \in Key /\ new[i] # k
      BY <2>4, SeqFacts
    <2>15. \A i \in 1..Len(new) : g.next[new[i]] = u.next[new[i]] /\ g.prev[new[i]] = u.prev[new[i]]
      BY <2>10, <2>12, <2>14 DEF Renewed, SameButChains
    <2>16. Leads(g.next, new, g.head)
      <3>1. Leads(u.next, new, g.head)
        BY <2>1, <2>10, <2>12 DEF Unlists, Renewed, SameButChains, new
      <3> QED
        BY <2>4, <2>15, <3>1, LeadsStill
    <2>17. Backs(g.prev, new)
      BY <2>1, <2>15 DEF Unlists, new, Backs
    <2>18. g.prev[new[1]] = NULL
      BY <2>1, <2>5, <2>15 DEF Unlists, new
    <2>19. \A x \in Key : x \notin ToSet(new) => g.next[x] = Garbage
      BY <2>1, <2>4, <2>10, <2>12 DEF Unlists, Renewed, SameButChains
    <2>20. g.tail = new[Len(new)] /\ g.num_items = Len(new)
      BY <2>1, <2>4, <2>10, <2>12 DEF Unlists, Renewed, SameButChains, new
    <2>21. Ordered(g, new)
      BY <2>4, <2>16, <2>17, <2>18, <2>19, <2>20 DEF Ordered
    <2>22. ~g.noexpand => Fits(g)
      <3>1. SUFFICES ASSUME ~g.noexpand PROVE Fits(g)
        OBVIOUS
      <3> DEFINE b == Hash[k] % n
      <3>2. n \in Nat \ {0} /\ h.buckets \in Array(n) /\ d.buckets \in Array(n)
        BY <2>6, <2>11 DEF Chained
      <3>3. b \in 0..(n - 1) /\ DOMAIN h.buckets = 0..(n - 1) /\ DOMAIN d.buckets = 0..(n - 1)
        BY <2>3, <3>2, BucketIs
      <3>4. /\ g.buckets = d.buckets /\ g.ideal_chain_maxlen = h.ideal_chain_maxlen
            /\ d.buckets[b].count = h.buckets[b].count - 1
            /\ d.buckets[b].expand_mult = h.buckets[b].expand_mult
            /\ \A i \in 0..(n - 1) : i # b => d.buckets[i] = h.buckets[i]
            /\ g.noexpand = h.noexpand
        BY <2>1, <2>10, <2>12 DEF Deleted, Renewed, Unlists, SameButChains
      <3>5. Fits(h)
        BY <2>3, <3>1, <3>4 DEF TableIs
      <3>6. h.buckets[b].count \in Nat /\ h.buckets[b].expand_mult \in Nat
            /\ h.ideal_chain_maxlen \in Nat /\ Threshold \in Nat
        <4>1. h.buckets[b] \in BucketType
          BY <3>2, <3>3 DEF Array
        <4> QED
          BY <2>2, <4>1, HashAssumption DEF TableType, BucketType
      <3> HIDE DEF b
      <3>7. BucketFits(d.buckets[b], h.ideal_chain_maxlen)
        <4>1. BucketFits(h.buckets[b], h.ideal_chain_maxlen)
          BY <3>3, <3>5 DEF Fits
        <4>2. \A c, e, i, t \in Nat : c < (e + 1) * t \/ c <= (e + 1) * i
                                        => c - 1 < (e + 1) * t \/ c - 1 <= (e + 1) * i
          <5>1. \A c, x \in Nat : (c < x => c - 1 < x) /\ (c <= x => c - 1 <= x)
            OBVIOUS
          <5>2. \A e, t \in Nat : (e + 1) * t \in Nat
            OBVIOUS
          <5> QED
            BY <5>1, <5>2
        <4> QED
          BY <3>4, <3>6, <4>1, <4>2 DEF BucketFits
      <3> QED
        BY <3>3, <3>4, <3>5, <3>7 DEF Fits
    <2>23. TableIs(g, new)
      BY <2>5, <2>12, <2>13, <2>21, <2>22 DEF TableIs, Renewed
    <2> QED
      BY <2>1, <2>23 DEF g, d, new, k
  <1> QED
    BY <1>1, <1>2

\* A table is what HASH_FSCK takes for one.
LEMMA SoundIs ==
    ASSUME NEW h, NEW order, TableIs(h, order)
    PROVE  Sound(h)
  <1>1. SUFFICES ASSUME h.head # NULL PROVE Sound(h)
    BY DEF Sound
  <1>2. order # <<>>
    BY <1>1, HeadIs
  <1>3. HASH_ITER(h) = order
    BY IterIs
  <1>4. h \in TableType /\ Ordered(h, order)
    BY DEF TableIs
  <1>5. PICK n, chains : Chained(h, n, chains, ToSet(order))
    BY <1>2 DEF TableIs
  <1>6. n \in Nat \ {0} /\ h.buckets \in Array(n) /\ DOMAIN h.buckets = 0..(n - 1)
    BY <1>5 DEF Chained, Array
  <1>7. \A s \in Seq(Key) : \A back \in Field :
            Backs(back, s) /\ (s # <<>> => back[s[1]] = NULL) => PointsBack(s, back)
    <2> SUFFICES ASSUME NEW s \in Seq(Key), NEW back \in Field, Backs(back, s),
                        s # <<>> => back[s[1]] = NULL,
                        NEW i \in DOMAIN s
                 PROVE  s[i] \in DOMAIN back /\ back[s[i]] = IF i = 1 THEN NULL ELSE s[i - 1]
      BY DEF PointsBack
    <2>1. Len(s) \in Nat /\ i \in 1..Len(s) /\ s[i] \in Key /\ s # <<>>
      BY SeqFacts
    <2>2. i # 1 => i > 1
      BY <2>1
    <2> QED
      BY <2>1, <2>2 DEF Backs, Field
  <1>8. ASSUME NEW b \in DOMAIN h.buckets
        PROVE  LET c == InBucket(h, b)
               IN  /\ h.buckets[b].count = Len(c)
                   /\ PointsBack(c, h.hh_prev)
                   /\ \A i \in DOMAIN c : Bucket(h, c[i]) = b
    <2> DEFINE c == chains[b]
    <2>1. ChainOf(h, b, c) /\ \A x \in ToSet(c) : Hash[x] % n = b /\ x \in Key
      BY <1>5, <1>6 DEF Chained
    <2>2. InBucket(h, b) = c
      BY <1>4, <2>1, InBucketIs
    <2> HIDE DEF c
    <2>3. /\ h.buckets[b].count = Len(c) /\ c \in Seq(Key) /\ Backs(h.hh_prev, c)
          /\ c # <<>> => h.hh_prev[c[1]] = NULL
      BY <2>1 DEF ChainOf
    <2>4. PointsBack(c, h.hh_prev)
      <3>1. h.hh_prev \in Field
        BY <1>4 DEF TableType
      <3> QED
        BY <1>7, <2>3, <3>1
    <2>5. \A i \in DOMAIN c : Bucket(h, c[i]) = b
      <3>1. \A i \in DOMAIN c : c[i] \in ToSet(c)
        BY <2>3, SeqFacts
      <3>2. \A x \in Key : Bucket(h, x) = Hash[x] % n
        BY <1>6, BucketIs
      <3> QED
        BY <2>1, <3>1, <3>2
    <2> QED
      BY <2>2, <2>3, <2>4, <2>5
  <1>9. Len(Items(h)) = h.num_items
    <2>1. Len(Items(h)) = Cardinality(ToSet(order))
      BY <1>4, <1>5, ItemsIs
    <2>2. Len(order) = Cardinality(ToSet(order))
      BY <1>4, OnceLen DEF Ordered
    <2> QED
      BY <1>4, <2>1, <2>2 DEF Ordered
  <1>10. PointsBack(order, h.prev)
    <2>1. h.prev \in Field
      BY <1>4 DEF TableType
    <2> QED
      BY <1>4, <1>7, <2>1 DEF Ordered
  <1>11. Len(order) = h.num_items /\ h.tail = order[Len(order)]
    BY <1>2, <1>4 DEF Ordered
  <1> QED
    BY <1>3, <1>8, <1>9, <1>10, <1>11 DEF Sound

(***************************************************************************)
(* What the state of Registry stands for                                   *)
(***************************************************************************)

\* What ps_unsubscribe_all has still to free
Dropping(list, s, first) ==
    /\ list \in ListType(Topic)
    /\ s \in Seq(Topic) /\ Once(s)
    /\ Leads(list.next, s, first)
    /\ \A n \in Topic : n \notin ToSet(s) => list.next[n] = Garbage

\* The topics of su are those of s, and its list is as far as the holder of the
\* lock has come with it.
ListIs(c, su, list, s) ==
    /\ c.op = "unsubscribe_all" /\ c.su = su => Dropping(list, s, c.s)
    /\ c.op = "subscribe" /\ c.su = su => /\ Linking(list, s, Topic)
                                          /\ s # <<>> /\ s[Len(s)] = c.topic
    /\ (c.op \in {"subscribe", "unsubscribe_all"} => c.su # su) => Holds(list, s, Topic)

Loop == {"push_child_sticky", "clean_sticky"}

CSType ==
    {NoCS}
    \cup [op : {"subscribe"}, su : Sub, topic : Topic, children : BOOLEAN]
    \cup [op : {"unsubscribe_all"}, su : Sub, s : Topic \cup {NULL}]
    \cup [op : Loop, prefix : Topic \cup {<<>>}, el : Topic \cup {NULL},
          done : SUBSET Topic, tmp : Topic \cup {NULL}]

WalkType == [at : Topic \cup {NULL, Garbage}, count : Nat, least : Nat, su : Sub \cup {NULL},
             apart : BOOLEAN]

\* A list of subscribers for every topic, a list of topics for every subscriber
UsersAre(users, u) ==
    /\ users \in [Topic -> ListType(Sub)] /\ u \in [Topic -> Seq(Sub)]
    /\ \A t \in Topic : Holds(users[t], u[t], Sub)

ListsAre(c, lists, l) ==
    /\ lists \in [Sub -> ListType(Topic)] /\ l \in [Sub -> Seq(Topic)]
    /\ \A su \in Sub : ListIs(c, su, lists[su], l[su])

\* The lists of topics and the lists of subscribers say the same.
Mirrors(u, l) == \A su \in Sub, t \in Topic : su \in ToSet(u[t]) <=> t \in ToSet(l[su])

\* A topic is there while somebody needs it.
Present(o, u, keeps) == \A t \in Topic : t \in ToSet(o) <=> u[t] # <<>> \/ keeps[t]

At(s, i) == IF i \in 1..Len(s) THEN s[i] ELSE NULL

\* A loop over the table is at the p-th element.
LoopAt(c, o, keeps, p) ==
    /\ c.el = At(o, p) /\ c.tmp = At(o, p + 1)
    /\ c.op = "push_child_sticky" =>
         \A t \in Topic : t \in c.done <=> /\ keeps[t] /\ HasPrefix(t, c.prefix)
                                           /\ \E i \in 1..Len(o) : i < p /\ t = o[i]
    /\ c.op = "clean_sticky" =>
         \A i \in 1..Len(o) : i < p => ~(keeps[o[i]] /\ HasPrefix(o[i], c.prefix))

Iterates(c, o, keeps) == c.op \in Loop => \E p \in 1..(Len(o) + 1) : LoopAt(c, o, keeps, p)

\* ps_num_subs has come as far in the list s as it has counted.
WalkIn(w, s) ==
    /\ w.least <= Len(s)
    /\ \/ w.at = NULL /\ w.least <= w.count /\ w.count <= Len(s)
       \/ w.count < Len(s) /\ w.at = s[w.count + 1]

\* It is said of a walk that no unsubscribing has disturbed.
Walks(w, c, l) ==
    w # NoWalk => /\ w.su \in Sub
                  /\ w.apart => /\ ~(c.op = "unsubscribe_all" /\ c.su = w.su)
                                /\ WalkIn(w, l[w.su])

\* The state stands for the topics o, their subscribers u and the lists l.
StandsFor(tm, users, keeps, lists, c, w, o, u, l) ==
    /\ TableIs(tm, o)
    /\ UsersAre(users, u)
    /\ keeps \in [Topic -> BOOLEAN]
    /\ ListsAre(c, lists, l)
    /\ c \in CSType
    /\ w \in WalkType /\ Walks(w, c, l)
    /\ Mirrors(u, l)
    /\ Present(o, u, keeps)
    /\ Iterates(c, o, keeps)

\* The inductive invariant
RegistryInv ==
    \E o, u, l : StandsFor(topic_map, subscribers, sticky, subs, cs, walk, o, u, l)

LEMMA SubNodes == Nodes(Sub) /\ Nodes(Topic)
  BY HashAssumption, RegistryAssumption DEF Nodes, Key, Topic

LEMMA ContainsIs ==
    ASSUME NEW N, NEW s \in Seq(N), NEW x
    PROVE  Contains(s, x) <=> x \in ToSet(s)
  <1>1. DOMAIN s = 1..Len(s)
    BY SeqFacts
  <1> QED
    BY <1>1 DEF Contains, ToSet

\* r is s without x, which is the p-th element.
Removal(s, x, r, p, N) ==
    /\ p \in 1..Len(s) /\ s[p] = x /\ r = Without(s, p)
    /\ r \in Seq(N) /\ Once(r) /\ ToSet(r) = ToSet(s) \ {x} /\ Len(r) = Len(s) - 1

LEMMA RemoveIs ==
    ASSUME NEW N, NEW s \in Seq(N), Once(s), NEW x \in ToSet(s)
    PROVE  \E p : Removal(s, x, RemoveFirst(s, x), p, N)
  <1>1. PICK p \in 1..Len(s) : x = s[p]
    BY SeqFacts
  <1>2. /\ Without(s, p) \in Seq(N) /\ Len(Without(s, p)) = Len(s) - 1 /\ Once(Without(s, p))
        /\ ToSet(Without(s, p)) = ToSet(s) \ {s[p]}
        /\ RemoveFirst(s, s[p]) = Without(s, p)
    BY WithoutIs
  <1>3. Removal(s, x, RemoveFirst(s, x), p, N)
    BY <1>1, <1>2 DEF Removal
  <1> QED
    BY <1>3

LEMMA FindsIs ==
    ASSUME NEW N, Nodes(N), NEW l, NEW s, Linking(l, s, N), NEW n
    PROVE  DL_FINDS(l, n) <=> n \in ToSet(s)
  <1>1. DL_FOREACH(l) = s
    BY LinkingIterates
  <1>2. s \in Seq(N)
    BY DEF Linking
  <1>3. DOMAIN s = 1..Len(s) /\ \A i \in 1..Len(s) : s[i] \in ToSet(s)
    BY <1>2, SeqFacts
  <1>4. \A x \in ToSet(s) : \E i \in 1..Len(s) : x = s[i]
    BY <1>2, SeqFacts
  <1> QED
    BY <1>1, <1>3, <1>4 DEF DL_FINDS

LEMMA RemoveHolds ==
    ASSUME NEW N, Nodes(N), NEW l, NEW s, Holds(l, s, N), NEW x \in ToSet(s)
    PROVE  Holds(Removed(l, x), RemoveFirst(s, x), N)
  <1>1. s \in Seq(N) /\ Once(s)
    BY DEF Holds, Linking
  <1>2. PICK p : Removal(s, x, RemoveFirst(s, x), p, N)
    BY <1>1, RemoveIs
  <1>3. p \in 1..Len(s) /\ s[p] = x /\ RemoveFirst(s, x) = Without(s, p)
    BY <1>2 DEF Removal
  <1>4. Holds(Removed(l, s[p]), Without(s, p), N)
    BY <1>3, RemovedHolds
  <1> QED
    BY <1>3, <1>4

\* DL_APPEND
LEMMA AppendHolds ==
    ASSUME NEW N, Nodes(N), NEW l, NEW s, Holds(l, s, N), NEW n \in N, n \notin ToSet(s)
    PROVE  Holds(DL_APPEND(Calloc(l, n), n), Append(s, n), N)
  <1> DEFINE m == Linked(Calloc(l, n), n)
             t == Append(s, n)
  <1>1. Linking(m, t, N)
    BY LinkedLinks
  <1>2. s \in Seq(N) /\ Once(s)
    BY DEF Holds, Linking
  <1>3. t # <<>> /\ t[Len(t)] = n
    BY <1>2, AppendIs
  <1> HIDE DEF m, t
  <1>4. Holds(Settled(m, t[Len(t)]), t, N)
    BY <1>1, <1>3, SettledHolds
  <1> QED
    BY <1>3, <1>4 DEF DL_APPEND, m, t

\* o with t, and o without t unless it stays
Joined(o, t) == IF t \in ToSet(o) THEN o ELSE Append(o, t)
Parted(o, t, stays) == IF stays THEN o ELSE RemoveFirst(o, t)

LEMMA JoinedIs ==
    ASSUME NEW N, NEW o \in Seq(N), Once(o), NEW t \in N
    PROVE  ToSet(Joined(o, t)) = ToSet(o) \cup {t}
  <1>1. CASE t \in ToSet(o)
    BY <1>1 DEF Joined
  <1>2. CASE t \notin ToSet(o)
    BY <1>2, AppendIs DEF Joined
  <1> QED
    BY <1>1, <1>2

LEMMA PartedIs ==
    ASSUME NEW N, NEW o \in Seq(N), Once(o), NEW t \in ToSet(o), NEW stays \in BOOLEAN
    PROVE  ToSet(Parted(o, t, stays)) = IF stays THEN ToSet(o) ELSE ToSet(o) \ {t}
  <1>1. PICK p : Removal(o, t, RemoveFirst(o, t), p, N)
    BY RemoveIs
  <1>2. ToSet(RemoveFirst(o, t)) = ToSet(o) \ {t}
    BY <1>1 DEF Removal
  <1> QED
    BY <1>2 DEF Parted

\* fetch_topic_create_if_not_exist
LEMMA CreatedIs ==
    ASSUME NEW o, TableIs(topic_map, o), NEW t \in Topic
    PROVE  TableIs(Created(t), Joined(o, t))
  <1>1. t \in Key /\ t # NULL
    BY SubNodes DEF Topic, Nodes
  <1>2. HASH_FIND(topic_map, t) = IF t \in ToSet(o) THEN t ELSE NULL
    BY <1>1, FindIs
  <1>3. CASE t \in ToSet(o)
    BY <1>1, <1>2, <1>3 DEF Created, Joined
  <1>4. CASE t \notin ToSet(o)
    <2>1. TableIs(HASH_ADD(HashCalloc(topic_map, t), t), Append(o, t))
      BY <1>1, <1>4, AddIs
    <2> QED
      BY <1>2, <1>4, <2>1 DEF Created, Joined
  <1> QED
    BY <1>3, <1>4

\* free_topic_if_empty
LEMMA FreedIs ==
    ASSUME NEW o, TableIs(topic_map, o), NEW t \in ToSet(o),
           NEW users, NEW s, Holds(users, s, Sub), NEW keeps \in BOOLEAN
    PROVE  TableIs(FreedIfEmpty(t, users, keeps), Parted(o, t, s # <<>> \/ keeps))
  <1>1. users.head = NULL <=> s = <<>>
    <2>1. s \in Seq(Sub) /\ users.head = IF s = <<>> THEN NULL ELSE s[1]
      BY DEF Holds, Linking, Leads
    <2>2. s # <<>> => s[1] \in Sub
      BY <2>1, SeqFacts
    <2> QED
      BY <2>1, <2>2, SubNodes DEF Nodes
  <1>2. CASE s # <<>> \/ keeps
    BY <1>1, <1>2 DEF FreedIfEmpty, Parted
  <1>3. CASE ~(s # <<>> \/ keeps)
    <2>1. o \in Seq(Key) /\ Once(o)
      BY DEF TableIs, Ordered
    <2>2. PICK p : Removal(o, t, RemoveFirst(o, t), p, Key)
      BY <2>1, RemoveIs
    <2>3. p \in 1..Len(o) /\ o[p] = t /\ RemoveFirst(o, t) = Without(o, p)
      BY <2>2 DEF Removal
    <2>4. TableIs(HashFree(HASH_DEL(topic_map, o[p]), o[p]), Without(o, p))
      BY <2>3, DelIs
    <2>5. FreedIfEmpty(t, users, keeps) = HashFree(HASH_DEL(topic_map, t), t)
      BY <1>1, <1>3 DEF FreedIfEmpty
    <2>6. Parted(o, t, s # <<>> \/ keeps) = RemoveFirst(o, t)
      BY <1>3 DEF Parted
    <2> QED
      BY <2>3, <2>4, <2>5, <2>6
  <1> QED
    BY <1>2, <1>3

(***************************************************************************)
(* Parts of the invariant, and what a change of one topic or of one        *)
(* subscriber does to them                                                 *)
(***************************************************************************)

LEMMA UsersStep ==
    ASSUME NEW users, NEW u, UsersAre(users, u), NEW t \in Topic, NEW new, NEW s, Holds(new, s, Sub)
    PROVE  UsersAre([users EXCEPT ![t] = new], [u EXCEPT ![t] = s])
  <1>1. new \in ListType(Sub) /\ s \in Seq(Sub)
    BY DEF Holds, Linking
  <1> QED
    BY <1>1 DEF UsersAre

\* c says that the list of su is between two stores.
Busy(c, su) == c.op \in {"subscribe", "unsubscribe_all"} /\ c.su = su

LEMMA ListsStep ==
    ASSUME NEW c, NEW lists, NEW l, ListsAre(c, lists, l), NEW su \in Sub, NEW d,
           NEW new \in ListType(Topic), NEW s \in Seq(Topic), ListIs(d, su, new, s),
           \A x \in Sub : x # su => ~Busy(c, x) /\ ~Busy(d, x)
    PROVE  ListsAre(d, [lists EXCEPT ![su] = new], [l EXCEPT ![su] = s])
  <1> DEFINE lists2 == [lists EXCEPT ![su] = new]
             l2 == [l EXCEPT ![su] = s]
  <1>1. lists \in [Sub -> ListType(Topic)] /\ l \in [Sub -> Seq(Topic)]
    BY DEF ListsAre
  <1>2. /\ lists2 \in [Sub -> ListType(Topic)] /\ l2 \in [Sub -> Seq(Topic)]
        /\ lists2[su] = new /\ l2[su] = s
        /\ \A x \in Sub : x # su => lists2[x] = lists[x] /\ l2[x] = l[x]
    BY <1>1
  <1> HIDE DEF lists2, l2
  <1>3. ASSUME NEW x \in Sub, x # su PROVE ListIs(d, x, lists2[x], l2[x])
    <2>1. ~Busy(c, x) /\ ~Busy(d, x) /\ ListIs(c, x, lists[x], l[x])
      BY <1>3 DEF ListsAre
    <2> QED
      BY <1>2, <1>3, <2>1 DEF ListIs, Busy
  <1>4. ListsAre(d, lists2, l2)
    BY <1>2, <1>3 DEF ListsAre
  <1> QED
    BY <1>4 DEF lists2, l2

\* The holder of the lock goes on, and no list is between two stores.
LEMMA ListsIdle ==
    ASSUME NEW c, NEW lists, NEW l, ListsAre(c, lists, l), NEW d,
           \A x \in Sub : ~Busy(c, x) /\ ~Busy(d, x)
    PROVE  ListsAre(d, lists, l)
  <1>1. ASSUME NEW x \in Sub PROVE ListIs(d, x, lists[x], l[x])
    <2>1. ~Busy(c, x) /\ ~Busy(d, x) /\ ListIs(c, x, lists[x], l[x])
      BY DEF ListsAre
    <2> QED
      BY <2>1 DEF ListIs, Busy
  <1> QED
    BY <1>1 DEF ListsAre

LEMMA MirrorsStep ==
    ASSUME NEW u \in [Topic -> Seq(Sub)], NEW l \in [Sub -> Seq(Topic)], Mirrors(u, l),
           NEW su \in Sub, NEW t \in Topic, NEW s, NEW r,
           su \in ToSet(s) <=> t \in ToSet(r),
           \A x \in Sub : x # su => (x \in ToSet(s) <=> x \in ToSet(u[t])),
           \A x \in Topic : x # t => (x \in ToSet(r) <=> x \in ToSet(l[su]))
    PROVE  Mirrors([u EXCEPT ![t] = s], [l EXCEPT ![su] = r])
  BY DEF Mirrors

Now(o, u, l)  == StandsFor(topic_map, subscribers, sticky, subs, cs, walk, o, u, l)
Then(o, u, l) == StandsFor(topic_map', subscribers', sticky', subs', cs', walk', o, u, l)

LEMMA NowFacts ==
    ASSUME NEW o, NEW u, NEW l, Now(o, u, l)
    PROVE  /\ TableIs(topic_map, o) /\ o \in Seq(Topic) /\ Once(o)
           /\ UsersAre(subscribers, u) /\ ListsAre(cs, subs, l)
           /\ subscribers \in [Topic -> ListType(Sub)] /\ u \in [Topic -> Seq(Sub)]
           /\ subs \in [Sub -> ListType(Topic)] /\ l \in [Sub -> Seq(Topic)]
           /\ sticky \in [Topic -> BOOLEAN]
           /\ cs \in CSType /\ walk \in WalkType /\ Walks(walk, cs, l)
           /\ Mirrors(u, l) /\ Present(o, u, sticky) /\ Iterates(cs, o, sticky)
  BY DEF Now, StandsFor, TableIs, Ordered, UsersAre, ListsAre, Topic

\* Every sequence has no element twice.
LEMMA NowOnce ==
    ASSUME NEW o, NEW u, NEW l, Now(o, u, l)
    PROVE  /\ \A t \in Topic : Once(u[t]) /\ Holds(subscribers[t], u[t], Sub)
           /\ \A su \in Sub : Once(l[su]) /\ ListIs(cs, su, subs[su], l[su])
  <1>1. \A t \in Topic : Once(u[t]) /\ Holds(subscribers[t], u[t], Sub)
    BY DEF Now, StandsFor, UsersAre, Holds, Linking
  <1>2. ASSUME NEW su \in Sub PROVE Once(l[su]) /\ ListIs(cs, su, subs[su], l[su])
    <2>1. ListIs(cs, su, subs[su], l[su])
      BY DEF Now, StandsFor, ListsAre
    <2>2. Once(l[su])
      BY <2>1 DEF ListIs, Holds, Linking, Dropping
    <2> QED
      BY <2>1, <2>2
  <1> QED
    BY <1>1, <1>2

\* What the lock is held for
LEMMA NoneBusy ==
    /\ NoCS \in CSType /\ \A x : ~Busy(NoCS, x)
    /\ NoCS.op \notin Loop /\ NoCS.op # "unsubscribe_all" /\ NoCS.op # "subscribe"
  BY DEF NoCS, CSType, Busy, Loop

LEMMA LoopFields ==
    ASSUME NEW c \in CSType, c.op \in Loop
    PROVE  /\ c \in [op : Loop, prefix : Topic \cup {<<>>}, el : Topic \cup {NULL},
                     done : SUBSET Topic, tmp : Topic \cup {NULL}]
           /\ \A x : ~Busy(c, x)
           /\ c.op # "unsubscribe_all"
  BY DEF CSType, NoCS, Loop, Busy

LEMMA SubscribeFields ==
    ASSUME NEW c \in CSType, c.op = "subscribe"
    PROVE  c.su \in Sub /\ c.topic \in Topic /\ c.children \in BOOLEAN
  BY DEF CSType, NoCS, Loop

LEMMA UnsubscribeFields ==
    ASSUME NEW c \in CSType, c.op = "unsubscribe_all"
    PROVE  /\ c \in [op : {"unsubscribe_all"}, su : Sub, s : Topic \cup {NULL}]
           /\ c.su \in Sub /\ c.s \in Topic \cup {NULL}
  BY DEF CSType, NoCS, Loop

\* HASH_ITER reads where it is in the order.
LEMMA NextIs ==
    ASSUME NEW h, NEW o, TableIs(h, o)
    PROVE  /\ h.head = At(o, 1)
           /\ \A i \in 1..Len(o) : o[i] \in Topic /\ o[i] # NULL /\ h.next[o[i]] = At(o, i + 1)
  <1>1. o \in Seq(Key) /\ Leads(h.next, o, h.head)
    BY DEF TableIs, Ordered
  <1>2. /\ Len(o) \in Nat /\ (o = <<>> <=> Len(o) = 0)
        /\ \A i \in 1..Len(o) : o[i] \in Topic /\ o[i] # NULL
    BY <1>1, SeqFacts, KeyNodes DEF Topic, Nodes
  <1>3. h.head = At(o, 1)
    BY <1>1, <1>2 DEF At, Leads
  <1>4. ASSUME NEW i \in 1..Len(o) PROVE h.next[o[i]] = At(o, i + 1)
    <2>1. i + 1 \in 1..Len(o) <=> i # Len(o)
      BY <1>2
    <2> QED
      BY <1>1, <2>1 DEF At, Leads
  <1> QED
    BY <1>2, <1>3, <1>4

LEMMA AtType ==
    ASSUME NEW s \in Seq(Topic), NEW i
    PROVE  At(s, i) \in Topic \cup {NULL} /\ (At(s, i) = NULL <=> i \notin 1..Len(s))
  <1>1. \A j \in 1..Len(s) : s[j] \in Topic /\ s[j] # NULL
    BY SeqFacts, SubNodes DEF Nodes
  <1> QED
    BY <1>1 DEF At

\* HASH_ITER begins.
Begins(c, o, keeps, op) ==
    /\ c \in CSType /\ Iterates(c, o, keeps) /\ c.op = op /\ \A x : ~Busy(c, x)

LEMMA IterBegins ==
    ASSUME NEW o, TableIs(topic_map, o), NEW keeps, NEW op \in Loop, NEW prefix \in Topic \cup {<<>>}
    PROVE  Begins(Iterating(op, prefix), o, keeps, op)
  <1> DEFINE c == Iterating(op, prefix)
  <1>1. o \in Seq(Topic) /\ Len(o) \in Nat
    BY SeqFacts DEF TableIs, Ordered, Topic
  <1>2. topic_map.head = At(o, 1)
    BY NextIs
  <1>3. (IF topic_map.head = NULL THEN NULL ELSE topic_map.next[topic_map.head]) = At(o, 2)
    <2>1. CASE 1 \in 1..Len(o)
      <3>1. At(o, 1) = o[1] /\ o[1] # NULL /\ topic_map.next[o[1]] = At(o, 1 + 1)
        BY <2>1, NextIs DEF At
      <3> QED
        BY <1>2, <3>1
    <2>2. CASE 1 \notin 1..Len(o)
      <3>1. 2 \notin 1..Len(o)
        BY <1>1, <2>2
      <3> QED
        BY <1>2, <2>2, <3>1 DEF At
    <2> QED
      BY <2>1, <2>2
  <1>4. c = [op |-> op, prefix |-> prefix, el |-> At(o, 1), done |-> {}, tmp |-> At(o, 2)]
    BY <1>2, <1>3 DEF Iterating
  <1>5. At(o, 1) \in Topic \cup {NULL} /\ At(o, 2) \in Topic \cup {NULL}
    BY <1>1, AtType
  <1> HIDE DEF c
  <1>6. /\ c.op = op /\ c.prefix = prefix /\ c.el = At(o, 1) /\ c.done = {} /\ c.tmp = At(o, 2)
        /\ c \in CSType
    BY <1>4, <1>5 DEF CSType
  <1>7. \A x : ~Busy(c, x)
    BY <1>6, LoopFields
  <1>8. LoopAt(c, o, keeps, 1)
    <2>1. \A i \in 1..Len(o) : ~(i < 1)
      BY <1>1
    <2>2. 1 + 1 = 2
      OBVIOUS
    <2> QED
      BY <1>6, <2>1, <2>2 DEF LoopAt
  <1>9. 1 \in 1..(Len(o) + 1)
    BY <1>1
  <1>10. Iterates(c, o, keeps)
    BY <1>8, <1>9 DEF Iterates
  <1> QED
    BY <1>6, <1>7, <1>10 DEF Begins, c

\* The walk of ps_num_subs goes on in a longer list.
LEMMA WalkAppend ==
    ASSUME NEW w \in WalkType, NEW s \in Seq(Topic), NEW t \in Topic, WalkIn(w, s)
    PROVE  WalkIn(w, Append(s, t))
  <1> DEFINE r == Append(s, t)
  <1>1. w.count \in Nat /\ w.least \in Nat /\ Len(s) \in Nat
    BY SeqFacts DEF WalkType
  <1>2. Len(r) = Len(s) + 1 /\ \A i \in 1..Len(s) : r[i] = s[i]
    BY AppendProperties
  <1> HIDE DEF r
  <1>3. w.least <= Len(r)
    BY <1>1, <1>2 DEF WalkIn
  <1>4. CASE w.at = NULL /\ w.least <= w.count /\ w.count <= Len(s)
    <2>1. w.count <= Len(r)
      BY <1>1, <1>2, <1>4
    <2> QED
      BY <1>3, <1>4, <2>1 DEF WalkIn, r
  <1>5. CASE w.count < Len(s) /\ w.at = s[w.count + 1]
    <2>1. w.count < Len(r) /\ w.count + 1 \in 1..Len(s)
      BY <1>1, <1>2, <1>5
    <2> QED
      BY <1>2, <1>3, <1>5, <2>1 DEF WalkIn, r
  <1> QED
    BY <1>4, <1>5 DEF WalkIn

\* A walk is of a subscriber.
LEMMA WalkFacts ==
    ASSUME NEW c, NEW l, Walks(walk, c, l), walk # NoWalk
    PROVE  /\ walk.su \in Sub /\ walk.su # NULL
           /\ walk.apart => /\ WalkIn(walk, l[walk.su])
                            /\ ~(c.op = "unsubscribe_all" /\ c.su = walk.su)
  BY SubNodes DEF Walks, Nodes

\* Nothing is said of a disturbed walk, and the others are of other subscribers.
LEMMA DisturbedIs ==
    ASSUME NEW c, NEW l, walk \in WalkType, Walks(walk, c, l), NEW su \in Sub,
           NEW c2, c2.op = "unsubscribe_all" => c2.su = su,
           NEW l2, \A x \in Sub : x # su => l2[x] = l[x]
    PROVE  Disturbed(su) \in WalkType /\ Walks(Disturbed(su), c2, l2)
  <1>1. CASE walk.su = su
    <2>1. PICK w : w = Disturbed(su)
      OBVIOUS
    <2>2. w = [walk EXCEPT !.apart = FALSE, !.count = 0, !.least = 0]
      BY <1>1, <2>1 DEF Disturbed
    <2>3. w \in WalkType /\ w.su = su /\ w.apart = FALSE
      BY <1>1, <2>2 DEF WalkType
    <2>4. Walks(w, c2, l2)
      BY <2>3 DEF Walks
    <2> QED
      BY <2>1, <2>3, <2>4
  <1>2. CASE walk.su # su
    <2>1. Disturbed(su) = walk
      BY <1>2 DEF Disturbed
    <2>2. Walks(walk, c2, l2)
      BY <1>2 DEF Walks
    <2> QED
      BY <2>1, <2>2
  <1> QED
    BY <1>1, <1>2

(***************************************************************************)
(* Subscriptions                                                           *)
(***************************************************************************)

LEMMA SubscribeStep ==
    ASSUME NEW o, NEW u, NEW l, Now(o, u, l), NEW su \in Sub, NEW t \in Topic,
           NEW children \in BOOLEAN, Subscribe(su, t, children)
    PROVE  /\ t \notin ToSet(l[su])
           /\ Then(Joined(o, t), [u EXCEPT ![t] = Append(u[t], su)],
                                 [l EXCEPT ![su] = Append(l[su], t)])
  <1> DEFINE s == u[t]
             r == l[su]
             s2 == Append(s, su)
             r2 == Append(r, t)
             u2 == [u EXCEPT ![t] = s2]
             l2 == [l EXCEPT ![su] = r2]
             o2 == Joined(o, t)
  <1>1. /\ TableIs(topic_map, o) /\ o \in Seq(Topic) /\ Once(o)
        /\ UsersAre(subscribers, u) /\ ListsAre(cs, subs, l)
        /\ subscribers \in [Topic -> ListType(Sub)] /\ u \in [Topic -> Seq(Sub)]
        /\ subs \in [Sub -> ListType(Topic)] /\ l \in [Sub -> Seq(Topic)]
        /\ sticky \in [Topic -> BOOLEAN]
        /\ cs \in CSType /\ walk \in WalkType /\ Walks(walk, cs, l)
        /\ Mirrors(u, l) /\ Present(o, u, sticky)
    BY NowFacts
  <1>2. /\ Once(s) /\ Holds(subscribers[t], s, Sub)
        /\ Once(r) /\ ListIs(cs, su, subs[su], r) /\ s \in Seq(Sub) /\ r \in Seq(Topic)
    BY <1>1, NowOnce
  <1>3. /\ cs = NoCS /\ ~DL_FINDS(subscribers[t], su)
        /\ topic_map' = Created(t)
        /\ subscribers' = [subscribers EXCEPT ![t] = DL_APPEND(Calloc(subscribers[t], su), su)]
        /\ subs' = [subs EXCEPT ![su] = Linked(Calloc(subs[su], t), t)]
        /\ cs' = [op |-> "subscribe", su |-> su, topic |-> t, children |-> children]
        /\ sticky' = sticky /\ walk' = walk
    BY DEF Subscribe
  <1>4. su \notin ToSet(s)
    <2>1. Linking(subscribers[t], s, Sub)
      BY <1>2 DEF Holds
    <2> QED
      BY <1>3, <2>1, FindsIs, SubNodes
  <1>5. t \notin ToSet(r)
    BY <1>1, <1>4 DEF Mirrors
  <1>6. s2 \in Seq(Sub) /\ ToSet(s2) = ToSet(s) \cup {su} /\ s2 # <<>>
    BY <1>2, <1>4, AppendIs
  <1>7. r2 \in Seq(Topic) /\ ToSet(r2) = ToSet(r) \cup {t} /\ r2 # <<>> /\ r2[Len(r2)] = t
    BY <1>2, <1>5, AppendIs
  <1>8. Holds(subs[su], r, Topic)
    BY <1>2, <1>3, NoneBusy DEF ListIs, Busy
  <1>9. Holds(DL_APPEND(Calloc(subscribers[t], su), su), s2, Sub)
    BY <1>2, <1>4, AppendHolds, SubNodes
  <1>10. Linking(Linked(Calloc(subs[su], t), t), r2, Topic)
    BY <1>5, <1>8, LinkedLinks, SubNodes
  <1> HIDE DEF s2, r2, o2
  <1>11. UsersAre(subscribers', u2)
    BY <1>1, <1>3, <1>9, UsersStep
  <1>12. /\ cs' \in CSType /\ cs'.op = "subscribe" /\ cs'.su = su /\ cs'.topic = t
         /\ \A x : x # su => ~Busy(cs', x)
    BY <1>3 DEF CSType, Busy
  <1>13. ListsAre(cs', subs', l2)
    <2> DEFINE new == Linked(Calloc(subs[su], t), t)
    <2>1. Linking(new, r2, Topic) /\ subs' = [subs EXCEPT ![su] = new]
      BY <1>3, <1>10
    <2> HIDE DEF new
    <2>2. new \in ListType(Topic)
      BY <2>1 DEF Linking
    <2>3. ListIs(cs', su, new, r2)
      BY <1>7, <1>12, <2>1 DEF ListIs
    <2>4. \A x \in Sub : x # su => ~Busy(cs, x) /\ ~Busy(cs', x)
      BY <1>3, <1>12, NoneBusy
    <2>5. ListsAre(cs', [subs EXCEPT ![su] = new], [l EXCEPT ![su] = r2])
      BY <1>1, <1>7, <2>2, <2>3, <2>4, ListsStep
    <2> QED
      BY <2>1, <2>5
  <1>14. TableIs(topic_map', o2)
    BY <1>1, <1>3, CreatedIs DEF o2
  <1>15. Mirrors(u2, l2)
    BY <1>1, <1>6, <1>7, MirrorsStep
  <1>16. Present(o2, u2, sticky')
    <2>1. ToSet(o2) = ToSet(o) \cup {t}
      BY <1>1, JoinedIs DEF o2
    <2>2. \A x \in Topic : x # t => /\ x \in ToSet(o2) <=> x \in ToSet(o)
                                    /\ u2[x] = u[x] /\ sticky'[x] = sticky[x]
      BY <1>1, <1>3, <2>1
    <2>3. t \in ToSet(o2) /\ u2[t] # <<>>
      BY <1>1, <1>6, <2>1
    <2>4. Present(o, u, sticky)
      BY <1>1
    <2> HIDE DEF u2
    <2> QED
      BY <2>2, <2>3, <2>4 DEF Present
  <1>17. Walks(walk', cs', l2)
    <2>1. SUFFICES ASSUME walk # NoWalk
                   PROVE  walk.su \in Sub /\ (walk.apart => WalkIn(walk, l2[walk.su]))
      BY <1>3, <1>12 DEF Walks
    <2>2. walk.su \in Sub /\ (walk.apart => WalkIn(walk, l[walk.su]))
      BY <1>1, <2>1, WalkFacts
    <2>3. CASE walk.su = su
      <3>1. walk.apart => WalkIn(walk, r2)
        BY <1>1, <1>2, <2>2, <2>3, WalkAppend DEF r2
      <3> QED
        BY <1>1, <2>2, <2>3, <3>1
    <2>4. CASE walk.su # su
      BY <1>1, <2>2, <2>4
    <2> QED
      BY <2>2, <2>3, <2>4
  <1>18. Iterates(cs', o2, sticky')
    BY <1>12 DEF Iterates, Loop
  <1> HIDE DEF u2, l2
  <1>19. walk' \in WalkType /\ sticky' \in [Topic -> BOOLEAN]
    BY <1>1, <1>3
  <1>20. Then(o2, u2, l2)
    BY <1>11, <1>12, <1>13, <1>14, <1>15, <1>16, <1>17, <1>18, <1>19 DEF Then, StandsFor
  <1> QED
    BY <1>5, <1>20 DEF o2, u2, l2, s2, r2

LEMMA SubscribeEndsStep ==
    ASSUME NEW o, NEW u, NEW l, Now(o, u, l), SubscribeEnds
    PROVE  Then(o, u, l)
  <1> DEFINE su == cs.su
             r == l[su]
             new == Settled(subs[su], cs.topic)
  <1>1. /\ TableIs(topic_map, o) /\ o \in Seq(Topic) /\ Once(o)
        /\ UsersAre(subscribers, u) /\ ListsAre(cs, subs, l)
        /\ subs \in [Sub -> ListType(Topic)] /\ l \in [Sub -> Seq(Topic)]
        /\ sticky \in [Topic -> BOOLEAN]
        /\ cs \in CSType /\ walk \in WalkType /\ Walks(walk, cs, l)
        /\ Mirrors(u, l) /\ Present(o, u, sticky)
    BY NowFacts
  <1>2. /\ cs.op = "subscribe"
        /\ subs' = [subs EXCEPT ![su] = new]
        /\ cs' = IF cs.children THEN Iterating("push_child_sticky", cs.topic) ELSE NoCS
        /\ topic_map' = topic_map /\ subscribers' = subscribers
        /\ sticky' = sticky /\ walk' = walk
    BY DEF SubscribeEnds
  <1>3. su \in Sub /\ cs.topic \in Topic
    BY <1>1, <1>2, SubscribeFields
  <1>4. /\ cs' \in CSType /\ cs'.op # "unsubscribe_all" /\ Iterates(cs', o, sticky)
        /\ \A x : ~Busy(cs', x)
    <2>1. CASE cs.children
      <3>1. Begins(Iterating("push_child_sticky", cs.topic), o, sticky, "push_child_sticky")
        BY <1>1, <1>3, IterBegins DEF Loop
      <3> QED
        BY <1>2, <2>1, <3>1 DEF Begins
    <2>2. CASE ~cs.children
      BY <1>2, <2>2, NoneBusy DEF Iterates
    <2> QED
      BY <2>1, <2>2
  <1>5. Holds(new, r, Topic)
    <2>1. Linking(subs[su], r, Topic) /\ r # <<>> /\ r[Len(r)] = cs.topic
      <3>1. ListIs(cs, su, subs[su], r)
        BY <1>3, NowOnce
      <3> QED
        BY <1>2, <3>1 DEF ListIs
    <2>2. Holds(Settled(subs[su], r[Len(r)]), r, Topic)
      BY <2>1, SettledHolds, SubNodes
    <2> QED
      BY <2>1, <2>2
  <1> HIDE DEF new
  <1>6. ListsAre(cs', subs', l)
    <2>1. new \in ListType(Topic) /\ r \in Seq(Topic)
      BY <1>5 DEF Holds, Linking
    <2>2. ListIs(cs', su, new, r)
      BY <1>4, <1>5 DEF ListIs, Busy
    <2>3. \A x \in Sub : x # su => ~Busy(cs, x) /\ ~Busy(cs', x)
      BY <1>4 DEF Busy
    <2>4. ListsAre(cs', [subs EXCEPT ![su] = new], [l EXCEPT ![su] = r])
      BY <1>1, <1>3, <2>1, <2>2, <2>3, ListsStep
    <2>5. [l EXCEPT ![su] = r] = l
      BY <1>1, <1>3
    <2> QED
      BY <1>2, <2>4, <2>5
  <1>7. Walks(walk', cs', l)
    BY <1>1, <1>2, <1>4 DEF Walks
  <1> QED
    BY <1>1, <1>2, <1>4, <1>6, <1>7 DEF Then, StandsFor

LEMMA UnsubscribeStep ==
    ASSUME NEW o, NEW u, NEW l, Now(o, u, l), NEW su \in Sub, NEW t \in Topic, Unsubscribe(su, t)
    PROVE  /\ t \in ToSet(l[su])
           /\ Then(Parted(o, t, RemoveFirst(u[t], su) # <<>> \/ sticky[t]),
                   [u EXCEPT ![t] = RemoveFirst(u[t], su)],
                   [l EXCEPT ![su] = RemoveFirst(l[su], t)])
  <1> DEFINE s == u[t]
             r == l[su]
             s2 == RemoveFirst(s, su)
             r2 == RemoveFirst(r, t)
             u2 == [u EXCEPT ![t] = s2]
             l2 == [l EXCEPT ![su] = r2]
             o2 == Parted(o, t, s2 # <<>> \/ sticky[t])
             users == Removed(subscribers[t], su)
             list == Removed(subs[su], t)
  <1>1. /\ TableIs(topic_map, o) /\ o \in Seq(Topic) /\ Once(o)
        /\ UsersAre(subscribers, u) /\ ListsAre(cs, subs, l)
        /\ subscribers \in [Topic -> ListType(Sub)] /\ u \in [Topic -> Seq(Sub)]
        /\ subs \in [Sub -> ListType(Topic)] /\ l \in [Sub -> Seq(Topic)]
        /\ sticky \in [Topic -> BOOLEAN]
        /\ cs \in CSType /\ walk \in WalkType /\ Walks(walk, cs, l)
        /\ Mirrors(u, l) /\ Present(o, u, sticky)
    BY NowFacts
  <1>2. /\ Once(s) /\ Holds(subscribers[t], s, Sub)
        /\ Once(r) /\ ListIs(cs, su, subs[su], r) /\ s \in Seq(Sub) /\ r \in Seq(Topic)
    BY <1>1, NowOnce
  <1>3. /\ cs = NoCS /\ DL_FINDS(subscribers[t], su)
        /\ subscribers' = [subscribers EXCEPT ![t] = users]
        /\ topic_map' = FreedIfEmpty(t, subscribers'[t], sticky[t])
        /\ subs' = [subs EXCEPT ![su] = IF DL_FINDS(subs[su], t) THEN list ELSE subs[su]]
        /\ cs' = cs /\ sticky' = sticky /\ walk' = Disturbed(su)
    BY DEF Unsubscribe
  <1>4. su \in ToSet(s)
    <2>1. Linking(subscribers[t], s, Sub)
      BY <1>2 DEF Holds
    <2> QED
      BY <1>3, <2>1, FindsIs, SubNodes
  <1>5. t \in ToSet(r)
    BY <1>1, <1>4 DEF Mirrors
  <1>6. s2 \in Seq(Sub) /\ ToSet(s2) = ToSet(s) \ {su}
    BY <1>2, <1>4, RemoveIs DEF Removal
  <1>7. r2 \in Seq(Topic) /\ ToSet(r2) = ToSet(r) \ {t}
    BY <1>2, <1>5, RemoveIs DEF Removal
  <1>8. Holds(subs[su], r, Topic)
    BY <1>2, <1>3, NoneBusy DEF ListIs, Busy
  <1>9. Holds(users, s2, Sub) /\ Holds(list, r2, Topic)
    BY <1>2, <1>4, <1>5, <1>8, RemoveHolds, SubNodes
  <1>10. subs' = [subs EXCEPT ![su] = list]
    <2>1. Linking(subs[su], r, Topic)
      BY <1>8 DEF Holds
    <2>2. DL_FINDS(subs[su], t)
      BY <1>5, <2>1, FindsIs, SubNodes
    <2> QED
      BY <1>3, <2>2
  <1> HIDE DEF s2, r2, users, list
  <1>11. UsersAre(subscribers', u2)
    BY <1>1, <1>3, <1>9, UsersStep
  <1>12. ListsAre(cs', subs', l2)
    <2>1. list \in ListType(Topic)
      BY <1>9 DEF Holds, Linking
    <2>2. ListIs(cs, su, list, r2)
      BY <1>3, <1>9, NoneBusy DEF ListIs
    <2>3. \A x \in Sub : x # su => ~Busy(cs, x) /\ ~Busy(cs, x)
      BY <1>3, NoneBusy
    <2>4. ListsAre(cs, [subs EXCEPT ![su] = list], [l EXCEPT ![su] = r2])
      BY <1>1, <1>7, <2>1, <2>2, <2>3, ListsStep
    <2> QED
      BY <1>3, <1>10, <2>4
  <1>13. s # <<>> /\ t \in ToSet(o)
    <2>1. s # <<>>
      BY <1>4 DEF ToSet
    <2> QED
      BY <1>1, <2>1 DEF Present
  <1>14. TableIs(topic_map', o2)
    <2>1. subscribers'[t] = users /\ sticky[t] \in BOOLEAN
      BY <1>1, <1>3
    <2>2. TableIs(FreedIfEmpty(t, users, sticky[t]), Parted(o, t, s2 # <<>> \/ sticky[t]))
      BY <1>1, <1>9, <1>13, <2>1, FreedIs
    <2> QED
      BY <1>3, <2>1, <2>2
  <1>15. Mirrors(u2, l2)
    BY <1>1, <1>6, <1>7, MirrorsStep
  <1>16. Present(o2, u2, sticky')
    <2>1. ToSet(o2) = IF s2 # <<>> \/ sticky[t] THEN ToSet(o) ELSE ToSet(o) \ {t}
      BY <1>1, <1>13, PartedIs
    <2>2. \A x \in Topic : x # t => /\ x \in ToSet(o2) <=> x \in ToSet(o)
                                    /\ u2[x] = u[x] /\ sticky'[x] = sticky[x]
      BY <1>1, <1>3, <2>1
    <2>3. t \in ToSet(o2) <=> u2[t] # <<>> \/ sticky'[t]
      BY <1>1, <1>3, <1>13, <2>1
    <2>4. Present(o, u, sticky)
      BY <1>1
    <2> HIDE DEF u2, o2
    <2> QED
      BY <2>2, <2>3, <2>4 DEF Present
  <1>17. walk' \in WalkType /\ Walks(walk', cs', l2)
    <2>1. cs.op # "unsubscribe_all"
      BY <1>3, NoneBusy
    <2>2. \A x \in Sub : x # su => l2[x] = l[x]
      BY <1>1
    <2> HIDE DEF l2
    <2>3. Disturbed(su) \in WalkType /\ Walks(Disturbed(su), cs, l2)
      BY <1>1, <2>1, <2>2, DisturbedIs
    <2> QED
      BY <1>3, <2>3
  <1>18. Iterates(cs', o2, sticky')
    BY <1>3, NoneBusy DEF Iterates
  <1> HIDE DEF u2, l2, o2
  <1>19. sticky' \in [Topic -> BOOLEAN] /\ cs' \in CSType
    BY <1>1, <1>3
  <1>20. Then(o2, u2, l2)
    BY <1>11, <1>12, <1>14, <1>15, <1>16, <1>17, <1>18, <1>19 DEF Then, StandsFor
  <1> QED
    BY <1>5, <1>20 DEF o2, u2, l2, s2, r2

LEMMA UnsubscribeAllStep ==
    ASSUME NEW o, NEW u, NEW l, Now(o, u, l), NEW su \in Sub, UnsubscribeAll(su)
    PROVE  Then(o, u, l)
  <1> DEFINE r == l[su]
             list == subs[su]
  <1>1. /\ TableIs(topic_map, o) /\ o \in Seq(Topic) /\ Once(o)
        /\ UsersAre(subscribers, u) /\ ListsAre(cs, subs, l)
        /\ subs \in [Sub -> ListType(Topic)] /\ l \in [Sub -> Seq(Topic)]
        /\ sticky \in [Topic -> BOOLEAN]
        /\ cs \in CSType /\ walk \in WalkType /\ Walks(walk, cs, l)
        /\ Mirrors(u, l) /\ Present(o, u, sticky)
    BY NowFacts
  <1>2. /\ cs = NoCS /\ list.head # NULL
        /\ cs' = [op |-> "unsubscribe_all", su |-> su, s |-> list.head]
        /\ topic_map' = topic_map /\ subscribers' = subscribers
        /\ sticky' = sticky /\ subs' = subs /\ walk' = Disturbed(su)
    BY DEF UnsubscribeAll
  <1>3. Holds(list, r, Topic)
    <2>1. ListIs(cs, su, list, r)
      BY NowOnce
    <2> QED
      BY <1>2, <2>1, NoneBusy DEF ListIs
  <1> HIDE DEF list
  <1>4. /\ list \in ListType(Topic) /\ r \in Seq(Topic) /\ Dropping(list, r, list.head)
        /\ list.head \in Topic \cup {NULL}
    <2>1. /\ list \in ListType(Topic) /\ r \in Seq(Topic) /\ Dropping(list, r, list.head)
      BY <1>3 DEF Holds, Linking, Dropping
    <2> QED
      BY <2>1 DEF ListType
  <1>5. /\ cs' \in CSType /\ cs'.op = "unsubscribe_all" /\ cs'.su = su /\ cs'.s = list.head
        /\ \A x : x # su => ~Busy(cs', x)
    BY <1>2, <1>4 DEF CSType, Busy
  <1>6. ListsAre(cs', subs', l)
    <2>1. ListIs(cs', su, list, r)
      BY <1>4, <1>5 DEF ListIs
    <2>2. \A x \in Sub : x # su => ~Busy(cs, x) /\ ~Busy(cs', x)
      BY <1>2, <1>5, NoneBusy
    <2>3. ListsAre(cs', [subs EXCEPT ![su] = list], [l EXCEPT ![su] = r])
      BY <1>1, <1>4, <2>1, <2>2, ListsStep
    <2>4. [l EXCEPT ![su] = r] = l /\ [subs EXCEPT ![su] = list] = subs
      BY <1>1 DEF list
    <2> QED
      BY <1>2, <2>3, <2>4
  <1>7. walk' \in WalkType /\ Walks(walk', cs', l)
    <2>1. PICK c2 : c2 = cs'
      OBVIOUS
    <2>2. c2.op = "unsubscribe_all" => c2.su = su
      BY <1>5, <2>1
    <2>3. Disturbed(su) \in WalkType /\ Walks(Disturbed(su), c2, l)
      BY <1>1, <2>2, DisturbedIs
    <2> QED
      BY <1>2, <2>1, <2>3
  <1>8. Iterates(cs', o, sticky)
    BY <1>5 DEF Iterates, Loop
  <1> QED
    BY <1>1, <1>2, <1>5, <1>6, <1>7, <1>8 DEF Then, StandsFor

\* One round of ps_unsubscribe_all frees the first node that is left.
LEMMA DroppingStep ==
    ASSUME NEW list, NEW r, NEW t \in Topic, Dropping(list, r, t)
    PROVE  /\ t \in ToSet(r) /\ list.next[t] \in Topic \cup {NULL}
           /\ Free(list, t) \in ListType(Topic) /\ RemoveFirst(r, t) \in Seq(Topic)
           /\ Dropping(Free(list, t), RemoveFirst(r, t), list.next[t])
  <1> DEFINE f == Free(list, t)
             r2 == RemoveFirst(r, t)
             L == Len(r)
  <1>1. /\ list \in ListType(Topic) /\ r \in Seq(Topic) /\ Once(r) /\ Leads(list.next, r, t)
        /\ \A n \in Topic : n \notin ToSet(r) => list.next[n] = Garbage
    BY DEF Dropping
  <1>2. t # NULL /\ NULL \notin Topic
    BY SubNodes DEF Nodes
  <1>3. r # <<>> /\ t = r[1]
    BY <1>1, <1>2 DEF Leads
  <1>4. L \in Nat /\ 1 \in 1..L /\ \A i \in 1..L : r[i] \in Topic /\ r[i] \in ToSet(r)
    <2>1. L \in Nat /\ (r = <<>> <=> L = 0) /\ \A i \in 1..L : r[i] \in Topic /\ r[i] \in ToSet(r)
      BY <1>1, SeqFacts
    <2>2. L # 0
      BY <1>3, <2>1
    <2> HIDE DEF L
    <2>3. 1 \in 1..L
      BY <2>1, <2>2
    <2> QED
      BY <2>1, <2>3
  <1>5. t \in ToSet(r)
    BY <1>3, <1>4
  <1>6. list.next[t] \in Topic \cup {NULL}
    <2>1. list.next[r[1]] = IF 1 = L THEN NULL ELSE r[1 + 1]
      BY <1>1, <1>4 DEF Leads
    <2>2. 1 # L => 1 + 1 \in 1..L
      <3> HIDE DEF L
      <3> QED
        BY <1>4
    <2> QED
      BY <1>3, <1>4, <2>1, <2>2
  <1>7. r2 = Without(r, 1) /\ r2 \in Seq(Topic) /\ Once(r2) /\ ToSet(r2) = ToSet(r) \ {t}
    BY <1>1, <1>3, <1>4, WithoutIs
  <1>8. /\ f \in ListType(Topic) /\ f.next[t] = Garbage
        /\ \A n \in Topic : n # t => f.next[n] = list.next[n]
    <2>1. list.prev \in [Topic -> Pointer(Topic)] /\ list.next \in [Topic -> Pointer(Topic)]
          /\ Garbage \in Pointer(Topic)
      BY <1>1 DEF ListType, Pointer
    <2>2. /\ Store(list.prev, t, Garbage) \in [Topic -> Pointer(Topic)]
          /\ Store(list.next, t, Garbage) \in [Topic -> Pointer(Topic)]
          /\ Store(list.next, t, Garbage)[t] = Garbage
          /\ \A n \in Topic : n # t => Store(list.next, t, Garbage)[n] = list.next[n]
      BY <2>1 DEF Store
    <2>3. f \in ListType(Topic) /\ f.next = Store(list.next, t, Garbage)
      BY <1>1, <2>2 DEF Free, ListType
    <2> QED
      BY <2>2, <2>3
  <1> HIDE DEF f, r2
  <1>9. Leads(f.next, r2, list.next[t])
    <2>1. \A i \in 1..L : i # 1 => r[i] # t
      BY <1>1, <1>3, <1>4 DEF Once
    <2>2. \A i \in 1..Len(r) : i # 1 /\ i # 1 - 1 => f.next[r[i]] = list.next[r[i]]
      BY <1>4, <1>8, <2>1
    <2>3. ~(1 > 1)
      OBVIOUS
    <2>4. Leads(f.next, Without(r, 1), IF 1 = 1 THEN list.next[r[1]] ELSE t)
      BY <1>1, <1>4, <2>2, <2>3, LeadsWithout
    <2> QED
      BY <1>3, <1>7, <2>4
  <1>10. \A n \in Topic : n \notin ToSet(r2) => f.next[n] = Garbage
    BY <1>1, <1>7, <1>8
  <1>11. Dropping(f, r2, list.next[t])
    BY <1>7, <1>8, <1>9, <1>10 DEF Dropping
  <1> QED
    BY <1>5, <1>6, <1>7, <1>8, <1>11 DEF f, r2

LEMMA UnsubscribeNextStep ==
    ASSUME NEW o, NEW u, NEW l, Now(o, u, l), UnsubscribeNext
    PROVE  /\ cs.su \in Sub /\ cs.s \in Topic /\ cs.s \in ToSet(l[cs.su])
           /\ Then(Parted(o, cs.s, RemoveFirst(u[cs.s], cs.su) # <<>> \/ sticky[cs.s]),
                   [u EXCEPT ![cs.s] = RemoveFirst(u[cs.s], cs.su)],
                   [l EXCEPT ![cs.su] = RemoveFirst(l[cs.su], cs.s)])
  <1>a. PICK su, t : su = cs.su /\ t = cs.s
    OBVIOUS
  <1> DEFINE s == u[t]
             r == l[su]
             s2 == RemoveFirst(s, su)
             r2 == RemoveFirst(r, t)
             u2 == [u EXCEPT ![t] = s2]
             l2 == [l EXCEPT ![su] = r2]
             o2 == Parted(o, t, s2 # <<>> \/ sticky[t])
             users == Removed(subscribers[t], su)
             list == Free(subs[su], t)
  <1>1. /\ TableIs(topic_map, o) /\ o \in Seq(Topic) /\ Once(o)
        /\ UsersAre(subscribers, u) /\ ListsAre(cs, subs, l)
        /\ subscribers \in [Topic -> ListType(Sub)] /\ u \in [Topic -> Seq(Sub)]
        /\ subs \in [Sub -> ListType(Topic)] /\ l \in [Sub -> Seq(Topic)]
        /\ sticky \in [Topic -> BOOLEAN]
        /\ cs \in CSType /\ walk \in WalkType /\ Walks(walk, cs, l)
        /\ Mirrors(u, l) /\ Present(o, u, sticky)
    BY NowFacts
  <1>2. /\ cs.op = "unsubscribe_all" /\ cs.s # NULL
        /\ cs' = [cs EXCEPT !.s = subs[cs.su].next[cs.s]]
        /\ sticky' = sticky /\ walk' = walk
    BY DEF UnsubscribeNext
  <1>3. cs \in [op : {"unsubscribe_all"}, su : Sub, s : Topic \cup {NULL}] /\ su \in Sub /\ t \in Topic
    BY <1>a, <1>1, <1>2, UnsubscribeFields
  <1>4. /\ Once(s) /\ Holds(subscribers[t], s, Sub)
        /\ Once(r) /\ ListIs(cs, su, subs[su], r) /\ s \in Seq(Sub) /\ r \in Seq(Topic)
    BY <1>1, <1>3, NowOnce
  <1>5. Dropping(subs[su], r, t)
    BY <1>a, <1>2, <1>4 DEF ListIs
  <1>6. /\ t \in ToSet(r) /\ subs[su].next[t] \in Topic \cup {NULL}
        /\ list \in ListType(Topic) /\ r2 \in Seq(Topic)
        /\ Dropping(list, r2, subs[su].next[t])
    BY <1>3, <1>5, DroppingStep
  <1>7. su \in ToSet(s)
    BY <1>1, <1>3, <1>6 DEF Mirrors
  <1>8. DL_FINDS(subscribers[t], su)
    <2>1. Linking(subscribers[t], s, Sub)
      BY <1>4 DEF Holds
    <2> QED
      BY <1>7, <2>1, FindsIs, SubNodes
  <1>9. /\ subscribers' = [subscribers EXCEPT ![t] = users]
        /\ topic_map' = FreedIfEmpty(t, subscribers'[t], sticky[t])
        /\ subs' = [subs EXCEPT ![su] = list]
    BY <1>a, <1>8 DEF UnsubscribeNext
  <1>10. s2 \in Seq(Sub) /\ ToSet(s2) = ToSet(s) \ {su}
    BY <1>4, <1>7, RemoveIs DEF Removal
  <1>11. ToSet(r2) = ToSet(r) \ {t}
    BY <1>4, <1>6, RemoveIs DEF Removal
  <1>12. Holds(users, s2, Sub)
    BY <1>4, <1>7, RemoveHolds, SubNodes
  <1> HIDE DEF s2, r2, users, list
  <1>13. UsersAre(subscribers', u2)
    BY <1>1, <1>3, <1>9, <1>12, UsersStep
  <1>14. /\ cs' \in CSType /\ cs'.op = "unsubscribe_all" /\ cs'.su = su
         /\ cs'.s = subs[su].next[t]
    BY <1>a, <1>2, <1>3, <1>6 DEF CSType
  <1>15. ListsAre(cs', subs', l2)
    <2>1. ListIs(cs', su, list, r2)
      BY <1>6, <1>14 DEF ListIs
    <2>2. \A x \in Sub : x # su => ~Busy(cs, x) /\ ~Busy(cs', x)
      BY <1>a, <1>14 DEF Busy
    <2>3. ListsAre(cs', [subs EXCEPT ![su] = list], [l EXCEPT ![su] = r2])
      BY <1>1, <1>3, <1>6, <2>1, <2>2, ListsStep
    <2> QED
      BY <1>9, <2>3
  <1>16. s # <<>> /\ t \in ToSet(o)
    <2>1. s # <<>>
      BY <1>7 DEF ToSet
    <2> QED
      BY <1>1, <1>3, <2>1 DEF Present
  <1>17. TableIs(topic_map', o2)
    <2>1. subscribers'[t] = users /\ sticky[t] \in BOOLEAN
      BY <1>1, <1>3, <1>9
    <2>2. TableIs(FreedIfEmpty(t, users, sticky[t]), Parted(o, t, s2 # <<>> \/ sticky[t]))
      BY <1>1, <1>12, <1>16, <2>1, FreedIs
    <2> QED
      BY <1>9, <2>1, <2>2
  <1>18. Mirrors(u2, l2)
    BY <1>1, <1>3, <1>10, <1>11, MirrorsStep
  <1>19. Present(o2, u2, sticky')
    <2>1. ToSet(o2) = IF s2 # <<>> \/ sticky[t] THEN ToSet(o) ELSE ToSet(o) \ {t}
      BY <1>1, <1>3, <1>16, PartedIs
    <2>2. \A x \in Topic : x # t => /\ x \in ToSet(o2) <=> x \in ToSet(o)
                                    /\ u2[x] = u[x] /\ sticky'[x] = sticky[x]
      BY <1>1, <1>2, <2>1
    <2>3. t \in ToSet(o2) <=> u2[t] # <<>> \/ sticky'[t]
      BY <1>1, <1>2, <1>3, <1>16, <2>1
    <2>4. Present(o, u, sticky)
      BY <1>1
    <2> HIDE DEF u2, o2
    <2> QED
      BY <2>2, <2>3, <2>4 DEF Present
  <1>20. Walks(walk', cs', l2)
    <2>1. SUFFICES ASSUME walk # NoWalk
                   PROVE  /\ walk.su \in Sub
                          /\ walk.apart => walk.su # su /\ WalkIn(walk, l2[walk.su])
      BY <1>2, <1>14 DEF Walks
    <2>2. walk.su \in Sub /\ (walk.apart => walk.su # su /\ WalkIn(walk, l[walk.su]))
      BY <1>a, <1>1, <1>2, <2>1, WalkFacts
    <2> QED
      BY <1>1, <2>2
  <1>21. Iterates(cs', o2, sticky')
    BY <1>14 DEF Iterates, Loop
  <1> HIDE DEF u2, l2, o2
  <1>22. walk' \in WalkType /\ sticky' \in [Topic -> BOOLEAN]
    BY <1>1, <1>2
  <1>23. Then(o2, u2, l2)
    BY <1>13, <1>14, <1>15, <1>17, <1>18, <1>19, <1>20, <1>21, <1>22 DEF Then, StandsFor
  <1> QED
    BY <1>a, <1>3, <1>6, <1>23 DEF o2, u2, l2, s2, r2

LEMMA UnsubscribeAllEndsStep ==
    ASSUME NEW o, NEW u, NEW l, Now(o, u, l), UnsubscribeAllEnds
    PROVE  Then(o, u, l)
  <1>a. PICK su : su = cs.su
    OBVIOUS
  <1> DEFINE r == l[su]
             old == subs[su]
             list == [old EXCEPT !.head = NULL]
  <1>1. /\ TableIs(topic_map, o) /\ o \in Seq(Topic) /\ Once(o)
        /\ UsersAre(subscribers, u) /\ ListsAre(cs, subs, l)
        /\ subs \in [Sub -> ListType(Topic)] /\ l \in [Sub -> Seq(Topic)]
        /\ sticky \in [Topic -> BOOLEAN]
        /\ cs \in CSType /\ walk \in WalkType /\ Walks(walk, cs, l)
        /\ Mirrors(u, l) /\ Present(o, u, sticky)
    BY NowFacts
  <1>2. /\ cs.op = "unsubscribe_all" /\ cs.s = NULL
        /\ subs' = [subs EXCEPT ![su] = list]
        /\ cs' = NoCS
        /\ topic_map' = topic_map /\ subscribers' = subscribers
        /\ sticky' = sticky /\ walk' = walk
    BY <1>a DEF UnsubscribeAllEnds
  <1>3. su \in Sub
    BY <1>a, <1>1, <1>2, UnsubscribeFields
  <1>4. Dropping(old, r, NULL)
    <2>1. ListIs(cs, su, old, r)
      BY <1>3, NowOnce
    <2> QED
      BY <1>a, <1>2, <2>1 DEF ListIs
  <1> HIDE DEF old
  <1>5. r \in Seq(Topic) /\ r = <<>>
    <2>1. r \in Seq(Topic) /\ NULL = IF r = <<>> THEN NULL ELSE r[1]
      BY <1>4 DEF Dropping, Leads
    <2>2. r # <<>> => r[1] \in Topic
      BY <2>1, SeqFacts
    <2> QED
      BY <2>1, <2>2, SubNodes DEF Nodes
  <1>6. list \in ListType(Topic) /\ list.head = NULL /\ list.next = old.next
    BY <1>4 DEF Dropping, ListType
  <1>7. \A n \in Topic : list.next[n] = Garbage
    <2>1. ToSet(r) = {}
      BY <1>5 DEF ToSet
    <2> QED
      BY <1>4, <1>6, <2>1 DEF Dropping
  <1> HIDE DEF list
  <1>8. Holds(list, r, Topic)
    BY <1>5, <1>6, <1>7, EmptyHolds, SubNodes
  <1>9. ListsAre(cs', subs', l)
    <2>1. ListIs(cs', su, list, r)
      BY <1>2, <1>8, NoneBusy DEF ListIs
    <2>2. \A x \in Sub : x # su => ~Busy(cs, x) /\ ~Busy(cs', x)
      <3>1. \A x \in Sub : x # su => ~Busy(cs, x)
        BY <1>a DEF Busy
      <3> QED
        BY <1>2, <3>1, NoneBusy
    <2>3. ListsAre(cs', [subs EXCEPT ![su] = list], [l EXCEPT ![su] = r])
      BY <1>1, <1>3, <1>5, <1>6, <2>1, <2>2, ListsStep
    <2>4. [l EXCEPT ![su] = r] = l
      BY <1>1
    <2> QED
      BY <1>2, <2>3, <2>4
  <1>10. Walks(walk', cs', l)
    BY <1>1, <1>2, NoneBusy DEF Walks
  <1>11. Iterates(cs', o, sticky) /\ cs' \in CSType
    BY <1>2, NoneBusy DEF Iterates
  <1> QED
    BY <1>1, <1>2, <1>9, <1>10, <1>11 DEF Then, StandsFor

(***************************************************************************)
(* Sticky messages                                                         *)
(***************************************************************************)

LEMMA PublishStickyStep ==
    ASSUME NEW o, NEW u, NEW l, Now(o, u, l), NEW t \in Topic, PublishSticky(t)
    PROVE  Then(Joined(o, t), u, l)
  <1> DEFINE o2 == Joined(o, t)
  <1>1. /\ TableIs(topic_map, o) /\ o \in Seq(Topic) /\ Once(o)
        /\ UsersAre(subscribers, u) /\ ListsAre(cs, subs, l)
        /\ sticky \in [Topic -> BOOLEAN]
        /\ cs \in CSType /\ walk \in WalkType /\ Walks(walk, cs, l)
        /\ Mirrors(u, l) /\ Present(o, u, sticky)
    BY NowFacts
  <1>2. /\ cs = NoCS /\ topic_map' = Created(t)
        /\ sticky' = [sticky EXCEPT ![t] = TRUE]
        /\ subscribers' = subscribers /\ subs' = subs /\ cs' = cs /\ walk' = walk
    BY DEF PublishSticky
  <1>3. TableIs(topic_map', o2)
    BY <1>1, <1>2, CreatedIs
  <1>4. Present(o2, u, sticky')
    <2>1. ToSet(o2) = ToSet(o) \cup {t}
      BY <1>1, JoinedIs
    <2> HIDE DEF o2
    <2> QED
      BY <1>1, <1>2, <2>1 DEF Present
  <1>5. Iterates(cs', o2, sticky')
    BY <1>2, NoneBusy DEF Iterates
  <1>6. sticky' \in [Topic -> BOOLEAN]
    BY <1>1, <1>2
  <1> HIDE DEF o2
  <1>7. Then(o2, u, l)
    BY <1>1, <1>2, <1>3, <1>4, <1>5, <1>6 DEF Then, StandsFor
  <1> QED
    BY <1>7 DEF o2

\* The topic t has lost its sticky message, and is freed if nobody needs it.
LEMMA ForgetTable ==
    ASSUME NEW o, NEW u, NEW l, Now(o, u, l), NEW t \in Topic, t \in ToSet(o),
           topic_map' = FreedIfEmpty(t, subscribers[t], FALSE)
    PROVE  TableIs(topic_map', Parted(o, t, u[t] # <<>>))
  <1>1. TableIs(topic_map, o)
    BY NowFacts
  <1>2. Holds(subscribers[t], u[t], Sub)
    BY NowOnce
  <1>3. TableIs(FreedIfEmpty(t, subscribers[t], FALSE), Parted(o, t, u[t] # <<>> \/ FALSE))
    BY <1>1, <1>2, FreedIs
  <1>4. (u[t] # <<>> \/ FALSE) = (u[t] # <<>>)
    OBVIOUS
  <1> QED
    BY <1>3, <1>4

LEMMA ForgetPresent ==
    ASSUME NEW o, NEW u, NEW l, Now(o, u, l), NEW t \in Topic, t \in ToSet(o),
           sticky' = [sticky EXCEPT ![t] = FALSE]
    PROVE  Present(Parted(o, t, u[t] # <<>>), u, sticky') /\ sticky' \in [Topic -> BOOLEAN]
  <1> DEFINE o2 == Parted(o, t, u[t] # <<>>)
  <1>1. o \in Seq(Topic) /\ Once(o) /\ sticky \in [Topic -> BOOLEAN] /\ Present(o, u, sticky)
    BY NowFacts
  <1>2. ToSet(o2) = IF u[t] # <<>> THEN ToSet(o) ELSE ToSet(o) \ {t}
    BY <1>1, PartedIs
  <1> HIDE DEF o2
  <1>3. Present(o2, u, sticky') /\ sticky' \in [Topic -> BOOLEAN]
    BY <1>1, <1>2 DEF Present
  <1> QED
    BY <1>3 DEF o2

LEMMA PublishClearsStep ==
    ASSUME NEW o, NEW u, NEW l, Now(o, u, l), NEW t \in Topic, PublishClears(t)
    PROVE  Then(Parted(o, t, u[t] # <<>>), u, l)
  <1> DEFINE o2 == Parted(o, t, u[t] # <<>>)
  <1>1. /\ TableIs(topic_map, o) /\ o \in Seq(Topic) /\ Once(o)
        /\ UsersAre(subscribers, u) /\ ListsAre(cs, subs, l)
        /\ sticky \in [Topic -> BOOLEAN]
        /\ cs \in CSType /\ walk \in WalkType /\ Walks(walk, cs, l)
        /\ Mirrors(u, l) /\ Present(o, u, sticky)
    BY NowFacts
  <1>2. /\ cs = NoCS /\ sticky[t]
        /\ topic_map' = FreedIfEmpty(t, subscribers[t], FALSE)
        /\ sticky' = [sticky EXCEPT ![t] = FALSE]
        /\ subscribers' = subscribers /\ subs' = subs /\ cs' = cs /\ walk' = walk
    BY DEF PublishClears
  <1>3. t \in ToSet(o)
    BY <1>1, <1>2 DEF Present
  <1>4. TableIs(topic_map', o2)
    BY <1>2, <1>3, ForgetTable
  <1>5. Present(o2, u, sticky') /\ sticky' \in [Topic -> BOOLEAN]
    BY <1>2, <1>3, ForgetPresent
  <1>6. Iterates(cs', o2, sticky')
    BY <1>2, NoneBusy DEF Iterates
  <1> HIDE DEF o2
  <1>7. Then(o2, u, l)
    BY <1>1, <1>2, <1>4, <1>5, <1>6 DEF Then, StandsFor
  <1> QED
    BY <1>7 DEF o2

LEMMA CleanStickyStep ==
    ASSUME NEW o, NEW u, NEW l, Now(o, u, l), NEW prefix \in Topic \cup {<<>>}, CleanSticky(prefix)
    PROVE  Then(o, u, l)
  <1>1. /\ TableIs(topic_map, o)
        /\ UsersAre(subscribers, u) /\ ListsAre(cs, subs, l)
        /\ sticky \in [Topic -> BOOLEAN]
        /\ cs \in CSType /\ walk \in WalkType /\ Walks(walk, cs, l)
        /\ Mirrors(u, l) /\ Present(o, u, sticky)
    BY NowFacts
  <1>2. /\ cs = NoCS /\ cs' = Iterating("clean_sticky", prefix)
        /\ topic_map' = topic_map /\ subscribers' = subscribers
        /\ sticky' = sticky /\ subs' = subs /\ walk' = walk
    BY DEF CleanSticky
  <1>3. Begins(Iterating("clean_sticky", prefix), o, sticky, "clean_sticky")
    BY <1>1, IterBegins DEF Loop
  <1>4. /\ cs' \in CSType /\ Iterates(cs', o, sticky) /\ cs'.op = "clean_sticky"
        /\ \A x : ~Busy(cs', x)
    BY <1>2, <1>3 DEF Begins
  <1>5. ListsAre(cs', subs', l)
    <2>1. \A x \in Sub : ~Busy(cs, x) /\ ~Busy(cs', x)
      BY <1>2, <1>4, NoneBusy
    <2>2. ListsAre(cs', subs, l)
      BY <1>1, <2>1, ListsIdle
    <2> QED
      BY <1>2, <2>2
  <1>6. Walks(walk', cs', l)
    BY <1>1, <1>2, <1>4 DEF Walks
  <1> QED
    BY <1>1, <1>2, <1>4, <1>5, <1>6 DEF Then, StandsFor

\* A loop that is not over is at an element of the table.
LEMMA LoopHere ==
    ASSUME NEW o, NEW u, NEW l, Now(o, u, l), cs.op \in Loop, cs.el # NULL
    PROVE  \E p \in 1..Len(o) : LoopAt(cs, o, sticky, p) /\ cs.el = o[p] /\ cs.el \in Topic
  <1>1. o \in Seq(Topic) /\ Iterates(cs, o, sticky)
    BY NowFacts
  <1>2. PICK p \in 1..(Len(o) + 1) : LoopAt(cs, o, sticky, p)
    BY <1>1 DEF Iterates
  <1>3. cs.el = At(o, p)
    BY <1>2 DEF LoopAt
  <1>4. p \in 1..Len(o)
    BY <1>1, <1>3, AtType
  <1>5. cs.el = o[p] /\ cs.el \in Topic
    BY <1>1, <1>3, <1>4, SeqFacts DEF At
  <1> QED
    BY <1>2, <1>4, <1>5

\* HASH_ITER goes on, in a table that may have lost the element it was at.
Advances(c, o, q) ==
    /\ c \in [op : Loop, prefix : Topic \cup {<<>>}, el : Topic \cup {NULL},
              done : SUBSET Topic, tmp : Topic \cup {NULL}]
    /\ c.op = cs.op /\ c.prefix = cs.prefix /\ c.done = cs.done
    /\ c.el = At(o, q) /\ c.tmp = At(o, q + 1)

LEMMA AdvancedIs ==
    ASSUME NEW o, TableIs(topic_map', o), cs \in CSType, cs.op \in Loop,
           NEW q \in Nat \ {0}, cs.tmp = At(o, q)
    PROVE  Advances(Advanced, o, q)
  <1> DEFINE tmp == IF cs.tmp = NULL THEN NULL ELSE topic_map'.next[cs.tmp]
  <1>1. o \in Seq(Topic) /\ Len(o) \in Nat
    BY SeqFacts DEF TableIs, Ordered, Topic
  <1>2. tmp = At(o, q + 1)
    <2>1. CASE q \in 1..Len(o)
      <3>1. cs.tmp = o[q] /\ cs.tmp # NULL
        BY <1>1, <2>1, AtType DEF At
      <3>2. topic_map'.next[o[q]] = At(o, q + 1)
        BY <2>1, NextIs
      <3> QED
        BY <3>1, <3>2
    <2>2. CASE q \notin 1..Len(o)
      <3>1. q + 1 \notin 1..Len(o)
        BY <1>1, <2>2
      <3> QED
        BY <2>2, <3>1 DEF At
    <2> QED
      BY <2>1, <2>2
  <1>3. cs \in [op : Loop, prefix : Topic \cup {<<>>}, el : Topic \cup {NULL},
                done : SUBSET Topic, tmp : Topic \cup {NULL}]
    BY LoopFields
  <1>4. Advanced = [cs EXCEPT !.el = cs.tmp, !.tmp = tmp]
    BY DEF Advanced
  <1>5. tmp \in Topic \cup {NULL}
    BY <1>1, <1>2, AtType
  <1> HIDE DEF tmp
  <1>6. PICK d : d = Advanced
    OBVIOUS
  <1>7. /\ d \in [op : Loop, prefix : Topic \cup {<<>>}, el : Topic \cup {NULL},
                  done : SUBSET Topic, tmp : Topic \cup {NULL}]
        /\ d.op = cs.op /\ d.prefix = cs.prefix /\ d.done = cs.done
        /\ d.el = cs.tmp /\ d.tmp = tmp
    BY <1>3, <1>4, <1>5, <1>6
  <1>8. Advances(d, o, q)
    BY <1>2, <1>7 DEF Advances
  <1> QED
    BY <1>6, <1>8

LEMMA LoopInType ==
    ASSUME NEW c \in [op : Loop, prefix : Topic \cup {<<>>}, el : Topic \cup {NULL},
                      done : SUBSET Topic, tmp : Topic \cup {NULL}]
    PROVE  c \in CSType /\ c.op \in Loop
  BY DEF CSType

\* While a loop goes on, nothing changes for the lists and for ps_num_subs.
LEMMA LoopFrame ==
    ASSUME NEW o, NEW u, NEW l, Now(o, u, l), cs.op \in Loop, cs' \in CSType, cs'.op \in Loop,
           subs' = subs, walk' = walk
    PROVE  ListsAre(cs', subs', l) /\ Walks(walk', cs', l)
  <1>1. cs \in CSType /\ ListsAre(cs, subs, l) /\ Walks(walk, cs, l)
    BY NowFacts
  <1>2. \A x \in Sub : ~Busy(cs, x) /\ ~Busy(cs', x)
    BY <1>1, LoopFields
  <1>3. cs'.op # "unsubscribe_all"
    BY DEF Loop
  <1>4. ListsAre(cs', subs, l)
    BY <1>1, <1>2, ListsIdle
  <1>5. Walks(walk, cs', l)
    BY <1>1, <1>3 DEF Walks
  <1> QED
    BY <1>4, <1>5

LEMMA PushNextStep ==
    ASSUME NEW o, NEW u, NEW l, Now(o, u, l), PushNext
    PROVE  Then(o, u, l)
  <1>1. /\ TableIs(topic_map, o) /\ o \in Seq(Topic) /\ Once(o)
        /\ UsersAre(subscribers, u)
        /\ sticky \in [Topic -> BOOLEAN]
        /\ cs \in CSType /\ walk \in WalkType
        /\ Mirrors(u, l) /\ Present(o, u, sticky)
    BY NowFacts
  <1>2. /\ cs.op = "push_child_sticky" /\ cs.el # NULL
        /\ topic_map' = topic_map /\ subscribers' = subscribers
        /\ sticky' = sticky /\ subs' = subs /\ walk' = walk
        /\ cs' = [Advanced EXCEPT !.done = IF Matches THEN Advanced.done \cup {cs.el} ELSE Advanced.done]
    BY DEF PushNext
  <1>3. cs.op \in Loop
    BY <1>2 DEF Loop
  <1>4. PICK p \in 1..Len(o) : LoopAt(cs, o, sticky, p) /\ cs.el = o[p] /\ cs.el \in Topic
    BY <1>2, <1>3, LoopHere
  <1>5. /\ cs.tmp = At(o, p + 1)
        /\ \A t \in Topic : t \in cs.done <=> /\ sticky[t] /\ HasPrefix(t, cs.prefix)
                                              /\ \E i \in 1..Len(o) : i < p /\ t = o[i]
    BY <1>2, <1>4 DEF LoopAt
  <1>6. p \in Nat \ {0} /\ p + 1 \in Nat \ {0} /\ p + 1 \in 1..(Len(o) + 1)
    <2>1. Len(o) \in Nat
      BY <1>1, SeqFacts
    <2> QED
      BY <2>1
  <1>7. Advances(Advanced, o, p + 1)
    <2>1. TableIs(topic_map', o)
      BY <1>1, <1>2
    <2> QED
      BY <1>1, <1>3, <1>5, <1>6, <2>1, AdvancedIs
  <1>8. PICK d : d = Advanced
    OBVIOUS
  <1>9. /\ d \in [op : Loop, prefix : Topic \cup {<<>>}, el : Topic \cup {NULL},
                  done : SUBSET Topic, tmp : Topic \cup {NULL}]
        /\ d.op = cs.op /\ d.prefix = cs.prefix /\ d.done = cs.done
        /\ d.el = At(o, p + 1) /\ d.tmp = At(o, p + 1 + 1)
    BY <1>7, <1>8 DEF Advances
  <1> DEFINE done == IF Matches THEN cs.done \cup {cs.el} ELSE cs.done
  <1>10. cs' = [d EXCEPT !.done = done] /\ done \in SUBSET Topic
    <2>1. cs.done \in SUBSET Topic
      BY <1>9
    <2> QED
      BY <1>2, <1>4, <1>8, <1>9, <2>1
  <1>11. \A t \in Topic : t \in done <=> /\ sticky[t] /\ HasPrefix(t, cs.prefix)
                                         /\ \E i \in 1..Len(o) : i < p + 1 /\ t = o[i]
    <2>1. \A i \in 1..Len(o) : i < p + 1 <=> i < p \/ i = p
      <3>1. \A i \in Nat : \A q \in Nat : i < q + 1 <=> i < q \/ i = q
        OBVIOUS
      <3>2. \A i \in 1..Len(o) : i \in Nat
        OBVIOUS
      <3> QED
        BY <1>6, <3>1, <3>2
    <2>2. \A t \in Topic : (\E i \in 1..Len(o) : i < p + 1 /\ t = o[i])
                             <=> (\E i \in 1..Len(o) : i < p /\ t = o[i]) \/ t = o[p]
      BY <2>1
    <2>3. \A t \in Topic : t \in done <=> t \in cs.done \/ (Matches /\ t = cs.el)
      OBVIOUS
    <2>4. Matches <=> HasPrefix(cs.el, cs.prefix) /\ sticky[cs.el]
      BY DEF Matches
    <2> HIDE DEF done
    <2> QED
      BY <1>4, <1>5, <2>2, <2>3, <2>4
  <1> HIDE DEF done
  <1>12. PICK e : e = cs'
    OBVIOUS
  <1>13. /\ e \in [op : Loop, prefix : Topic \cup {<<>>}, el : Topic \cup {NULL},
                   done : SUBSET Topic, tmp : Topic \cup {NULL}]
         /\ e.op = "push_child_sticky" /\ e.prefix = cs.prefix /\ e.done = done
         /\ e.el = At(o, p + 1) /\ e.tmp = At(o, p + 1 + 1)
    BY <1>2, <1>9, <1>10, <1>12
  <1>14. LoopAt(e, o, sticky, p + 1)
    BY <1>11, <1>13 DEF LoopAt
  <1>15. cs' \in CSType /\ cs'.op \in Loop
    BY <1>12, <1>13, LoopInType
  <1>16. Iterates(cs', o, sticky')
    <2>1. Iterates(e, o, sticky)
      BY <1>6, <1>14 DEF Iterates
    <2> QED
      BY <1>2, <1>12, <2>1
  <1>17. ListsAre(cs', subs', l) /\ Walks(walk', cs', l)
    BY <1>2, <1>3, <1>15, LoopFrame
  <1> QED
    BY <1>1, <1>2, <1>15, <1>16, <1>17 DEF Then, StandsFor

\* The element of a loop is deleted: the one after it takes its place.
LEMMA AtWithout ==
    ASSUME NEW s \in Seq(Topic), NEW p \in 1..Len(s)
    PROVE  /\ At(Without(s, p), p) = At(s, p + 1)
           /\ \A i \in 1..(Len(s) - 1) : i < p => Without(s, p)[i] = s[i]
  <1> DEFINE r == Without(s, p)
  <1>1. Len(s) \in Nat
    BY SeqFacts
  <1>2. Len(s) - 1 \in Nat
    BY <1>1
  <1>3. Len(r) = Len(s) - 1 /\ \A i \in 1..(Len(s) - 1) : r[i] = IF i < p THEN s[i] ELSE s[i + 1]
    <2>1. DOMAIN r = 1..(Len(s) - 1) /\ \A i \in 1..(Len(s) - 1) : r[i] = IF i < p THEN s[i] ELSE s[i + 1]
      BY DEF Without
    <2>2. r \in Seq(Topic)
      <3>1. \A i \in 1..(Len(s) - 1) : r[i] \in Topic
        <4>1. \A i \in 1..(Len(s) - 1) : i \in 1..Len(s) /\ i + 1 \in 1..Len(s)
          BY <1>1
        <4>2. \A i \in 1..Len(s) : s[i] \in Topic
          BY SeqFacts
        <4> QED
          BY <2>1, <4>1, <4>2
      <3>2. r \in [1..(Len(s) - 1) -> Topic]
        BY <3>1 DEF Without
      <3> QED
        BY <1>2, <3>2
    <2>3. DOMAIN r = 1..Len(r) /\ Len(r) \in Nat
      BY <2>2, SeqFacts
    <2>4. \A a, b \in Nat : 1..a = 1..b => a = b
      <3> SUFFICES ASSUME NEW a \in Nat, NEW b \in Nat, 1..a = 1..b PROVE a = b
        OBVIOUS
      <3>1. \A i \in Nat : i \in 1..a <=> i \in 1..b
        OBVIOUS
      <3> QED
        BY <3>1
    <2> QED
      BY <1>2, <2>1, <2>3, <2>4
  <1> HIDE DEF r
  <1>4. At(r, p) = At(s, p + 1)
    <2>1. p \in 1..(Len(s) - 1) <=> p + 1 \in 1..Len(s)
      BY <1>1
    <2>2. ~(p < p)
      BY <1>1
    <2> QED
      BY <1>3, <2>1, <2>2 DEF At
  <1> QED
    BY <1>3, <1>4 DEF r

\* ps_clean_sticky goes on.
LEMMA CleanLoop ==
    ASSUME NEW o, TableIs(topic_map', o), cs \in CSType, cs.op = "clean_sticky",
           NEW q \in 1..(Len(o) + 1), cs.tmp = At(o, q), cs' = Advanced,
           \A i \in 1..Len(o) : i < q => ~(sticky'[o[i]] /\ HasPrefix(o[i], cs.prefix))
    PROVE  cs' \in CSType /\ cs'.op \in Loop /\ Iterates(cs', o, sticky')
  <1>1. cs.op \in Loop
    BY DEF Loop
  <1>2. q \in Nat \ {0}
    OBVIOUS
  <1>3. Advances(Advanced, o, q)
    BY <1>1, <1>2, AdvancedIs
  <1>4. PICK d : d = cs'
    OBVIOUS
  <1>5. /\ d \in [op : Loop, prefix : Topic \cup {<<>>}, el : Topic \cup {NULL},
                  done : SUBSET Topic, tmp : Topic \cup {NULL}]
        /\ d.op = "clean_sticky" /\ d.prefix = cs.prefix
        /\ d.el = At(o, q) /\ d.tmp = At(o, q + 1)
    BY <1>3, <1>4 DEF Advances
  <1>6. LoopAt(d, o, sticky', q)
    BY <1>5 DEF LoopAt
  <1>7. Iterates(d, o, sticky')
    BY <1>6 DEF Iterates
  <1> QED
    BY <1>4, <1>5, <1>7, LoopInType

LEMMA CleanNextStep ==
    ASSUME NEW o, NEW u, NEW l, Now(o, u, l), CleanNext
    PROVE  /\ cs.el \in Topic
           /\ Matches => /\ sticky[cs.el] /\ sticky' = [sticky EXCEPT ![cs.el] = FALSE]
                         /\ Then(Parted(o, cs.el, u[cs.el] # <<>>), u, l)
           /\ ~Matches => sticky' = sticky /\ Then(o, u, l)
  <1>1. /\ TableIs(topic_map, o) /\ o \in Seq(Topic) /\ Once(o)
        /\ UsersAre(subscribers, u)
        /\ sticky \in [Topic -> BOOLEAN]
        /\ cs \in CSType /\ walk \in WalkType
        /\ Mirrors(u, l) /\ Present(o, u, sticky)
    BY NowFacts
  <1>2. /\ cs.op = "clean_sticky" /\ cs.el # NULL
        /\ sticky' = [sticky EXCEPT ![cs.el] = sticky[cs.el] /\ ~Matches]
        /\ topic_map' = IF Matches THEN FreedIfEmpty(cs.el, subscribers[cs.el], FALSE) ELSE topic_map
        /\ subscribers' = subscribers /\ subs' = subs /\ walk' = walk
        /\ cs' = Advanced
    BY DEF CleanNext
  <1>3. cs.op \in Loop
    BY <1>2 DEF Loop
  <1>a. PICK t : t = cs.el
    OBVIOUS
  <1>4. PICK p \in 1..Len(o) : LoopAt(cs, o, sticky, p) /\ t = o[p] /\ t \in Topic
    BY <1>a, <1>2, <1>3, LoopHere
  <1>5. /\ cs.tmp = At(o, p + 1)
        /\ \A i \in 1..Len(o) : i < p => ~(sticky[o[i]] /\ HasPrefix(o[i], cs.prefix))
    BY <1>2, <1>4 DEF LoopAt
  <1>6. Len(o) \in Nat /\ t \in ToSet(o) /\ p + 1 \in 1..(Len(o) + 1)
    <2>1. Len(o) \in Nat /\ t \in ToSet(o)
      BY <1>1, <1>4, SeqFacts
    <2>2. p + 1 \in 1..(Len(o) + 1)
      BY <2>1
    <2> QED
      BY <2>1, <2>2
  <1>7. Matches <=> HasPrefix(t, cs.prefix) /\ sticky[t]
    BY <1>a DEF Matches
  <1>8. \A i \in 1..Len(o) : i < p + 1 => i < p \/ i = p
    <2>1. \A i \in Nat : \A q \in Nat : i < q + 1 => i < q \/ i = q
      OBVIOUS
    <2>2. p \in Nat /\ \A i \in 1..Len(o) : i \in Nat
      OBVIOUS
    <2> QED
      BY <2>1, <2>2
  <1>9. CASE ~Matches
    <2>1. sticky' = sticky /\ topic_map' = topic_map
      <3>1. sticky' = [sticky EXCEPT ![t] = sticky[t]]
        BY <1>a, <1>1, <1>2, <1>4, <1>9
      <3>2. sticky' = sticky
        BY <1>1, <3>1
      <3> QED
        BY <1>2, <1>9, <3>2
    <2>2. \A i \in 1..Len(o) : i < p + 1 => ~(sticky'[o[i]] /\ HasPrefix(o[i], cs.prefix))
      BY <1>4, <1>5, <1>7, <1>8, <1>9, <2>1
    <2>3. TableIs(topic_map', o)
      BY <1>1, <2>1
    <2>4. cs' \in CSType /\ cs'.op \in Loop /\ Iterates(cs', o, sticky')
      BY <1>1, <1>2, <1>5, <1>6, <2>2, <2>3, CleanLoop
    <2>5. ListsAre(cs', subs', l) /\ Walks(walk', cs', l)
      BY <1>2, <1>3, <2>4, LoopFrame
    <2>6. Then(o, u, l)
      BY <1>1, <1>2, <2>1, <2>4, <2>5 DEF Then, StandsFor
    <2> QED
      BY <1>a, <1>4, <1>9, <2>1, <2>6
  <1>10. CASE Matches
    <2> DEFINE o2 == Parted(o, t, u[t] # <<>>)
    <2>1. sticky' = [sticky EXCEPT ![t] = FALSE] /\ topic_map' = FreedIfEmpty(t, subscribers[t], FALSE)
      BY <1>a, <1>1, <1>2, <1>10
    <2>2. TableIs(topic_map', o2)
      BY <1>4, <1>6, <2>1, ForgetTable
    <2>3. Present(o2, u, sticky') /\ sticky' \in [Topic -> BOOLEAN]
      <3>1. t \in Topic /\ t \in ToSet(o) /\ sticky' = [sticky EXCEPT ![t] = FALSE]
        BY <1>4, <1>6, <2>1
      <3> QED
        BY <3>1, ForgetPresent
    <2>4. ~sticky'[t] /\ \A x \in Topic : x # t => sticky'[x] = sticky[x]
      BY <1>1, <1>4, <2>1
    <2>5. \A i \in 1..Len(o) : i < p + 1 => ~(sticky'[o[i]] /\ HasPrefix(o[i], cs.prefix))
      <3>1. \A i \in 1..Len(o) : o[i] \in Topic
        BY <1>1, SeqFacts
      <3> QED
        BY <1>4, <1>5, <1>8, <2>4, <3>1
    <2>6. cs' \in CSType /\ cs'.op \in Loop /\ Iterates(cs', o2, sticky')
      <3>1. CASE u[t] # <<>>
        <4>1. o2 = o
          BY <3>1 DEF Parted
        <4>2. TableIs(topic_map', o)
          BY <2>2, <4>1
        <4>3. cs' \in CSType /\ cs'.op \in Loop /\ Iterates(cs', o, sticky')
          BY <1>1, <1>2, <1>5, <1>6, <2>5, <4>2, CleanLoop
        <4> QED
          BY <4>1, <4>3
      <3>2. CASE u[t] = <<>>
        <4> DEFINE w == Without(o, p)
        <4>1. w \in Seq(Topic) /\ Len(w) = Len(o) - 1 /\ RemoveFirst(o, o[p]) = w
          BY <1>1, <1>4, WithoutIs
        <4>2. o2 = w
          BY <1>4, <3>2, <4>1 DEF Parted
        <4>3. At(w, p) = At(o, p + 1) /\ \A i \in 1..(Len(o) - 1) : i < p => w[i] = o[i]
          BY <1>1, AtWithout
        <4> HIDE DEF w, o2
        <4>4. p \in 1..(Len(w) + 1) /\ \A i \in 1..Len(w) : i \in 1..Len(o) /\ (i < p => i < p + 1)
          <5>1. \A L \in Nat : \A q \in 1..L :
                    /\ q \in 1..(L - 1 + 1)
                    /\ \A i \in 1..(L - 1) : i \in 1..L /\ (i < q => i < q + 1)
            OBVIOUS
          <5> QED
            BY <1>6, <4>1, <5>1
        <4>5. \A i \in 1..Len(w) : i < p => ~(sticky'[w[i]] /\ HasPrefix(w[i], cs.prefix))
          BY <2>5, <4>1, <4>3, <4>4
        <4>6. TableIs(topic_map', w) /\ cs.tmp = At(w, p)
          BY <1>5, <2>2, <4>2, <4>3
        <4>7. cs' \in CSType /\ cs'.op \in Loop /\ Iterates(cs', w, sticky')
          BY <1>1, <1>2, <4>4, <4>5, <4>6, CleanLoop
        <4> QED
          BY <4>2, <4>7
      <3> QED
        BY <3>1, <3>2
    <2>7. ListsAre(cs', subs', l) /\ Walks(walk', cs', l)
      BY <1>2, <1>3, <2>6, LoopFrame
    <2> HIDE DEF o2
    <2>8. Then(o2, u, l)
      BY <1>1, <1>2, <2>2, <2>3, <2>6, <2>7 DEF Then, StandsFor
    <2> QED
      BY <1>a, <1>4, <1>7, <1>10, <2>1, <2>8 DEF o2
  <1> QED
    BY <1>9, <1>10

LEMMA IterationEndsStep ==
    ASSUME NEW o, NEW u, NEW l, Now(o, u, l), IterationEnds
    PROVE  Then(o, u, l)
  <1>1. /\ TableIs(topic_map, o) /\ UsersAre(subscribers, u) /\ ListsAre(cs, subs, l)
        /\ sticky \in [Topic -> BOOLEAN]
        /\ cs \in CSType /\ walk \in WalkType /\ Walks(walk, cs, l)
        /\ Mirrors(u, l) /\ Present(o, u, sticky)
    BY NowFacts
  <1>2. /\ cs.op \in Loop /\ cs' = NoCS
        /\ topic_map' = topic_map /\ subscribers' = subscribers
        /\ sticky' = sticky /\ subs' = subs /\ walk' = walk
    BY DEF IterationEnds, Loop
  <1>3. ListsAre(cs', subs', l)
    <2>1. \A x \in Sub : ~Busy(cs, x) /\ ~Busy(cs', x)
      BY <1>1, <1>2, LoopFields, NoneBusy
    <2>2. ListsAre(cs', subs, l)
      BY <1>1, <2>1, ListsIdle
    <2> QED
      BY <1>2, <2>2
  <1>4. /\ Walks(walk', cs', l) /\ Iterates(cs', o, sticky) /\ cs' \in CSType
    BY <1>1, <1>2, NoneBusy DEF Walks, Iterates
  <1> QED
    BY <1>1, <1>2, <1>3, <1>4 DEF Then, StandsFor

(***************************************************************************)
(* ps_num_subs                                                             *)
(***************************************************************************)

\* Only the walk changes.
LEMMA WalkStep ==
    ASSUME NEW o, NEW u, NEW l, Now(o, u, l), walk' \in WalkType, Walks(walk', cs, l),
           UNCHANGED <<topic_map, subscribers, sticky, subs, cs, used>>
    PROVE  Then(o, u, l)
  BY DEF Now, Then, StandsFor

LEMMA NumSubsStep ==
    ASSUME NEW o, NEW u, NEW l, Now(o, u, l), NEW su \in Sub, NumSubs(su)
    PROVE  Then(o, u, l)
  <1> DEFINE r == l[su]
             list == subs[su]
             apart == ~(cs.op = "unsubscribe_all" /\ cs.su = su)
             least == IF apart THEN DL_COUNT(list) ELSE 0
  <1>1. /\ walk' = [at |-> list.head, count |-> 0, su |-> su, apart |-> apart, least |-> least]
        /\ UNCHANGED <<topic_map, subscribers, sticky, subs, cs, used>>
    BY DEF NumSubs
  <1>2. subs \in [Sub -> ListType(Topic)] /\ l \in [Sub -> Seq(Topic)]
    BY NowFacts
  <1>3. list.head \in Topic \cup {NULL}
    BY <1>2 DEF ListType
  <1>4. PICK w : w = walk'
    OBVIOUS
  <1>5. w.su = su /\ w.at = list.head /\ w.count = 0 /\ w.least = least /\ w.apart = apart
    BY <1>1, <1>4
  <1>6. CASE ~apart
    <2>1. w \in WalkType
      BY <1>1, <1>3, <1>4, <1>6 DEF WalkType
    <2>2. Walks(w, cs, l)
      BY <1>5, <1>6 DEF Walks
    <2> QED
      BY <1>1, <1>4, <2>1, <2>2, WalkStep
  <1>7. CASE apart
    <2>1. Linking(list, r, Topic)
      <3>1. ListIs(cs, su, list, r)
        BY NowOnce
      <3> QED
        BY <1>7, <3>1 DEF ListIs, Holds
    <2>2. r \in Seq(Topic) /\ Leads(list.next, r, list.head) /\ Len(r) \in Nat
      BY <2>1, SeqFacts DEF Linking
    <2>3. least = Len(r)
      <3>1. DL_FOREACH(list) = r
        BY <2>1, LinkingIterates, SubNodes
      <3> QED
        BY <1>7, <3>1 DEF DL_COUNT
    <2>4. w \in WalkType
      BY <1>1, <1>3, <1>4, <2>2, <2>3 DEF WalkType
    <2> HIDE DEF apart, least, list
    <2>5. WalkIn(w, r)
      <3>1. Len(r) <= Len(r)
        BY <2>2
      <3>2. CASE r = <<>>
        <4>1. Len(r) = 0 /\ list.head = NULL /\ 0 <= 0
          BY <2>2, <3>2, SeqFacts DEF Leads
        <4> QED
          BY <1>5, <2>3, <4>1 DEF WalkIn
      <3>3. CASE r # <<>>
        <4>1. 0 < Len(r) /\ list.head = r[0 + 1]
          <5>1. Len(r) # 0
            BY <2>2, <3>3, SeqFacts
          <5> QED
            BY <2>2, <3>3, <5>1 DEF Leads
        <4> QED
          BY <1>5, <2>3, <3>1, <4>1 DEF WalkIn
      <3> QED
        BY <3>2, <3>3
    <2>6. Walks(w, cs, l)
      BY <1>5, <1>7, <2>5 DEF Walks, apart
    <2> QED
      BY <1>1, <1>4, <2>4, <2>6, WalkStep
  <1> QED
    BY <1>6, <1>7

LEMMA NumSubsNextStep ==
    ASSUME NEW o, NEW u, NEW l, Now(o, u, l), NumSubsNext
    PROVE  Then(o, u, l)
  <1>1. /\ walk.at # NULL /\ walk.at # Garbage
        /\ walk' = [walk EXCEPT !.at = subs[walk.su].next[walk.at],
                                !.count = IF walk.apart THEN walk.count + 1 ELSE 0]
        /\ UNCHANGED <<topic_map, subscribers, sticky, subs, cs, used>>
    BY DEF NumSubsNext
  <1>2. /\ walk \in WalkType /\ Walks(walk, cs, l) /\ l \in [Sub -> Seq(Topic)]
        /\ subs \in [Sub -> ListType(Topic)]
    BY NowFacts
  <1>3. walk # NoWalk
    BY <1>1 DEF NoWalk
  <1>4. /\ walk.su \in Sub
        /\ walk.apart => /\ WalkIn(walk, l[walk.su])
                         /\ ~(cs.op = "unsubscribe_all" /\ cs.su = walk.su)
    BY <1>2, <1>3, WalkFacts
  <1>a. PICK su : su = walk.su
    OBVIOUS
  <1> DEFINE r == l[su]
             list == subs[su]
             after == list.next[walk.at]
  <1>5. walk.at \in Topic /\ after \in Topic \cup {NULL, Garbage}
    <2>1. walk.at \in Topic
      BY <1>1, <1>2 DEF WalkType
    <2>2. list \in ListType(Topic)
      BY <1>a, <1>2, <1>4
    <2> QED
      BY <2>1, <2>2 DEF ListType, Pointer
  <1>6. PICK w : w = walk'
    OBVIOUS
  <1>7. CASE ~walk.apart
    <2>1. w = [walk EXCEPT !.at = after, !.count = 0]
      BY <1>a, <1>1, <1>6, <1>7
    <2> HIDE DEF after
    <2>2. w \in WalkType /\ w.su = su /\ ~w.apart
      BY <1>a, <1>2, <1>5, <1>7, <2>1 DEF WalkType
    <2>3. Walks(w, cs, l)
      BY <1>a, <1>4, <2>2 DEF Walks
    <2> QED
      BY <1>1, <1>6, <2>2, <2>3, WalkStep
  <1>8. CASE walk.apart
    <2>1. Linking(list, r, Topic)
      <3>1. ListIs(cs, su, list, r)
        BY <1>a, <1>4, NowOnce
      <3> QED
        BY <1>a, <1>4, <1>8, <3>1 DEF ListIs, Holds
    <2>2. r \in Seq(Topic) /\ Leads(list.next, r, list.head) /\ Len(r) \in Nat
      BY <2>1, SeqFacts DEF Linking
    <2>3. /\ walk.count \in Nat /\ walk.least \in Nat /\ walk.least <= Len(r)
          /\ walk.count < Len(r) /\ walk.at = r[walk.count + 1]
      BY <1>a, <1>1, <1>2, <1>4, <1>8 DEF WalkIn, WalkType
    <2> DEFINE i == walk.count + 1
    <2>4. i \in 1..Len(r) /\ i \in Nat /\ (i # Len(r) => i + 1 \in 1..Len(r) /\ i < Len(r))
          /\ i <= Len(r) /\ (i = Len(r) => walk.least <= i)
      BY <2>2, <2>3
    <2>5. after = IF i = Len(r) THEN NULL ELSE r[i + 1]
      BY <2>2, <2>3, <2>4 DEF Leads
    <2>6. w = [walk EXCEPT !.at = after, !.count = i]
      BY <1>a, <1>1, <1>6, <1>8
    <2> HIDE DEF i, after
    <2>7. w \in WalkType /\ w.at = after /\ w.count = i /\ w.least = walk.least /\ w.su = su
          /\ w.apart
      BY <1>a, <1>2, <1>5, <1>8, <2>4, <2>6 DEF WalkType
    <2>8. WalkIn(w, r)
      <3>1. CASE i = Len(r)
        BY <2>3, <2>4, <2>5, <2>7, <3>1 DEF WalkIn
      <3>2. CASE i # Len(r)
        BY <2>3, <2>4, <2>5, <2>7, <3>2 DEF WalkIn
      <3> QED
        BY <3>1, <3>2
    <2>9. Walks(w, cs, l)
      BY <1>a, <1>4, <1>8, <2>7, <2>8 DEF Walks
    <2> QED
      BY <1>1, <1>6, <2>7, <2>9, WalkStep
  <1> QED
    BY <1>7, <1>8

LEMMA NumSubsEndsStep ==
    ASSUME NEW o, NEW u, NEW l, Now(o, u, l), NumSubsEnds
    PROVE  Then(o, u, l)
  <1>1. walk' = NoWalk /\ UNCHANGED <<topic_map, subscribers, sticky, subs, cs, used>>
    BY DEF NumSubsEnds
  <1>2. NoWalk \in WalkType /\ Walks(NoWalk, cs, l)
    BY DEF NoWalk, WalkType, Walks
  <1> QED
    BY <1>1, <1>2, WalkStep

(***************************************************************************)
(* The invariant is inductive                                              *)
(***************************************************************************)

LEMMA EmptyLists ==
    ASSUME NEW N, Nodes(N)
    PROVE  EmptyList(N) \in ListType(N) /\ Holds(EmptyList(N), <<>>, N)
  <1> DEFINE garbage == [n \in N |-> Garbage]
  <1>1. garbage \in [N -> Pointer(N)] /\ \A n \in N : garbage[n] = Garbage
    BY DEF Pointer
  <1> HIDE DEF garbage
  <1>2. /\ EmptyList(N) \in ListType(N) /\ EmptyList(N).head = NULL
        /\ EmptyList(N).next = garbage
    BY <1>1 DEF EmptyList, ListType, garbage
  <1>3. Holds(EmptyList(N), <<>>, N)
    BY <1>1, <1>2, EmptyHolds
  <1> QED
    BY <1>2, <1>3

LEMMA InitNow == Init => Now(<<>>, [t \in Topic |-> <<>>], [su \in Sub |-> <<>>])
  <1> SUFFICES ASSUME Init PROVE Now(<<>>, [t \in Topic |-> <<>>], [su \in Sub |-> <<>>])
    OBVIOUS
  <1> DEFINE u == [t \in Topic |-> <<>>]
             l == [su \in Sub |-> <<>>]
  <1>1. /\ topic_map = NoTable
        /\ subscribers = [t \in Topic |-> EmptyList(Sub)]
        /\ sticky = [t \in Topic |-> FALSE]
        /\ subs = [su \in Sub |-> EmptyList(Topic)]
        /\ cs = NoCS /\ walk = NoWalk
    BY DEF Init
  <1>2. /\ \A t \in Topic : u[t] = <<>> /\ ~sticky[t] /\ subscribers[t] = EmptyList(Sub)
        /\ \A su \in Sub : l[su] = <<>> /\ subs[su] = EmptyList(Topic)
        /\ u \in [Topic -> Seq(Sub)] /\ l \in [Sub -> Seq(Topic)] /\ sticky \in [Topic -> BOOLEAN]
    <2>1. <<>> \in Seq(Sub) /\ <<>> \in Seq(Topic)
      BY EmptySeq
    <2> QED
      BY <1>1, <2>1
  <1> HIDE DEF u, l
  <1>3. UsersAre(subscribers, u)
    <2>1. EmptyList(Sub) \in ListType(Sub) /\ Holds(EmptyList(Sub), <<>>, Sub)
      BY EmptyLists, SubNodes
    <2> QED
      BY <1>1, <1>2, <2>1 DEF UsersAre
  <1>4. ListsAre(cs, subs, l)
    <2>1. EmptyList(Topic) \in ListType(Topic) /\ Holds(EmptyList(Topic), <<>>, Topic)
      BY EmptyLists, SubNodes
    <2>2. \A su \in Sub : ListIs(cs, su, subs[su], l[su])
      BY <1>1, <1>2, <2>1, NoneBusy DEF ListIs
    <2> QED
      BY <1>1, <1>2, <2>1, <2>2 DEF ListsAre
  <1>5. TableIs(topic_map, <<>>)
    BY <1>1, NoTableEmpty
  <1>6. walk \in WalkType /\ Walks(walk, cs, l)
    BY <1>1 DEF WalkType, NoWalk, Walks
  <1>7. ToSet(<<>>) = {}
    BY DEF ToSet
  <1>8. Mirrors(u, l) /\ Present(<<>>, u, sticky)
    BY <1>2, <1>7 DEF Mirrors, Present
  <1>9. Iterates(cs, <<>>, sticky) /\ cs \in CSType
    BY <1>1, NoneBusy DEF Iterates
  <1>10. Now(<<>>, u, l)
    BY <1>2, <1>3, <1>4, <1>5, <1>6, <1>8, <1>9 DEF Now, StandsFor
  <1> QED
    BY <1>10 DEF u, l

LEMMA InvNow == RegistryInv <=> \E o, u, l : Now(o, u, l)
  BY DEF RegistryInv, Now

LEMMA ThenInv ==
    ASSUME NEW o, NEW u, NEW l, Then(o, u, l)
    PROVE  RegistryInv'
  BY DEF RegistryInv, Then

LEMMA InvStep == RegistryInv /\ [Next]_vars => RegistryInv'
  <1> SUFFICES ASSUME RegistryInv, [Next]_vars PROVE RegistryInv'
    OBVIOUS
  <1>1. PICK o, u, l : Now(o, u, l)
    BY InvNow
  <1>2. ASSUME NEW su \in Sub, NEW t \in Topic, Unsubscribe(su, t) PROVE RegistryInv'
    BY <1>1, <1>2, UnsubscribeStep, ThenInv
  <1>3. ASSUME NEW su \in Sub, NEW t \in Topic, NEW children \in BOOLEAN, Subscribe(su, t, children)
        PROVE  RegistryInv'
    BY <1>1, <1>3, SubscribeStep, ThenInv
  <1>4. ASSUME NEW su \in Sub, UnsubscribeAll(su) \/ NumSubs(su) PROVE RegistryInv'
    BY <1>1, <1>4, UnsubscribeAllStep, NumSubsStep, ThenInv
  <1>5. ASSUME NEW t \in Retain, PublishSticky(t) \/ PublishClears(t) PROVE RegistryInv'
    <2>1. t \in Topic
      BY RegistryAssumption
    <2> QED
      BY <1>1, <1>5, <2>1, PublishStickyStep, PublishClearsStep, ThenInv
  <1>6. ASSUME NEW t \in Retain \cup {<<>>}, CleanSticky(t) PROVE RegistryInv'
    <2>1. t \in Topic \cup {<<>>}
      BY RegistryAssumption
    <2> QED
      BY <1>1, <1>6, <2>1, CleanStickyStep, ThenInv
  <1>7. CASE Loops
    <2>1. CASE SubscribeEnds
      BY <1>1, <2>1, SubscribeEndsStep, ThenInv
    <2>2. CASE UnsubscribeNext
      BY <1>1, <2>2, UnsubscribeNextStep, ThenInv
    <2>3. CASE UnsubscribeAllEnds
      BY <1>1, <2>3, UnsubscribeAllEndsStep, ThenInv
    <2>4. CASE PushNext
      BY <1>1, <2>4, PushNextStep, ThenInv
    <2>5. CASE CleanNext
      BY <1>1, <2>5, CleanNextStep, ThenInv
    <2>6. CASE IterationEnds
      BY <1>1, <2>6, IterationEndsStep, ThenInv
    <2> QED
      BY <1>7, <2>1, <2>2, <2>3, <2>4, <2>5, <2>6 DEF Loops
  <1>8. CASE NumSubsNext \/ NumSubsEnds
    BY <1>1, <1>8, NumSubsNextStep, NumSubsEndsStep, ThenInv
  <1>9. CASE UNCHANGED vars
    BY <1>9 DEF vars, RegistryInv
  <1>10. Counted \subseteq Sub
    BY RegistryAssumption
  <1> QED
    BY <1>2, <1>3, <1>4, <1>5, <1>6, <1>7, <1>8, <1>9, <1>10 DEF Next

\* After every step of every operation the pointers stand for some topics, some
\* subscribers of each and some topics of each subscriber: the inductive invariant.
THEOREM RegistryStands == Spec => []RegistryInv
  <1>1. Init => RegistryInv
    BY InitNow, InvNow
  <1> QED
    BY <1>1, InvStep, PTL DEF Spec

(***************************************************************************)
(* What the invariant says                                                 *)
(***************************************************************************)

\* What the iterations over the containers yield
LEMMA ReadUsers ==
    ASSUME NEW users, NEW u, UsersAre(users, u)
    PROVE  [t \in Topic |-> DL_FOREACH(users[t])] = u
  <1>1. ASSUME NEW t \in Topic PROVE DL_FOREACH(users[t]) = u[t]
    <2>1. Linking(users[t], u[t], Sub)
      BY DEF UsersAre, Holds
    <2> QED
      BY <2>1, LinkingIterates, SubNodes
  <1>2. u \in [Topic -> Seq(Sub)]
    BY DEF UsersAre
  <1> QED
    BY <1>1, <1>2

LEMMA ReadList ==
    ASSUME NEW c, NEW su, NEW list, NEW s, ListIs(c, su, list, s)
    PROVE  s = IF c.op = "unsubscribe_all" /\ c.su = su THEN Chain(c.s, list.next) ELSE DL_FOREACH(list)
  <1>1. CASE c.op = "unsubscribe_all" /\ c.su = su
    <2>1. Dropping(list, s, c.s)
      BY <1>1 DEF ListIs
    <2>2. /\ list.next \in [Topic -> Pointer(Topic)] /\ s \in Seq(Topic) /\ Once(s)
          /\ Leads(list.next, s, c.s)
      BY <2>1 DEF Dropping, ListType
    <2>3. Chain(c.s, list.next) = s
      BY <2>2, ChainIs, SubNodes
    <2> QED
      BY <1>1, <2>3
  <1>2. CASE ~(c.op = "unsubscribe_all" /\ c.su = su)
    <2>1. Linking(list, s, Topic)
      BY <1>2 DEF ListIs, Holds
    <2>2. DL_FOREACH(list) = s
      BY <2>1, LinkingIterates, SubNodes
    <2> QED
      BY <1>2, <2>2
  <1> QED
    BY <1>1, <1>2

LEMMA NowReads ==
    ASSUME NEW o, NEW u, NEW l, Now(o, u, l)
    PROVE  /\ Topics = o
           /\ [t \in Topic |-> DL_FOREACH(subscribers[t])] = u
           /\ [su \in Sub |-> SubsOf(su)] = l
           /\ \A t \in Topic : DL_FOREACH(subscribers[t]) = u[t]
           /\ \A su \in Sub : SubsOf(su) = l[su]
  <1>1. /\ TableIs(topic_map, o) /\ UsersAre(subscribers, u)
        /\ l \in [Sub -> Seq(Topic)] /\ u \in [Topic -> Seq(Sub)]
    BY NowFacts
  <1>2. Topics = o
    BY <1>1, IterIs DEF Topics
  <1>3. [t \in Topic |-> DL_FOREACH(subscribers[t])] = u
    BY <1>1, ReadUsers
  <1>4. \A su \in Sub : SubsOf(su) = l[su]
    <2> TAKE su \in Sub
    <2>1. ListIs(cs, su, subs[su], l[su])
      BY NowOnce
    <2> QED
      BY <2>1, ReadList DEF SubsOf
  <1>5. [su \in Sub |-> SubsOf(su)] = l
    BY <1>1, <1>4
  <1>6. \A t \in Topic : DL_FOREACH(subscribers[t]) = u[t]
    BY <1>3
  <1> QED
    BY <1>2, <1>3, <1>4, <1>5, <1>6

LEMMA InvLists == RegistryInv => ListsWellFormed
  <1> SUFFICES ASSUME RegistryInv PROVE ListsWellFormed
    OBVIOUS
  <1>1. PICK o, u, l : Now(o, u, l)
    BY InvNow
  <1>2. ASSUME NEW N, Nodes(N), NEW list, NEW s, Holds(list, s, N)
        PROVE  /\ DL_FOREACH(list) = s /\ Represents(list, s)
               /\ \A n \in N \ ToSet(s) : list.next[n] = Garbage
    <2>1. Linking(list, s, N)
      BY <1>2 DEF Holds
    <2>2. DL_FOREACH(list) = s
      BY <1>2, <2>1, LinkingIterates
    <2>3. Represents(list, s)
      BY <1>2, HoldsRepresents
    <2> QED
      BY <2>1, <2>2, <2>3 DEF Linking
  <1>3. ASSUME NEW t \in Topic
        PROVE  LET s == DL_FOREACH(subscribers[t])
               IN  /\ Represents(subscribers[t], s)
                   /\ \A n \in Sub \ ToSet(s) : subscribers[t].next[n] = Garbage
    <2>1. Holds(subscribers[t], u[t], Sub)
      BY <1>1, NowOnce
    <2> QED
      BY <1>2, <2>1, SubNodes
  <1>4. ASSUME NEW su \in Sub, Settles(su)
        PROVE  LET s == DL_FOREACH(subs[su])
               IN  /\ Represents(subs[su], s)
                   /\ \A n \in Topic \ ToSet(s) : subs[su].next[n] = Garbage
    <2>1. Holds(subs[su], l[su], Topic)
      <3>1. ListIs(cs, su, subs[su], l[su])
        BY <1>1, NowOnce
      <3> QED
        BY <1>4, <3>1 DEF ListIs, Settles
    <2> QED
      BY <1>2, <2>1, SubNodes
  <1> QED
    BY <1>3, <1>4 DEF ListsWellFormed

\* An element is in memory exactly while it is in the order.
LEMMA InMemory ==
    ASSUME NEW h, NEW o, TableIs(h, o), NEW t \in Topic
    PROVE  t \in ToSet(o) <=> h.next[t] # Garbage
  <1>1. o \in Seq(Topic) /\ \A k \in Key : k \notin ToSet(o) => h.next[k] = Garbage
    BY DEF TableIs, Ordered, Topic
  <1>2. ASSUME t \in ToSet(o) PROVE h.next[t] # Garbage
    <2>1. PICK i \in 1..Len(o) : t = o[i]
      BY <1>1, <1>2, SeqFacts
    <2>2. h.next[t] = At(o, i + 1)
      BY <2>1, NextIs
    <2>3. At(o, i + 1) \in Topic \cup {NULL}
      BY <1>1, AtType
    <2>4. Garbage \notin Topic \cup {NULL}
      BY SubNodes, PointersAssumption DEF Nodes
    <2> QED
      BY <2>2, <2>3, <2>4
  <1> QED
    BY <1>1, <1>2 DEF Topic

LEMMA InvTable == RegistryInv => TableSound /\ ChainsBounded
  <1> SUFFICES ASSUME RegistryInv PROVE TableSound /\ ChainsBounded
    OBVIOUS
  <1>1. PICK o, u, l : Now(o, u, l)
    BY InvNow
  <1>2. TableIs(topic_map, o) /\ o \in Seq(Topic)
    BY <1>1, NowFacts
  <1>3. Topics = o
    BY <1>1, NowReads
  <1>4. Sound(topic_map)
    BY <1>2, SoundIs
  <1>5. ToSet(o) \subseteq Topic
    BY <1>2, SeqFacts
  <1>6. \A t \in Topic : HASH_FIND(topic_map, t) = t <=> t \in ToSet(o)
    <2>1. \A t \in Topic : HASH_FIND(topic_map, t) = IF t \in ToSet(o) THEN t ELSE NULL
      BY <1>2, FindIs DEF Topic
    <2> QED
      BY <2>1, SubNodes DEF Nodes
  <1>7. \A t \in Topic : topic_map.next[t] # Garbage <=> t \in ToSet(o)
    BY <1>2, InMemory
  <1>8. TableSound
    BY <1>3, <1>4, <1>5, <1>6, <1>7 DEF TableSound
  <1>9. ChainsBounded
    <2>1. SUFFICES ASSUME topic_map.head # NULL, ~topic_map.noexpand
                   PROVE  Fits(topic_map)
      BY DEF ChainsBounded, Fits, BucketFits
    <2>2. o # <<>>
      BY <1>2, <2>1, HeadIs
    <2> QED
      BY <1>2, <2>1, <2>2 DEF TableIs
  <1> QED
    BY <1>8, <1>9

\* The lists of utlist.h and the table of uthash.h are sound after every operation,
\* whatever pubsub.c has added and deleted, and no node is lost (pubsub.c:444, :447,
\* :487, :492): for every hash function, so also when all topics share a bucket.
THEOREM Containers == Spec => []ContainersSound
  <1>1. RegistryInv => ContainersSound
    BY InvLists, InvTable DEF ContainersSound
  <1> QED
    BY <1>1, RegistryStands, PTL

LEMMA InvMemory == RegistryInv => NoneFreedIsUsed
  <1> SUFFICES ASSUME RegistryInv PROVE NoneFreedIsUsed
    OBVIOUS
  <1>1. PICK o, u, l : Now(o, u, l)
    BY InvNow
  <1>2. /\ TableIs(topic_map, o) /\ cs \in CSType /\ walk \in WalkType
        /\ Mirrors(u, l) /\ Present(o, u, sticky) /\ l \in [Sub -> Seq(Topic)]
    BY <1>1, NowFacts
  <1>3. Garbage \notin Topic \cup {NULL}
    BY SubNodes, PointersAssumption DEF Nodes
  <1>4. cs.op = "unsubscribe_all" => cs.s # Garbage
    BY <1>2, <1>3, UnsubscribeFields
  <1>5. cs.op \in {"push_child_sticky", "clean_sticky"} => Garbage \notin {cs.el, cs.tmp}
    <2>1. SUFFICES ASSUME cs.op \in Loop PROVE Garbage \notin {cs.el, cs.tmp}
      BY DEF Loop
    <2>2. cs \in [op : Loop, prefix : Topic \cup {<<>>}, el : Topic \cup {NULL},
                  done : SUBSET Topic, tmp : Topic \cup {NULL}]
      BY <1>2, <2>1, LoopFields
    <2> QED
      BY <1>3, <2>2
  <1>6. ASSUME walk.apart, walk.at # NULL
        PROVE  walk.at \in Topic /\ subs[walk.su].next[walk.at] # Garbage
    <2>1. Walks(walk, cs, l) /\ walk # NoWalk
      BY <1>1, <1>6, NowFacts DEF NoWalk
    <2>2. PICK su \in Sub : su = walk.su /\ WalkIn(walk, l[su])
                            /\ ~(cs.op = "unsubscribe_all" /\ cs.su = su)
      BY <1>6, <2>1, WalkFacts
    <2> DEFINE r == l[su]
               list == subs[su]
    <2>3. Linking(list, r, Topic)
      <3>1. ListIs(cs, su, list, r)
        BY <1>1, NowOnce
      <3> QED
        BY <2>2, <3>1 DEF ListIs, Holds
    <2>4. r \in Seq(Topic) /\ Leads(list.next, r, list.head) /\ Len(r) \in Nat
      BY <2>3, SeqFacts DEF Linking
    <2>5. walk.count \in Nat /\ walk.count < Len(r) /\ walk.at = r[walk.count + 1]
      BY <1>2, <1>6, <2>2 DEF WalkIn, WalkType
    <2> DEFINE i == walk.count + 1
    <2>6. i \in 1..Len(r) /\ (i # Len(r) => i + 1 \in 1..Len(r))
      BY <2>4, <2>5
    <2>7. list.next[walk.at] = IF i = Len(r) THEN NULL ELSE r[i + 1]
      BY <2>4, <2>5, <2>6 DEF Leads
    <2> HIDE DEF i
    <2>8. walk.at \in Topic /\ list.next[walk.at] \in Topic \cup {NULL}
      BY <2>4, <2>5, <2>6, <2>7, SeqFacts DEF i
    <2> QED
      BY <1>3, <2>2, <2>8
  <1>7. ASSUME NEW su \in Sub, NEW t \in ToSet(SubsOf(su))
        PROVE  t \in Topic /\ topic_map.next[t] # Garbage
    <2>1. t \in ToSet(l[su])
      BY <1>1, <1>7, NowReads
    <2>2. t \in Topic
      <3>1. l[su] \in Seq(Topic)
        BY <1>2
      <3> QED
        BY <2>1, <3>1, SeqFacts
    <2>3. su \in ToSet(u[t])
      BY <1>2, <2>1, <2>2 DEF Mirrors
    <2>4. u[t] # <<>>
      BY <2>3 DEF ToSet
    <2>5. t \in ToSet(o)
      BY <1>2, <2>2, <2>4 DEF Present
    <2> QED
      BY <1>2, <2>2, <2>5, InMemory
  <1> QED
    BY <1>4, <1>5, <1>6, <1>7 DEF NoneFreedIsUsed

\* Nobody goes on from freed memory: not ps_unsubscribe_all and ps_clean_sticky, which
\* free as they loop (pubsub.c:521, :569); and no subscription outlives its topic.
\* ps_num_subs, which has no lock (pubsub.c:542), is on a node that is allocated until
\* somebody unsubscribes the same subscriber during the call; of calls that this
\* happens to nothing is said, and they may be on a freed node.
THEOREM MemorySafe == Spec => []NoneFreedIsUsed
  BY InvMemory, RegistryStands, PTL

LEMMA InvIteration == RegistryInv => IterationComplete
  <1> SUFFICES ASSUME RegistryInv PROVE IterationComplete
    OBVIOUS
  <1>1. PICK o, u, l : Now(o, u, l)
    BY InvNow
  <1>2. /\ o \in Seq(Topic) /\ cs \in CSType /\ Present(o, u, sticky) /\ Iterates(cs, o, sticky)
    BY <1>1, NowFacts
  <1> DEFINE left == {t \in Topic : sticky[t] /\ HasPrefix(t, cs.prefix)}
  <1>3. ASSUME cs.op \in Loop, cs.el = NULL
        PROVE  /\ cs.op = "push_child_sticky" => cs.done = left
               /\ cs.op = "clean_sticky" => left = {}
    <2>1. PICK p \in 1..(Len(o) + 1) : LoopAt(cs, o, sticky, p)
      BY <1>2, <1>3 DEF Iterates
    <2>2. cs.el = At(o, p)
      BY <2>1 DEF LoopAt
    <2>3. Len(o) \in Nat /\ p \notin 1..Len(o)
      BY <1>2, <1>3, <2>2, AtType, SeqFacts
    <2>4. \A i \in 1..Len(o) : i < p
      <3>1. \A L \in Nat : \A q \in 1..(L + 1) : q \notin 1..L => \A i \in 1..L : i < q
        OBVIOUS
      <3> QED
        BY <2>3, <3>1
    <2>5. \A t \in Topic : sticky[t] => \E i \in 1..Len(o) : i < p /\ t = o[i]
      <3>1. \A t \in Topic : sticky[t] => t \in ToSet(o)
        BY <1>2 DEF Present
      <3>2. \A t \in ToSet(o) : \E i \in 1..Len(o) : t = o[i]
        BY <1>2, SeqFacts
      <3> QED
        BY <2>4, <3>1, <3>2
    <2>6. ASSUME cs.op = "push_child_sticky" PROVE cs.done = left
      <3>1. \A t \in Topic : t \in cs.done <=> /\ sticky[t] /\ HasPrefix(t, cs.prefix)
                                               /\ \E i \in 1..Len(o) : i < p /\ t = o[i]
        BY <2>1, <2>6 DEF LoopAt
      <3>2. cs.done \subseteq Topic
        <4>1. cs \in [op : Loop, prefix : Topic \cup {<<>>}, el : Topic \cup {NULL},
                      done : SUBSET Topic, tmp : Topic \cup {NULL}]
          BY <1>2, <1>3, LoopFields
        <4> QED
          BY <4>1
      <3>3. \A t \in Topic : t \in cs.done <=> t \in left
        BY <2>5, <3>1
      <3> QED
        BY <3>2, <3>3
    <2>7. ASSUME cs.op = "clean_sticky" PROVE left = {}
      <3>1. \A i \in 1..Len(o) : i < p => ~(sticky[o[i]] /\ HasPrefix(o[i], cs.prefix))
        BY <2>1, <2>7 DEF LoopAt
      <3> QED
        BY <2>5, <3>1
    <2> QED
      BY <2>6, <2>7
  <1> QED
    BY <1>3 DEF IterationComplete, Loop

\* The loops of push_child_sticky and ps_clean_sticky over the table meet every topic
\* they are for, also the one that frees topics on its way (pubsub.c:569).
THEOREM IterationsComplete == Spec => []IterationComplete
  BY InvIteration, RegistryStands, PTL

LEMMA InvNumSubs == RegistryInv => NumSubsInRange
  <1> SUFFICES ASSUME RegistryInv, walk # NoWalk, walk.apart, walk.at = NULL
               PROVE  walk.least <= walk.count /\ walk.count <= Len(SubsOf(walk.su))
    BY DEF NumSubsInRange
  <1>1. PICK o, u, l : Now(o, u, l)
    BY InvNow
  <1>2. walk \in WalkType /\ Walks(walk, cs, l) /\ l \in [Sub -> Seq(Topic)]
    BY <1>1, NowFacts
  <1>3. walk.su \in Sub /\ WalkIn(walk, l[walk.su])
    BY <1>2, WalkFacts
  <1>4. SubsOf(walk.su) = l[walk.su]
    BY <1>1, <1>3, NowReads
  <1>5. ~(walk.count < Len(l[walk.su]) /\ walk.at = l[walk.su][walk.count + 1])
    <2>1. SUFFICES ASSUME walk.count < Len(l[walk.su]) PROVE l[walk.su][walk.count + 1] # NULL
      OBVIOUS
    <2>2. l[walk.su] \in Seq(Topic) /\ walk.count \in Nat
      BY <1>2, <1>3 DEF WalkType
    <2>3. Len(l[walk.su]) \in Nat /\ \A i \in 1..Len(l[walk.su]) : l[walk.su][i] \in Topic
      BY <2>2, SeqFacts
    <2>4. walk.count + 1 \in 1..Len(l[walk.su])
      BY <2>1, <2>2, <2>3
    <2> QED
      BY <2>3, <2>4, SubNodes DEF Nodes
  <1> QED
    BY <1>3, <1>4, <1>5 DEF WalkIn

\* ps_num_subs, without the lock, counts no fewer subscriptions than there were when
\* it began and no more than there are when it ends (pubsub.c:542), if nobody
\* unsubscribes the same subscriber during the call.
THEOREM CountsAreInRange == Spec => []NumSubsInRange
  BY InvNumSubs, RegistryStands, PTL

(***************************************************************************)
(* The pointers implement the registry of TopicRegistry                    *)
(***************************************************************************)

\* The library's operators, as TopicRegistry and Registry take them
LEMMA SameContains ==
    ASSUME NEW s, NEW x
    PROVE  Abstract!Contains(s, x) <=> Contains(s, x)
  BY DEF Abstract!Contains, Contains

LEMMA SameRemoveFirst ==
    ASSUME NEW s, NEW x
    PROVE  Abstract!RemoveFirst(s, x) = RemoveFirst(s, x)
  BY DEF Abstract!RemoveFirst, RemoveFirst, Abstract!RemoveAt, RemoveAt,
         Abstract!SelectInSeq, SelectInSeq, Abstract!Min, Min

\* What TopicRegistry's variables are before and after a step
ShowsNow(o, u, l) ==
    /\ Topics = o
    /\ [t \in Topic |-> DL_FOREACH(subscribers[t])] = u
    /\ [su \in Sub |-> SubsOf(su)] = l
ShowsThen(o, u, l) ==
    /\ Topics' = o
    /\ [t \in Topic |-> DL_FOREACH(subscribers[t])]' = u
    /\ [su \in Sub |-> SubsOf(su)]' = l

LEMMA NowBefore ==
    ASSUME NEW o, NEW u, NEW l, Now(o, u, l)
    PROVE  ShowsNow(o, u, l)
  BY NowReads DEF ShowsNow

LEMMA ThenAfter ==
    ASSUME NEW o, NEW u, NEW l, Then(o, u, l)
    PROVE  ShowsThen(o, u, l)
  <1>1. /\ TableIs(topic_map', o) /\ UsersAre(subscribers', u)
        /\ l \in [Sub -> Seq(Topic)] /\ u \in [Topic -> Seq(Sub)]
        /\ ListsAre(cs', subs', l)
    BY DEF Then, StandsFor, UsersAre, ListsAre
  <1>2. Topics' = o
    BY <1>1, IterIs DEF Topics
  <1>3. [t \in Topic |-> DL_FOREACH(subscribers'[t])] = u
    BY <1>1, ReadUsers
  <1>4. \A su \in Sub : SubsOf(su)' = l[su]
    <2> TAKE su \in Sub
    <2>1. ListIs(cs', su, subs'[su], l[su])
      BY <1>1 DEF ListsAre
    <2> QED
      BY <2>1, ReadList DEF SubsOf
  <1>5. [su \in Sub |-> SubsOf(su)]' = l
    BY <1>1, <1>4
  <1> QED
    BY <1>2, <1>3, <1>5 DEF ShowsThen

LEMMA InitImplements == Init => Abstract!Init
  <1> SUFFICES ASSUME Init PROVE Abstract!Init
    OBVIOUS
  <1>1. ShowsNow(<<>>, [t \in Topic |-> <<>>], [su \in Sub |-> <<>>])
    BY InitNow, NowBefore
  <1>2. {t \in Topic : sticky[t]} = {}
    BY DEF Init
  <1> QED
    BY <1>1, <1>2 DEF Abstract!Init, ShowsNow

LEMMA AddImplements ==
    ASSUME NEW o \in Seq(Topic), NEW u \in [Topic -> Seq(Sub)], NEW l \in [Sub -> Seq(Topic)],
           NEW su \in Sub, NEW t \in Topic, t \notin ToSet(l[su]),
           ShowsNow(o, u, l), sticky' = sticky,
           ShowsThen(Joined(o, t), [u EXCEPT ![t] = Append(u[t], su)],
                                [l EXCEPT ![su] = Append(l[su], t)])
    PROVE  Abstract!Next
  <1>1. ~Abstract!Contains(l[su], t)
    BY SameContains, ContainsIs
  <1>2. Joined(o, t) = IF Abstract!Contains(o, t) THEN o ELSE Append(o, t)
    BY SameContains, ContainsIs DEF Joined
  <1>3. Abstract!Subscribe(su, t)
    BY <1>1, <1>2 DEF Abstract!Subscribe, Abstract!With, ShowsNow, ShowsThen
  <1> QED
    BY <1>3 DEF Abstract!Next

LEMMA RemoveImplements ==
    ASSUME NEW o \in Seq(Topic), NEW u \in [Topic -> Seq(Sub)], NEW l \in [Sub -> Seq(Topic)],
           NEW su \in Sub, NEW t \in Topic, t \in ToSet(l[su]),
           ShowsNow(o, u, l), sticky' = sticky,
           ShowsThen(Parted(o, t, RemoveFirst(u[t], su) # <<>> \/ sticky[t]),
                  [u EXCEPT ![t] = RemoveFirst(u[t], su)],
                  [l EXCEPT ![su] = RemoveFirst(l[su], t)])
    PROVE  Abstract!Next
  <1>1. Abstract!Contains(l[su], t)
    BY SameContains, ContainsIs
  <1>2. /\ Abstract!RemoveFirst(o, t) = RemoveFirst(o, t)
        /\ Abstract!RemoveFirst(u[t], su) = RemoveFirst(u[t], su)
        /\ Abstract!RemoveFirst(l[su], t) = RemoveFirst(l[su], t)
    BY SameRemoveFirst
  <1>3. Abstract!Unsubscribe(su, t)
    BY <1>1, <1>2 DEF Abstract!Unsubscribe, Abstract!Unless, ShowsNow, ShowsThen, Parted
  <1> QED
    BY <1>3 DEF Abstract!Next

LEMMA RetainImplements ==
    ASSUME NEW o \in Seq(Topic), NEW u, NEW l, NEW t \in Topic, sticky \in [Topic -> BOOLEAN],
           ShowsNow(o, u, l), sticky[t] => t \in ToSet(o), sticky' = [sticky EXCEPT ![t] = TRUE],
           ShowsThen(Joined(o, t), u, l)
    PROVE  Abstract!Next \/ UNCHANGED Abstract!vars
  <1>1. CASE sticky[t]
    <2>1. sticky' = sticky /\ Joined(o, t) = o
      BY <1>1 DEF Joined
    <2> QED
      BY <2>1 DEF Abstract!vars, ShowsNow, ShowsThen
  <1>2. CASE ~sticky[t]
    <2>1. Joined(o, t) = IF Abstract!Contains(o, t) THEN o ELSE Append(o, t)
      BY SameContains, ContainsIs DEF Joined
    <2>2. {v \in Topic : sticky'[v]} = {v \in Topic : sticky[v]} \cup {t}
      OBVIOUS
    <2>3. Abstract!Retains(t)
      BY <1>2, <2>1, <2>2 DEF Abstract!Retains, Abstract!With, ShowsNow, ShowsThen
    <2> QED
      BY <2>3 DEF Abstract!Next
  <1> QED
    BY <1>1, <1>2

LEMMA ForgetImplements ==
    ASSUME NEW o \in Seq(Topic), NEW u, NEW l, NEW t \in Topic, sticky \in [Topic -> BOOLEAN],
           ShowsNow(o, u, l), sticky[t], sticky' = [sticky EXCEPT ![t] = FALSE],
           ShowsThen(Parted(o, t, u[t] # <<>>), u, l)
    PROVE  Abstract!Next
  <1>1. {v \in Topic : sticky'[v]} = {v \in Topic : sticky[v]} \ {t}
    OBVIOUS
  <1>2. Abstract!RemoveFirst(o, t) = RemoveFirst(o, t)
    BY SameRemoveFirst
  <1>3. Abstract!Forgets(t)
    BY <1>1, <1>2 DEF Abstract!Forgets, Abstract!Unless, ShowsNow, ShowsThen, Parted
  <1> QED
    BY <1>3 DEF Abstract!Next

\* Nothing of the registry changes.
LEMMA Stutters ==
    ASSUME NEW o, NEW u, NEW l, Now(o, u, l), Then(o, u, l), sticky' = sticky
    PROVE  UNCHANGED Abstract!vars
  <1>1. ShowsNow(o, u, l) /\ ShowsThen(o, u, l)
    BY NowBefore, ThenAfter
  <1> QED
    BY <1>1 DEF Abstract!vars, ShowsNow, ShowsThen

LEMMA StepImplements == RegistryInv /\ [Next]_vars => [Abstract!Next]_(Abstract!vars)
  <1> SUFFICES ASSUME RegistryInv, [Next]_vars
               PROVE  Abstract!Next \/ UNCHANGED Abstract!vars
    OBVIOUS
  <1>1. PICK o, u, l : Now(o, u, l)
    BY InvNow
  <1>2. /\ o \in Seq(Topic) /\ u \in [Topic -> Seq(Sub)] /\ l \in [Sub -> Seq(Topic)]
        /\ sticky \in [Topic -> BOOLEAN] /\ Present(o, u, sticky)
    BY <1>1, NowFacts
  <1>0. ShowsNow(o, u, l)
    BY <1>1, NowBefore
  <1>3. ASSUME NEW su \in Sub, NEW t \in Topic, Unsubscribe(su, t) PROVE Abstract!Next
    <2>1. sticky' = sticky
      BY <1>3 DEF Unsubscribe
    <2>2. t \in ToSet(l[su]) /\
          Then(Parted(o, t, RemoveFirst(u[t], su) # <<>> \/ sticky[t]),
               [u EXCEPT ![t] = RemoveFirst(u[t], su)],
               [l EXCEPT ![su] = RemoveFirst(l[su], t)])
      BY <1>1, <1>3, UnsubscribeStep
    <2> QED
      BY <1>2, <1>0, <2>1, <2>2, ThenAfter, RemoveImplements
  <1>4. ASSUME NEW su \in Sub, NEW t \in Topic, NEW children \in BOOLEAN, Subscribe(su, t, children)
        PROVE  Abstract!Next
    <2>1. sticky' = sticky
      BY <1>4 DEF Subscribe
    <2>2. t \notin ToSet(l[su]) /\
          Then(Joined(o, t), [u EXCEPT ![t] = Append(u[t], su)],
                             [l EXCEPT ![su] = Append(l[su], t)])
      BY <1>1, <1>4, SubscribeStep
    <2> QED
      BY <1>2, <1>0, <2>1, <2>2, ThenAfter, AddImplements
  <1>5. ASSUME NEW su \in Sub, UnsubscribeAll(su) \/ NumSubs(su) PROVE UNCHANGED Abstract!vars
    <2>1. sticky' = sticky
      BY <1>5 DEF UnsubscribeAll, NumSubs
    <2>2. Then(o, u, l)
      BY <1>1, <1>5, UnsubscribeAllStep, NumSubsStep
    <2> QED
      BY <1>1, <2>1, <2>2, Stutters
  <1>6. ASSUME NEW t \in Retain, PublishSticky(t) PROVE Abstract!Next \/ UNCHANGED Abstract!vars
    <2>1. t \in Topic /\ sticky' = [sticky EXCEPT ![t] = TRUE]
      BY <1>6, RegistryAssumption DEF PublishSticky
    <2>2. Then(Joined(o, t), u, l)
      BY <1>1, <1>6, <2>1, PublishStickyStep
    <2>3. sticky[t] => t \in ToSet(o)
      BY <1>2, <2>1 DEF Present
    <2> QED
      BY <1>2, <1>0, <2>1, <2>2, <2>3, ThenAfter, RetainImplements
  <1>7. ASSUME NEW t \in Retain, PublishClears(t) PROVE Abstract!Next
    <2>1. t \in Topic /\ sticky[t] /\ sticky' = [sticky EXCEPT ![t] = FALSE]
      BY <1>7, RegistryAssumption DEF PublishClears
    <2>2. Then(Parted(o, t, u[t] # <<>>), u, l)
      BY <1>1, <1>7, <2>1, PublishClearsStep
    <2> QED
      BY <1>2, <1>0, <2>1, <2>2, ThenAfter, ForgetImplements
  <1>8. ASSUME NEW t \in Retain \cup {<<>>}, CleanSticky(t) PROVE UNCHANGED Abstract!vars
    <2>1. t \in Topic \cup {<<>>}
      BY RegistryAssumption
    <2>2. sticky' = sticky
      BY <1>8 DEF CleanSticky
    <2>3. Then(o, u, l)
      BY <1>1, <1>8, <2>1, CleanStickyStep
    <2> QED
      BY <1>1, <2>2, <2>3, Stutters
  <1>9. CASE UnsubscribeNext
    <2>1. PICK su, t : su = cs.su /\ t = cs.s
      OBVIOUS
    <2>2. sticky' = sticky
      BY <1>9 DEF UnsubscribeNext
    <2>3. su \in Sub /\ t \in Topic /\ t \in ToSet(l[su]) /\
          Then(Parted(o, t, RemoveFirst(u[t], su) # <<>> \/ sticky[t]),
               [u EXCEPT ![t] = RemoveFirst(u[t], su)],
               [l EXCEPT ![su] = RemoveFirst(l[su], t)])
      BY <1>1, <1>9, <2>1, UnsubscribeNextStep
    <2> QED
      BY <1>2, <1>0, <2>2, <2>3, ThenAfter, RemoveImplements
  <1>10. CASE CleanNext
    <2>1. PICK t : t = cs.el
      OBVIOUS
    <2>2. t \in Topic
      BY <1>1, <1>10, <2>1, CleanNextStep
    <2>3. CASE Matches
      <3>1. /\ sticky[t] /\ sticky' = [sticky EXCEPT ![t] = FALSE]
            /\ Then(Parted(o, t, u[t] # <<>>), u, l)
        BY <1>1, <1>10, <2>1, <2>3, CleanNextStep
      <3> QED
        BY <1>2, <1>0, <2>2, <3>1, ThenAfter, ForgetImplements
    <2>4. CASE ~Matches
      <3>1. sticky' = sticky /\ Then(o, u, l)
        BY <1>1, <1>10, <2>4, CleanNextStep
      <3> QED
        BY <1>1, <3>1, Stutters
    <2> QED
      BY <2>3, <2>4
  <1>11. CASE SubscribeEnds \/ UnsubscribeAllEnds \/ PushNext \/ IterationEnds
              \/ NumSubsNext \/ NumSubsEnds
    <2>1. sticky' = sticky
      BY <1>11 DEF SubscribeEnds, UnsubscribeAllEnds, PushNext, IterationEnds, NumSubsNext, NumSubsEnds
    <2>2. Then(o, u, l)
      BY <1>1, <1>11, SubscribeEndsStep, UnsubscribeAllEndsStep, PushNextStep, IterationEndsStep,
         NumSubsNextStep, NumSubsEndsStep
    <2> QED
      BY <1>1, <2>1, <2>2, Stutters
  <1>12. CASE UNCHANGED vars
    <2>1. Then(o, u, l) /\ sticky' = sticky
      BY <1>1, <1>12 DEF vars, Now, Then
    <2> QED
      BY <1>1, <2>1, Stutters
  <1>13. Counted \subseteq Sub
    BY RegistryAssumption
  <1> QED
    BY <1>3, <1>4, <1>5, <1>6, <1>7, <1>8, <1>9, <1>10, <1>11, <1>12, <1>13 DEF Next, Loops

\* The pointers do what TopicRegistry says, step by step: a subscription, an end of one
\* and a sticky message change the sequences at once, every other step of the code
\* (ends of DL_APPEND, rounds of loops, ps_num_subs) changes nothing of them.
THEOREM RegistryRefinement == Spec => KeepsRegistry
  <1>1. Init => Abstract!Init
    BY InitImplements
  <1>2. RegistryInv /\ [Next]_vars => [Abstract!Next]_(Abstract!vars)
    BY StepImplements
  <1> QED
    BY <1>1, <1>2, RegistryStands, PTL DEF Spec, KeepsRegistry, Abstract!Spec

=============================================================================
