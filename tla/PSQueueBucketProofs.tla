------------------------ MODULE PSQueueBucketProofs ------------------------
(***************************************************************************)
(* Proofs about the bucket queue, for every set of threads and messages,   *)
(* every capacity and every number of priorities.                          *)
(***************************************************************************)
EXTENDS PSQueueBucket, BucketsProofs

(***************************************************************************)
(* The inductive invariant.  The accounting of tokens and nodes holds only *)
(* because the mutex separates the steps that change a list, and it counts *)
(* only because the lists are finite.                                      *)
(***************************************************************************)

FiniteSlots == IsFiniteSet(Slots(priorities))

\* The thread inside the mutex is the one whose pc says so.
MuxOwned ==
    \A t \in Thread : mux = t <=> pc[t] \in {"push", "post", "take", "unlock"}

\* A push still has its message.
ArgReady == \A t \in Thread : pc[t] = "push" => arg.msg \in Msg

Inv ==
    /\ TypeOK
    /\ FiniteSlots
    /\ MuxOwned
    /\ ArgReady
    /\ TokenAccounting
    /\ NodesConserved

(***************************************************************************)
(* Lemmas                                                                  *)
(***************************************************************************)

\* A thread that moves to label l enters the sets of threads with that label
\* and leaves the others.
LEMMA AtMoves ==
    ASSUME TypeOK, NEW t \in Thread, NEW l \in Label, Goto(t, l), NEW S
    PROVE  /\ IsFiniteSet(At(S))
           /\ Cardinality(At(S)) \in Nat
           /\ At(S)' = IF l \in S THEN At(S) \cup {t} ELSE At(S) \ {t}
           /\ t \in At(S) <=> pc[t] \in S
           /\ Cardinality(At(S)') =
                Cardinality(At(S)) + (IF l \in S THEN 1 ELSE 0)
                                   - (IF pc[t] \in S THEN 1 ELSE 0)
  <1>1. IsFiniteSet(At(S))
    BY BucketAssumption, FS_Subset DEF At
  <1>2. pc \in [Thread -> Label] /\ pc' = [pc EXCEPT ![t] = l]
    BY DEF TypeOK, Goto
  <1>3. At(S)' = IF l \in S THEN At(S) \cup {t} ELSE At(S) \ {t}
    BY <1>2 DEF At
  <1>4. t \in At(S) <=> pc[t] \in S
    BY DEF At
  <1>5. Cardinality(At(S)) \in Nat
    BY <1>1, FS_CardinalityType
  <1>6. t \in At(S) => Cardinality(At(S)) >= 1
    BY <1>1, <1>5, FS_EmptySet
  <1>7. /\ Cardinality(At(S) \cup {t}) =
             IF t \in At(S) THEN Cardinality(At(S)) ELSE Cardinality(At(S)) + 1
        /\ Cardinality(At(S) \ {t}) =
             IF t \in At(S) THEN Cardinality(At(S)) - 1 ELSE Cardinality(At(S))
    BY <1>1, FS_AddElement, FS_RemoveElement
  <1> QED
    BY <1>1, <1>3, <1>4, <1>5, <1>6, <1>7

\* No thread moves.
LEMMA AtStays ==
    ASSUME UNCHANGED pc, NEW S
    PROVE  At(S)' = At(S)
  BY DEF At

\* The threads that hold a token are finitely many.
LEMMA AtFinite ==
    ASSUME NEW S
    PROVE  IsFiniteSet(At(S)) /\ Cardinality(At(S)) \in Nat
  BY BucketAssumption, FS_Subset, FS_CardinalityType DEF At

\* The number of stored messages is a number.
LEMMA StoredType ==
    ASSUME TypeOK, FiniteSlots
    PROVE  Stored(priorities) \in Nat
  BY StoredZero DEF TypeOK, FiniteSlots

LEMMA InitInv == Init => Inv
  <1> SUFFICES ASSUME Init PROVE Inv
    OBVIOUS
  <1>1. /\ priorities \in [Prio -> Seq(Msg)]
        /\ FiniteSlots
        /\ Stored(priorities) = 0
    BY EmptyStored DEF Init, FiniteSlots
  <1>2. TypeOK
    BY <1>1, BucketAssumption DEF Init, TypeOK, NoArg, Result, Label, Code, Prio
  <1>3. MuxOwned /\ ArgReady
    BY BucketAssumption DEF Init, MuxOwned, ArgReady
  <1>4. Cardinality(At({"claimed", "take"})) = 0 /\ Cardinality(At({"post"})) = 0
    <2>1. At({"claimed", "take"}) = {} /\ At({"post"}) = {}
      BY DEF Init, At
    <2> QED
      BY <2>1, FS_EmptySet
  <1>5. TokenAccounting /\ NodesConserved
    BY <1>1, <1>4, BucketAssumption DEF Init, TokenAccounting, NodesConserved
  <1> QED
    BY <1>1, <1>2, <1>3, <1>5 DEF Inv

(***************************************************************************)
(* One lemma for each action                                               *)
(***************************************************************************)

\* The two sets of threads that TokenAccounting counts, after t has moved to l.
LEMMA TokensMove ==
    ASSUME TypeOK, NEW t \in Thread, NEW l \in Label, Goto(t, l)
    PROVE  /\ Cardinality(At({"claimed", "take"})) \in Nat
           /\ Cardinality(At({"post"})) \in Nat
           /\ Cardinality(At({"claimed", "take"})') = Cardinality(At({"claimed", "take"}))
                + (IF l \in {"claimed", "take"} THEN 1 ELSE 0)
                - (IF pc[t] \in {"claimed", "take"} THEN 1 ELSE 0)
           /\ Cardinality(At({"post"})') = Cardinality(At({"post"}))
                + (IF l = "post" THEN 1 ELSE 0) - (IF pc[t] = "post" THEN 1 ELSE 0)
  <1>1. {"post"} # {} /\ \A x : x \in {"post"} <=> x = "post"
    OBVIOUS
  <1> QED
    BY <1>1, AtMoves

\* A step that leaves the lists and the pool alone, and the semaphore too unless
\* the token goes with the thread.
LEMMA QuietStep ==
    ASSUME Inv, NEW t \in Thread, NEW l \in Label, Goto(t, l),
           UNCHANGED <<priorities, available>>,
           not_empty' \in Nat,
           not_empty' - not_empty
             = (IF pc[t] \in {"claimed", "take"} THEN 1 ELSE 0)
               - (IF l \in {"claimed", "take"} THEN 1 ELSE 0)
               + (IF pc[t] = "post" THEN 1 ELSE 0) - (IF l = "post" THEN 1 ELSE 0)
    PROVE  FiniteSlots' /\ TokenAccounting' /\ NodesConserved'
  <1>1. Stored(priorities)' = Stored(priorities) /\ Slots(priorities)' = Slots(priorities)
    OBVIOUS
  <1>2. not_empty \in Nat /\ Stored(priorities) \in Nat
    BY StoredType DEF Inv, TypeOK
  <1>3. TokenAccounting'
    <2>1. TypeOK /\ TokenAccounting
      BY DEF Inv
    <2> DEFINE A == Cardinality(At({"claimed", "take"}))
               B == Cardinality(At({"post"}))
    <2>2. /\ A \in Nat
          /\ B \in Nat
          /\ A' = A + (IF l \in {"claimed", "take"} THEN 1 ELSE 0)
                   - (IF pc[t] \in {"claimed", "take"} THEN 1 ELSE 0)
          /\ B' = B + (IF l = "post" THEN 1 ELSE 0) - (IF pc[t] = "post" THEN 1 ELSE 0)
      BY <2>1, TokensMove
    <2>3. not_empty + A + B = Stored(priorities)
      BY <2>1 DEF TokenAccounting
    <2> HIDE DEF A, B
    <2>4. not_empty' + A' + B' = Stored(priorities)'
      <3> DEFINE in  == IF l \in {"claimed", "take"} THEN 1 ELSE 0
                 out == IF pc[t] \in {"claimed", "take"} THEN 1 ELSE 0
                 post == IF l = "post" THEN 1 ELSE 0
                 done == IF pc[t] = "post" THEN 1 ELSE 0
      <3>1. {in, out, post, done} \subseteq Int
        OBVIOUS
      <3>2. /\ A' = A + in - out
            /\ B' = B + post - done
            /\ not_empty' - not_empty = out - in + done - post
        BY <2>2
      <3> HIDE DEF in, out, post, done
      <3>3. not_empty' = not_empty + out - in + done - post
        BY <1>2, <3>1, <3>2
      <3>4. not_empty' + A' + B' = not_empty + A + B
        BY <1>2, <2>2, <3>1, <3>2, <3>3
      <3> QED
        BY <1>1, <2>3, <3>4
    <2> QED
      BY <2>4 DEF A, B, TokenAccounting
  <1> QED
    BY <1>1, <1>3 DEF Inv, FiniteSlots, NodesConserved

LEMMA PushLockInv ==
    ASSUME Inv, NEW t \in Thread, NEW m \in Msg, NEW p \in Prio, PushLock(t, m, p)
    PROVE  Inv'
  <1>1. /\ TypeOK /\ MuxOwned /\ ArgReady
        /\ pc[t] = "idle" /\ Goto(t, "push")
        /\ UNCHANGED <<priorities, available, not_empty>>
    BY DEF Inv, PushLock
  <1>2. TypeOK' /\ MuxOwned' /\ ArgReady'
    BY <1>1, BucketAssumption DEF PushLock, Goto, TypeOK, Label, MuxOwned, ArgReady
  <1>3. FiniteSlots' /\ TokenAccounting' /\ NodesConserved'
    <2>1. "push" \in Label /\ not_empty' \in Nat
      BY <1>1 DEF Label, TypeOK
    <2>2. not_empty' - not_empty = 0
      BY <1>1 DEF TypeOK
    <2> QED
      BY <1>1, <2>1, <2>2, QuietStep
  <1> QED
    BY <1>2, <1>3 DEF Inv

\* The thread inside the mutex is alone there.
LEMMA Alone ==
    ASSUME Inv, NEW t \in Thread, pc[t] \in {"push", "post", "take", "unlock"}
    PROVE  \A u \in Thread \ {t} : pc[u] \in {"idle", "claimed"}
  BY DEF Inv, MuxOwned, TypeOK, Label

LEMMA PushStoresInv ==
    ASSUME Inv, NEW t \in Thread, PushStores(t)
    PROVE  Inv'
  <1>1. /\ TypeOK /\ MuxOwned /\ FiniteSlots /\ TokenAccounting /\ NodesConserved
        /\ pc[t] = "push" /\ Goto(t, "post") /\ arg.msg \in Msg /\ arg.prio \in Prio
        /\ available > 0 /\ available' = available - 1
        /\ priorities' = Insert(priorities, arg.prio, arg.msg)
        /\ UNCHANGED <<mux, not_empty>>
    BY DEF Inv, PushStores, AfterPush, ArgReady, TypeOK
  <1>2. /\ priorities' \in [Prio -> Seq(Msg)]
        /\ IsFiniteSet(Slots(priorities'))
        /\ Stored(priorities') = Stored(priorities) + 1
    <2>1. priorities \in [Prio -> Seq(Msg)] /\ IsFiniteSet(Slots(priorities))
      BY <1>1 DEF TypeOK, FiniteSlots
    <2>2. Insert(priorities, arg.prio, arg.msg) \in [Prio -> Seq(Msg)]
      BY <1>1, <2>1, InsertType
    <2>3. /\ IsFiniteSet(Slots(Insert(priorities, arg.prio, arg.msg)))
          /\ Stored(Insert(priorities, arg.prio, arg.msg)) = Stored(priorities) + 1
      BY <1>1, <2>1, InsertStored
    <2> QED
      BY <1>1, <2>2, <2>3
  <1>3. TypeOK'
    BY <1>1, <1>2, BucketAssumption
    DEF PushStores, Goto, Return, Result, TypeOK, Label, Code, NoArg, Prio
  <1>4. MuxOwned' /\ ArgReady'
    BY <1>1, Alone DEF Goto, TypeOK, MuxOwned, ArgReady
  <1>5. TokenAccounting'
    <2>1. "post" \in Label
      BY DEF Label
    <2>2. /\ Cardinality(At({"claimed", "take"})') = Cardinality(At({"claimed", "take"}))
          /\ Cardinality(At({"post"})') = Cardinality(At({"post"})) + 1
          /\ Cardinality(At({"claimed", "take"})) \in Nat
          /\ Cardinality(At({"post"})) \in Nat
      BY <1>1, <2>1, TokensMove
    <2>3. not_empty \in Nat
      BY <1>1 DEF TypeOK
    <2> QED
      BY <1>1, <1>2, <2>2, <2>3 DEF TokenAccounting
  <1>6. NodesConserved'
    <2>1. available \in Nat /\ Stored(priorities) \in Nat
      BY <1>1, StoredType, BucketAssumption DEF TypeOK
    <2> QED
      BY <1>1, <1>2, <2>1 DEF NodesConserved
  <1> QED
    BY <1>2, <1>3, <1>4, <1>5, <1>6 DEF Inv, FiniteSlots

LEMMA PushEvictsInv ==
    ASSUME Inv, NEW t \in Thread, PushEvicts(t)
    PROVE  Inv'
  <1>1. /\ TypeOK /\ MuxOwned /\ FiniteSlots /\ TokenAccounting /\ NodesConserved
        /\ pc[t] = "push" /\ Goto(t, "unlock") /\ arg.msg \in Msg /\ arg.prio \in Prio
        /\ UNCHANGED <<available, mux, not_empty>>
    BY DEF Inv, PushEvicts, AfterPush, ArgReady, TypeOK
  <1>2. PICK v \in Prio :
          /\ priorities[v] # <<>>
          /\ priorities' = Insert(RemoveYoungest(priorities, v), arg.prio, arg.msg)
          /\ Return(t, "EOVERFLOW", Youngest(priorities, v))
    BY DEF PushEvicts, IsLowest
  <1> DEFINE rest == RemoveYoungest(priorities, v)
  <1>3. /\ rest \in [Prio -> Seq(Msg)]
        /\ IsFiniteSet(Slots(rest))
        /\ Stored(rest) = Stored(priorities) - 1
        /\ Youngest(priorities, v) \in Msg
    BY <1>1, <1>2, RemoveType, RemoveStored DEF TypeOK, FiniteSlots
  <1>4. priorities' = Insert(rest, arg.prio, arg.msg)
    BY <1>2
  <1> HIDE DEF rest
  <1>5. /\ priorities' \in [Prio -> Seq(Msg)]
        /\ IsFiniteSet(Slots(priorities'))
        /\ Stored(priorities') = Stored(rest) + 1
    <2>0. /\ rest \in [Prio -> Seq(Msg)] /\ IsFiniteSet(Slots(rest))
          /\ arg.prio \in Prio /\ arg.msg \in Msg
      BY <1>1, <1>3
    <2>1. Insert(rest, arg.prio, arg.msg) \in [Prio -> Seq(Msg)]
      BY <2>0, InsertType
    <2>2. /\ IsFiniteSet(Slots(Insert(rest, arg.prio, arg.msg)))
          /\ Stored(Insert(rest, arg.prio, arg.msg)) = Stored(rest) + 1
      BY <2>0, InsertStored
    <2> QED
      BY <1>4, <2>1, <2>2
  <1>6. Stored(priorities') = Stored(priorities)
    <2>1. Stored(priorities) \in Nat
      BY <1>1, StoredType
    <2> QED
      BY <1>3, <1>5, <2>1
  <1>7. TypeOK'
    <2>1. /\ arg' = NoArg
          /\ ret' = [thread |-> t, code |-> "EOVERFLOW", msg |-> Youngest(priorities, v)]
          /\ pc' = [pc EXCEPT ![t] = "unlock"]
      BY <1>2 DEF PushEvicts, AfterPush, Return, Result, Goto
    <2>2. arg' \in [msg : Msg \cup {NoMsg}, prio : Prio]
      BY <2>1, BucketAssumption DEF NoArg, Prio
    <2>3. ret' \in [thread : Thread \cup {NoThread}, code : Code, msg : Msg \cup {NoMsg}]
      BY <1>3, <2>1 DEF Code
    <2> QED
      BY <1>1, <1>5, <2>1, <2>2, <2>3 DEF TypeOK, Label
  <1>8. MuxOwned' /\ ArgReady'
    BY <1>1, Alone DEF Goto, TypeOK, MuxOwned, ArgReady
  <1>9. TokenAccounting' /\ NodesConserved'
    <2>1. "unlock" \in Label
      BY DEF Label
    <2>2. /\ Cardinality(At({"claimed", "take"})') = Cardinality(At({"claimed", "take"}))
          /\ Cardinality(At({"post"})') = Cardinality(At({"post"}))
      BY <1>1, <2>1, TokensMove
    <2> QED
      BY <1>1, <1>6, <2>2 DEF TokenAccounting, NodesConserved
  <1> QED
    BY <1>5, <1>7, <1>8, <1>9 DEF Inv, FiniteSlots

LEMMA PushRefusesInv ==
    ASSUME Inv, NEW t \in Thread, PushRefuses(t)
    PROVE  Inv'
  <1>1. /\ TypeOK /\ MuxOwned /\ ArgReady
        /\ pc[t] = "push" /\ Goto(t, "unlock")
        /\ UNCHANGED <<priorities, available, not_empty, mux>>
    BY DEF Inv, PushRefuses, AfterPush
  <1>2. TypeOK'
    BY <1>1, BucketAssumption
    DEF PushRefuses, Goto, Return, Result, TypeOK, Label, Code, ArgReady, NoArg, Prio
  <1>3. MuxOwned' /\ ArgReady'
    BY <1>1, Alone DEF Goto, TypeOK, MuxOwned, ArgReady
  <1>4. FiniteSlots' /\ TokenAccounting' /\ NodesConserved'
    <2>1. "unlock" \in Label /\ not_empty' \in Nat /\ not_empty' - not_empty = 0
      BY <1>1 DEF Label, TypeOK
    <2> QED
      BY <1>1, <2>1, QuietStep
  <1> QED
    BY <1>2, <1>3, <1>4 DEF Inv

LEMMA PushPostInv ==
    ASSUME Inv, NEW t \in Thread, PushPost(t)
    PROVE  Inv'
  <1>1. /\ TypeOK /\ MuxOwned /\ ArgReady
        /\ pc[t] = "post" /\ Goto(t, "unlock")
        /\ not_empty' = not_empty + 1
        /\ UNCHANGED <<priorities, available, mux, arg, ret>>
    BY DEF Inv, PushPost
  <1>2. TypeOK'
    BY <1>1 DEF Goto, TypeOK, Label
  <1>3. MuxOwned' /\ ArgReady'
    BY <1>1, Alone DEF Goto, TypeOK, MuxOwned, ArgReady
  <1>4. FiniteSlots' /\ TokenAccounting' /\ NodesConserved'
    <2>1. "unlock" \in Label /\ not_empty' \in Nat /\ not_empty' - not_empty = 1
      BY <1>1 DEF Label, TypeOK
    <2> QED
      BY <1>1, <2>1, QuietStep
  <1> QED
    BY <1>2, <1>3, <1>4 DEF Inv

LEMMA PullWaitInv ==
    ASSUME Inv, NEW t \in Thread, PullWait(t)
    PROVE  Inv'
  <1>1. /\ TypeOK /\ MuxOwned /\ ArgReady
        /\ pc[t] = "idle" /\ Goto(t, "claimed")
        /\ not_empty > 0 /\ not_empty' = not_empty - 1
        /\ UNCHANGED <<priorities, available, mux, arg, ret>>
    BY DEF Inv, PullWait
  <1>2. TypeOK'
    BY <1>1 DEF Goto, TypeOK, Label
  <1>3. MuxOwned' /\ ArgReady'
    BY <1>1 DEF Goto, TypeOK, MuxOwned, ArgReady
  <1>4. FiniteSlots' /\ TokenAccounting' /\ NodesConserved'
    <2>1. "claimed" \in Label /\ not_empty' \in Nat /\ not_empty' - not_empty = 0 - 1
      BY <1>1 DEF Label, TypeOK
    <2> QED
      BY <1>1, <2>1, QuietStep
  <1> QED
    BY <1>2, <1>3, <1>4 DEF Inv

LEMMA PullFailsInv ==
    ASSUME Inv, NEW t \in Thread, PullFails(t)
    PROVE  Inv'
  <1>1. /\ Inv
        /\ UNCHANGED <<priorities, available, mux, not_empty, pc, arg>>
    BY DEF PullFails
  <1>2. TypeOK'
    BY <1>1 DEF Inv, PullFails, Return, Result, TypeOK, Code
  <1>3. TokenAccounting'
    BY <1>1, AtStays DEF Inv, TokenAccounting
  <1> QED
    BY <1>1, <1>2, <1>3 DEF Inv, FiniteSlots, MuxOwned, ArgReady, NodesConserved

LEMMA PullLockInv ==
    ASSUME Inv, NEW t \in Thread, PullLock(t)
    PROVE  Inv'
  <1>1. /\ TypeOK /\ MuxOwned /\ ArgReady
        /\ pc[t] = "claimed" /\ Goto(t, "take")
        /\ mux = NoThread /\ mux' = t
        /\ UNCHANGED <<priorities, available, not_empty, arg, ret>>
    BY DEF Inv, PullLock
  <1>2. TypeOK'
    BY <1>1 DEF Goto, TypeOK, Label
  <1>3. MuxOwned' /\ ArgReady'
    BY <1>1, BucketAssumption DEF Goto, TypeOK, MuxOwned, ArgReady
  <1>4. FiniteSlots' /\ TokenAccounting' /\ NodesConserved'
    <2>1. "take" \in Label /\ not_empty' \in Nat /\ not_empty' - not_empty = 0
      BY <1>1 DEF Label, TypeOK
    <2> QED
      BY <1>1, <2>1, QuietStep
  <1> QED
    BY <1>2, <1>3, <1>4 DEF Inv

\* The thread that reads the lists has a token of its own, so a message is there.
LEMMA TokenMeansMessage ==
    ASSUME Inv, NEW t \in Thread, pc[t] \in {"claimed", "take"}
    PROVE  /\ Stored(priorities) > 0
           /\ \E p \in Prio : priorities[p] # <<>>
  <1>1. TypeOK /\ FiniteSlots /\ TokenAccounting
    BY DEF Inv
  <1>2. /\ Stored(priorities) \in Nat
        /\ not_empty \in Nat
        /\ Cardinality(At({"claimed", "take"})) \in Nat
        /\ Cardinality(At({"post"})) \in Nat
    BY <1>1, StoredType, AtFinite DEF TypeOK
  <1>3. Cardinality(At({"claimed", "take"})) # 0
    <2>1. t \in At({"claimed", "take"})
      BY DEF At
    <2> QED
      BY <2>1, AtFinite, FS_EmptySet
  <1>4. Stored(priorities) > 0
    BY <1>1, <1>2, <1>3 DEF TokenAccounting
  <1>5. priorities \in [Prio -> Seq(Msg)] /\ IsFiniteSet(Slots(priorities))
    BY <1>1 DEF TypeOK, FiniteSlots
  <1>6. Stored(priorities) # 0
    BY <1>4
  <1> QED
    BY <1>4, <1>5, <1>6, StoredZero

LEMMA PullTakesInv ==
    ASSUME Inv, NEW t \in Thread, PullTakes(t)
    PROVE  Inv'
  <1>1. /\ TypeOK /\ MuxOwned /\ FiniteSlots /\ ArgReady
        /\ TokenAccounting /\ NodesConserved
        /\ pc[t] = "take" /\ Goto(t, "unlock")
        /\ UNCHANGED <<mux, not_empty, arg>>
    BY DEF Inv, PullTakes
  <1>2. PICK p \in Prio :
          /\ priorities[p] # <<>>
          /\ priorities' = RemoveOldest(priorities, p)
          /\ available' = available + 1
          /\ Return(t, "PULLED", Oldest(priorities, p))
    BY <1>1, TokenMeansMessage DEF PullTakes, IsHighest
  <1>3. /\ priorities' \in [Prio -> Seq(Msg)]
        /\ IsFiniteSet(Slots(priorities'))
        /\ Stored(priorities') = Stored(priorities) - 1
        /\ Oldest(priorities, p) \in Msg
    <2>1. priorities \in [Prio -> Seq(Msg)] /\ IsFiniteSet(Slots(priorities))
      BY <1>1 DEF TypeOK, FiniteSlots
    <2> QED
      BY <1>2, <2>1, RemoveType, RemoveStored
  <1>4. /\ available \in Nat
        /\ Stored(priorities) \in Nat
        /\ Stored(priorities) > 0
    BY <1>1, StoredType, TokenMeansMessage, BucketAssumption DEF TypeOK
  <1>5. NodesConserved'
    BY <1>1, <1>2, <1>3, <1>4 DEF NodesConserved
  <1>6. available' \in 0..Capacity
    BY <1>1, <1>2, <1>4, BucketAssumption DEF NodesConserved
  <1>7. TypeOK'
    <2>1. ret' \in [thread : Thread \cup {NoThread}, code : Code, msg : Msg \cup {NoMsg}]
      BY <1>2, <1>3 DEF Return, Result, Code
    <2>2. pc' \in [Thread -> Label]
      BY <1>1 DEF Goto, TypeOK, Label
    <2> QED
      BY <1>1, <1>3, <1>6, <2>1, <2>2 DEF TypeOK
  <1>8. MuxOwned' /\ ArgReady'
    BY <1>1, Alone DEF Goto, TypeOK, MuxOwned, ArgReady
  <1>9. TokenAccounting'
    <2>1. "unlock" \in Label
      BY DEF Label
    <2>2. /\ Cardinality(At({"claimed", "take"})') = Cardinality(At({"claimed", "take"})) - 1
          /\ Cardinality(At({"post"})') = Cardinality(At({"post"}))
          /\ Cardinality(At({"claimed", "take"})) \in Nat
          /\ Cardinality(At({"post"})) \in Nat
      BY <1>1, <2>1, TokensMove
    <2>3. not_empty \in Nat
      BY <1>1 DEF TypeOK
    <2> QED
      BY <1>1, <1>3, <1>4, <2>2, <2>3 DEF TokenAccounting
  <1> QED
    BY <1>3, <1>5, <1>7, <1>8, <1>9 DEF Inv, FiniteSlots

LEMMA UnlockInv ==
    ASSUME Inv, NEW t \in Thread, Unlock(t)
    PROVE  Inv'
  <1>1. /\ TypeOK /\ MuxOwned /\ ArgReady
        /\ pc[t] = "unlock" /\ Goto(t, "idle")
        /\ mux' = NoThread
        /\ UNCHANGED <<priorities, available, not_empty, arg, ret>>
    BY DEF Inv, Unlock
  <1>2. TypeOK'
    BY <1>1 DEF Goto, TypeOK, Label
  <1>3. MuxOwned' /\ ArgReady'
    BY <1>1, Alone, BucketAssumption DEF Goto, TypeOK, MuxOwned, ArgReady
  <1>4. FiniteSlots' /\ TokenAccounting' /\ NodesConserved'
    <2>1. "idle" \in Label /\ not_empty' \in Nat /\ not_empty' - not_empty = 0
      BY <1>1 DEF Label, TypeOK
    <2> QED
      BY <1>1, <2>1, QuietStep
  <1> QED
    BY <1>2, <1>3, <1>4 DEF Inv

LEMMA NextInv == Inv /\ [Next]_vars => Inv'
  <1> SUFFICES ASSUME Inv, [Next]_vars PROVE Inv'
    OBVIOUS
  <1>1. ASSUME NEW t \in Thread, NEW m \in Msg, NEW p \in Prio, PushLock(t, m, p)
        PROVE  Inv'
    BY <1>1, PushLockInv
  <1>2. ASSUME NEW t \in Thread, PushBody(t) PROVE Inv'
    BY <1>2, PushStoresInv, PushEvictsInv, PushRefusesInv DEF PushBody
  <1>3. ASSUME NEW t \in Thread, PushPost(t) PROVE Inv'
    BY <1>3, PushPostInv
  <1>4. ASSUME NEW t \in Thread, PullWait(t) PROVE Inv'
    BY <1>4, PullWaitInv
  <1>5. ASSUME NEW t \in Thread, PullFails(t) PROVE Inv'
    BY <1>5, PullFailsInv
  <1>6. ASSUME NEW t \in Thread, PullLock(t) PROVE Inv'
    BY <1>6, PullLockInv
  <1>7. ASSUME NEW t \in Thread, PullTakes(t) PROVE Inv'
    BY <1>7, PullTakesInv
  <1>8. ASSUME NEW t \in Thread, Unlock(t) PROVE Inv'
    BY <1>8, UnlockInv
  <1>9. ASSUME UNCHANGED vars PROVE Inv'
    <2>1. TokenAccounting'
      BY <1>9, AtStays DEF vars, Inv, TokenAccounting
    <2> QED
      BY <1>9, <2>1 DEF vars, Inv, TypeOK, FiniteSlots, MuxOwned, ArgReady, NodesConserved
  <1> QED
    BY <1>1, <1>2, <1>3, <1>4, <1>5, <1>6, <1>7, <1>8, <1>9 DEF Next

(***************************************************************************)
(* Theorems                                                                *)
(***************************************************************************)

\* The inductive invariant holds in every reachable state.
THEOREM Invariance == Spec => []Inv
  BY InitInv, NextInv, PTL DEF Spec

\* Every variable of the queue keeps its type (psqueue_b.c:18-23).
THEOREM TypeCorrect == Spec => []TypeOK
  <1>1. Inv => TypeOK
    BY DEF Inv
  <1> QED
    BY <1>1, Invariance, PTL

\* One token for each stored message, wherever the threads are
\* (ps_queue_push and ps_queue_pull, psqueue_b.c:100-130).
THEOREM TokensAccounted == Spec => []TokenAccounting
  <1>1. Inv => TokenAccounting
    BY DEF Inv
  <1> QED
    BY <1>1, Invariance, PTL

\* The free and the used nodes are always those ps_new_queue made.
THEOREM NodesAreConserved == Spec => []NodesConserved
  <1>1. Inv => NodesConserved
    BY DEF Inv
  <1> QED
    BY <1>1, Invariance, PTL

\* A pull that has passed the semaphore never finds the queue empty.
THEOREM PullFindsMessage == Spec => []PullNeverEmpty
  <1>1. Inv => PullNeverEmpty
    BY TokenMeansMessage DEF PullNeverEmpty, At
  <1> QED
    BY <1>1, Invariance, PTL

\* What a push lets go of is never more important than what stays
\* (bqueue_get_available, psqueue_b.c:38-57).
THEOREM LeastImportantGoes == Spec => ShedsLeastImportant
  <1> DEFINE Lost(p) == IF ret'.code = "EFULL" THEN p = arg.prio
                        ELSE Len(priorities'[p]) < Len(priorities[p])
             Sheds == \A t \in Thread : pc[t] = "push" /\ pc'[t] = "unlock" =>
                        \A p \in Prio : Lost(p) =>
                           \A q \in Prio : q < p => priorities'[q] = <<>>
  <1>1. Inv /\ [Next]_vars => [Sheds]_vars
    <2> SUFFICES ASSUME Inv, Next,
                        NEW t \in Thread, pc[t] = "push", pc'[t] = "unlock",
                        NEW p \in Prio, Lost(p), NEW q \in Prio, q < p
                 PROVE  priorities'[q] = <<>>
      OBVIOUS
    <2>1. /\ priorities \in [Prio -> Seq(Msg)]
          /\ arg.msg \in Msg /\ arg.prio \in Prio
          /\ pc \in [Thread -> Label]
          /\ Prio \subseteq Int
      BY BucketAssumption DEF Inv, TypeOK, ArgReady, Prio
    <2>2. PushEvicts(t) \/ PushRefuses(t)
      <3>1. \A u \in Thread : \A l : Goto(u, l) => u = t /\ l = "unlock"
        BY <2>1 DEF Goto
      <3>2. PushBody(t)
        BY <3>1, BucketAssumption
        DEF Next, PushLock, PushBody, PushStores, PushEvicts, PushRefuses, PushPost,
            PullWait, PullFails, PullLock, PullTakes, Unlock
      <3> QED
        BY <3>1, <3>2 DEF PushBody, PushStores, AfterPush
    <2>3. CASE PushEvicts(t)
      <3>1. PICK v \in Prio :
              /\ v < arg.prio
              /\ IsLowest(priorities, v)
              /\ priorities' = Insert(RemoveYoungest(priorities, v), arg.prio, arg.msg)
        BY <2>3 DEF PushEvicts
      <3>2. Lost(p) <=> Len(priorities'[p]) < Len(priorities[p])
        BY <2>3 DEF PushEvicts, Return, Result
      <3>3. /\ \A u \in Prio : u # v /\ u # arg.prio => priorities'[u] = priorities[u]
            /\ priorities'[arg.prio] = Append(priorities[arg.prio], arg.msg)
        BY <2>1, <3>1 DEF Insert, RemoveYoungest
      <3>4. Len(priorities'[arg.prio]) = Len(priorities[arg.prio]) + 1
        BY <2>1, <3>3
      <3>5. p = v
        <4>1. \A u \in Prio : Len(priorities[u]) \in Nat
          BY <2>1
        <4>2. p # arg.prio
          BY <3>2, <3>4, <4>1
        <4>3. p # v => priorities'[p] = priorities[p]
          BY <3>3, <4>2
        <4> QED
          BY <3>2, <4>1, <4>3
      <3>6. priorities[q] = <<>>
        BY <2>1, <3>1, <3>5 DEF IsLowest
      <3> QED
        BY <2>1, <3>1, <3>3, <3>5, <3>6
    <2>4. CASE PushRefuses(t)
      <3>1. Lost(p) <=> p = arg.prio
        BY <2>4 DEF PushRefuses, Return, Result
      <3> QED
        BY <2>4, <3>1 DEF PushRefuses
    <2> QED
      BY <2>2, <2>3, <2>4
  <1> QED
    BY <1>1, Invariance, PTL DEF Spec, ShedsLeastImportant

(***************************************************************************)
(* The queue implements BoundedQueue: a push takes effect when it changes  *)
(* the lists, a pull reserves when it passes the semaphore and takes when  *)
(* it reads the lists.  All other steps change nothing the caller sees.    *)
(***************************************************************************)

\* The instance has copies of the operators on lists; they are the same.
LEMMA SameCardinality == \A S : Abstract!Cardinality(S) = Cardinality(S)
  BY DEF Abstract!Cardinality, Cardinality

LEMMA SameOperators ==
    /\ Abstract!Prio = Prio
    /\ \A b : Abstract!Stored(b) = Stored(b)
    /\ \A b, p, m : Abstract!Insert(b, p, m) = Insert(b, p, m)
    /\ \A b, p : Abstract!RemoveOldest(b, p) = RemoveOldest(b, p)
    /\ \A b, p : Abstract!RemoveYoungest(b, p) = RemoveYoungest(b, p)
    /\ \A b, p : Abstract!Oldest(b, p) = Oldest(b, p)
    /\ \A b, p : Abstract!Youngest(b, p) = Youngest(b, p)
    /\ \A b, p : Abstract!IsHighest(b, p) <=> IsHighest(b, p)
    /\ \A b, p : Abstract!IsLowest(b, p) <=> IsLowest(b, p)
    /\ \A t, c, m : Abstract!Result(t, c, m) = Result(t, c, m)
    /\ Abstract!Empty(Prio) = Empty(Prio)
  <1>1. Abstract!Prio = Prio
    BY DEF Abstract!Prio, Prio
  <1>2. \A b : Abstract!Slots(b) = Slots(b)
    BY DEF Abstract!Slots, Slots
  <1>3. \A b : Abstract!Stored(b) = Stored(b)
    BY <1>2, SameCardinality DEF Abstract!Stored, Stored
  <1>4. \A b, p, m : Abstract!Insert(b, p, m) = Insert(b, p, m)
    BY DEF Abstract!Insert, Insert
  <1>5. \A b, p : Abstract!RemoveOldest(b, p) = RemoveOldest(b, p)
    BY DEF Abstract!RemoveOldest, RemoveOldest
  <1>6. \A b, p : Abstract!RemoveYoungest(b, p) = RemoveYoungest(b, p)
    BY DEF Abstract!RemoveYoungest, RemoveYoungest, Abstract!Front, Front
  <1>7. \A b, p : Abstract!Oldest(b, p) = Oldest(b, p)
    BY DEF Abstract!Oldest, Oldest
  <1>8. \A b, p : Abstract!Youngest(b, p) = Youngest(b, p)
    BY DEF Abstract!Youngest, Youngest, Abstract!Last, Last
  <1>9. \A b, p : Abstract!IsHighest(b, p) <=> IsHighest(b, p)
    BY DEF Abstract!IsHighest, IsHighest
  <1>10. \A b, p : Abstract!IsLowest(b, p) <=> IsLowest(b, p)
    BY DEF Abstract!IsLowest, IsLowest
  <1>11. \A t, c, m : Abstract!Result(t, c, m) = Result(t, c, m)
    BY DEF Abstract!Result, Result
  <1>12. Abstract!Empty(Prio) = Empty(Prio)
    BY DEF Abstract!Empty, Empty
  <1> QED
    BY <1>1, <1>3, <1>4, <1>5, <1>6, <1>7, <1>8, <1>9, <1>10, <1>11, <1>12

\* A step that moves a thread between labels outside a pull changes no claim.
LEMMA ClaimsStay ==
    ASSUME TypeOK, NEW t \in Thread, NEW l \in Label, Goto(t, l),
           l \in {"claimed", "take"} <=> pc[t] \in {"claimed", "take"}
    PROVE  At({"claimed", "take"})' = At({"claimed", "take"})
  BY DEF At, Goto, TypeOK

\* The initial states of the implementation are those of BoundedQueue.
LEMMA InitImplements == Init => Abstract!Init
  <1> SUFFICES ASSUME Init PROVE Abstract!Init
    OBVIOUS
  <1>1. At({"claimed", "take"}) = {}
    BY DEF Init, At
  <1> QED
    BY <1>1, SameOperators DEF Init, Abstract!Init

LEMMA PushImplements ==
    ASSUME Inv, NEW t \in Thread, PushBody(t)
    PROVE  \E m \in Msg, p \in Prio : Abstract!Push(t, m, p)
  <1>1. /\ TypeOK /\ NodesConserved
        /\ available \in Nat /\ Stored(priorities) \in Nat /\ Capacity \in Nat
        /\ arg.msg \in Msg /\ arg.prio \in Prio
        /\ pc[t] = "push"
    BY StoredType, BucketAssumption
    DEF Inv, TypeOK, ArgReady, PushBody, PushStores, PushEvicts, PushRefuses
  <1>2. At({"claimed", "take"})' = At({"claimed", "take"})
    <2>1. PICK l \in {"post", "unlock"} : Goto(t, l)
      BY DEF PushBody, PushStores, PushEvicts, PushRefuses, AfterPush
    <2>2. l \in Label
      BY DEF Label
    <2> QED
      BY <1>1, <2>1, <2>2, ClaimsStay
  <1>3. CASE PushStores(t)
    <2>1. Stored(priorities) < Capacity
      BY <1>1, <1>3 DEF PushStores, NodesConserved
    <2>2. Abstract!PushStores(t, arg.msg, arg.prio)
      BY <1>2, <1>3, <2>1, SameOperators DEF PushStores, Abstract!PushStores, Return
    <2> QED
      BY <1>1, <2>2 DEF Abstract!Push
  <1>4. CASE PushEvicts(t)
    <2>1. Stored(priorities) = Capacity
      BY <1>1, <1>4 DEF PushEvicts, NodesConserved
    <2>2. Abstract!PushEvicts(t, arg.msg, arg.prio)
      BY <1>2, <1>4, <2>1, SameOperators DEF PushEvicts, Abstract!PushEvicts, Return
    <2> QED
      BY <1>1, <2>2 DEF Abstract!Push
  <1>5. CASE PushRefuses(t)
    <2>1. Stored(priorities) = Capacity
      BY <1>1, <1>5 DEF PushRefuses, NodesConserved
    <2>2. Abstract!PushRefuses(t, arg.msg, arg.prio)
      BY <1>2, <1>5, <2>1, SameOperators DEF PushRefuses, Abstract!PushRefuses, Return
    <2> QED
      BY <1>1, <2>2 DEF Abstract!Push
  <1> QED
    BY <1>3, <1>4, <1>5 DEF PushBody

LEMMA ClaimImplements ==
    ASSUME Inv, NEW t \in Thread, PullWait(t)
    PROVE  Abstract!Claim(t)
  <1>1. /\ TypeOK /\ TokenAccounting
        /\ Goto(t, "claimed") /\ pc[t] = "idle" /\ not_empty > 0
    BY DEF Inv, PullWait
  <1>2. /\ At({"claimed", "take"})' = At({"claimed", "take"}) \cup {t}
        /\ t \notin At({"claimed", "take"})
    <2>1. "claimed" \in Label
      BY DEF Label
    <2> QED
      BY <1>1, <2>1, AtMoves
  <1>3. Cardinality(At({"claimed", "take"})) < Stored(priorities)
    <2>1. /\ not_empty \in Nat
          /\ Cardinality(At({"claimed", "take"})) \in Nat
          /\ Cardinality(At({"post"})) \in Nat
      BY <1>1, AtFinite DEF TypeOK
    <2> QED
      BY <1>1, <2>1 DEF TokenAccounting
  <1> QED
    BY <1>2, <1>3, SameOperators, SameCardinality DEF PullWait, Abstract!Claim

LEMMA TakeImplements ==
    ASSUME Inv, NEW t \in Thread, PullTakes(t)
    PROVE  Abstract!Take(t)
  <1>1. /\ TypeOK
        /\ Goto(t, "unlock") /\ pc[t] = "take"
    BY DEF Inv, PullTakes
  <1>2. /\ At({"claimed", "take"})' = At({"claimed", "take"}) \ {t}
        /\ t \in At({"claimed", "take"})
    <2>1. "unlock" \in Label
      BY DEF Label
    <2> QED
      BY <1>1, <2>1, AtMoves
  <1>3. \E p \in Prio :
          /\ IsHighest(priorities, p)
          /\ priorities' = RemoveOldest(priorities, p)
          /\ ret' = Result(t, "PULLED", Oldest(priorities, p))
    BY <1>1, TokenMeansMessage DEF PullTakes, Return
  <1> QED
    BY <1>2, <1>3, SameOperators DEF Abstract!Take

LEMMA StepImplements == Inv /\ [Next]_vars => [Abstract!Next]_(Abstract!vars)
  <1> SUFFICES ASSUME Inv, [Next]_vars PROVE [Abstract!Next]_(Abstract!vars)
    OBVIOUS
  <1>0. TypeOK
    BY DEF Inv
  <1>1. ASSUME NEW t \in Thread, NEW l \in Label, Goto(t, l),
               l \in {"claimed", "take"} <=> pc[t] \in {"claimed", "take"},
               UNCHANGED <<priorities, ret>>
        PROVE  UNCHANGED Abstract!vars
    BY <1>0, <1>1, ClaimsStay DEF Abstract!vars
  <1>2. ASSUME NEW t \in Thread, NEW m \in Msg, NEW p \in Prio, PushLock(t, m, p)
        PROVE  UNCHANGED Abstract!vars
    BY <1>1, <1>2 DEF PushLock, Label
  <1>3. ASSUME NEW t \in Thread, PushBody(t) PROVE Abstract!Next
    BY <1>3, PushImplements DEF Abstract!Next, Prio, Abstract!Prio
  <1>4. ASSUME NEW t \in Thread, PushPost(t) PROVE UNCHANGED Abstract!vars
    BY <1>1, <1>4 DEF PushPost, Label
  <1>5. ASSUME NEW t \in Thread, PullWait(t) PROVE Abstract!Next
    BY <1>5, ClaimImplements DEF Abstract!Next
  <1>6. ASSUME NEW t \in Thread, PullFails(t) PROVE Abstract!Next
    <2>1. t \notin At({"claimed", "take"})
      BY <1>6 DEF PullFails, At
    <2>2. Abstract!Timeout(t)
      BY <1>6, <2>1, AtStays
      DEF PullFails, Abstract!Timeout, Return, Result, Abstract!Result
    <2> QED
      BY <2>2 DEF Abstract!Next
  <1>7. ASSUME NEW t \in Thread, PullLock(t) PROVE UNCHANGED Abstract!vars
    BY <1>1, <1>7 DEF PullLock, Label
  <1>8. ASSUME NEW t \in Thread, PullTakes(t) PROVE Abstract!Next
    BY <1>8, TakeImplements DEF Abstract!Next
  <1>9. ASSUME NEW t \in Thread, Unlock(t) PROVE UNCHANGED Abstract!vars
    BY <1>1, <1>9 DEF Unlock, Label
  <1>10. ASSUME UNCHANGED vars PROVE UNCHANGED Abstract!vars
    BY <1>10, AtStays DEF vars, Abstract!vars
  <1> QED
    BY <1>2, <1>3, <1>4, <1>5, <1>6, <1>7, <1>8, <1>9, <1>10 DEF Next

\* The bucket queue, with its mutex and its semaphore, does what the atomic
\* queue of BoundedQueue does (psqueue_b.c as a whole).
THEOREM Refinement == Spec => Refines
  BY InitImplements, StepImplements, Invariance, PTL DEF Spec, Refines, Abstract!Spec

=============================================================================
