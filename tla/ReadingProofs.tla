---------------------------- MODULE ReadingProofs ----------------------------
(***************************************************************************)
(* Proofs about how a reader comes to its message: told by a callback, for *)
(* any number of readers and of threads in ps_overflow, any capacity and   *)
(* any width of the counter; and by a wait with a timeout, for every       *)
(* second, millisecond and tick, and for all timeouts that fit into 32     *)
(* bits.                                                                   *)
(***************************************************************************)
EXTENDS Notify, TimedWait, FiniteSetTheorems, TLAPS

(***************************************************************************)
(* Callbacks and the overflow counter (Notify)                             *)
(***************************************************************************)

(***************************************************************************)
(* The inductive invariant                                                 *)
(***************************************************************************)

\* The loop of the callback will look at the queue.
Roused(cb) == at[cb] # "asleep" \/ cb \in wake

\* The holder of the lock will still make the callback.  If it has yet to see
\* whether exactly one message waits, then not more than one does.
Owed(cb) ==
    \E i \in 1..Len(cs) :
        /\ cs[i].cb = cb
        /\ cs[i].test = "one" => not_empty <= 1 \/ (i = 1 /\ calling)

\* A call that is to come is that of a callback that is set.
CallReady == calling => cs # <<>> /\ Head(cs).cb \in installed

\* Unless nothing waits, each callback that is set has been made or is to be made.
WakeupsOwed ==
    \A cb \in installed : not_empty = 0 \/ Roused(cb) \/ Owed(cb)

Inv == TypeOK /\ LossesAccounted /\ CallReady

(***************************************************************************)
(* The counter                                                             *)
(***************************************************************************)

\* The remainder of a number less than one round below 0, or two above it.
LEMMA Wrapped ==
    ASSUME NEW M \in Nat \ {0}, NEW x \in (-M)..(2 * M - 1)
    PROVE  /\ x % M = IF x < 0 THEN x + M ELSE IF x < M THEN x ELSE x - M
           /\ x % M \in 0..(M - 1)
  <1>1. CASE x < 0
    <2>1. x + M \in 0..(M - 1) /\ x % M = (x + M) % M
      BY <1>1, SMT
    <2>2. (x + M) % M = x + M
      BY <2>1, SMT
    <2> QED
      BY <1>1, <2>1, <2>2
  <1>2. CASE x \in 0..(M - 1)
    <2>1. x % M = x
      BY <1>2, SMT
    <2> QED
      BY <1>2, <2>1
  <1>3. CASE x >= M
    <2>1. x - M \in 0..(M - 1) /\ x % M = (x - M) % M
      BY <1>3, SMT
    <2>2. (x - M) % M = x - M
      BY <2>1, SMT
    <2> QED
      BY <1>3, <2>1, <2>2
  <1> QED
    BY <1>1, <1>2, <1>3

\* The remainder of a sum of two remainders.
LEMMA WrappedSum ==
    ASSUME NEW M \in Nat \ {0}, NEW x \in 0..(M - 1), NEW y \in 0..(M - 1)
    PROVE  /\ (x + y) % M = IF x + y < M THEN x + y ELSE x + y - M
           /\ (x + y) % M \in 0..(M - 1)
  <1>1. x + y \in (-M)..(2 * M - 1) /\ ~(x + y < 0)
    BY SMT
  <1> DEFINE z == x + y
  <1> HIDE DEF z
  <1>2. /\ z % M = IF z < 0 THEN z + M ELSE IF z < M THEN z ELSE z - M
        /\ z % M \in 0..(M - 1)
    BY <1>1, Wrapped DEF z
  <1> QED
    BY <1>1, <1>2 DEF z

\* The remainder of a difference of two remainders.
LEMMA WrappedDifference ==
    ASSUME NEW M \in Nat \ {0}, NEW x \in 0..(M - 1), NEW y \in 0..(M - 1)
    PROVE  /\ (x - y) % M = IF x < y THEN x - y + M ELSE x - y
           /\ (x - y) % M \in 0..(M - 1)
  <1>1. x - y \in (-M)..(2 * M - 1) /\ x - y < M
    BY SMT
  <1> DEFINE z == x - y
  <1> HIDE DEF z
  <1>2. /\ z % M = IF z < 0 THEN z + M ELSE IF z < M THEN z ELSE z - M
        /\ z % M \in 0..(M - 1)
    BY <1>1, Wrapped DEF z
  <1>3. x - y < 0 <=> x < y
    BY SMT
  <1> QED
    BY <1>1, <1>2, <1>3 DEF z

\* A loss that is counted is accounted for.
LEMMA LossAccounted ==
    ASSUME NEW M \in Nat \ {0}, NEW r \in 0..(M - 1), NEW o \in 0..(M - 1), NEW l \in 0..(M - 1),
           (r + o) % M = l
    PROVE  /\ (o + 1) % M \in 0..(M - 1)
           /\ (l + 1) % M \in 0..(M - 1)
           /\ (r + ((o + 1) % M)) % M = (l + 1) % M
  <1>1. CASE M = 1
    BY <1>1, Wrapped
  <1>2. CASE M # 1
    <2>1. 1 \in 0..(M - 1)
      BY <1>2
    <2>2. PICK o1 \in Int : o1 = (o + 1) % M
      BY <2>1, WrappedSum
    <2>3. PICK l1 \in Int : l1 = (l + 1) % M
      BY <2>1, WrappedSum
    <2>4. o1 = (IF o + 1 < M THEN o + 1 ELSE o + 1 - M) /\ o1 \in 0..(M - 1)
      BY <2>1, <2>2, WrappedSum
    <2>5. l1 = (IF l + 1 < M THEN l + 1 ELSE l + 1 - M) /\ l1 \in 0..(M - 1)
      BY <2>1, <2>3, WrappedSum
    <2>6. l = IF r + o < M THEN r + o ELSE r + o - M
      BY WrappedSum
    <2>7. (r + o1) % M = IF r + o1 < M THEN r + o1 ELSE r + o1 - M
      BY <2>4, WrappedSum
    <2>8. (IF r + o1 < M THEN r + o1 ELSE r + o1 - M) = l1
      BY <2>4, <2>5, <2>6
    <2> QED
      BY <2>2, <2>3, <2>4, <2>5, <2>7, <2>8
  <1> QED
    BY <1>1, <1>2

\* What is reported is taken from the counter, also below 0.
LEMMA ReportAccounted ==
    ASSUME NEW M \in Nat \ {0}, NEW r \in 0..(M - 1), NEW o \in 0..(M - 1), NEW k \in 0..(M - 1)
    PROVE  /\ (r + k) % M \in 0..(M - 1)
           /\ (o - k) % M \in 0..(M - 1)
           /\ (((r + k) % M) + ((o - k) % M)) % M = (r + o) % M
  <1>1. PICK r1 \in Int : r1 = (r + k) % M
    BY WrappedSum
  <1>2. PICK o1 \in Int : o1 = (o - k) % M
    BY WrappedDifference
  <1>3. r1 = (IF r + k < M THEN r + k ELSE r + k - M) /\ r1 \in 0..(M - 1)
    BY <1>1, WrappedSum
  <1>4. o1 = (IF o < k THEN o - k + M ELSE o - k) /\ o1 \in 0..(M - 1)
    BY <1>2, WrappedDifference
  <1>5. (r + o) % M = IF r + o < M THEN r + o ELSE r + o - M
    BY WrappedSum
  <1>6. (r1 + o1) % M = IF r1 + o1 < M THEN r1 + o1 ELSE r1 + o1 - M
    BY <1>3, <1>4, WrappedSum
  <1>7. (IF r1 + o1 < M THEN r1 + o1 ELSE r1 + o1 - M) = IF r + o < M THEN r + o ELSE r + o - M
    BY <1>3, <1>4
  <1> QED
    BY <1>1, <1>2, <1>3, <1>4, <1>5, <1>6, <1>7

(***************************************************************************)
(* Types and losses                                                        *)
(***************************************************************************)

LEMMA InitInv == Init => Inv
  <1> SUFFICES ASSUME Init PROVE Inv
    OBVIOUS
  <1>1. 0 \in 0..(OverflowMod - 1) /\ (0 + 0) % OverflowMod = 0
    BY NotifyAssumption, WrappedSum
  <1>2. n \in [Poller -> {None} \cup 0..(OverflowMod - 1)]
    BY DEF Init
  <1>3. at \in [Callback \cup Reader -> {"asleep", "getting", "reading", "claimed"}]
    BY DEF Init
  <1>4. /\ installed \subseteq Callback /\ wake \subseteq Callback /\ calling = FALSE
        /\ cs \in Seq([test : {"one", "some", "none"}, cb : Callback])
        /\ not_empty \in 0..Capacity
    BY NotifyAssumption DEF Init
  <1>5. /\ overflow \in 0..(OverflowMod - 1) /\ lost \in 0..(OverflowMod - 1)
        /\ reported \in 0..(OverflowMod - 1)
    BY <1>1 DEF Init
  <1>6. TypeOK
    BY <1>2, <1>3, <1>4, <1>5 DEF TypeOK
  <1> QED
    BY <1>1, <1>4, <1>6 DEF Init, Inv, LossesAccounted, CallReady

\* Who has passed the semaphore is a finite number of readers.
LEMMA ClaimedCounted ==
    ASSUME TypeOK
    PROVE  Cardinality(Claimed) \in Nat
  <1>1. IsFiniteSet(Callback \cup Reader)
    <2>1. IsFiniteSet({"non_empty_cb"})
      BY FS_Singleton
    <2>2. IsFiniteSet({"non_empty_cb"} \cup {"new_msg_cb"})
      BY <2>1, FS_AddElement
    <2>3. {"non_empty_cb"} \cup {"new_msg_cb"} = Callback
      BY DEF Callback
    <2> QED
      BY <2>2, <2>3, NotifyAssumption, FS_Union
  <1>2. Claimed \subseteq Callback \cup Reader
    BY DEF TypeOK, Claimed
  <1> QED
    BY <1>1, <1>2, FS_Subset, FS_CardinalityType

\* What leaves the counter alone keeps the account.
LEMMA CounterStays ==
    ASSUME Inv, UNCHANGED overflowVars,
           installed' \subseteq Callback, not_empty' \in 0..Capacity,
           cs' \in Seq([test : {"one", "some", "none"}, cb : Callback]),
           calling' \in BOOLEAN, wake' \subseteq Callback,
           at' \in [Callback \cup Reader -> {"asleep", "getting", "reading", "claimed"}],
           CallReady'
    PROVE  Inv'
  <1>1. LossesAccounted'
    BY DEF Inv, LossesAccounted, overflowVars
  <1>2. TypeOK'
    BY DEF Inv, TypeOK, overflowVars
  <1> QED
    BY <1>1, <1>2 DEF Inv

\* What a reader does.
LEMMA ReaderInv ==
    ASSUME Inv, UNCHANGED <<installed, cs, calling, overflowVars>>,
           wake' \subseteq wake, not_empty' \in 0..Capacity,
           NEW r, NEW l \in {"asleep", "getting", "reading", "claimed"}, Goto(r, l)
    PROVE  Inv'
  <1>1. at' \in [Callback \cup Reader -> {"asleep", "getting", "reading", "claimed"}]
    BY DEF Goto, Inv, TypeOK
  <1>2. CallReady'
    BY DEF Inv, CallReady
  <1> QED
    BY <1>1, <1>2, CounterStays DEF Inv, TypeOK

LEMMA NextInv ==
    ASSUME Inv, [Next]_vars
    PROVE  Inv'
  <1> DEFINE Section == Seq([test : {"one", "some", "none"}, cb : Callback])
  <1>1. CASE Push
    <2>1. not_empty + 1 \in 0..Capacity
      BY <1>1, ClaimedCounted, NotifyAssumption DEF Push, HasRoom, Stored, Inv, TypeOK
    <2>2. cs' \in Section
      BY <1>1 DEF Push, Callback
    <2>3. CallReady'
      BY <1>1 DEF Push, Inv, CallReady
    <2> QED
      BY <1>1, <2>1, <2>2, <2>3, CounterStays DEF Push, Inv, TypeOK
  <1>2. CASE PushLoses
    <2>1. /\ overflow' \in 0..(OverflowMod - 1) /\ lost' \in 0..(OverflowMod - 1)
          /\ LossesAccounted'
      BY <1>2, LossAccounted, NotifyAssumption DEF PushLoses, Inv, TypeOK, LossesAccounted
    <2> QED
      BY <1>2, <2>1 DEF PushLoses, Inv, TypeOK, CallReady
  <1>3. CASE Skips
    <2>1. cs' \in Section /\ CallReady'
      BY <1>3 DEF Skips, Inv, TypeOK, CallReady
    <2> QED
      BY <1>3, <2>1, CounterStays DEF Skips, Inv, TypeOK
  <1>4. CASE Tests
    <2>1. CallReady'
      BY <1>4 DEF Tests, Due, CallReady
    <2> QED
      BY <1>4, <2>1, CounterStays DEF Tests, Inv, TypeOK
  <1>5. CASE Calls
    <2>1. cs' \in Section /\ Head(cs).cb \in Callback /\ CallReady'
      BY <1>5 DEF Calls, Inv, TypeOK, CallReady
    <2> QED
      BY <1>5, <2>1, CounterStays DEF Calls, Inv, TypeOK
  <1>6. ASSUME NEW cb \in Callback, Sets(cb)
        PROVE  Inv'
    <2>1. cs' \in Section /\ CallReady'
      BY <1>6 DEF Sets, Inv, CallReady
    <2> QED
      BY <1>6, <2>1, CounterStays DEF Sets, Inv, TypeOK
  <1>7. ASSUME NEW cb \in Callback, Clears(cb)
        PROVE  Inv'
    <2>1. CallReady'
      BY <1>7 DEF Clears, Inv, CallReady
    <2> QED
      BY <1>7, <2>1, CounterStays DEF Clears, Inv, TypeOK
  <1>8. ASSUME NEW cb \in Callback, WakesUp(cb)
        PROVE  Inv'
    BY <1>8, ReaderInv DEF WakesUp, Inv, TypeOK
  <1>9. ASSUME NEW r \in Reader, Gets(r) \/ Returns(r) \/ Flushes(r)
        PROVE  Inv'
    BY <1>9, ReaderInv, NotifyAssumption DEF Gets, Returns, Flushes, Inv, TypeOK
  <1>10. ASSUME NEW r \in Callback \cup Reader, Claims(r) \/ Takes(r) \/ FindsNone(r)
         PROVE  Inv'
    BY <1>10, ReaderInv, NotifyAssumption DEF Claims, Takes, FindsNone, Inv, TypeOK
  <1>11. ASSUME NEW r \in Poller, ReadsOverflow(r)
         PROVE  Inv'
    BY <1>11 DEF ReadsOverflow, Inv, TypeOK, LossesAccounted, CallReady
  <1>12. ASSUME NEW r \in Poller, SubtractsOverflow(r)
         PROVE  Inv'
    <2>1. n[r] \in 0..(OverflowMod - 1)
      BY <1>12 DEF SubtractsOverflow, Inv, TypeOK
    <2>2. /\ overflow' \in 0..(OverflowMod - 1) /\ reported' \in 0..(OverflowMod - 1)
          /\ LossesAccounted'
      BY <1>12, <2>1, ReportAccounted, NotifyAssumption
         DEF SubtractsOverflow, Inv, TypeOK, LossesAccounted
    <2> QED
      BY <1>12, <2>2 DEF SubtractsOverflow, Inv, TypeOK, CallReady
  <1>13. CASE UNCHANGED vars
    BY <1>13 DEF vars, overflowVars, Inv, TypeOK, LossesAccounted, CallReady
  <1> QED
    BY <1>1, <1>2, <1>3, <1>4, <1>5, <1>6, <1>7, <1>8, <1>9, <1>10, <1>11, <1>12, <1>13
       DEF Next

\* The inductive invariant holds in every reachable state.
THEOREM Invariance == Spec => []Inv
  BY InitInv, NextInv, PTL DEF Spec

\* The queue's number of messages and the counter stay in their ranges, and what
\* ps_overflow returned and what the counter holds make up the losses, whoever is
\* between the two steps of ps_overflow (pubsub.c:553).
THEOREM CountersAreSound == Spec => []CountersSound
  <1>1. Inv => CountersSound
    BY DEF Inv, CountersSound
  <1> QED
    BY <1>1, Invariance, PTL

(***************************************************************************)
(* Wake-ups, with the queue whose ps_queue_waiting is the semaphore        *)
(***************************************************************************)

\* Another entry is next; calls that do not hang on the one before are still owed.
LEMMA OwedByTail ==
    ASSUME TypeOK, cs # <<>>, cs' = Tail(cs), not_empty' = not_empty,
           NEW cb, NEW i \in 2..Len(cs), cs[i].cb = cb,
           cs[i].test = "one" => not_empty <= 1
    PROVE  Owed(cb)'
  <1>1. /\ Len(cs) \in Nat /\ i - 1 \in 1..Len(Tail(cs)) /\ Tail(cs)[i - 1] = cs[i]
    BY DEF TypeOK
  <1>2. /\ i - 1 \in 1..Len(cs') /\ cs'[i - 1].cb = cb
        /\ cs'[i - 1].test = "one" => not_empty' <= 1
    BY <1>1
  <1> QED
    BY <1>2 DEF Owed

\* A reader leaves the calls that are due as they are.
LEMMA ReaderOwes ==
    ASSUME TypeOK, WakeupsOwed, UNCHANGED <<installed, cs, calling>>, not_empty' \in Nat,
           not_empty' <= not_empty,
           \A cb \in Callback : Roused(cb) => Roused(cb)' \/ not_empty' = 0
    PROVE  WakeupsOwed'
  <1> SUFFICES ASSUME NEW cb \in installed, not_empty' # 0, ~Roused(cb)'
               PROVE  Owed(cb)'
    BY DEF WakeupsOwed
  <1>1. cb \in Callback /\ not_empty \in Nat /\ not_empty # 0
    BY DEF TypeOK
  <1>2. Owed(cb)
    BY <1>1 DEF WakeupsOwed
  <1> QED
    BY <1>1, <1>2 DEF Owed

LEMMA NextWakeups ==
    ASSUME ~Counting, Inv, WakeupsOwed, [Next]_vars
    PROVE  WakeupsOwed'
  <1>0. TypeOK /\ CallReady /\ not_empty \in Nat /\ Waiting = not_empty
    BY DEF Inv, TypeOK, Waiting
  <1>1. CASE Push
    <2> SUFFICES ASSUME NEW cb \in installed, ~Roused(cb)
                 PROVE  Owed(cb)'
      BY <1>1 DEF Push, WakeupsOwed, Roused
    <2>1. not_empty = 0
      BY <1>1 DEF Push, WakeupsOwed, Owed
    <2>2. cb \in {"non_empty_cb", "new_msg_cb"}
      BY <1>0 DEF TypeOK, Callback
    <2>3. /\ not_empty' = 1 /\ Len(cs') = 2
          /\ cs'[1] = [test |-> "one", cb |-> "non_empty_cb"]
          /\ cs'[2] = [test |-> "none", cb |-> "new_msg_cb"]
      BY <1>1, <2>1 DEF Push
    <2> QED
      BY <2>2, <2>3 DEF Owed
  <1>2. CASE PushLoses
    BY <1>2 DEF PushLoses, WakeupsOwed, Roused, Owed
  <1>3. CASE Skips
    <2> SUFFICES ASSUME NEW cb \in installed, not_empty # 0, ~Roused(cb)
                 PROVE  Owed(cb)'
      BY <1>3 DEF Skips, WakeupsOwed, Roused
    <2>1. PICK i \in 1..Len(cs) : cs[i].cb = cb /\ (cs[i].test = "one" => not_empty <= 1)
      BY <1>3 DEF Skips, WakeupsOwed, Owed
    <2>2. i # 1
      <3> SUFFICES ASSUME i = 1 PROVE FALSE
        OBVIOUS
      <3>1. Head(cs) = cs[1] /\ cs[1].test \in {"one", "some", "none"}
        <4> DEFINE Step == [test : {"one", "some", "none"}, cb : Callback]
        <4>1. cs \in Seq(Step)
          BY <1>0 DEF TypeOK
        <4>2. \A e \in Step : e.test \in {"one", "some", "none"}
          OBVIOUS
        <4> HIDE DEF Step
        <4>3. Head(cs) = cs[1] /\ cs[1] \in Step
          BY <4>1, <2>1
        <4> QED
          BY <4>2, <4>3
      <3>2. Due
        BY <1>3, <2>1, <3>1 DEF Skips, Due
      <3>3. Holds(cs[1].test)
        <4>1. cs[1].test = "one" => Waiting = 1
          BY <1>0, <2>1
        <4>2. Waiting > 0
          BY <1>0
        <4> QED
          BY <3>1, <4>1, <4>2 DEF Holds
      <3> QED
        BY <1>3, <3>1, <3>2, <3>3 DEF Skips
    <2> QED
      BY <1>0, <1>3, <2>1, <2>2, OwedByTail DEF Skips
  <1>4. CASE Tests
    BY <1>4 DEF Tests, WakeupsOwed, Roused, Owed
  <1>5. CASE Calls
    <2> SUFFICES ASSUME NEW cb \in installed, not_empty # 0, ~Roused(cb)'
                 PROVE  Owed(cb)'
      BY <1>5 DEF Calls, WakeupsOwed
    <2>1. cs # <<>> /\ Head(cs) = cs[1] /\ cb # cs[1].cb /\ ~Roused(cb)
      BY <1>0, <1>5 DEF Calls, Roused, CallReady, TypeOK
    <2>2. PICK i \in 2..Len(cs) : cs[i].cb = cb /\ (cs[i].test = "one" => not_empty <= 1)
      BY <2>1 DEF WakeupsOwed, Owed
    <2> QED
      BY <1>0, <1>5, <2>1, <2>2, OwedByTail DEF Calls
  <1>6. ASSUME NEW cb \in Callback, Sets(cb)
        PROVE  WakeupsOwed'
    <2>1. /\ cs = <<>> /\ Len(cs') = 1 /\ cs'[1] = [test |-> "some", cb |-> cb]
          /\ installed' = installed \cup {cb}
          /\ UNCHANGED <<not_empty, wake, at>>
      BY <1>6 DEF Sets
    <2>2. Owed(cb)'
      BY <2>1 DEF Owed
    <2> QED
      BY <2>1, <2>2 DEF WakeupsOwed, Roused, Owed
  <1>7. ASSUME NEW cb \in Callback, Clears(cb)
        PROVE  WakeupsOwed'
    BY <1>7 DEF Clears, WakeupsOwed, Roused, Owed
  <1>8. ASSUME NEW cb \in Callback, WakesUp(cb)
        PROVE  WakeupsOwed'
    <2>1. \A c \in Callback : Roused(c) => Roused(c)'
      BY <1>0, <1>8 DEF WakesUp, Goto, Roused, TypeOK
    <2> QED
      BY <1>0, <1>8, <2>1, ReaderOwes DEF WakesUp
  <1>9. ASSUME NEW r \in Reader, Gets(r) \/ Returns(r) \/ Flushes(r)
        PROVE  WakeupsOwed'
    <2>1. \A c \in Callback : Roused(c) => Roused(c)'
      BY <1>0, <1>9, NotifyAssumption DEF Gets, Returns, Flushes, Goto, Roused, TypeOK, Callback
    <2> QED
      BY <1>0, <1>9, <2>1, ReaderOwes DEF Gets, Returns, Flushes
  <1>10. ASSUME NEW r \in Callback \cup Reader, Claims(r) \/ Takes(r) \/ FindsNone(r)
         PROVE  WakeupsOwed'
    <2>1. \A c \in Callback : Roused(c) => Roused(c)' \/ not_empty' = 0
      BY <1>0, <1>10 DEF Claims, Takes, FindsNone, Goto, Roused, TypeOK
    <2> QED
      BY <1>0, <1>10, <2>1, ReaderOwes DEF Claims, Takes, FindsNone
  <1>11. ASSUME NEW r \in Poller, ReadsOverflow(r) \/ SubtractsOverflow(r)
         PROVE  WakeupsOwed'
    BY <1>11 DEF ReadsOverflow, SubtractsOverflow, WakeupsOwed, Roused, Owed
  <1>12. CASE UNCHANGED vars
    BY <1>12 DEF vars, WakeupsOwed, Roused, Owed
  <1> QED
    BY <1>1, <1>2, <1>3, <1>4, <1>5, <1>6, <1>7, <1>8, <1>9, <1>10, <1>11, <1>12 DEF Next

\* With the bucket queue no wake-up is lost, whatever readers do between a push and
\* the test that follows it (pubsub.c:287): the loop of every callback that is set
\* is awake or has its event when the lock is free and a message waits.
THEOREM NoWakeupIsLost ==
    ASSUME ~Counting
    PROVE  Spec => []NoLostWakeup
  <1>1. Init => WakeupsOwed
    BY DEF Init, WakeupsOwed
  <1>2. Inv /\ WakeupsOwed /\ [Next]_vars => WakeupsOwed'
    BY NextWakeups
  <1>3. WakeupsOwed => NoLostWakeup
    BY DEF WakeupsOwed, NoLostWakeup, Roused, Owed
  <1> QED
    BY <1>1, <1>2, <1>3, Invariance, PTL DEF Spec

(***************************************************************************)
(* The wait with a timeout (TimedWait)                                     *)
(***************************************************************************)

(***************************************************************************)
(* The inductive invariant                                                 *)
(***************************************************************************)

\* The timeouts that the conversion to int32_t does not cut off.
Fits == \A ms \in Timeout : ms < IntMod \div 2

\* struct timespec, with a whole second of nanoseconds as deadline_ms leaves it
Timespec == [tv_sec : Int, tv_nsec : 0..NsPerSec]

WaitTypeOK ==
    /\ clock \in 0..MaxClock
    /\ elapsed \in 0..MaxClock
    /\ jumped \in BOOLEAN
    /\ asked \in Int
    /\ tout \in Timespec
    /\ ticks \in Nat
    /\ phase \in 0..(NsPerTick - 1)

\* On Linux the deadline stays as far from the start of the call as the timeout
\* asks for, unless the system time is set.
DeadlineKept ==
    port = "linux" /\ pc \in {"called", "waiting"} /\ asked >= 0 /\ ~jumped =>
        /\ Time(tout) = (clock - elapsed) + asked * NsPerMs
        /\ elapsed <= clock

\* On FreeRTOS the ticks left and the time gone make up the ticks asked for, up to the
\* part of the first tick that was over, as long as the time is not over.
TicksKept ==
    port = "freertos" =>
        /\ pc # "called"
        /\ pc = "waiting" /\ asked >= 0 =>
              /\ asked * NsPerMs <= MaxClock
              /\ \/ elapsed >= asked * NsPerMs
                 \/ (ticks * NsPerTick + elapsed) - phase > (MsToTicks(asked) - 1) * NsPerTick

WaitInv == WaitTypeOK /\ DeadlineKept /\ TicksKept /\ NotEarlyButFor

(***************************************************************************)
(* Arithmetic                                                              *)
(***************************************************************************)

LEMMA Divided ==
    ASSUME NEW a \in Int, NEW b \in Nat \ {0}
    PROVE  /\ a \div b \in Int
           /\ a % b \in 0..(b - 1)
           /\ a = (b * (a \div b)) + (a % b)
  BY SMT

LEMMA Distributes ==
    ASSUME NEW a \in Int, NEW b \in Int, NEW c \in Int
    PROVE  /\ (a + b) * c = a * c + b * c
           /\ (a - b) * c = a * c - b * c
           /\ (a * b) * c = a * (b * c)
           /\ a * b \in Int
           /\ a * b = b * a
  BY SMT

LEMMA Monotonic ==
    ASSUME NEW a \in Int, NEW b \in Int, NEW c \in Nat, a <= b
    PROVE  a * c <= b * c
  BY SMT

LEMMA Units ==
    /\ NsPerSec \in Nat \ {0} /\ MsPerSec \in Nat \ {0} /\ NsPerMs \in Nat \ {0}
    /\ TickRate \in Nat \ {0}
    /\ NsPerTick \in Nat \ {0}
    /\ NsPerSec = TickRate * NsPerTick
  <1>1. NsPerSec \in Nat \ {0} /\ NsPerSec % TickRate = 0
    BY TimedWaitAssumption DEF NsPerSec
  <1>2. /\ NsPerTick \in Int
        /\ NsPerSec = (TickRate * NsPerTick) + (NsPerSec % TickRate)
    BY <1>1, TimedWaitAssumption, Divided DEF NsPerTick
  <1>3. NsPerSec = TickRate * NsPerTick
    BY <1>1, <1>2, TimedWaitAssumption
  <1>4. NsPerTick > 0
    BY <1>1, <1>2, <1>3, TimedWaitAssumption
  <1> QED
    BY <1>1, <1>2, <1>3, <1>4, TimedWaitAssumption

\* A timeout that fits is not changed by the conversion.
LEMMA Int32Fits ==
    ASSUME Fits, NEW ms \in Timeout, ms >= 0
    PROVE  Int32(ms) = ms /\ ms \in Nat
  <1> DEFINE h == IntMod \div 2
             q == IntMod \div 4
  <1>1. ms \in Nat /\ IntMod \in Nat \ {0} /\ IntMod % 4 = 0 /\ ms < h
    BY TimedWaitAssumption DEF Fits
  <1>2. h \in Int /\ q \in Int /\ IntMod = 4 * q /\ IntMod % 2 \in 0..1
        /\ IntMod = (2 * h) + (IntMod % 2)
    BY <1>1, Divided
  <1> HIDE DEF h, q
  <1>3. IntMod = 2 * h
    BY <1>1, <1>2
  <1>4. ms + h \in 0..(IntMod - 1)
    BY <1>1, <1>2, <1>3
  <1>5. (ms + h) % IntMod = ms + h
    BY <1>1, <1>4
  <1> QED
    BY <1>1, <1>2, <1>5 DEF Int32, h

\* deadline_ms carries right, and leaves at most a whole second of nanoseconds.
LEMMA DeadlineTime ==
    ASSUME clock \in Nat, NEW ms \in Nat
    PROVE  /\ Deadline(ms) \in Timespec
           /\ Time(Deadline(ms)) = clock + ms * NsPerMs
  <1> DEFINE S == NsPerSec
             P == MsPerSec
             N == NsPerMs
             a == clock \div S
             b == clock % S
             c == ms \div P
             d == ms % P
  <1>1. S \in Nat \ {0} /\ P \in Nat \ {0} /\ N \in Nat \ {0} /\ S = P * N
    BY Units DEF NsPerSec
  <1>2. a \in Int /\ b \in 0..(S - 1) /\ clock = (S * a) + b
    <2>1. clock \in Int /\ S \in Nat \ {0}
      BY <1>1
    <2> QED
      BY <2>1, Divided, SMT
  <1>3. c \in Int /\ d \in 0..(P - 1) /\ ms = (P * c) + d
    BY <1>1, Divided
  <1>4. Deadline(ms) = IF b + d * N > S
                       THEN [tv_sec |-> (a + c) + 1, tv_nsec |-> (b + d * N) - S]
                       ELSE [tv_sec |-> a + c, tv_nsec |-> b + d * N]
    BY DEF Deadline
  <1> HIDE DEF S, P, N, a, b, c, d
  <1>5. d * N \in Nat /\ d * N <= S - N
    <2>1. d * N <= (P - 1) * N
      BY <1>1, <1>3, Monotonic
    <2>2. (P - 1) * N = S - N
      BY <1>1, Distributes
    <2> QED
      BY <1>1, <1>3, <2>1, <2>2
  <1>6. (a + c) * S + (b + d * N) = clock + ms * N
    <2>1. (a + c) * S = (S * a) + ((P * c) * N)
      BY <1>1, <1>2, <1>3
    <2>2. ms * N = ((P * c) * N) + (d * N)
      BY <1>1, <1>3, Distributes
    <2> QED
      BY <1>1, <1>2, <1>3, <1>5, <2>1, <2>2
  <1>7. CASE b + d * N > S
    <2>1. (a + c) + 1 \in Int /\ (b + d * N) - S \in 0..S
      BY <1>1, <1>2, <1>3, <1>5, <1>7
    <2>2. ((a + c) + 1) * S = (a + c) * S + S
      BY <1>1, <1>2, <1>3, Distributes
    <2>3. ((a + c) + 1) * S + ((b + d * N) - S) = clock + ms * N
      BY <1>1, <1>2, <1>3, <1>5, <1>6, <2>2
    <2>4. Deadline(ms) = [tv_sec |-> (a + c) + 1, tv_nsec |-> (b + d * N) - S]
      BY <1>4, <1>7
    <2> QED
      BY <2>1, <2>3, <2>4 DEF Time, S, N, Timespec
  <1>8. CASE ~(b + d * N > S)
    <2>1. a + c \in Int /\ b + d * N \in 0..S
      BY <1>1, <1>2, <1>3, <1>5, <1>8
    <2>2. Deadline(ms) = [tv_sec |-> a + c, tv_nsec |-> b + d * N]
      BY <1>4, <1>8
    <2> QED
      BY <1>6, <2>1, <2>2 DEF Time, S, N, Timespec
  <1> QED
    BY <1>7, <1>8

\* pdMS_TO_TICKS cuts off less than a tick.
LEMMA TicksCutOff ==
    ASSUME NEW ms \in Nat
    PROVE  /\ MsToTicks(ms) \in Nat
           /\ MsToTicks(ms) * NsPerTick > ms * NsPerMs - NsPerTick
  <1> DEFINE S == NsPerSec
             P == MsPerSec
             N == NsPerMs
             R == TickRate
             T == NsPerTick
             K == MsToTicks(ms)
  <1>1. /\ S \in Nat \ {0} /\ P \in Nat \ {0} /\ N \in Nat \ {0} /\ R \in Nat \ {0}
        /\ T \in Nat \ {0} /\ S = P * N /\ S = R * T
    BY Units DEF NsPerSec
  <1>2. ms * R \in Nat
    BY <1>1
  <1>3. K \in Int /\ (ms * R) % P \in 0..(P - 1) /\ ms * R = (P * K) + ((ms * R) % P)
    <2> DEFINE x == ms * R
    <2>1. x \in Int /\ K = x \div P
      BY <1>2 DEF MsToTicks
    <2> HIDE DEF x, K, P
    <2>2. x \div P \in Int /\ x % P \in 0..(P - 1) /\ x = (P * (x \div P)) + (x % P)
      BY <1>1, <2>1, Divided
    <2> QED
      BY <2>1, <2>2 DEF x
  <1>4. K \in Nat
    <2>1. P * K > -P
      BY <1>1, <1>2, <1>3
    <2>2. CASE K < 0
      <3>1. K * P <= (-1) * P
        BY <1>1, <1>3, <2>2, Monotonic
      <3> QED
        BY <1>1, <1>3, <2>1, <3>1
    <2> QED
      BY <1>3, <2>2
  <1> HIDE DEF S, P, N, R, T, K
  <1>5. (K + 1) * P > ms * R
    BY <1>1, <1>2, <1>3, <1>4
  <1>6. K * T > ms * N - T
    <2> SUFFICES ASSUME K * T <= ms * N - T PROVE FALSE
      BY <1>1, <1>4
    <2>1. (K + 1) * T <= ms * N
      BY <1>1, <1>4, Distributes
    <2>2. ((K + 1) * T) * R <= (ms * N) * R
      BY <1>1, <1>4, <2>1, Monotonic
    <2>3. (K + 1) * S <= (ms * R) * N
      BY <1>1, <1>4, <2>2
    <2>4. ((K + 1) * P) * N <= (ms * R) * N
      BY <1>1, <1>4, <2>3
    <2>5. ms * R + 1 <= (K + 1) * P
      BY <1>1, <1>2, <1>4, <1>5
    <2>6. (ms * R + 1) * N <= ((K + 1) * P) * N
      BY <1>1, <1>2, <1>4, <2>5, Monotonic
    <2> QED
      BY <1>1, <1>2, <1>4, <2>4, <2>6, Distributes
  <1> QED
    BY <1>4, <1>6 DEF K, T, N

(***************************************************************************)
(* Steps                                                                   *)
(***************************************************************************)

LEMMA WaitInitInv == WaitInit => WaitInv
  <1> SUFFICES ASSUME WaitInit PROVE WaitInv
    OBVIOUS
  <1>1. WaitTypeOK
    <2>1. Forever \in Timespec
      BY Units DEF Forever, Timespec
    <2>2. 0 \in 0..MaxClock /\ 0 \in 0..(NsPerTick - 1)
      BY Units, TimedWaitAssumption
    <2>3. /\ clock = 0 /\ elapsed = 0 /\ jumped \in BOOLEAN /\ asked = 0 /\ tout = Forever
          /\ ticks = 0 /\ phase = 0
      BY DEF WaitInit
    <2> QED
      BY <2>1, <2>2, <2>3 DEF WaitTypeOK
  <1>2. DeadlineKept /\ TicksKept /\ NotEarlyButFor
    BY DEF WaitInit, DeadlineKept, TicksKept, NotEarlyButFor, EarlyOnlyAtBoundary,
           EarlyByTwoTicks, Failed
  <1> QED
    BY <1>1, <1>2 DEF WaitInv

\* A step that leaves the call and the clocks alone.
LEMMA OthersStay ==
    ASSUME WaitInv, UNCHANGED <<port, clock, elapsed, asked, tout, ticks, phase>>,
           jumped' \in BOOLEAN, jumped => jumped',
           \/ UNCHANGED <<pc, result>>
           \/ pc' = "waiting" /\ pc \in {"called", "waiting"}
           \/ pc' = "done" /\ (EarlyOnlyAtBoundary /\ EarlyByTwoTicks)'
    PROVE  WaitInv'
  <1>1. WaitTypeOK'
    BY DEF WaitInv, WaitTypeOK
  <1>2. DeadlineKept'
    BY DEF WaitInv, DeadlineKept, Time
  <1>3. TicksKept'
    BY DEF WaitInv, TicksKept, MsToTicks
  <1>4. NotEarlyButFor'
    BY DEF WaitInv, NotEarlyButFor, EarlyOnlyAtBoundary, EarlyByTwoTicks, Failed
  <1> QED
    BY <1>1, <1>2, <1>3, <1>4 DEF WaitInv

\* The deadline of a call is right when the call is made.
LEMMA CallInv ==
    ASSUME Fits, WaitInv, NEW ms \in Timeout, Call(ms)
    PROVE  /\ WaitInv'
           /\ ms >= 0 => Time(tout') = clock + ms * NsPerMs
  <1>1. /\ port = "linux" /\ port' = port /\ pc = "idle" /\ pc' \in {"called", "waiting"}
        /\ asked' = ms /\ elapsed' = 0 /\ jumped' = FALSE
        /\ tout' = IF Int32(ms) < 0 THEN Forever ELSE Deadline(Int32(ms))
        /\ UNCHANGED <<clock, ticks, phase>>
    BY DEF Call, Begin, rtosVars
  <1>2. ms \in Int /\ clock \in Nat /\ clock \in 0..MaxClock /\ MaxClock \in Nat
    BY TimedWaitAssumption DEF WaitInv, WaitTypeOK
  <1>3. tout' \in Timespec
    <2>1. Forever \in Timespec
      BY Units DEF Forever, Timespec
    <2>2. Int32(ms) \in Int
      <3>1. IntMod \in Nat \ {0} /\ IntMod \div 2 \in Int
        BY TimedWaitAssumption, Divided
      <3> DEFINE h == IntMod \div 2
      <3> HIDE DEF h
      <3>2. (ms + h) % IntMod \in Int
        BY <1>2, <3>1, Divided DEF h
      <3> QED
        BY <3>1, <3>2 DEF Int32, h
    <2> QED
      BY <1>1, <1>2, <2>1, <2>2, DeadlineTime
  <1>4. ms >= 0 => Time(tout') = clock + ms * NsPerMs
    <2> SUFFICES ASSUME ms >= 0 PROVE Time(tout') = clock + ms * NsPerMs
      OBVIOUS
    <2>1. Int32(ms) = ms /\ ms \in Nat
      BY Int32Fits
    <2>2. tout' = Deadline(ms)
      BY <1>1, <2>1
    <2> QED
      BY <1>2, <2>1, <2>2, DeadlineTime
  <1>5. WaitTypeOK'
    <2>1. 0 \in 0..MaxClock
      BY <1>2
    <2> QED
      BY <1>1, <1>2, <1>3, <2>1 DEF WaitInv, WaitTypeOK
  <1>6. DeadlineKept'
    <2>1. ms >= 0 => Time(tout)' = clock + ms * NsPerMs
      BY <1>4 DEF Time
    <2>2. (clock - 0) + ms * NsPerMs = clock + ms * NsPerMs
      BY <1>2, TimedWaitAssumption
    <2> QED
      BY <1>1, <1>2, <2>1, <2>2 DEF DeadlineKept
  <1>7. TicksKept' /\ NotEarlyButFor'
    BY <1>1 DEF TicksKept, NotEarlyButFor, EarlyOnlyAtBoundary, EarlyByTwoTicks, Failed
  <1> QED
    BY <1>4, <1>5, <1>6, <1>7 DEF WaitInv

\* The ticks of a call, less one for the tick that has begun, are within its time.
LEMMA CallTicksInv ==
    ASSUME Fits, WaitInv, NEW ms \in Timeout, CallTicks(ms)
    PROVE  WaitInv'
  <1>1. /\ port = "freertos" /\ port' = port /\ pc = "idle" /\ pc' = "waiting"
        /\ asked' = ms /\ elapsed' = 0 /\ jumped' = FALSE
        /\ tout' = IF Int32(ms) < 0 THEN Forever ELSE InTicks
        /\ ticks' = IF Int32(ms) < 0 THEN 0 ELSE MsToTicks(Int32(ms))
        /\ ms * NsPerMs <= MaxClock
        /\ UNCHANGED <<clock, phase>>
    BY DEF CallTicks, Begin
  <1>2. ms \in Int /\ MaxClock \in Nat /\ phase \in 0..(NsPerTick - 1)
    BY TimedWaitAssumption DEF WaitInv, WaitTypeOK
  <1>3. Int32(ms) \in Int
    <2>1. IntMod \in Nat \ {0} /\ IntMod \div 2 \in Int
      BY TimedWaitAssumption, Divided
    <2> DEFINE h == IntMod \div 2
    <2> HIDE DEF h
    <2>2. (ms + h) % IntMod \in Int
      BY <1>2, <2>1, Divided DEF h
    <2> QED
      BY <2>1, <2>2 DEF Int32, h
  <1>4. WaitTypeOK'
    <2>1. tout' \in Timespec
      BY <1>1, Units DEF Forever, InTicks, Timespec
    <2>2. ticks' \in Nat
      BY <1>1, <1>3, TicksCutOff
    <2> QED
      BY <1>1, <1>2, <2>1, <2>2, 0 \in 0..MaxClock DEF WaitInv, WaitTypeOK
  <1>5. TicksKept'
    <2> SUFFICES ASSUME ms >= 0
                 PROVE  (ticks' * NsPerTick + 0) - phase > (MsToTicks(ms) - 1) * NsPerTick
      BY <1>1 DEF TicksKept, MsToTicks
    <2>1. ms \in Nat /\ ticks' = MsToTicks(ms) /\ MsToTicks(ms) \in Nat
      BY <1>1, Int32Fits, TicksCutOff
    <2>2. (MsToTicks(ms) - 1) * NsPerTick = MsToTicks(ms) * NsPerTick - NsPerTick
      BY <2>1, Units, Distributes
    <2> QED
      BY <1>2, <2>1, <2>2, Units
  <1>6. DeadlineKept' /\ NotEarlyButFor'
    BY <1>1 DEF DeadlineKept, NotEarlyButFor, EarlyOnlyAtBoundary, EarlyByTwoTicks, Failed
  <1> QED
    BY <1>4, <1>5, <1>6 DEF WaitInv

\* The wait begins, ends with the semaphore, or is ended by a signal; a message comes.
LEMMA QuietInv ==
    ASSUME WaitInv, Waits \/ Acquires \/ Interrupted \/ Post
    PROVE  WaitInv'
  <1>1. UNCHANGED <<port, clock, elapsed, jumped, asked, tout, ticks, phase>> /\ jumped' \in BOOLEAN
    BY DEF Waits, Acquires, Interrupted, Post, Return, rtosVars, WaitInv, WaitTypeOK
  <1>2. CASE Waits
    BY <1>1, <1>2, OthersStay DEF Waits
  <1>3. CASE Acquires
    <2>1. pc' = "done" /\ result' = "OK"
      BY <1>3 DEF Acquires, Return
    <2> QED
      BY <1>1, <2>1, OthersStay DEF EarlyOnlyAtBoundary, EarlyByTwoTicks, Failed
  <1>4. CASE Interrupted
    <2>1. pc' = "done" /\ result' = "EINTR" /\ port' = "linux"
      BY <1>1, <1>4 DEF Interrupted, Return
    <2> QED
      BY <1>1, <2>1, OthersStay DEF EarlyOnlyAtBoundary, EarlyByTwoTicks
  <1>5. CASE Post
    BY <1>1, <1>5, OthersStay DEF Post
  <1> QED
    BY <1>2, <1>3, <1>4, <1>5

\* Only a whole second of nanoseconds is rejected.
LEMMA RejectsInv ==
    ASSUME WaitInv, Rejects
    PROVE  WaitInv'
  <1>1. /\ UNCHANGED <<port, clock, elapsed, jumped, asked, tout, ticks, phase>>
        /\ pc = "called" /\ pc' = "done" /\ result' = "EINVAL"
    BY DEF Rejects, Return, rtosVars
  <1>2. tout.tv_nsec = NsPerSec
    <2>1. tout.tv_nsec \in 0..NsPerSec
      BY DEF WaitInv, WaitTypeOK, Timespec
    <2> QED
      BY <2>1, Units DEF Rejects
  <1>3. port # "freertos"
    BY <1>1 DEF WaitInv, TicksKept
  <1>4. jumped' \in BOOLEAN
    BY <1>1 DEF WaitInv, WaitTypeOK
  <1> QED
    BY <1>1, <1>2, <1>3, <1>4, OthersStay DEF EarlyOnlyAtBoundary, EarlyByTwoTicks

\* A deadline that is reached means that the time asked for is over, on FreeRTOS but
\* for two ticks.
LEMMA TimesOutInv ==
    ASSUME Fits, WaitInv, TimesOut
    PROVE  WaitInv'
  <1>1. /\ UNCHANGED <<port, clock, elapsed, jumped, asked, tout, ticks, phase>>
        /\ pc = "waiting" /\ pc' = "done" /\ result' = "ETIMEDOUT" /\ jumped' \in BOOLEAN
    BY DEF TimesOut, Return, rtosVars, WaitInv, WaitTypeOK
  <1>2. /\ elapsed \in Nat /\ clock \in Nat /\ asked \in Int /\ asked * NsPerMs \in Int
        /\ phase \in 0..(NsPerTick - 1) /\ ticks \in Nat
    BY Units, TimedWaitAssumption DEF WaitInv, WaitTypeOK
  <1>3. CASE port = "linux"
    <2>1. asked >= 0 /\ ~jumped => elapsed >= asked * NsPerMs
      <3> SUFFICES ASSUME asked >= 0, ~jumped PROVE elapsed >= asked * NsPerMs
        OBVIOUS
      <3>1. Time(tout) = (clock - elapsed) + asked * NsPerMs
        BY <1>1, <1>3 DEF WaitInv, DeadlineKept
      <3>2. clock >= Time(tout)
        BY <1>3 DEF TimesOut
      <3> DEFINE a == asked * NsPerMs
                 d == Time(tout)
      <3> HIDE DEF a, d
      <3>3. elapsed >= a
        BY <1>2, <3>1, <3>2 DEF a, d
      <3> QED
        BY <3>3 DEF a
    <2>2. EarlyOnlyAtBoundary' /\ EarlyByTwoTicks'
      BY <1>1, <1>3, <2>1 DEF EarlyOnlyAtBoundary, EarlyByTwoTicks
    <2> QED
      BY <1>1, <2>2, OthersStay
  <1>4. CASE port = "freertos"
    <2>1. asked >= 0 => elapsed + 2 * NsPerTick > asked * NsPerMs
      <3> SUFFICES ASSUME asked >= 0 PROVE elapsed + 2 * NsPerTick > asked * NsPerMs
        OBVIOUS
      <3>1. CASE elapsed >= asked * NsPerMs
        BY <1>2, <3>1, Units
      <3>2. CASE (ticks * NsPerTick + elapsed) - phase > (MsToTicks(asked) - 1) * NsPerTick
        <4>1. ticks = 0
          BY <1>4 DEF TimesOut
        <4>2. /\ MsToTicks(asked) \in Nat
              /\ MsToTicks(asked) * NsPerTick > asked * NsPerMs - NsPerTick
          BY <1>2, TicksCutOff
        <4>3. (MsToTicks(asked) - 1) * NsPerTick = MsToTicks(asked) * NsPerTick - NsPerTick
          BY <4>2, Units, Distributes
        <4> QED
          BY <1>2, <3>2, <4>1, <4>2, <4>3, Units
      <3> QED
        BY <1>1, <1>4, <3>1, <3>2 DEF WaitInv, TicksKept
    <2>2. EarlyOnlyAtBoundary' /\ EarlyByTwoTicks'
      BY <1>1, <1>4, <2>1 DEF EarlyOnlyAtBoundary, EarlyByTwoTicks
    <2> QED
      BY <1>1, <2>2, OthersStay
  <1>5. CASE port \notin {"linux", "freertos"}
    BY <1>1, <1>5, OthersStay DEF EarlyOnlyAtBoundary, EarlyByTwoTicks
  <1> QED
    BY <1>3, <1>4, <1>5

LEMMA EndsInv ==
    ASSUME WaitInv, Ends
    PROVE  WaitInv'
  <1>1. /\ UNCHANGED <<port, clock, elapsed, asked, ticks, phase>>
        /\ pc' = "idle" /\ jumped' = FALSE /\ tout' = Forever
    BY DEF Ends, rtosVars
  <1>2. WaitTypeOK'
    <2>1. Forever \in Timespec
      BY Units DEF Forever, Timespec
    <2> QED
      BY <1>1, <2>1 DEF WaitInv, WaitTypeOK
  <1> QED
    BY <1>1, <1>2 DEF WaitInv, DeadlineKept, TicksKept, NotEarlyButFor, EarlyOnlyAtBoundary,
                      EarlyByTwoTicks, Failed

\* On Linux time goes on for the system and for the call.
LEMMA TickInv ==
    ASSUME WaitInv, Tick
    PROVE  WaitInv'
  <1>1. /\ port = "linux" /\ UNCHANGED <<port, jumped, pc, asked, tout, result, ticks, phase>>
        /\ clock < MaxClock /\ clock' = clock + 1
        /\ elapsed' = IF pc \in {"called", "waiting"} /\ elapsed < MaxClock
                      THEN elapsed + 1 ELSE elapsed
    BY DEF Tick, Lasts, rtosVars
  <1>2. MaxClock \in Nat /\ clock \in 0..MaxClock /\ elapsed \in 0..MaxClock
    BY TimedWaitAssumption DEF WaitInv, WaitTypeOK
  <1>3. WaitTypeOK'
    <2>1. clock' \in 0..MaxClock /\ elapsed' \in 0..MaxClock
      BY <1>1, <1>2
    <2> QED
      BY <1>1, <2>1 DEF WaitInv, WaitTypeOK
  <1>4. DeadlineKept'
    <2> SUFFICES ASSUME pc \in {"called", "waiting"}, asked >= 0, ~jumped
                 PROVE  Time(tout) = (clock' - elapsed') + asked * NsPerMs /\ elapsed' <= clock'
      BY <1>1 DEF DeadlineKept, Time
    <2>1. elapsed <= clock /\ Time(tout) = (clock - elapsed) + asked * NsPerMs
      BY <1>1 DEF WaitInv, DeadlineKept
    <2>2. elapsed' = elapsed + 1
      BY <1>1, <1>2, <2>1
    <2>3. clock' - elapsed' = clock - elapsed
      BY <1>1, <1>2, <2>2
    <2> QED
      BY <1>1, <1>2, <2>1, <2>2, <2>3
  <1>5. elapsed' >= elapsed /\ (pc = "done" => elapsed' = elapsed)
    BY <1>1, <1>2
  <1>6. TicksKept' /\ NotEarlyButFor'
    BY <1>1, <1>5 DEF WaitInv, TicksKept, NotEarlyButFor, EarlyOnlyAtBoundary, EarlyByTwoTicks, Failed
  <1> QED
    BY <1>3, <1>4, <1>6 DEF WaitInv

\* The next phase: the timer is at a tick, or one nanosecond further.
LEMMA NextPhase ==
    ASSUME phase \in 0..(NsPerTick - 1)
    PROVE  \/ phase + 1 < NsPerTick /\ (phase + 1) % NsPerTick = phase + 1
           \/ phase + 1 = NsPerTick /\ (phase + 1) % NsPerTick = 0
  <1> DEFINE T == NsPerTick
             p == phase + 1
  <1>1. T \in Nat \ {0} /\ p \in 1..T
    BY Units
  <1> HIDE DEF T, p
  <1>2. p < T => p % T = p
    BY <1>1
  <1>3. T % T = 0
    BY <1>1
  <1>4. \/ p < T /\ p % T = p
        \/ p = T /\ p % T = 0
    BY <1>1, <1>2, <1>3
  <1> QED
    BY <1>4 DEF T, p

\* On FreeRTOS a tick fewer is left exactly when the time since the last one is over.
LEMMA TimerRunsInv ==
    ASSUME WaitInv, TimerRuns
    PROVE  WaitInv'
  <1>1. /\ port = "freertos" /\ UNCHANGED <<port, clock, jumped, pc, asked, tout, result>>
        /\ phase' = (phase + 1) % NsPerTick
        /\ ticks' = IF phase' = 0 /\ ticks > 0 THEN ticks - 1 ELSE ticks
        /\ elapsed' = IF pc \in {"called", "waiting"} /\ elapsed < MaxClock
                      THEN elapsed + 1 ELSE elapsed
    BY DEF TimerRuns, Lasts
  <1>2. /\ MaxClock \in Nat /\ elapsed \in 0..MaxClock /\ ticks \in Nat
        /\ phase \in 0..(NsPerTick - 1) /\ NsPerTick \in Nat \ {0}
    BY TimedWaitAssumption, Units DEF WaitInv, WaitTypeOK
  <1>3. \/ phase + 1 < NsPerTick /\ phase' = phase + 1
        \/ phase + 1 = NsPerTick /\ phase' = 0
    BY <1>1, <1>2, NextPhase
  <1>4. /\ elapsed' \in 0..MaxClock /\ elapsed' >= elapsed
        /\ pc = "done" => elapsed' = elapsed
    BY <1>1, <1>2
  <1>5. WaitTypeOK'
    <2>1. ticks' \in Nat
      BY <1>1, <1>2
    <2>2. phase' \in 0..(NsPerTick - 1)
      BY <1>2, <1>3
    <2> QED
      BY <1>1, <1>4, <2>1, <2>2 DEF WaitInv, WaitTypeOK
  <1>6. TicksKept'
    <2> SUFFICES ASSUME pc = "waiting", asked >= 0
                 PROVE  /\ asked * NsPerMs <= MaxClock
                        /\ \/ elapsed' >= asked * NsPerMs
                           \/ (ticks' * NsPerTick + elapsed') - phase'
                                  > (MsToTicks(asked) - 1) * NsPerTick
      BY <1>1 DEF WaitInv, TicksKept, MsToTicks
    <2> DEFINE a == asked * NsPerMs
               k == (MsToTicks(asked) - 1) * NsPerTick
               t == ticks * NsPerTick
    <2>1. /\ a <= MaxClock
          /\ elapsed >= a \/ (t + elapsed) - phase > k
      BY <1>1 DEF WaitInv, TicksKept
    <2>2. a \in Int /\ k \in Int /\ t \in Nat
      <3>1. asked \in Nat /\ NsPerMs \in Nat
        BY Units DEF WaitInv, WaitTypeOK
      <3>2. MsToTicks(asked) \in Nat
        BY <3>1, TicksCutOff
      <3> QED
        BY <1>2, <3>1, <3>2
    <2>3. (ticks - 1) * NsPerTick = t - NsPerTick
      BY <1>2, Distributes
    <2>4. ticks' * NsPerTick = t \/ (phase' = 0 /\ ticks' * NsPerTick = t - NsPerTick)
      BY <1>1, <2>3
    <2>5. phase' # 0 \/ ticks = 0 => ticks' = ticks
      BY <1>1, <1>2
    <2>6. phase' = 0 /\ ticks > 0 => ticks' * NsPerTick = t - NsPerTick
      BY <1>1, <2>3
    <2> DEFINE u == ticks' * NsPerTick
    <2>7. /\ phase' # 0 => u = t
          /\ phase' = 0 => u = t - NsPerTick \/ u = t
          /\ u \in Int
      BY <1>2, <2>2, <2>4, <2>5, <2>6
    <2> HIDE DEF a, k, t, u
    <2>8. CASE elapsed = MaxClock
      BY <1>2, <1>4, <2>1, <2>2, <2>8 DEF a
    <2>9. CASE elapsed # MaxClock
      <3>1. elapsed' = elapsed + 1
        BY <1>1, <1>2, <2>9
      <3>2. (t + elapsed) - phase > k => (u + elapsed') - phase' > k
        BY <1>2, <1>3, <2>2, <2>7, <3>1
      <3> QED
        BY <1>2, <2>1, <2>2, <3>1, <3>2 DEF a, k, u
    <2> QED
      BY <2>8, <2>9
  <1>7. DeadlineKept'
    BY <1>1 DEF DeadlineKept
  <1>8. NotEarlyButFor'
    BY <1>1, <1>4 DEF WaitInv, NotEarlyButFor, EarlyOnlyAtBoundary, EarlyByTwoTicks, Failed
  <1> QED
    BY <1>5, <1>6, <1>7, <1>8 DEF WaitInv

\* A system time that is set makes the deadline meaningless, which jumped tells.
LEMMA SetsClockInv ==
    ASSUME WaitInv, SetsClock
    PROVE  WaitInv'
  <1>1. /\ port = "linux" /\ UNCHANGED <<port, elapsed, pc, asked, tout, result, ticks, phase>>
        /\ clock' \in 0..MaxClock /\ jumped' = (pc # "idle")
    BY DEF SetsClock, rtosVars
  <1>2. WaitTypeOK'
    BY <1>1 DEF WaitInv, WaitTypeOK
  <1>3. DeadlineKept' /\ TicksKept' /\ NotEarlyButFor'
    BY <1>1 DEF WaitInv, DeadlineKept, TicksKept, NotEarlyButFor, EarlyOnlyAtBoundary,
                EarlyByTwoTicks, Failed
  <1> QED
    BY <1>2, <1>3 DEF WaitInv

LEMMA WaitNextInv ==
    ASSUME Fits, WaitInv, [WaitNext]_waitVars
    PROVE  WaitInv'
  <1>1. CASE \E ms \in Timeout : Call(ms) \/ CallTicks(ms)
    BY <1>1, CallInv, CallTicksInv
  <1>2. CASE Waits \/ Acquires \/ Interrupted \/ Post
    BY <1>2, QuietInv
  <1>3. CASE Rejects
    BY <1>3, RejectsInv
  <1>4. CASE TimesOut
    BY <1>4, TimesOutInv
  <1>5. CASE Ends
    BY <1>5, EndsInv
  <1>6. CASE Tick
    BY <1>6, TickInv
  <1>7. CASE TimerRuns
    BY <1>7, TimerRunsInv
  <1>8. CASE SetsClock
    BY <1>8, SetsClockInv
  <1>9. CASE UNCHANGED waitVars
    <2>1. /\ UNCHANGED <<port, clock, elapsed, jumped, asked, tout, ticks, phase, pc, result>>
          /\ jumped' \in BOOLEAN
      BY <1>9 DEF waitVars, rtosVars, WaitInv, WaitTypeOK
    <2> QED
      BY <2>1, OthersStay
  <1> QED
    BY <1>1, <1>2, <1>3, <1>4, <1>5, <1>6, <1>7, <1>8, <1>9 DEF WaitNext

(***************************************************************************)
(* What is proved                                                          *)
(***************************************************************************)

\* The invariant, and with it the type of the state.
THEOREM WaitInvariance ==
    ASSUME Fits
    PROVE  WaitSpec => []WaitInv
  <1>1. WaitInv /\ [WaitNext]_waitVars => WaitInv'
    BY WaitNextInv
  <1> QED
    BY WaitInitInv, <1>1, PTL DEF WaitSpec

\* A wait that fails before its time was ended by a signal, saw the system time set, or
\* had a deadline of a whole second of nanoseconds (sync_linux.c:20); on FreeRTOS it is
\* early by less than two ticks (sync_freertos.c:40).
THEOREM NeverEarlyButFor ==
    ASSUME Fits
    PROVE  WaitSpec => []NotEarlyButFor
  <1>1. WaitInv => NotEarlyButFor
    BY DEF WaitInv
  <1> QED
    BY WaitInvariance, <1>1, PTL

\* The deadline that deadline_ms computes is as far away as the timeout asks for,
\* whatever second and nanosecond the call is made at (sync_linux.c:9-25).
THEOREM DeadlinesAreExact ==
    ASSUME Fits
    PROVE  WaitSpec => DeadlineExact
  <1>1. ASSUME WaitInv, [WaitNext]_waitVars,
               port = "linux" /\ pc = "idle" /\ pc' # "idle" /\ asked' >= 0
        PROVE  Time(tout') = clock + asked' * NsPerMs
    <2>1. \E ms \in Timeout : Call(ms)
      BY <1>1 DEF WaitNext, waitVars, CallTicks, Waits, Rejects, Acquires, TimesOut,
                  Interrupted, Ends, Post, Tick, TimerRuns, SetsClock
    <2>2. PICK ms \in Timeout : Call(ms)
      BY <2>1
    <2>3. asked' = ms
      BY <2>2 DEF Call, Begin
    <2> QED
      BY <1>1, <2>2, <2>3, CallInv
  <1>2. WaitInv /\ [WaitNext]_waitVars =>
            [port = "linux" /\ pc = "idle" /\ pc' # "idle" /\ asked' >= 0 =>
                Time(tout') = clock + asked' * NsPerMs]_waitVars
    BY <1>1
  <1> QED
    BY WaitInvariance, <1>2, PTL DEF WaitSpec, DeadlineExact

=============================================================================
