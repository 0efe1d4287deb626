---------------------------- MODULE PSQueueBucket ----------------------------
(***************************************************************************)
(* The priority queue of pubsub-c (psqueue_b.c), with the steps of several *)
(* threads interleaved: the queue mutex mux, the counting semaphore        *)
(* not_empty that a pull waits on before it takes the mutex, the pool of   *)
(* free nodes and one list per priority.  Only the number of free nodes is *)
(* kept: which node carries a message is never observed.                   *)
(*                                                                         *)
(* A definition said to be a mutation is what a bug would make of the one  *)
(* after it; PROJECT.json names the property that notices.                 *)
(***************************************************************************)
EXTENDS Buckets

CONSTANTS Thread,    \* the threads that push and pull
          NoThread,  \* the mutex is free
          Msg,       \* the messages
          NoMsg,     \* the null message pointer
          Capacity,  \* sz of ps_new_queue
          NPrio      \* PRIORITIES

ASSUME BucketAssumption ==
    /\ IsFiniteSet(Thread)
    /\ NoThread \notin Thread
    /\ NoMsg \notin Msg
    /\ Capacity \in Nat
    /\ NPrio \in Nat \ {0}

Prio == 0..(NPrio - 1)

VARIABLES priorities,  \* q->priorities: the messages of each list
          available,   \* the number of nodes in q->available
          mux,         \* the holder of q->mux
          not_empty,   \* the value of the semaphore q->not_empty
          pc,          \* where each thread is
          arg,         \* the arguments of the push that holds mux
          ret          \* the last result: whose it is, its code, its message

vars == <<priorities, available, mux, not_empty, pc, arg, ret>>

Code == {"OK", "EFULL", "EOVERFLOW", "PULLED", "TIMEOUT"}

Result(t, code, m) == [thread |-> t, code |-> code, msg |-> m]

NoArg == [msg |-> NoMsg, prio |-> 0]

Goto(t, l) == pc' = [pc EXCEPT ![t] = l]

Return(t, code, m) == ret' = Result(t, code, m)

\* ps_new_queue: sz free nodes, no message, a semaphore of value 0.
Init ==
    /\ priorities = Empty(Prio)
    /\ available = Capacity
    /\ mux = NoThread
    /\ not_empty = 0
    /\ pc = [t \in Thread |-> "idle"]
    /\ arg = NoArg
    /\ ret = Result(NoThread, "OK", NoMsg)

(***************************************************************************)
(* ps_queue_push                                                           *)
(***************************************************************************)

PushLock(t, m, p) ==
    /\ pc[t] = "idle"
    /\ mux = NoThread
    /\ mux' = t
    /\ arg' = [msg |-> m, prio |-> p]
    /\ Goto(t, "push")
    /\ UNCHANGED <<priorities, available, not_empty, ret>>

\* Mutations: the semaphore is never posted; after an eviction too; always.
AfterPushNoPost(code) == "unlock"
AfterPushStored(code) == IF code = "EFULL" THEN "unlock" ELSE "post"
AfterPushAlways(code) == "post"

\* if (ret == PS_QUEUE_OK) semaphore_post
AfterPush(code) == IF code = "OK" THEN "post" ELSE "unlock"

\* bqueue_get_available finds a free node.
PushStores(t) ==
    /\ pc[t] = "push"
    /\ available > 0
    /\ available' = available - 1
    /\ priorities' = Insert(priorities, arg.prio, arg.msg)
    /\ Return(t, "OK", NoMsg)
    /\ Goto(t, AfterPush("OK"))
    /\ arg' = NoArg
    /\ UNCHANGED <<mux, not_empty>>

\* No free node: the loop over the priorities below the pushed one finds a
\* message to give up, and its node carries the new message.
PushEvicts(t) ==
    /\ pc[t] = "push"
    /\ available = 0
    /\ \E v \in Prio :
         /\ v < arg.prio
         /\ IsLowest(priorities, v)
         /\ priorities' = Insert(RemoveYoungest(priorities, v), arg.prio, arg.msg)
         /\ Return(t, "EOVERFLOW", Youngest(priorities, v))
    /\ Goto(t, AfterPush("EOVERFLOW"))
    /\ arg' = NoArg
    /\ UNCHANGED <<available, mux, not_empty>>

\* No free node and nothing less important: EFULL, the caller keeps its message.
PushRefuses(t) ==
    /\ pc[t] = "push"
    /\ available = 0
    /\ \A v \in Prio : v < arg.prio => priorities[v] = <<>>
    /\ Return(t, "EFULL", arg.msg)
    /\ Goto(t, AfterPush("EFULL"))
    /\ arg' = NoArg
    /\ UNCHANGED <<priorities, available, mux, not_empty>>

\* semaphore_post, still inside the mutex.
PushPost(t) ==
    /\ pc[t] = "post"
    /\ not_empty' = not_empty + 1
    /\ Goto(t, "unlock")
    /\ UNCHANGED <<priorities, available, mux, arg, ret>>

(***************************************************************************)
(* ps_queue_pull                                                           *)
(***************************************************************************)

\* A mutation: the result of semaphore_wait is not looked at.
PullWaitUnchecked(t) ==
    /\ pc[t] = "idle"
    /\ not_empty' = not_empty - 1
    /\ Goto(t, "claimed")
    /\ UNCHANGED <<priorities, available, mux, arg, ret>>

\* semaphore_wait succeeds; the mutex is not held.
PullWait(t) ==
    /\ pc[t] = "idle"
    /\ not_empty > 0
    /\ not_empty' = not_empty - 1
    /\ Goto(t, "claimed")
    /\ UNCHANGED <<priorities, available, mux, arg, ret>>

\* semaphore_wait fails: the time is over, a signal ended the wait, or the
\* deadline was not a valid time (sync_linux.c:20), which is reported without a
\* look at the value of the semaphore.
PullFails(t) ==
    /\ pc[t] = "idle"
    /\ Return(t, "TIMEOUT", NoMsg)
    /\ UNCHANGED <<priorities, available, mux, not_empty, pc, arg>>

PullLock(t) ==
    /\ pc[t] = "claimed"
    /\ mux = NoThread
    /\ mux' = t
    /\ Goto(t, "take")
    /\ UNCHANGED <<priorities, available, not_empty, arg, ret>>

\* A mutation: the node is not put back on q->available.
PullTakesLosesNode(t) ==
    /\ pc[t] = "take"
    /\ \E p \in Prio :
         /\ IsHighest(priorities, p)
         /\ priorities' = RemoveOldest(priorities, p)
         /\ Return(t, "PULLED", Oldest(priorities, p))
    /\ Goto(t, "unlock")
    /\ UNCHANGED <<available, mux, not_empty, arg>>

\* A mutation: the loop over the priorities goes up.
PullTakesLowest(t) ==
    /\ pc[t] = "take"
    /\ \E p \in Prio :
         /\ IsLowest(priorities, p)
         /\ priorities' = RemoveOldest(priorities, p)
         /\ available' = available + 1
         /\ Return(t, "PULLED", Oldest(priorities, p))
    /\ Goto(t, "unlock")
    /\ UNCHANGED <<mux, not_empty, arg>>

\* bqueue_get: the head of the most important list, its node free again.  On
\* empty lists it would hand out NULL although the wait succeeded.
PullTakes(t) ==
    /\ pc[t] = "take"
    /\ IF \A p \in Prio : priorities[p] = <<>>
       THEN /\ Return(t, "PULLED", NoMsg)
            /\ UNCHANGED <<priorities, available>>
       ELSE \E p \in Prio :
              /\ IsHighest(priorities, p)
              /\ priorities' = RemoveOldest(priorities, p)
              /\ available' = available + 1
              /\ Return(t, "PULLED", Oldest(priorities, p))
    /\ Goto(t, "unlock")
    /\ UNCHANGED <<mux, not_empty, arg>>

Unlock(t) ==
    /\ pc[t] = "unlock"
    /\ mux' = NoThread
    /\ Goto(t, "idle")
    /\ UNCHANGED <<priorities, available, not_empty, arg, ret>>

PushBody(t) == PushStores(t) \/ PushEvicts(t) \/ PushRefuses(t)

Next ==
    \E t \in Thread :
        \/ \E m \in Msg, p \in Prio : PushLock(t, m, p)
        \/ PushBody(t)
        \/ PushPost(t)
        \/ PullWait(t)
        \/ PullFails(t)
        \/ PullLock(t)
        \/ PullTakes(t)
        \/ Unlock(t)

Spec == Init /\ [][Next]_vars

\* A thread inside a call runs on, and of the threads that read the queue some
\* one comes back while a token is there; nobody has to push.
Fairness ==
    /\ \A t \in Thread :
        /\ WF_vars(PushBody(t))
        /\ WF_vars(PushPost(t))
        /\ WF_vars(Unlock(t))
        /\ WF_vars(PullLock(t))
        /\ WF_vars(PullTakes(t))
    /\ WF_vars(\E t \in Thread : PullWait(t))

FairSpec == Spec /\ Fairness

(***************************************************************************)
(* Properties                                                              *)
(***************************************************************************)

Label == {"idle", "push", "post", "claimed", "take", "unlock"}

TypeOK ==
    /\ priorities \in [Prio -> Seq(Msg)]
    /\ available \in 0..Capacity
    /\ mux \in Thread \cup {NoThread}
    /\ not_empty \in Nat
    /\ pc \in [Thread -> Label]
    /\ arg \in [msg : Msg \cup {NoMsg}, prio : Prio]
    /\ ret \in [thread : Thread \cup {NoThread}, code : Code, msg : Msg \cup {NoMsg}]

At(S) == {t \in Thread : pc[t] \in S}

\* Every message a thread can see is counted once: in the semaphore, in a
\* pull that has passed the semaphore but not yet the list, or in a push that
\* has filled the list but not yet posted (psqueue_b.c:107-113, 122-126).
TokenAccounting ==
    not_empty + Cardinality(At({"claimed", "take"})) + Cardinality(At({"post"}))
        = Stored(priorities)

\* No node is lost or used twice, so the queue keeps the capacity it was
\* created with over any sequence of pushes, evictions and pulls.
NodesConserved == available + Stored(priorities) = Capacity

\* A pull whose wait succeeded finds a message: ps_queue_pull returns NULL
\* only when the wait failed, even if an eviction ran in between.
PullNeverEmpty == \A t \in At({"take"}) : Stored(priorities) > 0

\* What an overflowing push lets go is never more important than what stays:
\* when bqueue_get_available drops a message or reports EFULL, no message of a
\* lower priority than the lost one is left (psqueue_b.c:45-56).
ShedsLeastImportant ==
    [][\A t \in Thread : pc[t] = "push" /\ pc'[t] = "unlock" =>
          \A p \in Prio :
             (IF ret'.code = "EFULL" THEN p = arg.prio
                                     ELSE Len(priorities'[p]) < Len(priorities[p]))
             => \A q \in Prio : q < p => priorities'[q] = <<>>]_vars

\* Once pushing stops, a queue that somebody reads runs empty: no message is
\* left behind without a token to wake a reader for it.
DrainsWhenQuiet ==
    <>[](At({"push", "post"}) = {}) => <>[](Stored(priorities) = 0)

\* The queue implements the atomic queue of BoundedQueue.
Abstract == INSTANCE BoundedQueue WITH
    content <- priorities,
    claims  <- At({"claimed", "take"})

Refines == Abstract!Spec

=============================================================================
