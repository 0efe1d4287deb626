------------------------------ MODULE PSQueueLL ------------------------------
(***************************************************************************)
(* The queue of pubsub-c without priorities (psqueue_ll.c): a ring of size *)
(* cells, indexed from 0, with the threads' steps interleaved under the    *)
(* queue mutex mux and around the semaphore not_empty.  Unlike the bucket  *)
(* queue, it never evicts, and ps_queue_waiting reports the number of      *)
(* stored messages (read under the mutex) and not the semaphore.           *)
(*                                                                         *)
(* A definition said to be a mutation is what a bug would make of the one  *)
(* after it; PROJECT.json names the property that notices.                 *)
(***************************************************************************)
EXTENDS Integers, Sequences, FiniteSets

CONSTANTS Thread,    \* the threads that push and pull
          NoThread,  \* the mutex is free
          Msg,       \* the messages
          NoMsg,     \* the null message pointer
          Capacity   \* sz of ps_new_queue

ASSUME RingAssumption ==
    /\ IsFiniteSet(Thread)
    /\ NoThread \notin Thread
    /\ NoMsg \notin Msg
    /\ Capacity \in Nat

Cell == 0..(Capacity - 1)

VARIABLES messages,   \* q->messages: a cell keeps its pointer when it is read
          count,      \* q->count
          head,       \* q->head: the next cell to fill
          tail,       \* q->tail: the next cell to read
          mux,        \* the holder of q->mux
          not_empty,  \* the value of the semaphore q->not_empty
          pc,         \* where each thread is
          arg,        \* the message of the push that holds mux
          ret         \* the last result: whose it is, its code, its message

vars == <<messages, count, head, tail, mux, not_empty, pc, arg, ret>>

Code == {"OK", "EFULL", "PULLED", "TIMEOUT"}

Goto(t, l) == pc' = [pc EXCEPT ![t] = l]

Return(t, code, m) == ret' = [thread |-> t, code |-> code, msg |-> m]

\* A mutation: the index runs one past the end.
AdvanceTooFar(i) == IF i + 1 > Capacity THEN 0 ELSE i + 1

\* ++i, back to 0 at the end of the ring.
Advance(i) == IF i + 1 >= Capacity THEN 0 ELSE i + 1

\* ps_new_queue
Init ==
    /\ messages = [i \in Cell |-> NoMsg]
    /\ count = 0
    /\ head = 0
    /\ tail = 0
    /\ mux = NoThread
    /\ not_empty = 0
    /\ pc = [t \in Thread |-> "idle"]
    /\ arg = NoMsg
    /\ ret = [thread |-> NoThread, code |-> "OK", msg |-> NoMsg]

(***************************************************************************)
(* ps_queue_push; the priority is ignored                                  *)
(***************************************************************************)

PushLock(t, m) ==
    /\ pc[t] = "idle"
    /\ mux = NoThread
    /\ mux' = t
    /\ arg' = m
    /\ Goto(t, "push")
    /\ UNCHANGED <<messages, count, head, tail, not_empty, ret>>

\* A mutation: the semaphore is never posted.
AfterPushNoPost(code) == "unlock"

\* semaphore_post is in the branch that stores the message.
AfterPush(code) == IF code = "OK" THEN "post" ELSE "unlock"

PushStores(t) ==
    /\ pc[t] = "push"
    /\ count < Capacity
    /\ messages' = [messages EXCEPT ![head] = arg]
    /\ head' = Advance(head)
    /\ count' = count + 1
    /\ Return(t, "OK", NoMsg)
    /\ Goto(t, AfterPush("OK"))
    /\ arg' = NoMsg
    /\ UNCHANGED <<tail, mux, not_empty>>

\* The result -1 is PS_QUEUE_EFULL.
PushRefuses(t) ==
    /\ pc[t] = "push"
    /\ count >= Capacity
    /\ Return(t, "EFULL", arg)
    /\ Goto(t, AfterPush("EFULL"))
    /\ arg' = NoMsg
    /\ UNCHANGED <<messages, count, head, tail, mux, not_empty>>

PushPost(t) ==
    /\ pc[t] = "post"
    /\ not_empty' = not_empty + 1
    /\ Goto(t, "unlock")
    /\ UNCHANGED <<messages, count, head, tail, mux, arg, ret>>

(***************************************************************************)
(* ps_queue_pull                                                           *)
(***************************************************************************)

PullWait(t) ==
    /\ pc[t] = "idle"
    /\ not_empty > 0
    /\ not_empty' = not_empty - 1
    /\ Goto(t, "claimed")
    /\ UNCHANGED <<messages, count, head, tail, mux, arg, ret>>

\* semaphore_wait fails (see PSQueueBucket).
PullFails(t) ==
    /\ pc[t] = "idle"
    /\ Return(t, "TIMEOUT", NoMsg)
    /\ UNCHANGED <<messages, count, head, tail, mux, not_empty, pc, arg>>

PullLock(t) ==
    /\ pc[t] = "claimed"
    /\ mux = NoThread
    /\ mux' = t
    /\ Goto(t, "take")
    /\ UNCHANGED <<messages, count, head, tail, not_empty, arg, ret>>

\* A mutation: the cell at head is read.
PullTakesAtHead(t) ==
    /\ pc[t] = "take"
    /\ Return(t, "PULLED", messages[head])
    /\ tail' = Advance(tail)
    /\ count' = count - 1
    /\ Goto(t, "unlock")
    /\ UNCHANGED <<messages, head, mux, not_empty, arg>>

\* The cell at tail is read whatever count says.
PullTakes(t) ==
    /\ pc[t] = "take"
    /\ Return(t, "PULLED", messages[tail])
    /\ tail' = Advance(tail)
    /\ count' = count - 1
    /\ Goto(t, "unlock")
    /\ UNCHANGED <<messages, head, mux, not_empty, arg>>

Unlock(t) ==
    /\ pc[t] = "unlock"
    /\ mux' = NoThread
    /\ Goto(t, "idle")
    /\ UNCHANGED <<messages, count, head, tail, not_empty, arg, ret>>

PushBody(t) == PushStores(t) \/ PushRefuses(t)

Next ==
    \E t \in Thread :
        \/ \E m \in Msg : PushLock(t, m)
        \/ PushBody(t)
        \/ PushPost(t)
        \/ PullWait(t)
        \/ PullFails(t)
        \/ PullLock(t)
        \/ PullTakes(t)
        \/ Unlock(t)

Spec == Init /\ [][Next]_vars

\* As for the bucket queue: calls run on, somebody reads while a token is there.
Fairness ==
    /\ \A t \in Thread :
        /\ WF_vars(PushBody(t))
        /\ WF_vars(PushPost(t))
        /\ WF_vars(Unlock(t))
        /\ WF_vars(PullLock(t))
        /\ WF_vars(PullTakes(t))
    /\ WF_vars(\E t \in Thread : PullWait(t))

FairSpec == Spec /\ Fairness

(***************************************************************************)
(* Properties                                                              *)
(***************************************************************************)

Label == {"idle", "push", "post", "claimed", "take", "unlock"}

TypeOK ==
    /\ messages \in [Cell -> Msg \cup {NoMsg}]
    /\ count \in 0..Capacity
    /\ head \in Cell \cup {0}
    /\ tail \in Cell \cup {0}
    /\ mux \in Thread \cup {NoThread}
    /\ not_empty \in Nat
    /\ pc \in [Thread -> Label]
    /\ arg \in Msg \cup {NoMsg}
    /\ ret \in [thread : Thread \cup {NoThread}, code : Code, msg : Msg \cup {NoMsg}]

At(S) == {t \in Thread : pc[t] \in S}

\* Every stored message has one token: in the semaphore, with a pull that has
\* passed it, or with a push about to post it (psqueue_ll.c:44-45, 56-63).
TokenAccounting ==
    not_empty + Cardinality(At({"claimed", "take"})) + Cardinality(At({"post"})) = count

\* head, tail and count agree, so the occupied cells are the count cells from
\* tail on: a ring that is full and one that is empty are told apart by count.
RingConsistent ==
    /\ Capacity > 0 => head = (tail + count) % Capacity
    /\ \A i \in 1..count : messages[(tail + i - 1) % Capacity] \in Msg

\* The ring is sound: every index and counter is in its range, tokens and messages
\* agree, and so do the indices (psqueue_ll.c:36-76).
RingSound == TypeOK /\ TokenAccounting /\ RingConsistent

\* The messages in the ring, oldest first.
Contents == [i \in 1..count |-> messages[(tail + i - 1) % Capacity]]

\* The ring implements the queue of BoundedQueue with one priority: it hands
\* out every message once, in the order of the pushes, and refuses when full.
Abstract == INSTANCE BoundedQueue WITH
    NPrio   <- 1,
    content <- [p \in {0} |-> Contents],
    claims  <- At({"claimed", "take"})

Refines == Abstract!Spec

\* Once pushing stops, a ring that somebody reads runs empty.
DrainsWhenQuiet == <>[](At({"push", "post"}) = {}) => <>[](count = 0)

=============================================================================
