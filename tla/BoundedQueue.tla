---------------------------- MODULE BoundedQueue ----------------------------
(***************************************************************************)
(* What a subscriber queue promises (psqueue.h), without its mutex, its    *)
(* semaphore and its nodes.  A push is atomic.  A pull has two parts, as   *)
(* in both implementations: the caller first reserves one message, then    *)
(* takes the best one there is at that time.  ret is the result of the     *)
(* latest call: its thread, the code of a push with the message it let go  *)
(* of, or the message of a pull.                                           *)
(***************************************************************************)
EXTENDS Buckets

CONSTANTS Thread,    \* the threads that call the queue
          NoThread,  \* nobody
          Msg,       \* the messages
          NoMsg,     \* the null message pointer
          Capacity,  \* the size the queue was created with
          NPrio      \* the number of priorities

Prio == 0..(NPrio - 1)

Result(t, code, m) == [thread |-> t, code |-> code, msg |-> m]

VARIABLES content,   \* the stored messages, by priority
          claims,    \* the threads that have reserved a message
          ret        \* the latest result

vars == <<content, claims, ret>>

Init ==
    /\ content = Empty(Prio)
    /\ claims = {}
    /\ ret = Result(NoThread, "OK", NoMsg)

\* There is room: the message is stored.
PushStores(t, m, p) ==
    /\ Stored(content) < Capacity
    /\ content' = Insert(content, p, m)
    /\ ret' = Result(t, "OK", NoMsg)
    /\ UNCHANGED claims

\* No room, but a less important message is stored: its youngest one goes.
PushEvicts(t, m, p) ==
    /\ Stored(content) = Capacity
    /\ \E v \in Prio :
         /\ v < p
         /\ IsLowest(content, v)
         /\ content' = Insert(RemoveYoungest(content, v), p, m)
         /\ ret' = Result(t, "EOVERFLOW", Youngest(content, v))
    /\ UNCHANGED claims

\* No room and nothing less important: the new message is refused.
PushRefuses(t, m, p) ==
    /\ Stored(content) = Capacity
    /\ \A v \in Prio : v < p => content[v] = <<>>
    /\ ret' = Result(t, "EFULL", m)
    /\ UNCHANGED <<content, claims>>

Push(t, m, p) == PushStores(t, m, p) \/ PushEvicts(t, m, p) \/ PushRefuses(t, m, p)

\* A pull reserves a message that no other thread has reserved.
Claim(t) ==
    /\ t \notin claims
    /\ Cardinality(claims) < Stored(content)
    /\ claims' = claims \cup {t}
    /\ UNCHANGED <<content, ret>>

\* A pull gives up with nothing.
Timeout(t) ==
    /\ t \notin claims
    /\ ret' = Result(t, "TIMEOUT", NoMsg)
    /\ UNCHANGED <<content, claims>>

\* A thread with a reservation always gets a message: the oldest of the most
\* important ones.
Take(t) ==
    /\ t \in claims
    /\ \E p \in Prio :
         /\ IsHighest(content, p)
         /\ content' = RemoveOldest(content, p)
         /\ ret' = Result(t, "PULLED", Oldest(content, p))
    /\ claims' = claims \ {t}

Next ==
    \E t \in Thread :
        \/ \E m \in Msg, p \in Prio : Push(t, m, p)
        \/ Claim(t)
        \/ Timeout(t)
        \/ Take(t)

Spec == Init /\ [][Next]_vars

=============================================================================
