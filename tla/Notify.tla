-------------------------------- MODULE Notify --------------------------------
(***************************************************************************)
(* push_subscriber_queue of pubsub-c and what a subscriber learns from it: *)
(* the callbacks (ps_set_new_msg_cb, ps_set_non_empty_cb), with the event  *)
(* loops they wake, and the overflow counter (ps_overflow).                *)
(*                                                                         *)
(* Callbacks are made under the global lock, each after a test of          *)
(* ps_queue_waiting that readers do not wait for.  An event loop is        *)
(* outside the library: its callback sets a wake-up event, and the loop    *)
(* waits for the event, resets it and reads with ps_get(su, 0) until there *)
(* is nothing left.  Other readers take a message with ps_get, or all of   *)
(* them with ps_flush, when they like.                                     *)
(*                                                                         *)
(* Only the number of messages matters.  A push that evicts a message or   *)
(* is refused keeps that number, and returns before the callbacks.         *)
(*                                                                         *)
(* ps_overflow reads and resets the counter in two atomic steps, with      *)
(* publishers and other threads in between.                                *)
(*                                                                         *)
(* A definition said to be a mutation is what a bug would make of the one  *)
(* after it; PROJECT.json names the property that notices.                 *)
(***************************************************************************)
EXTENDS Integers, Sequences, FiniteSets

CONSTANTS Reader,   \* readers other than the event loops
          Capacity, \* the size of the queue
          Counting, \* ps_queue_waiting is the number of stored messages
                    \* (psqueue_ll.c), not the semaphore (psqueue_b.c)
          Poller,   \* the threads that call ps_overflow
          OverflowMod  \* the overflow counter wraps here (2^32)

ASSUME NotifyAssumption ==
    /\ IsFiniteSet(Reader)
    /\ Reader \cap {"non_empty_cb", "new_msg_cb"} = {}
    /\ Capacity \in Nat
    /\ Counting \in BOOLEAN
    /\ IsFiniteSet(Poller)
    /\ OverflowMod \in Nat \ {0}

\* The callbacks, each with an event loop of its own.
Callback == {"non_empty_cb", "new_msg_cb"}

VARIABLES installed,  \* the callbacks that are set
          not_empty,  \* the semaphore of the queue
          cs,         \* what the holder of the global lock has still to do
          calling,    \* its next test was true and the call is to come
          wake,       \* the events that are set
          at,         \* where each event loop and each other reader is
          overflow,   \* su->overflow
          n,          \* what each ps_overflow has read and not yet subtracted
          lost,       \* the pushes that ended in EOVERFLOW or EFULL
          reported    \* the sum of the results of ps_overflow; these two are
                      \* kept modulo OverflowMod

overflowVars == <<overflow, n, lost, reported>>
vars == <<installed, not_empty, cs, calling, wake, at, overflowVars>>

None == -1

Init ==
    /\ installed = {}
    /\ not_empty = 0
    /\ cs = <<>>
    /\ calling = FALSE
    /\ wake = {}
    /\ at = [r \in Callback \cup Reader |-> "asleep"]
    /\ overflow = 0
    /\ n = [r \in Poller |-> None]
    /\ lost = 0
    /\ reported = 0

\* Readers that have passed the semaphore and not yet taken their message.
Claimed == {r \in DOMAIN at : at[r] \in {"getting", "claimed"}}

Stored == not_empty + Cardinality(Claimed)

\* ps_queue_waiting
Waiting == IF Counting THEN Stored ELSE not_empty

(***************************************************************************)
(* Under the global lock                                                   *)
(***************************************************************************)

HasRoom == Stored < Capacity

\* push_subscriber_queue: the message is stored, two callbacks may be due.
Push ==
    /\ cs = <<>>
    /\ HasRoom
    /\ not_empty' = not_empty + 1
    /\ cs' = <<[test |-> "one", cb |-> "non_empty_cb"],
               [test |-> "none", cb |-> "new_msg_cb"]>>
    /\ UNCHANGED <<installed, calling, wake, at, overflowVars>>

\* The same when there is no room: a message is lost, this one or another.
PushLoses ==
    /\ cs = <<>>
    /\ ~HasRoom
    /\ overflow' = (overflow + 1) % OverflowMod
    /\ lost' = (lost + 1) % OverflowMod
    /\ UNCHANGED <<installed, not_empty, cs, calling, wake, at, n, reported>>

\* A mutation: a callback that is set later is not told of what is there.
SetsSilently(cb) ==
    /\ cs = <<>>
    /\ installed' = installed \cup {cb}
    /\ UNCHANGED <<cs, not_empty, calling, wake, at, overflowVars>>

\* ps_set_new_msg_cb and ps_set_non_empty_cb with a callback
Sets(cb) ==
    /\ cs = <<>>
    /\ installed' = installed \cup {cb}
    /\ cs' = <<[test |-> "some", cb |-> cb]>>
    /\ UNCHANGED <<not_empty, calling, wake, at, overflowVars>>

\* The same functions with NULL
Clears(cb) ==
    /\ cs = <<>>
    /\ cb \in installed
    /\ installed' = installed \ {cb}
    /\ UNCHANGED <<not_empty, cs, calling, wake, at, overflowVars>>

Holds(test) ==
    CASE test = "one"  -> Waiting = 1
      [] test = "some" -> Waiting > 0
      [] test = "none" -> TRUE

Due == cs # <<>> /\ Head(cs).cb \in installed

\* No such callback, or its test is false; the other one is made all the same.
Skips ==
    /\ cs # <<>>
    /\ ~calling
    /\ ~(Due /\ Holds(Head(cs).test))
    /\ cs' = Tail(cs)
    /\ UNCHANGED <<installed, not_empty, calling, wake, at, overflowVars>>

Tests ==
    /\ Due
    /\ ~calling
    /\ Holds(Head(cs).test)
    /\ calling' = TRUE
    /\ UNCHANGED <<installed, not_empty, cs, wake, at, overflowVars>>

\* The callback sets the event of its loop.
Calls ==
    /\ calling
    /\ wake' = wake \cup {Head(cs).cb}
    /\ calling' = FALSE
    /\ cs' = Tail(cs)
    /\ UNCHANGED <<installed, not_empty, at, overflowVars>>

(***************************************************************************)
(* Readers                                                                 *)
(***************************************************************************)

Goto(r, l) == at' = [at EXCEPT ![r] = l]

WakesUp(cb) ==
    /\ at[cb] = "asleep"
    /\ cb \in wake
    /\ wake' = wake \ {cb}
    /\ Goto(cb, "reading")
    /\ UNCHANGED <<installed, not_empty, cs, calling, overflowVars>>

\* One ps_get: the semaphore, then the message.
Gets(r) ==
    /\ at[r] = "asleep"
    /\ not_empty > 0
    /\ not_empty' = not_empty - 1
    /\ Goto(r, "getting")
    /\ UNCHANGED <<installed, cs, calling, wake, overflowVars>>

Returns(r) ==
    /\ at[r] = "getting"
    /\ Goto(r, "asleep")
    /\ UNCHANGED <<installed, not_empty, cs, calling, wake, overflowVars>>

\* ps_flush begins.
Flushes(r) ==
    /\ at[r] = "asleep"
    /\ Goto(r, "reading")
    /\ UNCHANGED <<installed, not_empty, cs, calling, wake, overflowVars>>

\* A round of an event loop or of ps_flush: the semaphore, then the message.
Claims(r) ==
    /\ at[r] = "reading"
    /\ not_empty > 0
    /\ not_empty' = not_empty - 1
    /\ Goto(r, "claimed")
    /\ UNCHANGED <<installed, cs, calling, wake, overflowVars>>

Takes(r) ==
    /\ at[r] = "claimed"
    /\ Goto(r, "reading")
    /\ UNCHANGED <<installed, not_empty, cs, calling, wake, overflowVars>>

\* A mutation: ps_flush pulls with a timeout of -1.
FindsNoneInLoop(r) ==
    /\ r \in Callback
    /\ at[r] = "reading"
    /\ not_empty = 0
    /\ Goto(r, "asleep")
    /\ UNCHANGED <<installed, not_empty, cs, calling, wake, overflowVars>>

\* The pull returns NULL: there is nothing left.
FindsNone(r) ==
    /\ at[r] = "reading"
    /\ not_empty = 0
    /\ Goto(r, "asleep")
    /\ UNCHANGED <<installed, not_empty, cs, calling, wake, overflowVars>>

(***************************************************************************)
(* ps_overflow                                                             *)
(***************************************************************************)

\* __sync_fetch_and_sub(&su->overflow, 0)
ReadsOverflow(r) ==
    /\ n[r] = None
    /\ n' = [n EXCEPT ![r] = overflow]
    /\ UNCHANGED <<installed, not_empty, cs, calling, wake, at, overflow, lost, reported>>

\* A mutation: the counter is set to 0.
ZeroesOverflow(r) ==
    /\ n[r] # None
    /\ overflow' = 0
    /\ reported' = (reported + n[r]) % OverflowMod
    /\ n' = [n EXCEPT ![r] = None]
    /\ UNCHANGED <<installed, not_empty, cs, calling, wake, at, lost>>

\* __sync_fetch_and_sub(&su->overflow, n); return n
SubtractsOverflow(r) ==
    /\ n[r] # None
    /\ overflow' = (overflow - n[r]) % OverflowMod
    /\ reported' = (reported + n[r]) % OverflowMod
    /\ n' = [n EXCEPT ![r] = None]
    /\ UNCHANGED <<installed, not_empty, cs, calling, wake, at, lost>>

Next ==
    \/ Push \/ PushLoses
    \/ Skips
    \/ Tests
    \/ Calls
    \/ \E cb \in Callback : Sets(cb) \/ Clears(cb) \/ WakesUp(cb)
    \/ \E r \in Reader : Gets(r) \/ Returns(r) \/ Flushes(r)
    \/ \E r \in Callback \cup Reader : Claims(r) \/ Takes(r) \/ FindsNone(r)
    \/ \E r \in Poller : ReadsOverflow(r) \/ SubtractsOverflow(r)

Spec == Init /\ [][Next]_vars

\* The holder of the lock goes on, and so do the event loops and a ps_flush under
\* way; other readers may never come back.
Fairness ==
    /\ WF_vars(Skips) /\ WF_vars(Tests) /\ WF_vars(Calls)
    /\ \A cb \in Callback : WF_vars(WakesUp(cb))
    /\ \A r \in Callback \cup Reader :
         WF_vars(Claims(r) \/ FindsNone(r)) /\ WF_vars(Takes(r))

FairSpec == Spec /\ Fairness

(***************************************************************************)
(* Properties                                                              *)
(***************************************************************************)

TypeOK ==
    /\ installed \subseteq Callback
    /\ not_empty \in 0..Capacity
    /\ cs \in Seq([test : {"one", "some", "none"}, cb : Callback])
    /\ calling \in BOOLEAN
    /\ wake \subseteq Callback
    /\ at \in [Callback \cup Reader -> {"asleep", "getting", "reading", "claimed"}]
    /\ overflow \in 0..(OverflowMod - 1)
    /\ n \in [Poller -> {None} \cup 0..(OverflowMod - 1)]
    /\ lost \in 0..(OverflowMod - 1)
    /\ reported \in 0..(OverflowMod - 1)

\* No wake-up is lost, although readers move between the push and the test
\* (pubsub.c:287): when the lock is free and a message waits, the loop of a
\* callback that is set is awake or has its event set.
NoLostWakeup ==
    cs = <<>> /\ not_empty > 0 =>
        \A cb \in installed : at[cb] # "asleep" \/ cb \in wake

\* A message that waits is read in the end, as long as a callback stays set.
WaitingIsRead ==
    \A cb \in Callback :
        (not_empty > 0 /\ cb \in installed) ~> (at[cb] # "asleep" \/ not_empty = 0
                                                 \/ cb \notin installed)

\* ps_flush, and with it ps_free_subscriber, does not go on forever unless messages
\* come forever: it ends after the last of them, whoever else reads (pubsub.c:362).
FlushEnds ==
    <>[][~Push]_vars => \A r \in Reader : at[r] = "reading" ~> at[r] = "asleep"

\* Nothing is left to wait for a reader that has been called, and no reader is held
\* up: what waits is read, and whoever reads is done in the end.
ReadingGoesOn == WaitingIsRead /\ FlushEnds

\* What has been reported and what the counter holds make up what was lost, in
\* the arithmetic of a counter that wraps, also when messages are lost between
\* the two steps of ps_overflow (pubsub.c:554) and when another thread is between
\* them: that one reports the same messages again, but the counter then goes
\* below 0 and the next result takes back what was said twice.
LossesAccounted == (reported + overflow) % OverflowMod = lost

\* Nothing goes out of its range: neither the queue's number of messages nor the
\* counter (pubsub.c:274-284, 553-557); and losses are accounted for.
CountersSound == TypeOK /\ LossesAccounted

=============================================================================
