------------------------------ MODULE TimedWait ------------------------------
(***************************************************************************)
(* The timed wait of pubsub-c (semaphore_wait), as ps_get reaches it       *)
(* through ps_queue_pull, in its two ports.                                *)
(*                                                                         *)
(* On Linux (sync_linux.c) a timeout in milliseconds becomes an absolute   *)
(* time in seconds and nanoseconds.  sem_timedwait itself is the C         *)
(* library's: it need not look at the deadline while the semaphore can be  *)
(* taken, and otherwise reports EINVAL for a deadline that is not a valid  *)
(* time.                                                                   *)
(*                                                                         *)
(* On FreeRTOS (sync_freertos.c) it becomes a number of ticks, and the     *)
(* kernel's xSemaphoreTake waits for that many ticks of its timer, the     *)
(* first of which may come at once.                                        *)
(*                                                                         *)
(* A definition said to be a mutation is what a bug would make of the one  *)
(* after it; PROJECT.json names the property that notices.                 *)
(***************************************************************************)
EXTENDS Integers

CONSTANTS Ports,     \* "linux", "freertos": what the library may be built for
          Timeout,   \* the timeouts asked for, in ms (int64_t)
          MsPerSec,  \* 1000
          NsPerMs,   \* 1000000
          TickRate,  \* configTICK_RATE_HZ: FreeRTOS's ticks in a second
          IntMod,    \* 2^32: semaphore_wait takes an int32_t
          Signals,   \* a signal may end a wait
          Steps,     \* the system time may be set
          MaxClock   \* bound: the time, and the deadlines of the calls made

ASSUME TimedWaitAssumption ==
    /\ Ports \subseteq {"linux", "freertos"}
    /\ Timeout \subseteq Int
    /\ MsPerSec \in Nat \ {0} /\ NsPerMs \in Nat \ {0}
    /\ TickRate \in Nat \ {0} /\ (MsPerSec * NsPerMs) % TickRate = 0
    /\ IntMod \in Nat \ {0} /\ IntMod % 4 = 0
    /\ Signals \in BOOLEAN /\ Steps \in BOOLEAN
    /\ MaxClock \in Nat

NsPerSec == MsPerSec * NsPerMs
NsPerTick == NsPerSec \div TickRate

VARIABLES port,     \* the port the library is built for
          clock,    \* CLOCK_REALTIME, in ns
          elapsed,  \* the time since the call was made, in ns, up to MaxClock
          jumped,   \* the system time has been set since the call was made
          sem,      \* the value of the semaphore, 0 or 1
          pc,       \* idle, called, waiting, done
          asked,    \* the timeout of the call
          tout,     \* its deadline, on Linux
          ticks,    \* the ticks it has still to wait, on FreeRTOS
          phase,    \* the time since the last tick, on FreeRTOS
          result    \* OK, ETIMEDOUT, EINTR or EINVAL

rtosVars == <<port, ticks, phase>>
waitVars == <<clock, elapsed, jumped, sem, pc, asked, tout, result, rtosVars>>

Forever == [tv_sec |-> -1, tv_nsec |-> 0]

\* A deadline that is kept as a number of ticks.
InTicks == [tv_sec |-> 0, tv_nsec |-> 0]

Time(t) == t.tv_sec * NsPerSec + t.tv_nsec

\* A mutation: half the width.
NarrowInt(ms) == ((ms + IntMod \div 4) % (IntMod \div 2)) - IntMod \div 4

\* The conversion of int64_t to int32_t in the call of semaphore_wait.
Int32(ms) == ((ms + IntMod \div 2) % IntMod) - IntMod \div 2

\* A mutation: the second carried from tv_nsec is lost.
DeadlineCarryLost(ms) ==
    LET nsec == (clock % NsPerSec) + (ms % MsPerSec) * NsPerMs
    IN  [tv_sec  |-> clock \div NsPerSec + ms \div MsPerSec,
         tv_nsec |-> IF nsec > NsPerSec THEN nsec - NsPerSec ELSE nsec]

\* deadline_ms, for a timeout that is not negative
Deadline(ms) ==
    LET sec  == clock \div NsPerSec + ms \div MsPerSec
        nsec == (clock % NsPerSec) + (ms % MsPerSec) * NsPerMs
    IN  IF nsec > NsPerSec
        THEN [tv_sec |-> sec + 1, tv_nsec |-> nsec - NsPerSec]
        ELSE [tv_sec |-> sec, tv_nsec |-> nsec]

\* A mutation: the timeout in ms is taken for a number of ticks.
TicksUnscaled(ms) == ms \div NsPerTick

\* pdMS_TO_TICKS
MsToTicks(ms) == (ms * TickRate) \div MsPerSec

WaitInit ==
    /\ port \in Ports
    /\ ticks = 0
    /\ phase = 0
    /\ clock = 0
    /\ elapsed = 0
    /\ jumped = FALSE
    /\ sem = 0
    /\ pc = "idle"
    /\ asked = 0
    /\ tout = Forever
    /\ result = "OK"

\* The call is made at this time.
Begin(ms) ==
    /\ pc = "idle"
    /\ asked' = ms
    /\ elapsed' = 0
    /\ jumped' = FALSE

\* semaphore_wait of Linux, up to sem_wait or sem_timedwait
Call(ms) ==
    /\ port = "linux"
    /\ Begin(ms)
    /\ clock + ms * NsPerMs <= MaxClock
    /\ tout' = IF Int32(ms) < 0 THEN Forever ELSE Deadline(Int32(ms))
    /\ pc' = IF Int32(ms) < 0 THEN "waiting" ELSE "called"
    /\ UNCHANGED <<clock, sem, result, rtosVars>>

\* semaphore_wait of FreeRTOS, up to xSemaphoreTake
CallTicks(ms) ==
    /\ port = "freertos"
    /\ Begin(ms)
    /\ ms * NsPerMs <= MaxClock
    /\ tout' = IF Int32(ms) < 0 THEN Forever ELSE InTicks
    /\ ticks' = IF Int32(ms) < 0 THEN 0 ELSE MsToTicks(Int32(ms))
    /\ pc' = "waiting"
    /\ UNCHANGED <<clock, sem, result, port, phase>>

Return(r) ==
    /\ pc' = "done"
    /\ result' = r
    /\ UNCHANGED <<clock, elapsed, jumped, asked, tout, rtosVars>>

\* sem_timedwait has to wait and looks at the deadline.
Waits ==
    /\ pc = "called"
    /\ sem = 0
    /\ tout.tv_nsec < NsPerSec
    /\ pc' = "waiting"
    /\ UNCHANGED <<clock, elapsed, jumped, sem, asked, tout, result, rtosVars>>

\* Whether or not the semaphore could be taken: the C library may look first.
Rejects ==
    /\ pc = "called"
    /\ tout.tv_nsec >= NsPerSec
    /\ Return("EINVAL")
    /\ UNCHANGED sem

Acquires ==
    /\ pc \in {"called", "waiting"}
    /\ sem > 0
    /\ sem' = sem - 1
    /\ Return("OK")

TimesOut ==
    /\ pc = "waiting"
    /\ sem = 0
    /\ tout # Forever
    /\ IF port = "linux" THEN clock >= Time(tout) ELSE ticks = 0
    /\ Return("ETIMEDOUT")
    /\ UNCHANGED sem

Interrupted ==
    /\ Signals
    /\ port = "linux"
    /\ pc = "waiting"
    /\ sem = 0
    /\ Return("EINTR")
    /\ UNCHANGED sem

\* The caller has the result and may call again.
Ends ==
    /\ pc = "done"
    /\ pc' = "idle"
    /\ tout' = Forever
    /\ jumped' = FALSE
    /\ UNCHANGED <<clock, elapsed, sem, asked, result, rtosVars>>

Post ==
    /\ sem = 0
    /\ sem' = 1
    /\ UNCHANGED <<clock, elapsed, jumped, pc, asked, tout, result, rtosVars>>

\* Since the call was made
Lasts == elapsed' = IF pc \in {"called", "waiting"} /\ elapsed < MaxClock
                    THEN elapsed + 1 ELSE elapsed

Tick ==
    /\ port = "linux"
    /\ clock < MaxClock
    /\ clock' = clock + 1
    /\ Lasts
    /\ UNCHANGED <<jumped, sem, pc, asked, tout, result, rtosVars>>

\* FreeRTOS's timer goes on; a task that waits has one tick less to wait.
TimerRuns ==
    /\ port = "freertos"
    /\ phase' = (phase + 1) % NsPerTick
    /\ ticks' = IF phase' = 0 /\ ticks > 0 THEN ticks - 1 ELSE ticks
    /\ Lasts
    /\ UNCHANGED <<port, clock, jumped, sem, pc, asked, tout, result>>

\* Somebody sets the system time.
SetsClock ==
    /\ Steps
    /\ port = "linux"
    /\ clock' \in 0..MaxClock
    /\ jumped' = (pc # "idle")
    /\ UNCHANGED <<elapsed, sem, pc, asked, tout, result, rtosVars>>

WaitNext ==
    \/ \E ms \in Timeout : Call(ms) \/ CallTicks(ms)
    \/ Waits \/ Rejects \/ Acquires \/ TimesOut \/ Interrupted \/ Ends
    \/ Post \/ Tick \/ TimerRuns \/ SetsClock

WaitSpec == WaitInit /\ [][WaitNext]_waitVars

\* Time goes on, and a call that can go on does.
WaitFairness ==
    /\ WF_waitVars(Tick \/ TimerRuns)
    /\ WF_waitVars(Waits) /\ WF_waitVars(Rejects \/ Acquires) /\ WF_waitVars(TimesOut)

FairWaitSpec == WaitSpec /\ WaitFairness

(***************************************************************************)
(* Properties                                                              *)
(***************************************************************************)

Failed == pc = "done" /\ result # "OK"

\* What pubsub.h:303 says of ps_get: NULL if the timeout is reached, and a
\* negative timeout is never reached.
NotEarly == Failed => asked >= 0 /\ elapsed >= asked * NsPerMs

\* The carry is right: the deadline is as far away as the timeout asks for,
\* whatever second and nanosecond the call is made at (sync_linux.c:9-25).
DeadlineExact ==
    [][port = "linux" /\ pc = "idle" /\ pc' # "idle" /\ asked' >= 0 =>
          Time(tout') = clock + asked' * NsPerMs]_waitVars

\* On Linux, a wait with a timeout that fails before its time was ended by a signal, saw
\* the system time set, or had a deadline of exactly NsPerSec nanoseconds, where
\* > should be >= (sync_linux.c:20): no other value of tv_nsec is rejected, and
\* no wait is over before the system time has reached its deadline.
EarlyOnlyAtBoundary ==
    port = "linux" /\ Failed /\ asked >= 0 =>
        \/ result = "EINTR"
        \/ result = "EINVAL" /\ tout.tv_nsec = NsPerSec
        \/ result = "ETIMEDOUT" /\ (elapsed >= asked * NsPerMs \/ jumped)

\* On FreeRTOS, a wait with a timeout that fails may be early by the part of a tick
\* that pdMS_TO_TICKS (sync_freertos.c:40) cuts off and by the part of the first
\* tick that was over, and by no more: less than two ticks.  One shorter than a
\* tick does not wait at all.
EarlyByTwoTicks ==
    port = "freertos" /\ Failed /\ asked >= 0 =>
        /\ result = "ETIMEDOUT"
        /\ elapsed + 2 * NsPerTick > asked * NsPerMs

\* A wait that nothing disturbs does not fail early, but for the boundary on Linux
\* and two ticks on FreeRTOS.
NotEarlyButFor == EarlyOnlyAtBoundary /\ EarlyByTwoTicks

\* A wait with a timeout, which is one that is not negative (pubsub.h:302), ends,
\* message or not, in spite of signals, and of a system time that somebody sets:
\* it is enough that it is left alone in the end.
WaitEnds ==
    <>[][clock' = clock + 1]_clock =>
        ((pc \in {"called", "waiting"} /\ asked >= 0) ~> pc = "done")

=============================================================================
