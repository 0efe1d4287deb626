# A TLA+ model of pubsub-c

pubsub-c is a publish/subscribe library in C for the threads of one process:
messages are published to dotted topics, subscribers have bounded queues, and
threads block on a queue until a message or a timeout comes. This directory
models the library's own code (`src/src/pubsub.c`, `psqueue_b.c`,
`psqueue_ll.c`, `sync_linux.c`, `sync_freertos.c`) and the parts of `uthash.h` and
`utlist.h` that are compiled into it, checks it with TLC and proves part of it with
TLAPS. `PROJECT.json` lists the runs, the source lines of every definition, the
findings, the hazards and the theorems.

## The system

| Component | State | Operations | What makes it correct |
|---|---|---|---|
| Bucket queue (`psqueue_b.c`, default) | one list per priority, a pool of nodes, a mutex, a semaphore that counts messages | `ps_queue_push` (store, evict, refuse), `ps_queue_pull`, `ps_queue_waiting` | semaphore and lists agree in every interleaving; no node lost; the least important message is shed; a pull whose wait succeeded has a message |
| Ring queue (`psqueue_ll.c`) | an array, `head`, `tail`, `count`, mutex, semaphore | the same, without priorities and eviction | indices and count agree; FIFO |
| Core (`pubsub.c`) | `topic_map` with a subscriber list and a sticky message per topic; each subscriber's list of its topics; the global lock | subscribe, unsubscribe, unsubscribe all, publish, clean sticky, new and free subscriber, get, flush | the two lists mirror each other; a topic lives as long as it is needed; each due message is delivered once per subscription; nobody meets a freed subscriber; the lock is released |
| Containers (`uthash.h`, `utlist.h`) | the hash table of topics with its buckets; doubly linked lists | add with expansion, find, delete, iterate; append, delete, search, count | buckets, order and counters agree; a loop that frees what it walks over goes on from live memory and misses nothing |
| Message reference counts | `_ref` of each message | new, ref, unref, and every operation that stores or drops a message | the count is the number of pointers there are |
| Message values | the struct, the strings it owns, the union with its value, `stat_live_msg` | `ps_new_msg`, `ps_dup_msg`, the setters, the conversions, the release | each block has one owner; a message says what it was given; statistics are exact |
| Callbacks | `new_msg_cb`, `non_empty_cb` | set, clear, call after a push | an event loop that relies on them never sleeps on a message |
| Overflow counter | `overflow` | incremented by pushes, read and reset by `ps_overflow` | results and counter add up to what was lost |
| Request/reply | `uuid_ctr`, a temporary subscriber per call | `ps_call`, `ps_wait_one` | the answer is to this call; calls end; nothing is left behind |
| Topic strings | none | the loops over parents in `ps_publish` and `ps_subs_count`, the flags behind a topic, prefix tests, `ps_has_topic...` | every ancestor once; the tests agree with the loop; flags mean what is written |
| Timed wait (`sync_linux.c`, `sync_freertos.c`) | the deadline, or the ticks left | `semaphore_wait`, `deadline_ms` | not early, not forever |
| `ps_init`, `ps_deinit`, tests, examples | | | not modelled, see the end |

How they interact: `ps_publish`, the subscribing functions and the callback
setters run under one global lock and push into queues while they hold it. Each
queue has its own mutex, taken inside the global lock by a push and alone by a
pull. Readers never take the global lock; message counts are atomic and touched
by everybody. The callbacks run under the global lock.

What is hard: a pull passes the semaphore before it takes the mutex, with
pushes, evictions and other pulls in between; `ps_publish` looks at a queue and
pushes later, and looks again after the push for a callback, with readers going
on; three structures (topic map, subscriber lists, reference counts) have to
agree over every sequence of calls; queues are full, waits time out, answers are
late. The list with lines is `hazards` in `PROJECT.json`. Nothing is persisted
and nothing crosses a process, so there is no crash recovery and no message loss
to model other than overflow.

## The modules

| Module | Models | Built on |
|---|---|---|
| `Buckets` | lists by priority and the operations on them; no state | |
| `BoundedQueue` | abstract: what a queue promises | `Buckets` |
| `PSQueueBucket` | `psqueue_b.c`, thread by thread | `Buckets`, refines `BoundedQueue` |
| `PSQueueLL` | `psqueue_ll.c`, thread by thread | refines `BoundedQueue` with one priority |
| `TopicBus` | abstract: what publish/subscribe promises | `Buckets` |
| `PubSub` | the core and the reference counts | `Buckets`, refines `TopicBus` |
| `DList` | the lists of `utlist.h` as pointers; no state | |
| `UTHash` | the table of `uthash.h` as pointers; no state | `DList` |
| `TopicRegistry` | abstract: topics, subscribers and subscriptions as sequences | |
| `Registry` | `topic_map` and the lists of `pubsub.c` down to the pointers, loop by loop; `ps_num_subs` without the lock | `UTHash`, refines `TopicRegistry` |
| `Message` | a message in memory: its blocks, value and count | |
| `Notify` | callbacks, event loops and `ps_overflow` | |
| `PSCall` | `ps_call`, `ps_wait_one` | `Buckets` |
| `Topics` | topic strings, character by character | |
| `TimedWait` | `semaphore_wait` of both ports, `deadline_ms` | |
| `BucketsProofs`, `PSQueueBucketProofs`, `PSQueueLLProofs`, `PubSubProofs`, `RegistryProofs`, `ReadingProofs` (of `Notify` and `TimedWait`), `PSCallProofs`, `MessagesProofs` (of `Message` and `Topics`) | proofs | |
| `MC...` | the constants of the TLC runs | |

The layers are joined by refinement instead of by one large model. Both queues
implement `BoundedQueue`, in which a push is one step and a pull is two (`Claim`,
`Take`); `PubSub` uses exactly these steps for its subscribers' queues.
`Topics` shows that a topic may be treated as a sequence of segments, as
`PubSub` does, and `Registry` that the hash table and the lists may be treated as
sets and sequences. `Message` shows the same for a message, which in `PubSub` is
only a count and a kind. `PSCall` publishes in one step, as `TopicBus` allows since all that
is due is decided at once. A leading dot makes an empty first segment, whose
parent is `""`; `Topics` covers such strings, the topics of `PubSub` have none.

### From code to state and actions

`PSQueueBucket` and `PSQueueLL` keep a `pc` for each thread. A step ends wherever
another thread can observe the difference: at `mutex_lock`, `semaphore_wait`,
`semaphore_post` and `mutex_unlock`. `PushStores`, `PushEvicts` and `PushRefuses`
are the three ends of `bqueue_get_available` with the insertion that follows.
Free nodes are a number, because no code looks at which node it gets.
`PullTakes` has the code's branch for empty lists, which the checks and the
proofs show is never taken. The ring keeps its cells and indices.

`PubSub` has no threads. A thread between two calls has no state the library
knows, and a thread inside a call is known by what it holds: the global lock
(`cs`), a token of a queue (`claims`), references (`app`). This makes any number
of threads one model. Critical sections whose effects nobody can see before the
lock is released are one action (`Unsubscribe`, `DropAll`, `CleanSticky`).
Publishing and subscribing push into queues that readers see at once, so they
are split: `Publish` is everything up to the first subscriber, `CheckEmpty` the
test for `on_empty`, `Deliver` one push, `NextTopic` the step to the parent,
`PublishEnds` the release of the caller's reference and the lock; `Subscribe` and
`PushSticky` likewise. `Stores`, `Evicts`, `Refuses` are the three ends of
`push_subscriber_queue`. `ps_new_subscriber` is `NewSubscriber` followed by
`Subscribe`, because the code takes the lock anew for each topic of its list. The
order in which the hash table yields topics is left open. `FreeSubscriber`
requires that no thread is inside `ps_get` of that subscriber: the code cannot
allow it, as it frees the mutex the reader would take. `FreeQueue` is that of the
bucket queue, which releases what it still holds; the one of the ring does not, and
need not, since `ps_free_subscriber` has flushed the queue before.

In `Notify` a callback is a test and a call, in two steps; the event loop, which
is the application's, resets its event and then reads until nothing is left, in the
rounds (`Claims`, `Takes`, `FindsNone`) that `ps_flush` makes too.
`ps_overflow` is its two atomic steps, for any number of threads. In `TimedWait` the
C library's `sem_timedwait` may reject an invalid deadline even if the semaphore
could be taken, or not, as POSIX leaves open; on FreeRTOS the kernel's timer counts
the ticks of a wait down, the first of them at once or a whole tick later. The
flags are those of the repository's `README.md:141`; the build files of `ports/esp32`
define `PS_FREE_RTOS`, which no source asks for.

`DList` and `UTHash` have no state of their own: a list or a table is a record of
pointers, and each macro is an operator on it, in the order of its stores where a
thread without the lock can look in between (`Linked` and `Settled` are the two
halves of `DL_APPEND`). Memory that is not allocated has `Garbage` in its pointers,
so that going on from it shows. A `topic_map_t` is named by its topic, and the node
of a subscription by its subscriber or its topic, because the code never has two
of them. In `Registry` every loop under the lock is taken element by element:
`UnsubscribeNext`, `PushNext`, `CleanNext`; `NumSubs` walks beside them, and between
any two calls, without the lock. An unsubscription of the subscriber it walks for may
come at any time and free the node it is at; `walk.apart` remembers that none has.
The table's constants are small (`InitialBuckets`, `Threshold`) and hash values
are chosen to collide, so that it expands, gives up expanding, and is freed.

`Message` keeps the heap: a struct, two topics and a value per message. A pointer is
a block, null, or a text of the application's own memory. The union is three words,
as its members overlap, so that reading a value by the wrong member would show.
A message is changed only by its single holder, since the setters take no lock;
references are taken and dropped by any number of threads, in the code's steps
(`UnrefDrops`, `UnrefFrees`, `UnrefCounts`). The conversions are those of C: `Rounded`
makes a double of an integer, a nearest one if the integer has none (above 2^53), and
`ValueInt` cuts off what is behind the point; of a double that `int64_t` cannot hold the
cast of `pubsub.c:190` is undefined, so `ValueInt` is the set of what may come. A setter is given a text of the caller,
never the message's own string: it frees before it copies.

In `PSCall` the server's subscription may be hidden and answers may be sticky:
`sticky` holds what then stays in `topic_map`, and a new subscriber is greeted with
it.

### Mutations

Definitions that a comment calls mutations are not part of any specification. Each
is the definition that follows with a plausible bug; `PROJECT.json` (`mutants`) says which
property finds it when it takes the definition's place. They show that the
properties depend on what the code does.

## The runs

Runs that pass:

| Run | Instance | What it shows |
|---|---|---|
| `bucket` | 3 threads, 2 messages, 2 nodes, 3 priorities | tokens, nodes and lists agree; a pull is never empty-handed; eviction sheds the least important; refinement of `BoundedQueue`; a queue that is read runs empty |
| `ring` | 3 threads, 2 messages, 3 cells | types, tokens and indices agree (`RingSound`); refinement; runs empty |
| `routing` | 1 subscriber, topics `""`, `a`, `a.b`, 2 messages, 1 place, 2 priorities | mirrored lists and the life of topics (`TopicMapSound`), reference counts, refinement of `TopicBus`, the lock is released |
| `sharing` | 2 subscribers with 1 and 2 places, topic `""`, 2 messages | reference counts with shared messages, `on_empty` against readers, freeing against publishing, claims |
| `registry` | 2 subscribers, 3 topics, 7 reply topics with 3 hash values, 1 bucket at first, threshold 2 | lists and table are sound under every order of operations, with expansion (`ContainersSound`); no loop under the lock uses what it freed or misses an element; `ps_num_subs` without the lock, on live nodes and with a count in range as long as nobody unsubscribes the same subscriber; refinement of `TopicRegistry`; loops end |
| `messages` | 2 threads, 2 messages, 9 values, integers of 5 bits and doubles with 3 binary digits; and all topics of up to 6 characters of `a`, `.`, blank, all wanted topics of up to 3, all texts of up to 4 letters behind a topic, with flags passed and with none | counts, ownership and values of messages (`CountsExact`, `OwnedOnce`, `ReadsAsSaid`); ancestors, tests that fit the routing (`TestsFit`), flags as passed and written, loops end |
| `reading` | 2 event loops, 1 other reader, 2 places, 2 threads in `ps_overflow` with a counter modulo 2; and a second of 6 ns, every start within two seconds, timeouts -1, 0, 1 and 4, signals, a system time that is set, both ports | no lost wake-up; what waits is read and `ps_flush` ends once messages stop coming (`ReadingGoesOn`); results and counter add up to the losses (`CountersSound`); deadlines are exact, undisturbed waits are early only at the boundary or by two ticks (`NotEarlyButFor`), timed waits end |
| `call` | 2 callers, 2 calls, up to 2 answers each, sticky or not, a server queue of 1, a server hidden or not | answers belong to calls, also past sticky ones left behind; calls end; nothing else is left (`CallsSeparate`) |

`messages` and `reading` each check two modules that have nothing in common, in the
two halves of their behaviours: `half` says which module moves, and the other one
rests in its initial state. Several properties are conjunctions of named parts,
each with its own comment in the module.

Runs that show a disagreement (`findings` quotes the lines):

| Run | Finding |
|---|---|
| `count` | an eviction stores the message, but `ps_publish` does not count it |
| `notify_ring` | with the ring queue and a second reader, `non_empty_cb` may not be called for a message that then waits |
| `wait_boundary` | a deadline of exactly 1000000000 ns is not carried; the wait may fail at once |
| `has_topic` | `ps_has_topic` is true of every topic that begins with its argument, where `pubsub.h:470` says equal |

Other places where the code does less than its documentation says are in the
models but have no run of their own:

- `ps_call` gives up when `ps_publish` returns 0, also if the server has the
  request by an eviction (`PSCall!PublishEvicted`);
- sticky messages are given to a new subscription with the flag `e` without a
  look at the queue (`PubSub!PushSticky`; `TopicBus!Subscribe` promises just that);
- two threads in `ps_overflow` may report a loss twice and leave the counter
  below 0; a later result takes it back (`Notify!SubtractsOverflow`);
- `ps_num_subs` takes no lock, and `ps_unsubscribe` and `ps_unsubscribe_all` free the
  nodes it walks over (`pubsub.c:493`, `:530`, `:545`): called for the same subscriber
  in another thread, they let it go on from freed memory. The documentation does not
  say which functions may run at the same time. In `Registry` nothing keeps them
  apart: TLC comes to `walk.at = Garbage` in six states (`Subscribe`, `NumSubs`,
  `SubscribeEnds`, `Unsubscribe`, `NumSubsNext`), and the properties about
  `ps_num_subs` claim nothing of such a call;
- the priority in the flags passed to `ps_subscribe_flags` may be any byte
  (`Topics!FlagSet`), and one from 10 on is used as an index beyond the ten lists
  (`pubsub.c:402`, `psqueue_b.c:74`); `pubsub.h:317` says 0 to 9 of the written one;
- timeouts from 2^31 ms are cut to 32 bits, and half of them wait forever
  (`TimedWait!Int32`);
- a signal ends `ps_get`, also one that was to wait forever (`TimedWait!Interrupted`);
- deadlines are in system time, which `pubsub.h:17` calls monotonic
  (`TimedWait!SetsClock`);
- on FreeRTOS a wait may be shorter than asked for by up to two ticks, and one
  shorter than a tick does not wait (`TimedWait!MsToTicks`);
- `ps_subs_count` leaves out the subscribers of `""`, which `ps_publish` reaches
  (`Topics!CountEnds`).

### Bounds

Three threads are a pusher, a reader that has passed the semaphore and a second
reader or pusher; the accounting does not tell more of them apart, and the
theorems hold for any number. Two messages distinguish the new one from the one
that is evicted or replaced. Three priorities give the eviction loop one to find,
one to skip and one to stop at. Queues of one to three places are full after a
few calls. In `routing`, each topic on the path has parents or children that count;
`routing` and `sharing` together have every flag of a subscription and of a message
on and off. `MaxApp` bounds the references to one message an application keeps for
itself: 1 in `routing`, 2 in `sharing`, where they are taken with `ps_ref_msg` or
come from two queues; more of them only postpone the last release.
`OverflowMod` is small so that the counter wraps, and 1 in `sharing`, whose
properties do not look at it. `MaxClock` spans two seconds, so that deadlines are
set from every nanosecond of one and may cross into the next. `MaxCalls` and
`MaxAnswers` bound the calls and the answers to one in `PSCall`; ids are not reused within them (`MaxCalls <= UuidMod`), as in practice with 2^32 of them.
Symmetry is used for the messages of `sharing`; `routing`, which checks
liveness, has none. The sums of `LossesAccounted` need no bound: they are kept modulo
the width of the counter.

In `Registry`, `Wants` and `Retain` bound who subscribes to what and which topics
get sticky messages: enough for a topic with two subscribers, a subscriber with two
topics, and topics that are there for one reason only. `Fresh` are topics used
once, one after the other, as reply topics are; seven with three hash values make
the table of one bucket expand twice, in vain the second time. `Counted` are the
subscribers `ps_num_subs` is called for: one, the others being the same for it. In `Message`,
`MaxMsg` is 2, the original and a duplicate, and each of two threads has at most one
reference to each (`MaxHeld`); `IntMax`, `Double` and `Rounded` are a small arithmetic
in which the larger integers have no double and the larger doubles no integer, as
with 64 bits; `Made` and `Retopic` bound the topics, whose texts
nothing depends on. `Topics` enumerates all texts up to its lengths, which have room
for two dots in a row at either end, and for a flag, a digit, and a digit that is
no priority; the flags that are passed have a priority of 12. The queues (`Buckets`)
and `PubSub` have priorities below the number of lists only: what a queue does with
any other is undefined.

### Fairness

A thread inside a call of the library goes on: weak fairness of the steps behind
`mutex_lock` or under the lock. POSIX mutexes are not fair, but every critical
section is short and the mutex is free again and again; weak fairness of `PullLock`
is enough for the properties because they begin once pushing stops. `bucket` and `ring`
assume that, while the semaphore is not 0, some thread that reads comes back
(`WF(\E t : PullWait(t))`); nobody is obliged to push. In `Notify` the event
loops are fair, and so is a `ps_flush` under way; other readers are not. `FlushEnds`
supposes that pushing stops, as `ps_flush` need not return while messages keep coming. In `PSCall` the caller is fair, because its
wait has a timeout, and the server is not. In `TimedWait` time goes on, and
`WaitEnds` supposes that the system time is not set again and again forever.
In `PubSub` and `Registry` the holder of the global lock goes on and nobody else is
obliged to; in `Topics` the loop goes on.
`Spec` is always without fairness, and `FairSpec` adds it.

## The proofs

`PSQueueBucketProofs` proves, for every finite set of threads, every set of
messages, every capacity and number of priorities (`BucketAssumption`):

- `TypeCorrect`, `TokensAccounted`, `NodesAreConserved`, `PullFindsMessage`: the
  invariants of the run `bucket`;
- `LeastImportantGoes`: the action property `ShedsLeastImportant`;
- `Refinement`: `Spec => Refines`, each step being one of `BoundedQueue` or a stutter.

The accounting of tokens is not inductive alone. It fails if two threads may be
inside the mutex, if a push has lost its message, or if the lists are not finite
sets of slots. `Inv` adds `MuxOwned` (the holder of the mutex is the one thread whose
`pc` is inside), `ArgReady` and `FiniteSlots` to `TypeOK`, `TokenAccounting`
and `NodesConserved`. `Invariance` shows `Init => Inv` and that each action preserves
it; the lemmas `AtMoves` and those of `BucketsProofs` say how one step changes the
number of threads at a label and the number of stored messages. Theorems about
the absence of empty pulls, eviction and refinement then follow from `Inv` and the
single step.

`PSQueueLLProofs` proves the same of the ring, for every set of threads, every set of
messages and every capacity, 0 included: `RingIsSound` (tokens, indices and cells
agree) and `Refinement`. Its `Inv` is `RingSound` with the owner of the mutex; the
lemmas `Wrap` and those on rotated indices do the arithmetic modulo the capacity.

`PubSubProofs` proves the core for all finite sets of subscribers, messages and topics
closed under parents, all flags, sizes and priorities (`PubSubAssumption`):

- `MapIsSound`, `CountsAreExact`, `FreedAreOut`, `EmptyTestHolds` and
  `PullsFindMessages`: the safety invariants of the runs `routing` and `sharing`.

None of these is inductive alone. `RefsAccounted` counts what is in the queues and in
`sticky`, so a step of any list counts: `Inv` adds `QueuesReady` (finite queues, empty
ones for subscribers that do not exist, or `ps_new_subscriber` would lose references) and
`SectionReady` (the topics a new subscriber is greeted from still have their sticky
message; a publication that has tested `on_empty` has an entry it tested).
`OnlyLiveReached` needs the lists to mirror each other, since `ps_unsubscribe_all`
follows only the subscriber's own; `Lists` says it by elements (`ListsMirror`,
`ListsDistinct`) where `SubscriptionsMirror` counts positions, and `InvTopicMapSound`
leads from one to the other. `HeldBy` and `StickyAt` are the pointers from queues
and from topics as functions of the state's parts; the lemmas `HeldByChanges`,
`StickyChanges` and `StickyCleaned` say how a step changes their numbers, and
`Accounting` adds them up. One lemma per action then shows that it preserves `Inv`.
`MaxApp` is at least 1, because `ps_new_msg` hands out a reference.

Its second half goes on to `Refinement`: the core keeps the promise of `TopicBus`
(`Spec => KeepsPromise`, the run `routing`), under the same assumptions. In `TopicBus`
one step decides what a publication owes; the code finds it out on its way, with
`todo` the rest of one list and the parents still to come. `OwedFrom` is what is
still owed at such a moment. `OwedToReached` shows that at the beginning this is what
`TopicBus` decides, `AboveParent` that cutting a topic at its last dot neither adds
nor loses a debt, and `ServesOne` that each delivery pays exactly one. For these
`Ready` adds two facts to `Inv`: nobody is twice in `todo` (`TodoDistinct`), or one
delivery would pay two debts, and what is allocated has a topic and flags of its
maker (`KindsMade`). `Pointed` and `Kept` say that a message somebody points to stays
as it is, so that a publication ends with the flags it began with. One lemma per
action then maps it to a step of `TopicBus` or to a stutter (`StepImplements`). That
`NewSubscriber` and `FreeEnds` are stutters rests on `QueuesReady` and `NothingLeft`:
a queue is empty when it comes and when it goes.

The first half of `ReadingProofs`, about `Notify`, is for any number of other readers and of threads in `ps_overflow`,
any capacity and any width of the counter:

- `CountersAreSound`: the invariant `CountersSound` of the run `reading`;
- `NoWakeupIsLost`: `NoLostWakeup`, for a build with the bucket queue (`~Counting`).
  That hypothesis cannot be dropped: the run `notify_ring` shows the ring to lose one.

`LossesAccounted` needs only to know that a callback about to be called is one that
is set (`CallReady`), and the lemmas `Wrapped`, `WrappedSum` and `WrappedDifference`
for sums modulo the width. `NoLostWakeup` speaks of a free lock, so it is not
inductive: `WakeupsOwed` says in every state that, unless nothing waits, the loop of
each callback that is set is `Roused`, or the holder of the lock still owes the call
(`Owed`) and its test will succeed.

`PSCallProofs` is for any number of callers and of calls up to the width of the
counter (`CallAssumption`), any number of answers and any size of the server's queue:

- `AnswersAreOwn` and `CallsAreSeparate`: the invariants of the run `call`.

A wrong answer would come from a message with the topic of one call and the number of
another, or from an inbox that outlives its call. `Inv` excludes both: every message
anywhere, sticky or not, is `Genuine` (its topic is that of its number), the topic of
a caller is that of its call (`CallerReady`), and an inbox holds at most one message,
of that topic. `OneCall` is the step that needs ids not to come again.

The second half, about `TimedWait`, is for every clock, tick and number of milliseconds in a second and
every timeout below 2^31 ms (`Fits`; longer ones are cut to 32 bits, and the
properties fail of them):

- `NeverEarlyButFor`: `NotEarlyButFor`, both ports;
- `DeadlinesAreExact`: the action property `DeadlineExact`.

When a wait fails its beginning is past, so `Inv` carries it along: `DeadlineKept`
says how far the deadline is from the start of the call as long as nobody sets the
clock, and `TicksKept` that the ticks left and the time gone make up the ticks asked
for, but for the part of the first one. `DeadlineTime` is the carry of `deadline_ms`,
`TicksCutOff` the rounding of `pdMS_TO_TICKS`. That macro is taken as arithmetic without
a width; with a `TickType_t` of 32 bits its product wraps for long timeouts, and the
FreeRTOS half says nothing of those.

`MessagesProofs` proves about `Message`, for any finite set of threads, any number of
messages and of references in each thread's hands and any texts
(`MessageAssumption`), and for every width of integers, every set of doubles and every
conversion to a nearest one (`NumberAssumption`):

- `CountsAlwaysExact`, `MemoryIsOwnedOnce`, `MessagesReadAsSaid`: the invariants
  `CountsExact`, `OwnedOnce` and `ReadsAsSaid` of the run `messages`.

They share one inductive invariant, `MessageInv`. A count that is exact could go
wrong if a thread took a reference to a message that another one is making or
freeing: `Alone` says that who makes or frees a message has it to itself, with no
reference in anybody's hands, and `Counted` that somebody frees what nobody holds.
For the memory, `Sound` says of each message that its blocks are exactly those it
points to, no two fields sharing one (`Whole`), or that all of them are free
(`Vacant`); and that what they hold is what was said (`Titled`, `Bears`), but for the
moments inside `ps_new_msg` when the value is not there yet. The lemmas on the heap
(`SetVvalueSets`, `SetsTopicIs`, `DupMsgIs`, `FreesAllIs`) say what each function of
the library makes of one message, and `StepOn` that a step on one message leaves the
others as they were (`Elsewhere`). Then there is one lemma per action.
`Converts` is what a caller may count on: `ps_msg_value_double` of an integer is a
nearest double, so the integer itself wherever it has one, and `ps_msg_value_int` of a
double is the part before the point if `int64_t` can hold it; if not, nothing is claimed.
The count is a natural number: that it fits the 32 bits of `_ref` is not shown.

About `Topics` it proves, for all strings of the characters there are, and not only
those the run enumerates (`TopicsAssumption`, which says what `isdigit` accepts):

- `VisitsTheAncestors`, `TestsFitTheRouting`, `FlagsAreAsWritten`: the invariants
  `VisitsAncestors`, `TestsFit` and `FlagsAsWritten` of the run `messages`.

Those speak of the end of a loop. `Climbing` says where the loops over parents are in
between: `topic` is what is left of the string, and what has been looked up are the
ancestors that are longer. `Parsing` says that the flags are those in `passed` and those
met before the position `n` (`FlagsSince`), with the last digit behind a `p`
(`PriorityIs`); a priority that was written is one of the ten digits, one that was
passed may be any byte. That a finite set of positions has a first one, which the cut at the
first blank needs, comes from the well-foundedness of `<` (`FirstPosition`).

`RegistryProofs` proves about `Registry`, and so about `DList` and `UTHash`, for all
finite sets of subscribers and topics, every hash function, every number of buckets
at first and every threshold (`RegistryAssumption`, `HashAssumption`), whatever
`Wants`, `Retain` and `Fresh` leave out or let in:

- `Containers`, `MemorySafe`, `IterationsComplete`, `CountsAreInRange`: the invariants
  `ContainersSound`, `NoneFreedIsUsed`, `IterationComplete` and `NumSubsInRange` of the
  run `registry`;
- `RegistryRefinement`: `Spec => KeepsRegistry`, the pointers implement `TopicRegistry`.

That sets are finite is what a memory gives; `Chain` counts down from the number of
nodes there are, and in an infinite list it would have nothing to count from.
The proof goes in four layers:

1. Recursion. `Chain` and the bucket-wise rehash are recursive functions, `FlattenSeq`
   is one of the library. `NatRecursion` shows that such a function exists, hence that
   the one `CHOOSE` takes obeys its equation; `SetInduction` gets induction over
   numbers from the well-foundedness of `<`. With them `ChainIs`: if a pointer field
   leads through a sequence without repetition (`Leads`), `Chain` is that sequence.
2. One list. `Holds(l, s, N)`: the pointers of `l` are those of the sequence `s`, in both
   directions, the first node points to the last, and every other node is free.
   `AppendHolds` and `RemoveHolds` say that `DL_APPEND` and `DL_DELETE` lead from `s` to
   `Append(s, n)` and to `s` without `n`. `Linking` is what remains true between the two
   halves of `DL_APPEND`, where `ps_num_subs` may look.
3. The table. `TableIs(h, o)`: the order is `o`, the chains of the buckets have each
   element of `o` once, in the bucket of its hash value (`Chained`), counts and
   multipliers fit (`Fits`), and what is not in `o` is free. `FindIs`, `AddIs` (with the
   expansion, element by element) and `DelIs` (the last element takes the table along)
   are the operations, `SoundIs` leads to `HASH_FSCK`.
4. `Registry`. `RegistryInv`: there are topics `o`, subscribers `u` and lists `l` for which
   the state stands (`StandsFor`). None of the properties is inductive alone: that a
   loop meets no freed topic needs to know where in `o` it is (`LoopAt`), that a topic
   is still there needs the two sorts of lists to agree (`Mirrors`) and the topic to be
   there exactly while somebody needs it (`Present`), and `ps_unsubscribe_all`, which
   frees a list from the front while its head still points to the first node, needs a
   form of the list of its own (`Dropping`). `WalkIn` says how far `ps_num_subs` has come, if nobody unsubscribes
   its subscriber meanwhile (`apart`); of other walks `MemorySafe` and
   `CountsAreInRange` say nothing, and could not.
   One lemma per action gives the sequences after it, which shows at once that
   `RegistryInv` is preserved and which step of `TopicRegistry` it was.

Only model-checked: liveness (`LoopsEnd`, `DrainsWhenQuiet` and the others), as fairness
and `ENABLED` are out of the prover's reach, and the disagreements, which are
counterexamples. Every safety property of a passing run is a theorem, in the case of
`NoLostWakeup` under the hypothesis named above.

Two forms are avoided wherever something is proved, because tlapm 1.4.5 does not
treat them as their definition says: equations between two `CASE` expressions, and
`EXCEPT` with several updates at an index (`[h EXCEPT ![b].x = 1, ![b].y = 2]`, from
which it derives what does not follow). Such an update is written as one of the
record, `[h EXCEPT ![b] = [@ EXCEPT !.x = 1, !.y = 2]]`.

## Not modelled

- Callbacks and destructors that call back into the library under its lock: the
  mutex is not recursive, and no document says what a callback may call.
- A setter that is given the message's own string: it would read what it freed.
- More than 2^32 calls of `ps_call`, after which reply topics come again.
- `ps_subscribe_many`, `ps_unsubscribe_many` and the macros of `pubsub.h` that publish
  or call: calls of modelled functions in a row.
- Doubles that are not numbers or infinite, and fractions finer than one half: the
  conversions have no branch that looks at them.
- The rest of `uthash.h` and `utlist.h` (sorting, selecting, Bloom filter, other
  lists and hash functions), which the library does not compile.
- Failing allocations: the code does not check them.
- `ps_init`, `ps_deinit`, tests, examples, the build of the ports.

## Plan

Done, in this order: `Buckets`, `BoundedQueue`, `PSQueueBucket` and its proofs,
`PSQueueLL`, `TopicBus`, `PubSub`, `Topics`, `TimedWait`, `Notify`, `PSCall`,
`DList`, `UTHash`, `TopicRegistry`, `Registry`, `Message`, the flags and tests of
`Topics`, the FreeRTOS port, sticky answers.

What is left would need more of the code than of the proofs: the bound on `_ref` and
on the counters of `uthash.h`, whose widths the models leave out, and callbacks that
call back into the library once a document says which may.
