-------------------------------- MODULE Message --------------------------------
(***************************************************************************)
(* What a message of pubsub-c is in memory: the struct, the strings it     *)
(* owns, the union with its value, its reference count, and the statistics *)
(* of live messages.  Threads make, duplicate, share and release messages  *)
(* at the same time; to change one a thread must be the only holder, since *)
(* the setters do not synchronize.                                         *)
(*                                                                         *)
(* A block of the heap is a struct ps_msg_s or holds a text (a string or   *)
(* the bytes of a buffer).  A pointer is a block, NULL, or a text: then it *)
(* points to memory of the application that holds this text.  The union is *)
(* three words, as its members lie in it:                                  *)
(*   str_val, ptr_val, int_val ...  <<value, -, ->>                        *)
(*   buf_val                        <<ptr, sz, dtor>>; sz goes with ptr    *)
(*   err_val                        <<id, desc, ->>                        *)
(*                                                                         *)
(* A definition said to be a mutation is what a bug would make of the one  *)
(* after it; PROJECT.json names the property that notices.                 *)
(***************************************************************************)
EXTENDS Integers, Sequences, FiniteSets

CONSTANTS NULL,     \* the null pointer
          Garbage,  \* what may be read from memory that is not allocated
          Thread,   \* the threads
          Text,     \* what strings and buffers say
          IntMax,   \* the largest int64_t
          Double,   \* the doubles that the values are taken from, counted in halves
          Rounded,  \* the double that the compiler's conversion makes of an int64_t
          Given,    \* the values a message is given: [typ, enc, num, text, dtor]
          Made,     \* bound: what messages are made as: [topic, sticky, value]
          Retopic,  \* bound: the topics they are given later, or NULL
          MaxMsg,   \* bound: messages at a time
          MaxHeld   \* bound: references to one message in one thread

\* A message has at most four blocks: itself, two topics and its value.  Where
\* malloc puts a block makes no difference to the program; here the blocks of a
\* message lie together, the struct first.
Address == {4 * i + 1 : i \in 0..(MaxMsg - 1)}
Block == 1..(4 * MaxMsg)

Typ == {"INT", "DBL", "BOOL", "PTR", "STR", "BUF", "ERR", "NIL"}
Enc == {"RAW", "MSGPACK", "JSON", "BSON", "YAML", "PROTOBUF", "XML"}

Int64 == (-IntMax - 1)..IntMax

Apart(a, b) == IF a < b THEN b - a ELSE a - b

\* The values a message may be given: num is an integer, a double in halves, a
\* truth value, which is an int, or the number of an error; text is what a string or a buffer says, or
\* NULL; a buffer with a destructor has been allocated for the message.
Values ==
    {v \in [typ : Typ, enc : Enc, num : Int, text : Text \cup {NULL}, dtor : {NULL, "free"}] :
        /\ v.typ \in {"INT", "BOOL"} => v.num \in Int64
        /\ v.typ = "DBL" => v.num \in Double
        /\ v.dtor # NULL => v.typ = "BUF"
        /\ v.typ \in {"STR", "ERR"} => v.text # NULL}

\* The blocks: a struct, and a block with a text
Word == Int \cup Block \cup Text \cup {NULL, "free"}
Record == [ref : Int, topic : Block \cup {NULL}, rtopic : Block \cup {NULL}, sticky : BOOLEAN,
           typ : Typ, enc : Enc, union : Word \X Word \X Word]
Cell == [text : Text \cup {NULL}]

ASSUME MessageAssumption ==
    /\ NULL \notin Block /\ NULL # Garbage /\ NULL # "free"
    /\ Text \cap (Block \cup {NULL, Garbage}) = {}
    /\ Garbage \notin Record \cup Cell
    /\ IsFiniteSet(Thread) /\ MaxMsg \in Nat /\ MaxHeld \in Nat
    /\ Made \subseteq [topic : Text, sticky : BOOLEAN, value : Given]
    /\ Retopic \subseteq Text \cup {NULL}
    /\ Given \subseteq Values

\* Not every integer has a double: the conversion gives one of the nearest.
ASSUME NumberAssumption ==
    /\ IntMax \in Nat /\ Double \subseteq Int /\ Rounded \in [Int64 -> Double]
    /\ \A i \in Int64, d \in Double : Apart(Rounded[i], 2 * i) <= Apart(d, 2 * i)

VARIABLES heap,           \* the blocks
          held,           \* the references in the hands of each thread
          call,           \* the call of the library each thread is in
          stat_live_msg,  \* the statistics
          said            \* what each message is meant to say

messageVars == <<heap, held, call, stat_live_msg, said>>

NoCall == [op |-> "none", msg |-> NULL, value |-> NULL]

MessageInit ==
    /\ heap = [b \in Block |-> Garbage]
    /\ held = [t \in Thread |-> [b \in Address |-> 0]]
    /\ call = [t \in Thread |-> NoCall]
    /\ stat_live_msg = 0
    /\ said = [b \in Address |-> NULL]

(***************************************************************************)
(* Memory                                                                  *)
(***************************************************************************)

Struct == {b \in Address : heap[b] # Garbage}

\* The struct at an address that is free, and in it
\* the pair <<heap, pointer>> after malloc of a string or buffer of message b.
NewStruct(h, cell) ==
    LET b == CHOOSE a \in Address \ Struct : TRUE IN <<[h EXCEPT ![b] = cell], b>>

Malloc(h, b, text) ==
    LET p == CHOOSE q \in (b + 1)..(b + 3) : h[q] = Garbage
    IN  <<[h EXCEPT ![p] = [text |-> text]], p>>

Strdup(h, b, text) == IF text = NULL THEN <<h, NULL>> ELSE Malloc(h, b, text)

FreeBlock(h, p) == IF p = NULL THEN h ELSE [h EXCEPT ![p] = Garbage]

\* The text that p points to
Deref(h, p) == IF p \in Block THEN h[p].text ELSE p

(***************************************************************************)
(* Values                                                                  *)
(***************************************************************************)

\* The pointer to the value that the message must free, or NULL
OwnValue(m) ==
    CASE m.typ = "STR" -> m.union[1]
      [] m.typ = "BUF" /\ m.union[3] # NULL -> m.union[1]
      [] m.typ = "ERR" -> m.union[2]
      [] OTHER -> NULL

\* ps_msg_free_value; the words of the union stay.
FreeValue(h, b) ==
    [FreeBlock(h, OwnValue(h[b])) EXCEPT
        ![b] = [@ EXCEPT !.typ = "NIL", !.enc = "RAW"]]

\* The union with a number, or the pointer p, in the member of its type; of the
\* words that the member does not use, which nobody reads, nothing is kept.
Stored(typ, num, p, dtor) ==
    CASE typ \in {"INT", "DBL", "BOOL"} -> <<num, NULL, NULL>>
      [] typ \in {"PTR", "STR"} -> <<p, NULL, NULL>>
      [] typ = "BUF" -> <<p, p, dtor>>
      [] typ = "ERR" -> <<num, p, NULL>>
      [] typ = "NIL" -> <<NULL, NULL, NULL>>

\* Strings are copied.  A buffer with a destructor is one that the application
\* has allocated and hands over; one without stays its own.
Handed(h, b, v) ==
    IF v.typ \in {"STR", "ERR"} \/ v.dtor # NULL THEN Strdup(h, b, v.text) ELSE <<h, v.text>>

\* A mutation: all the flags are replaced, not those of PS_MSK_VALUE.
SetVvalueAndFlags(h, b, v) ==
    LET s == Handed(FreeValue(h, b), b, v)
        u == Stored(v.typ, v.num, s[2], v.dtor)
    IN  [s[1] EXCEPT ![b] = [@ EXCEPT !.typ = v.typ, !.enc = v.enc, !.union = u, !.sticky = FALSE]]

\* ps_msg_set_vvalue
SetVvalue(h, b, v) ==
    LET s == Handed(FreeValue(h, b), b, v)
        u == Stored(v.typ, v.num, s[2], v.dtor)
    IN  [s[1] EXCEPT ![b] = [@ EXCEPT !.typ = v.typ, !.enc = v.enc, !.union = u]]

\* The part of a double before the point
Truncated(d) == IF d >= 0 THEN d \div 2 ELSE -((-d) \div 2)

\* ps_msg_value_int: the values it may return.  What comes of a double beyond
\* int64_t is undefined, so it may be any.
ValueInt(m) ==
    CASE m.typ \in {"INT", "BOOL"} -> {m.union[1]}
      [] m.typ = "DBL" ->
           IF Truncated(m.union[1]) \in Int64 THEN {Truncated(m.union[1])} ELSE Int64
      [] OTHER -> {0}

\* ps_msg_value_double, ps_msg_value_bool
ValueDouble(m) ==
    CASE m.typ \in {"INT", "BOOL"} -> Rounded[m.union[1]]
      [] m.typ = "DBL" -> m.union[1]
      [] OTHER -> 0
ValueBool(m) == m.typ \in {"INT", "DBL", "BOOL"} /\ m.union[1] # 0

\* PS_IS_INT, PS_IS_DBL ..., PS_IS_NUMBER
Is(m, typ) == m.typ = typ
IsNumber(m) == Is(m, "INT") \/ Is(m, "DBL") \/ Is(m, "BOOL")

(***************************************************************************)
(* Messages                                                                *)
(***************************************************************************)

Idle(t) == call[t] = NoCall

InCall(t, op, b) == call' = [call EXCEPT ![t] = [NoCall EXCEPT !.op = op, !.msg = b]]

\* ps_new_msg: calloc, and the fields before the value.  The flags already have
\* the type of the value when ps_msg_set_vvalue comes to free the one before.
NewCallocs(t, topic, sticky, v) ==
    /\ Idle(t)
    /\ Struct # Address
    /\ LET a == NewStruct(heap, [ref |-> 1, topic |-> NULL, rtopic |-> NULL, sticky |-> sticky,
                                 typ |-> v.typ, enc |-> v.enc, union |-> <<NULL, NULL, NULL>>])
           s == Strdup(a[1], a[2], topic)
       IN  /\ heap' = [s[1] EXCEPT ![a[2]].topic = s[2]]
           /\ call' = [call EXCEPT ![t] = [op |-> "new", msg |-> a[2], value |-> v]]
           /\ said' = [said EXCEPT ![a[2]] =
                          [topic |-> topic, rtopic |-> NULL, sticky |-> sticky, value |-> v]]
    /\ UNCHANGED <<held, stat_live_msg>>

NewSetsValue(t) ==
    /\ call[t].op = "new"
    /\ heap' = SetVvalue(heap, call[t].msg, call[t].value)
    /\ InCall(t, "count", call[t].msg)
    /\ UNCHANGED <<held, stat_live_msg, said>>

\* The end of ps_new_msg and ps_dup_msg
Counts(t) ==
    /\ call[t].op = "count"
    /\ stat_live_msg' = stat_live_msg + 1
    /\ held' = [held EXCEPT ![t][call[t].msg] = 1]
    /\ call' = [call EXCEPT ![t] = NoCall]
    /\ UNCHANGED <<heap, said>>

\* A mutation: the copy points to the buffer of the original.
DupValueShared(h, b, m) ==
    IF m.typ \in {"STR", "ERR"} THEN Strdup(h, b, Deref(h, OwnValue(m)))
    ELSE <<h, m.union[1]>>

\* The copy of the value: buffers are always copied, whoever owns them, and a
\* buffer that is not there gives a block of no bytes.
DupValue(h, b, m) ==
    CASE m.typ \in {"STR", "ERR"} -> Strdup(h, b, Deref(h, OwnValue(m)))
      [] m.typ = "BUF" -> Malloc(h, b, Deref(h, m.union[1]))
      [] OTHER -> <<h, m.union[1]>>

\* ps_dup_msg up to the statistics, by a holder of the original
Dup(t, p) ==
    /\ Idle(t)
    /\ held[t][p] > 0
    /\ Struct # Address
    /\ LET m == heap[p]
           a == NewStruct(heap, [m EXCEPT !.ref = 1])
           b == a[2]
           s == Strdup(a[1], b, Deref(heap, m.topic))
           r == Strdup(s[1], b, Deref(heap, m.rtopic))
           v == DupValue(r[1], b, m)
           w == Stored(m.typ, m.union[1], v[2], "free")
       IN  /\ heap' = [v[1] EXCEPT ![b] = [@ EXCEPT !.topic = s[2], !.rtopic = r[2], !.union = w]]
           /\ said' = [said EXCEPT ![b] = said[p]]
           /\ InCall(t, "count", b)
    /\ UNCHANGED <<held, stat_live_msg>>

\* ps_ref_msg by a holder, for itself or for another thread, which gets the
\* message in a queue, say.
Ref(t, u, p) ==
    /\ Idle(t)
    /\ held[t][p] > 0 /\ held[u][p] < MaxHeld
    /\ heap' = [heap EXCEPT ![p].ref = @ + 1]
    /\ held' = [held EXCEPT ![u][p] = @ + 1]
    /\ UNCHANGED <<call, stat_live_msg, said>>

\* A mutation: the count is read, and written in a step of its own.
UnrefDropsInTwo(t, p) ==
    \/ /\ Idle(t)
       /\ held[t][p] > 0
       /\ held' = [held EXCEPT ![t][p] = @ - 1]
       /\ call' = [call EXCEPT ![t] = [op |-> "drop", msg |-> p, value |-> heap[p].ref - 1]]
       /\ UNCHANGED <<heap, stat_live_msg, said>>
    \/ /\ call[t].op = "drop" /\ call[t].msg = p
       /\ heap' = [heap EXCEPT ![p].ref = call[t].value]
       /\ IF call[t].value = 0 THEN InCall(t, "free", p)
                               ELSE call' = [call EXCEPT ![t] = NoCall]
       /\ UNCHANGED <<held, stat_live_msg, said>>

\* ps_unref_msg: the count goes down, and only who makes it 0 goes on.
UnrefDrops(t, p) ==
    /\ Idle(t)
    /\ held[t][p] > 0
    /\ held' = [held EXCEPT ![t][p] = @ - 1]
    /\ heap' = [heap EXCEPT ![p].ref = @ - 1]
    /\ IF heap[p].ref = 1 THEN InCall(t, "free", p) ELSE UNCHANGED call
    /\ UNCHANGED <<stat_live_msg, said>>

UnrefFrees(t) ==
    /\ call[t].op = "free"
    /\ LET b == call[t].msg
           h == FreeBlock(FreeBlock(heap, heap[b].topic), heap[b].rtopic)
       IN  /\ heap' = FreeBlock(FreeValue(h, b), b)
           /\ said' = [said EXCEPT ![b] = NULL]
    /\ InCall(t, "uncount", NULL)
    /\ UNCHANGED <<held, stat_live_msg>>

UnrefCounts(t) ==
    /\ call[t].op = "uncount"
    /\ stat_live_msg' = stat_live_msg - 1
    /\ call' = [call EXCEPT ![t] = NoCall]
    /\ UNCHANGED <<heap, held, said>>

\* What the caller of a setter must see to
OnlyHolder(t, p) == Idle(t) /\ held[t][p] > 0 /\ heap[p].ref = 1

\* ps_msg_set_topic, ps_msg_set_rtopic, ps_msg_set_value
SetTopic(t, p, topic) ==
    /\ OnlyHolder(t, p)
    /\ LET s == Strdup(FreeBlock(heap, heap[p].topic), p, topic)
       IN  heap' = [s[1] EXCEPT ![p].topic = s[2]]
    /\ said' = [said EXCEPT ![p].topic = topic]
    /\ UNCHANGED <<held, call, stat_live_msg>>

SetRtopic(t, p, rtopic) ==
    /\ OnlyHolder(t, p)
    /\ LET s == Strdup(FreeBlock(heap, heap[p].rtopic), p, rtopic)
       IN  heap' = [s[1] EXCEPT ![p].rtopic = s[2]]
    /\ said' = [said EXCEPT ![p].rtopic = rtopic]
    /\ UNCHANGED <<held, call, stat_live_msg>>

SetValue(t, p, v) ==
    /\ OnlyHolder(t, p)
    /\ heap' = SetVvalue(heap, p, v)
    /\ said' = [said EXCEPT ![p].value = v]
    /\ UNCHANGED <<held, call, stat_live_msg>>

\* ps_msg_set_value_int and the other setters of one type: an encoding is
\* something only buffers are given.
SetShorthand(t, p, v) ==
    /\ v.typ \in {"INT", "DBL", "STR", "BOOL", "NIL", "BUF"}
    /\ SetValue(t, p, IF v.typ = "BUF" THEN v ELSE [v EXCEPT !.enc = "RAW"])

MessageNext ==
    \E t \in Thread :
        \/ \E m \in Made : NewCallocs(t, m.topic, m.sticky, m.value)
        \/ NewSetsValue(t) \/ Counts(t)
        \/ \E p \in Address :
             \/ Dup(t, p) \/ UnrefDrops(t, p)
             \/ \E u \in Thread : Ref(t, u, p)
             \/ \E topic \in Retopic : SetTopic(t, p, topic) \/ SetRtopic(t, p, topic)
             \/ \E v \in Given : SetValue(t, p, v) \/ SetShorthand(t, p, v)
        \/ UnrefFrees(t) \/ UnrefCounts(t)

MessageSpec == MessageInit /\ [][MessageNext]_messageVars

(***************************************************************************)
(* Properties                                                              *)
(***************************************************************************)

InCallOf(b, ops) == {t \in Thread : call[t].op \in ops /\ call[t].msg = b}

\* The references to message b: those in the hands of threads, each with a number,
\* and the one with which it is made
References(b) ==
    (UNION {{t} \X (1..held[t][b]) : t \in Thread}) \cup (InCallOf(b, {"new", "count"}) \X {0})

\* A reference count is the number of references there are, whatever threads do
\* with theirs at the same time (ps_ref_msg, ps_unref_msg): a message lives as
\* long as somebody holds it, only one thread frees it, and none stays for good.
RefsHeld ==
    \A b \in Address :
        /\ b \in Struct => heap[b].ref = Cardinality(References(b))
        /\ b \notin Struct => References(b) = {}
        /\ Cardinality(InCallOf(b, {"free"})) =
                IF b \in Struct /\ References(b) = {} THEN 1 ELSE 0

\* The fields by which messages own what they will free
Owns(o) == IF o[2] = "value" THEN OwnValue(heap[o[1]]) ELSE heap[o[1]][o[2]]
Owners == {o \in Struct \X {"topic", "rtopic", "value"} : Owns(o) # NULL}

\* Every string and buffer has exactly one message that will free it
\* (ps_msg_free_value, ps_unref_msg, the setters): nothing is freed twice or
\* read after it, and nothing is lost, whatever is duplicated and set anew.
OwnedOnce ==
    /\ \A o \in Owners : Owns(o) \in Block \ Address /\ heap[Owns(o)] # Garbage
    /\ \A o, p \in Owners : Owns(o) = Owns(p) => o = p
    /\ \A b \in Block \ Address : heap[b] # Garbage => \E o \in Owners : Owns(o) = b

\* The number a value stands for, in halves
Halves(v) == CASE v.typ = "DBL" -> v.num [] v.typ \in {"INT", "BOOL"} -> 2 * v.num [] OTHER -> 0

\* The numbers whose part before the point int64_t can hold, in halves
Holdable == (-2 * IntMax - 3)..(2 * IntMax + 1)

\* What the conversions give of a message with value v
Converts(m, v) ==
    /\ IsNumber(m) => /\ ValueDouble(m) \in Double
                      /\ \A d \in Double : Apart(ValueDouble(m), Halves(v)) <= Apart(d, Halves(v))
    /\ ~IsNumber(m) => ValueDouble(m) = 0 /\ ValueInt(m) = {0}
    /\ ValueBool(m) <=> Halves(v) # 0
    /\ ValueInt(m) # {} /\ ValueInt(m) \subseteq Int64
    /\ Halves(v) \in Holdable => \A i \in ValueInt(m) :
          2 * i - Halves(v) \in (IF Halves(v) < 0 THEN {0, 1} ELSE {0, -1})

\* A message says what it was last given, and a duplicate what the original said
\* when it was made, through the fields and through the conversions, whatever
\* has become of the other since (ps_dup_msg, ps_msg_set_vvalue); setting the
\* value leaves the flags of the message alone.  Of an integer ps_msg_value_double
\* gives a nearest double, so the integer itself if it has one, and of a double
\* ps_msg_value_int gives what is before the point, if int64_t can hold that.
ReadsAsSaid ==
    \A b \in {c \in Struct : InCallOf(c, {"new"}) = {}} :
        LET m == heap[b]
            v == said[b].value
        IN  /\ Deref(heap, m.topic) = said[b].topic
            /\ Deref(heap, m.rtopic) = said[b].rtopic
            /\ m.sticky = said[b].sticky
            /\ Is(m, v.typ) /\ m.enc = v.enc
            /\ v.typ \in {"STR", "BUF", "PTR"} => Deref(heap, m.union[1]) = v.text
            /\ v.typ = "ERR" => m.union[1] = v.num /\ Deref(heap, m.union[2]) = v.text
            /\ Converts(m, v)

\* ps_stats_live_msg is exact but for the calls that have made a message and not
\* yet counted it, or freed one and not yet counted that.
StatsExact ==
    stat_live_msg = Cardinality(Struct)
                    - Cardinality({t \in Thread : call[t].op \in {"new", "count"}})
                    + Cardinality({t \in Thread : call[t].op = "uncount"})

\* Both counts of messages, that of references in a message and that of messages
\* in the statistics, are exact at every moment (pubsub.c:123, 218, 225, 233).
CountsExact == RefsHeld /\ StatsExact

=============================================================================
