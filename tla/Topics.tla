-------------------------------- MODULE Topics --------------------------------
(***************************************************************************)
(* Topic strings in pubsub-c, character by character: the loops by which   *)
(* ps_publish and ps_subs_count go from a topic to its parents, the loop   *)
(* of ps_subscribe_flags over the letters behind a topic, and the          *)
(* functions that compare topics.  PubSub works with topics as sequences   *)
(* of segments and with parsed flags; this module is what entitles it to.  *)
(*                                                                         *)
(* A definition said to be a mutation is what a bug would make of the one  *)
(* after it; PROJECT.json names the property that notices.                 *)
(***************************************************************************)
EXTENDS Integers, Sequences, SequencesExt

CONSTANTS Published,  \* the topics of messages, sequences of characters
          Wanted,     \* the topics subscribed to
          Tails,      \* what is behind the first blank of a subscription
          Passed,     \* the flags passed to ps_subscribe_flags, if any
          Ascii       \* the code of each character

Dot == "."
Blank == " "

Char == DOMAIN Ascii

\* isdigit
IsDigit(c) == Ascii[c] \in Ascii["0"]..Ascii["9"]

Digit == {"0", "1", "2", "3", "4", "5", "6", "7", "8", "9"}

\* The flags that a caller may pass.  The priority is a uint8_t; nothing looks
\* whether the queue has a list for it.
FlagSet == [hidden : BOOLEAN, on_empty : BOOLEAN, no_sticky : BOOLEAN,
            child_sticky : BOOLEAN, priority : 0..255]

\* The flags when pflags is NULL
NoFlags == [hidden |-> FALSE, on_empty |-> FALSE, no_sticky |-> FALSE,
            child_sticky |-> FALSE, priority |-> 0]

ASSUME TopicsAssumption ==
    /\ {"a", Blank, "0", "9"} \subseteq Char
    /\ \A c \in Char : Ascii[c] \in 0..255 /\ (IsDigit(c) <=> c \in Digit)
    /\ Ascii["9"] = Ascii["0"] + 9
    /\ Published \subseteq Seq(Char) /\ Wanted \subseteq Seq(Char) /\ Tails \subseteq Seq(Char)
    /\ Passed \subseteq FlagSet

\* The part before the first blank: what follows are flags.
CutFlags(s) ==
    LET blanks == {i \in DOMAIN s : s[i] = Blank}
    IN  IF blanks = {} THEN s
        ELSE SubSeq(s, 1, (CHOOSE i \in blanks : \A j \in blanks : i <= j) - 1)

VARIABLES by,       \* the function: publish, subs_count or subscribe
          msg,      \* its argument: msg->topic, or a topic
          wanted,   \* a topic that somebody subscribes to
          passed,   \* the flags that the caller of ps_subscribe_flags has passed
          topic,    \* the buffer that the loops shorten
          n,        \* the position of the inner loop
          visited,  \* the topics looked up so far
          flags,    \* the flags of a subscription
          pc        \* visit: at the outer loop; cut: at the inner one; parse: at
                    \* the loop over the flags; done

vars == <<by, msg, wanted, passed, topic, n, visited, flags, pc>>

Init ==
    /\ \/ by = "publish" /\ msg \in Published /\ wanted \in Wanted
       \/ by = "subs_count" /\ msg \in Published \ {<<>>} /\ wanted = <<>>
       \/ by = "subscribe" /\ wanted = <<>>
          /\ msg \in {<<"a">>} \cup {<<"a", Blank>> \o s : s \in Tails}
    /\ topic = CutFlags(msg)
    /\ n = IF by = "subscribe" THEN Len(topic) + 2 ELSE 0
    /\ visited = <<>>
    /\ passed \in IF by = "subscribe" THEN Passed \cup {NoFlags} ELSE {NoFlags}
    /\ flags = passed
    /\ pc = IF by = "subscribe" THEN "parse" ELSE "visit"

Cut(s, i) == SubSeq(s, 1, i - 1)

(***************************************************************************)
(* From a topic to its parents                                             *)
(***************************************************************************)

\* A mutation: the outer loop does not look for the empty topic.
VisitAlways ==
    /\ pc = "visit"
    /\ visited' = IF Len(visited) > Len(msg) THEN visited ELSE Append(visited, topic)
    /\ n' = Len(topic)
    /\ pc' = "cut"
    /\ UNCHANGED <<by, msg, wanted, passed, topic, flags>>

\* The body of the outer loop of ps_publish, for which the empty topic is the
\* last one, and of ps_subs_count, which does not look it up.
Visit ==
    /\ pc = "visit"
    /\ by = "subs_count" => topic # <<>>
    /\ visited' = Append(visited, topic)
    /\ n' = Len(topic)
    /\ pc' = IF topic = <<>> THEN "done" ELSE "cut"
    /\ UNCHANGED <<by, msg, wanted, passed, topic, flags>>

\* while (strlen(topic) > 0)
CountEnds ==
    /\ pc = "visit"
    /\ by = "subs_count" /\ topic = <<>>
    /\ pc' = "done"
    /\ UNCHANGED <<by, msg, wanted, passed, topic, n, visited, flags>>

\* A mutation: the dot itself stays.
CutBehindDot ==
    /\ pc = "cut"
    /\ n > 0
    /\ IF topic[n] = Dot /\ n < Len(topic)
       THEN topic' = SubSeq(topic, 1, n) /\ pc' = "visit" /\ n' = n
       ELSE topic' = Cut(topic, n) /\ pc' = pc /\ n' = n - 1
    /\ UNCHANGED <<by, msg, wanted, passed, visited, flags>>

\* One round of the inner loop: a character goes, a dot is the last to go.
CutOne ==
    /\ pc = "cut"
    /\ n > 0
    /\ topic' = Cut(topic, n)
    /\ IF topic[n] = Dot THEN pc' = "visit" /\ n' = n
                         ELSE pc' = pc /\ n' = n - 1
    /\ UNCHANGED <<by, msg, wanted, passed, visited, flags>>

\* The inner loop runs out.
CutEnds ==
    /\ pc = "cut"
    /\ n = 0
    /\ pc' = "visit"
    /\ UNCHANGED <<by, msg, wanted, passed, topic, n, visited, flags>>

(***************************************************************************)
(* The flags behind a topic                                                *)
(***************************************************************************)

\* A mutation: what follows a "p" is not looked at.
ParseAnyPriority ==
    /\ pc = "parse"
    /\ n <= Len(msg)
    /\ flags' = CASE msg[n] = "h" -> [flags EXCEPT !.hidden = TRUE]
                  [] msg[n] = "s" -> [flags EXCEPT !.no_sticky = TRUE]
                  [] msg[n] = "S" -> [flags EXCEPT !.child_sticky = TRUE]
                  [] msg[n] = "e" -> [flags EXCEPT !.on_empty = TRUE]
                  [] msg[n] = "p" /\ n < Len(msg) ->
                       [flags EXCEPT !.priority = (Ascii[msg[n + 1]] - Ascii["0"]) % 256]
                  [] OTHER -> flags
    /\ n' = n + 1
    /\ UNCHANGED <<by, msg, wanted, passed, topic, visited, pc>>

\* One round of the loop over the letters.
Parse ==
    /\ pc = "parse"
    /\ n <= Len(msg)
    /\ flags' = CASE msg[n] = "h" -> [flags EXCEPT !.hidden = TRUE]
                  [] msg[n] = "s" -> [flags EXCEPT !.no_sticky = TRUE]
                  [] msg[n] = "S" -> [flags EXCEPT !.child_sticky = TRUE]
                  [] msg[n] = "e" -> [flags EXCEPT !.on_empty = TRUE]
                  [] msg[n] = "p" /\ n < Len(msg) /\ IsDigit(msg[n + 1]) ->
                       [flags EXCEPT !.priority = (Ascii[msg[n + 1]] - Ascii["0"]) % 256]
                  [] OTHER -> flags
    /\ n' = n + 1
    /\ UNCHANGED <<by, msg, wanted, passed, topic, visited, pc>>

\* The end of the string, or no flags at all
ParseEnds ==
    /\ pc = "parse"
    /\ n > Len(msg)
    /\ pc' = "done"
    /\ UNCHANGED <<by, msg, wanted, passed, topic, n, visited, flags>>

Next == Visit \/ CountEnds \/ CutOne \/ CutEnds \/ Parse \/ ParseEnds

Spec == Init /\ [][Next]_vars

FairSpec == Spec /\ WF_vars(Next)

(***************************************************************************)
(* Comparisons                                                             *)
(***************************************************************************)

\* A mutation: the prefix may end inside a segment.
IsChildAnywhere(t, prefix) == prefix = <<>> \/ IsPrefix(prefix, t)

\* The test of push_child_sticky and ps_clean_sticky.
IsChild(t, prefix) ==
    \/ prefix = <<>>
    \/ /\ IsPrefix(prefix, t)
       /\ Len(t) = Len(prefix) \/ t[Len(prefix) + 1] = Dot

\* ps_has_topic_prefix, ps_has_topic: strncmp with the length of the second
HasTopicPrefix(t, pre) == IsPrefix(CutFlags(pre), t)
HasTopic(t, other) == IsPrefix(CutFlags(other), t)

\* ps_has_topic_suffix
HasTopicSuffix(t, suf) ==
    /\ Len(suf) <= Len(t)
    /\ SubSeq(t, Len(t) - Len(suf) + 1, Len(t)) = suf

(***************************************************************************)
(* Properties                                                              *)
(***************************************************************************)

\* The topics that a message published to t is due at: t, and t cut before each
\* of its dots, and the empty topic.
Ancestors(t) ==
    {t, <<>>} \cup {Cut(t, i) : i \in {j \in DOMAIN t : t[j] = Dot}}

\* The loop of ps_publish looks up every ancestor of the topic once, the nearest
\* first, and nothing else, whatever dots the topic has at its ends or in a row;
\* that of ps_subs_count leaves out the topic "", whose subscribers ps_publish
\* does reach.
VisitsAncestors ==
    /\ pc = "done" /\ by = "publish" => ToSet(visited) = Ancestors(CutFlags(msg))
    /\ pc = "done" /\ by = "subs_count" => ToSet(visited) = Ancestors(CutFlags(msg)) \ {<<>>}
    /\ \A i, j \in DOMAIN visited : i < j => Len(visited[i]) > Len(visited[j])

\* A subscription with the flag "S" starts with the sticky messages of exactly
\* those topics whose later messages ps_publish brings to it.
ChildrenAreReached ==
    pc = "done" /\ by = "publish" =>
        (wanted \in ToSet(visited) <=> IsChild(CutFlags(msg), wanted))

\* The tests that a reader has for the topic of a message fit the routing: what
\* a subscription gets passes ps_has_topic_prefix for its topic, and what was
\* published to the topic itself passes the other two as well.
TestsFitRouting ==
    pc = "done" /\ by = "publish" /\ wanted \in ToSet(visited) =>
        /\ HasTopicPrefix(msg, wanted \o <<Blank, "p", "5">>)
        /\ msg = wanted => HasTopic(msg, wanted) /\ HasTopicSuffix(msg, wanted)

\* Every test of a topic against another fits the routing.
TestsFit == ChildrenAreReached /\ TestsFitRouting

\* The flags of ps_subscribe_flags are those that the caller has passed and those
\* that are written behind the topic, in any order and with anything between them;
\* the last priority written counts, and it is one of the ten digits.  One that is
\* passed is taken as it is, also where the queue has no list for it.
FlagsAsWritten ==
    pc = "done" /\ by = "subscribe" =>
        LET tail == SubSeq(msg, Len(topic) + 2, Len(msg))
            prios == {i \in 1..(Len(tail) - 1) : tail[i] = "p" /\ tail[i + 1] \in Digit}
            set(name, letter) == passed[name] \/ Contains(tail, letter)
        IN  /\ prios # {} => flags.priority \in 0..9
            /\ flags =
                  [hidden |-> set("hidden", "h"), on_empty |-> set("on_empty", "e"),
                   no_sticky |-> set("no_sticky", "s"),
                   child_sticky |-> set("child_sticky", "S"),
                   priority |-> IF prios = {} THEN passed.priority
                                ELSE Ascii[tail[Max(prios) + 1]] - Ascii["0"]]

\* Publishing, counting and subscribing end for every topic, although the lock is
\* held all the time of the first two.
LoopEnds == <>(pc = "done")

\* What pubsub.h:470 says: ps_has_topic returns true if the two topics are equal.
HasTopicIsEqual ==
    by = "publish" /\ wanted # <<>> => (HasTopic(msg, wanted) <=> CutFlags(msg) = wanted)

=============================================================================
