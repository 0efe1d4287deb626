------------------------------ MODULE MCMessages ------------------------------
(* What a message says: its value and its memory (Message) in one half of the   *)
(* behaviours, its topic (Topics, with the instance of MCTopics) in the other.  *)
(* The halves have nothing in common and are checked side by side.              *)
EXTENDS MCTopics, Message

CONSTANTS t1, t2, x, y

MCThread == {t1, t2}
MCText == {x, y}

Value(typ, enc, num, text, dtor) ==
    [typ |-> typ, enc |-> enc, num |-> num, text |-> text, dtor |-> dtor]

\* Integers of five bits, and doubles with three binary digits: as with int64_t,
\* the largest integers are rounded, the very largest to one more or to less.
MCIntMax == 15
MCDouble == {0, 1, 2, 3, 4, 5, 6, 7, 8, 10, 12, 14, 16, 20, 24, 28, 32, 40,
             -1, -2, -3, -4, -5, -6, -7, -8, -10, -12, -14, -16, -20, -24, -28, -32, -40}
MCRounded ==
    [i \in -16..15 |->
        LET a == IF i < 0 THEN -i ELSE i
            r == IF a <= 8 THEN 2 * a ELSE 4 * ((a + 1) \div 2)
        IN  IF i < 0 THEN -r ELSE r]

\* A string, a buffer to free, one that is not there, one of the application, an
\* error; minus one and a half, true, the largest integer, which has no double of
\* its own, and a double that is larger.
MCGiven == {
    Value("STR", "JSON", 0, x, NULL),
    Value("BUF", "RAW", 0, y, "free"),
    Value("BUF", "JSON", 0, NULL, NULL),
    Value("BUF", "RAW", 0, x, NULL),
    Value("ERR", "RAW", 1, y, NULL),
    Value("DBL", "RAW", -3, NULL, NULL),
    Value("BOOL", "RAW", 1, NULL, NULL),
    Value("INT", "RAW", MCIntMax, NULL, NULL),
    Value("DBL", "RAW", 2 * MCIntMax + 2, NULL, NULL)}

MCMade == {[topic |-> x, sticky |-> TRUE, value |-> Value("STR", "JSON", 0, x, NULL)]}
MCRetopic == {y}

VARIABLE half

TopicsRest ==
    /\ by = "publish" /\ msg = <<>> /\ wanted = <<>> /\ topic = <<>> /\ n = 0
    /\ visited = <<<<>>>> /\ passed = NoFlags /\ flags = NoFlags /\ pc = "done"

MCInit ==
    /\ MessageInit
    /\ \/ half = "topics" /\ Init
       \/ half = "messages" /\ TopicsRest

MCNext ==
    \/ half = "topics" /\ Next /\ UNCHANGED <<half, messageVars>>
    \/ half = "messages" /\ MessageNext /\ UNCHANGED <<half, vars>>

MCSpec ==
    /\ MCInit
    /\ [][MCNext]_<<half, vars, messageVars>>
    /\ WF_<<half, vars, messageVars>>(half = "topics" /\ Next /\ UNCHANGED <<half, messageVars>>)
=============================================================================
