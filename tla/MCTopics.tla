------------------------------- MODULE MCTopics -------------------------------
(* Topics for TLC: every topic of up to six characters out of a letter, the dot *)
(* and the blank is published, every one of up to three without a blank wanted, *)
(* and every text of up to four characters out of the letters that mean         *)
(* something, a digit, a blank and another letter is put behind a topic, with   *)
(* flags passed, whose priority is more than 9, and with none.                  *)
EXTENDS Topics

MCPublished == UNION {[1..k -> {"a", Dot, Blank}] : k \in 0..6}
MCWanted == UNION {[1..k -> {"a", Dot}] : k \in 0..3}
MCTails == UNION {[1..k -> {"h", "s", "S", "e", "p", "3", "9", Blank, "a"}] : k \in 0..4}
MCPassed ==
    {[hidden |-> TRUE, on_empty |-> FALSE, no_sticky |-> FALSE, child_sticky |-> TRUE,
      priority |-> 12]}
MCAscii ==
    [c \in {"0", "3", "9", ".", " ", "S", "a", "e", "h", "p", "s"} |->
        CASE c = " " -> 32 [] c = "." -> 46 [] c = "0" -> 48 [] c = "3" -> 51
          [] c = "9" -> 57 [] c = "S" -> 83 [] c = "a" -> 97 [] c = "e" -> 101
          [] c = "h" -> 104 [] c = "p" -> 112 [] c = "s" -> 115]
=============================================================================
