------------------------------ MODULE MCRegistry ------------------------------
(* A small instance of Registry for TLC: topics <<"a">>, <<"a", "b">> and      *)
(* <<"c">>, and seven reply topics, of which four and two have the same hash   *)
(* value, so that the table expands without much effect, and stops.            *)
EXTENDS Registry

CONSTANTS s1, s2

MCSub == {s1, s2}

MCCounted == {s1}

MCWants == {<<s1, <<"a">>>>, <<s2, <<"a">>>>, <<s1, <<"a", "b">>>>}

MCRetain == {<<"a", "b">>, <<"c">>}

MCFresh == [i \in 1..7 |-> <<"$r", i>>]

MCHash ==
    [k \in {<<"a">>, <<"a", "b">>, <<"c">>} \cup ToSet(MCFresh) |->
        CASE k = <<"a">> -> 0
          [] k = <<"a", "b">> -> 1
          [] k = <<"c">> -> 2
          [] OTHER -> IF k[2] <= 4 THEN 0 ELSE IF k[2] <= 6 THEN 1 ELSE 2]
=============================================================================
