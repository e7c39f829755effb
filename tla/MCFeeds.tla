-------------------------------- MODULE MCFeeds --------------------------------
(* One instance of Feeds, small enough for TLC.                            *)
EXTENDS Feeds

(* A complete environment, and one fault at a time.                        *)
OneFault ==
    {WholeEnv, [WholeEnv EXCEPT !.dm = "hive"], [WholeEnv EXCEPT !.dm = ""], [WholeEnv EXCEPT !.group = ""],
     [WholeEnv EXCEPT !.topic = ""], [WholeEnv EXCEPT !.token = FALSE]}

(* Two chunks, one with a chart, and a pack longer than the budget.        *)
TwoAndThree == [p \in Packs |-> IF p = "long" THEN 3 ELSE 2]

(* Sources of every kind: by a client, with a key, a file, the stores.     *)
OneOfEach == <<"hyperliquid.info", "polygon", "calendar.yaml", "postgres", "object_store">>

(* The instruments of a query and of a pull.                               *)
ThreeNames == <<"a", "b", "c">>
TwoCoins == <<"a", "b">>

(* No history, one of a page and a half, one with a hole that reaches past *)
(* the window, and two without a hole.                                     *)
SomeHistories == {{}, {1, 2, 3}, {2, 3, 4, 6}, 1..5, 1..6}

(* A grouped body that lacks a name, and one of unusable rows.             *)
TwoBodies == {[s \in {"QQQ", "NVDA"} |-> IF s = "QQQ" THEN "none" ELSE "bar"],
              [s \in {"QQQ", "NVDA"} |-> IF s = "QQQ" THEN "hollow" ELSE "untimed"]}
=============================================================================
