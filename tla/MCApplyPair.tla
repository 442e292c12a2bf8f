----------------------------- MODULE MCApplyPair -----------------------------
(* Two processes on one database, unattended: both on one directory, or one  *)
(* on the structure and one on the data that needs it.                       *)
EXTENDS ApplyRefinement

CONSTANTS p1, p2, NoText

MCClient == {p1, p2}
MCStmt == {"s1", "s2", "t1", "d1"}
MCBad == {}
MCOnce == {"t1"}
MCOutside == {}
MCNeeds == [x \in MCStmt |-> IF x = "d1" THEN {"s2"} ELSE {}]

MCDir == [structure |-> << <<"s1", "s2">>, <<"t1">> >>,
          data |-> << <<"d1">> >>]

MCOptions == [mode : {"per-file", "none"}, dir : {"structure"}, cont : {FALSE},
              dry : {FALSE}, force : {TRUE}, yes : {TRUE}]
             \cup
             [mode : {"per-file"}, dir : {"structure"}, cont : {TRUE},
              dry : {FALSE}, force : {TRUE}, yes : {TRUE}]
             \cup
             [mode : {"none"}, dir : {"data"}, cont : {FALSE},
              dry : {FALSE}, force : {TRUE}, yes : {TRUE}]
=============================================================================
