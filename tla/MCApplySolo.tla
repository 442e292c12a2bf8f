----------------------------- MODULE MCApplySolo -----------------------------
(* One process, every combination of options, over directories with a file   *)
(* that the server refuses inside a transaction, one that cannot be opened,  *)
(* one that is empty and one whose statement cannot be repeated, over one    *)
(* that can be repeated (CREATE ... IF NOT EXISTS), and over one whose first *)
(* file ends its transactions itself: it undoes a part, commits a part and   *)
(* can then fail.  The command is given twice.                               *)
EXTENDS ApplyRefinement

CONSTANTS p1, NoText

MCClient == {p1}
MCStmt == {"a1", "a2", "b1", "c1", "h1", "reindex", "r1", "r2", "r3",
           "m0", "m1", "m2", "z1"}
MCBad == {}
MCOutside == {"reindex"}
MCOnce == {"b1"}
MCNeeds == [x \in MCStmt |-> CASE x = "c1" -> {"b1"} [] x = "r3" -> {"r1"} [] OTHER -> {}]

MCDir == [full |-> << <<"a1", "a2">>, <<>>, <<"b1">>, <<"c1">> >>,
          holed |-> << <<"h1">>, <<"reindex">>, NoText >>,
          again |-> << <<"r1", "r2">>, <<"r3">> >>,
          mixed |-> << <<"m0", "rollback", "m1", "commit", "m2">>, <<"z1">> >>,
          empty |-> << >>]

MCOptions == [mode : {"single", "per-file", "none", "other"},
              dir : {"full", "holed", "again", "empty", "absent"},
              cont : BOOLEAN, dry : BOOLEAN, force : BOOLEAN, yes : BOOLEAN]
             \cup [mode : {"single", "per-file", "none"}, dir : {"mixed"},
                   cont : {FALSE}, dry : {FALSE}, force : {TRUE}, yes : {TRUE}]
=============================================================================
