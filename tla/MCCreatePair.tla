---------------------------- MODULE MCCreatePair ----------------------------
(* Two processes, each with one of two owners and one database, on an empty  *)
(* server or one that already has a role or the database.                    *)
EXTENDS CreateRefinement

CONSTANTS p1, p2

MCClient == {p1, p2}
MCStmt == {"owner", "other", "msg5"}
MCRole == {"owner", "other"}
MCDatabase == {"msg5"}
MCNeeds == [x \in MCStmt |-> {}]
MCCatalogs == {{}, {"owner"}, {"owner", "msg5"}, {"msg5"}}

\* A first option that is missing ends a run before the others are read.
MCOptions == [owner : MCRole, name : MCDatabase, dsn : {TRUE}, ask : {FALSE},
              dry : BOOLEAN, force : BOOLEAN, yes : BOOLEAN]
             \cup
             [owner : {"owner"}, name : MCDatabase, dsn : BOOLEAN, ask : {TRUE},
              dry : {FALSE}, force : {TRUE}, yes : {TRUE}]
=============================================================================
