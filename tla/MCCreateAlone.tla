---------------------------- MODULE MCCreateAlone ---------------------------
(* One process that asks for a role and a database on an empty server.       *)
EXTENDS CreateDatabase

CONSTANTS p1

MCClient == {p1}
MCStmt == {"owner", "msg5"}
MCRole == {"owner"}
MCDatabase == {"msg5"}
MCNeeds == [x \in MCStmt |-> {}]
MCCatalogs == {{}}

MCOptions == [owner : MCRole, name : MCDatabase, dsn : {TRUE}, ask : {FALSE},
              dry : {FALSE}, force : {TRUE}, yes : {TRUE}]
=============================================================================
