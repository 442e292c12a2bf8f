---------------------------- MODULE MCPgExecutor ----------------------------
(* Two processes sharing a server; two statements that may run in either     *)
(* order, so that the sessions can block each other, and one that is always  *)
(* rejected, after the first statement of its text has run.                  *)
EXTENDS PgRefinement

CONSTANTS c1, c2

MCClient == {c1, c2}
MCStmt == {"create", "insert", "bad"}
MCBad == {"bad"}
MCOnce == {}
MCOutside == {}
MCNeeds == [x \in MCStmt |-> {}]

PureScripts == { <<"create", "insert">>, <<"insert", "create">>,
                 <<"create", "bad">>,
                 <<"begin">>, <<"commit">>, <<"rollback">> }
=============================================================================
