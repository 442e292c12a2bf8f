---------------------------- MODULE PgRefinement ----------------------------
(***************************************************************************)
(* PgExecutor implements AtomicExec: the three round trips of exec look to  *)
(* every observer of the database like one step, as long as the texts it is *)
(* given hold no transaction control next to statements.                    *)
(***************************************************************************)
EXTENDS PgExecutor

ASSUME PureAssumption == \A text \in Scripts : Pure(text)

CallState(c) == CASE phase[c] = "idle" -> "idle"
                  [] phase[c] = "committed" -> "effected"
                  [] OTHER -> "pending"

calls == [c \in Client |-> CallState(c)]

Abstract == INSTANCE AtomicExec WITH call <- calls, doubt <- orphan

(* exec is atomic (PgExecutor.cpp:132-137): its text takes effect in one     *)
(* step between call and return, never twice, never in part, and after an    *)
(* exception either not at all or, if the COMMIT is in doubt, as a whole.    *)
ExecIsAtomic == Abstract!Spec
=============================================================================
