-------------------------- MODULE CreateRefinement --------------------------
(***************************************************************************)
(* create-database implements Provision: seen from the catalog and the      *)
(* shell, the looking, the prompts and the dialogue of a text are one step.  *)
(***************************************************************************)
EXTENDS CreateDatabase

WishesSeen == [c \in Client |-> [owner |-> opts[c].owner,
                                 name |-> opts[c].name,
                                 ahead |-> opts[c].force /\ ~opts[c].dry,
                                 unattended |-> Unattended(c)]]

VerdictOf(c) == CASE exit[c] = "none" -> "running"
                  [] exit[c] = "0" -> "success"
                  [] OTHER -> "failure"

verdicts == [c \in Client |-> VerdictOf(c)]

Promise == INSTANCE Provision
           WITH wishes <- WishesSeen, catalog <- db, verdict <- verdicts

(* create-database implements Provision (CreateDb.cpp:34-72): whatever is new *)
(* in the catalog was asked for, by a run with --force and without --dry-run  *)
(* that had not returned 0, as its own role or, behind that role, as its own  *)
(* database; exit code 0 of an unattended run means that both are there, and *)
(* that no COMMIT of it is in doubt.                                          *)
KeepsPromise == Promise!Spec
=============================================================================
