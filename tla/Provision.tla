------------------------------ MODULE Provision ------------------------------
(***************************************************************************)
(* What the command create-database promises: the catalog grows by one      *)
(* object at a time, each wanted by a command that was told to go ahead, a  *)
(* database behind its owner; a command that was told everything succeeds   *)
(* only when role and database are there, and one that has succeeded has    *)
(* nothing under way any more.                                              *)
(***************************************************************************)
CONSTANT Client

VARIABLES wishes,    \* client -> [owner, name, ahead, unattended], fixed
          catalog,   \* the roles and databases of the server
          verdict    \* client -> "running", "success", "failure"

vars == <<wishes, catalog, verdict>>

Init == verdict = [c \in Client |-> "running"]

Wants(c, x) == /\ wishes[c].ahead
               /\ \/ x = wishes[c].owner
                  \/ x = wishes[c].name /\ wishes[c].owner \in catalog

\* A command that has failed may still have its COMMIT under way.
Create(x) ==
    /\ x \notin catalog
    /\ \E c \in Client : verdict[c] # "success" /\ Wants(c, x)
    /\ catalog' = catalog \cup {x}
    /\ UNCHANGED <<wishes, verdict>>

Succeed(c) ==
    /\ verdict[c] = "running"
    /\ wishes[c].unattended => {wishes[c].owner, wishes[c].name} \subseteq catalog
    /\ verdict' = [verdict EXCEPT ![c] = "success"]
    /\ UNCHANGED <<wishes, catalog>>

Fail(c) ==
    /\ verdict[c] = "running"
    /\ verdict' = [verdict EXCEPT ![c] = "failure"]
    /\ UNCHANGED <<wishes, catalog>>

Next == \E c \in Client : \/ Create(wishes[c].owner) \/ Create(wishes[c].name)
                          \/ Succeed(c) \/ Fail(c)

Spec == Init /\ [][Next]_vars
=============================================================================
