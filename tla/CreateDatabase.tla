--------------------------- MODULE CreateDatabase ---------------------------
(***************************************************************************)
(* The command create-database                                              *)
(* (MSG5_InstallDB/bootstrap/commands/CreateDb.cpp): make sure the owner    *)
(* role exists, then create the database.  Roles and databases are objects  *)
(* of the catalog that all processes on the server share; a statement is    *)
(* named after the object it creates.  A query (scalar) is one step, because *)
(* its transaction changes nothing.                                         *)
(***************************************************************************)
EXTENDS PgExecutor

CONSTANTS Role, Database,  \* the objects of the catalog
          Catalogs,        \* what the catalog may hold at the start
          Options          \* the option records a command line can resolve to

ASSUME ObjectAssumption == /\ Role \cup Database \subseteq Stmt
                           /\ Role \cap Database = {}
                           /\ Database \subseteq Outside
ASSUME CatalogAssumption == Catalogs \subseteq SUBSET Stmt
ASSUME OptionsAssumption ==
    Options \subseteq [owner : Role, name : Database, dsn : BOOLEAN, ask : BOOLEAN,
                       dry : BOOLEAN, force : BOOLEAN, yes : BOOLEAN]

VARIABLES pc,      \* where the process is in RunCreateDatabase
          opts,    \* its options
          absent,  \* server: the DO block has looked and not found the role
          exit     \* the exit code, once there is one

ownVars == <<pc, opts, exit>>
vars == <<pgVars, ownVars, absent>>

TypeOK ==
    /\ PgTypeOK
    /\ pc \in [Client -> {"gate", "connect", "role", "confirm_role", "role_sent",
                          "database", "confirm_database", "database_sent", "done"}]
    /\ opts \in [Client -> Options]
    /\ absent \in [Client -> BOOLEAN]
    /\ exit \in [Client -> {"none", "0", "1", "2", "killed"}]

Init ==
    /\ PgIdle
    /\ db \in Catalogs
    /\ pc = [c \in Client |-> "gate"]
    /\ opts \in [Client -> Options]
    /\ absent = [c \in Client |-> FALSE]
    /\ exit = [c \in Client |-> "none"]

GoTo(c, l) == pc' = [pc EXCEPT ![c] = l]

\* return code: the PgExecutor, if there is one, is destroyed.
Exit(c, code) ==
    /\ GoTo(c, "done")
    /\ exit' = [exit EXCEPT ![c] = code]
    /\ Disconnect(c)

Continue(c, l) == GoTo(c, l) /\ UNCHANGED <<pgVars, exit>>

Returned(c, l, how) == pc[c] = l /\ phase[c] = "idle" /\ outcome[c] = how

-----------------------------------------------------------------------------

Usage(c) ==
    /\ pc[c] = "gate"
    /\ ~opts[c].dsn
    /\ Exit(c, "2")
    /\ UNCHANGED <<opts, absent>>

Start(c) ==
    /\ pc[c] = "gate"
    /\ opts[c].dsn
    /\ Continue(c, "connect")
    /\ UNCHANGED <<opts, absent>>

\* Variant: the exit code of a shell after an interrupt.
InterruptExits130(c) ==
    /\ pc[c] = "gate"
    /\ opts[c].dsn /\ opts[c].ask
    /\ Exit(c, "130")
    /\ UNCHANGED <<opts, absent>>

\* Ctrl+C at the password prompt throws before the try block.
Interrupt(c) ==
    /\ pc[c] = "gate"
    /\ opts[c].dsn /\ opts[c].ask
    /\ Exit(c, "killed")
    /\ UNCHANGED <<opts, absent>>

Open(c) ==
    /\ pc[c] = "connect"
    /\ Connect(c)
    /\ GoTo(c, "role")
    /\ UNCHANGED <<opts, absent, exit>>

OpenFails(c) ==
    /\ pc[c] = "connect"
    /\ ConnectFails(c)
    /\ GoTo(c, "done")
    /\ exit' = [exit EXCEPT ![c] = "1"]
    /\ UNCHANGED <<opts, absent>>

\* A query throws: the process reports it and ends.
ProbeFails(c) ==
    /\ pc[c] \in {"role", "database"}
    /\ Fault
    /\ GoTo(c, "done")
    /\ exit' = [exit EXCEPT ![c] = "1"]
    /\ conn' = [conn EXCEPT ![c] = "none"]
    /\ UNCHANGED <<phase, script, at, outcome, serverVars, opts, absent>>

\* Variant: --dry-run is only honoured for the database.
ProbeRoleDespiteDry(c) ==
    /\ pc[c] = "role"
    /\ IF opts[c].owner \in db
       THEN Continue(c, "database")
       ELSE IF opts[c].force THEN Continue(c, "confirm_role")
                             ELSE Exit(c, "0")
    /\ UNCHANGED <<opts, absent>>

ProbeRole(c) ==
    /\ pc[c] = "role"
    /\ IF opts[c].owner \in db \/ opts[c].dry
       THEN Continue(c, "database")
       ELSE IF opts[c].force THEN Continue(c, "confirm_role")
                             ELSE Exit(c, "0")
    /\ UNCHANGED <<opts, absent>>

DatabaseExists(name) == name \in db

ProbeDatabase(c) ==
    /\ pc[c] = "database"
    /\ IF opts[c].dry \/ DatabaseExists(opts[c].name) \/ ~opts[c].force
       THEN Exit(c, "0")
       ELSE Continue(c, "confirm_database")
    /\ UNCHANGED <<opts, absent>>

\* The prompt is answered with no.
Cancel(c) ==
    /\ pc[c] \in {"confirm_role", "confirm_database"}
    /\ ~opts[c].yes
    /\ Exit(c, "0")
    /\ UNCHANGED <<opts, absent>>

SendRole(c) ==
    /\ pc[c] = "confirm_role"
    /\ Exec(c, <<opts[c].owner>>)
    /\ GoTo(c, "role_sent")
    /\ absent' = [absent EXCEPT ![c] = FALSE]
    /\ UNCHANGED <<opts, exit>>

SendDatabase(c) ==
    /\ pc[c] = "confirm_database"
    /\ Exec(c, <<opts[c].name>>)
    /\ GoTo(c, "database_sent")
    /\ UNCHANGED <<opts, absent, exit>>

\* Variant: "[ok] role ensured" is printed whatever exec did.
DoneAnyhow(c) ==
    /\ \E how \in {"ok", "error"} : \/ Returned(c, "role_sent", how)
                                   \/ Returned(c, "database_sent", "ok")
    /\ IF pc[c] = "role_sent" THEN Continue(c, "database") ELSE Exit(c, "0")
    /\ UNCHANGED <<opts, absent>>

\* exec returned: "[ok] role ensured.", or "[ok] database created." and return 0.
Done(c) ==
    /\ \E l \in {"role_sent", "database_sent"} : Returned(c, l, "ok")
    /\ IF pc[c] = "role_sent" THEN Continue(c, "database") ELSE Exit(c, "0")
    /\ UNCHANGED <<opts, absent>>

\* Variant: the catch clause does not set the exit code.
CaughtReturns0(c) ==
    /\ \E l \in {"role_sent", "database_sent"} : Returned(c, l, "error")
    /\ Exit(c, "0")
    /\ UNCHANGED <<opts, absent>>

\* Variant: the catch clause tries again.
CaughtTriesAgain(c) ==
    /\ \E l \in {"role_sent", "database_sent"} : Returned(c, l, "error")
    /\ Continue(c, "role")
    /\ UNCHANGED <<opts, absent>>

Caught(c) ==
    /\ \E l \in {"role_sent", "database_sent"} : Returned(c, l, "error")
    /\ Exit(c, "1")
    /\ UNCHANGED <<opts, absent>>

Kill(c) ==
    /\ pc[c] # "done"
    /\ Crash(c)
    /\ GoTo(c, "done")
    /\ exit' = [exit EXCEPT ![c] = "killed"]
    /\ UNCHANGED <<opts, absent>>

-----------------------------------------------------------------------------
(* The server.  The text for the role is a DO block: it looks for the role   *)
(* and only then creates it, so another session may come in between.         *)

Looking(c) == Running(c) /\ pc[c] = "role_sent" /\ ~absent[c]

LookForRole(c) ==
    /\ Looking(c)
    /\ IF Current(c) \in db
       THEN at' = [at EXCEPT ![c] = @ + 1] /\ UNCHANGED absent
       ELSE absent' = [absent EXCEPT ![c] = TRUE] /\ UNCHANGED at
    /\ UNCHANGED <<conn, phase, script, outcome, serverVars, faults, ownVars>>

Serve(c) == \/ LookForRole(c)
            \/ ~Looking(c) /\ Dialogue(c) /\ UNCHANGED <<ownVars, absent>>

Server == (Land \/ Drop) /\ UNCHANGED <<ownVars, absent>>

Step(c) == \/ Usage(c) \/ Start(c) \/ Interrupt(c) \/ Open(c)
           \/ ProbeRole(c) \/ ProbeDatabase(c) \/ Cancel(c)
           \/ SendRole(c) \/ SendDatabase(c)
           \/ Done(c) \/ Caught(c)

CDNext == \/ \E c \in Client : \/ Step(c)
                               \/ Serve(c)
                               \/ SessionFault(c) /\ UNCHANGED <<ownVars, absent>>
                               \/ OpenFails(c) \/ ProbeFails(c) \/ Kill(c)
          \/ Server

CDSpec == Init /\ [][CDNext]_vars

\* As for PgExecutor: the lock queue is fair, the prompt is answered.
CDFairSpec == /\ CDSpec
              /\ \A c \in Client : WF_vars(Step(c)) /\ SF_vars(Serve(c))
              /\ WF_vars(Server)

-----------------------------------------------------------------------------

Unattended(c) == opts[c].dsn /\ opts[c].force /\ opts[c].yes /\ ~opts[c].dry

(* Behind "[ok] role ensured" (CreateDb.cpp:46) the role is durable, whoever *)
(* created it and however the sessions interleave: the database statement    *)
(* never meets an owner that is only under way.                              *)
RoleEnsured ==
    \A c \in Client :
        (pc[c] \in {"database", "confirm_database", "database_sent"} /\ ~opts[c].dry)
            => opts[c].owner \in db

(* Exit code 0 of an unattended run means that role and database are there   *)
(* (CreateDb.cpp:54,65).                                                     *)
SuccessMeansThere ==
    \A c \in Client :
        (exit[c] = "0" /\ Unattended(c)) => {opts[c].owner, opts[c].name} \subseteq db

(* Every run ends, even if another one holds the role it wants to create.    *)
RunsEnd == \A c \in Client : pc[c] # "done" ~> pc[c] = "done"

(* An unattended run that meets no fault and shares the server with nobody   *)
(* does what it was told and does not end with an error: "To execute, add    *)
(* --force" (UsageText.h:34), through an exec for any SQL, DDL included      *)
(* (PgExecutor.h:31).                                                        *)
ForcedRunCreates ==
    \A c \in Client :
        (Client = {c} /\ faults = 0 /\ Unattended(c)) => exit[c] # "1"
=============================================================================
