----------------------------- MODULE PgExecutor -----------------------------
(***************************************************************************)
(* PgExecutor (MSG5_Core/PgExecutor.cpp) and the PostgreSQL sessions it     *)
(* drives.  Every exec(sql) is a dialogue of at least three round trips:    *)
(* BEGIN (the constructor of pqxx::work), the SQL text, COMMIT; an          *)
(* exception on the way runs the destructor of the work, ROLLBACK.          *)
(*                                                                         *)
(* The server is modelled as far as the code relies on it: what a           *)
(* transaction block is, what BEGIN, COMMIT and ROLLBACK do inside and      *)
(* outside one, that work becomes visible at COMMIT, and that a connection  *)
(* lost while COMMIT is under way leaves the outcome in doubt.              *)
(***************************************************************************)
EXTENDS Naturals, Sequences, FiniteSets

CONSTANTS Client,     \* processes; each holds at most one PgExecutor
          Stmt,       \* SQL statements that change the database
          Bad,        \* the statements that are rejected wherever they run
          Once,       \* the statements that are rejected the second time
          Outside,    \* the statements that are rejected inside a transaction
          Needs,      \* what must be in the database before a statement runs
          Scripts,    \* the SQL texts exec is called with
          MaxFaults   \* bound on lost connections, crashes and failures

Control == {"begin", "commit", "rollback"}

ASSUME StmtAssumption == Stmt \cap Control = {}
ASSUME KindAssumption == /\ Bad \subseteq Stmt
                         /\ Once \subseteq Stmt
                         /\ Outside \subseteq Stmt
                         /\ Needs \in [Stmt -> SUBSET Stmt]
ASSUME ScriptsAssumption == Scripts \subseteq Seq(Stmt \cup Control)
ASSUME FaultsAssumption == MaxFaults \in Nat

\* The changes a text makes when all of it takes effect.
Effects(text) == {text[j] : j \in DOMAIN text} \cap Stmt

\* A text without transaction control of its own.
Plain(text) == \A j \in DOMAIN text : text[j] \in Stmt

\* A rollback among the first n statements of the text undoes the one at j: no commit
\* is between them.
Undone(text, j, n) ==
    \E k \in (j + 1)..n : /\ text[k] = "rollback"
                          /\ \A m \in (j + 1)..(k - 1) : text[m] # "commit"

\* The changes that remain when the text has run to its end.
Lasting(text) ==
    {text[j] : j \in {k \in DOMAIN text : text[k] \in Stmt /\ ~Undone(text, k, Len(text))}}

\* A text without, or of nothing but, transaction control.
Pure(text) == Plain(text) \/ Len(text) = 1

VARIABLES conn,      \* the pqxx::connection as its process sees it
          phase,     \* how far the process is in exec(sql)
          script,    \* the sql of the latest exec
          at,        \* the statement of script the server runs next
          outcome,   \* how the latest exec ended: normally or by an exception
          block,     \* server: state of the session's transaction block
          pend,      \* server: changes of the session not yet committed
          orphan,    \* server: changes whose COMMIT was under way when the
                     \* connection was lost
          db,        \* server: the changes that are durable
          faults     \* faults so far

clientVars == <<conn, phase, script, at, outcome>>
serverVars == <<block, pend, orphan, db>>
pgVars == <<clientVars, serverVars, faults>>

PgTypeOK ==
    /\ conn \in [Client -> {"none", "open", "lost"}]
    /\ phase \in [Client -> {"idle", "begin", "run", "commit", "committed", "abort"}]
    /\ script \in [Client -> Seq(Stmt \cup Control)]
    /\ at \in [Client -> Nat \ {0}]
    /\ outcome \in [Client -> {"none", "ok", "error"}]
    /\ block \in [Client -> {"idle", "open", "implicit", "failed"}]
    /\ pend \in [Client -> SUBSET Stmt]
    /\ orphan \subseteq SUBSET Stmt
    /\ db \subseteq Stmt
    /\ faults \in 0..MaxFaults

\* No process is connected.
PgIdle ==
    /\ conn = [c \in Client |-> "none"]
    /\ phase = [c \in Client |-> "idle"]
    /\ script = [c \in Client |-> <<>>]
    /\ at = [c \in Client |-> 1]
    /\ outcome = [c \in Client |-> "none"]
    /\ block = [c \in Client |-> "idle"]
    /\ pend = [c \in Client |-> {}]
    /\ orphan = {}
    /\ faults = 0

PgInit == PgIdle /\ db = {}

CanFault == faults < MaxFaults
Fault == CanFault /\ faults' = faults + 1

-----------------------------------------------------------------------------
(* The process: constructor, entry of exec, destructor.                    *)

Connect(c) ==
    /\ conn[c] = "none"
    /\ conn' = [conn EXCEPT ![c] = "open"]
    /\ UNCHANGED <<phase, script, at, outcome, serverVars, faults>>

\* Variant: the constructor swallows the exception.
ConnectHalfOpen(c) ==
    /\ conn[c] = "none"
    /\ Fault
    /\ conn' = [conn EXCEPT ![c] = "opening"]
    /\ UNCHANGED <<phase, script, at, outcome, serverVars>>

\* The constructor throws.
ConnectFails(c) ==
    /\ conn[c] = "none"
    /\ Fault
    /\ UNCHANGED <<clientVars, serverVars>>

Disconnect(c) ==
    /\ phase[c] = "idle"
    /\ conn' = [conn EXCEPT ![c] = "none"]
    /\ UNCHANGED <<phase, script, at, outcome, serverVars, faults>>

\* exec(sql) on a connection that is, as far as the process knows, open.
Call(c, sql) ==
    /\ conn[c] = "open"
    /\ phase[c] = "idle"
    /\ phase' = [phase EXCEPT ![c] = "begin"]
    /\ script' = [script EXCEPT ![c] = sql]
    /\ at' = [at EXCEPT ![c] = 1]
    /\ outcome' = [outcome EXCEPT ![c] = "none"]
    /\ UNCHANGED <<conn, serverVars, faults>>

\* ensureConnected throws: the connection is known to be gone.
Refuse(c, sql) ==
    /\ conn[c] = "lost"
    /\ phase[c] = "idle"
    /\ script' = [script EXCEPT ![c] = sql]
    /\ at' = [at EXCEPT ![c] = 1]
    /\ outcome' = [outcome EXCEPT ![c] = "error"]
    /\ UNCHANGED <<conn, phase, serverVars, faults>>

Exec(c, sql) == Call(c, sql) \/ Refuse(c, sql)

-----------------------------------------------------------------------------
(* The dialogue with the server.                                           *)

Begin(c) ==
    /\ phase[c] = "begin"
    /\ phase' = [phase EXCEPT ![c] = "run"]
    /\ block' = [block EXCEPT ![c] = "open"]
    /\ UNCHANGED <<conn, script, at, outcome, pend, orphan, db, faults>>

Running(c) == phase[c] = "run" /\ at[c] <= Len(script[c])

Current(c) == script[c][at[c]]

\* A change under way elsewhere holds its lock until it commits or is undone.
Held(c, x) == \/ \E d \in Client \ {c} : x \in pend[d]
              \/ \E p \in orphan : x \in p

Accepts(c, x) == /\ x \notin Bad
                 /\ x \in Outside => block[c] = "idle" /\ Len(script[c]) = 1
                 /\ Needs[x] \subseteq db \cup pend[c]
                 /\ x \in Once => x \notin db \cup pend[c]

RunStmt(c) ==
    /\ Running(c)
    /\ Current(c) \in Stmt
    /\ ~Held(c, Current(c))
    /\ Accepts(c, Current(c))
    /\ pend' = [pend EXCEPT ![c] = @ \cup {Current(c)}]
    /\ block' = [block EXCEPT ![c] = IF @ = "idle" THEN "implicit" ELSE @]
    /\ at' = [at EXCEPT ![c] = @ + 1]
    /\ UNCHANGED <<conn, phase, script, outcome, orphan, db, faults>>

\* Inside a block a second BEGIN only draws a warning.
RunBegin(c) ==
    /\ Running(c)
    /\ Current(c) = "begin"
    /\ block' = [block EXCEPT ![c] = "open"]
    /\ at' = [at EXCEPT ![c] = @ + 1]
    /\ UNCHANGED <<conn, phase, script, outcome, pend, orphan, db, faults>>

\* COMMIT and ROLLBACK end the block; outside one they only draw a warning.
RunEnd(c) ==
    /\ Running(c)
    /\ Current(c) \in {"commit", "rollback"}
    /\ db' = IF Current(c) = "commit" THEN db \cup pend[c] ELSE db
    /\ pend' = [pend EXCEPT ![c] = {}]
    /\ block' = [block EXCEPT ![c] = "idle"]
    /\ at' = [at EXCEPT ![c] = @ + 1]
    /\ UNCHANGED <<conn, phase, script, outcome, orphan, faults>>

\* The rest of the text is skipped and the block is failed.
FailBlock(c) ==
    /\ phase' = [phase EXCEPT ![c] = "abort"]
    /\ pend' = [pend EXCEPT ![c] = {}]
    /\ block' = [block EXCEPT ![c] = IF @ = "open" THEN "failed" ELSE "idle"]
    /\ UNCHANGED <<conn, script, at, outcome, orphan, db>>

Reject(c) ==
    /\ Running(c)
    /\ Current(c) \in Stmt
    /\ ~Held(c, Current(c))
    /\ ~Accepts(c, Current(c))
    /\ FailBlock(c)
    /\ UNCHANGED faults

\* The server gives the statement up: a timeout, a full disk, a deadlock.
GiveUp(c) ==
    /\ Running(c)
    /\ Fault
    /\ FailBlock(c)

\* Variant: only the first statements of the text are sent, the rest is dropped.
EndScriptEarly(c) ==
    /\ phase[c] = "run"
    /\ at[c] > 1
    /\ phase' = [phase EXCEPT ![c] = "commit"]
    /\ UNCHANGED <<conn, script, at, outcome, block, pend, orphan, db, faults>>

\* tx.exec returns.  What ran outside a block commits with the end of the text.
EndScript(c) ==
    /\ phase[c] = "run"
    /\ at[c] > Len(script[c])
    /\ phase' = [phase EXCEPT ![c] = "commit"]
    /\ IF block[c] = "implicit"
       THEN /\ db' = db \cup pend[c]
            /\ pend' = [pend EXCEPT ![c] = {}]
            /\ block' = [block EXCEPT ![c] = "idle"]
       ELSE UNCHANGED <<db, pend, block>>
    /\ UNCHANGED <<conn, script, at, outcome, orphan, faults>>

\* Variant: tx.commit() is forgotten, the destructor of the work undoes it.
CommitForgotten(c) ==
    /\ phase[c] = "commit"
    /\ phase' = [phase EXCEPT ![c] = "committed"]
    /\ pend' = [pend EXCEPT ![c] = {}]
    /\ block' = [block EXCEPT ![c] = "idle"]
    /\ UNCHANGED <<conn, script, at, outcome, orphan, db, faults>>

Commit(c) ==
    /\ phase[c] = "commit"
    /\ phase' = [phase EXCEPT ![c] = "committed"]
    /\ db' = db \cup pend[c]
    /\ pend' = [pend EXCEPT ![c] = {}]
    /\ block' = [block EXCEPT ![c] = "idle"]
    /\ UNCHANGED <<conn, script, at, outcome, orphan, faults>>

\* COMMIT itself fails (a deferred constraint): the server undoes the block.
CommitReject(c) ==
    /\ phase[c] = "commit"
    /\ Fault
    /\ phase' = [phase EXCEPT ![c] = "idle"]
    /\ outcome' = [outcome EXCEPT ![c] = "error"]
    /\ pend' = [pend EXCEPT ![c] = {}]
    /\ block' = [block EXCEPT ![c] = "idle"]
    /\ UNCHANGED <<conn, script, at, orphan, db>>

Reply(c) ==
    /\ phase[c] = "committed"
    /\ phase' = [phase EXCEPT ![c] = "idle"]
    /\ outcome' = [outcome EXCEPT ![c] = "ok"]
    /\ UNCHANGED <<conn, script, at, serverVars, faults>>

\* Variant: the exception leaves the failed block behind.
AbortLeavesBlock(c) ==
    /\ phase[c] = "abort"
    /\ phase' = [phase EXCEPT ![c] = "idle"]
    /\ outcome' = [outcome EXCEPT ![c] = "error"]
    /\ UNCHANGED <<conn, script, at, block, pend, orphan, db, faults>>

\* Variant: exec sends its text again until it succeeds.
AbortRetries(c) ==
    /\ phase[c] = "abort"
    /\ phase' = [phase EXCEPT ![c] = "begin"]
    /\ at' = [at EXCEPT ![c] = 1]
    /\ block' = [block EXCEPT ![c] = "idle"]
    /\ UNCHANGED <<conn, script, outcome, pend, orphan, db, faults>>

\* The destructor of the work sends ROLLBACK and the exception reaches the caller.
Abort(c) ==
    /\ phase[c] = "abort"
    /\ phase' = [phase EXCEPT ![c] = "idle"]
    /\ outcome' = [outcome EXCEPT ![c] = "error"]
    /\ block' = [block EXCEPT ![c] = "idle"]
    /\ UNCHANGED <<conn, script, at, pend, orphan, db, faults>>

-----------------------------------------------------------------------------
(* Faults.  A session that ends outside a COMMIT is undone by the server;  *)
(* one that ends with its COMMIT under way is in doubt.                     *)

EndSession(c) ==
    /\ phase' = [phase EXCEPT ![c] = "idle"]
    /\ pend' = [pend EXCEPT ![c] = {}]
    /\ block' = [block EXCEPT ![c] = "idle"]
    /\ orphan' = IF phase[c] = "commit" THEN orphan \cup {pend[c]} ELSE orphan
    /\ UNCHANGED <<script, at, db>>

Lose(c) ==
    /\ phase[c] # "idle"
    /\ Fault
    /\ EndSession(c)
    /\ conn' = [conn EXCEPT ![c] = "lost"]
    /\ outcome' = [outcome EXCEPT ![c] = "error"]

Crash(c) ==
    /\ conn[c] # "none"
    /\ Fault
    /\ EndSession(c)
    /\ conn' = [conn EXCEPT ![c] = "none"]
    /\ outcome' = [outcome EXCEPT ![c] = "none"]

\* A COMMIT in doubt is completed, or the server finds the client gone first.
Land == \E p \in orphan : /\ orphan' = orphan \ {p}
                          /\ db' = db \cup p
                          /\ UNCHANGED <<clientVars, block, pend, faults>>

Drop == \E p \in orphan : /\ orphan' = orphan \ {p}
                          /\ UNCHANGED <<clientVars, block, pend, db, faults>>

\* The lock that the statement of c needs is held by d.
WaitsFor(c, d) == c # d /\ Running(c) /\ Current(c) \in pend[d]

\* The sessions of S wait for each other, and c is one of them.
InCircle(c) == \E S \in SUBSET Client : /\ c \in S
                                       /\ \A d \in S : \E e \in S : WaitsFor(d, e)

\* The server's detector picks a victim in a circle.
Victim(c) ==
    /\ InCircle(c)
    /\ FailBlock(c)
    /\ UNCHANGED faults

\* What goes on between the entry of exec and its return.
Dialogue(c) == \/ Begin(c) \/ RunStmt(c) \/ RunBegin(c) \/ RunEnd(c)
               \/ Reject(c) \/ Victim(c) \/ EndScript(c)
               \/ Commit(c) \/ Reply(c) \/ Abort(c)

SessionFault(c) == GiveUp(c) \/ CommitReject(c) \/ Lose(c)

-----------------------------------------------------------------------------
(* A process that calls exec with any text, any number of times.           *)

NextWith(texts) ==
    \/ \E c \in Client : \/ Connect(c) \/ ConnectFails(c) \/ Disconnect(c)
                         \/ \E sql \in texts : Exec(c, sql)
                         \/ Dialogue(c) \/ SessionFault(c) \/ Crash(c)
    \/ Land
    \/ Drop

Next == NextWith(Scripts)

Spec == PgInit /\ [][Next]_pgVars

\* The server answers as long as the connection holds, every loss is noticed,
\* and a COMMIT in doubt is settled.  Strong fairness: a session that waits for
\* a lock is served in the order of the server's queue, however often others
\* take the lock meanwhile.
FairSpec == /\ Spec
            /\ \A c \in Client : SF_pgVars(Dialogue(c))
            /\ WF_pgVars(Land \/ Drop)

-----------------------------------------------------------------------------
(* Between two calls the session has no transaction block and owes nothing: *)
(* no exec can extend a block that an earlier exec opened, so a "begin;"     *)
(* sent through exec (ApplyMetaStructure.cpp:67,81) reaches no later call.   *)
CleanBetweenCalls ==
    \A c \in Client : phase[c] = "idle" => block[c] = "idle" /\ pend[c] = {}

(* exec that returned normally has made durable all that its text leaves:    *)
(* COMMIT was answered before tx.commit() returned (PgExecutor.cpp:132-137),  *)
(* and what a text with transaction control of its own ran outside of the     *)
(* block was committed with its end.                                         *)
OkIsDurable ==
    \A c \in Client :
        (phase[c] = "idle" /\ outcome[c] = "ok") => Lasting(script[c]) \subseteq db

\* The answers and statements that a call still has before it.
Left(c) == CASE phase[c] = "begin" -> Len(script[c]) + 4
             [] phase[c] = "run" -> Len(script[c]) - at[c] + 4
             [] phase[c] = "commit" -> 2
             [] phase[c] \in {"committed", "abort"} -> 1
             [] OTHER -> 0

\* Nothing of c changes, or its call comes closer to its end.
Onward(c) == /\ script'[c] = script[c]
             /\ \/ phase'[c] = phase[c] /\ at'[c] = at[c]
                \/ Left(c)' \in 0 .. Left(c) - 1

(* A call of exec only goes forward: it sends each statement of its text at    *)
(* most once and never begins again by itself, whatever is rejected, given up  *)
(* or lost (PgExecutor.cpp:124-138), and with each step it is nearer to its    *)
(* return: only a wait can keep it from that.                                  *)
CallsGoForward == [][\A c \in Client : phase[c] # "idle" => Onward(c)]_pgVars

\* The call of c waits for a lock, and nobody takes it out of that.
Blocked(c) == /\ Running(c) /\ Current(c) \in Stmt /\ Held(c, Current(c))
              /\ ~InCircle(c)

(* Sessions wait for each other's locks, but never all of them: no session     *)
(* keeps a lock from one exec to the next (PgExecutor.cpp:134-137), so behind  *)
(* every wait there is a call that goes on, a circle, which the server breaks, *)
(* or a COMMIT in doubt.                                                       *)
NoStandstill ==
    (\E c \in Client : phase[c] # "idle")
        => orphan # {} \/ \E c \in Client : phase[c] # "idle" /\ ~Blocked(c)

(* A call of exec returns, by a value or by an exception, whatever the       *)
(* server and the other sessions do.                                         *)
CallsReturn == \A c \in Client : phase[c] # "idle" ~> phase[c] = "idle"
=============================================================================
