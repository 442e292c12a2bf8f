------------------------------ MODULE ApplyMeta ------------------------------
(***************************************************************************)
(* The commands apply-meta-structure and apply-meta-data                    *)
(* (MSG5_InstallDB/bootstrap/commands/ApplyMetaStructure.cpp and            *)
(* ApplyMetaData.cpp, the same function but for the names of its options):  *)
(* every .sql file of a directory, in the order of the file names, is sent  *)
(* to the database through one PgExecutor.  Several processes may run the   *)
(* commands against one database, and a command may be run again.           *)
(***************************************************************************)
EXTENDS PgExecutor

CONSTANTS Dir,          \* the directories: name -> contents of the sorted files
          Unreadable,   \* the contents of a file that cannot be opened
          Options,      \* the option records a command line can resolve to
          MaxRuns       \* bound on how often a process runs its command

Modes == {"single", "per-file", "none"}

(* A file that holds only white space is the empty text.                    *)
ASSUME DirAssumption ==
    \A d \in DOMAIN Dir : Dir[d] \in Seq({Unreadable} \cup Seq(Stmt \cup Control))
ASSUME UnreadableAssumption == Unreadable \notin Seq(Stmt \cup Control)
ASSUME OptionsAssumption ==
    Options \subseteq [mode : Modes \cup {"other"}, dir : DOMAIN Dir \cup {"absent"},
                       cont : BOOLEAN, dry : BOOLEAN, force : BOOLEAN, yes : BOOLEAN]
ASSUME RunsAssumption == MaxRuns \in Nat

VARIABLES pc,       \* where the process is in RunApplyMeta...
          opts,     \* its options
          i,        \* the position of the next file
          fileOk,   \* what run_file returned last
          failed,   \* some file failed: !all_ok, any_err
          exit,     \* the exit code, once there is one
          said,     \* "aborted, rolled back" was printed
          base,     \* history: db when the run connected
          runs      \* history: runs started so far

amVars == <<pc, opts, i, fileOk, failed, exit, said, base, runs>>
vars == <<pgVars, amVars>>

Labels == {"gate", "connect", "open", "opening", "loop", "file", "running", "settle",
           "settling", "end", "ending", "catching", "done"}

TypeOK ==
    /\ PgTypeOK
    /\ pc \in [Client -> Labels]
    /\ opts \in [Client -> Options]
    /\ i \in [Client -> Nat \ {0}]
    /\ fileOk \in [Client -> BOOLEAN]
    /\ failed \in [Client -> BOOLEAN]
    /\ exit \in [Client -> {"none", "0", "1", "2", "killed"}]
    /\ said \in [Client -> BOOLEAN]
    /\ base \in [Client -> SUBSET Stmt]
    /\ runs \in [Client -> Nat]

Init ==
    /\ PgInit
    /\ pc = [c \in Client |-> "gate"]
    /\ opts \in [Client -> Options]
    /\ i = [c \in Client |-> 1]
    /\ fileOk = [c \in Client |-> TRUE]
    /\ failed = [c \in Client |-> FALSE]
    /\ exit = [c \in Client |-> "none"]
    /\ said = [c \in Client |-> FALSE]
    /\ base = [c \in Client |-> {}]
    /\ runs = [c \in Client |-> 1]

\* Variant: the list of files is sorted the wrong way round.
FilesDescending(c) ==
    LET files == Dir[opts[c].dir]
    IN [j \in DOMAIN files |-> files[Len(files) + 1 - j]]

Files(c) == Dir[opts[c].dir]
Content(c) == Files(c)[i[c]]
Single(c) == opts[c].mode = "single"
PerFile(c) == opts[c].mode = "per-file"
Aborted(c) == failed[c] /\ ~opts[c].cont

GoTo(c, l) == pc' = [pc EXCEPT ![c] = l]

\* return code: the PgExecutor, if there is one, is destroyed.
Exit(c, code) ==
    /\ GoTo(c, "done")
    /\ exit' = [exit EXCEPT ![c] = code]
    /\ Disconnect(c)

\* db.exec(sql), to be continued at l.
ExecThen(c, sql, l) == Exec(c, sql) /\ GoTo(c, l)

Returned(c, l, how) == pc[c] = l /\ phase[c] = "idle" /\ outcome[c] = how

-----------------------------------------------------------------------------
(* Before the first file.                                                  *)

\* Variant: the exit code of sysexits.h.
UsageExits64(c) ==
    /\ pc[c] = "gate"
    /\ opts[c].dir = "absent" \/ opts[c].mode = "other"
    /\ Exit(c, "64")
    /\ UNCHANGED <<opts, i, fileOk, failed, said, base, runs>>

\* A parameter is missing, the tx-mode is unknown or listing the directory throws
\* (a directory that does not exist is listed as an empty one).
Usage(c) ==
    /\ pc[c] = "gate"
    /\ opts[c].dir = "absent" \/ opts[c].mode = "other"
    /\ Exit(c, "2")
    /\ UNCHANGED <<opts, i, fileOk, failed, said, base, runs>>

Valid(c) == pc[c] = "gate" /\ opts[c].dir # "absent" /\ opts[c].mode # "other"

\* No files, a dry run, no --force, or the prompt is answered with no.
Decline(c) ==
    /\ Valid(c)
    /\ \/ Files(c) = <<>>
       \/ opts[c].dry
       \/ ~opts[c].force
       \/ ~opts[c].yes
    /\ Exit(c, "0")
    /\ UNCHANGED <<opts, i, fileOk, failed, said, base, runs>>

\* --force, and --yes or the prompt is answered with yes.
Proceed(c) ==
    /\ Valid(c)
    /\ Files(c) # <<>>
    /\ ~opts[c].dry
    /\ opts[c].force
    /\ GoTo(c, "connect")
    /\ UNCHANGED <<pgVars, opts, i, fileOk, failed, exit, said, base, runs>>

Open(c) ==
    /\ pc[c] = "connect"
    /\ Connect(c)
    /\ GoTo(c, IF Single(c) THEN "open" ELSE "loop")
    /\ base' = [base EXCEPT ![c] = db]
    /\ UNCHANGED <<opts, i, fileOk, failed, exit, said, runs>>

\* The constructor throws, and nothing up to main catches it.
OpenFails(c) ==
    /\ pc[c] = "connect"
    /\ ConnectFails(c)
    /\ GoTo(c, "done")
    /\ exit' = [exit EXCEPT ![c] = "killed"]
    /\ UNCHANGED <<opts, i, fileOk, failed, said, base, runs>>

-----------------------------------------------------------------------------
(* The loop over the files.                                                *)

\* "begin;" before all files (single) or before each (per-file).
SendBegin(c) ==
    /\ \/ pc[c] = "open"
       \/ pc[c] = "loop" /\ i[c] <= Len(Files(c)) /\ PerFile(c)
    /\ ExecThen(c, <<"begin">>, "opening")
    /\ UNCHANGED <<opts, i, fileOk, failed, exit, said, base, runs>>

Begun(c) ==
    /\ Returned(c, "opening", "ok")
    /\ GoTo(c, IF Single(c) THEN "loop" ELSE "file")
    /\ UNCHANGED <<pgVars, opts, i, fileOk, failed, exit, said, base, runs>>

NextFile(c) ==
    /\ pc[c] = "loop"
    /\ i[c] <= Len(Files(c))
    /\ ~PerFile(c)
    /\ GoTo(c, "file")
    /\ UNCHANGED <<pgVars, opts, i, fileOk, failed, exit, said, base, runs>>

\* Variant: the break after a failed file is missing.
ContinueAnyway(c, ok) ==
    /\ failed' = [failed EXCEPT ![c] = @ \/ ~ok]
    /\ i' = [i EXCEPT ![c] = @ + 1]
    /\ GoTo(c, "loop")

\* The rest of the loop body once a file is known to have succeeded or not.
Continue(c, ok) ==
    /\ failed' = [failed EXCEPT ![c] = @ \/ ~ok]
    /\ IF ok \/ opts[c].cont
       THEN i' = [i EXCEPT ![c] = @ + 1] /\ GoTo(c, "loop")
       ELSE GoTo(c, "end") /\ UNCHANGED i

\* run_file returned: per-file ends its transaction first.
AfterFile(c, ok) ==
    /\ fileOk' = [fileOk EXCEPT ![c] = ok]
    /\ IF PerFile(c) THEN GoTo(c, "settle") /\ UNCHANGED <<i, failed>>
                     ELSE Continue(c, ok)

\* run_file of a file that cannot be opened (false) or is empty (true).
SkipFile(c) ==
    /\ pc[c] = "file"
    /\ \/ Content(c) = Unreadable /\ AfterFile(c, FALSE)
       \/ Content(c) = <<>> /\ AfterFile(c, TRUE)
    /\ UNCHANGED <<pgVars, opts, exit, said, base, runs>>

SendFile(c) ==
    /\ pc[c] = "file"
    /\ Content(c) \notin {Unreadable, <<>>}
    /\ ExecThen(c, Content(c), "running")
    /\ UNCHANGED <<opts, i, fileOk, failed, exit, said, base, runs>>

FileRan(c) ==
    /\ \E how \in {"ok", "error"} : /\ Returned(c, "running", how)
                                    /\ AfterFile(c, how = "ok")
    /\ UNCHANGED <<pgVars, opts, exit, said, base, runs>>

SendSettle(c) ==
    /\ pc[c] = "settle"
    /\ ExecThen(c, IF fileOk[c] THEN <<"commit">> ELSE <<"rollback">>, "settling")
    /\ UNCHANGED <<opts, i, fileOk, failed, exit, said, base, runs>>

Settled(c) ==
    /\ Returned(c, "settling", "ok")
    /\ Continue(c, fileOk[c])
    /\ UNCHANGED <<pgVars, opts, fileOk, exit, said, base, runs>>

-----------------------------------------------------------------------------
(* After the last file, and the catch clauses.                             *)

AtEnd(c) == \/ pc[c] = "end"
            \/ pc[c] = "loop" /\ i[c] > Len(Files(c))

SendEnd(c) ==
    /\ AtEnd(c)
    /\ Single(c)
    /\ ExecThen(c, IF Aborted(c) THEN <<"rollback">> ELSE <<"commit">>, "ending")
    /\ UNCHANGED <<opts, i, fileOk, failed, exit, said, base, runs>>

\* Variant: the command returns 0 once it has gone through the files.
VerdictDone(c) == "0"

Verdict(c) == IF Aborted(c) THEN "1" ELSE "0"

\* "aborted, rolled back." or "done."
Ended(c) ==
    /\ Returned(c, "ending", "ok")
    /\ Exit(c, Verdict(c))
    /\ said' = [said EXCEPT ![c] = Aborted(c)]
    /\ UNCHANGED <<opts, i, fileOk, failed, base, runs>>

Finish(c) ==
    /\ AtEnd(c)
    /\ ~Single(c)
    /\ Exit(c, Verdict(c))
    /\ UNCHANGED <<opts, i, fileOk, failed, said, base, runs>>

\* One of the control statements threw: try "rollback;" whatever it does.
SendRollback(c) ==
    /\ \E l \in {"opening", "settling", "ending"} : Returned(c, l, "error")
    /\ ExecThen(c, <<"rollback">>, "catching")
    /\ UNCHANGED <<opts, i, fileOk, failed, exit, said, base, runs>>

\* Variant: the catch clause sends "rollback;" until it goes through.
CaughtRetries(c) ==
    /\ pc[c] = "catching"
    /\ phase[c] = "idle"
    /\ IF outcome[c] = "error"
       THEN ExecThen(c, <<"rollback">>, "catching") /\ UNCHANGED <<i, failed, exit>>
       ELSE IF Single(c)
       THEN Exit(c, "1") /\ UNCHANGED <<i, failed>>
       ELSE Continue(c, FALSE) /\ UNCHANGED <<pgVars, exit>>
    /\ UNCHANGED <<opts, fileOk, said, base, runs>>

Caught(c) ==
    /\ \E how \in {"ok", "error"} : Returned(c, "catching", how)
    /\ IF Single(c)
       THEN Exit(c, "1") /\ UNCHANGED <<i, failed>>
       ELSE Continue(c, FALSE) /\ UNCHANGED <<pgVars, exit>>
    /\ UNCHANGED <<opts, fileOk, said, base, runs>>

-----------------------------------------------------------------------------

\* The process is killed.
Kill(c) ==
    /\ pc[c] # "done"
    /\ Crash(c)
    /\ GoTo(c, "done")
    /\ exit' = [exit EXCEPT ![c] = "killed"]
    /\ UNCHANGED <<opts, i, fileOk, failed, said, base, runs>>

\* The operator gives the same command again.
Rerun(c) ==
    /\ pc[c] = "done"
    /\ runs[c] < MaxRuns
    /\ runs' = [runs EXCEPT ![c] = @ + 1]
    /\ GoTo(c, "gate")
    /\ i' = [i EXCEPT ![c] = 1]
    /\ fileOk' = [fileOk EXCEPT ![c] = TRUE]
    /\ failed' = [failed EXCEPT ![c] = FALSE]
    /\ exit' = [exit EXCEPT ![c] = "none"]
    /\ said' = [said EXCEPT ![c] = FALSE]
    /\ UNCHANGED <<pgVars, opts, base>>

\* What the process does between two calls of exec.
Step(c) == \/ Usage(c) \/ Decline(c) \/ Proceed(c) \/ Open(c)
           \/ SendBegin(c) \/ Begun(c) \/ NextFile(c) \/ SkipFile(c)
           \/ SendFile(c) \/ FileRan(c) \/ SendSettle(c) \/ Settled(c)
           \/ SendEnd(c) \/ Ended(c) \/ Finish(c) \/ SendRollback(c) \/ Caught(c)

Session(c) == (Dialogue(c) \/ SessionFault(c)) /\ UNCHANGED amVars

Server == (Land \/ Drop) /\ UNCHANGED amVars

AMNext == \/ \E c \in Client : \/ Step(c)
                               \/ OpenFails(c)
                               \/ Session(c)
                               \/ Kill(c)
                               \/ Rerun(c)
          \/ Server

AMSpec == Init /\ [][AMNext]_vars

\* The process takes its steps, the server serves its session (the lock queue
\* is fair) and settles what is in doubt.
AMFairSpec == /\ AMSpec
              /\ \A c \in Client : /\ WF_vars(Step(c))
                                   /\ SF_vars(Dialogue(c) /\ UNCHANGED amVars)
              /\ WF_vars(Server)

-----------------------------------------------------------------------------
(* Properties.                                                             *)

HasText(d, j) == Dir[d][j] # Unreadable

\* The file is in the database as a whole; it is there at least in part.
Applied(d, j) == HasText(d, j) /\ Effects(Dir[d][j]) \subseteq db
Touched(d, j) == HasText(d, j) /\ Effects(Dir[d][j]) \cap db # {}

\* What it takes to go on after the file: it could be read, and all that it leaves,
\* also when it ends transactions itself, is in the database.
Passed(d, j) == HasText(d, j) /\ Lasting(Dir[d][j]) \subseteq db

\* Whoever works on the directory stops at the first error.
StrictDir(d) == \A c \in Client : opts[c].dir = d => ~opts[c].cont

\* The run is not a plan only and asks nobody.
Unattended(c) == opts[c].force /\ opts[c].yes /\ ~opts[c].dry

(* A file is in the database as a whole or not at all, at every moment, in   *)
(* every tx-mode, whoever else works on the database and whenever a          *)
(* connection or a process dies: the block that pqxx::work opens around      *)
(* each text (PgExecutor.cpp:132-137) holds exactly that text.               *)
FileAtomic ==
    \A d \in DOMAIN Dir : \A j \in DOMAIN Dir[d] :
        (HasText(d, j) /\ Plain(Dir[d][j]) /\ Touched(d, j)) => Applied(d, j)

(* Without --continue-on-error the files in the database are a prefix of the *)
(* sorted directory (ApplyMetaStructure.cpp:40,68,81,91): no file is there,  *)
(* in whole or in part, before all that the files leave that sort before it, *)
(* even after lost connections, COMMITs in doubt, kills and reruns, and even *)
(* when one of those files ends its transactions itself and fails half-way.  *)
InOrder ==
    \A d \in DOMAIN Dir : StrictDir(d) =>
        \A k \in DOMAIN Dir[d] : Touched(d, k) => \A j \in 1..(k - 1) : Passed(d, j)

(* Exit code 0 of an unattended run without --continue-on-error means that   *)
(* all that the files of the directory leave is in the database (lines 71,   *)
(* 88, 92, 94).                                                              *)
SuccessMeansApplied ==
    \A c \in Client :
        (exit[c] = "0" /\ Unattended(c) /\ ~opts[c].cont) =>
            \A j \in DOMAIN Files(c) : Passed(opts[c].dir, j)

(* A run that reports "aborted, rolled back." (ApplyMetaStructure.cpp:69)    *)
(* leaves nothing of its directory in the database that was not there when   *)
(* it connected.                                                             *)
RolledBackMeansUndone ==
    \A c \in Client : said[c] =>
        \A j \in DOMAIN Files(c) :
            Touched(opts[c].dir, j) => Effects(Files(c)[j]) \cap base[c] # {}

(* Every run ends, whatever is lost and whoever else works on the database:  *)
(* no run waits for ever for a lock, a reply or its own catch clause.        *)
RunsEnd == \A c \in Client : pc[c] # "done" ~> pc[c] = "done"

\* The stages that a run still has before it: ten for each file, and a few after
\* the last one.
Ahead(c) ==
    LET files == 10 * (Len(Files(c)) + 1 - i[c])
    IN CASE pc[c] = "connect" -> files + 11
         [] pc[c] = "open" -> files + 10
         [] pc[c] = "opening" -> files + (IF Single(c) THEN 9 ELSE 7)
         [] pc[c] = "loop" -> files + 8
         [] pc[c] = "file" -> files + 6
         [] pc[c] = "running" -> files + 5
         [] pc[c] = "settle" -> files + 4
         [] pc[c] = "settling" -> files + 3
         [] pc[c] = "catching" -> IF Single(c) THEN 1 ELSE files + 2
         [] pc[c] = "end" -> 5
         [] pc[c] = "ending" -> 4
         [] OTHER -> 0

\* The process stays where it is, with a call that goes forward, or passes a stage.
Advances(c) ==
    /\ pc'[c] # "gate"
    /\ \/ pc'[c] = pc[c] /\ i'[c] = i[c] /\ Onward(c)
       \/ Ahead(c)' \in 0 .. Ahead(c) - 1

(* A run never goes back: it comes to each file and each of its control        *)
(* statements at most once, in the order of the directory, and no catch clause *)
(* sends anything again (ApplyMetaStructure.cpp:60-92); so only a wait for the *)
(* server can keep it from its end.                                            *)
RunsGoForward == [][\A c \in Client : pc[c] \notin {"gate", "done"} => Advances(c)]_vars

\* The process is between two calls and finds there what its next step needs: the
\* executor it sends with, or an answer that the code has a branch for.
CanGoOn(c) ==
    /\ phase[c] = "idle"
    /\ pc[c] = "connect" => conn[c] = "none"
    /\ pc[c] \in {"open", "loop", "file", "settle", "end"} => conn[c] # "none"
    /\ pc[c] \in {"opening", "running", "settling", "ending", "catching"} =>
           outcome[c] \in {"ok", "error"}

(* The commands never come to a standstill: as long as a run has not ended,    *)
(* some run can go on by itself, a call of some run waits for no lock, or a    *)
(* COMMIT in doubt is still to be decided.  The blocks that the tx-modes open  *)
(* by exec("BEGIN") keep no lock from one exec to the next, for the work of    *)
(* each exec ends them (PgExecutor.cpp:132-137), so two runs that have their   *)
(* directories crosswise do not wait for each other.                           *)
RunsNotStuck ==
    (\E c \in Client : pc[c] # "done")
        => \/ orphan # {}
           \/ \E c \in Client : pc[c] # "done" /\ (CanGoOn(c) \/ (phase[c] # "idle" /\ ~Blocked(c)))

\* A directory of plain files whose statements can be repeated, each after those
\* it needs.
Repeatable(d) ==
    \A j \in DOMAIN Dir[d] :
        /\ HasText(d, j)
        /\ Plain(Dir[d][j])
        /\ Effects(Dir[d][j]) \cap (Bad \cup Once \cup Outside) = {}
        /\ \A x \in Effects(Dir[d][j]) :
               Needs[x] \subseteq UNION {Effects(Dir[d][k]) : k \in 1..(j - 1)}

(* Once the faults are over, running the command again is a remedy: an       *)
(* unattended run started then succeeds with all files applied, from         *)
(* whatever the failed runs before it left behind, if its files can be       *)
(* repeated.                                                                 *)
RerunRepairs ==
    \A c \in Client :
        (pc[c] = "gate" /\ ~CanFault /\ Valid(c) /\ Unattended(c) /\ Repeatable(opts[c].dir)) ~>
            (exit[c] = "0" /\ \A j \in DOMAIN Files(c) : Applied(opts[c].dir, j))
=============================================================================
