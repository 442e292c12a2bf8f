----------------------------- MODULE ApplyProofs -----------------------------
(***************************************************************************)
(* Proofs about ApplyMeta, for any number of processes, any directories of  *)
(* files that share no statement, any options, faults and reruns.           *)
(*                                                                         *)
(* The inductive invariant AMInv joins three facts: where a process is in    *)
(* the command and what it has sent (Ctl), what the files behind it have     *)
(* left in the database (Behind), and what the changes in the database and   *)
(* the COMMITs in doubt can be (FilesInv, OrphanInv): whole plain files, or  *)
(* parts of one that ends transactions itself, each after the files before   *)
(* it when everybody stops at errors.                                       *)
(***************************************************************************)
EXTENDS ApplyRefinement, PgProofs

Calling == {"opening", "running", "settling", "ending", "catching"}
InLoop == {"open", "opening", "loop", "file", "running", "settle", "settling"}
OneFile == {"file", "running", "settle", "settling"}

ControlTexts == {<<"begin">>, <<"commit">>, <<"rollback">>}

\* All files of the directory, or all before position k, have been passed.
Before(d, k) == \A j \in 1..(k - 1) : Passed(d, j)
AllIn(d) == \A j \in DOMAIN Dir[d] : Passed(d, j)

\* Where the process is, and what it has sent.
Ctl(c) ==
    /\ phase[c] # "idle" => pc[c] \in Calling
    /\ pc[c] \in {"gate", "connect", "done"} => conn[c] = "none"
    /\ pc[c] \in {"gate", "connect"} => i[c] = 1 /\ ~failed[c]
    /\ (pc[c] = "done") <=> (exit[c] # "none")
    /\ pc[c] \notin {"gate", "done"} => opts[c].dir \in DOMAIN Dir /\ opts[c].mode \in Modes
    /\ pc[c] = "open" => Single(c)
    /\ pc[c] \in OneFile => i[c] \in DOMAIN Files(c)
    /\ (pc[c] = "opening" /\ ~Single(c)) => i[c] \in DOMAIN Files(c)
    /\ IF pc[c] = "running"
       THEN HasText(opts[c].dir, i[c]) /\ script[c] = Content(c)
       ELSE pc[c] \in Calling => script[c] \in ControlTexts

\* What a process that stops at errors knows of the files behind it.
Behind(c) ==
    ~opts[c].cont =>
        /\ pc[c] \in InLoop => ~failed[c] /\ Before(opts[c].dir, i[c])
        /\ (pc[c] \in {"settle", "settling"} /\ fileOk[c]) => Passed(opts[c].dir, i[c])
        /\ pc[c] = "end" => failed[c]
        /\ (pc[c] = "ending" /\ ~failed[c]) => AllIn(opts[c].dir)
        /\ (exit[c] = "0" /\ Unattended(c)) => AllIn(opts[c].dir)

\* Changes that may enter the database together: of one file, and all of it when
\* it is plain.
Legit(p) ==
    \/ p = {}
    \/ \E f \in Places : /\ HasText(f[1], f[2])
                         /\ p \subseteq Effects(Dir[f[1]][f[2]])
                         /\ Plain(Dir[f[1]][f[2]]) => p = Effects(Dir[f[1]][f[2]])
                         /\ StrictDir(f[1]) => Before(f[1], f[2])

OrphanInv == \A p \in orphan : Legit(p)

\* A plain file is there as a whole.
Whole(d, j) == HasText(d, j) /\ (Plain(Dir[d][j]) => Applied(d, j))

FilesInv == \A f \in Places :
                Touched(f[1], f[2]) => /\ Whole(f[1], f[2])
                                       /\ StrictDir(f[1]) => Before(f[1], f[2])

AMInv == /\ TypeOK
         /\ PgInv
         /\ \A c \in Client : Ctl(c) /\ Behind(c)
         /\ OrphanInv
         /\ FilesInv

-----------------------------------------------------------------------------
\* The fields of an option record.
LEMMA OptionFields ==
    ASSUME TypeOK, NEW c \in Client
    PROVE  /\ opts[c].mode \in Modes \cup {"other"}
           /\ opts[c].dir \in DOMAIN Dir \cup {"absent"}
           /\ opts[c].cont \in BOOLEAN /\ opts[c].dry \in BOOLEAN
           /\ opts[c].force \in BOOLEAN /\ opts[c].yes \in BOOLEAN
BY OptionsAssumption DEF TypeOK

\* A file that can be read is one of the texts and has a place.
LEMMA FileText ==
    ASSUME NEW d \in DOMAIN Dir, NEW j \in DOMAIN Dir[d], HasText(d, j)
    PROVE  Dir[d][j] \in Texts /\ <<d, j>> \in Places
<1>1. Dir[d][j] \in Texts
  BY DirAssumption DEF HasText, Texts
<1>2. <<d, j>> \in Places
  BY DEF Places
<1> QED
  BY <1>1, <1>2

\* The control statements that the commands send change nothing themselves.
LEMMA ControlText ==
    ASSUME NEW text \in ControlTexts
    PROVE  text \in Texts /\ Pure(text) /\ Effects(text) = {}
<1>1. PICK x \in Control : text = <<x>>
  BY DEF ControlTexts, Control
<1>2. text \in Texts
  BY <1>1 DEF Texts
<1>3. Pure(text) /\ Effects(text) = {}
  BY <1>1, StmtAssumption DEF Pure, Effects
<1> QED
  BY <1>2, <1>3

(* What is under execution is one of the files or a control statement.      *)
LEMMA SentText ==
    ASSUME TypeOK, NEW c \in Client, Ctl(c), pc[c] \in Calling
    PROVE  \/ /\ pc[c] = "running"
              /\ opts[c].dir \in DOMAIN Dir /\ i[c] \in DOMAIN Dir[opts[c].dir]
              /\ HasText(opts[c].dir, i[c])
              /\ script[c] = Dir[opts[c].dir][i[c]]
           \/ /\ pc[c] # "running"
              /\ script[c] \in ControlTexts
BY DEF Ctl, OneFile, Files, Content

\* What a plain file leaves is all of it.
LEMMA PassedIsApplied ==
    ASSUME NEW d \in DOMAIN Dir, NEW j \in DOMAIN Dir[d], Passed(d, j), Plain(Dir[d][j])
    PROVE  Applied(d, j)
BY FileText, PlainLasts DEF Passed, Applied

(* What a session may publish is a legitimate change: all of a plain text,   *)
(* once it has run to its end, and any part of another.                      *)
LEMMA PendLegit ==
    ASSUME AMInv, NEW c \in Client, phase[c] \in {"run", "commit"},
           Plain(script[c]) => phase[c] = "commit"
    PROVE  Legit(pend[c])
<1>1. TypeOK /\ Ctl(c) /\ Behind(c) /\ ClientInv(c)
  BY DEF AMInv, PgInv
<1>2. pc[c] \in Calling
  BY <1>1 DEF Ctl
<1>3. pend[c] \subseteq Effects(script[c])
  BY <1>1 DEF ClientInv, Owns
<1>4. CASE pc[c] = "running"
  <2> DEFINE f == <<opts[c].dir, i[c]>>
  <2>1. opts[c].dir \in DOMAIN Dir /\ i[c] \in DOMAIN Dir[opts[c].dir]
        /\ HasText(opts[c].dir, i[c]) /\ script[c] = Dir[opts[c].dir][i[c]]
    BY <1>1, <1>2, <1>4, SentText
  <2>2. f \in Places /\ f[1] = opts[c].dir /\ f[2] = i[c]
    BY <2>1, FileText
  <2>3. StrictDir(f[1]) => Before(f[1], f[2])
    BY <1>1, <1>4, <2>2 DEF StrictDir, Behind, InLoop
  <2>4. Plain(script[c]) => pend[c] = Effects(script[c])
    BY <1>1 DEF ClientInv, InText, Pure
  <2> QED
    BY <1>3, <2>1, <2>2, <2>3, <2>4 DEF Legit
<1>5. CASE pc[c] # "running"
  <2>1. Effects(script[c]) = {}
    BY <1>1, <1>2, <1>5, SentText, ControlText
  <2> QED
    BY <1>3, <2>1 DEF Legit
<1> QED
  BY <1>4, <1>5

(* More in the database keeps a legitimate change legitimate.               *)
LEMMA LegitStays ==
    ASSUME NEW p, Legit(p), db \subseteq db', opts' = opts
    PROVE  Legit(p)'
BY DEF Legit, StrictDir, Before, Passed, Applied, HasText

(* A legitimate change keeps FilesInv: it is of one file, all of it when that *)
(* is plain, and no other file shares a statement with it.                   *)
LEMMA FilesStay ==
    ASSUME FilesInv, NEW p, Legit(p), db' = db \cup p, opts' = opts
    PROVE  FilesInv'
<1> SUFFICES ASSUME NEW g \in Places, Touched(g[1], g[2])'
             PROVE  Whole(g[1], g[2])' /\ (StrictDir(g[1]) => Before(g[1], g[2]))'
  BY DEF FilesInv
<1>1. CASE Touched(g[1], g[2])
  BY <1>1 DEF FilesInv, Whole, Passed, Applied, Before, StrictDir, HasText
<1>2. CASE ~Touched(g[1], g[2])
  <2>1. HasText(g[1], g[2]) /\ Effects(Dir[g[1]][g[2]]) \cap p # {}
    BY <1>2 DEF Touched, HasText
  <2>2. PICK f \in Places : /\ HasText(f[1], f[2])
                            /\ p \subseteq Effects(Dir[f[1]][f[2]])
                            /\ Plain(Dir[f[1]][f[2]]) => p = Effects(Dir[f[1]][f[2]])
                            /\ StrictDir(f[1]) => Before(f[1], f[2])
    BY <2>1 DEF Legit
  <2>3. f = g
    BY <2>1, <2>2, SeparateAssumption DEF SeparateFiles
  <2> QED
    BY <2>2, <2>3 DEF Whole, Passed, Applied, Before, StrictDir, HasText
<1> QED
  BY <1>1, <1>2

(* A process is not disturbed by steps of others.                           *)
LEMMA OtherProcess ==
    ASSUME NEW d \in Client, Ctl(d), Behind(d), db \subseteq db', opts' = opts,
           conn'[d] = conn[d], phase'[d] = phase[d], script'[d] = script[d],
           pc'[d] = pc[d], i'[d] = i[d], fileOk'[d] = fileOk[d],
           failed'[d] = failed[d], exit'[d] = exit[d]
    PROVE  Ctl(d)' /\ Behind(d)'
<1>1. Ctl(d)'
  BY DEF Ctl, Files, Content, Single, HasText
<1>2. Behind(d)'
  BY DEF Behind, Before, AllIn, Passed, Applied, HasText, Unattended
<1> QED
  BY <1>1, <1>2

-----------------------------------------------------------------------------
(* What a step of the dialogue or a fault does to the durable state.        *)
LEMMA SessionChanges ==
    ASSUME AMInv, NEW c \in Client, Dialogue(c) \/ SessionFault(c)
    PROVE  /\ \E p : Legit(p) /\ db' = db \cup p
           /\ \A q \in orphan' : q \in orphan \/ Legit(q)
           /\ phase[c] # "idle"
           /\ script' = script
           /\ conn'[c] = conn[c] \/ pc[c] \in Calling
           /\ \A d \in Client \ {c} : conn'[d] = conn[d] /\ phase'[d] = phase[d]
<1>1. PgTypeOK /\ TypeOK /\ ClientInv(c) /\ Ctl(c)
  BY DEF AMInv, PgInv
<1>2. phase[c] # "idle" /\ script' = script
  BY DEF Dialogue, SessionFault, Begin, RunStmt, RunBegin, RunEnd, Reject, Victim,
     InCircle, WaitsFor, EndScript, Commit, Reply, Abort, GiveUp, CommitReject, Lose, EndSession,
     FailBlock, Running
<1>3. conn'[c] = conn[c] \/ pc[c] \in Calling
  BY <1>1, <1>2 DEF Ctl
<1>4. ASSUME NEW d \in Client \ {c} PROVE conn'[d] = conn[d] /\ phase'[d] = phase[d]
  BY <1>1 DEF PgTypeOK, Dialogue, SessionFault, Begin, RunStmt, RunBegin, RunEnd, Reject,
         Victim, EndScript, Commit, Reply, Abort, GiveUp, CommitReject, Lose, EndSession,
         FailBlock, serverVars
<1>5. \A q \in orphan' : q \in orphan \/ Legit(q)
  <2>1. orphan' = orphan \/ (phase[c] = "commit" /\ orphan' = orphan \cup {pend[c]})
    BY DEF Dialogue, SessionFault, Begin, RunStmt, RunBegin, RunEnd, Reject, Victim,
         EndScript, Commit, Reply, Abort, GiveUp, CommitReject, Lose, EndSession, FailBlock,
         serverVars
  <2> QED
    BY <2>1, PendLegit
<1>6. \E p : Legit(p) /\ db' = db \cup p
  <2>1. CASE Commit(c)
    BY <2>1, PendLegit DEF Commit
  <2>2. ASSUME db' = db PROVE \E p : Legit(p) /\ db' = db \cup p
    <3>1. Legit({}) /\ db' = db \cup {}
      BY <2>2 DEF Legit
    <3> QED
      BY <3>1
  <2>3. CASE RunEnd(c)
    <3>1. phase[c] = "run" /\ at[c] \in DOMAIN script[c] /\ script[c][at[c]] \in Control
      BY <1>1, <2>3 DEF RunEnd, Running, Current, PgTypeOK, Control
    <3>2. ~Plain(script[c])
      BY <3>1, StmtAssumption DEF Plain
    <3>3. Legit(pend[c])
      BY <3>1, <3>2, PendLegit
    <3> QED
      BY <2>2, <2>3, <3>3 DEF RunEnd
  <2>4. CASE EndScript(c)
    <3>1. CASE block[c] = "implicit"
      <4>1. phase[c] = "run" /\ ~Plain(script[c])
        BY <1>1, <2>4, <3>1 DEF EndScript, ClientInv, InText, Pure
      <4>2. Legit(pend[c])
        BY <4>1, PendLegit
      <4> QED
        BY <2>4, <3>1, <4>2 DEF EndScript
    <3>2. CASE block[c] # "implicit"
      BY <2>2, <2>4, <3>2 DEF EndScript
    <3> QED
      BY <3>1, <3>2
  <2>5. CASE ~(Commit(c) \/ RunEnd(c) \/ EndScript(c))
    <3>1. db' = db
      BY <2>5 DEF Dialogue, SessionFault, Begin, RunStmt, RunBegin, Reject, Victim,
         Reply, Abort, GiveUp, CommitReject, Lose, EndSession, FailBlock, serverVars
    <3> QED
      BY <2>2, <3>1
  <2> QED
    BY <2>1, <2>3, <2>4, <2>5
<1> QED
  BY <1>2, <1>3, <1>4, <1>5, <1>6

\* A step of the dialogue only brings in whole files (SessionChanges).
LEMMA SessionKeeps ==
    ASSUME AMInv, NEW c \in Client, Session(c)
    PROVE  AMInv'
<1>1. UNCHANGED amVars /\ (Dialogue(c) \/ SessionFault(c))
  BY DEF Session
<1>2. PgInv'
  <2>1. [NextWith(Texts)]_pgVars
    BY <1>1 DEF NextWith
  <2> QED
    BY <2>1, StepKeeps DEF AMInv
<1>3. TypeOK'
  BY <1>1, <1>2 DEF AMInv, TypeOK, PgInv, amVars
<1>4. PICK p : Legit(p) /\ db' = db \cup p
  BY <1>1, SessionChanges
<1>5. FilesInv'
  BY <1>1, <1>4, FilesStay DEF AMInv, amVars
<1>6. OrphanInv'
  BY <1>1, <1>4, SessionChanges, LegitStays DEF AMInv, OrphanInv, amVars
<1>7. ASSUME NEW d \in Client, d # c PROVE Ctl(d)' /\ Behind(d)'
  BY <1>1, <1>4, <1>7, SessionChanges, OtherProcess DEF AMInv, amVars
<1>8. Behind(c)'
  BY <1>1, <1>4 DEF AMInv, amVars, Behind, Before, AllIn, Passed, Applied, HasText,
     Unattended
<1>9. Ctl(c)'
  <2>1. Ctl(c) /\ pc[c] \in Calling /\ script' = script
    BY <1>1, SessionChanges DEF AMInv, Ctl
  <2> QED
    BY <1>1, <2>1 DEF Ctl, amVars, Calling, Files, Content, Single, HasText
<1> QED
  BY <1>2, <1>3, <1>5, <1>6, <1>7, <1>8, <1>9 DEF AMInv

\* A COMMIT in doubt brings in a whole file, or nothing.
LEMMA ServerKeeps == ASSUME AMInv, Server PROVE AMInv'
<1>1. UNCHANGED amVars /\ UNCHANGED clientVars /\ (Land \/ Drop)
  BY DEF Server, Land, Drop
<1>2. PgInv'
  BY <1>1, SettleKeeps DEF AMInv
<1>3. TypeOK'
  BY <1>1, <1>2 DEF AMInv, TypeOK, PgInv, amVars
<1>4. PICK p : Legit(p) /\ db' = db \cup p
  <2>1. Legit({})
    BY DEF Legit
  <2>2. CASE Drop
    BY <2>1, <2>2 DEF Drop
  <2>3. CASE Land
    BY <2>3 DEF Land, AMInv, OrphanInv
  <2> QED
    BY <1>1, <2>2, <2>3
<1>5. FilesInv'
  BY <1>1, <1>4, FilesStay DEF AMInv, amVars
<1>6. OrphanInv'
  <2>1. orphan' \subseteq orphan
    BY <1>1 DEF Land, Drop
  <2> QED
    BY <1>1, <1>4, <2>1, LegitStays DEF AMInv, OrphanInv, amVars
<1>7. ASSUME NEW d \in Client PROVE Ctl(d)' /\ Behind(d)'
  BY <1>1, <1>4, OtherProcess DEF AMInv, amVars, clientVars
<1> QED
  BY <1>2, <1>3, <1>5, <1>6, <1>7 DEF AMInv

-----------------------------------------------------------------------------
(* The variables of the command, typed.                                     *)
CommandTypes == /\ pc \in [Client -> Labels]
                /\ i \in [Client -> Nat \ {0}]
                /\ fileOk \in [Client -> BOOLEAN]
                /\ failed \in [Client -> BOOLEAN]
                /\ exit \in [Client -> {"none", "0", "1", "2", "killed"}]
                /\ said \in [Client -> BOOLEAN]
                /\ base \in [Client -> SUBSET Stmt]
                /\ runs \in [Client -> Nat]

\* Nothing of process d changes.
Same(d) == /\ conn'[d] = conn[d] /\ phase'[d] = phase[d] /\ script'[d] = script[d]
           /\ pc'[d] = pc[d] /\ i'[d] = i[d] /\ fileOk'[d] = fileOk[d]
           /\ failed'[d] = failed[d] /\ exit'[d] = exit[d]

\* A step of process c that the database does not see.
Inside(c) == /\ [NextWith(Texts)]_pgVars
             /\ UNCHANGED <<db, orphan, opts>>
             /\ CommandTypes'
             /\ \A d \in Client \ {c} : Same(d)

(* Such a step need only be checked for the process that takes it.          *)
LEMMA OwnStep ==
    ASSUME AMInv, NEW c \in Client, Inside(c), Ctl(c)', Behind(c)'
    PROVE  AMInv'
<1>1. PgInv'
  BY StepKeeps DEF AMInv, Inside
<1>2. TypeOK'
  BY <1>1 DEF AMInv, TypeOK, PgInv, CommandTypes, Inside
<1>3. ASSUME NEW d \in Client, d # c PROVE Ctl(d)' /\ Behind(d)'
  BY <1>3, OtherProcess DEF AMInv, Same, Inside
<1>4. FilesInv' /\ OrphanInv'
  BY DEF AMInv, FilesInv, OrphanInv, Legit, Touched, Whole, Passed, Applied, StrictDir, Before,
     HasText, Inside
<1> QED
  BY <1>1, <1>2, <1>3, <1>4 DEF AMInv

(* An exec by the command, as a step of the executor.                       *)
LEMMA ExecIsNext ==
    ASSUME NEW c \in Client, NEW text \in Texts, Exec(c, text)
    PROVE  /\ [NextWith(Texts)]_pgVars
           /\ UNCHANGED <<db, orphan, conn>>
           /\ script' = [script EXCEPT ![c] = text]
           /\ conn[c] # "none"
           /\ phase' = phase \/ phase' = [phase EXCEPT ![c] = "begin"]
BY DEF NextWith, Exec, Call, Refuse, serverVars

\* What AMInv says of one process.
LEMMA TypesOf ==
    ASSUME AMInv, NEW c \in Client
    PROVE  /\ CommandTypes /\ PgTypeOK /\ TypeOK
           /\ Ctl(c) /\ Behind(c) /\ ClientInv(c)
BY DEF AMInv, TypeOK, CommandTypes, PgInv

(* The positions of a directory.                                            *)
LEMMA Positions ==
    ASSUME TypeOK, NEW c \in Client, opts[c].dir \in DOMAIN Dir
    PROVE  /\ Len(Files(c)) \in Nat
           /\ DOMAIN Files(c) = 1..Len(Files(c))
BY DirAssumption DEF Files

(* The end of the loop body: the next file is the next one, unless this one  *)
(* failed and the process stops at errors.                                  *)
LEMMA ContinueStep ==
    ASSUME AMInv, NEW c \in Client, NEW ok \in BOOLEAN, Continue(c, ok),
           UNCHANGED <<pgVars, opts, exit, said, base, runs>>,
           fileOk' \in [Client -> BOOLEAN],
           \A d \in Client \ {c} : fileOk'[d] = fileOk[d],
           pc[c] \notin {"gate", "connect", "done"}, phase[c] = "idle",
           (ok /\ ~opts[c].cont) => /\ ~failed[c]
                                    /\ Before(opts[c].dir, i[c])
                                    /\ Passed(opts[c].dir, i[c])
    PROVE  AMInv'
<1>1. /\ CommandTypes /\ PgTypeOK /\ TypeOK
      /\ Ctl(c) /\ Behind(c) /\ ClientInv(c)
  BY TypesOf
<1>2. [NextWith(Texts)]_pgVars /\ UNCHANGED <<db, orphan, conn, phase, script>>
  BY DEF pgVars, clientVars, serverVars
<1>3. CASE ok \/ opts[c].cont
  <2>1. /\ failed' = [failed EXCEPT ![c] = @ \/ ~ok]
        /\ i' = [i EXCEPT ![c] = @ + 1]
        /\ pc' = [pc EXCEPT ![c] = "loop"]
    BY <1>3 DEF Continue, GoTo
  <2>2. failed' \in [Client -> BOOLEAN] /\ i' \in [Client -> Nat \ {0}]
    BY <1>1, <2>1 DEF CommandTypes
  <2>3. Inside(c)
    BY <1>1, <1>2, <2>1, <2>2 DEF Inside, Same, CommandTypes, Labels
  <2>4. Ctl(c)'
    BY <1>1, <1>2, <2>1 DEF Ctl, Calling, OneFile, Single, CommandTypes, PgTypeOK
  <2>5. ASSUME ~opts[c].cont PROVE ~failed'[c] /\ Before(opts[c].dir, i[c] + 1)
    <3>1. ok /\ ~failed[c] /\ Before(opts[c].dir, i[c]) /\ Passed(opts[c].dir, i[c])
      BY <1>3, <2>5
    <3>2. \A j \in 1..((i[c] + 1) - 1) : j \in 1..(i[c] - 1) \/ j = i[c]
      BY <1>1 DEF CommandTypes
    <3>3. ~failed'[c]
      BY <1>1, <2>1, <3>1 DEF CommandTypes
    <3> QED
      BY <3>1, <3>2, <3>3 DEF Before
  <2>6. Behind(c)'
    BY <1>1, <1>2, <2>1, <2>5 DEF Behind, InLoop, Before, AllIn, Passed, Applied, HasText,
                                  Unattended, CommandTypes, Ctl
  <2> QED
    BY <2>3, <2>4, <2>6, OwnStep
<1>4. CASE ~ok /\ ~opts[c].cont
  <2>1. /\ failed' = [failed EXCEPT ![c] = TRUE]
        /\ i' = i
        /\ pc' = [pc EXCEPT ![c] = "end"]
    BY <1>4 DEF Continue, GoTo
  <2>2. Inside(c)
    BY <1>1, <1>2, <2>1 DEF Inside, Same, CommandTypes, Labels
  <2>3. Ctl(c)'
    BY <1>1, <1>2, <2>1 DEF Ctl, Calling, OneFile, Single, CommandTypes, PgTypeOK
  <2>4. Behind(c)'
    BY <1>1, <1>2, <2>1 DEF Behind, InLoop, CommandTypes, Ctl
  <2> QED
    BY <2>2, <2>3, <2>4, OwnStep
<1> QED
  BY <1>3, <1>4, OptionFields, <1>1

(* run_file has returned ok.                                                *)
LEMMA AfterFileStep ==
    ASSUME AMInv, NEW c \in Client, NEW ok \in BOOLEAN, AfterFile(c, ok),
           UNCHANGED <<pgVars, opts, exit, said, base, runs>>,
           pc[c] \in {"file", "running"}, phase[c] = "idle",
           (ok /\ ~opts[c].cont) => Passed(opts[c].dir, i[c])
    PROVE  AMInv'
<1>1. /\ CommandTypes /\ PgTypeOK /\ TypeOK
      /\ Ctl(c) /\ Behind(c) /\ ClientInv(c)
  BY TypesOf
<1>2. [NextWith(Texts)]_pgVars /\ UNCHANGED <<db, orphan, conn, phase, script>>
  BY DEF pgVars, clientVars, serverVars
<1>3. fileOk' = [fileOk EXCEPT ![c] = ok]
  BY DEF AfterFile
<1>4. CASE PerFile(c)
  <2>1. pc' = [pc EXCEPT ![c] = "settle"] /\ i' = i /\ failed' = failed
    BY <1>4 DEF AfterFile, GoTo
  <2>2. Inside(c)
    BY <1>1, <1>2, <1>3, <2>1 DEF Inside, Same, CommandTypes, Labels
  <2>3. Ctl(c)'
    BY <1>1, <1>2, <2>1 DEF Ctl, Calling, OneFile, Files, CommandTypes, PgTypeOK
  <2>4. Behind(c)'
    BY <1>1, <1>2, <1>3, <2>1 DEF Behind, InLoop, Before, Passed, Applied, HasText,
       CommandTypes, Ctl
  <2> QED
    BY <2>2, <2>3, <2>4, OwnStep
<1>5. CASE ~PerFile(c)
  <2>1. Continue(c, ok)
    BY <1>5 DEF AfterFile
  <2>2. ~opts[c].cont => ~failed[c] /\ Before(opts[c].dir, i[c])
    BY <1>1 DEF Behind, InLoop
  <2>3. fileOk' \in [Client -> BOOLEAN] /\ \A d \in Client \ {c} : fileOk'[d] = fileOk[d]
    BY <1>1, <1>3 DEF CommandTypes
  <2> QED
    BY <2>1, <2>2, <2>3, ContinueStep
<1> QED
  BY <1>4, <1>5

\* Exit 2 before anything was sent.
LEMMA UsageKeeps ==
    ASSUME AMInv, NEW c \in Client, Usage(c)
    PROVE  AMInv'
<1>1. /\ CommandTypes /\ PgTypeOK /\ TypeOK
      /\ Ctl(c) /\ Behind(c) /\ ClientInv(c)
  BY TypesOf
<1>2. /\ [NextWith(Texts)]_pgVars
      /\ UNCHANGED <<db, orphan, phase, script>>
      /\ conn' = [conn EXCEPT ![c] = "none"]
      /\ phase[c] = "idle"
  BY DEF Usage, Exit, Disconnect, NextWith, serverVars
<1>3. Inside(c)
  BY <1>1, <1>2 DEF Inside, Same, CommandTypes, PgTypeOK, Labels, Usage, GoTo, Exit
<1>4. Ctl(c)'
  BY <1>1, <1>2, OptionFields, Positions DEF Ctl, Calling, OneFile, Single, Files,
     Content, HasText, Modes, CommandTypes, PgTypeOK, Usage, GoTo, Exit
<1>5. Behind(c)'
  BY <1>1, <1>2, OptionFields, Positions DEF Behind, Before, AllIn, Passed, Applied,
     HasText, Unattended, InLoop, CommandTypes, PgTypeOK, Usage, GoTo, Exit
<1> QED
  BY <1>3, <1>4, <1>5, OwnStep

\* Exit 0 before anything was sent: no attended run counts.
LEMMA DeclineKeeps ==
    ASSUME AMInv, NEW c \in Client, Decline(c)
    PROVE  AMInv'
<1>1. /\ CommandTypes /\ PgTypeOK /\ TypeOK
      /\ Ctl(c) /\ Behind(c) /\ ClientInv(c)
  BY TypesOf
<1>2. /\ [NextWith(Texts)]_pgVars
      /\ UNCHANGED <<db, orphan, phase, script>>
      /\ conn' = [conn EXCEPT ![c] = "none"]
      /\ phase[c] = "idle"
  BY DEF Decline, Exit, Disconnect, NextWith, serverVars
<1>3. Inside(c)
  BY <1>1, <1>2 DEF Inside, Same, CommandTypes, PgTypeOK, Labels, Decline, GoTo, Exit
<1>4. Ctl(c)'
  BY <1>1, <1>2, OptionFields, Positions DEF Ctl, Calling, OneFile, Single, Files,
     Content, HasText, Modes, Valid, CommandTypes, PgTypeOK, Decline, GoTo, Exit
<1>5. Behind(c)'
  BY <1>1, <1>2, OptionFields, Positions DEF Behind, Before, AllIn, Passed, Applied,
     HasText, Unattended, InLoop, Files, CommandTypes, PgTypeOK, Decline, GoTo, Exit
<1> QED
  BY <1>3, <1>4, <1>5, OwnStep

\* Past the gate.
LEMMA ProceedKeeps ==
    ASSUME AMInv, NEW c \in Client, Proceed(c)
    PROVE  AMInv'
<1>1. /\ CommandTypes /\ PgTypeOK /\ TypeOK
      /\ Ctl(c) /\ Behind(c) /\ ClientInv(c)
  BY TypesOf
<1>2. [NextWith(Texts)]_pgVars /\ UNCHANGED <<db, orphan, conn, phase, script>>
  BY DEF Proceed, pgVars, clientVars, serverVars
<1>3. Inside(c)
  BY <1>1, <1>2 DEF Inside, Same, CommandTypes, PgTypeOK, Labels, Proceed, GoTo
<1>4. Ctl(c)'
  BY <1>1, <1>2, OptionFields, Positions DEF Ctl, Calling, OneFile, Single, Files,
     Content, HasText, Modes, Valid, CommandTypes, PgTypeOK, Proceed, GoTo
<1>5. Behind(c)'
  BY <1>1, <1>2, OptionFields, Positions DEF Behind, Before, AllIn, Passed, Applied,
     HasText, Unattended, InLoop, Files, CommandTypes, PgTypeOK, Proceed, GoTo
<1> QED
  BY <1>3, <1>4, <1>5, OwnStep

\* The constructor of PgExecutor, at the first file.
LEMMA OpenKeeps ==
    ASSUME AMInv, NEW c \in Client, Open(c)
    PROVE  AMInv'
<1>1. /\ CommandTypes /\ PgTypeOK /\ TypeOK
      /\ Ctl(c) /\ Behind(c) /\ ClientInv(c)
  BY TypesOf
<1>2. /\ [NextWith(Texts)]_pgVars
      /\ UNCHANGED <<db, orphan, phase, script>>
      /\ conn' = [conn EXCEPT ![c] = "open"]
  BY DEF Open, Connect, NextWith, serverVars
<1>3. Inside(c)
  BY <1>1, <1>2 DEF Inside, Same, CommandTypes, PgTypeOK, Labels, Open, GoTo
<1>4. Ctl(c)'
  BY <1>1, <1>2, OptionFields, Positions DEF Ctl, Calling, OneFile, Single, Files,
     Content, HasText, Modes, CommandTypes, PgTypeOK, Open, GoTo
<1>5. Behind(c)'
  <2>1. /\ UNCHANGED <<i, failed, exit>>
        /\ i[c] = 1 /\ ~failed[c] /\ exit[c] = "none"
    BY <1>1 DEF Open, Ctl
  <2>2. pc'[c] \in {"open", "loop"} /\ opts' = opts
    BY <1>1 DEF Open, GoTo, CommandTypes
  <2>3. Before(opts[c].dir, 1)'
    BY DEF Before
  <2> QED
    BY <2>1, <2>2, <2>3 DEF Behind, InLoop
<1> QED
  BY <1>3, <1>4, <1>5, OwnStep

\* The constructor throws: the process is gone.
LEMMA OpenFailsKeeps ==
    ASSUME AMInv, NEW c \in Client, OpenFails(c)
    PROVE  AMInv'
<1>1. /\ CommandTypes /\ PgTypeOK /\ TypeOK
      /\ Ctl(c) /\ Behind(c) /\ ClientInv(c)
  BY TypesOf
<1>2. [NextWith(Texts)]_pgVars /\ UNCHANGED <<db, orphan, conn, phase, script>>
  BY DEF OpenFails, ConnectFails, NextWith, clientVars, serverVars
<1>3. Inside(c)
  BY <1>1, <1>2 DEF Inside, Same, CommandTypes, PgTypeOK, Labels, OpenFails, GoTo
<1>4. Ctl(c)'
  BY <1>1, <1>2, OptionFields, Positions DEF Ctl, Calling, OneFile, Single, Files,
     Content, HasText, Modes, CommandTypes, PgTypeOK, OpenFails, GoTo
<1>5. Behind(c)'
  BY <1>1, <1>2, OptionFields, Positions DEF Behind, Before, AllIn, Passed, Applied,
     HasText, Unattended, InLoop, CommandTypes, PgTypeOK, OpenFails, GoTo
<1> QED
  BY <1>3, <1>4, <1>5, OwnStep

\* exec("begin;") is a control text.
LEMMA SendBeginKeeps ==
    ASSUME AMInv, NEW c \in Client, SendBegin(c)
    PROVE  AMInv'
<1>1. /\ CommandTypes /\ PgTypeOK /\ TypeOK
      /\ Ctl(c) /\ Behind(c) /\ ClientInv(c)
  BY TypesOf
<1>2. /\ [NextWith(Texts)]_pgVars
      /\ UNCHANGED <<db, orphan, conn>>
      /\ \E text \in ControlTexts : script' = [script EXCEPT ![c] = text]
      /\ conn[c] # "none"
      /\ phase' = phase \/ phase' = [phase EXCEPT ![c] = "begin"]
  BY ExecIsNext, ControlText DEF SendBegin, ExecThen, ControlTexts
<1>3. Inside(c)
  BY <1>1, <1>2 DEF Inside, Same, CommandTypes, PgTypeOK, Labels, SendBegin, GoTo,
     ExecThen
<1>4. Ctl(c)'
  BY <1>1, <1>2, OptionFields, Positions DEF Ctl, Calling, OneFile, Single, PerFile,
     Files, Content, HasText, Modes, CommandTypes, PgTypeOK, SendBegin, GoTo, ExecThen
<1>5. Behind(c)'
  BY <1>1, <1>2, OptionFields, Positions DEF Behind, Before, AllIn, Passed, Applied,
     HasText, Unattended, InLoop, Files, PerFile, CommandTypes, PgTypeOK, SendBegin,
     GoTo, ExecThen
<1> QED
  BY <1>3, <1>4, <1>5, OwnStep

\* "begin;" returned.
LEMMA BegunKeeps ==
    ASSUME AMInv, NEW c \in Client, Begun(c)
    PROVE  AMInv'
<1>1. /\ CommandTypes /\ PgTypeOK /\ TypeOK
      /\ Ctl(c) /\ Behind(c) /\ ClientInv(c)
  BY TypesOf
<1>2. [NextWith(Texts)]_pgVars /\ UNCHANGED <<db, orphan, conn, phase, script>>
  BY DEF Begun, pgVars, clientVars, serverVars
<1>3. Inside(c)
  BY <1>1, <1>2 DEF Inside, Same, CommandTypes, PgTypeOK, Labels, Begun, GoTo, Returned
<1>4. Ctl(c)'
  BY <1>1, <1>2, OptionFields, Positions DEF Ctl, Calling, OneFile, Single, Files,
     Content, HasText, Modes, CommandTypes, PgTypeOK, Begun, GoTo, Returned
<1>5. Behind(c)'
  BY <1>1, <1>2, OptionFields, Positions DEF Behind, Before, AllIn, Passed, Applied,
     HasText, Unattended, InLoop, Single, CommandTypes, PgTypeOK, Begun, GoTo, Returned
<1> QED
  BY <1>3, <1>4, <1>5, OwnStep

\* tx-mode none goes to the file at once.
LEMMA NextFileKeeps ==
    ASSUME AMInv, NEW c \in Client, NextFile(c)
    PROVE  AMInv'
<1>1. /\ CommandTypes /\ PgTypeOK /\ TypeOK
      /\ Ctl(c) /\ Behind(c) /\ ClientInv(c)
  BY TypesOf
<1>2. [NextWith(Texts)]_pgVars /\ UNCHANGED <<db, orphan, conn, phase, script>>
  BY DEF NextFile, pgVars, clientVars, serverVars
<1>3. Inside(c)
  BY <1>1, <1>2 DEF Inside, Same, CommandTypes, PgTypeOK, Labels, NextFile, GoTo
<1>4. Ctl(c)'
  BY <1>1, <1>2, OptionFields, Positions DEF Ctl, Calling, OneFile, Single, PerFile,
     Files, Content, HasText, Modes, CommandTypes, PgTypeOK, NextFile, GoTo
<1>5. Behind(c)'
  BY <1>1, <1>2, OptionFields, Positions DEF Behind, Before, AllIn, Passed, Applied,
     HasText, Unattended, InLoop, Files, PerFile, CommandTypes, PgTypeOK, NextFile, GoTo
<1> QED
  BY <1>3, <1>4, <1>5, OwnStep

\* A file that cannot be opened counts as failed, an empty one as applied.
LEMMA SkipFileKeeps ==
    ASSUME AMInv, NEW c \in Client, SkipFile(c)
    PROVE  AMInv'
<1>1. TypeOK /\ Ctl(c) /\ pc[c] = "file" /\ phase[c] = "idle"
  BY TypesOf DEF SkipFile, Ctl, Calling
<1>2. CASE Content(c) = Unreadable /\ AfterFile(c, FALSE)
  BY <1>1, <1>2, AfterFileStep DEF SkipFile
<1>3. CASE Content(c) = <<>> /\ AfterFile(c, TRUE)
  <2>1. <<>> # Unreadable
    <3>1. <<>> \in Seq(Stmt \cup Control)
      OBVIOUS
    <3> QED
      BY <3>1, UnreadableAssumption
  <2>2. Passed(opts[c].dir, i[c])
    BY <1>3, <2>1 DEF Content, Files, Passed, Lasting, HasText
  <2> QED
    BY <1>1, <1>3, <2>2, AfterFileStep DEF SkipFile
<1> QED
  BY <1>2, <1>3 DEF SkipFile

\* exec(content): only now may the file become pending, and all before it are in.
LEMMA SendFileKeeps ==
    ASSUME AMInv, NEW c \in Client, SendFile(c)
    PROVE  AMInv'
<1>1. /\ CommandTypes /\ PgTypeOK /\ TypeOK
      /\ Ctl(c) /\ Behind(c) /\ ClientInv(c)
  BY TypesOf
<1>0. Content(c) \in Texts
  <2>1. opts[c].dir \in DOMAIN Dir /\ i[c] \in DOMAIN Dir[opts[c].dir]
    BY <1>1 DEF SendFile, Ctl, OneFile, Files
  <2>2. HasText(opts[c].dir, i[c])
    BY DEF SendFile, Content, Files, HasText
  <2> QED
    BY <2>1, <2>2, FileText DEF Content, Files
<1>2. /\ [NextWith(Texts)]_pgVars
      /\ UNCHANGED <<db, orphan, conn>>
      /\ \E text \in {Content(c)} : script' = [script EXCEPT ![c] = text]
      /\ conn[c] # "none"
      /\ phase' = phase \/ phase' = [phase EXCEPT ![c] = "begin"]
  BY <1>0, ExecIsNext, ControlText DEF SendFile, ExecThen, ControlTexts
<1>3. Inside(c)
  BY <1>1, <1>2 DEF Inside, Same, CommandTypes, PgTypeOK, Labels, SendFile, GoTo, ExecThen
<1>4. Ctl(c)'
  BY <1>1, <1>2, OptionFields, Positions DEF Ctl, Calling, OneFile, Single, Files,
     Content, HasText, Modes, CommandTypes, PgTypeOK, SendFile, GoTo, ExecThen
<1>5. Behind(c)'
  BY <1>1, <1>2, OptionFields, Positions DEF Behind, Before, AllIn, Passed, Applied,
     HasText, Unattended, InLoop, Files, CommandTypes, PgTypeOK, SendFile, GoTo, ExecThen
<1> QED
  BY <1>3, <1>4, <1>5, OwnStep

\* run_file returned true only if the text is durable (ClientInv).
LEMMA FileRanKeeps ==
    ASSUME AMInv, NEW c \in Client, FileRan(c)
    PROVE  AMInv'
<1>1. TypeOK /\ Ctl(c) /\ ClientInv(c)
  BY TypesOf
<1>2. PICK how \in {"ok", "error"} : Returned(c, "running", how) /\ AfterFile(c, how = "ok")
  BY DEF FileRan
<1>3. pc[c] = "running" /\ phase[c] = "idle" /\ outcome[c] = how
  BY <1>2 DEF Returned
<1>4. ASSUME how = "ok" PROVE Passed(opts[c].dir, i[c])
  <2>1. Lasting(script[c]) \subseteq db
    BY <1>1, <1>3, <1>4 DEF ClientInv, Answered
  <2>2. HasText(opts[c].dir, i[c]) /\ script[c] = Dir[opts[c].dir][i[c]]
    BY <1>1, <1>3, SentText DEF Calling
  <2> QED
    BY <2>1, <2>2 DEF Passed
<1>5. (how = "ok") \in BOOLEAN
  OBVIOUS
<1> QED
  BY <1>2, <1>3, <1>4, <1>5, AfterFileStep DEF FileRan

\* per-file: "commit;" or "rollback;" after the file.
LEMMA SendSettleKeeps ==
    ASSUME AMInv, NEW c \in Client, SendSettle(c)
    PROVE  AMInv'
<1>1. /\ CommandTypes /\ PgTypeOK /\ TypeOK
      /\ Ctl(c) /\ Behind(c) /\ ClientInv(c)
  BY TypesOf
<1>2. /\ [NextWith(Texts)]_pgVars
      /\ UNCHANGED <<db, orphan, conn>>
      /\ \E text \in ControlTexts : script' = [script EXCEPT ![c] = text]
      /\ conn[c] # "none"
      /\ phase' = phase \/ phase' = [phase EXCEPT ![c] = "begin"]
  BY ExecIsNext, ControlText DEF SendSettle, ExecThen, ControlTexts
<1>3. Inside(c)
  BY <1>1, <1>2 DEF Inside, Same, CommandTypes, PgTypeOK, Labels, SendSettle, GoTo,
     ExecThen
<1>4. Ctl(c)'
  BY <1>1, <1>2, OptionFields, Positions DEF Ctl, Calling, OneFile, Single, Files,
     Content, HasText, Modes, CommandTypes, PgTypeOK, SendSettle, GoTo, ExecThen
<1>5. Behind(c)'
  BY <1>1, <1>2, OptionFields, Positions DEF Behind, Before, AllIn, Passed, Applied,
     HasText, Unattended, InLoop, CommandTypes, PgTypeOK, SendSettle, GoTo, ExecThen
<1> QED
  BY <1>3, <1>4, <1>5, OwnStep

\* ... returned, and the loop goes on.
LEMMA SettledKeeps ==
    ASSUME AMInv, NEW c \in Client, Settled(c)
    PROVE  AMInv'
<1>1. CommandTypes /\ Behind(c)
  BY TypesOf
<1>2. pc[c] = "settling" /\ phase[c] = "idle" /\ Continue(c, fileOk[c])
  BY DEF Settled, Returned
<1>3. fileOk[c] \in BOOLEAN
  BY <1>1 DEF CommandTypes
<1>4. (fileOk[c] /\ ~opts[c].cont) => /\ ~failed[c]
                                      /\ Before(opts[c].dir, i[c])
                                      /\ Passed(opts[c].dir, i[c])
  BY <1>1, <1>2 DEF Behind, InLoop
<1>5. /\ UNCHANGED <<pgVars, opts, exit, said, base, runs>>
      /\ fileOk' \in [Client -> BOOLEAN]
      /\ \A d \in Client \ {c} : fileOk'[d] = fileOk[d]
  BY <1>1 DEF Settled, CommandTypes
<1> QED
  BY <1>2, <1>3, <1>4, <1>5, ContinueStep

\* single: "commit;" or "rollback;" after the loop.
LEMMA SendEndKeeps ==
    ASSUME AMInv, NEW c \in Client, SendEnd(c)
    PROVE  AMInv'
<1>1. /\ CommandTypes /\ PgTypeOK /\ TypeOK
      /\ Ctl(c) /\ Behind(c) /\ ClientInv(c)
  BY TypesOf
<1>2. /\ [NextWith(Texts)]_pgVars
      /\ UNCHANGED <<db, orphan, conn>>
      /\ \E text \in ControlTexts : script' = [script EXCEPT ![c] = text]
      /\ conn[c] # "none"
      /\ phase' = phase \/ phase' = [phase EXCEPT ![c] = "begin"]
  BY ExecIsNext, ControlText DEF SendEnd, ExecThen, ControlTexts
<1>3. Inside(c)
  BY <1>1, <1>2 DEF Inside, Same, CommandTypes, PgTypeOK, Labels, Aborted, SendEnd, GoTo,
     ExecThen
<1>4. Ctl(c)'
  BY <1>1, <1>2, OptionFields, Positions DEF Ctl, Calling, OneFile, Single, Files,
     Content, HasText, Modes, AtEnd, CommandTypes, PgTypeOK, SendEnd, GoTo, ExecThen
<1>5. Behind(c)'
  <2>1. ASSUME AtEnd(c), ~failed[c], ~opts[c].cont PROVE AllIn(opts[c].dir)
    <3>1. pc[c] = "loop" /\ i[c] > Len(Files(c)) /\ Before(opts[c].dir, i[c])
      BY <1>1, <2>1 DEF AtEnd, Behind, InLoop
    <3>2. opts[c].dir \in DOMAIN Dir
      BY <1>1, <3>1 DEF Ctl
    <3>3. \A j \in DOMAIN Files(c) : j \in 1..(i[c] - 1)
      BY <1>1, <3>1, <3>2, Positions DEF CommandTypes
    <3> QED
      BY <3>1, <3>3 DEF AllIn, Before, Files
  <2>2. pc'[c] = "ending" /\ UNCHANGED <<opts, failed, exit, db>> /\ exit[c] = "none"
    BY <1>1, <1>2 DEF SendEnd, ExecThen, GoTo, CommandTypes, Ctl, AtEnd
  <2>3. AllIn(opts[c].dir)' <=> AllIn(opts[c].dir)
    BY <2>2 DEF AllIn, Passed, Applied, HasText
  <2> QED
    BY <2>1, <2>2, <2>3 DEF Behind, InLoop, SendEnd
<1> QED
  BY <1>3, <1>4, <1>5, OwnStep

\* ... returned: exit 0 only if no file failed.
LEMMA EndedKeeps ==
    ASSUME AMInv, NEW c \in Client, Ended(c)
    PROVE  AMInv'
<1>1. /\ CommandTypes /\ PgTypeOK /\ TypeOK
      /\ Ctl(c) /\ Behind(c) /\ ClientInv(c)
  BY TypesOf
<1>2. /\ [NextWith(Texts)]_pgVars
      /\ UNCHANGED <<db, orphan, phase, script>>
      /\ conn' = [conn EXCEPT ![c] = "none"]
      /\ phase[c] = "idle"
  BY DEF Ended, Exit, Disconnect, NextWith, serverVars
<1>3. Inside(c)
  BY <1>1, <1>2 DEF Inside, Same, CommandTypes, PgTypeOK, Labels, Verdict, Aborted, Ended,
     GoTo, Exit, Returned
<1>4. Ctl(c)'
  BY <1>1, <1>2, OptionFields, Positions DEF Ctl, Calling, OneFile, Single, Files,
     Content, HasText, Modes, Verdict, CommandTypes, PgTypeOK, Ended, GoTo, Exit,
     Returned
<1>5. Behind(c)'
  BY <1>1, <1>2, OptionFields, Positions DEF Behind, Before, AllIn, Passed, Applied,
     HasText, Unattended, InLoop, Aborted, Verdict, CommandTypes, PgTypeOK, Ended, GoTo,
     Exit, Returned
<1> QED
  BY <1>3, <1>4, <1>5, OwnStep

\* per-file and none: exit 0 only if no file failed.
LEMMA FinishKeeps ==
    ASSUME AMInv, NEW c \in Client, Finish(c)
    PROVE  AMInv'
<1>1. /\ CommandTypes /\ PgTypeOK /\ TypeOK
      /\ Ctl(c) /\ Behind(c) /\ ClientInv(c)
  BY TypesOf
<1>2. /\ [NextWith(Texts)]_pgVars
      /\ UNCHANGED <<db, orphan, phase, script>>
      /\ conn' = [conn EXCEPT ![c] = "none"]
      /\ phase[c] = "idle"
  BY DEF Finish, Exit, Disconnect, NextWith, serverVars
<1>3. Inside(c)
  BY <1>1, <1>2 DEF Inside, Same, CommandTypes, PgTypeOK, Labels, Verdict, Aborted,
     Finish, GoTo, Exit
<1>4. Ctl(c)'
  BY <1>1, <1>2, OptionFields, Positions DEF Ctl, Calling, OneFile, Single, Files,
     Content, HasText, Modes, AtEnd, Verdict, CommandTypes, PgTypeOK, Finish, GoTo, Exit
<1>5. Behind(c)'
  <2>1. ASSUME AtEnd(c), ~failed[c], ~opts[c].cont PROVE AllIn(opts[c].dir)
    <3>1. pc[c] = "loop" /\ i[c] > Len(Files(c)) /\ Before(opts[c].dir, i[c])
      BY <1>1, <2>1 DEF AtEnd, Behind, InLoop
    <3>2. opts[c].dir \in DOMAIN Dir
      BY <1>1, <3>1 DEF Ctl
    <3>3. \A j \in DOMAIN Files(c) : j \in 1..(i[c] - 1)
      BY <1>1, <3>1, <3>2, Positions DEF CommandTypes
    <3> QED
      BY <3>1, <3>3 DEF AllIn, Before, Files
  <2>2. /\ pc'[c] = "done" /\ UNCHANGED <<opts, failed, db>>
        /\ exit'[c] = "0" => ~failed[c] \/ opts[c].cont
    BY <1>1, <1>2 DEF Finish, Exit, GoTo, CommandTypes, Verdict, Aborted
  <2>3. AllIn(opts[c].dir)' <=> AllIn(opts[c].dir)
    BY <2>2 DEF AllIn, Passed, Applied, HasText
  <2> QED
    BY <2>1, <2>2, <2>3 DEF Behind, InLoop, Finish
<1> QED
  BY <1>3, <1>4, <1>5, OwnStep

\* A catch clause sends "rollback;".
LEMMA SendRollbackKeeps ==
    ASSUME AMInv, NEW c \in Client, SendRollback(c)
    PROVE  AMInv'
<1>1. /\ CommandTypes /\ PgTypeOK /\ TypeOK
      /\ Ctl(c) /\ Behind(c) /\ ClientInv(c)
  BY TypesOf
<1>2. /\ [NextWith(Texts)]_pgVars
      /\ UNCHANGED <<db, orphan, conn>>
      /\ \E text \in ControlTexts : script' = [script EXCEPT ![c] = text]
      /\ conn[c] # "none"
      /\ phase' = phase \/ phase' = [phase EXCEPT ![c] = "begin"]
  BY ExecIsNext, ControlText DEF SendRollback, ExecThen, ControlTexts
<1>3. Inside(c)
  BY <1>1, <1>2 DEF Inside, Same, CommandTypes, PgTypeOK, Labels, SendRollback, GoTo,
     ExecThen, Returned
<1>4. Ctl(c)'
  BY <1>1, <1>2, OptionFields, Positions DEF Ctl, Calling, OneFile, Single, Files,
     Content, HasText, Modes, CommandTypes, PgTypeOK, SendRollback, GoTo, ExecThen,
     Returned
<1>5. Behind(c)'
  BY <1>1, <1>2, OptionFields, Positions DEF Behind, Before, AllIn, Passed, Applied,
     HasText, Unattended, InLoop, CommandTypes, PgTypeOK, SendRollback, GoTo, ExecThen,
     Returned
<1> QED
  BY <1>3, <1>4, <1>5, OwnStep

\* The command is given again and starts from the first file.
LEMMA RerunKeeps ==
    ASSUME AMInv, NEW c \in Client, Rerun(c)
    PROVE  AMInv'
<1>1. /\ CommandTypes /\ PgTypeOK /\ TypeOK
      /\ Ctl(c) /\ Behind(c) /\ ClientInv(c)
  BY TypesOf
<1>2. [NextWith(Texts)]_pgVars /\ UNCHANGED <<db, orphan, conn, phase, script>>
  BY DEF Rerun, pgVars, clientVars, serverVars
<1>3. Inside(c)
  BY <1>1, <1>2 DEF Inside, Same, CommandTypes, PgTypeOK, Labels, Rerun, GoTo
<1>4. Ctl(c)'
  BY <1>1, <1>2, OptionFields, Positions DEF Ctl, Calling, OneFile, Single, Files,
     Content, HasText, Modes, CommandTypes, PgTypeOK, Rerun, GoTo
<1>5. Behind(c)'
  BY <1>1, <1>2, OptionFields, Positions DEF Behind, Before, AllIn, Passed, Applied,
     HasText, Unattended, InLoop, CommandTypes, PgTypeOK, Rerun, GoTo
<1> QED
  BY <1>3, <1>4, <1>5, OwnStep

\* ... which returned or threw: the file counts as failed.
LEMMA CaughtKeeps ==
    ASSUME AMInv, NEW c \in Client, Caught(c)
    PROVE  AMInv'
<1>1. /\ CommandTypes /\ PgTypeOK /\ TypeOK
      /\ Ctl(c) /\ Behind(c) /\ ClientInv(c)
  BY TypesOf
<1>2. pc[c] = "catching" /\ phase[c] = "idle" /\ UNCHANGED <<opts, fileOk, said, base, runs>>
  BY DEF Caught, Returned
<1>3. CASE Single(c)
  <2>1. /\ Exit(c, "1") /\ UNCHANGED <<i, failed>>
    BY <1>3 DEF Caught
  <2>2. /\ [NextWith(Texts)]_pgVars
        /\ UNCHANGED <<db, orphan, phase, script>>
        /\ conn' = [conn EXCEPT ![c] = "none"]
    BY <2>1 DEF Exit, Disconnect, NextWith, serverVars
  <2>3. Inside(c)
    BY <1>1, <1>2, <2>1, <2>2 DEF Inside, Same, CommandTypes, PgTypeOK, Labels, Exit, GoTo
  <2>4. Ctl(c)'
    BY <1>1, <1>2, <2>1, <2>2 DEF Ctl, Calling, OneFile, CommandTypes, PgTypeOK, Exit,
       GoTo
  <2>5. Behind(c)'
    BY <1>1, <1>2, <2>1, <2>2 DEF Behind, InLoop, CommandTypes, Exit, GoTo
  <2> QED
    BY <2>3, <2>4, <2>5, OwnStep
<1>4. CASE ~Single(c)
  <2>1. Continue(c, FALSE) /\ UNCHANGED <<pgVars, exit>>
    BY <1>4 DEF Caught
  <2>2. fileOk' \in [Client -> BOOLEAN] /\ \A d \in Client \ {c} : fileOk'[d] = fileOk[d]
    BY <1>1, <1>2 DEF CommandTypes
  <2> QED
    BY <1>2, <2>1, <2>2, ContinueStep
<1> QED
  BY <1>3, <1>4

(* A killed process leaves at most a COMMIT in doubt.                       *)
LEMMA KillKeeps ==
    ASSUME AMInv, NEW c \in Client, Kill(c)
    PROVE  AMInv'
<1>1. /\ CommandTypes /\ PgTypeOK /\ TypeOK
      /\ Ctl(c) /\ Behind(c) /\ ClientInv(c)
  BY TypesOf
<1>2. PgInv'
  <2>1. [NextWith(Texts)]_pgVars
    BY DEF Kill, NextWith
  <2> QED
    BY <2>1, StepKeeps DEF AMInv
<1>3. /\ UNCHANGED <<db, script, opts, i, fileOk, failed, said, base, runs>>
      /\ pc' = [pc EXCEPT ![c] = "done"]
      /\ exit' = [exit EXCEPT ![c] = "killed"]
      /\ phase' = [phase EXCEPT ![c] = "idle"]
      /\ conn' = [conn EXCEPT ![c] = "none"]
      /\ orphan' = orphan \/ (phase[c] = "commit" /\ orphan' = orphan \cup {pend[c]})
  BY DEF Kill, GoTo, Crash, EndSession
<1>4. TypeOK'
  BY <1>1, <1>2, <1>3 DEF TypeOK, PgInv, CommandTypes, Labels
<1>5. ASSUME NEW d \in Client, d # c PROVE Ctl(d)' /\ Behind(d)'
  BY <1>1, <1>3, <1>5, OtherProcess DEF AMInv, CommandTypes, PgTypeOK
<1>6. Ctl(c)' /\ Behind(c)'
  BY <1>1, <1>3 DEF Ctl, Behind, Calling, OneFile, InLoop, CommandTypes, PgTypeOK
<1>7. OrphanInv'
  <2>1. \A q \in orphan' : Legit(q)
    BY <1>3, PendLegit DEF AMInv, OrphanInv
  <2> QED
    BY <1>3, <2>1, LegitStays DEF OrphanInv
<1>8. FilesInv'
  BY <1>3 DEF AMInv, FilesInv, Touched, Whole, Passed, Applied, StrictDir, Before, HasText
<1> QED
  BY <1>2, <1>4, <1>5, <1>6, <1>7, <1>8 DEF AMInv

-----------------------------------------------------------------------------
\* The invariant holds at the start: nothing is applied.
LEMMA AMInitInv == Init => AMInv
<1> SUFFICES ASSUME Init PROVE AMInv
  OBVIOUS
<1>1. PgInv
  BY PgInitInv DEF Init
<1>2. TypeOK
  BY <1>1 DEF Init, TypeOK, PgInv, Labels
<1>3. ASSUME NEW c \in Client PROVE Ctl(c) /\ Behind(c)
  BY DEF Init, PgInit, PgIdle, Ctl, Behind, Calling, OneFile, InLoop
<1>4. OrphanInv /\ FilesInv
  BY DEF Init, PgInit, PgIdle, OrphanInv, FilesInv, Touched
<1> QED
  BY <1>1, <1>2, <1>3, <1>4 DEF AMInv

\* Every step preserves it.
LEMMA AMStepKeeps ==
    ASSUME AMInv, [AMNext]_vars
    PROVE  AMInv'
<1>1. CASE UNCHANGED vars
  <2>1. [NextWith(Texts)]_pgVars /\ UNCHANGED <<pgVars, amVars>>
    BY <1>1 DEF vars
  <2>2. PgInv'
    BY <2>1, StepKeeps DEF AMInv
  <2>3. TypeOK'
    BY <2>1, <2>2 DEF AMInv, TypeOK, PgInv, amVars
  <2>4. ASSUME NEW d \in Client PROVE Ctl(d)' /\ Behind(d)'
    BY <2>1, OtherProcess DEF AMInv, pgVars, clientVars, serverVars, amVars
  <2>5. OrphanInv' /\ FilesInv'
    BY <2>1 DEF AMInv, OrphanInv, FilesInv, Legit, Touched, Whole, Passed, Applied, StrictDir,
       Before, HasText, pgVars, serverVars, amVars
  <2> QED
    BY <2>2, <2>3, <2>4, <2>5 DEF AMInv
<1>2. ASSUME NEW c \in Client, Step(c) PROVE AMInv'
  BY <1>2, UsageKeeps, DeclineKeeps, ProceedKeeps, OpenKeeps, SendBeginKeeps, BegunKeeps,
     NextFileKeeps, SkipFileKeeps, SendFileKeeps, FileRanKeeps, SendSettleKeeps,
     SettledKeeps, SendEndKeeps, EndedKeeps, FinishKeeps, SendRollbackKeeps, CaughtKeeps
     DEF Step
<1>3. ASSUME NEW c \in Client, OpenFails(c) \/ Session(c) \/ Kill(c) \/ Rerun(c) PROVE AMInv'
  BY <1>3, OpenFailsKeeps, SessionKeeps, KillKeeps, RerunKeeps
<1> QED
  BY <1>1, <1>2, <1>3, ServerKeeps DEF AMNext

(* AMInv is an invariant of the commands.                                   *)
THEOREM AMInvariant == AMSpec => []AMInv
<1>1. ASSUME AMInv, [AMNext]_vars PROVE AMInv'
  BY <1>1, AMStepKeeps
<1> QED
  BY AMInitInv, <1>1, PTL DEF AMSpec

(* All variables of the commands keep their types.                          *)
THEOREM TypeCorrect == AMSpec => []TypeOK
<1>1. AMInv => TypeOK
  BY DEF AMInv
<1> QED
  BY <1>1, AMInvariant, PTL

(* A plain file is in the database as a whole or not at all, for any number  *)
(* of processes, directories, options, faults and reruns, whatever the files *)
(* around it do to their transactions.                                       *)
THEOREM FileAtomicAlways == AMSpec => []FileAtomic
<1>1. AMInv => FileAtomic
  <2> SUFFICES ASSUME AMInv, NEW d \in DOMAIN Dir, NEW j \in DOMAIN Dir[d],
                      HasText(d, j), Plain(Dir[d][j]), Touched(d, j)
               PROVE  Applied(d, j)
    BY DEF FileAtomic
  <2>1. <<d, j>> \in Places
    BY FileText
  <2> QED
    BY <2>1 DEF AMInv, FilesInv, Whole
<1> QED
  BY <1>1, AMInvariant, PTL

(* Without --continue-on-error no file is in the database, in part or whole,  *)
(* before all that the files in front of it leave, plain or with transaction  *)
(* control of their own, whatever is lost, killed, in doubt or given again.  *)
THEOREM InOrderAlways == AMSpec => []InOrder
<1>1. AMInv => InOrder
  <2> SUFFICES ASSUME AMInv, NEW d \in DOMAIN Dir, StrictDir(d),
                      NEW k \in DOMAIN Dir[d], Touched(d, k),
                      NEW j \in 1..(k - 1)
               PROVE  Passed(d, j)
    BY DEF InOrder
  <2>1. <<d, k>> \in Places
    BY FileText DEF Touched
  <2>2. Before(d, k)
    BY <2>1 DEF AMInv, FilesInv
  <2> QED
    BY <2>2 DEF Before
<1> QED
  BY <1>1, AMInvariant, PTL

(* Exit code 0 of an unattended run without --continue-on-error means that   *)
(* the whole directory is in the database.                                   *)
THEOREM SuccessIsApplied == AMSpec => []SuccessMeansApplied
<1>1. AMInv => SuccessMeansApplied
  BY DEF AMInv, Behind, AllIn, SuccessMeansApplied, Files
<1> QED
  BY <1>1, AMInvariant, PTL

-----------------------------------------------------------------------------
(* The commands implement Baseline.  A change of the database is the arrival *)
(* of one whole plain file, or of nothing that Baseline sees.                *)

\* The verdict that an exit code stands for.
Judge(e) == CASE e = "none" -> "running" [] e = "0" -> "success" [] OTHER -> "failure"

\* What a session or the server publishes is one file that Baseline may apply.
LEMMA Arrival ==
    ASSUME AMInv, NEW p, Legit(p), db' = db \cup p, UNCHANGED amVars
    PROVE  [Promise!Next]_(Promise!vars)
<1>1. UNCHANGED <<OptionsSeen, verdicts>>
  BY DEF amVars, OptionsSeen, Unattended, verdicts, VerdictOf
<1>2. \A g \in Places : HasWork(g[1], g[2]) /\ Applied(g[1], g[2]) => Applied(g[1], g[2])'
  BY DEF Applied, HasText
<1>3. CASE \E f \in Places : /\ HasWork(f[1], f[2]) /\ f \notin AppliedFiles
                             /\ p = Effects(Dir[f[1]][f[2]])
                             /\ StrictDir(f[1]) => Before(f[1], f[2])
  <2>1. PICK f \in Places : /\ HasWork(f[1], f[2]) /\ f \notin AppliedFiles
                            /\ p = Effects(Dir[f[1]][f[2]])
                            /\ StrictDir(f[1]) => Before(f[1], f[2])
    BY <1>3
  <2>2. \A g \in Places : (g # f /\ HasWork(g[1], g[2])) =>
            (Applied(g[1], g[2])' <=> Applied(g[1], g[2]))
    <3> SUFFICES ASSUME NEW g \in Places, g # f, HasWork(g[1], g[2])
                 PROVE  Applied(g[1], g[2])' <=> Applied(g[1], g[2])
      OBVIOUS
    <3>1. Effects(Dir[g[1]][g[2]]) \cap p = {}
      BY <2>1, SeparateAssumption DEF SeparateFiles, HasWork
    <3> QED
      BY <3>1 DEF Applied, HasText
  <2>3. HasWork(f[1], f[2])' /\ Applied(f[1], f[2])'
    BY <2>1 DEF HasWork, Applied, HasText
  <2>4. AppliedFiles' = AppliedFiles \cup {f}
    BY <2>1, <2>2, <2>3 DEF AppliedFiles, HasWork, HasText
  <2>0. PICK d \in DOMAIN Dir : \E j \in DOMAIN Dir[d] : f = <<d, j>>
    BY DEF Places
  <2>5. PICK j \in DOMAIN Dir[d] : f = <<d, j>>
    BY <2>0
  <2>6. d \in DOMAIN WorkOf /\ j \in WorkOf[d]
    BY <2>1, <2>5 DEF WorkOf
  <2>7. ASSUME Promise!Ordered(d), NEW k \in WorkOf[d], k < j
        PROVE  <<d, k>> \in AppliedFiles
    <3>1. StrictDir(d)
      BY <2>7 DEF Promise!Ordered, OptionsSeen, StrictDir
    <3>2. Dir[d] \in Seq({Unreadable} \cup Seq(Stmt \cup Control))
      BY DirAssumption
    <3>3. k \in DOMAIN Dir[d] /\ HasWork(d, k)
      BY <2>5 DEF WorkOf
    <3>4. k \in 1..(j - 1)
      BY <2>7, <3>2, <3>3, <2>5
    <3>5. Applied(d, k)
      BY <2>1, <2>5, <3>1, <3>3, <3>4, PassedIsApplied DEF Before, HasWork
    <3> QED
      BY <3>3, <3>5 DEF AppliedFiles, Places
  <2>8. Promise!Apply(d, j)
    BY <1>1, <2>1, <2>4, <2>5, <2>7 DEF Promise!Apply
  <2> QED
    BY <2>6, <2>8 DEF Promise!Next
<1>4. CASE ~ \E f \in Places : /\ HasWork(f[1], f[2]) /\ f \notin AppliedFiles
                               /\ p = Effects(Dir[f[1]][f[2]])
                               /\ StrictDir(f[1]) => Before(f[1], f[2])
  <2>1. ASSUME p \subseteq db PROVE AppliedFiles' = AppliedFiles
    <3>1. db' = db
      BY <2>1
    <3> QED
      BY <3>1 DEF AppliedFiles, HasWork, Applied, HasText
  <2>2. ASSUME p # {} PROVE AppliedFiles' = AppliedFiles
    <3>1. PICK f \in Places : /\ HasText(f[1], f[2])
                              /\ p \subseteq Effects(Dir[f[1]][f[2]])
                              /\ Plain(Dir[f[1]][f[2]]) => p = Effects(Dir[f[1]][f[2]])
                              /\ StrictDir(f[1]) => Before(f[1], f[2])
      BY <2>2 DEF Legit
    <3>2. CASE Plain(Dir[f[1]][f[2]])
      <4>1. f \in AppliedFiles
        BY <1>4, <2>2, <3>1, <3>2 DEF HasWork
      <4> QED
        BY <2>1, <3>1, <3>2, <4>1 DEF AppliedFiles, Applied
    <3>3. CASE ~Plain(Dir[f[1]][f[2]])
      <4>1. ASSUME NEW g \in Places, HasWork(g[1], g[2])
            PROVE  Effects(Dir[g[1]][g[2]]) \cap p = {}
        BY <3>1, <3>3, <4>1, SeparateAssumption DEF SeparateFiles, HasWork
      <4>2. \A g \in Places : HasWork(g[1], g[2]) =>
                (Applied(g[1], g[2])' <=> Applied(g[1], g[2]))
        BY <4>1 DEF Applied, HasText
      <4> QED
        BY <4>2 DEF AppliedFiles, HasWork, HasText
    <3> QED
      BY <3>2, <3>3
  <2>3. AppliedFiles' = AppliedFiles
    BY <2>1, <2>2
  <2> QED
    BY <1>1, <2>3 DEF Promise!vars
<1> QED
  BY <1>3, <1>4

\* At most the exit code of a process changes: it appears or is taken back.
ExitMoves(c) == \/ exit' = exit
                \/ /\ exit[c] = "none"
                   /\ \E e \in {"0", "1", "2", "killed"} : exit' = [exit EXCEPT ![c] = e]
                \/ /\ exit[c] # "none"
                   /\ exit' = [exit EXCEPT ![c] = "none"]

(* A step of a process outside exec changes at most its exit code.          *)
LEMMA OwnChanges ==
    ASSUME AMInv, NEW c \in Client, Step(c) \/ OpenFails(c) \/ Kill(c) \/ Rerun(c)
    PROVE  UNCHANGED <<db, opts>> /\ ExitMoves(c)
<1>1. Ctl(c)
  BY TypesOf
<1>2. UNCHANGED <<db, opts>>
  BY DEF Step, OpenFails, Kill, Rerun, Usage, Decline, Proceed, Open, SendBegin, Begun,
         NextFile, SkipFile, SendFile, FileRan, SendSettle, Settled, SendEnd, Ended, Finish,
         SendRollback, Caught, ExecThen, Exec, Call, Refuse, Exit, Disconnect, Connect,
         ConnectFails, Crash, EndSession, pgVars, serverVars
<1>3. ASSUME \/ Usage(c) \/ Decline(c) \/ Ended(c) \/ Finish(c) \/ OpenFails(c) \/ Kill(c)
             \/ Caught(c) /\ Single(c)
      PROVE  ExitMoves(c)
  <2>1. \E e \in {"0", "1", "2", "killed"} : exit' = [exit EXCEPT ![c] = e]
    BY <1>3 DEF Usage, Decline, Ended, Finish, OpenFails, Kill, Caught, Exit, Verdict
  <2>2. pc[c] # "done"
    BY <1>3 DEF Usage, Decline, Valid, Ended, Finish, AtEnd, OpenFails, Kill, Caught,
       Returned
  <2> QED
    BY <1>1, <2>1, <2>2 DEF Ctl, ExitMoves
<1>4. ASSUME Rerun(c) PROVE ExitMoves(c)
  BY <1>1, <1>4 DEF Rerun, Ctl, ExitMoves
<1>5. ASSUME \/ Proceed(c) \/ Open(c) \/ SendBegin(c) \/ Begun(c) \/ NextFile(c)
             \/ SkipFile(c) \/ SendFile(c) \/ FileRan(c) \/ SendSettle(c) \/ Settled(c)
             \/ SendEnd(c) \/ SendRollback(c) \/ (Caught(c) /\ ~Single(c))
      PROVE  ExitMoves(c)
  BY <1>5 DEF Proceed, Open, SendBegin, Begun, NextFile, SkipFile, SendFile, FileRan,
              SendSettle, Settled, SendEnd, SendRollback, Caught, ExitMoves
<1> QED
  BY <1>2, <1>3, <1>4, <1>5 DEF Step

\* A step of the process is seen at most as an end or a new start of its run.
LEMMA OwnPromise ==
    ASSUME AMInv, AMInv', NEW c \in Client,
           Step(c) \/ OpenFails(c) \/ Kill(c) \/ Rerun(c)
    PROVE  [Promise!Next]_(Promise!vars)
<1>1. UNCHANGED <<OptionsSeen, AppliedFiles>>
  BY OwnChanges DEF OptionsSeen, Unattended, AppliedFiles, HasWork, Applied, HasText
<1>2. exit \in [Client -> {"none", "0", "1", "2", "killed"}]
  BY DEF AMInv, TypeOK
<1>3. verdicts[c] = Judge(exit[c])
  BY DEF verdicts, VerdictOf, Judge
<1>4. CASE exit' = exit
  BY <1>1, <1>4 DEF verdicts, VerdictOf, Promise!vars
<1>5. ASSUME NEW e \in {"none", "0", "1", "2", "killed"}, exit' = [exit EXCEPT ![c] = e]
      PROVE  verdicts' = [verdicts EXCEPT ![c] = Judge(e)]
  BY <1>2, <1>5 DEF verdicts, VerdictOf, Judge
<1>6. CASE exit[c] = "none" /\ exit' = [exit EXCEPT ![c] = "0"]
  <2>1. verdicts[c] = "running" /\ verdicts' = [verdicts EXCEPT ![c] = "success"]
    BY <1>3, <1>5, <1>6 DEF Judge
  <2>2. ASSUME OptionsSeen[c].strict, OptionsSeen[c].unattended
        PROVE  /\ OptionsSeen[c].dir \notin UnusableDirs
               /\ Promise!AllApplied(OptionsSeen[c].dir)
    <3>1. ~opts[c].cont /\ Unattended(c) /\ OptionsSeen[c].dir = opts[c].dir
      BY <2>2 DEF OptionsSeen
    <3>2. exit'[c] = "0" /\ opts' = opts
      BY <1>2, <1>6, OwnChanges
    <3>3. Behind(c)'
      BY DEF AMInv
    <3>4. AllIn(opts[c].dir)
      <4>1. AllIn(opts[c].dir)'
        BY <3>1, <3>2, <3>3 DEF Behind, Unattended
      <4> QED
        BY <4>1, OwnChanges DEF AllIn, Passed, Applied, HasText
    <3>5. opts[c].dir \notin UnusableDirs
      BY <3>4 DEF UnusableDirs, AllIn, Passed
    <3>6. opts[c].dir \in DOMAIN Dir
      <4>1. Step(c)
        BY <1>2, <1>6 DEF OpenFails, Kill, Rerun
      <4>2. Ctl(c) /\ pc[c] # "done"
        BY <1>6, TypesOf DEF Ctl
      <4>3. ~Usage(c)
        BY <1>2, <1>6 DEF Usage, Exit
      <4>4. CASE pc[c] = "gate"
        <5>1. Valid(c)
          BY <4>1, <4>3, <4>4 DEF Step, Usage, Valid, Decline, Proceed, Open, SendBegin,
             Begun, NextFile, SkipFile, SendFile, FileRan, SendSettle, Settled, SendEnd,
             Ended, Finish, SendRollback, Caught, Returned, AtEnd
        <5>2. TypeOK
          BY DEF AMInv
        <5> QED
          BY <5>1, <5>2, OptionFields DEF Valid
      <4> QED
        BY <4>2, <4>4 DEF Ctl
    <3>7. ASSUME NEW j \in WorkOf[opts[c].dir] PROVE <<opts[c].dir, j>> \in AppliedFiles
      <4>1. j \in DOMAIN Dir[opts[c].dir] /\ HasWork(opts[c].dir, j)
        BY <3>6 DEF WorkOf
      <4> QED
        BY <3>4, <3>6, <4>1, PassedIsApplied DEF AllIn, HasWork, AppliedFiles, Places
    <3> QED
      BY <3>1, <3>5, <3>7 DEF Promise!AllApplied
  <2>3. Promise!Succeed(c)
    BY <1>1, <2>1, <2>2 DEF Promise!Succeed
  <2> QED
    BY <2>3 DEF Promise!Next
<1>7. CASE /\ exit[c] = "none"
           /\ \E e \in {"1", "2", "killed"} : exit' = [exit EXCEPT ![c] = e]
  <2>1. verdicts[c] = "running" /\ verdicts' = [verdicts EXCEPT ![c] = "failure"]
    BY <1>3, <1>5, <1>7 DEF Judge
  <2>2. Promise!Fail(c)
    BY <1>1, <2>1 DEF Promise!Fail
  <2> QED
    BY <2>2 DEF Promise!Next
<1>8. CASE exit[c] # "none" /\ exit' = [exit EXCEPT ![c] = "none"]
  <2>1. verdicts[c] # "running" /\ verdicts' = [verdicts EXCEPT ![c] = "running"]
    BY <1>3, <1>5, <1>8 DEF Judge
  <2>2. Promise!Again(c)
    BY <1>1, <2>1 DEF Promise!Again
  <2> QED
    BY <2>2 DEF Promise!Next
<1> QED
  BY <1>4, <1>6, <1>7, <1>8, OwnChanges DEF ExitMoves

\* Every step of the commands is a step of Baseline or a stutter.
LEMMA PromiseStep ==
    ASSUME AMInv, AMInv', [AMNext]_vars
    PROVE  [Promise!Next]_(Promise!vars)
<1>1. CASE UNCHANGED vars
  BY <1>1 DEF vars, pgVars, serverVars, amVars, OptionsSeen, Unattended, AppliedFiles,
     HasWork, Applied, HasText, verdicts, VerdictOf, Promise!vars
<1>2. ASSUME NEW c \in Client, Session(c) PROVE [Promise!Next]_(Promise!vars)
  <2>1. PICK p : Legit(p) /\ db' = db \cup p
    BY <1>2, SessionChanges DEF Session
  <2> QED
    BY <1>2, <2>1, Arrival DEF Session
<1>3. CASE Server
  <2>1. CASE Land
    <3>1. PICK p \in orphan : db' = db \cup p
      BY <2>1 DEF Land
    <3>2. Legit(p)
      BY <3>1 DEF AMInv, OrphanInv
    <3> QED
      BY <1>3, <3>1, <3>2, Arrival DEF Server
  <2>2. CASE Drop
    <3>1. Legit({}) /\ db' = db \cup {}
      BY <2>2 DEF Drop, Legit
    <3> QED
      BY <1>3, <3>1, Arrival DEF Server
  <2> QED
    BY <1>3, <2>1, <2>2 DEF Server
<1>4. ASSUME NEW c \in Client, Step(c) \/ OpenFails(c) \/ Kill(c) \/ Rerun(c)
      PROVE  [Promise!Next]_(Promise!vars)
  BY <1>4, OwnPromise
<1> QED
  BY <1>1, <1>2, <1>3, <1>4 DEF AMNext

(* The commands implement Baseline: seen from the database and the shell,    *)
(* whole files arrive, in order where order is promised, and success means   *)
(* that all of them have.                                                    *)
THEOREM CommandsKeepPromise == AMSpec => KeepsPromise
<1>1. Init => Promise!Init
  <2> SUFFICES ASSUME Init PROVE Promise!Init
    OBVIOUS
  <2>1. AppliedFiles = {}
    BY DEF Init, PgInit, PgIdle, AppliedFiles, HasWork, Applied
  <2>2. verdicts = [c \in Client |-> "running"]
    BY DEF Init, verdicts, VerdictOf
  <2> QED
    BY <2>1, <2>2 DEF Promise!Init
<1>2. ASSUME AMInv, AMInv', [AMNext]_vars PROVE [Promise!Next]_(Promise!vars)
  BY <1>2, PromiseStep
<1> QED
  BY <1>1, <1>2, AMInvariant, PTL DEF AMSpec, KeepsPromise, Promise!Spec

-----------------------------------------------------------------------------
(* The measure of a run.                                                     *)

\* The commands drive the executor as PgExecutor allows, with texts of their own.
LEMMA DrivesExecutor ==
    ASSUME AMInv, [AMNext]_vars
    PROVE  [NextWith(Texts)]_pgVars
<1>1. CASE UNCHANGED vars \/ Server
  BY <1>1 DEF vars, Server, NextWith
<1>2. ASSUME NEW c \in Client, Session(c) \/ OpenFails(c) \/ Kill(c) \/ Rerun(c)
      PROVE  [NextWith(Texts)]_pgVars
  BY <1>2 DEF Session, OpenFails, Kill, Rerun, NextWith
<1>3. ASSUME NEW c \in Client, Step(c) PROVE [NextWith(Texts)]_pgVars
  <2>1. ASSUME NEW text \in ControlTexts, Exec(c, text) PROVE [NextWith(Texts)]_pgVars
    BY <2>1, ControlText DEF NextWith
  <2>2. CASE SendFile(c)
    <3>1. Content(c) \in Texts /\ Exec(c, Content(c))
      <4>1. /\ opts[c].dir \in DOMAIN Dir /\ i[c] \in DOMAIN Dir[opts[c].dir]
            /\ HasText(opts[c].dir, i[c])
        BY <2>2, TypesOf DEF SendFile, Ctl, OneFile, Files, Content, HasText
      <4> QED
        BY <2>2, <4>1, FileText DEF SendFile, ExecThen, Files, Content
    <3> QED
      BY <3>1 DEF NextWith
  <2>3. CASE Usage(c) \/ Decline(c) \/ Ended(c) \/ Finish(c)
    BY <2>3 DEF Usage, Decline, Ended, Finish, Exit, NextWith
  <2>4. CASE Open(c)
    BY <2>4 DEF Open, NextWith
  <2>5. CASE Proceed(c) \/ Begun(c) \/ NextFile(c) \/ SkipFile(c) \/ FileRan(c) \/ Settled(c)
    BY <2>5 DEF Proceed, Begun, NextFile, SkipFile, FileRan, Settled
  <2>6. CASE Caught(c)
    BY <2>6 DEF Caught, Exit, NextWith
  <2>7. CASE SendBegin(c) \/ SendSettle(c) \/ SendEnd(c) \/ SendRollback(c)
    <3>1. \E text \in ControlTexts : Exec(c, text)
      BY <2>7 DEF SendBegin, SendSettle, SendEnd, SendRollback, ExecThen, ControlTexts
    <3> QED
      BY <2>1, <3>1
  <2> QED
    BY <1>3, <2>2, <2>3, <2>4, <2>5, <2>6, <2>7 DEF Step
<1> QED
  BY <1>1, <1>2, <1>3 DEF AMNext

\* The part of the loop a process is in tells what it has before it.
Place(c) ==
    /\ pc[c] \in OneFile => i[c] <= Len(Files(c))
    /\ (pc[c] \in {"opening", "catching"} /\ ~Single(c)) => i[c] <= Len(Files(c))
    /\ pc[c] \in {"open", "opening", "loop"} => i[c] <= Len(Files(c)) + 1
    /\ pc[c] \in {"settle", "settling"} => ~Single(c)
    /\ pc[c] = "ending" => Single(c)

AllPlaced == \A c \in Client : Place(c)

\* The end of the loop body.
Turned(c) == \/ pc'[c] = "end" /\ i'[c] = i[c]
             \/ pc'[c] = "loop" /\ i'[c] = i[c] + 1

\* How a process goes from stage to stage.
Moves(c) ==
    \/ pc'[c] = "done"
    \/ pc[c] = "gate" /\ pc'[c] = "connect" /\ i'[c] = i[c]
    \/ /\ pc[c] = "connect" /\ i'[c] = i[c]
       /\ pc'[c] = IF Single(c) THEN "open" ELSE "loop"
    \/ pc[c] = "open" /\ pc'[c] = "opening" /\ i'[c] = i[c]
    \/ /\ pc[c] = "loop" /\ i[c] <= Len(Files(c)) /\ i'[c] = i[c]
       /\ pc'[c] \in {"opening", "file"} /\ (pc'[c] = "opening" => ~Single(c))
    \/ AtEnd(c) /\ Single(c) /\ pc'[c] = "ending" /\ i'[c] = i[c]
    \/ /\ pc[c] = "opening" /\ i'[c] = i[c]
       /\ pc'[c] = IF Single(c) THEN "loop" ELSE "file"
    \/ pc[c] = "file" /\ pc'[c] = "running" /\ i'[c] = i[c]
    \/ pc[c] \in {"file", "running"} /\ ~Single(c) /\ pc'[c] = "settle" /\ i'[c] = i[c]
    \/ pc[c] = "settle" /\ pc'[c] = "settling" /\ i'[c] = i[c]
    \/ pc[c] \in {"file", "running", "settling"} /\ Turned(c)
    \/ pc[c] = "catching" /\ ~Single(c) /\ Turned(c)
    \/ pc[c] \in {"opening", "settling", "ending"} /\ pc'[c] = "catching" /\ i'[c] = i[c]

LEMMA StepMoves ==
    ASSUME AMInv, NEW c \in Client, Step(c) \/ OpenFails(c) \/ Kill(c)
    PROVE  Moves(c)
<1>1. /\ pc \in [Client -> Labels] /\ i \in [Client -> Nat \ {0}]
      /\ fileOk \in [Client -> BOOLEAN]
  BY TypesOf DEF CommandTypes
<1>2. ASSUME NEW ok \in BOOLEAN, Continue(c, ok) PROVE Turned(c)
  <2>1. \/ i' = [i EXCEPT ![c] = @ + 1] /\ pc' = [pc EXCEPT ![c] = "loop"]
        \/ i' = i /\ pc' = [pc EXCEPT ![c] = "end"]
    <3>1. CASE ok \/ opts[c].cont
      BY <1>2, <3>1 DEF Continue, GoTo
    <3>2. CASE ~(ok \/ opts[c].cont)
      BY <1>2, <3>2 DEF Continue, GoTo
    <3> QED
      BY <3>1, <3>2
  <2> QED
    BY <1>1, <2>1 DEF Turned
<1>3. ASSUME NEW ok \in BOOLEAN, AfterFile(c, ok)
      PROVE  Turned(c) \/ (~Single(c) /\ pc'[c] = "settle" /\ i'[c] = i[c])
  BY <1>1, <1>2, <1>3 DEF AfterFile, GoTo, PerFile, Single
<1>4. CASE Usage(c) \/ Decline(c) \/ OpenFails(c) \/ Ended(c) \/ Finish(c) \/ Kill(c)
  BY <1>1, <1>4 DEF Usage, Decline, OpenFails, Ended, Finish, Kill, Exit, GoTo, Moves
<1>5. CASE Proceed(c) \/ Open(c)
  BY <1>1, <1>5 DEF Proceed, Valid, Open, GoTo, Moves
<1>6. CASE SendBegin(c) \/ NextFile(c)
  BY <1>1, <1>6 DEF SendBegin, ExecThen, NextFile, GoTo, Moves, PerFile, Single
<1>7. CASE Begun(c) \/ SendFile(c) \/ SendSettle(c)
  BY <1>1, <1>7 DEF Begun, SendFile, SendSettle, ExecThen, Returned, GoTo, Moves
<1>8. CASE SkipFile(c)
  BY <1>3, <1>8 DEF SkipFile, Moves
<1>9. CASE FileRan(c)
  BY <1>3, <1>9 DEF FileRan, Returned, Moves
<1>10. CASE Settled(c)
  BY <1>1, <1>2, <1>10 DEF Settled, Returned, Moves
<1>11. CASE SendEnd(c) \/ SendRollback(c)
  BY <1>1, <1>11 DEF SendEnd, SendRollback, ExecThen, Returned, GoTo, Moves
<1>12. CASE Caught(c)
  BY <1>1, <1>2, <1>12 DEF Caught, Returned, Exit, GoTo, Moves
<1> QED
  BY <1>4, <1>5, <1>6, <1>7, <1>8, <1>9, <1>10, <1>11, <1>12 DEF Step

\* The files that a run has still before it.
Rest(c) == Len(Files(c)) + 1 - i[c]

\* The measure of each stage, before and after a step.
LEMMA Stages ==
    ASSUME NEW c \in Client
    PROVE  /\ pc[c] = "connect" => Ahead(c) = 10 * Rest(c) + 11
           /\ pc[c] = "open" => Ahead(c) = 10 * Rest(c) + 10
           /\ pc[c] = "loop" => Ahead(c) = 10 * Rest(c) + 8
           /\ pc[c] = "file" => Ahead(c) = 10 * Rest(c) + 6
           /\ pc[c] = "running" => Ahead(c) = 10 * Rest(c) + 5
           /\ pc[c] = "settle" => Ahead(c) = 10 * Rest(c) + 4
           /\ pc[c] = "settling" => Ahead(c) = 10 * Rest(c) + 3
           /\ pc[c] = "opening" => Ahead(c) = 10 * Rest(c) + (IF Single(c) THEN 9 ELSE 7)
           /\ pc[c] = "catching" => Ahead(c) = IF Single(c) THEN 1 ELSE 10 * Rest(c) + 2
           /\ pc[c] = "end" => Ahead(c) = 5
           /\ pc[c] = "ending" => Ahead(c) = 4
           /\ pc[c] = "done" => Ahead(c) = 0
BY DEF Ahead, Rest

LEMMA StagesAfter ==
    ASSUME NEW c \in Client
    PROVE  /\ pc'[c] = "connect" => Ahead(c)' = 10 * Rest(c)' + 11
           /\ pc'[c] = "open" => Ahead(c)' = 10 * Rest(c)' + 10
           /\ pc'[c] = "loop" => Ahead(c)' = 10 * Rest(c)' + 8
           /\ pc'[c] = "file" => Ahead(c)' = 10 * Rest(c)' + 6
           /\ pc'[c] = "running" => Ahead(c)' = 10 * Rest(c)' + 5
           /\ pc'[c] = "settle" => Ahead(c)' = 10 * Rest(c)' + 4
           /\ pc'[c] = "settling" => Ahead(c)' = 10 * Rest(c)' + 3
           /\ pc'[c] = "opening" => Ahead(c)' = 10 * Rest(c)' + (IF Single(c)' THEN 9 ELSE 7)
           /\ pc'[c] = "catching" => Ahead(c)' = IF Single(c)' THEN 1 ELSE 10 * Rest(c)' + 2
           /\ pc'[c] = "end" => Ahead(c)' = 5
           /\ pc'[c] = "ending" => Ahead(c)' = 4
           /\ pc'[c] = "done" => Ahead(c)' = 0
BY DEF Ahead, Rest

\* Each way from stage to stage leads down.
LEMMA MovesGoDown ==
    ASSUME AMInv, NEW c \in Client, Place(c), Moves(c), opts' = opts, pc[c] # "done"
    PROVE  /\ Place(c)'
           /\ pc[c] # "gate" => pc'[c] # "gate" /\ Ahead(c)' \in 0 .. Ahead(c) - 1
<1>1. /\ i[c] \in Nat \ {0} /\ pc[c] \in Labels /\ Ctl(c)
  BY TypesOf DEF CommandTypes
<1>2. Files(c)' = Files(c) /\ Single(c)' = Single(c)
  BY DEF Files, Single
<1>3. CASE pc'[c] = "done"
  <2>1. Place(c)'
    BY <1>3 DEF Place, OneFile
  <2>2. ASSUME pc[c] # "gate" PROVE Ahead(c)' \in 0 .. Ahead(c) - 1
    <3>1. Len(Files(c)) \in Nat
      BY <1>1, <2>2, Positions, TypesOf DEF Ctl
    <3>2. Ahead(c)' = 0
      BY <1>3 DEF Ahead
    <3>3. pc[c] \notin {"catching", "end", "ending"} => i[c] <= Len(Files(c)) + 1
      BY <1>1, <2>2, <3>1 DEF Place, OneFile, Labels, Ctl
    <3>4. pc[c] = "catching" /\ ~Single(c) => i[c] <= Len(Files(c))
      BY DEF Place
    <3>5. pc[c] \notin {"catching", "end", "ending"} => Rest(c) \in Nat
      BY <1>1, <3>1, <3>3 DEF Rest
    <3>6. pc[c] = "catching" /\ ~Single(c) => Rest(c) \in Nat
      BY <1>1, <3>1, <3>4 DEF Rest
    <3>7. Ahead(c) \in Nat \ {0}
      BY <1>1, <2>2, <3>5, <3>6, Stages DEF Labels
    <3> QED
      BY <3>2, <3>7
  <2> QED
    BY <1>3, <2>1, <2>2
<1>4. CASE pc[c] = "gate" /\ pc'[c] = "connect"
  BY <1>4 DEF Place, OneFile
<1>5. CASE pc[c] # "gate" /\ pc'[c] # "done"
  <2>1. Len(Files(c)) \in Nat
    BY <1>1, <1>5, Positions, TypesOf DEF Ctl
  <2>2. Place(c)'
    BY <1>1, <1>2, <1>5, <2>1 DEF Place, Moves, OneFile, Turned, AtEnd, Ctl
  <2>3. /\ i'[c] = i[c] => Rest(c)' = Rest(c)
        /\ i'[c] = i[c] + 1 => Rest(c)' = Rest(c) - 1
        /\ i[c] <= Len(Files(c)) => Rest(c) \in Nat \ {0}
        /\ i[c] <= Len(Files(c)) + 1 => Rest(c) \in Nat
    BY <1>1, <1>2, <2>1 DEF Rest
  <2>4. pc'[c] # "gate" /\ Ahead(c)' \in 0 .. Ahead(c) - 1
    <3>1. CASE pc[c] = "connect"
      BY <1>1, <1>2, <1>5, <2>1, <2>3, <3>1, Stages, StagesAfter
         DEF Place, Moves, OneFile, Turned, AtEnd, Ctl
    <3>2. CASE pc[c] = "open"
      BY <1>1, <1>2, <1>5, <2>1, <2>3, <3>2, Stages, StagesAfter
         DEF Place, Moves, OneFile, Turned, AtEnd, Ctl
    <3>3. CASE pc[c] = "loop" /\ pc'[c] # "ending"
      BY <1>1, <1>2, <1>5, <2>1, <2>3, <3>3, Stages, StagesAfter
         DEF Place, Moves, OneFile, Turned, AtEnd, Ctl
    <3>4. CASE (pc[c] = "loop" /\ pc'[c] = "ending") \/ pc[c] = "end"
      BY <1>1, <1>2, <1>5, <2>1, <2>3, <3>4, Stages, StagesAfter
         DEF Place, Moves, OneFile, Turned, AtEnd, Ctl
    <3>5. CASE pc[c] = "opening"
      BY <1>1, <1>2, <1>5, <2>1, <2>3, <3>5, Stages, StagesAfter
         DEF Place, Moves, OneFile, Turned, AtEnd, Ctl
    <3>6. CASE pc[c] = "file"
      BY <1>1, <1>2, <1>5, <2>1, <2>3, <3>6, Stages, StagesAfter
         DEF Place, Moves, OneFile, Turned, AtEnd, Ctl
    <3>9. CASE pc[c] = "running"
      BY <1>1, <1>2, <1>5, <2>1, <2>3, <3>9, Stages, StagesAfter
         DEF Place, Moves, OneFile, Turned, AtEnd, Ctl
    <3>7. CASE pc[c] \in {"settle", "settling"}
      BY <1>1, <1>2, <1>5, <2>1, <2>3, <3>7, Stages, StagesAfter
         DEF Place, Moves, OneFile, Turned, AtEnd, Ctl
    <3>8. CASE pc[c] \in {"catching", "ending"}
      BY <1>1, <1>2, <1>5, <2>1, <2>3, <3>8, Stages, StagesAfter
         DEF Place, Moves, OneFile, Turned, AtEnd, Ctl
    <3> QED
      BY <1>1, <1>5, <3>1, <3>2, <3>3, <3>4, <3>5, <3>6, <3>7, <3>8, <3>9
         DEF Labels, Moves
  <2> QED
    BY <2>2, <2>4
<1> QED
  BY <1>3, <1>4, <1>5 DEF Moves, AtEnd

\* Where process d is does not change.
Stays(d) == /\ pc'[d] = pc[d] /\ i'[d] = i[d]
            /\ phase'[d] = phase[d] /\ script'[d] = script[d] /\ at'[d] = at[d]

LEMMA OthersStay ==
    ASSUME AMInv, NEW c \in Client, Step(c) \/ OpenFails(c) \/ Kill(c) \/ Rerun(c) \/ Session(c),
           NEW d \in Client \ {c}
    PROVE  Stays(d)
<1>1. /\ pc \in [Client -> Labels] /\ i \in [Client -> Nat \ {0}] /\ PgTypeOK
  BY TypesOf DEF CommandTypes
<1>2. ASSUME NEW ok \in BOOLEAN, Continue(c, ok) PROVE pc'[d] = pc[d] /\ i'[d] = i[d]
  <2>1. CASE ok \/ opts[c].cont
    BY <1>1, <1>2, <2>1 DEF Continue, GoTo
  <2>2. CASE ~(ok \/ opts[c].cont)
    BY <1>1, <1>2, <2>2 DEF Continue, GoTo
  <2> QED
    BY <2>1, <2>2
<1>3. ASSUME NEW ok \in BOOLEAN, AfterFile(c, ok) PROVE pc'[d] = pc[d] /\ i'[d] = i[d]
  BY <1>1, <1>2, <1>3 DEF AfterFile, GoTo
<1>4. CASE Usage(c) \/ Decline(c) \/ OpenFails(c) \/ Ended(c) \/ Finish(c)
  BY <1>1, <1>4 DEF Usage, Decline, OpenFails, ConnectFails, Ended, Finish, Exit, Disconnect,
     GoTo, clientVars, Stays
<1>5. CASE Kill(c)
  BY <1>1, <1>5 DEF Kill, Crash, EndSession, GoTo, PgTypeOK, Stays
<1>6. CASE Proceed(c) \/ Open(c) \/ NextFile(c) \/ Begun(c) \/ Rerun(c)
  BY <1>1, <1>6 DEF Proceed, Open, Connect, NextFile, Begun, Rerun, GoTo, pgVars, clientVars,
     Stays
<1>7. ASSUME NEW text, NEW l, ExecThen(c, text, l), i' = i PROVE Stays(d)
  BY <1>1, <1>7 DEF ExecThen, Exec, Call, Refuse, GoTo, PgTypeOK, Stays
<1>8. CASE SendBegin(c) \/ SendFile(c) \/ SendSettle(c) \/ SendEnd(c) \/ SendRollback(c)
  BY <1>7, <1>8 DEF SendBegin, SendFile, SendSettle, SendEnd, SendRollback
<1>9. CASE SkipFile(c) \/ FileRan(c)
  BY <1>3, <1>9 DEF SkipFile, FileRan, pgVars, clientVars, Stays
<1>10. CASE Settled(c)
  <2>1. fileOk[c] \in BOOLEAN
    BY TypesOf DEF CommandTypes
  <2> QED
    BY <1>2, <1>10, <2>1 DEF Settled, pgVars, clientVars, Stays
<1>11. CASE Caught(c)
  BY <1>1, <1>2, <1>11 DEF Caught, Exit, Disconnect, GoTo, pgVars, clientVars, Stays
<1>12. CASE Session(c)
  BY <1>12, <1>1 DEF Session, amVars, Dialogue, SessionFault, Begin, RunStmt, RunBegin, RunEnd,
     Reject, Victim, EndScript, Commit, Reply, Abort, GiveUp, CommitReject, Lose, EndSession,
     FailBlock, serverVars, PgTypeOK, Stays
<1> QED
  BY <1>4, <1>5, <1>6, <1>8, <1>9, <1>10, <1>11, <1>12 DEF Step

\* Nor do its connection and the answer to its last call.
LEMMA OthersKeepAnswer ==
    ASSUME AMInv, NEW c \in Client, Step(c) \/ OpenFails(c) \/ Kill(c) \/ Rerun(c) \/ Session(c),
           NEW d \in Client \ {c}
    PROVE  conn'[d] = conn[d] /\ outcome'[d] = outcome[d]
<1>1. PgTypeOK
  BY TypesOf
<1>2. CASE UNCHANGED pgVars
  BY <1>2 DEF pgVars, clientVars
<1>3. CASE Step(c) /\ ~UNCHANGED pgVars
  <2>1. \/ Disconnect(c) \/ Connect(c) \/ \E text : Exec(c, text)
    BY <1>3 DEF Step, Usage, Decline, Proceed, Open, SendBegin, Begun, NextFile, SkipFile,
       SendFile, FileRan, SendSettle, Settled, SendEnd, Ended, Finish, SendRollback, Caught,
       Exit, ExecThen
  <2> QED
    BY <1>1, <2>1 DEF Disconnect, Connect, Exec, Call, Refuse, PgTypeOK
<1>4. CASE OpenFails(c) \/ Kill(c) \/ Rerun(c)
  BY <1>1, <1>4 DEF OpenFails, ConnectFails, Kill, Crash, Rerun, pgVars, clientVars, PgTypeOK
<1>5. CASE Session(c)
  BY <1>1, <1>5 DEF Session, Dialogue, SessionFault, Begin, RunStmt, RunBegin, RunEnd, Reject,
     Victim, EndScript, Commit, Reply, Abort, GiveUp, CommitReject, Lose, EndSession, FailBlock,
     serverVars, PgTypeOK
<1> QED
  BY <1>2, <1>3, <1>4, <1>5

\* No step of anybody moves a process back.
LEMMA RunGoesOn ==
    ASSUME AMInv, AllPlaced, AllReached, [AMNext]_vars
    PROVE  /\ AllPlaced'
           /\ \A d \in Client : pc[d] \notin {"gate", "done"} => Advances(d)
<1> SUFFICES ASSUME NEW d \in Client
             PROVE  Place(d)' /\ (pc[d] \notin {"gate", "done"} => Advances(d))
  BY DEF AllPlaced
<1>1. Place(d) /\ Reached(d)
  BY DEF AllPlaced, AllReached
<1>2. opts' = opts
  BY DEF AMNext, vars, amVars, Step, Usage, Decline, Proceed, Open, SendBegin, Begun, NextFile,
     SkipFile, SendFile, FileRan, SendSettle, Settled, SendEnd, Ended, Finish, SendRollback,
     Caught, OpenFails, Session, Kill, Rerun, Server
<1>3. ASSUME Stays(d) PROVE Place(d)' /\ (pc[d] \notin {"gate", "done"} => Advances(d))
  BY <1>1, <1>2, <1>3 DEF Stays, Place, OneFile, Files, Single, Advances, Onward
<1>4. CASE UNCHANGED vars \/ Server
  BY <1>3, <1>4 DEF vars, pgVars, clientVars, amVars, Server, Land, Drop, Stays
<1>5. ASSUME NEW c \in Client, c # d,
             Step(c) \/ OpenFails(c) \/ Kill(c) \/ Rerun(c) \/ Session(c)
      PROVE  Place(d)' /\ (pc[d] \notin {"gate", "done"} => Advances(d))
  BY <1>3, <1>5, OthersStay
<1>6. CASE Step(d) \/ OpenFails(d) \/ Kill(d)
  <2>1. pc[d] # "done"
    BY <1>6 DEF Step, Usage, Decline, Proceed, Valid, Open, SendBegin, Begun, NextFile, SkipFile,
       SendFile, FileRan, SendSettle, Settled, SendEnd, Ended, Finish, AtEnd, SendRollback,
       Caught, OpenFails, Kill, Returned
  <2> QED
    BY <1>1, <1>2, <1>6, <2>1, StepMoves, MovesGoDown DEF Advances
<1>7. CASE Rerun(d)
  <2>1. pc[d] = "done" /\ pc'[d] = "gate"
    BY <1>7, TypesOf DEF Rerun, GoTo, CommandTypes
  <2> QED
    BY <2>1 DEF Place, OneFile
<1>8. CASE Session(d)
  <2>1. PgTypeOK /\ UNCHANGED <<pc, i>>
    BY <1>8, TypesOf DEF Session, amVars
  <2>2. Onward(d)
    BY <1>1, <1>8, <2>1, DialogueGoesOn DEF Session
  <2>3. Place(d)'
    BY <1>1, <1>2, <2>1 DEF Place, OneFile, Files, Single
  <2> QED
    BY <2>1, <2>2, <2>3 DEF Advances
<1> QED
  BY <1>4, <1>5, <1>6, <1>7, <1>8 DEF AMNext

(* A run comes to every file and every control statement at most once, for any *)
(* directories, options, processes and faults: each of its steps, and each of  *)
(* the dialogue and the faults of its calls, brings it nearer to its end.      *)
THEOREM RunsForward == AMSpec => RunsGoForward
<1>1. Init => AllPlaced /\ AllReached
  BY DEF Init, PgInit, PgIdle, AllPlaced, Place, OneFile, AllReached, Reached
<1>2. ASSUME AMInv, AllPlaced, AllReached, [AMNext]_vars
      PROVE  /\ AllPlaced' /\ AllReached'
             /\ [\A c \in Client : pc[c] \notin {"gate", "done"} => Advances(c)]_vars
  BY <1>2, RunGoesOn, DrivesExecutor, GoesOn, TypesOf DEF AMInv, PgInv
<1> QED
  BY <1>1, <1>2, AMInvariant, PTL DEF AMSpec, RunsGoForward

-----------------------------------------------------------------------------
(* No standstill.                                                            *)

\* From its connection to its end a run has its executor, and every call that has
\* returned has an answer.
Equipped(c) == /\ pc[c] \notin {"gate", "connect", "done"} => conn[c] # "none"
               /\ (pc[c] \in Calling /\ phase[c] = "idle") => outcome[c] \in {"ok", "error"}

AllEquipped == \A c \in Client : Equipped(c)

\* The process's own steps.
LEMMA StepEquips ==
    ASSUME AMInv, NEW c \in Client, Equipped(c), Step(c) \/ OpenFails(c) \/ Kill(c) \/ Rerun(c)
    PROVE  Equipped(c)'
<1>1. /\ pc \in [Client -> Labels] /\ i \in [Client -> Nat \ {0}]
      /\ fileOk \in [Client -> BOOLEAN] /\ PgTypeOK
  BY TypesOf DEF CommandTypes
<1>2. ASSUME NEW ok \in BOOLEAN, Continue(c, ok) PROVE pc'[c] \in {"loop", "end"}
  <2>1. CASE ok \/ opts[c].cont
    BY <1>1, <1>2, <2>1 DEF Continue, GoTo
  <2>2. CASE ~(ok \/ opts[c].cont)
    BY <1>1, <1>2, <2>2 DEF Continue, GoTo
  <2> QED
    BY <2>1, <2>2
<1>3. ASSUME NEW ok \in BOOLEAN, AfterFile(c, ok) PROVE pc'[c] \in {"loop", "end", "settle"}
  BY <1>1, <1>2, <1>3 DEF AfterFile, GoTo
<1>4. CASE pc'[c] \in {"gate", "connect", "done"}
  BY <1>4 DEF Equipped, Calling
<1>5. CASE Usage(c) \/ Decline(c) \/ OpenFails(c) \/ Ended(c) \/ Finish(c) \/ Kill(c)
           \/ Proceed(c) \/ Rerun(c)
  BY <1>1, <1>4, <1>5 DEF Usage, Decline, OpenFails, Ended, Finish, Kill, Proceed, Rerun, Exit,
     GoTo
<1>6. CASE Open(c)
  <2>1. conn'[c] = "open" /\ pc'[c] \in {"open", "loop"}
    BY <1>1, <1>6 DEF Open, Connect, GoTo, PgTypeOK
  <2> QED
    BY <2>1 DEF Equipped, Calling
<1>7. ASSUME NEW text, NEW l \in Calling, ExecThen(c, text, l) PROVE Equipped(c)'
  <2>1. /\ conn' = conn /\ conn[c] # "none"
        /\ phase'[c] # "idle" \/ outcome'[c] = "error"
    BY <1>1, <1>7 DEF ExecThen, Exec, Call, Refuse, PgTypeOK
  <2> QED
    BY <2>1 DEF Equipped
<1>8. CASE SendBegin(c) \/ SendFile(c) \/ SendSettle(c) \/ SendEnd(c) \/ SendRollback(c)
  BY <1>7, <1>8 DEF SendBegin, SendFile, SendSettle, SendEnd, SendRollback, Calling
<1>9. ASSUME conn' = conn, pc[c] \notin {"gate", "connect", "done"}, pc'[c] \notin Calling
      PROVE  Equipped(c)'
  BY <1>9 DEF Equipped
<1>10. CASE Begun(c) \/ NextFile(c)
  BY <1>1, <1>9, <1>10 DEF Begun, NextFile, Returned, GoTo, pgVars, clientVars, Calling
<1>11. CASE SkipFile(c) \/ FileRan(c)
  BY <1>3, <1>9, <1>11 DEF SkipFile, FileRan, Returned, pgVars, clientVars, Calling
<1>12. CASE Settled(c)
  BY <1>1, <1>2, <1>9, <1>12 DEF Settled, Returned, pgVars, clientVars, Calling
<1>13. CASE Caught(c)
  <2>1. CASE Single(c)
    BY <1>1, <1>4, <1>13, <2>1 DEF Caught, Exit, GoTo
  <2>2. CASE ~Single(c)
    BY <1>2, <1>9, <1>13, <2>2 DEF Caught, Returned, pgVars, clientVars, Calling
  <2> QED
    BY <2>1, <2>2
<1> QED
  BY <1>5, <1>6, <1>8, <1>10, <1>11, <1>12, <1>13 DEF Step

\* The dialogue and its faults: a call that returns has an answer.
LEMMA SessionEquips ==
    ASSUME AMInv, NEW c \in Client, Equipped(c), Session(c)
    PROVE  Equipped(c)'
<1>1. PgTypeOK /\ Ctl(c) /\ pc' = pc
  BY TypesOf DEF Session, amVars
<1>2. pc[c] \in Calling
  BY <1>1, SessionChanges DEF Session, Ctl
<1>3. conn[c] # "none"
  BY <1>2 DEF Equipped, Calling
<1>4. conn'[c] = conn[c] \/ conn'[c] = "lost"
  BY <1>1 DEF Session, Dialogue, SessionFault, Begin, RunStmt, RunBegin, RunEnd, Reject, Victim,
     EndScript, Commit, Reply, Abort, GiveUp, CommitReject, Lose, EndSession, FailBlock,
     serverVars, PgTypeOK
<1>5. phase'[c] # "idle" \/ outcome'[c] \in {"ok", "error"}
  <2>1. CASE Reply(c) \/ Abort(c) \/ Lose(c)
    BY <1>1, <2>1 DEF Reply, Abort, Lose, EndSession, PgTypeOK
  <2>2. CASE CommitReject(c)
    BY <1>1, <2>2 DEF CommitReject, PgTypeOK
  <2>3. CASE ~(Reply(c) \/ Abort(c) \/ Lose(c) \/ CommitReject(c))
    <3>1. phase[c] # "idle"
      BY SessionChanges DEF Session
    <3> QED
      BY <1>1, <2>3, <3>1 DEF Session, Dialogue, SessionFault, Begin, RunStmt, RunBegin, RunEnd,
         Reject, Victim, EndScript, Commit, GiveUp, FailBlock, PgTypeOK
  <2> QED
    BY <2>1, <2>2, <2>3
<1> QED
  BY <1>1, <1>3, <1>4, <1>5 DEF Equipped

\* Steps of others leave a process equipped.
LEMMA EquippedStays ==
    ASSUME AMInv, AllEquipped, [AMNext]_vars
    PROVE  AllEquipped'
<1> SUFFICES ASSUME NEW d \in Client PROVE Equipped(d)'
  BY DEF AllEquipped
<1>1. Equipped(d) /\ PgTypeOK
  BY TypesOf DEF AllEquipped
<1>2. ASSUME pc'[d] = pc[d], conn'[d] = conn[d], phase'[d] = phase[d], outcome'[d] = outcome[d]
      PROVE  Equipped(d)'
  BY <1>1, <1>2 DEF Equipped
<1>3. CASE UNCHANGED vars \/ Server
  BY <1>2, <1>3 DEF vars, pgVars, clientVars, amVars, Server, Land, Drop
<1>4. CASE Step(d) \/ OpenFails(d) \/ Kill(d) \/ Rerun(d) \/ Session(d)
  BY <1>1, <1>4, StepEquips, SessionEquips
<1>5. ASSUME NEW c \in Client, c # d,
             Step(c) \/ OpenFails(c) \/ Kill(c) \/ Rerun(c) \/ Session(c)
      PROVE  Equipped(d)'
  <2>1. pc'[d] = pc[d] /\ phase'[d] = phase[d]
    BY <1>5, OthersStay DEF Stays
  <2>2. [NextWith(Texts)]_pgVars
    BY <1>5, DrivesExecutor DEF AMNext
  <2>3. conn'[d] = conn[d] /\ outcome'[d] = outcome[d]
    BY <1>1, <1>5, OthersKeepAnswer
  <2> QED
    BY <1>2, <2>1, <2>3
<1> QED
  BY <1>3, <1>4, <1>5 DEF AMNext

\* A run that is not done can go on, or one that waits stands in no circle.
LEMMA SomebodyMoves == ASSUME AMInv, AllEquipped PROVE RunsNotStuck
<1> SUFFICES ASSUME NEW c \in Client, pc[c] # "done", orphan = {}
             PROVE  \E d \in Client : /\ pc[d] # "done"
                                      /\ CanGoOn(d) \/ (phase[d] # "idle" /\ ~Blocked(d))
  BY DEF RunsNotStuck
<1>1. CASE phase[c] = "idle"
  <2>1. Ctl(c) /\ Equipped(c)
    BY TypesOf DEF AllEquipped
  <2> QED
    BY <1>1, <2>1 DEF Ctl, Equipped, CanGoOn, Calling
<1>2. CASE phase[c] # "idle"
  <2>1. PICK d \in Client : phase[d] # "idle" /\ ~Blocked(d)
    BY <1>2, CircleOfAll DEF AMInv, NoStandstill
  <2>2. pc[d] # "done"
    BY <2>1, TypesOf DEF Ctl, Calling
  <2> QED
    BY <2>1, <2>2
<1> QED
  BY <1>1, <1>2

(* The commands never come to a standstill, for any directories, options,     *)
(* processes and faults.                                                      *)
THEOREM NeverStuck == AMSpec => []RunsNotStuck
<1>1. Init => AllEquipped
  BY DEF Init, AllEquipped, Equipped, Calling
<1> QED
  BY <1>1, EquippedStays, SomebodyMoves, AMInvariant, PTL DEF AMSpec
=============================================================================
