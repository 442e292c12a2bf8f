---------------------------- MODULE CreateProofs ----------------------------
(***************************************************************************)
(* Proofs about CreateDatabase, for any processes, options and catalogs.     *)
(* The text for the role is not run as the statement it may turn into, so    *)
(* the invariant of PgProofs does not hold here; CdInv says what the server  *)
(* owes to the text of the command instead: its object is in the catalog or  *)
(* among the changes of the session.                                         *)
(***************************************************************************)
EXTENDS CreateRefinement, TLAPS

InCall(c) == pc[c] \in {"role_sent", "database_sent"}

\* The object that the text under way is about.
Target(c) == IF pc[c] = "role_sent" THEN opts[c].owner ELSE opts[c].name

\* How far the server is with the text.
InText(c) ==
    /\ ~InCall(c) => phase[c] = "idle"
    /\ InCall(c) => script[c] = <<Target(c)>>
    /\ phase[c] = "begin" => at[c] = 1
    /\ phase[c] = "run" => at[c] = 1 \/ (at[c] = 2 /\ Target(c) \in db \cup pend[c])
    /\ phase[c] = "commit" => Target(c) \in db \cup pend[c]
    /\ phase[c] = "committed" => Target(c) \in db
    /\ (InCall(c) /\ phase[c] = "idle" /\ outcome[c] = "ok") => Target(c) \in db

\* What the process has found out and what it may do.
InCommand(c) ==
    /\ pc[c] \in {"confirm_role", "role_sent", "confirm_database", "database_sent"}
           => opts[c].force /\ ~opts[c].dry
    /\ (pc[c] \in {"database", "confirm_database", "database_sent"} /\ ~opts[c].dry)
           => opts[c].owner \in db
    /\ (exit[c] = "0" /\ Unattended(c)) => {opts[c].owner, opts[c].name} \subseteq db
    /\ exit[c] = "none" <=> pc[c] # "done"

OwnChanges(c) ==
    /\ phase[c] \in {"idle", "begin", "committed", "abort"} => pend[c] = {}
    /\ pend[c] \subseteq {Target(c)}

RunInv(c) == InText(c) /\ InCommand(c) /\ OwnChanges(c)

\* The run does not end, or has not ended, with exit code 0.
Failing(c) == \/ exit[c] \in {"1", "killed"}
              \/ InCall(c) /\ phase[c] = "idle" /\ outcome[c] # "ok"

\* A COMMIT in doubt is that of a run that fails.
Doubtful(c, p) ==
    /\ Failing(c)
    /\ opts[c].force /\ ~opts[c].dry
    /\ \/ p \subseteq {opts[c].owner}
       \/ p \subseteq {opts[c].name} /\ opts[c].owner \in db

Doubts == \A p \in orphan : \E c \in Client : Doubtful(c, p)

CdInv == /\ TypeOK
         /\ \A c \in Client : RunInv(c)
         /\ Doubts

-----------------------------------------------------------------------------

LEMMA OptionTypes ==
    ASSUME TypeOK, NEW c \in Client
    PROVE  /\ opts[c].owner \in Stmt /\ opts[c].owner \in Role
           /\ opts[c].name \in Stmt /\ opts[c].name \in Outside
BY OptionsAssumption, ObjectAssumption DEF TypeOK

LEMMA InitHolds == Init => CdInv
<1> SUFFICES ASSUME Init PROVE CdInv
    OBVIOUS
<1>1. TypeOK
    BY FaultsAssumption, CatalogAssumption DEF Init, PgIdle, TypeOK, PgTypeOK
<1>2. ASSUME NEW c \in Client PROVE RunInv(c)
    BY DEF Init, PgIdle, RunInv, InText, InCall, InCommand, OwnChanges
<1>3. Doubts
    BY DEF Init, PgIdle, Doubts
<1> QED BY <1>1, <1>2, <1>3 DEF CdInv

\* A run is not disturbed by the steps of others: the catalog only grows.
LEMMA OthersKeep ==
    ASSUME CdInv, NEW d \in Client, db \subseteq db', opts' = opts,
           pc'[d] = pc[d], exit'[d] = exit[d], phase'[d] = phase[d], script'[d] = script[d],
           at'[d] = at[d], outcome'[d] = outcome[d], pend'[d] = pend[d]
    PROVE  RunInv(d)'
<1>1. RunInv(d) /\ Target(d)' = Target(d) /\ InCall(d)' = InCall(d)
    BY DEF CdInv, Target, InCall
<1>2. InText(d)'
    BY <1>1 DEF RunInv, InText
<1>3. InCommand(d)'
    BY <1>1 DEF RunInv, InCommand, Unattended
<1>4. OwnChanges(d)'
    BY <1>1 DEF RunInv, OwnChanges
<1> QED BY <1>2, <1>3, <1>4 DEF RunInv

\* Only c takes part in the step.
Alone(c) == \A d \in Client \ {c} :
                /\ pc'[d] = pc[d] /\ exit'[d] = exit[d] /\ phase'[d] = phase[d]
                /\ script'[d] = script[d] /\ at'[d] = at[d] /\ outcome'[d] = outcome[d]
                /\ pend'[d] = pend[d]

\* In the middle of a call nothing has failed yet.
LEMMA NotFailing ==
    ASSUME CdInv, NEW c \in Client, phase[c] # "idle"
    PROVE  ~Failing(c) /\ InCall(c) /\ pc[c] # "done"
BY DEF CdInv, RunInv, InText, InCommand, InCall, Failing

\* Nor between the calls.
LEMMA StillWell ==
    ASSUME CdInv, NEW c \in Client, pc[c] # "done", InCall(c) => outcome[c] = "ok"
    PROVE  ~Failing(c)
BY DEF CdInv, RunInv, InCommand, Failing

\* A doubt lasts until the server settles it: whoever failed stays failed.
LEMMA DoubtsStay ==
    ASSUME CdInv, NEW c \in Client, Alone(c), opts' = opts, db \subseteq db',
           Failing(c) => Failing(c)', NEW p \in orphan
    PROVE  \E d \in Client : Doubtful(d, p)'
<1>1. PICK d \in Client : Doubtful(d, p)
    BY DEF CdInv, Doubts
<1>2. Failing(d)'
    BY <1>1 DEF Doubtful, Failing, InCall, Alone
<1> QED BY <1>1, <1>2 DEF Doubtful

\* What is left to show of a step of one process.
LEMMA OwnStep ==
    ASSUME CdInv, NEW c \in Client, TypeOK', Alone(c), RunInv(c)',
           UNCHANGED <<db, orphan, opts>>, Failing(c) => Failing(c)'
    PROVE  CdInv'
<1>1. ASSUME NEW d \in Client PROVE RunInv(d)'
    BY OthersKeep DEF Alone
<1>2. Doubts'
    BY DoubtsStay DEF Doubts
<1> QED BY <1>1, <1>2 DEF CdInv

-----------------------------------------------------------------------------
(* The process.                                                              *)

LEMMA DisconnectOnly ==
    ASSUME CdInv, NEW c \in Client, pc[c] \in {"gate", "role", "database", "confirm_role",
           "confirm_database", "role_sent", "database_sent"},
           NEW code \in {"0", "1", "2", "killed"}, Exit(c, code),
           UNCHANGED <<opts, absent>>,
           InCall(c) => outcome[c] = "ok" \/ code = "1",
           (code = "0" /\ Unattended(c)) => {opts[c].owner, opts[c].name} \subseteq db
    PROVE  CdInv'
<1>1. TypeOK /\ RunInv(c)
    BY DEF CdInv
<1>2. TypeOK'
    BY <1>1 DEF Exit, GoTo, Disconnect, TypeOK, PgTypeOK, serverVars
<1>3. Alone(c) /\ UNCHANGED <<db, orphan>>
    BY <1>1 DEF Exit, GoTo, Disconnect, Alone, TypeOK, serverVars
<1>4. /\ pc'[c] = "done" /\ exit'[c] = code /\ phase[c] = "idle" /\ opts' = opts
      /\ UNCHANGED <<phase, script, at, outcome, pend, db>>
    BY <1>1 DEF Exit, GoTo, Disconnect, TypeOK, serverVars
<1>5. InText(c)'
    BY <1>4 DEF InText, InCall
<1>6. InCommand(c)'
    BY <1>1, <1>4 DEF InCommand, Unattended
<1>7. OwnChanges(c)'
    BY <1>1, <1>4 DEF OwnChanges, RunInv
<1>8. Failing(c) => Failing(c)'
    <2>1. CASE code = "1"
        BY <1>4, <2>1 DEF Failing
    <2>2. CASE code # "1"
        BY <2>2, StillWell
    <2> QED BY <2>1, <2>2
<1> QED BY <1>2, <1>3, <1>5, <1>6, <1>7, <1>8, OwnStep DEF RunInv

LEMMA ContinueOnly ==
    ASSUME CdInv, NEW c \in Client, phase[c] = "idle", pc[c] # "done",
           InCall(c) => outcome[c] = "ok",
           NEW l \in {"connect", "role", "confirm_role", "database", "confirm_database"},
           GoTo(c, l), UNCHANGED <<phase, script, at, outcome, serverVars, exit, faults>>,
           conn' \in [Client -> {"none", "open", "lost"}],
           UNCHANGED <<opts, absent>>,
           l \in {"confirm_role", "confirm_database"} => opts[c].force /\ ~opts[c].dry,
           (l \in {"database", "confirm_database"} /\ ~opts[c].dry) => opts[c].owner \in db
    PROVE  CdInv'
<1>1. TypeOK /\ RunInv(c)
    BY DEF CdInv
<1>2. TypeOK'
    BY <1>1 DEF GoTo, TypeOK, PgTypeOK, serverVars
<1>3. Alone(c) /\ UNCHANGED <<db, orphan>>
    BY <1>1 DEF GoTo, Alone, TypeOK, serverVars
<1>4. pc'[c] = l /\ UNCHANGED <<phase, script, at, outcome, pend, db, exit, opts>>
    BY <1>1 DEF GoTo, TypeOK, serverVars
<1>5. InText(c)'
    BY <1>4 DEF InText, InCall
<1>6. InCommand(c)'
    BY <1>1, <1>4 DEF InCommand, Unattended, RunInv
<1>7. OwnChanges(c)'
    BY <1>1, <1>4 DEF OwnChanges, RunInv
<1> QED BY <1>2, <1>3, <1>5, <1>6, <1>7, OwnStep, StillWell DEF RunInv

\* A text is sent: it begins with nothing pending.
LEMMA SendKeeps ==
    ASSUME CdInv, NEW c \in Client, SendRole(c) \/ SendDatabase(c)
    PROVE  CdInv'
<1>1. TypeOK /\ RunInv(c)
    BY DEF CdInv
<1>2. PICK l \in {"role_sent", "database_sent"} :
          /\ GoTo(c, l)
          /\ Exec(c, <<IF l = "role_sent" THEN opts[c].owner ELSE opts[c].name>>)
          /\ opts[c].force /\ ~opts[c].dry
          /\ l = "database_sent" => opts[c].owner \in db
          /\ exit[c] = "none" /\ pc[c] # "done" /\ ~InCall(c)
    BY <1>1 DEF SendRole, SendDatabase, RunInv, InCommand, InCall
<1>3. /\ absent' \in [Client -> BOOLEAN]
      /\ UNCHANGED <<opts, exit, conn, serverVars, faults>>
    BY <1>1, <1>2 DEF SendRole, SendDatabase, Exec, Call, Refuse, TypeOK
<1> DEFINE x == IF l = "role_sent" THEN opts[c].owner ELSE opts[c].name
<1>4. x \in Stmt /\ <<x>> \in Seq(Stmt \cup Control)
    BY <1>1, OptionTypes
<1>5. /\ pc' = [pc EXCEPT ![c] = l]
      /\ script' = [script EXCEPT ![c] = <<x>>]
      /\ at' = [at EXCEPT ![c] = 1]
      /\ \/ phase' = [phase EXCEPT ![c] = "begin"] /\ outcome' = [outcome EXCEPT ![c] = "none"]
         \/ phase' = phase /\ outcome' = [outcome EXCEPT ![c] = "error"]
      /\ phase[c] = "idle"
    BY <1>2 DEF Exec, Call, Refuse, GoTo
<1> HIDE DEF x
<1>6. TypeOK'
    <2>1. PgTypeOK'
        <3>1. script' \in [Client -> Seq(Stmt \cup Control)]
            BY <1>1, <1>4, <1>5 DEF TypeOK, PgTypeOK
        <3>2. at' \in [Client -> Nat \ {0}]
            BY <1>1, <1>5 DEF TypeOK, PgTypeOK
        <3> QED BY <1>1, <1>3, <1>5, <3>1, <3>2 DEF TypeOK, PgTypeOK, serverVars
    <2>2. pc' \in [Client -> {"gate", "connect", "role", "confirm_role", "role_sent",
                              "database", "confirm_database", "database_sent", "done"}]
        BY <1>1, <1>5 DEF TypeOK
    <2> QED BY <1>1, <1>3, <2>1, <2>2 DEF TypeOK
<1>7. Alone(c)
    BY <1>1, <1>3, <1>5 DEF Alone, TypeOK, PgTypeOK, serverVars
<1>8. /\ pc'[c] = l /\ script'[c] = <<x>> /\ at'[c] = 1 /\ UNCHANGED <<opts, db, pend, exit>>
      /\ \/ phase'[c] = "begin" /\ outcome'[c] = "none"
         \/ phase'[c] = "idle" /\ outcome'[c] = "error"
    BY <1>1, <1>3, <1>5 DEF TypeOK, PgTypeOK, serverVars
<1>9. Target(c)' = x
    BY <1>8 DEF Target, x
<1>10. InText(c)'
    BY <1>8, <1>9 DEF InText, InCall
<1>11. InCommand(c)'
    BY <1>2, <1>8 DEF InCommand, Unattended
<1>12. OwnChanges(c)'
    BY <1>1, <1>5, <1>8 DEF OwnChanges, RunInv
<1> QED BY <1>2, <1>3, <1>6, <1>7, <1>10, <1>11, <1>12, OwnStep, StillWell DEF RunInv, serverVars

LEMMA ProcessKeeps == ASSUME CdInv, NEW c \in Client, Step(c) PROVE CdInv'
<1>1. TypeOK /\ RunInv(c)
    BY DEF CdInv
<1>2. CASE Usage(c) \/ Interrupt(c)
    BY <1>2, DisconnectOnly DEF InCall, Usage, Interrupt
<1>3. CASE Start(c)
    BY <1>1, <1>3, ContinueOnly
       DEF Start, Continue, TypeOK, PgTypeOK, RunInv, InText, InCall, pgVars, clientVars
<1>4. CASE Open(c)
    BY <1>1, <1>4, ContinueOnly DEF Open, Connect, TypeOK, PgTypeOK, RunInv, InText, InCall
<1>5. CASE ProbeRole(c)
    <2>1. pc[c] = "role" /\ phase[c] = "idle"
        BY <1>1, <1>5 DEF ProbeRole, RunInv, InText, InCall
    <2>2. CASE opts[c].owner \in db \/ opts[c].dry
        BY <1>1, <1>5, <2>1, <2>2, ContinueOnly
           DEF InCall, ProbeRole, Continue, TypeOK, PgTypeOK, pgVars, clientVars
    <2>3. CASE ~(opts[c].owner \in db \/ opts[c].dry) /\ opts[c].force
        BY <1>1, <1>5, <2>1, <2>3, ContinueOnly
           DEF InCall, ProbeRole, Continue, TypeOK, PgTypeOK, pgVars, clientVars
    <2>4. CASE ~(opts[c].owner \in db \/ opts[c].dry) /\ ~opts[c].force
        BY <1>5, <2>1, <2>4, DisconnectOnly DEF InCall, ProbeRole, Unattended
    <2> QED BY <2>2, <2>3, <2>4
<1>6. CASE ProbeDatabase(c)
    <2>1. pc[c] = "database" /\ phase[c] = "idle" /\ (~opts[c].dry => opts[c].owner \in db)
        BY <1>1, <1>6 DEF ProbeDatabase, RunInv, InText, InCall, InCommand
    <2>2. CASE opts[c].dry \/ DatabaseExists(opts[c].name) \/ ~opts[c].force
        BY <1>6, <2>1, <2>2, DisconnectOnly DEF InCall, ProbeDatabase, Unattended, DatabaseExists
    <2>3. CASE ~(opts[c].dry \/ DatabaseExists(opts[c].name) \/ ~opts[c].force)
        BY <1>1, <1>6, <2>1, <2>3, ContinueOnly
           DEF InCall, ProbeDatabase, Continue, TypeOK, PgTypeOK, pgVars, clientVars
    <2> QED BY <2>2, <2>3
<1>7. CASE Cancel(c)
    BY <1>7, DisconnectOnly DEF InCall, Cancel, Unattended
<1>8. CASE Done(c)
    <2>1. pc[c] \in {"role_sent", "database_sent"} /\ phase[c] = "idle" /\ outcome[c] = "ok"
        BY <1>8 DEF Done, Returned
    <2>2. Target(c) \in db
        BY <1>1, <2>1 DEF RunInv, InText, InCall
    <2>3. CASE pc[c] = "role_sent"
        BY <1>1, <1>8, <2>1, <2>2, <2>3, ContinueOnly
           DEF Done, Continue, Target, TypeOK, PgTypeOK, pgVars, clientVars
    <2>4. CASE pc[c] = "database_sent"
        <3>1. opts[c].owner \in db /\ opts[c].name \in db
            BY <1>1, <2>2, <2>4 DEF RunInv, InCommand, Target
        <3> QED BY <1>8, <2>1, <2>4, <3>1, DisconnectOnly DEF Done
    <2> QED BY <2>1, <2>3, <2>4
<1>9. CASE Caught(c)
    BY <1>9, DisconnectOnly DEF Caught, Returned
<1> QED BY <1>2, <1>3, <1>4, <1>5, <1>6, <1>7, <1>8, <1>9, SendKeeps DEF Step

\* The process ends without the destructor of an open PgExecutor at a return.
LEMMA EndKeeps ==
    ASSUME CdInv, NEW c \in Client, OpenFails(c) \/ ProbeFails(c)
    PROVE  CdInv'
<1>1. TypeOK /\ RunInv(c)
    BY DEF CdInv
<1>2. /\ pc' = [pc EXCEPT ![c] = "done"]
      /\ exit' = [exit EXCEPT ![c] = "1"]
      /\ conn' \in [Client -> {"none", "open", "lost"}]
      /\ faults' \in 0..MaxFaults
      /\ UNCHANGED <<phase, script, at, outcome, serverVars, opts, absent>>
    <2>1. CASE OpenFails(c)
        BY <1>1, <2>1, FaultsAssumption
           DEF OpenFails, ConnectFails, Fault, CanFault, GoTo, TypeOK, PgTypeOK, clientVars
    <2>2. CASE ProbeFails(c)
        BY <1>1, <2>2, FaultsAssumption
           DEF ProbeFails, Fault, CanFault, GoTo, TypeOK, PgTypeOK
    <2> QED BY <2>1, <2>2
<1>3. ~InCall(c) /\ pc[c] # "done"
    BY DEF OpenFails, ProbeFails, InCall
<1>4. TypeOK'
    BY <1>1, <1>2 DEF TypeOK, PgTypeOK, serverVars
<1>5. Alone(c)
    BY <1>1, <1>2 DEF Alone, TypeOK, serverVars
<1>6. pc'[c] = "done" /\ exit'[c] = "1" /\ phase[c] = "idle"
    BY <1>1, <1>2, <1>3 DEF TypeOK, RunInv, InText
<1>7. InText(c)' /\ InCommand(c)'
    BY <1>2, <1>6 DEF InText, InCall, InCommand
<1>8. OwnChanges(c)'
    BY <1>1, <1>2, <1>6 DEF OwnChanges, RunInv, serverVars
<1> QED BY <1>2, <1>3, <1>4, <1>5, <1>7, <1>8, OwnStep, StillWell DEF RunInv, serverVars

-----------------------------------------------------------------------------
(* The server.                                                               *)

\* The text of a session is one statement, the one of the command.
LEMMA OneStatement ==
    ASSUME CdInv, NEW c \in Client, Running(c)
    PROVE  /\ InCall(c) /\ script[c] = <<Target(c)>> /\ at[c] = 1
           /\ Current(c) = Target(c) /\ Target(c) \in Stmt
<1>1. TypeOK /\ RunInv(c)
    BY DEF CdInv
<1>2. InCall(c) /\ script[c] = <<Target(c)>>
    BY <1>1 DEF Running, RunInv, InText
<1>3. at[c] = 1
    BY <1>1, <1>2 DEF Running, RunInv, InText
<1>4. Current(c) = Target(c)
    BY <1>2, <1>3 DEF Current
<1>5. Target(c) \in Stmt
    BY <1>1, OptionTypes DEF Target
<1> QED BY <1>2, <1>3, <1>4, <1>5

\* A session that is lost in its COMMIT leaves what its command was asked for.
LEMMA LostInCommit ==
    ASSUME CdInv, NEW c \in Client, phase[c] = "commit", opts' = opts, db' = db, Failing(c)',
           NEW p, p = pend[c]
    PROVE  Doubtful(c, p)'
<1>1. RunInv(c) /\ InCall(c)
    BY NotFailing DEF CdInv
<1>2. CASE pc[c] = "role_sent"
    BY <1>1, <1>2 DEF RunInv, OwnChanges, InCommand, Target, Doubtful
<1>3. CASE pc[c] = "database_sent"
    BY <1>1, <1>3 DEF RunInv, OwnChanges, InCommand, Target, Doubtful
<1> QED BY <1>1, <1>2, <1>3 DEF InCall

\* Steps of the server that leave process and command alone.
LEMMA ServerStep ==
    ASSUME CdInv, NEW c \in Client, TypeOK', Alone(c), UNCHANGED ownVars, phase[c] # "idle",
           db \subseteq db', InText(c)', OwnChanges(c)',
           \/ orphan' = orphan
           \/ /\ phase[c] = "commit" /\ orphan' = orphan \cup {pend[c]}
              /\ db' = db /\ Failing(c)'
    PROVE  CdInv'
<1>1. RunInv(c)
    BY DEF CdInv
<1>2. InCommand(c)'
    BY <1>1 DEF InCommand, Unattended, RunInv, ownVars
<1>3. ASSUME NEW d \in Client PROVE RunInv(d)'
    BY <1>2, OthersKeep DEF Alone, RunInv, ownVars
<1>4. opts' = opts /\ (Failing(c) => Failing(c)')
    BY NotFailing DEF ownVars
<1>5. ASSUME NEW p \in orphan' PROVE \E d \in Client : Doubtful(d, p)'
    BY <1>4, DoubtsStay, LostInCommit
<1> QED BY <1>3, <1>5 DEF CdInv, Doubts

LEMMA LookKeeps == ASSUME CdInv, NEW c \in Client, LookForRole(c) PROVE CdInv'
<1>1. TypeOK /\ RunInv(c)
    BY DEF CdInv
<1>2. /\ Running(c) /\ Current(c) = Target(c) /\ at[c] = 1 /\ phase[c] = "run"
      /\ UNCHANGED <<conn, phase, script, outcome, serverVars, faults, ownVars>>
      /\ \/ Current(c) \in db /\ at' = [at EXCEPT ![c] = 2] /\ UNCHANGED absent
         \/ absent' = [absent EXCEPT ![c] = TRUE] /\ UNCHANGED at
    BY OneStatement DEF LookForRole, Looking, Running
<1>3. TypeOK'
    <2>1. at' \in [Client -> Nat]
        <3>1. at \in [Client -> Nat] /\ (at' = at \/ at' = [at EXCEPT ![c] = 2])
            BY <1>1, <1>2 DEF TypeOK, PgTypeOK
        <3> QED BY <3>1
    <2>2. absent' \in [Client -> BOOLEAN]
        BY <1>1, <1>2 DEF TypeOK
    <2>3. PgTypeOK'
        BY <1>1, <1>2, <2>1 DEF TypeOK, PgTypeOK, serverVars
    <2> QED BY <1>1, <1>2, <2>2, <2>3 DEF TypeOK, ownVars
<1>4. Alone(c)
    BY <1>1, <1>2 DEF Alone, TypeOK, PgTypeOK, serverVars, ownVars
<1>5. Target(c)' = Target(c) /\ InCall(c)' = InCall(c)
    BY <1>2 DEF Target, InCall, ownVars
<1>6. InText(c)'
    BY <1>1, <1>2, <1>5 DEF TypeOK, PgTypeOK, RunInv, InText, serverVars
<1>7. OwnChanges(c)'
    BY <1>1, <1>2, <1>5 DEF RunInv, OwnChanges, serverVars
<1> QED BY <1>2, <1>3, <1>4, <1>6, <1>7, ServerStep DEF serverVars

LEMMA DialogueKeeps ==
    ASSUME CdInv, NEW c \in Client, Dialogue(c), UNCHANGED <<ownVars, absent>>
    PROVE  CdInv'
<1>1. TypeOK /\ RunInv(c)
    BY DEF CdInv
<1>2. Target(c)' = Target(c) /\ InCall(c)' = InCall(c)
    BY DEF Target, InCall, ownVars
<1> USE <1>1, <1>2
<1>3. CASE Begin(c)
    <2>1. TypeOK'
        BY <1>3 DEF Begin, TypeOK, PgTypeOK, ownVars
    <2>2. Alone(c)
        BY <1>3 DEF Begin, Alone, TypeOK, PgTypeOK, ownVars
    <2>3. InText(c)' /\ OwnChanges(c)'
        BY <1>3 DEF Begin, TypeOK, PgTypeOK, RunInv, InText, OwnChanges
    <2> QED BY <1>3, <2>1, <2>2, <2>3, ServerStep DEF Begin
<1>4. CASE RunStmt(c)
    <2>1. TypeOK'
        BY <1>4 DEF RunStmt, TypeOK, PgTypeOK, ownVars
    <2>2. Alone(c)
        BY <1>4 DEF RunStmt, Alone, TypeOK, PgTypeOK, ownVars
    <2>3. /\ Current(c) = Target(c) /\ at[c] = 1 /\ script[c] = <<Target(c)>>
          /\ phase[c] = "run"
        BY <1>4, OneStatement DEF RunStmt, Running
    <2>4. /\ pend'[c] = pend[c] \cup {Target(c)} /\ at'[c] = 2
          /\ UNCHANGED <<phase, script, outcome, db, orphan>>
        BY <1>4, <2>3 DEF RunStmt, TypeOK, PgTypeOK
    <2>5. InText(c)' /\ OwnChanges(c)'
        BY <2>3, <2>4 DEF RunInv, InText, OwnChanges
    <2> QED BY <2>1, <2>2, <2>3, <2>4, <2>5, ServerStep
<1>5. CASE RunBegin(c) \/ RunEnd(c)
    <2>1. Current(c) \in Stmt /\ Current(c) \in Control
        BY <1>5, OneStatement DEF RunBegin, RunEnd, Control
    <2> QED BY <2>1, StmtAssumption
<1>6. CASE Reject(c) \/ Victim(c)
    <2>1. phase[c] = "run" /\ FailBlock(c) /\ UNCHANGED faults
        BY <1>6 DEF Reject, Victim, InCircle, WaitsFor, Running
    <2>2. TypeOK'
        BY <2>1 DEF FailBlock, TypeOK, PgTypeOK, ownVars
    <2>3. Alone(c)
        BY <2>1 DEF FailBlock, Alone, TypeOK, PgTypeOK, ownVars
    <2>4. InText(c)' /\ OwnChanges(c)'
        BY <2>1 DEF FailBlock, TypeOK, PgTypeOK, RunInv, InText, OwnChanges
    <2> QED BY <2>1, <2>2, <2>3, <2>4, ServerStep DEF FailBlock
<1>7. CASE EndScript(c)
    <2>1. TypeOK'
        BY <1>7 DEF EndScript, TypeOK, PgTypeOK, ownVars
    <2>2. Alone(c)
        BY <1>7 DEF EndScript, Alone, TypeOK, PgTypeOK, ownVars
    <2>3. Target(c) \in db \cup pend[c] /\ InCall(c)
        <3>1. InText(c) /\ phase[c] = "run" /\ at[c] > Len(script[c])
            BY <1>7 DEF EndScript, RunInv
        <3>2. InCall(c) /\ script[c] = <<Target(c)>>
            BY <3>1 DEF InText
        <3>3. Len(script[c]) = 1
            BY <3>2
        <3>4. at[c] # 1
            BY <3>1, <3>3
        <3> QED BY <3>1, <3>2, <3>4 DEF InText
    <2>4. CASE block[c] = "implicit"
        <3>1. /\ phase'[c] = "commit" /\ UNCHANGED <<script, outcome, orphan>>
              /\ db' = db \cup pend[c] /\ pend'[c] = {}
            BY <1>7, <2>4 DEF EndScript, TypeOK, PgTypeOK
        <3>2. InText(c)' /\ OwnChanges(c)'
            BY <2>3, <3>1 DEF RunInv, InText, OwnChanges
        <3> QED BY <1>7, <2>1, <2>2, <3>1, <3>2, ServerStep DEF EndScript
    <2>5. CASE block[c] # "implicit"
        <3>1. /\ phase'[c] = "commit" /\ UNCHANGED <<script, outcome, orphan, db, pend>>
            BY <1>7, <2>5 DEF EndScript, TypeOK, PgTypeOK
        <3>2. InText(c)' /\ OwnChanges(c)'
            BY <2>3, <3>1 DEF RunInv, InText, OwnChanges
        <3> QED BY <1>7, <2>1, <2>2, <3>1, <3>2, ServerStep DEF EndScript
    <2> QED BY <2>4, <2>5
<1>8. CASE Commit(c)
    <2>1. TypeOK'
        BY <1>8 DEF Commit, TypeOK, PgTypeOK, ownVars
    <2>2. Alone(c)
        BY <1>8 DEF Commit, Alone, TypeOK, PgTypeOK, ownVars
    <2>3. InText(c)' /\ OwnChanges(c)'
        BY <1>8 DEF Commit, TypeOK, PgTypeOK, RunInv, InText, OwnChanges
    <2> QED BY <1>8, <2>1, <2>2, <2>3, ServerStep DEF Commit
<1>9. CASE Reply(c) \/ Abort(c)
    <2>1. TypeOK'
        BY <1>9 DEF Reply, Abort, TypeOK, PgTypeOK, ownVars, serverVars
    <2>2. Alone(c)
        BY <1>9 DEF Reply, Abort, Alone, TypeOK, PgTypeOK, ownVars, serverVars
    <2>3. InText(c)' /\ OwnChanges(c)'
        BY <1>9 DEF Reply, Abort, TypeOK, PgTypeOK, RunInv, InText, OwnChanges, serverVars
    <2> QED BY <1>9, <2>1, <2>2, <2>3, ServerStep DEF Reply, Abort, serverVars
<1> QED BY <1>3, <1>4, <1>5, <1>6, <1>7, <1>8, <1>9 DEF Dialogue

LEMMA FaultKeeps ==
    ASSUME CdInv, NEW c \in Client, SessionFault(c), UNCHANGED <<ownVars, absent>>
    PROVE  CdInv'
<1>1. TypeOK /\ RunInv(c)
    BY DEF CdInv
<1>2. faults' \in 0..MaxFaults
    BY <1>1, FaultsAssumption
       DEF SessionFault, GiveUp, CommitReject, Lose, Fault, CanFault, TypeOK, PgTypeOK
<1>3. Target(c)' = Target(c) /\ InCall(c)' = InCall(c)
    BY DEF Target, InCall, ownVars
<1>4. TypeOK'
    <2>1. CASE GiveUp(c)
        BY <1>1, <1>2, <2>1 DEF GiveUp, FailBlock, TypeOK, PgTypeOK, ownVars
    <2>2. CASE CommitReject(c)
        BY <1>1, <1>2, <2>2 DEF CommitReject, TypeOK, PgTypeOK, ownVars
    <2>3. CASE Lose(c)
        BY <1>1, <1>2, <2>3 DEF Lose, EndSession, TypeOK, PgTypeOK, ownVars
    <2> QED BY <2>1, <2>2, <2>3 DEF SessionFault
<1>5. Alone(c)
    BY <1>1 DEF SessionFault, GiveUp, FailBlock, CommitReject, Lose, EndSession, Alone,
                TypeOK, PgTypeOK, ownVars
<1>6. /\ phase[c] # "idle" /\ pend'[c] = {}
      /\ \/ phase'[c] = "abort" \/ (phase'[c] = "idle" /\ outcome'[c] = "error")
      /\ UNCHANGED <<script, db>>
      /\ \/ orphan' = orphan
         \/ /\ phase[c] = "commit" /\ orphan' = orphan \cup {pend[c]}
            /\ phase'[c] = "idle" /\ outcome'[c] = "error"
    BY <1>1 DEF SessionFault, GiveUp, Running, FailBlock, CommitReject, Lose, EndSession,
                TypeOK, PgTypeOK
<1>7. InText(c)' /\ OwnChanges(c)'
    BY <1>1, <1>3, <1>6 DEF RunInv, InText, OwnChanges
<1>8. InCall(c)' /\ (phase'[c] = "idle" /\ outcome'[c] = "error" => Failing(c)')
    BY <1>3, <1>6, NotFailing DEF Failing
<1> QED BY <1>4, <1>5, <1>6, <1>7, <1>8, ServerStep

LEMMA KillKeeps == ASSUME CdInv, NEW c \in Client, Kill(c) PROVE CdInv'
<1>1. TypeOK /\ RunInv(c)
    BY DEF CdInv
<1>2. faults' \in 0..MaxFaults
    BY <1>1, FaultsAssumption DEF Kill, Crash, Fault, CanFault, TypeOK, PgTypeOK
<1>3. TypeOK'
    BY <1>1, <1>2 DEF Kill, GoTo, Crash, EndSession, TypeOK, PgTypeOK
<1>4. Alone(c)
    BY <1>1 DEF Kill, GoTo, Crash, EndSession, Alone, TypeOK, PgTypeOK
<1>5. /\ pc'[c] = "done" /\ exit'[c] = "killed" /\ phase'[c] = "idle" /\ pend'[c] = {}
      /\ UNCHANGED <<db, opts>>
      /\ orphan' = IF phase[c] = "commit" THEN orphan \cup {pend[c]} ELSE orphan
    BY <1>1 DEF Kill, GoTo, Crash, EndSession, TypeOK, PgTypeOK
<1>6. RunInv(c)'
    BY <1>5 DEF RunInv, InText, InCall, InCommand, OwnChanges
<1>7. ASSUME NEW d \in Client PROVE RunInv(d)'
    BY <1>4, <1>5, <1>6, OthersKeep DEF Alone
<1>8. Failing(c)'
    BY <1>5 DEF Failing
<1>9. ASSUME NEW p \in orphan' PROVE \E d \in Client : Doubtful(d, p)'
    <2>1. CASE p \in orphan
        BY <1>4, <1>5, <1>8, <2>1, DoubtsStay
    <2>2. CASE p \notin orphan
        BY <1>5, <1>8, <2>2, LostInCommit
    <2> QED BY <2>1, <2>2
<1> QED BY <1>3, <1>7, <1>9 DEF CdInv, Doubts

\* A COMMIT in doubt is settled without any session.
LEMMA SettleKeeps == ASSUME CdInv, Server PROVE CdInv'
<1>1. TypeOK /\ Doubts
    BY DEF CdInv
<1>2. PICK p \in orphan : /\ orphan' = orphan \ {p}
                          /\ db' = db \cup p \/ db' = db
                          /\ UNCHANGED <<clientVars, block, pend, faults, ownVars, absent>>
    BY DEF Server, Land, Drop
<1>3. TypeOK'
    BY <1>1, <1>2 DEF TypeOK, PgTypeOK, clientVars, ownVars
<1>4. ASSUME NEW d \in Client PROVE RunInv(d)'
    BY <1>2, OthersKeep DEF clientVars, ownVars
<1>5. Doubts'
    BY <1>1, <1>2 DEF Doubts, Doubtful, Failing, InCall, clientVars, ownVars
<1> QED BY <1>3, <1>4, <1>5 DEF CdInv

LEMMA StutterKeeps == ASSUME CdInv, UNCHANGED vars PROVE CdInv'
<1>1. TypeOK'
    BY DEF CdInv, TypeOK, PgTypeOK, vars, pgVars, clientVars, serverVars, ownVars
<1>2. ASSUME NEW d \in Client PROVE RunInv(d)'
    BY OthersKeep DEF vars, pgVars, clientVars, serverVars, ownVars
<1>3. Doubts'
    BY DEF CdInv, Doubts, Doubtful, Failing, InCall, vars, pgVars, clientVars, serverVars,
           ownVars
<1> QED BY <1>1, <1>2, <1>3 DEF CdInv

LEMMA Always == CDSpec => []CdInv
<1>1. ASSUME CdInv, [CDNext]_vars PROVE CdInv'
    BY <1>1, ProcessKeeps, EndKeeps, LookKeeps, DialogueKeeps, FaultKeeps, KillKeeps,
       SettleKeeps, StutterKeeps DEF CDNext, Serve
<1> QED BY InitHolds, <1>1, PTL DEF CDSpec

-----------------------------------------------------------------------------
(* The variables keep their types, and every exit code is one of the known.  *)
THEOREM TypeCorrect == CDSpec => []TypeOK
<1>1. CdInv => TypeOK
    BY DEF CdInv
<1> QED BY <1>1, Always, PTL

(* The owner is in the catalog before the database is looked at, whoever      *)
(* created it.                                                               *)
THEOREM RoleFirst == CDSpec => []RoleEnsured
<1>1. CdInv => RoleEnsured
    BY DEF CdInv, RunInv, InCommand, RoleEnsured
<1> QED BY <1>1, Always, PTL

(* Exit code 0 of an unattended run is never wrong.                          *)
THEOREM SuccessIsTrue == CDSpec => []SuccessMeansThere
<1>1. CdInv => SuccessMeansThere
    BY DEF CdInv, RunInv, InCommand, SuccessMeansThere
<1> QED BY <1>1, Always, PTL

-----------------------------------------------------------------------------
(* Every step is one of Provision, or none that it sees.                     *)

\* What the server takes in was wanted by a command that has not succeeded.
LEMMA Arrival ==
    ASSUME CdInv, UNCHANGED <<opts, exit>>, NEW p, db' = db \cup p,
           NEW c \in Client, exit[c] # "0", opts[c].force, ~opts[c].dry,
           p \subseteq {opts[c].owner} \/ (p \subseteq {opts[c].name} /\ opts[c].owner \in db)
    PROVE  [Promise!Next]_(Promise!vars)
<1>1. WishesSeen' = WishesSeen /\ verdicts' = verdicts
    BY DEF WishesSeen, Unattended, verdicts, VerdictOf
<1>2. CASE p \subseteq db
    BY <1>1, <1>2 DEF Promise!vars
<1>3. CASE ~(p \subseteq db)
    <2>1. PICK x \in {opts[c].owner, opts[c].name} :
              p = {x} /\ x \notin db /\ (x = opts[c].owner \/ opts[c].owner \in db)
        BY <1>3
    <2>2. verdicts[c] # "success"
        BY DEF verdicts, VerdictOf
    <2>3. /\ WishesSeen[c].ahead
          /\ WishesSeen[c].owner = opts[c].owner /\ WishesSeen[c].name = opts[c].name
        BY DEF WishesSeen
    <2>4. Promise!Wants(c, x)
        BY <2>1, <2>3 DEF Promise!Wants
    <2>5. Promise!Create(x)
        BY <1>1, <2>1, <2>2, <2>4 DEF Promise!Create
    <2> QED BY <2>1, <2>3, <2>5 DEF Promise!Next
<1> QED BY <1>2, <1>3

\* A process ends, or does something that the shell does not see.
LEMMA Ends ==
    ASSUME CdInv, CdInv', UNCHANGED <<opts, db>>, NEW c \in Client,
           \/ exit' = exit
           \/ /\ pc[c] # "done"
              /\ \E code \in {"0", "1", "2", "killed"} : exit' = [exit EXCEPT ![c] = code]
    PROVE  [Promise!Next]_(Promise!vars)
<1>1. WishesSeen' = WishesSeen
    BY DEF WishesSeen, Unattended
<1>2. CASE exit' = exit
    BY <1>1, <1>2 DEF Promise!vars, verdicts, VerdictOf
<1>3. ASSUME pc[c] # "done", NEW code \in {"0", "1", "2", "killed"},
             exit' = [exit EXCEPT ![c] = code]
      PROVE  [Promise!Next]_(Promise!vars)
    <2>1. exit[c] = "none" /\ exit \in [Client -> {"none", "0", "1", "2", "killed"}]
        BY <1>3 DEF CdInv, RunInv, InCommand, TypeOK
    <2>2. verdicts[c] = "running"
        BY <2>1 DEF verdicts, VerdictOf
    <2>3. verdicts' = [verdicts EXCEPT ![c] = IF code = "0" THEN "success" ELSE "failure"]
        BY <1>3, <2>1 DEF verdicts, VerdictOf
    <2>4. CASE code = "0"
        <3>1. WishesSeen[c].unattended => {opts[c].owner, opts[c].name} \subseteq db
            BY <1>3, <2>1, <2>4 DEF CdInv, RunInv, InCommand, WishesSeen, Unattended
        <3>2. Promise!Succeed(c)
            BY <1>1, <2>2, <2>3, <2>4, <3>1 DEF Promise!Succeed, WishesSeen
        <3> QED BY <3>2 DEF Promise!Next
    <2>5. CASE code # "0"
        BY <1>1, <2>2, <2>3, <2>5 DEF Promise!Fail, Promise!Next
    <2> QED BY <2>4, <2>5
<1> QED BY <1>2, <1>3

\* A session changes the catalog only when its transaction commits.
LEMMA SessionPromise ==
    ASSUME CdInv, CdInv', NEW c \in Client, UNCHANGED ownVars,
           Dialogue(c) \/ SessionFault(c)
    PROVE  [Promise!Next]_(Promise!vars)
<1>1. UNCHANGED <<opts, exit>>
    BY DEF ownVars
<1>2. CASE db' = db
    BY <1>1, <1>2, Ends
<1>3. CASE db' # db
    <2>1. phase[c] # "idle" /\ db' = db \cup pend[c]
        <3>1. ~(RunBegin(c) \/ RunEnd(c))
            <4>1. ASSUME RunBegin(c) \/ RunEnd(c) PROVE FALSE
                <5>1. Current(c) \in Stmt /\ Current(c) \in Control
                    BY <4>1, OneStatement DEF RunBegin, RunEnd, Control
                <5> QED BY <5>1, StmtAssumption
            <4> QED BY <4>1
        <3>2. CASE Dialogue(c)
            <4>1. EndScript(c) \/ Commit(c)
                BY <1>3, <3>1, <3>2
                   DEF Dialogue, Begin, RunStmt, Reject, Victim, FailBlock, Reply, Abort, serverVars
            <4> QED BY <1>3, <4>1 DEF EndScript, Commit, Running
        <3>3. CASE SessionFault(c)
            BY <1>3, <3>3 DEF SessionFault, GiveUp, FailBlock, CommitReject, Lose, EndSession
        <3> QED BY <3>2, <3>3
    <2>2. RunInv(c) /\ InCall(c) /\ exit[c] = "none"
        BY <2>1, NotFailing DEF CdInv, RunInv, InCommand
    <2>3. CASE pc[c] = "role_sent"
        BY <1>1, <2>1, <2>2, <2>3, Arrival DEF RunInv, OwnChanges, InCommand, Target
    <2>4. CASE pc[c] = "database_sent"
        BY <1>1, <2>1, <2>2, <2>4, Arrival DEF RunInv, OwnChanges, InCommand, Target
    <2> QED BY <2>2, <2>3, <2>4 DEF InCall
<1> QED BY <1>2, <1>3

LEMMA PromiseStep ==
    ASSUME CdInv, CdInv', [CDNext]_vars
    PROVE  [Promise!Next]_(Promise!vars)
<1>1. CASE UNCHANGED vars
    BY <1>1 DEF vars, pgVars, serverVars, ownVars, WishesSeen, Unattended, verdicts, VerdictOf,
                Promise!vars
<1>2. ASSUME NEW c \in Client, Step(c) \/ OpenFails(c) \/ ProbeFails(c) \/ Kill(c)
      PROVE  [Promise!Next]_(Promise!vars)
    <2>1. UNCHANGED <<opts, db>>
        BY <1>2 DEF Step, Usage, Start, Interrupt, Open, ProbeRole, ProbeDatabase, Cancel,
                    SendRole, SendDatabase, Done, Caught, OpenFails, ProbeFails, Kill, Exit,
                    Continue, Connect, ConnectFails, Disconnect, Exec, Call, Refuse, Crash,
                    EndSession, Fault, pgVars, clientVars, serverVars
    <2>2. \/ exit' = exit
          \/ /\ pc[c] # "done"
             /\ \E code \in {"0", "1", "2", "killed"} : exit' = [exit EXCEPT ![c] = code]
        BY <1>2 DEF Step, Usage, Start, Interrupt, Open, ProbeRole, ProbeDatabase, Cancel,
                    SendRole, SendDatabase, Done, Caught, OpenFails, ProbeFails, Kill, Exit,
                    Continue, Returned
    <2> QED BY <2>1, <2>2, Ends
<1>3. ASSUME NEW c \in Client, Serve(c) \/ (SessionFault(c) /\ UNCHANGED <<ownVars, absent>>)
      PROVE  [Promise!Next]_(Promise!vars)
    <2>1. CASE LookForRole(c)
        <3>1. UNCHANGED <<opts, exit, db>>
            BY <2>1 DEF LookForRole, serverVars, ownVars
        <3> QED BY <3>1, Ends
    <2>2. CASE ~LookForRole(c)
        BY <1>3, <2>2, SessionPromise DEF Serve
    <2> QED BY <2>1, <2>2
<1>4. CASE Server
    <2>1. UNCHANGED <<opts, exit>>
        BY <1>4 DEF Server, ownVars
    <2>2. CASE Land
        <3>1. PICK p \in orphan : db' = db \cup p
            BY <2>2 DEF Land
        <3>2. PICK c \in Client : Doubtful(c, p)
            BY DEF CdInv, Doubts
        <3>3. exit[c] # "0"
            BY <3>2 DEF CdInv, RunInv, InCommand, Doubtful, Failing, InCall
        <3> QED BY <2>1, <3>1, <3>2, <3>3, Arrival DEF Doubtful
    <2>3. CASE Drop
        BY <2>1, <2>3 DEF Drop, WishesSeen, Unattended, verdicts, VerdictOf, Promise!vars
    <2> QED BY <1>4, <2>2, <2>3 DEF Server
<1> QED BY <1>1, <1>2, <1>3, <1>4 DEF CDNext

(* create-database implements Provision: nothing enters the catalog that no   *)
(* run was told to create, a database never before its owner, and a run with  *)
(* a COMMIT in doubt never returns 0.                                        *)
THEOREM CommandKeepsPromise == CDSpec => KeepsPromise
<1>1. Init => Promise!Init
    BY DEF Init, Promise!Init, verdicts, VerdictOf
<1>2. ASSUME CdInv, CdInv', [CDNext]_vars PROVE [Promise!Next]_(Promise!vars)
    BY <1>2, PromiseStep
<1> QED BY <1>1, <1>2, Always, PTL DEF CDSpec, KeepsPromise, Promise!Spec
=============================================================================
