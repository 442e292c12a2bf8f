------------------------- MODULE PgRefinementProofs -------------------------
(***************************************************************************)
(* PgExecutor implements AtomicExec, for any processes, statements and pure *)
(* texts.  The step of the abstract specification that takes effect is the  *)
(* server's COMMIT; everything before it stutters.                          *)
(***************************************************************************)
EXTENDS PgRefinement, PgProofs

\* Every text under execution is pure.
PureTexts == \A c \in Client : Pure(script[c])

RefInv == PgInv /\ PureTexts

\* Every text under execution stays pure.
LEMMA RefInvStep == ASSUME RefInv, [Next]_pgVars PROVE RefInv'
<1>1. PgInv'
  <2>1. [NextWith(Texts)]_pgVars
    BY ScriptsAssumption DEF Next, NextWith, Texts
  <2> QED
    BY <2>1, StepKeeps DEF RefInv
<1>2. PureTexts'
  <2>1. CASE \E c \in Client, sql \in Scripts : Exec(c, sql)
    <3>1. PICK c \in Client, sql \in Scripts : Exec(c, sql)
      BY <2>1
    <3>2. script' = [script EXCEPT ![c] = sql]
      BY <3>1 DEF Exec, Call, Refuse
    <3> QED
      BY <3>2, PureAssumption DEF RefInv, PureTexts, PgInv, PgTypeOK
  <2>2. CASE UNCHANGED script
    BY <2>2 DEF RefInv, PureTexts
  <2>3. \/ \E c \in Client, sql \in Scripts : Exec(c, sql)
        \/ UNCHANGED script
    BY DEF Next, NextWith, Connect, ConnectFails, Disconnect, Dialogue, SessionFault, Crash,
           Land, Drop, Begin, RunStmt, RunBegin, RunEnd, Reject, Victim, GiveUp, FailBlock,
           EndScript, Commit, CommitReject, Reply, Abort, Lose, EndSession,
           clientVars, pgVars
  <2> QED
    BY <2>1, <2>2, <2>3
<1> QED
  BY <1>1, <1>2 DEF RefInv

\* The abstract state of a call whose process is at l.
Seen(l) == CASE l = "idle" -> "idle" [] l = "committed" -> "effected" [] OTHER -> "pending"

\* How a change of the phase shows in the abstract state of the call.
LEMMA SeenCalls ==
    ASSUME NEW c \in Client, PgTypeOK
    PROVE  /\ calls \in [Client -> {"idle", "pending", "effected"}]
           /\ calls[c] = Seen(phase[c])
           /\ phase' = phase => calls' = calls
           /\ \A l \in {"idle", "begin", "run", "commit", "committed", "abort"} :
                  phase' = [phase EXCEPT ![c] = l] => calls' = [calls EXCEPT ![c] = Seen(l)]
BY DEF calls, CallState, Seen, PgTypeOK

\* The server's work up to COMMIT and the process's own bookkeeping stutter.
LEMMA StutterSteps ==
    ASSUME RefInv, NEW c \in Client,
           \/ Connect(c) \/ ConnectFails(c) \/ Disconnect(c)
           \/ Begin(c) \/ RunStmt(c) \/ RunBegin(c) \/ RunEnd(c)
           \/ Reject(c) \/ Victim(c) \/ GiveUp(c) \/ EndScript(c)
    PROVE  UNCHANGED Abstract!vars
<1>1. PgTypeOK /\ ClientInv(c) /\ Pure(script[c])
  BY DEF RefInv, PgInv, PureTexts
<1>2. UNCHANGED <<script, outcome, orphan>>
  BY DEF Connect, ConnectFails, Disconnect, Begin, RunStmt, RunBegin, RunEnd, Reject,
         Victim, GiveUp, FailBlock, EndScript, clientVars, serverVars
<1>3. db' = db
  <2>1. CASE RunEnd(c)
    <3>1. /\ script[c] \in Texts /\ at[c] \in 1..Len(script[c])
          /\ script[c][at[c]] \in Control /\ pend[c] = Done(c)
      BY <1>1, <2>1 DEF RunEnd, Running, Current, PgTypeOK, ClientInv, InText, Texts, Control
    <3>2. pend[c] = {}
      BY <3>1, <1>1, PureControl, DoneSteps DEF Done
    <3> QED
      BY <3>2, <2>1 DEF RunEnd
  <2>2. CASE EndScript(c)
    BY <1>1, <2>2 DEF EndScript, ClientInv, InText
  <2>3. CASE ~RunEnd(c) /\ ~EndScript(c)
    BY <2>3 DEF Connect, ConnectFails, Disconnect, Begin, RunStmt, RunBegin, Reject,
         Victim, GiveUp, FailBlock, serverVars
  <2> QED
    BY <2>1, <2>2, <2>3
<1>4. calls' = calls
  <2>1. CASE Connect(c) \/ ConnectFails(c) \/ Disconnect(c)
             \/ RunStmt(c) \/ RunBegin(c) \/ RunEnd(c)
    <3>1. phase' = phase
      BY <2>1 DEF Connect, ConnectFails, Disconnect, RunStmt, RunBegin, RunEnd, clientVars
    <3> QED
      BY <3>1, <1>1, SeenCalls
  <2>2. CASE Begin(c) \/ Reject(c) \/ Victim(c) \/ GiveUp(c) \/ EndScript(c)
    <3>1. PICK l \in {"run", "abort", "commit"} : phase' = [phase EXCEPT ![c] = l]
      BY <2>2 DEF Begin, Reject, Victim, GiveUp, FailBlock, EndScript
    <3>2. phase[c] \in {"begin", "run"}
      BY <2>2 DEF Begin, Reject, Victim, InCircle, WaitsFor, GiveUp, EndScript, Running
    <3>3. Seen(l) = "pending" /\ Seen(phase[c]) = "pending"
      BY <3>2 DEF Seen
    <3>4. calls[c] = "pending" /\ calls \in [Client -> {"idle", "pending", "effected"}]
      BY <3>3, <1>1, SeenCalls
    <3>5. calls' = [calls EXCEPT ![c] = Seen(l)]
      <4>1. l \in {"idle", "begin", "run", "commit", "committed", "abort"}
        OBVIOUS
      <4> QED
        BY <3>1, <4>1, <1>1, SeenCalls, Zenon
    <3> QED
      BY <3>3, <3>4, <3>5
  <2> QED
    BY <2>1, <2>2
<1> QED
  BY <1>2, <1>3, <1>4 DEF Abstract!vars

\* The other steps are steps of AtomicExec.
LEMMA VisibleSteps ==
    ASSUME RefInv, NEW c \in Client
    PROVE  /\ \A sql \in Scripts : Exec(c, sql) => Abstract!Invoke(c, sql)
           /\ Commit(c) => Abstract!TakeEffect(c)
           /\ Reply(c) => Abstract!Return(c)
           /\ CommitReject(c) \/ Abort(c) \/ Lose(c) \/ Crash(c) => Abstract!Fail(c)
<1>1. PgTypeOK /\ ClientInv(c) /\ Pure(script[c])
  BY DEF RefInv, PgInv, PureTexts
<1>2. ASSUME NEW sql \in Scripts, Exec(c, sql) PROVE Abstract!Invoke(c, sql)
  BY <1>1, <1>2, SeenCalls DEF Exec, Call, Refuse, serverVars, Seen, Abstract!Invoke
<1>3. ASSUME Commit(c) PROVE Abstract!TakeEffect(c)
  <2>1. pend[c] = Effects(script[c])
    BY <1>1, <1>3 DEF Commit, ClientInv, InText
  <2>2. Abstract!Effects(script[c]) = Effects(script[c])
    BY DEF Effects, Abstract!Effects
  <2> QED
    BY <1>1, <1>3, <2>1, <2>2, SeenCalls DEF Commit, Seen, Abstract!TakeEffect
<1>4. ASSUME Reply(c) PROVE Abstract!Return(c)
  BY <1>1, <1>4, SeenCalls DEF Reply, serverVars, Seen, Abstract!Return
<1>5. ASSUME CommitReject(c) \/ Abort(c) \/ Lose(c) \/ Crash(c) PROVE Abstract!Fail(c)
  <2>1. calls' = [calls EXCEPT ![c] = "idle"]
    BY <1>1, <1>5, SeenCalls DEF CommitReject, Abort, Lose, Crash, EndSession, Seen
  <2>2. /\ script' = script /\ db' = db
        /\ \E o \in {"error", "none"} : outcome' = [outcome EXCEPT ![c] = o]
    BY <1>5 DEF CommitReject, Abort, Lose, Crash, EndSession
  <2>3. \/ UNCHANGED orphan
        \/ calls[c] = "pending" /\ orphan' = orphan \cup {Abstract!Effects(script[c])}
    <3>1. CASE orphan' = orphan
      BY <3>1
    <3>2. CASE phase[c] = "commit" /\ orphan' = orphan \cup {pend[c]}
      <4>1. pend[c] = Abstract!Effects(script[c])
        BY <1>1, <3>2 DEF ClientInv, InText, Effects, Abstract!Effects
      <4> QED
        BY <1>1, <3>2, <4>1, SeenCalls DEF Seen
    <3> QED
      BY <1>5, <3>1, <3>2 DEF CommitReject, Abort, Lose, Crash, EndSession
  <2> QED
    BY <2>1, <2>2, <2>3 DEF Abstract!Fail
<1> QED
  BY <1>2, <1>3, <1>4, <1>5

\* Settling a COMMIT in doubt is the abstract Settle.
LEMMA SettleSteps == ASSUME RefInv, Land \/ Drop PROVE Abstract!Settle
<1>1. calls' = calls
  BY DEF Land, Drop, clientVars, calls, CallState
<1> QED
  BY <1>1 DEF Land, Drop, clientVars, Abstract!Settle

\* Every step of PgExecutor is a step of AtomicExec or a stutter.
LEMMA RefinedStep == ASSUME RefInv, [Next]_pgVars PROVE [Abstract!Next]_Abstract!vars
<1>1. CASE UNCHANGED pgVars
  BY <1>1 DEF pgVars, clientVars, serverVars, calls, CallState, Abstract!vars
<1>2. CASE Land \/ Drop
  BY <1>2, SettleSteps DEF Abstract!Next
<1>3. ASSUME NEW c \in Client, \/ Connect(c) \/ ConnectFails(c) \/ Disconnect(c)
                               \/ Dialogue(c) \/ SessionFault(c) \/ Crash(c)
      PROVE  [Abstract!Next]_Abstract!vars
  BY <1>3, StutterSteps, VisibleSteps DEF Dialogue, SessionFault, Abstract!Next
<1>4. ASSUME NEW c \in Client, NEW sql \in Scripts, Exec(c, sql)
      PROVE  [Abstract!Next]_Abstract!vars
  BY <1>4, VisibleSteps DEF Abstract!Next
<1> QED
  BY <1>1, <1>2, <1>3, <1>4 DEF Next, NextWith

(* The round trips of exec look like one step: PgExecutor implements         *)
(* AtomicExec for every set of processes, statements and pure texts.         *)
THEOREM ExecAtomicity == Spec => ExecIsAtomic
<1>1. PgInit => RefInv /\ Abstract!Init
  <2> SUFFICES ASSUME PgInit PROVE RefInv /\ Abstract!Init
    OBVIOUS
  <2>1. PureTexts
    BY DEF PgInit, PgIdle, PureTexts, Pure, Plain
  <2>2. Abstract!Init
    BY DEF PgInit, PgIdle, Abstract!Init, calls, CallState
  <2> QED
    BY <2>1, <2>2, PgInitInv DEF RefInv
<1> QED
  BY <1>1, RefInvStep, RefinedStep, PTL DEF Spec, ExecIsAtomic, Abstract!Spec
=============================================================================
