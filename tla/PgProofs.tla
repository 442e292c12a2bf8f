------------------------------ MODULE PgProofs ------------------------------
(***************************************************************************)
(* Proofs about PgExecutor.  The inductive invariant PgInv says how far the *)
(* server is at every point of the dialogue: outside a call the session is  *)
(* clean, within a call of a pure text the block holds exactly the          *)
(* statements that have run, and within a call of any text everything that   *)
(* has run and was not undone is pending or durable.                         *)
(***************************************************************************)
EXTENDS PgExecutor, TLAPS

\* The changes made by the statements of the text that have run.
Done(c) == {script[c][j] : j \in 1..(at[c] - 1)} \cap Stmt

\* The session is clean outside the part of the dialogue that runs the text.
Quiet(c) == /\ phase[c] \in {"idle", "begin", "committed"} => block[c] = "idle"
            /\ phase[c] \in {"idle", "begin", "committed", "abort"} => pend[c] = {}

\* Only an open connection is in the middle of a call.
Linked(c) == phase[c] # "idle" => conn[c] = "open"

\* Whatever the text: only its own statements are pending.
Owns(c) == pend[c] \subseteq Effects(script[c])

\* How far the server is with a pure text.
InText(c) == /\ phase[c] = "begin" => at[c] = 1
             /\ phase[c] = "run" =>
                  /\ at[c] \in 1..(Len(script[c]) + 1)
                  /\ pend[c] = Done(c)
                  /\ block[c] \in {"open", "idle"}
                  /\ Plain(script[c]) => block[c] = "open"
             /\ phase[c] = "commit" =>
                  /\ pend[c] = Effects(script[c])
                  /\ block[c] \in {"open", "idle"}

\* After the first n statements of the text: what was not undone is in p or q, and
\* in q if a commit has run behind it.
Along(text, n, p, q) ==
    \A j \in 1..n : (text[j] \in Stmt /\ ~Undone(text, j, n)) =>
        /\ text[j] \in p \cup q
        /\ (\E k \in (j + 1)..n : text[k] = "commit") => text[j] \in q

\* How far the server is with any text.
Kept(c) == /\ phase[c] = "begin" => at[c] = 1
           /\ phase[c] = "run" => /\ at[c] \in 1..(Len(script[c]) + 1)
                                  /\ Along(script[c], at[c] - 1, pend[c], db)
           /\ phase[c] = "commit" => Lasting(script[c]) \subseteq pend[c] \cup db

\* All that a text leaves is durable when it is answered.
Answered(c) == \/ phase[c] = "committed"
               \/ phase[c] = "idle" /\ outcome[c] = "ok"

ClientInv(c) == /\ Quiet(c)
                /\ Linked(c)
                /\ Owns(c)
                /\ Pure(script[c]) => InText(c)
                /\ Kept(c)
                /\ Answered(c) => Lasting(script[c]) \subseteq db

PgInv == /\ PgTypeOK
         /\ \A c \in Client : ClientInv(c)

Texts == Seq(Stmt \cup Control)

-----------------------------------------------------------------------------
(* A pure text that holds a control statement is that statement alone.      *)
LEMMA PureControl ==
    ASSUME NEW text \in Texts, Pure(text),
           NEW j \in 1..Len(text), text[j] \in Control
    PROVE  Len(text) = 1 /\ j = 1 /\ Effects(text) = {}
<1>1. text[j] \notin Stmt
  BY StmtAssumption
<1>2. ~Plain(text)
  BY <1>1 DEF Plain, Texts
<1>3. Len(text) = 1 /\ j = 1
  BY <1>2 DEF Pure, Texts
<1> QED
  BY <1>1, <1>3 DEF Effects, Texts

(* The statements that have run, at the start, one step on and at the end.  *)
LEMMA DoneSteps ==
    ASSUME NEW text \in Texts
    PROVE  /\ {text[j] : j \in 1..(1 - 1)} \cap Stmt = {}
           /\ \A n \in 1..Len(text) :
                  {text[j] : j \in 1..((n + 1) - 1)} \cap Stmt
                      = ({text[j] : j \in 1..(n - 1)} \cap Stmt) \cup ({text[n]} \cap Stmt)
           /\ {text[j] : j \in 1..((Len(text) + 1) - 1)} \cap Stmt = Effects(text)
<1>1. {text[j] : j \in 1..(1 - 1)} \cap Stmt = {}
  OBVIOUS
<1>2. ASSUME NEW n \in 1..Len(text)
      PROVE  {text[j] : j \in 1..((n + 1) - 1)} \cap Stmt
                = ({text[j] : j \in 1..(n - 1)} \cap Stmt) \cup ({text[n]} \cap Stmt)
  <2>1. 1..((n + 1) - 1) = 1..(n - 1) \cup {n}
    BY DEF Texts
  <2> QED
    BY <2>1
<1>3. {text[j] : j \in 1..((Len(text) + 1) - 1)} \cap Stmt = Effects(text)
  <2>1. 1..((Len(text) + 1) - 1) = DOMAIN text
    BY DEF Texts
  <2> QED
    BY <2>1 DEF Effects
<1> QED
  BY <1>1, <1>2, <1>3

(* What a text without transaction control leaves is all of it.             *)
LEMMA PlainLasts ==
    ASSUME NEW text \in Texts, Plain(text)
    PROVE  Lasting(text) = Effects(text)
<1>1. ASSUME NEW j \in DOMAIN text PROVE text[j] \in Stmt /\ ~Undone(text, j, Len(text))
  <2>1. ASSUME NEW k \in (j + 1)..Len(text) PROVE text[k] # "rollback"
    <3>1. k \in DOMAIN text
      BY DEF Texts
    <3> QED
      BY <3>1, StmtAssumption DEF Plain, Control
  <2> QED
    BY <2>1 DEF Undone, Plain
<1> QED
  BY <1>1 DEF Lasting, Effects

(* Along, from the start of a text over each kind of statement to its end.  *)
LEMMA AlongStart == ASSUME NEW text, NEW p, NEW q PROVE Along(text, 0, p, q)
BY DEF Along

LEMMA AlongGrows ==
    ASSUME NEW text, NEW n, NEW p, NEW q, NEW r, q \subseteq r, Along(text, n, p, q)
    PROVE  Along(text, n, p, r)
BY DEF Along

LEMMA AlongStmt ==
    ASSUME NEW text \in Texts, NEW n \in 1..Len(text), NEW p, NEW q,
           text[n] \notin {"commit", "rollback"}, Along(text, n - 1, p, q)
    PROVE  Along(text, n, p \cup {text[n]}, q)
<1> SUFFICES ASSUME NEW j \in 1..n, text[j] \in Stmt, ~Undone(text, j, n)
             PROVE  /\ text[j] \in (p \cup {text[n]}) \cup q
                    /\ (\E k \in (j + 1)..n : text[k] = "commit") => text[j] \in q
  BY DEF Along
<1>1. n \in Nat \ {0} /\ j \in Nat
  BY DEF Texts
<1>2. CASE j = n
  BY <1>1, <1>2
<1>3. CASE j # n
  <2>1. j \in 1..(n - 1)
    BY <1>1, <1>3
  <2>2. ~Undone(text, j, n - 1)
    BY <1>1 DEF Undone
  <2>3. \A k \in (j + 1)..n : text[k] = "commit" => k \in (j + 1)..(n - 1)
    BY <1>1
  <2> QED
    BY <2>1, <2>2, <2>3 DEF Along
<1> QED
  BY <1>2, <1>3

LEMMA AlongCommit ==
    ASSUME NEW text \in Texts, NEW n \in 1..Len(text), NEW p, NEW q,
           text[n] = "commit", Along(text, n - 1, p, q)
    PROVE  Along(text, n, {}, q \cup p)
<1> SUFFICES ASSUME NEW j \in 1..n, text[j] \in Stmt, ~Undone(text, j, n)
             PROVE  text[j] \in p \cup q
  BY DEF Along
<1>1. n \in Nat \ {0} /\ j \in Nat
  BY DEF Texts
<1>2. j # n
  BY StmtAssumption DEF Control
<1>3. j \in 1..(n - 1)
  BY <1>1, <1>2
<1>4. ~Undone(text, j, n - 1)
  BY <1>1 DEF Undone
<1> QED
  BY <1>3, <1>4 DEF Along

LEMMA AlongRollback ==
    ASSUME NEW text \in Texts, NEW n \in 1..Len(text), NEW p, NEW q,
           text[n] = "rollback", Along(text, n - 1, p, q)
    PROVE  Along(text, n, {}, q)
<1> SUFFICES ASSUME NEW j \in 1..n, text[j] \in Stmt, ~Undone(text, j, n)
             PROVE  text[j] \in q
  BY DEF Along
<1>1. n \in Nat \ {0} /\ j \in Nat
  BY DEF Texts
<1>2. j # n
  BY StmtAssumption DEF Control
<1>3. j \in 1..(n - 1) /\ n \in (j + 1)..n
  BY <1>1, <1>2
<1>4. ~Undone(text, j, n - 1)
  BY <1>1 DEF Undone
<1>5. \E m \in (j + 1)..(n - 1) : text[m] = "commit"
  BY <1>3 DEF Undone
<1> QED
  BY <1>3, <1>4, <1>5 DEF Along

LEMMA AlongEnd ==
    ASSUME NEW text \in Texts, NEW p, NEW q, Along(text, Len(text), p, q)
    PROVE  Lasting(text) \subseteq p \cup q
<1>1. DOMAIN text = 1..Len(text)
  BY DEF Texts
<1> QED
  BY <1>1 DEF Along, Lasting

(* PgInv holds initially.                                                   *)
LEMMA PgInitInv == PgInit => PgInv
<1> SUFFICES ASSUME PgInit PROVE PgInv
  OBVIOUS
<1>1. PgTypeOK
  BY FaultsAssumption DEF PgInit, PgIdle, PgTypeOK
<1>2. ASSUME NEW c \in Client
      PROVE  /\ Quiet(c) /\ Linked(c) /\ Owns(c) /\ InText(c) /\ Kept(c) /\ ~Answered(c)
  BY DEF PgInit, PgIdle, Quiet, Linked, Owns, InText, Kept, Answered
<1> QED
  BY <1>1, <1>2 DEF PgInv, ClientInv
(* A session is not disturbed by steps of others: db only grows.            *)
LEMMA OthersKeep ==
    ASSUME PgInv, NEW d \in Client, db \subseteq db',
           conn'[d] = conn[d], phase'[d] = phase[d], script'[d] = script[d],
           at'[d] = at[d], outcome'[d] = outcome[d], block'[d] = block[d],
           pend'[d] = pend[d]
    PROVE  ClientInv(d)'
<1>1. ClientInv(d)
  BY DEF PgInv
<1>2. Quiet(d)' /\ Linked(d)' /\ Owns(d)' /\ (Pure(script[d]) => InText(d)')
  BY <1>1 DEF ClientInv, Quiet, Linked, Owns, InText, Done
<1>3. Kept(d)'
  <2>1. Along(script[d], at[d] - 1, pend[d], db) => Along(script[d], at[d] - 1, pend[d], db')
    BY AlongGrows
  <2> QED
    BY <1>1, <2>1 DEF ClientInv, Kept
<1> QED
  BY <1>1, <1>2, <1>3 DEF ClientInv, Answered

\* The constructor of PgExecutor finds a session without debts.
LEMMA ConnectKeeps == ASSUME PgInv, NEW c \in Client, Connect(c) PROVE PgInv'
<1>1. PgTypeOK /\ ClientInv(c)
  BY DEF PgInv
<1>2. PgTypeOK'
  BY <1>1, FaultsAssumption DEF Connect, PgTypeOK, clientVars, serverVars, pgVars
<1>3. ASSUME NEW d \in Client, d # c PROVE ClientInv(d)'
  BY <1>1, <1>3, OthersKeep DEF Connect, PgTypeOK, clientVars, serverVars, pgVars
<1>4. ClientInv(c)'
  BY <1>1 DEF Connect, PgTypeOK, clientVars, serverVars, pgVars, ClientInv, Quiet,
     Linked, Owns, InText, Done, Kept, Answered
<1> QED
  BY <1>2, <1>3, <1>4 DEF PgInv

\* The destructor runs between two calls.
LEMMA DisconnectKeeps == ASSUME PgInv, NEW c \in Client, Disconnect(c) PROVE PgInv'
<1>1. PgTypeOK /\ ClientInv(c)
  BY DEF PgInv
<1>2. PgTypeOK'
  BY <1>1, FaultsAssumption DEF Disconnect, PgTypeOK, clientVars, serverVars, pgVars
<1>3. ASSUME NEW d \in Client, d # c PROVE ClientInv(d)'
  BY <1>1, <1>3, OthersKeep DEF Disconnect, PgTypeOK, clientVars, serverVars, pgVars
<1>4. ClientInv(c)'
  BY <1>1 DEF Disconnect, PgTypeOK, clientVars, serverVars, pgVars, ClientInv, Quiet,
     Linked, Owns, InText, Done, Kept, Answered
<1> QED
  BY <1>2, <1>3, <1>4 DEF PgInv

\* A constructor that throws leaves no session.
LEMMA ConnectFailsKeeps == ASSUME PgInv, NEW c \in Client, ConnectFails(c) PROVE PgInv'
<1>1. PgTypeOK /\ ClientInv(c)
  BY DEF PgInv
<1>2. PgTypeOK'
  BY <1>1, FaultsAssumption DEF ConnectFails, Fault, CanFault, PgTypeOK, clientVars,
     serverVars, pgVars
<1>3. ASSUME NEW d \in Client, d # c PROVE ClientInv(d)'
  BY <1>1, <1>3, OthersKeep DEF ConnectFails, Fault, CanFault, PgTypeOK, clientVars,
     serverVars, pgVars
<1>4. ClientInv(c)'
  BY <1>1 DEF ConnectFails, Fault, CanFault, PgTypeOK, clientVars, serverVars, pgVars,
     ClientInv, Quiet, Linked, Owns, InText, Done, Kept, Answered
<1> QED
  BY <1>2, <1>3, <1>4 DEF PgInv

\* BEGIN opens the block of the call.
LEMMA BeginKeeps == ASSUME PgInv, NEW c \in Client, Begin(c) PROVE PgInv'
<1>1. PgTypeOK /\ ClientInv(c)
  BY DEF PgInv
<1>2. PgTypeOK'
  BY <1>1, FaultsAssumption DEF Begin, PgTypeOK, clientVars, serverVars, pgVars
<1>3. ASSUME NEW d \in Client, d # c PROVE ClientInv(d)'
  BY <1>1, <1>3, OthersKeep DEF Begin, PgTypeOK, clientVars, serverVars, pgVars
<1>4. Quiet(c)' /\ Linked(c)' /\ Owns(c)' /\ ~Answered(c)'
  BY <1>1 DEF Begin, PgTypeOK, ClientInv, Quiet, Linked, Owns, Answered
<1>5. ASSUME Pure(script[c]) PROVE InText(c)'
  <2>1. at[c] = 1 /\ script[c] \in Texts /\ pend[c] = {}
    BY <1>1, <1>5 DEF Begin, PgTypeOK, ClientInv, Quiet, InText, Texts
  <2>2. Done(c)' = {}
    BY <2>1, DoneSteps DEF Begin, Done
  <2> QED
    BY <2>1, <2>2, <1>1 DEF Begin, PgTypeOK, InText, Texts
<1>0. Kept(c)'
  <2>1. at[c] = 1 /\ script[c] \in Texts
    BY <1>1 DEF Begin, PgTypeOK, ClientInv, Kept, Texts
  <2>2. Along(script[c], 1 - 1, pend[c], db)
    BY AlongStart
  <2>3. 1 \in 1..(Len(script[c]) + 1)
    BY <2>1 DEF Texts
  <2> QED
    BY <1>1, <2>1, <2>2, <2>3 DEF Begin, PgTypeOK, Kept
<1>6. ClientInv(c)'
  BY <1>0, <1>4, <1>5 DEF ClientInv, Begin
<1> QED
  BY <1>2, <1>3, <1>6 DEF PgInv

\* A statement adds itself to what its session has pending.
LEMMA RunStmtKeeps == ASSUME PgInv, NEW c \in Client, RunStmt(c) PROVE PgInv'
<1>1. PgTypeOK /\ ClientInv(c)
  BY DEF PgInv
<1>2. PgTypeOK'
  BY <1>1, FaultsAssumption DEF RunStmt, PgTypeOK, clientVars, serverVars, pgVars
<1>3. ASSUME NEW d \in Client, d # c PROVE ClientInv(d)'
  BY <1>1, <1>3, OthersKeep DEF RunStmt, PgTypeOK, clientVars, serverVars, pgVars
<1>4. Quiet(c)' /\ Linked(c)' /\ ~Answered(c)'
  BY <1>1 DEF RunStmt, Running, PgTypeOK, ClientInv, Quiet, Linked, Answered
<1>5. Owns(c)'
  <2>1. at[c] \in DOMAIN script[c]
    BY <1>1 DEF RunStmt, Running, PgTypeOK
  <2>2. Current(c) \in Effects(script[c])
    BY <2>1 DEF RunStmt, Current, Effects
  <2> QED
    BY <1>1, <2>2 DEF RunStmt, PgTypeOK, ClientInv, Owns
<1>6. ASSUME Pure(script[c]) PROVE InText(c)'
  <2>1. /\ script[c] \in Texts /\ at[c] \in 1..Len(script[c])
        /\ Current(c) = script[c][at[c]] /\ Current(c) \in Stmt
        /\ pend[c] = Done(c)
    BY <1>1, <1>6 DEF RunStmt, Running, Current, PgTypeOK, ClientInv, InText, Texts
  <2>2. Plain(script[c])
    BY <2>1, <1>6, StmtAssumption DEF Pure, Plain, Texts
  <2>3. block[c] = "open"
    BY <1>1, <1>6, <2>2 DEF RunStmt, Running, ClientInv, InText
  <2>4. Done(c)' = Done(c) \cup {Current(c)}
    BY <2>1, <1>1, DoneSteps DEF RunStmt, Done, PgTypeOK
  <2>5. pend'[c] = pend[c] \cup {Current(c)} /\ block'[c] = "open"
        /\ at'[c] = at[c] + 1 /\ script' = script /\ phase' = phase
    BY <1>1, <2>3 DEF RunStmt, PgTypeOK
  <2>6. phase[c] = "run"
    BY DEF RunStmt, Running
  <2>7. at'[c] \in 1..(Len(script'[c]) + 1)
    BY <2>1, <2>5 DEF Texts
  <2> QED
    BY <2>1, <2>4, <2>5, <2>6, <2>7 DEF InText
<1>0. Kept(c)'
  <2>1. /\ script[c] \in Texts /\ at[c] \in 1..Len(script[c])
        /\ Current(c) = script[c][at[c]] /\ phase[c] = "run"
        /\ Along(script[c], at[c] - 1, pend[c], db)
    BY <1>1 DEF RunStmt, Running, Current, PgTypeOK, ClientInv, Kept, Texts
  <2>2. /\ at'[c] = at[c] + 1 /\ at'[c] \in 1..(Len(script[c]) + 1)
        /\ at'[c] - 1 = at[c] /\ script'[c] = script[c] /\ phase'[c] = "run"
    BY <1>1, <2>1 DEF RunStmt, PgTypeOK, Texts
  <2>3. Along(script[c], at[c], pend[c] \cup {Current(c)}, db)
    BY <2>1, AlongStmt, StmtAssumption DEF RunStmt, Control
  <2>4. pend'[c] = pend[c] \cup {Current(c)} /\ db' = db
    BY <1>1 DEF RunStmt, PgTypeOK
  <2> QED
    BY <2>1, <2>2, <2>3, <2>4 DEF Kept
<1>7. ClientInv(c)'
  BY <1>0, <1>4, <1>5, <1>6 DEF ClientInv, RunStmt
<1> QED
  BY <1>2, <1>3, <1>7 DEF PgInv

\* A "begin" inside the block changes nothing.
LEMMA RunBeginKeeps == ASSUME PgInv, NEW c \in Client, RunBegin(c) PROVE PgInv'
<1>1. PgTypeOK /\ ClientInv(c)
  BY DEF PgInv
<1>2. PgTypeOK'
  BY <1>1, FaultsAssumption DEF RunBegin, PgTypeOK, clientVars, serverVars, pgVars
<1>3. ASSUME NEW d \in Client, d # c PROVE ClientInv(d)'
  BY <1>1, <1>3, OthersKeep DEF RunBegin, PgTypeOK, clientVars, serverVars, pgVars
<1>4. Quiet(c)' /\ Linked(c)' /\ Owns(c)' /\ ~Answered(c)'
  BY <1>1 DEF RunBegin, Running, PgTypeOK, ClientInv, Quiet, Linked, Owns, Answered
<1>5. ASSUME Pure(script[c]) PROVE InText(c)'
  <2>1. /\ script[c] \in Texts /\ at[c] \in 1..Len(script[c])
        /\ script[c][at[c]] \in Control
        /\ pend[c] = Done(c) /\ phase[c] = "run"
    BY <1>1, <1>5 DEF RunBegin, Running, Current, PgTypeOK, ClientInv, InText, Texts,
       Control
  <2>2. Len(script[c]) = 1 /\ at[c] = 1 /\ Effects(script[c]) = {}
    BY <2>1, <1>5, PureControl
  <2>3. pend[c] = {}
    BY <2>1, <2>2, DoneSteps DEF Done
  <2>4. Done(c)' = {} /\ pend'[c] = {}
    <3>1. pend'[c] = {}
      BY <1>1, <2>3 DEF RunBegin, PgTypeOK
    <3>2. script'[c] = script[c] /\ at'[c] = Len(script[c]) + 1
      BY <1>1, <2>2 DEF RunBegin, PgTypeOK
    <3>3. Done(c)' = Effects(script[c])
      BY <2>1, <3>2, DoneSteps DEF Done
    <3> QED
      BY <2>2, <3>1, <3>3
  <2>5. ~Plain(script[c])
    BY <2>1, <2>2, StmtAssumption DEF Plain, Texts
  <2>6. at'[c] = 2 /\ script' = script /\ phase' = phase /\ block'[c] \in {"open", "idle"}
    BY <1>1, <2>2 DEF RunBegin, PgTypeOK
  <2> QED
    BY <2>1, <2>2, <2>4, <2>5, <2>6 DEF InText
<1>0. Kept(c)'
  <2>1. /\ script[c] \in Texts /\ at[c] \in 1..Len(script[c])
        /\ Current(c) = script[c][at[c]] /\ phase[c] = "run"
        /\ Along(script[c], at[c] - 1, pend[c], db)
    BY <1>1 DEF RunBegin, Running, Current, PgTypeOK, ClientInv, Kept, Texts
  <2>2. /\ at'[c] = at[c] + 1 /\ at'[c] \in 1..(Len(script[c]) + 1)
        /\ at'[c] - 1 = at[c] /\ script'[c] = script[c] /\ phase'[c] = "run"
    BY <1>1, <2>1 DEF RunBegin, PgTypeOK, Texts
  <2>3. pend'[c] = pend[c] /\ db' = db /\ Current(c) = "begin"
    BY DEF RunBegin
  <2>4. Along(script[c], at[c], pend[c] \cup {"begin"}, db)
    BY <2>1, <2>3, AlongStmt
  <2>5. Along(script[c], at[c], pend[c], db)
    BY <2>4, StmtAssumption DEF Along, Control
  <2> QED
    BY <2>1, <2>2, <2>3, <2>5 DEF Kept
<1>6. ClientInv(c)'
  BY <1>0, <1>4, <1>5 DEF ClientInv, RunBegin
<1> QED
  BY <1>2, <1>3, <1>6 DEF PgInv

\* A "commit" or "rollback" in the text ends the block early; a pure text has
\* nothing pending then.
LEMMA RunEndKeeps == ASSUME PgInv, NEW c \in Client, RunEnd(c) PROVE PgInv'
<1>1. PgTypeOK /\ ClientInv(c)
  BY DEF PgInv
<1>2. PgTypeOK'
  BY <1>1, FaultsAssumption DEF RunEnd, PgTypeOK, clientVars, serverVars, pgVars
<1>3. ASSUME NEW d \in Client, d # c PROVE ClientInv(d)'
  BY <1>1, <1>3, OthersKeep DEF RunEnd, PgTypeOK, clientVars, serverVars, pgVars
<1>4. Quiet(c)' /\ Linked(c)' /\ Owns(c)' /\ ~Answered(c)'
  BY <1>1 DEF RunEnd, Running, PgTypeOK, ClientInv, Quiet, Linked, Owns, Answered
<1>5. ASSUME Pure(script[c]) PROVE InText(c)'
  <2>1. /\ script[c] \in Texts /\ at[c] \in 1..Len(script[c])
        /\ script[c][at[c]] \in Control
        /\ pend[c] = Done(c) /\ phase[c] = "run"
    BY <1>1, <1>5 DEF RunEnd, Running, Current, PgTypeOK, ClientInv, InText, Texts, Control
  <2>2. Len(script[c]) = 1 /\ at[c] = 1 /\ Effects(script[c]) = {}
    BY <2>1, <1>5, PureControl
  <2>3. pend[c] = {}
    BY <2>1, <2>2, DoneSteps DEF Done
  <2>4. Done(c)' = {} /\ pend'[c] = {}
    <3>1. pend'[c] = {}
      BY <1>1, <2>3 DEF RunEnd, PgTypeOK
    <3>2. script'[c] = script[c] /\ at'[c] = Len(script[c]) + 1
      BY <1>1, <2>2 DEF RunEnd, PgTypeOK
    <3>3. Done(c)' = Effects(script[c])
      BY <2>1, <3>2, DoneSteps DEF Done
    <3> QED
      BY <2>2, <3>1, <3>3
  <2>5. ~Plain(script[c])
    BY <2>1, <2>2, StmtAssumption DEF Plain, Texts
  <2>6. at'[c] = 2 /\ script' = script /\ phase' = phase /\ block'[c] \in {"open", "idle"}
    BY <1>1, <2>2 DEF RunEnd, PgTypeOK
  <2> QED
    BY <2>1, <2>2, <2>4, <2>5, <2>6 DEF InText
<1>0. Kept(c)'
  <2>1. /\ script[c] \in Texts /\ at[c] \in 1..Len(script[c])
        /\ Current(c) = script[c][at[c]] /\ phase[c] = "run"
        /\ Along(script[c], at[c] - 1, pend[c], db)
    BY <1>1 DEF RunEnd, Running, Current, PgTypeOK, ClientInv, Kept, Texts
  <2>2. /\ at'[c] = at[c] + 1 /\ at'[c] \in 1..(Len(script[c]) + 1)
        /\ at'[c] - 1 = at[c] /\ script'[c] = script[c] /\ phase'[c] = "run"
    BY <1>1, <2>1 DEF RunEnd, PgTypeOK, Texts
  <2>3. pend'[c] = {}
    BY <1>1 DEF RunEnd, PgTypeOK
  <2>4. CASE Current(c) = "commit"
    <3>1. Along(script[c], at[c], {}, db \cup pend[c])
      BY <2>1, <2>4, AlongCommit
    <3>2. db' = db \cup pend[c]
      BY <2>4 DEF RunEnd
    <3> QED
      BY <2>1, <2>2, <2>3, <3>1, <3>2 DEF Kept
  <2>5. CASE Current(c) = "rollback"
    <3>1. Along(script[c], at[c], {}, db)
      BY <2>1, <2>5, AlongRollback
    <3>2. db' = db
      BY <2>5 DEF RunEnd
    <3> QED
      BY <2>1, <2>2, <2>3, <3>1, <3>2 DEF Kept
  <2> QED
    BY <2>4, <2>5 DEF RunEnd
<1>6. ClientInv(c)'
  BY <1>0, <1>4, <1>5 DEF ClientInv, RunEnd
<1> QED
  BY <1>2, <1>3, <1>6 DEF PgInv

\* A rejected statement fails the block and undoes it.
LEMMA RejectKeeps == ASSUME PgInv, NEW c \in Client, Reject(c) PROVE PgInv'
<1>1. PgTypeOK /\ ClientInv(c)
  BY DEF PgInv
<1>2. PgTypeOK'
  BY <1>1, FaultsAssumption DEF Reject, FailBlock, PgTypeOK, clientVars, serverVars, pgVars
<1>3. ASSUME NEW d \in Client, d # c PROVE ClientInv(d)'
  BY <1>1, <1>3, OthersKeep DEF Reject, FailBlock, PgTypeOK, clientVars, serverVars, pgVars
<1>4. ClientInv(c)'
  BY <1>1 DEF Reject, FailBlock, Running, PgTypeOK, clientVars, serverVars, pgVars,
     ClientInv, Quiet, Linked, Owns, InText, Kept, Answered
<1> QED
  BY <1>2, <1>3, <1>4 DEF PgInv

\* So does one that the server gives up.
LEMMA GiveUpKeeps == ASSUME PgInv, NEW c \in Client, GiveUp(c) PROVE PgInv'
<1>1. PgTypeOK /\ ClientInv(c)
  BY DEF PgInv
<1>2. PgTypeOK'
  BY <1>1, FaultsAssumption DEF GiveUp, FailBlock, Fault, CanFault, PgTypeOK, clientVars,
     serverVars, pgVars
<1>3. ASSUME NEW d \in Client, d # c PROVE ClientInv(d)'
  BY <1>1, <1>3, OthersKeep DEF GiveUp, FailBlock, Fault, CanFault, PgTypeOK, clientVars,
     serverVars, pgVars
<1>4. ClientInv(c)'
  BY <1>1 DEF GiveUp, FailBlock, Fault, CanFault, Running, PgTypeOK, clientVars,
     serverVars, pgVars, ClientInv, Quiet, Linked, Owns, InText, Kept, Answered
<1> QED
  BY <1>2, <1>3, <1>4 DEF PgInv

\* So does the choice of a deadlock victim.
LEMMA VictimKeeps == ASSUME PgInv, NEW c \in Client, Victim(c) PROVE PgInv'
<1>1. PgTypeOK /\ ClientInv(c)
  BY DEF PgInv
<1>2. PgTypeOK'
  BY <1>1, FaultsAssumption DEF Victim, FailBlock, PgTypeOK, clientVars, serverVars, pgVars
<1>3. ASSUME NEW d \in Client, d # c PROVE ClientInv(d)'
  BY <1>1, <1>3, OthersKeep DEF Victim, FailBlock, PgTypeOK, clientVars, serverVars, pgVars
<1>4. ClientInv(c)'
  BY <1>1 DEF Victim, FailBlock, InCircle, WaitsFor, Running, PgTypeOK, clientVars, serverVars,
     pgVars, ClientInv, Quiet, Linked, Owns, InText, Kept, Answered
<1> QED
  BY <1>2, <1>3, <1>4 DEF PgInv

\* The end of the text commits what ran outside a block.
LEMMA EndScriptKeeps == ASSUME PgInv, NEW c \in Client, EndScript(c) PROVE PgInv'
<1>1. PgTypeOK /\ ClientInv(c)
  BY DEF PgInv
<1>2. PgTypeOK'
  BY <1>1, FaultsAssumption DEF EndScript, PgTypeOK, clientVars, serverVars, pgVars
<1>3. ASSUME NEW d \in Client, d # c PROVE ClientInv(d)'
  BY <1>1, <1>3, OthersKeep DEF EndScript, PgTypeOK, clientVars, serverVars, pgVars
<1>4. Quiet(c)' /\ Linked(c)' /\ Owns(c)' /\ ~Answered(c)'
  BY <1>1 DEF EndScript, PgTypeOK, ClientInv, Quiet, Linked, Owns, Answered
<1>5. ASSUME Pure(script[c]) PROVE InText(c)'
  <2>1. /\ script[c] \in Texts /\ pend[c] = Done(c) /\ at[c] = Len(script[c]) + 1
        /\ block[c] \in {"open", "idle"}
    BY <1>1, <1>5 DEF EndScript, PgTypeOK, ClientInv, InText, Texts
  <2>2. pend[c] = Effects(script[c])
    BY <2>1, DoneSteps DEF Done
  <2> QED
    BY <1>1, <2>1, <2>2 DEF EndScript, InText, PgTypeOK
<1>0. Kept(c)'
  <2>1. /\ script[c] \in Texts /\ at[c] = Len(script[c]) + 1
        /\ Along(script[c], at[c] - 1, pend[c], db)
    BY <1>1 DEF EndScript, PgTypeOK, ClientInv, Kept, Texts
  <2>2. at[c] - 1 = Len(script[c])
    BY <2>1 DEF Texts
  <2>3. Lasting(script[c]) \subseteq pend[c] \cup db
    BY <2>1, <2>2, AlongEnd
  <2>4. script'[c] = script[c] /\ phase'[c] = "commit" /\ pend[c] \cup db \subseteq pend'[c] \cup db'
    BY <1>1 DEF EndScript, PgTypeOK
  <2> QED
    BY <2>3, <2>4 DEF Kept
<1>6. ClientInv(c)'
  BY <1>0, <1>4, <1>5 DEF ClientInv, EndScript
<1> QED
  BY <1>2, <1>3, <1>6 DEF PgInv

\* tx.commit() publishes what is pending.
LEMMA CommitKeeps == ASSUME PgInv, NEW c \in Client, Commit(c) PROVE PgInv'
<1>1. PgTypeOK /\ ClientInv(c)
  BY DEF PgInv
<1>2. PgTypeOK'
  BY <1>1, FaultsAssumption DEF Commit, PgTypeOK, clientVars, serverVars, pgVars
<1>3. ASSUME NEW d \in Client, d # c PROVE ClientInv(d)'
  BY <1>1, <1>3, OthersKeep DEF Commit, PgTypeOK, clientVars, serverVars, pgVars
<1>4. ClientInv(c)'
  BY <1>1 DEF Commit, PgTypeOK, clientVars, serverVars, pgVars, ClientInv, Quiet, Linked,
     Owns, InText, Done, Kept, Answered
<1> QED
  BY <1>2, <1>3, <1>4 DEF PgInv

\* A COMMIT that fails undoes it.
LEMMA CommitRejectKeeps == ASSUME PgInv, NEW c \in Client, CommitReject(c) PROVE PgInv'
<1>1. PgTypeOK /\ ClientInv(c)
  BY DEF PgInv
<1>2. PgTypeOK'
  BY <1>1, FaultsAssumption DEF CommitReject, Fault, CanFault, PgTypeOK, clientVars,
     serverVars, pgVars
<1>3. ASSUME NEW d \in Client, d # c PROVE ClientInv(d)'
  BY <1>1, <1>3, OthersKeep DEF CommitReject, Fault, CanFault, PgTypeOK, clientVars,
     serverVars, pgVars
<1>4. ClientInv(c)'
  BY <1>1 DEF CommitReject, Fault, CanFault, PgTypeOK, clientVars, serverVars, pgVars,
     ClientInv, Quiet, Linked, Owns, InText, Done, Kept, Answered
<1> QED
  BY <1>2, <1>3, <1>4 DEF PgInv

\* exec returns after its COMMIT.
LEMMA ReplyKeeps == ASSUME PgInv, NEW c \in Client, Reply(c) PROVE PgInv'
<1>1. PgTypeOK /\ ClientInv(c)
  BY DEF PgInv
<1>2. PgTypeOK'
  BY <1>1, FaultsAssumption DEF Reply, PgTypeOK, clientVars, serverVars, pgVars
<1>3. ASSUME NEW d \in Client, d # c PROVE ClientInv(d)'
  BY <1>1, <1>3, OthersKeep DEF Reply, PgTypeOK, clientVars, serverVars, pgVars
<1>4. ClientInv(c)'
  BY <1>1 DEF Reply, PgTypeOK, clientVars, serverVars, pgVars, ClientInv, Quiet, Linked,
     Owns, InText, Done, Kept, Answered
<1> QED
  BY <1>2, <1>3, <1>4 DEF PgInv

\* The destructor of the work sends ROLLBACK.
LEMMA AbortKeeps == ASSUME PgInv, NEW c \in Client, Abort(c) PROVE PgInv'
<1>1. PgTypeOK /\ ClientInv(c)
  BY DEF PgInv
<1>2. PgTypeOK'
  BY <1>1, FaultsAssumption DEF Abort, PgTypeOK, clientVars, serverVars, pgVars
<1>3. ASSUME NEW d \in Client, d # c PROVE ClientInv(d)'
  BY <1>1, <1>3, OthersKeep DEF Abort, PgTypeOK, clientVars, serverVars, pgVars
<1>4. ClientInv(c)'
  BY <1>1 DEF Abort, PgTypeOK, clientVars, serverVars, pgVars, ClientInv, Quiet, Linked,
     Owns, InText, Done, Kept, Answered
<1> QED
  BY <1>2, <1>3, <1>4 DEF PgInv

\* A lost connection ends the session; a COMMIT under way becomes an orphan.
LEMMA LoseKeeps == ASSUME PgInv, NEW c \in Client, Lose(c) PROVE PgInv'
<1>1. PgTypeOK /\ ClientInv(c)
  BY DEF PgInv
<1>2. PgTypeOK'
  BY <1>1, FaultsAssumption DEF Lose, EndSession, Fault, CanFault, PgTypeOK, clientVars,
     serverVars, pgVars
<1>3. ASSUME NEW d \in Client, d # c PROVE ClientInv(d)'
  BY <1>1, <1>3, OthersKeep DEF Lose, EndSession, Fault, CanFault, PgTypeOK, clientVars,
     serverVars, pgVars
<1>4. ClientInv(c)'
  BY <1>1 DEF Lose, EndSession, Fault, CanFault, PgTypeOK, clientVars, serverVars,
     pgVars, ClientInv, Quiet, Linked, Owns, InText, Done, Kept, Answered
<1> QED
  BY <1>2, <1>3, <1>4 DEF PgInv

\* A killed process does the same.
LEMMA CrashKeeps == ASSUME PgInv, NEW c \in Client, Crash(c) PROVE PgInv'
<1>1. PgTypeOK /\ ClientInv(c)
  BY DEF PgInv
<1>2. PgTypeOK'
  BY <1>1, FaultsAssumption DEF Crash, EndSession, Fault, CanFault, PgTypeOK, clientVars,
     serverVars, pgVars
<1>3. ASSUME NEW d \in Client, d # c PROVE ClientInv(d)'
  BY <1>1, <1>3, OthersKeep DEF Crash, EndSession, Fault, CanFault, PgTypeOK, clientVars,
     serverVars, pgVars
<1>4. ClientInv(c)'
  BY <1>1 DEF Crash, EndSession, Fault, CanFault, PgTypeOK, clientVars, serverVars,
     pgVars, ClientInv, Quiet, Linked, Owns, InText, Done, Kept, Answered
<1> QED
  BY <1>2, <1>3, <1>4 DEF PgInv

\* exec is entered between two calls.
LEMMA CallKeeps ==
    ASSUME PgInv, NEW c \in Client, NEW sql \in Texts, Call(c, sql)
    PROVE  PgInv'
<1>1. PgTypeOK /\ ClientInv(c)
  BY DEF PgInv
<1>2. PgTypeOK'
  BY <1>1 DEF Call, PgTypeOK, serverVars, Texts
<1>3. ASSUME NEW d \in Client, d # c PROVE ClientInv(d)'
  BY <1>1, <1>3, OthersKeep DEF Call, PgTypeOK, serverVars
<1>4. ClientInv(c)'
  BY <1>1 DEF Call, PgTypeOK, serverVars, ClientInv, Quiet, Linked, Owns, InText,
     Kept, Answered
<1> QED
  BY <1>2, <1>3, <1>4 DEF PgInv

\* On a connection known to be lost exec throws before it does anything.
LEMMA RefuseKeeps ==
    ASSUME PgInv, NEW c \in Client, NEW sql \in Texts, Refuse(c, sql)
    PROVE  PgInv'
<1>1. PgTypeOK /\ ClientInv(c)
  BY DEF PgInv
<1>2. PgTypeOK'
  BY <1>1 DEF Refuse, PgTypeOK, serverVars, Texts
<1>3. ASSUME NEW d \in Client, d # c PROVE ClientInv(d)'
  BY <1>1, <1>3, OthersKeep DEF Refuse, PgTypeOK, serverVars
<1>4. ClientInv(c)'
  BY <1>1 DEF Refuse, PgTypeOK, serverVars, ClientInv, Quiet, Linked, Owns, InText,
     Kept, Answered
<1> QED
  BY <1>2, <1>3, <1>4 DEF PgInv

\* A COMMIT in doubt is settled without any session.
LEMMA SettleKeeps == ASSUME PgInv, Land \/ Drop PROVE PgInv'
<1>1. PgTypeOK
  BY DEF PgInv
<1>2. PgTypeOK'
  BY <1>1 DEF Land, Drop, PgTypeOK, clientVars
<1>3. ASSUME NEW d \in Client PROVE ClientInv(d)'
  BY OthersKeep DEF Land, Drop, clientVars
<1> QED
  BY <1>2, <1>3 DEF PgInv

(* Every step of a process, whatever text it executes, keeps PgInv.         *)
LEMMA StepKeeps == ASSUME PgInv, [NextWith(Texts)]_pgVars PROVE PgInv'
<1>1. ASSUME UNCHANGED pgVars PROVE PgInv'
  <2>1. PgTypeOK'
    BY <1>1 DEF PgInv, PgTypeOK, pgVars, clientVars, serverVars
  <2>2. ASSUME NEW d \in Client PROVE ClientInv(d)'
    BY <1>1, OthersKeep DEF pgVars, clientVars, serverVars
  <2> QED
    BY <2>1, <2>2 DEF PgInv
<1>2. ASSUME NEW c \in Client, NEW sql \in Texts, Exec(c, sql) PROVE PgInv'
  BY <1>2, CallKeeps, RefuseKeeps DEF Exec
<1>3. ASSUME NEW c \in Client, Connect(c) \/ ConnectFails(c) \/ Disconnect(c) PROVE PgInv'
  BY <1>3, ConnectKeeps, ConnectFailsKeeps, DisconnectKeeps
<1>4. ASSUME NEW c \in Client, Dialogue(c) PROVE PgInv'
  BY <1>4, BeginKeeps, RunStmtKeeps, RunBeginKeeps, RunEndKeeps, RejectKeeps, VictimKeeps,
     EndScriptKeeps, CommitKeeps, ReplyKeeps, AbortKeeps DEF Dialogue
<1>5. ASSUME NEW c \in Client, SessionFault(c) \/ Crash(c) PROVE PgInv'
  BY <1>5, GiveUpKeeps, CommitRejectKeeps, LoseKeeps, CrashKeeps DEF SessionFault
<1> QED
  BY <1>1, <1>2, <1>3, <1>4, <1>5, SettleKeeps DEF NextWith

-----------------------------------------------------------------------------
(* PgInv is an invariant of the specification.                              *)
THEOREM PgInvariant == Spec => []PgInv
<1>1. ASSUME PgInv, [Next]_pgVars PROVE PgInv'
  <2>1. [NextWith(Texts)]_pgVars
    BY <1>1, ScriptsAssumption DEF Next, NextWith, Texts
  <2> QED
    BY <1>1, <2>1, StepKeeps
<1> QED
  BY PgInitInv, <1>1, PTL DEF Spec

(* The variables of the executor and of the server keep their types.        *)
THEOREM PgTypeCorrect == Spec => []PgTypeOK
<1>1. PgInv => PgTypeOK
  BY DEF PgInv
<1> QED
  BY <1>1, PgInvariant, PTL

(* No exec leaves a transaction block behind, for any number of processes,   *)
(* any texts and any number of faults.                                       *)
THEOREM CleanAlways == Spec => []CleanBetweenCalls
<1>1. PgInv => CleanBetweenCalls
  BY DEF PgInv, ClientInv, Quiet, CleanBetweenCalls
<1> QED
  BY <1>1, PgInvariant, PTL

(* An exec that returned normally has made durable all that its text leaves,  *)
(* whatever transaction control the text holds.                              *)
THEOREM OkDurableAlways == Spec => []OkIsDurable
<1>1. PgInv => OkIsDurable
  BY DEF PgInv, ClientInv, Answered, OkIsDurable
<1> QED
  BY <1>1, PgInvariant, PTL

-----------------------------------------------------------------------------
(* The measure of a call.                                                    *)

\* The server is at a statement of the text, or just behind the last one.
Reached(c) == /\ phase[c] = "begin" => at[c] = 1
              /\ phase[c] = "run" => at[c] <= Len(script[c]) + 1

AllReached == \A c \in Client : Reached(c)

\* Each step of the dialogue, and each fault in it, brings the call nearer to its end.
LEMMA DialogueGoesOn ==
    ASSUME PgTypeOK, NEW c \in Client, Reached(c), Dialogue(c) \/ SessionFault(c) \/ Crash(c)
    PROVE  /\ Onward(c) /\ Reached(c)'
           /\ \A d \in Client \ {c} : phase'[d] = phase[d] /\ at'[d] = at[d]
           /\ script' = script
<1>1. /\ at[c] \in Nat \ {0} /\ Len(script[c]) \in Nat
      /\ phase \in [Client -> {"idle", "begin", "run", "commit", "committed", "abort"}]
      /\ at \in [Client -> Nat \ {0}]
  BY DEF PgTypeOK
<1>2. /\ script' = script
      /\ \A d \in Client \ {c} : phase'[d] = phase[d] /\ at'[d] = at[d]
  BY <1>1 DEF Dialogue, SessionFault, Begin, RunStmt, RunBegin, RunEnd, Reject, Victim, EndScript,
     Commit, Reply, Abort, GiveUp, CommitReject, Lose, Crash, EndSession, FailBlock, serverVars
<1>3. \/ phase[c] = "begin" /\ phase'[c] = "run" /\ at'[c] = at[c]
      \/ /\ phase[c] = "run" /\ at[c] <= Len(script[c])
         /\ \/ phase'[c] = "run" /\ at'[c] = at[c] + 1
            \/ phase'[c] = "abort" /\ at'[c] = at[c]
      \/ phase[c] = "run" /\ phase'[c] = "commit" /\ at'[c] = at[c]
      \/ phase[c] = "commit" /\ phase'[c] = "committed" /\ at'[c] = at[c]
      \/ phase'[c] = "idle" /\ at'[c] = at[c]
  BY <1>1 DEF Dialogue, SessionFault, Begin, RunStmt, RunBegin, RunEnd, Reject, Victim, EndScript,
     InCircle, WaitsFor, Running, Commit, Reply, Abort, GiveUp, CommitReject, Lose, Crash, EndSession,
     FailBlock
<1>4. Reached(c)'
  BY <1>1, <1>2, <1>3 DEF Reached
<1>5. Onward(c)
  <2>1. CASE phase[c] = "idle"
    BY <1>1, <1>2, <1>3, <2>1 DEF Onward
  <2>2. CASE phase[c] # "idle"
    <3>1. phase[c] \in {"begin", "run", "commit", "committed", "abort"}
      BY <1>1, <2>2
    <3> QED
      BY <1>1, <1>2, <1>3, <3>1 DEF Reached, Onward, Left
  <2> QED
    BY <2>1, <2>2
<1> QED
  BY <1>2, <1>4, <1>5

\* No process is moved back by the steps of others, and none begins before its end.
LEMMA GoesOn ==
    ASSUME PgTypeOK, AllReached, [NextWith(Texts)]_pgVars
    PROVE  /\ AllReached'
           /\ \A d \in Client : phase[d] # "idle" => Onward(d)
<1> SUFFICES ASSUME NEW d \in Client PROVE Reached(d)' /\ (phase[d] # "idle" => Onward(d))
  BY DEF AllReached
<1>1. Reached(d)
  BY DEF AllReached
<1>2. ASSUME script'[d] = script[d], phase'[d] = phase[d], at'[d] = at[d]
      PROVE  Reached(d)' /\ Onward(d)
  BY <1>1, <1>2 DEF Reached, Onward
<1>3. CASE UNCHANGED pgVars
  BY <1>2, <1>3 DEF pgVars, clientVars
<1>4. CASE Land \/ Drop
  BY <1>2, <1>4 DEF Land, Drop, clientVars
<1>5. ASSUME NEW c \in Client, Connect(c) \/ ConnectFails(c) \/ Disconnect(c)
      PROVE  Reached(d)' /\ Onward(d)
  BY <1>2, <1>5 DEF Connect, ConnectFails, Disconnect, clientVars
<1>6. ASSUME NEW c \in Client, Dialogue(c) \/ SessionFault(c) \/ Crash(c)
      PROVE  Reached(d)' /\ Onward(d)
  <2>1. Reached(c)
    BY DEF AllReached
  <2> QED
    BY <1>2, <1>6, <2>1, DialogueGoesOn
<1>7. ASSUME NEW c \in Client, NEW sql \in Texts, Exec(c, sql)
      PROVE  Reached(d)' /\ (phase[d] # "idle" => Onward(d))
  <2>1. CASE c = d
    BY <1>7, <2>1 DEF Exec, Call, Refuse, PgTypeOK, Reached
  <2>2. CASE c # d
    BY <1>2, <1>7, <2>2 DEF Exec, Call, Refuse, PgTypeOK
  <2> QED
    BY <2>1, <2>2
<1> QED
  BY <1>3, <1>4, <1>5, <1>6, <1>7 DEF NextWith

(* Every call of exec goes forward, for any texts, processes and faults, also *)
(* if the text controls transactions itself.                                 *)
THEOREM CallsForward == Spec => CallsGoForward
<1>1. PgInit => AllReached
  BY DEF PgInit, PgIdle, AllReached, Reached
<1>2. ASSUME PgInv, AllReached, [Next]_pgVars
      PROVE  AllReached' /\ [\A c \in Client : phase[c] # "idle" => Onward(c)]_pgVars
  <2>1. [NextWith(Texts)]_pgVars
    BY <1>2, ScriptsAssumption DEF Next, NextWith, Texts
  <2> QED
    BY <1>2, <2>1, GoesOn DEF PgInv
<1> QED
  BY <1>1, <1>2, PgInvariant, PTL DEF Spec, CallsGoForward

-----------------------------------------------------------------------------
(* If all sessions that are in a call were blocked without a COMMIT in doubt,  *)
(* they would all be in one circle.                                          *)
LEMMA CircleOfAll == PgInv => NoStandstill
<1> SUFFICES ASSUME PgInv, NEW c \in Client, phase[c] # "idle", orphan = {},
                    \A d \in Client : phase[d] # "idle" => Blocked(d)
             PROVE  FALSE
  BY DEF NoStandstill
<1> DEFINE S == {d \in Client : phase[d] # "idle"}
<1>1. ASSUME NEW d \in S PROVE \E e \in S : WaitsFor(d, e)
  <2>1. Running(d) /\ Held(d, Current(d))
    BY DEF Blocked
  <2>2. PICK e \in Client \ {d} : Current(d) \in pend[e]
    BY <2>1 DEF Held
  <2>3. phase[e] # "idle"
    BY <2>2 DEF PgInv, ClientInv, Quiet
  <2> QED
    BY <2>1, <2>2, <2>3 DEF WaitsFor
<1>2. S \in SUBSET Client /\ c \in S
  OBVIOUS
<1>3. InCircle(c)
  BY <1>1, <1>2 DEF InCircle
<1> QED
  BY <1>3 DEF Blocked

(* The sessions never come to a standstill, for any processes and texts.     *)
THEOREM NeverAtAStandstill == Spec => []NoStandstill
<1> QED
  BY CircleOfAll, PgInvariant, PTL
=============================================================================
