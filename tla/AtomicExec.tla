----------------------------- MODULE AtomicExec -----------------------------
(***************************************************************************)
(* What PgExecutor::exec promises its caller: the whole text takes effect   *)
(* at one point between the call and the normal return; after an exception  *)
(* it has taken effect entirely, or not at all, or is in doubt and will     *)
(* take effect entirely or not at all later.  A text of transaction control *)
(* alone has no effect.                                                     *)
(***************************************************************************)
EXTENDS Sequences, FiniteSets

CONSTANTS Client, Stmt, Scripts

Effects(text) == {text[j] : j \in DOMAIN text} \cap Stmt

VARIABLES call,      \* "idle", "pending", "effected"
          script,    \* the text of the latest call
          outcome,   \* how the latest call ended
          doubt,     \* effects in doubt
          db         \* effects that have been taken

vars == <<call, script, outcome, doubt, db>>

Init == /\ call = [c \in Client |-> "idle"]
        /\ script = [c \in Client |-> <<>>]
        /\ outcome = [c \in Client |-> "none"]
        /\ doubt = {}
        /\ db = {}

Invoke(c, text) ==
    /\ call[c] = "idle"
    /\ script' = [script EXCEPT ![c] = text]
    /\ \/ /\ call' = [call EXCEPT ![c] = "pending"]
          /\ outcome' = [outcome EXCEPT ![c] = "none"]
       \/ /\ outcome' = [outcome EXCEPT ![c] = "error"]
          /\ UNCHANGED call
    /\ UNCHANGED <<doubt, db>>

TakeEffect(c) ==
    /\ call[c] = "pending"
    /\ call' = [call EXCEPT ![c] = "effected"]
    /\ db' = db \cup Effects(script[c])
    /\ UNCHANGED <<script, outcome, doubt>>

Return(c) ==
    /\ call[c] = "effected"
    /\ call' = [call EXCEPT ![c] = "idle"]
    /\ outcome' = [outcome EXCEPT ![c] = "ok"]
    /\ UNCHANGED <<script, doubt, db>>

\* An exception, or the end of the calling process.
Fail(c) ==
    /\ call' = [call EXCEPT ![c] = "idle"]
    /\ \E o \in {"error", "none"} : outcome' = [outcome EXCEPT ![c] = o]
    /\ \/ UNCHANGED doubt
       \/ /\ call[c] = "pending"
          /\ doubt' = doubt \cup {Effects(script[c])}
    /\ UNCHANGED <<script, db>>

Settle == \E p \in doubt : /\ doubt' = doubt \ {p}
                           /\ db' \in {db, db \cup p}
                           /\ UNCHANGED <<call, script, outcome>>

Next == \/ \E c \in Client : \/ \E text \in Scripts : Invoke(c, text)
                             \/ TakeEffect(c)
                             \/ Return(c)
                             \/ Fail(c)
        \/ Settle

Spec == Init /\ [][Next]_vars
=============================================================================
