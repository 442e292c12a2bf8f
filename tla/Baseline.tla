------------------------------ MODULE Baseline ------------------------------
(***************************************************************************)
(* What the commands apply-meta-structure and apply-meta-data promise: the  *)
(* files of a directory enter the database one at a time and as a whole; if *)
(* nobody asked to continue on errors, in the order of the directory; and a *)
(* command that then succeeds has brought in all of them.  A command may    *)
(* fail at any time and be given again.                                     *)
(***************************************************************************)
EXTENDS Naturals

CONSTANTS Client,
          Work,        \* directory -> positions of the plain files with statements
          Unusable     \* the directories with a file that cannot be opened

VARIABLES options,     \* client -> [dir, strict, unattended], fixed
          applied,     \* the files <<directory, position>> in the database
          verdict      \* client -> "running", "success", "failure"

vars == <<options, applied, verdict>>

AllApplied(d) == \A j \in Work[d] : <<d, j>> \in applied

Ordered(d) == \A c \in Client : options[c].dir = d => options[c].strict

Init == /\ applied = {}
        /\ verdict = [c \in Client |-> "running"]

Apply(d, j) ==
    /\ <<d, j>> \notin applied
    /\ Ordered(d) => \A k \in Work[d] : k < j => <<d, k>> \in applied
    /\ applied' = applied \cup {<<d, j>>}
    /\ UNCHANGED <<options, verdict>>

Succeed(c) ==
    /\ verdict[c] = "running"
    /\ verdict' = [verdict EXCEPT ![c] = "success"]
    /\ (options[c].strict /\ options[c].unattended)
           => options[c].dir \notin Unusable /\ AllApplied(options[c].dir)
    /\ UNCHANGED <<options, applied>>

Fail(c) ==
    /\ verdict[c] = "running"
    /\ verdict' = [verdict EXCEPT ![c] = "failure"]
    /\ UNCHANGED <<options, applied>>

Again(c) ==
    /\ verdict[c] # "running"
    /\ verdict' = [verdict EXCEPT ![c] = "running"]
    /\ UNCHANGED <<options, applied>>

Next == \/ \E d \in DOMAIN Work : \E j \in Work[d] : Apply(d, j)
        \/ \E c \in Client : Succeed(c) \/ Fail(c) \/ Again(c)

Spec == Init /\ [][Next]_vars
=============================================================================
