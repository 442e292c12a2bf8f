--------------------------- MODULE ApplyRefinement ---------------------------
(***************************************************************************)
(* The commands implement Baseline: seen from the database and the shell,   *)
(* the dialogue of each plain file is one step.                             *)
(***************************************************************************)
EXTENDS ApplyMeta

Places == UNION {{d} \X DOMAIN Dir[d] : d \in DOMAIN Dir}

\* A file that controls transactions itself is none that Baseline speaks of.
HasWork(d, j) == HasText(d, j) /\ Plain(Dir[d][j]) /\ Effects(Dir[d][j]) # {}

WorkOf == [d \in DOMAIN Dir |-> {j \in DOMAIN Dir[d] : HasWork(d, j)}]

UnusableDirs == {d \in DOMAIN Dir : \E j \in DOMAIN Dir[d] : ~HasText(d, j)}

OptionsSeen == [c \in Client |-> [dir |-> opts[c].dir,
                                  strict |-> ~opts[c].cont,
                                  unattended |-> Unattended(c)]]

AppliedFiles == {f \in Places : HasWork(f[1], f[2]) /\ Applied(f[1], f[2])}

VerdictOf(c) == CASE exit[c] = "none" -> "running"
                  [] exit[c] = "0" -> "success"
                  [] OTHER -> "failure"

verdicts == [c \in Client |-> VerdictOf(c)]

Promise == INSTANCE Baseline
           WITH Work <- WorkOf, Unusable <- UnusableDirs,
                options <- OptionsSeen, applied <- AppliedFiles,
                verdict <- verdicts

\* No two files share a statement.
SeparateFiles ==
    \A f, g \in Places :
        (f # g /\ HasText(f[1], f[2]) /\ HasText(g[1], g[2])) =>
            Effects(Dir[f[1]][f[2]]) \cap Effects(Dir[g[1]][g[2]]) = {}

ASSUME SeparateAssumption == SeparateFiles

(* The commands implement Baseline (ApplyMetaStructure.cpp:48-94).           *)
KeepsPromise == Promise!Spec
=============================================================================
