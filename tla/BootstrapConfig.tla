--------------------------- MODULE BootstrapConfig ---------------------------
(***************************************************************************)
(* How the commands apply-meta-structure and apply-meta-data of the          *)
(* bootstrap tool come by their options                                      *)
(* (MSG5_InstallDB/bootstrap/sources/SourcesChain.cpp) and decide whether to *)
(* touch the database (commands/ApplyMetaStructure.cpp up to the prompt).    *)
(***************************************************************************)
EXTENDS Resolver

\* The options that decide have no default and no variable of their own name
\* (ApplyMetaStructureSpec.cpp:20-25).
Consent == {"force", "dry_run", "yes"}
ASSUME ConsentAssumption ==
    \A k \in Consent : k \in Keys /\ Option(k).default = NoDefault
                      /\ \A w \in Worlds : Explicit(w.env, k) = {}

VARIABLES verdict   \* "none", "usage", "plan", "confirm", "canceled", "execute"

bcVars == <<vars, verdict>>

-----------------------------------------------------------------------------
(* SourcesChain.cpp                                                          *)

NoPath == ""

\* The text of a token as it stands on the command line, as far as it may name
\* a file.
TextOf(token) == IF token.form \in {"word", "slash"} THEN token.text ELSE "a flag"

\* The token after the first --config, or the variable, if it is not empty.
FindConfigPath(w) ==
    LET after == {j \in 1..(Len(w.argv) - 1) :
                     w.argv[j].form = "long" /\ w.argv[j].name = "config"}
    IN CASE after # {} -> TextOf(w.argv[Least(after) + 1])
         [] after = {} /\ "MSG5_BOOTSTRAP_CONFIG" \in DOMAIN w.env ->
                w.env["MSG5_BOOTSTRAP_CONFIG"]
         [] OTHER -> NoPath

Source(kind, path) == [kind |-> kind, path |-> path, asks |-> TRUE]

MakeDefaultSources(path) ==
    IF path = NoPath
    THEN <<Source("cli", NoPath), Source("env", NoPath), Source("stdin", NoPath)>>
    ELSE <<Source("cli", NoPath), Source("file", path), Source("env", NoPath),
           Source("stdin", NoPath)>>

ResolveForInit ==
    /\ world \in Worlds
    /\ chain = MakeDefaultSources(FindConfigPath(world))
    /\ params = [defaults |-> TRUE, validate |-> TRUE]
    /\ Start
    /\ verdict = "none"

-----------------------------------------------------------------------------
(* The command, from the return of ResolveFor to the connection.  The errors *)
(* of the validation have only been logged.                                  *)

Given(k) == IF k \in DOMAIN values THEN values[k] ELSE ""
Is(k) == Given(k) = "true"

Decide ==
    /\ stage = "done"
    /\ verdict = "none"
    /\ verdict' = IF \/ Given("app_dsn") = ""
                     \/ Given("dir") = ""
                     \/ Given("tx_mode") \notin {"per-file", "single", "none"}
                  THEN "usage"
                  ELSE IF Is("dry_run") \/ ~Is("force") THEN "plan"
                  ELSE IF Is("yes") THEN "execute"
                  ELSE "confirm"
    /\ UNCHANGED vars

\* The prompt source has read the pipe to its end.
Drained == \E n \in asked : chain[n].kind = "stdin"

\* Variant: the end of the input counts as a yes.
ConfirmEofIsYes ==
    /\ verdict = "confirm"
    /\ verdict' \in IF world.stdin.kind = "tty" THEN {"execute", "canceled"}
                    ELSE IF Drained \/ world.stdin.yes THEN {"execute"}
                    ELSE {"canceled"}
    /\ UNCHANGED vars

\* yes_no reads a line: from the user, or what is left in the pipe.
Confirm ==
    /\ verdict = "confirm"
    /\ verdict' \in IF world.stdin.kind = "tty" THEN {"execute", "canceled"}
                    ELSE IF Drained \/ ~world.stdin.yes THEN {"canceled"}
                    ELSE {"execute"}
    /\ UNCHANGED vars

BCNext == (Next /\ UNCHANGED verdict) \/ Decide \/ Confirm

BCSpec == ResolveForInit /\ [][BCNext]_bcVars

-----------------------------------------------------------------------------

\* The text an option has after CLI > CONFIG > ENV > Prompt.
TopText(k, v) == Knowing(k) # {} /\ v \in answers[Least(Knowing(k))][k]

\* Standard input is a pipe, and some option was left for it to answer.
PipeWasNeeded == /\ world.stdin.kind = "pipe"
                 /\ \E k \in Keys : \A n \in DOMAIN chain :
                        chain[n].kind # "stdin" => n \notin Knowing(k)

(* The database is touched only when that was asked for: the strongest source *)
(* of "force" says so, that of "dry_run" does not forbid it, and the run was  *)
(* confirmed by the strongest source of "yes", by the user at a terminal, or  *)
(* by a pipe that still had a line (SourcesChain.cpp:52-64,                   *)
(* ApplyMetaStructure.cpp:14-46).                                             *)
ExecutionIsAskedFor ==
    verdict = "execute" =>
        /\ TopText("force", "true")
        /\ ~TopText("dry_run", "true")
        /\ \/ TopText("yes", "true")
           \/ world.stdin.kind = "tty"
           \/ world.stdin.yes /\ ~PipeWasNeeded

(* A run whose dry_run is a text that the validation accepts as true only     *)
(* prints the plan: "expected boolean (true/false/1/0/yes/no/on/off)"         *)
(* (ResolvedOptions.cpp:117), "Default mode is DRY-RUN" (UsageText.h:34).     *)
DryRunNeverExecutes ==
    verdict = "execute" => \A v \in TrueWords : ~TopText("dry_run", v)
=============================================================================
