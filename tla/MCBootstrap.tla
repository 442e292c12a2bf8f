----------------------------- MODULE MCBootstrap -----------------------------
(* Command lines that give or leave out each option, in both spellings,      *)
(* against environments, a configuration file, a terminal and pipes.         *)
EXTENDS BootstrapConfig, BootstrapSpec

long(name) == [form |-> "long", name |-> name]
eq(name, text) == [form |-> "eq", name |-> name, text |-> text]
word(text) == [form |-> "word", text |-> text]

\* All the ways to pick one alternative of each place and join them.
Joined(a, b, c, d, e) == {p[1] \o p[2] \o p[3] \o p[4] \o p[5] : p \in a \X b \X c \X d \X e}

MCArgvs ==
    Joined({<<word("apply-meta-data"), long("app-dsn"), word("pg")>>, <<>>},
           {<<long("dir"), [form |-> "slash", text |-> "/sql"]>>, <<>>},
           {<<long("config"), word("conf")>>, <<eq("config", "conf")>>, <<>>},
           {<<long("dry-run")>>, <<eq("dry-run", "1")>>, <<>>},
           {<<long("force")>>, <<long("force"), long("yes")>>, <<eq("yes", "true")>>, <<>>})

MCEnvs == { [n \in {} |-> ""],
            [MSG5_APP_DSN |-> "pg", MSG5_FORCE |-> "true"],
            [MSG5_BOOTSTRAP_CONFIG |-> "conf", MSG5_YES |-> "false"] }

MCFiles == [conf |-> [app_dsn |-> "pg", dir |-> "sql", force |-> "true",
                      dry_run |-> "false", tx_mode |-> "single"]]

\* Every other option answered, so that a pipe is not needed.
Full == [n \in {"app_dsn", "dir", "config", "tx_mode", "continue_on_error", "dry_run",
                "force", "yes"} |->
            CASE n = "force" -> "true" [] n = "tx_mode" -> "none"
              [] n \in {"app_dsn", "dir", "config"} -> "given" [] OTHER -> "false"]

MCStdins == { [kind |-> "tty", answers |-> [k \in DOMAIN Full |-> ""]],
              [kind |-> "tty", answers |-> [Full EXCEPT !.yes = "true"]],
              [kind |-> "pipe", object |-> [yes |-> "true", dir |-> "sql"], yes |-> FALSE],
              [kind |-> "pipe", object |-> [n \in {} |-> ""], yes |-> TRUE] }

MCWorlds ==
    [argv : MCArgvs, files : {MCFiles}, env : MCEnvs, stdin : MCStdins]
    \cup
    [argv : {<<>>, <<long("dir"), word("sql"), long("config"), word("conf")>>},
     files : {[conf |-> Full], [n \in {} |-> <<>>]}, env : {[n \in {} |-> ""]},
     stdin : MCStdins]
=============================================================================
