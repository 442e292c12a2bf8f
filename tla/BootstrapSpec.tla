---------------------------- MODULE BootstrapSpec ----------------------------
(* The CommandSpec of apply-meta-structure and apply-meta-data               *)
(* (MSG5_InstallDB/bootstrap/spec); "dir" is baseline_dir or data_dir.       *)
EXTENDS Sequences

LOCAL Entry(key, type, required, flag, envs, default) ==
    [key |-> key, type |-> type, required |-> required, flags |-> {flag},
     envs |-> envs, json |-> key,
     enum |-> IF type = "Enum" THEN {"per-file", "single", "none"} ELSE {},
     default |-> default]

MakeSpec_ApplyMeta == <<
    Entry("app_dsn", "String", FALSE, "app-dsn", <<"MSG5_APP_DSN">>, "no default"),
    Entry("dir", "Path", TRUE, "dir", <<>>, "no default"),
    Entry("config", "Path", FALSE, "config", <<"MSG5_BOOTSTRAP_CONFIG">>, "no default"),
    Entry("tx_mode", "Enum", FALSE, "tx-mode", <<>>, "per-file"),
    Entry("continue_on_error", "Bool", FALSE, "continue-on-error", <<>>, "no default"),
    Entry("dry_run", "Bool", FALSE, "dry-run", <<>>, "no default"),
    Entry("force", "Bool", FALSE, "force", <<>>, "no default"),
    Entry("yes", "Bool", FALSE, "yes", <<>>, "no default") >>

\* No flag has a dot.
NoAlias == [name \in {} |-> {}]

\* K_ENV_PREFIX and to_env_key.
EnvNames == [app_dsn |-> "MSG5_APP_DSN", dir |-> "MSG5_DIR", config |-> "MSG5_CONFIG",
             tx_mode |-> "MSG5_TX_MODE", continue_on_error |-> "MSG5_CONTINUE_ON_ERROR",
             dry_run |-> "MSG5_DRY_RUN", force |-> "MSG5_FORCE", yes |-> "MSG5_YES"]
=============================================================================
