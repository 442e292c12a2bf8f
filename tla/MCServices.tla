----------------------------- MODULE MCServices -----------------------------
(* Starts of both services, with every way to name and fill the file, and two *)
(* requests at a time to those that come up; one change of a fact.  An int    *)
(* has 16 values and a port is at most 5.                                     *)
EXTENDS Services

NoText == [k \in {} |-> ""]
Port(n) == [is |-> "number", n |-> n]
NoPort == [is |-> "absent", n |-> 0]
OtherPort == [is |-> "other", n |-> 0]
File(port, root, section) == [json |-> TRUE, port |-> port, root |-> root, section |-> section]

Dirs == [baseline_dir |-> "base", migrations_dir |-> "migr"]
Dsns == [bootstrap_dsn |-> "boot", app_dsn |-> "app"]

AdminFiles ==
    { File(NoPort, [baseline_dir |-> "base", migrations_dir |-> "migr",
                    bootstrap_dsn |-> "boot", app_dsn |-> "app"], NoText),
      File(Port(3), Dirs, Dsns),
      File(Port(19), [app_dsn |-> "app"], [baseline_dir |-> "base", migrations_dir |-> "migr",
                                          bootstrap_dsn |-> "boot", app_dsn |-> "boot"]),
      File(Port(6), Dirs, Dsns), File(OtherPort, Dirs, Dsns), File(NoPort, Dirs, NoText),
      File(NoPort, Dirs, [bootstrap_dsn |-> "boot"]),
      File(NoPort, Dsns, NoText), File(NoPort, Dirs, [app_dsn |-> NotText]) }

ClientFiles ==
    { File(NoPort, NoText, NoText), File(Port(3), [pg_dsn |-> "app"], NoText),
      File(Port(14), [dsn |-> "app"], NoText), File(NoPort, [dsn |-> "app", pg_dsn |-> ""], NoText),
      File(NoPort, [dsn |-> NotText], NoText) }

NotJson == [json |-> FALSE, port |-> NoPort, root |-> NoText, section |-> NoText]

In(method, path, token, type, body) ==
    [method |-> method, path |-> path, token |-> token, type |-> type, body |-> body]
Get(path) == In("GET", path, FALSE, "none", "empty")

MCMethodOf == [p \in {"/api/v1/documents", "/api/v1/db_version"} |->
                  IF p = "/api/v1/documents" THEN "documents" ELSE "db_version"]

BadPath == "a path that is not UTF-8"
MCNotUtf8 == {BadPath}

AdminInputs == {Get(p) : p \in {"/healthz", "/readyz", "/admin/describe", "/nowhere", BadPath}}
               \cup {In("POST", "/admin/bootstrap/check", FALSE, "none", "empty")}

ClientInputs ==
    {Get(p) : p \in {"/livez", "/readyz", "/api/db/version", "/admin/describe", BadPath}}
    \cup {In("POST", "/api/v1/documents", TRUE, "json", "json"),
          In("POST", "/api/v1/db_version", TRUE, "none", "empty"),
          In("POST", "/api/v1/db_version", FALSE, "json", "json"),
          In("POST", "/api/v1/db_version", TRUE, "none", "json"),
          In("POST", "/api/v1/db_version", TRUE, "json", "broken")}

World(kind, arg, variable, files, port, env) ==
    [kind |-> kind, arg |-> arg, variable |-> variable, files |-> files, port |-> port,
     env |-> env, workers |-> 1, inputs |-> {}]

At(path, f) == [p \in {path} |-> f]

\* Every way to be configured.
Starts ==
    {World("admin", "", Unset, At("default", f), NoPort, env) :
        f \in AdminFiles, env \in {NoText, [bootstrap_dsn |-> "", app_dsn |-> "boot"]}}
    \cup {World("client", "", Unset, At("default", f), NoPort, env) :
        f \in ClientFiles, env \in {NoText, [pg_dsn |-> "boot"], [pg_dsn |-> ""]}}
    \cup {World("client", arg, variable, At("named", File(port, [pg_dsn |-> "app"], NoText)),
                env, NoText) :
        arg \in {"", "named", "missing"}, variable \in {Unset, "", "named"},
        port \in {NoPort, Port(9)}, env \in {Port(2), Port(18), Port(7)}}
    \cup {World("admin", "named", Unset, [named |-> NotJson, default |-> NotJson], NoPort,
                NoText)}

\* Services that get requests.
Loaded == {[World("admin", "", Unset, At("default", File(Port(3), Dirs, Dsns)), NoPort, NoText)
               EXCEPT !.inputs = AdminInputs, !.workers = 2]}
          \cup {[World("client", "", Unset, At("default", File(NoPort, f, NoText)), NoPort, NoText)
                    EXCEPT !.inputs = ClientInputs, !.workers = n] :
                    <<f, n>> \in {<<NoText, 1>>, <<[pg_dsn |-> "app"], 2>>}}

MCWorlds == Starts \cup Loaded

MCUps == {{"boot", "app", MetaSchema}, {"boot"}, {"", "app", MetaSchema}}
=============================================================================
