----------------------------- MODULE MCResolver -----------------------------
(* Three options: one with a dotted flag, a short one and two variables, one *)
(* required, one with a default; every command line of at most two tokens,   *)
(* and some longer ones; the sources in three orders.                        *)
EXTENDS Resolver

opt(key, type, required, flags, envs, json, enum, default) ==
    [key |-> key, type |-> type, required |-> required, flags |-> flags,
     envs |-> envs, json |-> json, enum |-> enum, default |-> default]

MCOptions == <<
    opt("db.host", "String", FALSE, {"db.host", "H"}, <<"DB_HOST", "PGHOST">>, "host", {},
        "no default"),
    opt("port", "Int", TRUE, {"port"}, <<>>, "", {}, "no default"),
    opt("level", "Enum", TRUE, {"level", "H"}, <<"PGHOST">>, "", {"info", "true"}, "info") >>

MCAlias == [name \in {"db.host"} |-> {"db-host", "db_host"}]
MCPrefixed == [k \in {"db.host", "port", "level"} |->
                   CASE k = "db.host" -> "X_DB_HOST"
                     [] k = "port" -> "X_PORT"
                     [] k = "level" -> "X_LEVEL"]

Tokens == { [form |-> "eq", name |-> "db_host", text |-> "cli"],
            [form |-> "long", name |-> "port"],
            [form |-> "long", name |-> ""],
            [form |-> "short", letters |-> <<"v", "H">>],
            [form |-> "word", text |-> "17"],
            [form |-> "slash", text |-> "/level"] }

MCArgvs == {<<>>} \cup {<<t>> : t \in Tokens} \cup {<<t, u>> : t, u \in Tokens}
           \cup {<<t, u, v>> : t, u \in {x \in Tokens : x.form = "long"}, v \in Tokens}

Text(names) == [n \in names |-> n]

MCWorlds ==
    [argv : MCArgvs,
     files : {<<>>, [p \in {"conf"} |-> [host |-> "file", port |-> Null, level |-> "info"]]},
     env : {Text({}), Text({"DB_HOST", "PGHOST"}), Text({"X_DB_HOST", "PGHOST", "X_LEVEL"}),
            [n \in {"X_PORT"} |-> "17"]},
     stdin : { [kind |-> "tty", answers |-> [k \in {"db.host", "port", "level"} |->
                                                IF k = "port" THEN "4" ELSE ""]],
               [kind |-> "pipe", object |-> [port |-> "5", level |-> "", host |-> "piped"]] }]

Source(kind) == [kind |-> kind, path |-> "conf", asks |-> TRUE]

MCChains == { <<Source("cli"), Source("file"), Source("env"), Source("stdin")>>,
              <<Source("env"), Source("cli"), Source("file")>>,
              <<Source("stdin"), Source("cli")>> }

MCParams == [defaults : BOOLEAN, validate : {TRUE}]
=============================================================================
