---------------------------- MODULE MCConfigTool ----------------------------
(* The spec of the tool, command lines with each of its flags in front of and *)
(* behind options, and files, variables and inputs that answer some of them.  *)
EXTENDS ConfigTool

long(name) == [form |-> "long", name |-> name]
eq(name, text) == [form |-> "eq", name |-> name, text |-> text]
word(text) == [form |-> "word", text |-> text]

MCCommandLines ==
    LET options == {<<>>, <<eq("db.host", "")>>, <<eq("db_user", "cli"), eq("log.level", "loud")>>,
                    <<eq("db.password", "secret")>>, <<eq("db.password", "cut")>>,
                    <<eq("db.host", "bell")>>,
                    <<long("db-user"), long("no-prompt"), word("behind")>>}
        templates == {<<>>, <<eq("gen.template", "t.json")>>,
                      <<eq("gen.template", ConfigFile)>>, <<eq("gen.template", "no/dir")>>}
        dumps == {<<>>, <<eq("dump.effective", "d.json")>>, <<eq("dump.effective", ConfigFile)>>,
                  <<eq("dump.effective", "no/dir"), long("no-prompt")>>,
                  <<eq("dump.effective", "")>>}
    IN {t \o o \o d : o \in options, t \in templates, d \in dumps}
       \cup {<<eq("gen.template", "t.json"), help>> :
                 help \in {long("help"), [form |-> "short", letters |-> <<"h">>],
                           [form |-> "slash", text |-> "/?"]}}

NoFile == [p \in {} |-> <<>>]
UserFile == [p \in {ConfigFile} |->
               [k \in {"db.host", "log.level"} |-> IF k = "db.host" THEN "file" ELSE "debug"]]

Typed(user, level) == [k \in Keys |-> CASE k = "db.user" -> user [] k = "log.level" -> level
                                        [] OTHER -> ""]

Paths == {"t.json", "d.json", ConfigFile}

MCWorlds ==
    [argv : {<<>>},
     files : {NoFile, UserFile},
     env : {[n \in {} |-> ""], [DBUSER |-> "env", MSG5_LOG_LEVEL |-> "warn"],
            [MSG5_DB_USER |-> "", DBPASS |-> "secret"]},
     stdin : {[kind |-> "tty", answers |-> Typed("typed", "")],
              [kind |-> "pipe", object |-> Typed("", "quiet")]},
     writable : {Paths}, tight : {{}, Paths}, home : {TRUE}]
    \cup
    [argv : {<<>>}, files : {NoFile}, env : {[n \in {} |-> ""]},
     stdin : {[kind |-> "pipe", object |-> Typed("", "")]},
     writable : {Paths}, tight : {{}}, home : {FALSE}]

MCMangled == [t \in {"bell"} |-> "u0007"]

MCMask == [t \in {"", "secret", "cut", "true"} |->
             CASE t = "secret" -> "se****" [] t = "cut" -> "half a character"
               [] t = "true" -> "****" [] t = "" -> ""]
=============================================================================
