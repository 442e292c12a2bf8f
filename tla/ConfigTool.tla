----------------------------- MODULE ConfigTool -----------------------------
(***************************************************************************)
(* MSG5_Config_Tool (Utils/MSG5_Config_Tool/MSG5_Config_Tool.cpp): write a   *)
(* template of the configuration file, resolve, write what was resolved.     *)
(* The files it writes are objects as the scan of FileSource finds them.     *)
(***************************************************************************)
EXTENDS Resolver

CONSTANTS CommandLines,  \* the command lines of the tool
          Secret,        \* the keys of options with OptSecret
          Mask,          \* text -> what mask_secret makes of it
          NotUtf8,       \* the texts that are not UTF-8
          Mangled        \* text with control characters -> what a scan makes of the
                         \* way json::dump writes it

ConfigFile == "config/user.json"

VARIABLES pc,     \* where main is: "start", "resolve", "ended"
          args,   \* fixed: the command line
          exit    \* the exit code, once there is one

toolVars == <<pc, args, exit>>
ctVars == <<vars, toolVars>>

-----------------------------------------------------------------------------
(* The demonstration spec.                                                   *)

Entry(key, type, envs, enum, default) ==
    [key |-> key, type |-> type, required |-> FALSE, flags |-> {key}, envs |-> envs,
     json |-> key, enum |-> enum, default |-> default]

MakeSpec == << Entry("db.host", "String", <<>>, {}, NoDefault),
               Entry("db.user", "String", <<"DBUSER">>, {}, NoDefault),
               Entry("db.password", "String", <<"DBPASS">>, {}, NoDefault),
               Entry("log.level", "Enum", <<>>, {"trace", "debug", "info", "warn", "error"},
                     "info") >>

\* The spellings of the dotted flags, and MSG5_ with to_env_key.
ToolAlias == [name \in {"db.host", "db.user", "db.password", "log.level"} |->
                CASE name = "db.host" -> {"db-host", "db_host"}
                  [] name = "db.user" -> {"db-user", "db_user"}
                  [] name = "db.password" -> {"db-password", "db_password"}
                  [] name = "log.level" -> {"log-level", "log_level"}]
ToolEnvNames == [k \in DOMAIN ToolAlias |->
                   CASE k = "db.host" -> "MSG5_DB_HOST"
                     [] k = "db.user" -> "MSG5_DB_USER"
                     [] k = "db.password" -> "MSG5_DB_PASSWORD"
                     [] k = "log.level" -> "MSG5_LOG_LEVEL"]

-----------------------------------------------------------------------------
(* The tool's own flags.                                                     *)

Long(token, name) == token.form = "long" /\ token.name = name
Eq(token, name) == token.form = "eq" /\ token.name = name

AsksForHelp(token) == \/ Long(token, "help")
                      \/ token.form = "short" /\ token.letters = <<"h">>
                      \/ token.form = "slash" /\ token.text = "/?"

IsToolFlag(token) == \/ Long(token, "no-prompt") \/ AsksForHelp(token)
                     \/ Eq(token, "gen.template") \/ Eq(token, "dump.effective")

HasHelp == \E j \in DOMAIN args : AsksForHelp(args[j])
HasNoPrompt(line) == \E j \in DOMAIN line : Long(line[j], "no-prompt")

\* The text of the first --name=text, or "".
FlagValue(name) ==
    LET hits == {j \in DOMAIN args : Eq(args[j], name)}
    IN IF hits = {} THEN "" ELSE args[Least(hits)].text

BuildFilteredArgv(line) == SelectSeq(line, LAMBDA token : ~IsToolFlag(token))

\* The spec of the tool reads files by its keys, and its defaults are words.  No
\* text that comes from elsewhere is the bare null of a file.
ASSUME ToolSpecAssumption ==
    \A k \in Keys : Want(k) = k /\ Option(k).default \notin {"", Null} \cup DOMAIN Mangled
ASSUME MangledAssumption ==
    \A text \in DOMAIN Mangled : "" \notin {text, Mangled[text]} /\ Mangled[text] # Null
ASSUME ToolWorldAssumption ==
    \A w \in Worlds : /\ {"argv", "files", "env", "stdin", "writable", "tight", "home"}
                             \subseteq DOMAIN w
                      /\ w.home \in BOOLEAN
                      /\ \A k \in Keys : /\ Null \notin EnvValues(w.env, k)
                                         /\ Null \notin StdinValues(w.stdin, TRUE, k)
ASSUME CommandLineAssumption ==
    \A line \in CommandLines : \A k \in Keys :
        Null \notin CliValues(BuildFilteredArgv(line), k)

Source(kind, asks) == [kind |-> kind, path |-> ConfigFile, asks |-> asks]
MakeSources(asks) ==
    <<Source("cli", asks), Source("file", asks), Source("env", asks), Source("stdin", asks)>>

\* world.argv is what the sources see.  Of the paths that can be opened for writing
\* (world.writable) some may be short of room (world.tight).  world.home says that
\* the current directory and the configuration file can be looked at.
ToolInit ==
    /\ args \in CommandLines
    /\ \E w \in Worlds : world = [w EXCEPT !.argv = BuildFilteredArgv(args)]
    /\ chain = MakeSources(~HasNoPrompt(args))
    /\ params = [defaults |-> TRUE, validate |-> TRUE]
    /\ Start
    /\ pc = "start"
    /\ exit = "none"

-----------------------------------------------------------------------------

End(code) == pc' = "ended" /\ exit' = code /\ UNCHANGED args

Unresolved == <<chain, params, answers, stage, pos, values, origin, asked, errors>>

PutFile(path, object) ==
    world' = [world EXCEPT !.files = [p \in DOMAIN @ \cup {path} |->
                                         IF p = path THEN object ELSE @[p]]]

\* Nobody looks at the stream behind the last write: where there is not enough room
\* the file has a part of the text, and the tool goes on.
WriteText(path, whole, parts) ==
    \/ PutFile(path, whole)
    \/ path \in world.tight /\ \E part \in parts : PutFile(path, part)

Help ==
    /\ pc = "start"
    /\ HasHelp
    /\ End("0")
    /\ UNCHANGED vars

\* The line that shows the directory and the file throws.
LookFails ==
    /\ pc = "start"
    /\ ~HasHelp /\ ~world.home
    /\ End("1")
    /\ UNCHANGED vars

\* Variant: options without a default are filled with a word that says so.
TemplateWithWords ==
    [k \in Keys |-> IF HasDefault(k) THEN Option(k).default ELSE "fill me"]

\* Lists of allowed words and comments are written as well; no scan sees them.  In a
\* part of the text a scan sees nothing: its only "}" is its last character.
Template == [k \in Keys |-> IF HasDefault(k) THEN Option(k).default ELSE ""]

\* Variant: the tool goes on when the template cannot be written.
WriteTemplateOrNot ==
    LET path == FlagValue("gen.template")
    IN /\ pc = "start"
       /\ ~HasHelp /\ world.home
       /\ pc' = "resolve"
       /\ IF path = "" THEN UNCHANGED <<world, exit>>
          ELSE IF path \in world.writable
          THEN WriteText(path, Template, {Nothing}) /\ UNCHANGED exit
          ELSE exit' = "2" /\ UNCHANGED world
       /\ UNCHANGED <<args, Unresolved>>

\* The template, if one is asked for, is in place before the sources are read.
WriteTemplate ==
    LET path == FlagValue("gen.template")
    IN /\ pc = "start"
       /\ ~HasHelp /\ world.home
       /\ IF path = "" THEN pc' = "resolve" /\ UNCHANGED <<world, exit, args>>
          ELSE IF path \in world.writable
          THEN /\ WriteText(path, Template, {Nothing})
               /\ pc' = "resolve" /\ UNCHANGED <<exit, args>>
          ELSE End("2") /\ UNCHANGED world
       /\ UNCHANGED Unresolved

Resolve == pc = "resolve" /\ Next /\ UNCHANGED toolVars

Shown(k) == IF k \in Secret THEN Mask[values[k]] ELSE values[k]

Origins == [k \in DOMAIN values |-> origin[k]]

\* unescape inverts \n, \r, \t, \" and \\, but not the other escapes of json::dump.
Reread(text) == IF text \in DOMAIN Mangled THEN Mangled[text] ELSE text

\* Variant: the origins are written behind the values.
EffectiveOriginsLast == Origins

\* What a scan of the dump finds.  "__source" is the first member of the text, and
\* the scan sees the pairs inside it: a value that is not empty replaces the origin.
Effective == [k \in DOMAIN values |-> IF Shown(k) # "" THEN Reread(Shown(k)) ELSE origin[k]]

\* In a part of the text a scan sees nothing, or, if the part ends behind the "}" of
\* "__source", the origins.
PartsOfDump == {Nothing, Origins}

Verdict == IF errors = {} THEN "0" ELSE "3"

\* Variant: a dump that was written is a success.
DumpReturns0 ==
    LET path == FlagValue("dump.effective")
    IN /\ pc = "resolve" /\ stage = "done" /\ path # ""
       /\ IF path \in world.writable
          THEN WriteText(path, Effective, PartsOfDump) /\ End("0")
          ELSE End("4") /\ UNCHANGED world
       /\ UNCHANGED Unresolved

\* The file is emptied when it is opened; json::dump throws for a text that is not
\* UTF-8, and nothing is written.
Dump ==
    LET path == FlagValue("dump.effective")
    IN /\ pc = "resolve" /\ stage = "done" /\ path # ""
       /\ IF path \notin world.writable THEN End("4") /\ UNCHANGED world
          ELSE IF \E k \in DOMAIN values : Shown(k) \in NotUtf8
          THEN PutFile(path, Nothing) /\ End("1")
          ELSE WriteText(path, Effective, PartsOfDump) /\ End(Verdict)
       /\ UNCHANGED Unresolved

NoDump ==
    /\ pc = "resolve" /\ stage = "done"
    /\ FlagValue("dump.effective") = ""
    /\ End(Verdict)
    /\ UNCHANGED vars

CTNext == Help \/ LookFails \/ WriteTemplate \/ Resolve \/ Dump \/ NoDump

CTSpec == ToolInit /\ [][CTNext]_ctVars

-----------------------------------------------------------------------------

ToolTypeOK ==
    /\ pc \in {"start", "resolve", "ended"}
    /\ args \in CommandLines
    /\ exit \in {"none", "0", "1", "2", "3", "4"}
    /\ pc = "ended" <=> exit # "none"
    /\ stage # "prepare" => pc # "start"
    /\ DOMAIN values \subseteq Keys /\ DOMAIN origin = DOMAIN values

\* A file that this run was asked to write, and what it holds.
Wanted(name) == FlagValue(name) # ""
Reads(name, k) == FileValues(world.files, FlagValue(name), k)
Tight(name) == FlagValue(name) \in world.tight

\* The file is there, and it holds all its keys, if there was room for it.
Written(name, keys) ==
    Wanted(name) => /\ FlagValue(name) \in DOMAIN world.files
                    /\ ~Tight(name) => DOMAIN world.files[FlagValue(name)] = keys

(* Each exit code says what the list of exit codes says of it                 *)
(* (msg_5_config_tool_readme.md:120-126): 0 only if every value is valid and   *)
(* template and dump are written as asked, 3 only if a value is not valid, 2   *)
(* before anything is resolved, 4 with all but the dump written, 1 with a dump *)
(* that is empty or before anything is done.  The code does not keep more than *)
(* that: a file that was opened counts as written however much of it fits      *)
(* (lines 132-135, 158-161), so 0 and 3 say no more than "opened" of a file    *)
(* without room.                                                               *)
ToolExitTellsWhy ==
    LET dump == FlagValue("dump.effective")
        template == FlagValue("gen.template") = dump \/ Written("gen.template", Keys)
        written == template /\ Written("dump.effective", DOMAIN values)
    IN CASE exit = "0" -> HasHelp \/ (stage = "done" /\ (\A k \in Keys : Valid(k)) /\ written)
         [] exit = "3" -> (\E k \in Keys : ~Valid(k)) /\ written
         [] exit = "2" -> asked = {} /\ FlagValue("gen.template") \notin world.writable
         [] exit = "4" -> template /\ dump \notin world.writable
         [] exit = "1" -> \/ asked = {} /\ ~world.home
                          \/ /\ template /\ Wanted("dump.effective")
                             /\ \E k \in DOMAIN values : Shown(k) \in NotUtf8
                             /\ \A k \in Keys : Reads("dump.effective", k) = {}
         [] OTHER -> TRUE

(* A dump can serve as the configuration file of the next run, "compatible     *)
(* with FileSource" (msg_5_config_tool_readme.md:103), although the scan of    *)
(* the file also sees the pairs of "__source": a text is read back as it was,  *)
(* unless it is secret, is empty (its origin is read instead), has control     *)
(* characters that unescape does not restore (json_utils.cpp:9-27), or did not *)
(* fit into the file.  For those four the code does not keep the promise.      *)
DumpReadsBack ==
    (exit \in {"0", "3"} /\ ~HasHelp /\ Wanted("dump.effective") /\ ~Tight("dump.effective")) =>
        \A k \in DOMAIN values \ Secret :
            values[k] \notin {""} \cup DOMAIN Mangled => Reads("dump.effective", k) = {values[k]}

(* A template gives no option a value, other than its default, even when it is *)
(* written to the file that the same run then reads, and when it is cut off    *)
(* (lines 117-136, 269-278).                                                   *)
TemplateHoldsOnlyDefaults ==
    (pc = "resolve" /\ Wanted("gen.template")) =>
        \A k \in Keys :
            LET default == IF HasDefault(k) THEN {Option(k).default} ELSE {}
            IN /\ Reads("gen.template", k) \subseteq default
               /\ ~Tight("gen.template") => Reads("gen.template", k) = default
=============================================================================
