------------------------------ MODULE Sources ------------------------------
(***************************************************************************)
(* The option sources of MSG5_Config (MSG5_Config/src/providers): what each  *)
(* of them makes of the command line, a configuration file, the environment  *)
(* and the standard input.  A source is a record [kind, path, asks]: the path *)
(* of a file, and whether a prompt may ask at a terminal.                    *)
(*                                                                           *)
(* The world a process starts in is a record                                 *)
(*   argv   sequence of tokens (without the name of the process)             *)
(*   files  path -> object, for the files that exist: the name-value pairs   *)
(*          that the scan for flat JSON finds in the text, perhaps none      *)
(*   env    name -> value, for the variables that exist                      *)
(*   stdin  a terminal whose user types answers, or a pipe with an object    *)
(* and a token is a record whose form is                                     *)
(*   "eq"     --name=text         "long"   --name                            *)
(*   "short"  -abc (the letters)  "word"   text                              *)
(*   "slash"  text that starts with '/', or '-' alone                        *)
(***************************************************************************)
EXTENDS Naturals, Sequences, FiniteSets

CONSTANTS Options,      \* CommandSpec.options, in order
          Alias,        \* name -> its spellings with '-' and '_' for '.'
          PrefixedName  \* key -> PREFIX + TO_ENV_KEY(key)

\* An option is a record [key, type, required, flags, envs, json, enum, default]:
\* flags without their dashes, json "" if there is none, default NoDefault.
Index == DOMAIN Options
Keys == {Options[j].key : j \in Index}
Option(k) == Options[CHOOSE j \in Index : Options[j].key = k]

NoDefault == "no default"

ASSUME SpecAssumption == /\ Options \in Seq([key : STRING, type : STRING,
                                             required : BOOLEAN,
                                             flags : SUBSET STRING,
                                             envs : Seq(STRING), json : STRING,
                                             enum : SUBSET STRING,
                                             default : STRING])
                         /\ \A j, l \in Index : Options[j].key = Options[l].key => j = l
                         /\ DOMAIN PrefixedName = Keys

Least(S) == CHOOSE n \in S : \A m \in S : n <= m
Some(S) == CHOOSE v \in S : TRUE

-----------------------------------------------------------------------------
(* ArgsSource: the command line.                                            *)

Token == [form : {"eq"}, name : STRING, text : STRING]
         \cup [form : {"long"}, name : STRING]
         \cup [form : {"short"}, letters : Seq(STRING)]
         \cup [form : {"word", "slash"}, text : STRING]

\* "--" and "--=text" name nothing.
Named(name, text) == IF name = "" THEN <<>> ELSE << <<name, text>> >>

Bundle(letters) == [n \in DOMAIN letters |-> <<letters[n], "true">>]

\* The token after the flag at j does not look like a flag.
Takes(argv, j) == j < Len(argv) /\ argv[j + 1].form = "word"

\* Variant: the token after a flag without a value is skipped as well.
TurnSkipping(argv, rest, j) ==
    CASE argv[j].form = "eq" -> Named(argv[j].name, argv[j].text) \o rest[j + 1]
      [] argv[j].form = "long" ->
             Named(argv[j].name, IF Takes(argv, j) THEN argv[j + 1].text ELSE "true")
             \o (IF j < Len(argv) THEN rest[j + 2] ELSE <<>>)
      [] argv[j].form = "short" -> Bundle(argv[j].letters) \o rest[j + 1]
      [] OTHER -> rest[j + 1]

\* A turn of the loop at token j: a flag takes the next token as its value unless
\* that looks like a flag; "--" alone takes it too, and drops it.
Turn(argv, rest, j) ==
    CASE argv[j].form = "eq" -> Named(argv[j].name, argv[j].text) \o rest[j + 1]
      [] argv[j].form = "long" /\ Takes(argv, j) ->
             Named(argv[j].name, argv[j + 1].text) \o rest[j + 2]
      [] argv[j].form = "long" /\ ~Takes(argv, j) -> Named(argv[j].name, "true") \o rest[j + 1]
      [] argv[j].form = "short" -> Bundle(argv[j].letters) \o rest[j + 1]
      [] OTHER -> rest[j + 1]

\* The pairs of argv, left to right; rest[j] are those from token j on.
ParseArgvPairs(argv) ==
    LET rest[j \in 1..(Len(argv) + 1)] == IF j > Len(argv) THEN <<>> ELSE Turn(argv, rest, j)
    IN rest[1]

\* The flags of an option and their implicit spellings: flag_to_key_.
Spellings(j) == Options[j].flags
                \cup UNION {Alias[f] : f \in Options[j].flags \cap DOMAIN Alias}

\* The first option that registers a name has it.
Registrants(name) == {j \in Index : name \in Spellings(j)}
KeyOfFlag(name) == Options[Least(Registrants(name))].key

\* The first pair whose name belongs to the key.
CliValues(argv, k) ==
    LET Names(pair) == Registrants(pair[1]) # {} /\ KeyOfFlag(pair[1]) = k
        hits == SelectSeq(ParseArgvPairs(argv), Names)
    IN {hits[n][2] : n \in {1} \cap DOMAIN hits}

-----------------------------------------------------------------------------
(* EnvSource: the environment.                                              *)

\* explicit_env_to_key_: the first option that lists a name has it.
Listing(name) == {j \in Index : \E n \in DOMAIN Options[j].envs : Options[j].envs[n] = name}
KeyOfEnv(name) == Options[Least(Listing(name))].key

Explicit(env, k) == {name \in DOMAIN env : Listing(name) # {} /\ KeyOfEnv(name) = k}

\* The listed names are visited in the order of a hash table: of several that
\* exist any may be the first.
EnvValues(env, k) ==
    IF Explicit(env, k) # {}
    THEN {env[name] : name \in Explicit(env, k)}
    ELSE IF PrefixedName[k] \in DOMAIN env THEN {env[PrefixedName[k]]} ELSE {}

-----------------------------------------------------------------------------
(* FileSource and PromptSource: flat JSON objects, and questions.           *)

Null == "null without quotes"

\* parse_flat_object keeps neither null nor the empty string.
ParseFlatObject(object) ==
    [name \in {n \in DOMAIN object : object[n] \notin {"", Null}} |-> object[name]]

Want(k) == IF Option(k).json # "" THEN Option(k).json ELSE k

ObjectValues(object, k) ==
    IF Want(k) \in DOMAIN ParseFlatObject(object) THEN {object[Want(k)]} ELSE {}

FileValues(files, path, k) ==
    IF path \in DOMAIN files THEN ObjectValues(files[path], k) ELSE {}

\* At a terminal the user is asked for each key; an empty line is no answer.
StdinValues(stdin, asks, k) ==
    IF stdin.kind = "pipe" THEN ObjectValues(stdin.object, k)
    ELSE IF asks THEN {stdin.answers[k]} \ {""} ELSE {}

-----------------------------------------------------------------------------
(* fetch                                                                     *)

Kinds == {"cli", "file", "env", "stdin"}

\* What a source may answer for a key that it is asked for.
ValuesOf(world, s, k) ==
    CASE s.kind = "cli" -> CliValues(world.argv, k)
      [] s.kind = "file" -> FileValues(world.files, s.path, k)
      [] s.kind = "env" -> EnvValues(world.env, k)
      [] s.kind = "stdin" -> StdinValues(world.stdin, s.asks, k)

\* The keys it answers without being asked for them.
Volunteered(world, s) ==
    CASE s.kind = "cli" -> Keys
      [] s.kind = "env" -> {k \in Keys : Explicit(world.env, k) # {}}
      [] OTHER -> {}

\* The answers for keys, where of[k] is what a source may answer for k.
Open(of, keys) == {k \in keys : Cardinality(of[k]) > 1}
Picks(of, open) == {f \in [open -> UNION {of[k] : k \in open}] : \A k \in open : f[k] \in of[k]}
Answers(of, keys) ==
    {[k \in keys |-> IF k \in Open(of, keys) THEN f[k] ELSE Some(of[k])] :
         f \in Picks(of, Open(of, keys))}

\* The key-value maps that fetch(need) may return.
Fetch(world, s, of, need) ==
    Answers(of, {k \in need \cup Volunteered(world, s) : of[k] # {}})

=============================================================================
