------------------------------ MODULE Resolver ------------------------------
(***************************************************************************)
(* Resolver::resolve (MSG5_Config/src/core/Resolver.cpp): the sources are    *)
(* asked one after the other for the options that are still missing, then    *)
(* defaults are filled in and the result is validated.                       *)
(***************************************************************************)
EXTENDS Sources

Seqs == INSTANCE SequencesExt

CONSTANTS Worlds,      \* what a process may find when it starts
          Chains,      \* the sequences of sources a Resolver is built with
          Params,      \* ResolveParams: records [defaults, validate]
          TrueWords,   \* the texts that parse_bool takes for true
          FalseWords,  \*   and for false
          Numbers      \* the texts that are a 64-bit integer

ASSUME WorldsAssumption == \A w \in Worlds : w.argv \in Seq(Token)
ASSUME ParamsAssumption == Params \subseteq [defaults : BOOLEAN, validate : BOOLEAN]
ASSUME ChainsAssumption == Chains \subseteq Seq([kind : Kinds, path : STRING, asks : BOOLEAN])
ASSUME WordsAssumption == TrueWords \cap FalseWords = {}

VARIABLES world,    \* fixed
          chain,    \* fixed: the sources in the order of their priority
          params,   \* fixed
          answers,  \* position -> key -> what the source may answer
          stage,    \* where resolve is
          pos,      \* the position in the chain of the next source
          values,   \* ResolvedOptions.values: key -> text
          origin,   \* ResolvedOptions.value_sources: key -> kind, or "default"
          asked,    \* the positions of the sources whose fetch was called
          errors    \* ValidationResult: the keys with an error

inputs == <<world, chain, params>>
vars == <<inputs, answers, stage, pos, values, origin, asked, errors>>

Nothing == [k \in {} |-> ""]

Start == /\ answers = <<>>
         /\ stage = "prepare"
         /\ pos = 1
         /\ values = Nothing
         /\ origin = Nothing
         /\ asked = {}
         /\ errors = {}

Init == /\ world \in Worlds
        /\ chain \in Chains
        /\ params \in Params
        /\ Start

\* Variant: filter_missing filters nothing.
MissingUnfiltered == Keys

Missing == Keys \ DOMAIN values

\* prepare() indexes the flags and variables; values are read when a source is
\* asked.  What is read does not change in between, so it is computed once here.
Prepare ==
    /\ stage = "prepare"
    /\ answers' = [n \in DOMAIN chain |-> [k \in Keys |-> ValuesOf(world, chain[n], k)]]
    /\ stage' = "ask"
    /\ UNCHANGED <<inputs, pos, values, origin, asked, errors>>

\* Variant: a later source replaces what an earlier one answered.
MergeReplacing(r) ==
    /\ values' = [k \in DOMAIN values \cup DOMAIN r |->
                     IF k \in DOMAIN r THEN r[k] ELSE values[k]]
    /\ origin' = [k \in DOMAIN values \cup DOMAIN r |->
                     IF k \in DOMAIN r THEN chain[pos].kind ELSE origin[k]]
    /\ IF Missing \subseteq DOMAIN r
       THEN stage' = "defaults" /\ UNCHANGED pos
       ELSE pos' = pos + 1 /\ UNCHANGED stage

\* Take what was asked for from the answer r; stop when nothing is missing.
Merge(r) ==
    LET taken == DOMAIN r \cap Missing
    IN /\ values' = [k \in DOMAIN values \cup taken |->
                        IF k \in taken THEN r[k] ELSE values[k]]
       /\ origin' = [k \in DOMAIN values \cup taken |->
                        IF k \in taken THEN chain[pos].kind ELSE origin[k]]
       /\ IF taken = Missing
          THEN stage' = "defaults" /\ UNCHANGED pos
          ELSE pos' = pos + 1 /\ UNCHANGED stage

\* Without holes (an empty spec, as the last hole ends the loop) it is not asked.
Ask ==
    /\ stage = "ask"
    /\ pos <= Len(chain)
    /\ IF Missing = {}
       THEN pos' = pos + 1 /\ UNCHANGED <<stage, values, origin, asked>>
       ELSE /\ \E r \in Fetch(world, chain[pos], answers[pos], Missing) : Merge(r)
            /\ asked' = asked \cup {pos}
    /\ UNCHANGED <<inputs, answers, errors>>

EndOfChain ==
    /\ stage = "ask"
    /\ pos > Len(chain)
    /\ stage' = "defaults"
    /\ UNCHANGED <<inputs, answers, pos, values, origin, asked, errors>>

HasDefault(k) == Option(k).default # NoDefault

\* Variant: only options that are not required get their default.
ApplyDefaultsOptional ==
    /\ stage = "defaults"
    /\ LET filled == IF params.defaults
                     THEN {k \in Missing : HasDefault(k) /\ ~Option(k).required} ELSE {}
       IN /\ values' = [k \in DOMAIN values \cup filled |->
                           IF k \in filled THEN Option(k).default ELSE values[k]]
          /\ origin' = [k \in DOMAIN values \cup filled |->
                           IF k \in filled THEN "default" ELSE origin[k]]
    /\ stage' = "validate"
    /\ UNCHANGED <<inputs, answers, pos, asked, errors>>

\* Variant: a default has no origin.
ApplyDefaultsSilently ==
    /\ stage = "defaults"
    /\ LET filled == IF params.defaults THEN {k \in Missing : HasDefault(k)} ELSE {}
       IN values' = [k \in DOMAIN values \cup filled |->
                        IF k \in filled THEN Option(k).default ELSE values[k]]
    /\ stage' = "validate"
    /\ UNCHANGED <<inputs, answers, pos, origin, asked, errors>>

ApplyDefaults ==
    /\ stage = "defaults"
    /\ LET filled == IF params.defaults THEN {k \in Missing : HasDefault(k)} ELSE {}
       IN /\ values' = [k \in DOMAIN values \cup filled |->
                           IF k \in filled THEN Option(k).default ELSE values[k]]
          /\ origin' = [k \in DOMAIN values \cup filled |->
                           IF k \in filled THEN "default" ELSE origin[k]]
    /\ stage' = "validate"
    /\ UNCHANGED <<inputs, answers, pos, asked, errors>>

\* The type check of a value.
WellTyped(k, v) ==
    CASE Option(k).type = "Path" -> v # ""
      [] Option(k).type = "Int" -> v \in Numbers
      [] Option(k).type = "Bool" -> v \in TrueWords \cup FalseWords
      [] Option(k).type = "Enum" -> v \in Option(k).enum
      [] OTHER -> TRUE

Valid(k) == IF k \in DOMAIN values THEN WellTyped(k, values[k]) ELSE ~Option(k).required

Validate ==
    /\ stage = "validate"
    /\ errors' = IF params.validate THEN {k \in Keys : ~Valid(k)} ELSE {}
    /\ stage' = "done"
    /\ UNCHANGED <<inputs, answers, pos, values, origin, asked>>

Next == Prepare \/ Ask \/ EndOfChain \/ ApplyDefaults \/ Validate

Spec == Init /\ [][Next]_vars

-----------------------------------------------------------------------------

TypeOK ==
    /\ world \in Worlds
    /\ chain \in Chains
    /\ params \in Params
    /\ stage \in {"prepare", "ask", "defaults", "validate", "done"}
    /\ pos \in Nat \ {0}
    /\ DOMAIN values \subseteq Keys
    /\ DOMAIN origin = DOMAIN values
    /\ \A k \in DOMAIN origin : origin[k] \in Kinds \cup {"default"}
    /\ asked \subseteq DOMAIN chain
    /\ errors \subseteq Keys

\* The positions in the chain of the sources that know a key.
Knowing(k) == {n \in DOMAIN answers : answers[n][k] # {}}

(* The earlier source is the stronger one (conventions.md:8, UsageText.h:33): *)
(* when the sources have been asked, an option has a value exactly if some    *)
(* source knows it, and it is a value of the first source that does, with     *)
(* that source as its origin; what a source answers without being asked       *)
(* (Resolver.cpp:87-96) never shows.                                          *)
EarlierWins ==
    stage \in {"defaults", "validate", "done"} =>
        \A k \in Keys :
            IF Knowing(k) # {}
            THEN LET n == Least(Knowing(k))
                 IN /\ k \in DOMAIN values
                    /\ values[k] \in answers[n][k]
                    /\ origin[k] = chain[n].kind
            ELSE k \in DOMAIN values => origin[k] = "default"

(* A source is asked only if the sources before it leave some option open,    *)
(* so standard input is not read, and nobody is prompted, for nothing         *)
(* (Resolver.cpp:74-77,98-102).                                               *)
AskedOnlyForHoles ==
    \A n \in asked : \E k \in Keys : \A m \in 1..(n - 1) : m \notin Knowing(k)

(* An option is reported as missing exactly if it is required and neither a   *)
(* source nor, with apply_defaults, the spec has a value for it: defaults come *)
(* before validation (Resolver.cpp:47-52, ResolvedOptions.cpp:80-148).         *)
MissingIsReported ==
    (stage = "done" /\ params.validate) =>
        \A k \in Keys :
            k \in errors \ DOMAIN values <=>
                /\ Option(k).required
                /\ Knowing(k) = {}
                /\ ~(params.defaults /\ HasDefault(k))

\* What the token at j says.
Said(argv, j) ==
    CASE argv[j].form = "eq" -> Named(argv[j].name, argv[j].text)
      [] argv[j].form = "long" ->
             Named(argv[j].name, IF Takes(argv, j) THEN argv[j + 1].text ELSE "true")
      [] argv[j].form = "short" -> Bundle(argv[j].letters)
      [] OTHER -> <<>>

(* Reading the command line from left to right, where a flag may swallow the   *)
(* next token, gives what each token says with its neighbour alone            *)
(* (ArgsSource.cpp:14-58): no value is lost or taken twice, however flags,    *)
(* values, bundles and strays follow each other.                              *)
ArgvIsReadLocally ==
    LET argv == world.argv
    IN ParseArgvPairs(argv) = Seqs!FlattenSeq([j \in DOMAIN argv |-> Said(argv, j)])
=============================================================================
