-------------------------- MODULE ConfigToolProofs --------------------------
(***************************************************************************)
(* Proofs about ConfigTool, for any command lines, files, variables and      *)
(* inputs.  The invariant CTInv adds to that of the resolver that no value   *)
(* is the bare null of a file, which a dump could not give back, where main   *)
(* is, and that the template is in place once main is past it; the            *)
(* properties themselves are inductive beside it, because nothing happens     *)
(* after the end.                                                             *)
(***************************************************************************)
EXTENDS ConfigTool, ResolverProofs

Fields == {"argv", "files", "env", "stdin", "writable", "tight", "home"}

SameWorld == /\ Fields \subseteq DOMAIN world
             /\ args \in CommandLines
             /\ world.argv = BuildFilteredArgv(args)
             /\ \E w \in Worlds : world.env = w.env /\ world.stdin = w.stdin

NoNull == stage # "prepare" =>
              \A n \in DOMAIN chain : \A k \in Keys : Null \notin answers[n][k]

Control == /\ pc \in {"start", "resolve", "ended"}
           /\ exit \in {"none", "0", "1", "2", "3", "4"}
           /\ pc = "ended" <=> exit # "none"
           /\ pc = "start" => stage = "prepare"
           /\ params.validate

\* The template is in place once main is past it.
TemplateWritten == pc = "resolve" => Written("gen.template", Keys)

CTInv == /\ RInv
         /\ SameWorld
         /\ NoNull
         /\ Control
         /\ TemplateWritten
         /\ ToolExitTellsWhy
         /\ DumpReadsBack
         /\ TemplateHoldsOnlyDefaults

-----------------------------------------------------------------------------

\* A scan of an object finds the words in it.
LEMMA Scanned ==
    ASSUME NEW object, NEW k \in Keys
    PROVE  /\ k \in DOMAIN object /\ object[k] \notin {"", Null} =>
                  ObjectValues(object, k) = {object[k]}
           /\ k \notin DOMAIN object \/ object[k] \in {"", Null} => ObjectValues(object, k) = {}
           /\ Null \notin ObjectValues(object, k)
<1>1. Want(k) = k
    BY ToolSpecAssumption
<1>2. DOMAIN ParseFlatObject(object) = {n \in DOMAIN object : object[n] \notin {"", Null}}
    BY DEF ParseFlatObject
<1> QED BY <1>1, <1>2 DEF ObjectValues

\* What the writing of one file leaves as it was.
OnlyFiles == /\ world'.argv = world.argv /\ world'.env = world.env
             /\ world'.stdin = world.stdin /\ world'.writable = world.writable
             /\ world'.tight = world.tight /\ world'.home = world.home
             /\ Fields \subseteq DOMAIN world'

LEMMA FilePut ==
    ASSUME SameWorld, NEW path, NEW object, PutFile(path, object)
    PROVE  /\ DOMAIN world'.files = DOMAIN world.files \cup {path}
           /\ world'.files[path] = object
           /\ \A p \in DOMAIN world.files \ {path} : world'.files[p] = world.files[p]
           /\ OnlyFiles
BY DEF SameWorld, Fields, PutFile, OnlyFiles

\* A text is written as a whole, unless there may be too little room.
LEMMA TextWritten ==
    ASSUME SameWorld, NEW path, NEW whole, NEW parts, WriteText(path, whole, parts)
    PROVE  /\ DOMAIN world'.files = DOMAIN world.files \cup {path}
           /\ \A p \in DOMAIN world.files \ {path} : world'.files[p] = world.files[p]
           /\ \/ world'.files[path] = whole
              \/ path \in world.tight /\ world'.files[path] \in parts
           /\ OnlyFiles
BY FilePut DEF WriteText

LEMMA SourcesListed == ASSUME NEW asks, chain = MakeSources(asks) PROVE ListOfSources
<1>1. /\ Source("cli", asks).kind = "cli" /\ Source("file", asks).kind = "file"
      /\ Source("env", asks).kind = "env" /\ Source("stdin", asks).kind = "stdin"
    BY DEF Source
<1>2. /\ Len(chain) = 4 /\ DOMAIN chain = 1..4
      /\ chain[1].kind = "cli" /\ chain[2].kind = "file"
      /\ chain[3].kind = "env" /\ chain[4].kind = "stdin"
    BY <1>1 DEF MakeSources
<1>3. \A n \in 1..4 : n = 1 \/ n = 2 \/ n = 3 \/ n = 4
    OBVIOUS
<1> QED BY <1>2, <1>3 DEF ListOfSources, Kinds

LEMMA InitHolds == ToolInit => CTInv
<1> SUFFICES ASSUME ToolInit PROVE CTInv
    OBVIOUS
<1>1. RInv
    BY SourcesListed, StartHolds DEF ToolInit
<1>2. SameWorld
    BY ToolWorldAssumption DEF ToolInit, SameWorld, Fields
<1>3. NoNull /\ Control
    BY DEF ToolInit, Start, NoNull, Control
<1>4. TemplateWritten /\ ToolExitTellsWhy /\ DumpReadsBack /\ TemplateHoldsOnlyDefaults
    BY DEF ToolInit, TemplateWritten, ToolExitTellsWhy, DumpReadsBack, TemplateHoldsOnlyDefaults
<1> QED BY <1>1, <1>2, <1>3, <1>4 DEF CTInv

\* No source answers with the bare null.
LEMMA AnswersAreWords ==
    ASSUME SameWorld, NEW s, s.kind \in Kinds, NEW k \in Keys
    PROVE  Null \notin ValuesOf(world, s, k)
<1>1. CASE s.kind = "cli"
    BY <1>1, CommandLineAssumption DEF ValuesOf, SameWorld
<1>2. CASE s.kind = "file"
    BY <1>2, Scanned DEF ValuesOf, FileValues
<1>3. CASE s.kind = "env"
    BY <1>3, ToolWorldAssumption DEF ValuesOf, SameWorld
<1>4. CASE s.kind = "stdin"
    <2>1. Null \notin StdinValues(world.stdin, TRUE, k)
        BY ToolWorldAssumption DEF SameWorld
    <2>2. ValuesOf(world, s, k) \subseteq StdinValues(world.stdin, TRUE, k)
        BY <1>4 DEF ValuesOf, StdinValues
    <2> QED BY <2>1, <2>2
<1> QED BY <1>1, <1>2, <1>3, <1>4 DEF Kinds

\* What is resolved can be written down and found again.
LEMMA ValuesAreWords ==
    ASSUME CTInv, stage = "done"
    PROVE  /\ DOMAIN values \subseteq Keys
           /\ \A k \in DOMAIN values : values[k] # Null
           /\ errors = {k \in Keys : ~Valid(k)}
<1>1. DOMAIN values \subseteq Keys /\ errors = {k \in Keys : ~Valid(k)}
    BY DEF CTInv, RInv, RTypes, Asked, Control
<1>2. ASSUME NEW k \in DOMAIN values PROVE values[k] # Null
    <2>1. k \in Keys
        BY <1>1
    <2>2. CASE Knowing(k) # {}
        <3>1. FromFirst(k)
            BY <2>1, <2>2 DEF CTInv, RInv, Asked
        <3>2. PICK n \in Knowing(k) : values[k] \in answers[n][k]
            BY <3>1 DEF FromFirst
        <3>3. n \in DOMAIN chain
            BY <3>2 DEF CTInv, RInv, Asking, Knowing
        <3> QED BY <2>1, <3>2, <3>3 DEF CTInv, NoNull
    <2>3. CASE Knowing(k) = {}
        <3>1. values[k] = Option(k).default
            BY <2>1, <2>3 DEF CTInv, RInv, Asked
        <3> QED BY <2>1, <3>1, ToolSpecAssumption
    <2> QED BY <2>2, <2>3
<1> QED BY <1>1, <1>2

-----------------------------------------------------------------------------

\* main goes on or ends; the resolver does not move.
LEMMA MainStep ==
    ASSUME CTInv, UNCHANGED Unresolved, UNCHANGED args,
           pc' \in {"resolve", "ended"},
           exit' \in {"none", "0", "1", "2", "3", "4"},
           pc' = "ended" <=> exit' # "none",
           Fields \subseteq DOMAIN world', world'.argv = world.argv, world'.env = world.env,
           world'.stdin = world.stdin,
           TemplateWritten', ToolExitTellsWhy', DumpReadsBack', TemplateHoldsOnlyDefaults'
    PROVE  CTInv'
<1>1. RInv'
    BY StutterKeeps DEF CTInv, Unresolved
<1>2. SameWorld'
    BY DEF CTInv, SameWorld
<1>3. NoNull'
    BY DEF CTInv, NoNull, Unresolved
<1>4. Control'
    BY DEF CTInv, Control, Unresolved
<1> QED BY <1>1, <1>2, <1>3, <1>4 DEF CTInv

LEMMA HelpKeeps == ASSUME CTInv, Help PROVE CTInv'
<1>1. /\ pc' = "ended" /\ exit' = "0" /\ HasHelp /\ UNCHANGED args
      /\ UNCHANGED world /\ UNCHANGED Unresolved
    BY DEF Help, End, vars, inputs, Unresolved
<1>2. HasHelp'
    BY <1>1 DEF HasHelp
<1>3. /\ TemplateWritten' /\ ToolExitTellsWhy' /\ DumpReadsBack'
      /\ TemplateHoldsOnlyDefaults'
    BY <1>1, <1>2 DEF TemplateWritten, ToolExitTellsWhy, DumpReadsBack, TemplateHoldsOnlyDefaults
<1> QED BY <1>1, <1>3, MainStep DEF CTInv, SameWorld

LEMMA LookFailsKeeps == ASSUME CTInv, LookFails PROVE CTInv'
<1>1. /\ pc' = "ended" /\ exit' = "1" /\ UNCHANGED args /\ UNCHANGED world
      /\ UNCHANGED Unresolved /\ ~world.home /\ stage = "prepare"
    BY DEF LookFails, End, vars, inputs, Unresolved, CTInv, Control
<1>2. asked' = {}
    BY <1>1 DEF CTInv, RInv, Asking, Unresolved
<1>3. /\ TemplateWritten' /\ ToolExitTellsWhy' /\ DumpReadsBack'
      /\ TemplateHoldsOnlyDefaults'
    BY <1>1, <1>2 DEF TemplateWritten, ToolExitTellsWhy, DumpReadsBack, TemplateHoldsOnlyDefaults
<1> QED BY <1>1, <1>3, MainStep DEF CTInv, SameWorld

\* What a scan of the template finds.
LEMMA TemplateScanned ==
    ASSUME NEW k \in Keys
    PROVE  /\ ObjectValues(Template, k) = IF HasDefault(k) THEN {Option(k).default} ELSE {}
           /\ ObjectValues(Nothing, k) = {}
<1>1. k \in DOMAIN Template
    BY DEF Template
<1>2. CASE HasDefault(k)
    <2>1. Template[k] = Option(k).default
        BY <1>2 DEF Template
    <2>2. Template[k] \notin {"", Null}
        BY <2>1, ToolSpecAssumption
    <2>3. ObjectValues(Template, k) = {Template[k]}
        BY <1>1, <2>2, Scanned
    <2> QED BY <1>2, <2>1, <2>3, Scanned DEF Nothing
<1>3. CASE ~HasDefault(k)
    <2>1. Template[k] = ""
        BY <1>3 DEF Template
    <2> QED BY <1>1, <1>3, <2>1, Scanned DEF Nothing
<1> QED BY <1>2, <1>3

LEMMA WriteTemplateKeeps == ASSUME CTInv, WriteTemplate PROVE CTInv'
<1> DEFINE path == FlagValue("gen.template")
<1>1. /\ pc = "start" /\ UNCHANGED Unresolved /\ UNCHANGED args /\ exit = "none"
      /\ stage = "prepare"
    BY DEF WriteTemplate, End, CTInv, Control
<1>2. path' = path /\ UNCHANGED stage
    BY <1>1 DEF FlagValue, Unresolved
<1>3. CASE path = ""
    <2>1. pc' = "resolve" /\ exit' = "none" /\ UNCHANGED world
        BY <1>1, <1>3 DEF WriteTemplate
    <2>2. /\ TemplateWritten' /\ ToolExitTellsWhy' /\ DumpReadsBack'
          /\ TemplateHoldsOnlyDefaults'
        BY <1>2, <1>3, <2>1 DEF TemplateWritten, Written, ToolExitTellsWhy, DumpReadsBack,
                                TemplateHoldsOnlyDefaults, Wanted
    <2> QED BY <1>1, <2>1, <2>2, MainStep DEF CTInv, SameWorld
<1>4. CASE path # "" /\ path \in world.writable
    <2>1. pc' = "resolve" /\ exit' = "none" /\ WriteText(path, Template, {Nothing})
        BY <1>1, <1>4 DEF WriteTemplate
    <2>2. /\ path \in DOMAIN world'.files /\ OnlyFiles
          /\ \/ world'.files[path] = Template
             \/ path \in world.tight /\ world'.files[path] = Nothing
        BY <2>1, TextWritten DEF CTInv
    <2>3. TemplateWritten'
        BY <1>2, <2>2 DEF TemplateWritten, Written, Tight, Template, OnlyFiles
    <2>4. TemplateHoldsOnlyDefaults'
        BY <1>2, <2>2, TemplateScanned
           DEF TemplateHoldsOnlyDefaults, Reads, FileValues, Tight, OnlyFiles
    <2>5. ToolExitTellsWhy' /\ DumpReadsBack'
        BY <2>1 DEF ToolExitTellsWhy, DumpReadsBack
    <2> QED BY <1>1, <2>1, <2>2, <2>3, <2>4, <2>5, MainStep DEF OnlyFiles
<1>5. CASE path # "" /\ path \notin world.writable
    <2>1. pc' = "ended" /\ exit' = "2" /\ UNCHANGED world
        BY <1>1, <1>5 DEF WriteTemplate, End
    <2>2. asked' = {}
        BY <1>1 DEF CTInv, RInv, Asking, Unresolved
    <2>3. /\ TemplateWritten' /\ ToolExitTellsWhy' /\ DumpReadsBack'
          /\ TemplateHoldsOnlyDefaults'
        BY <1>2, <1>5, <2>1, <2>2
           DEF TemplateWritten, ToolExitTellsWhy, DumpReadsBack, TemplateHoldsOnlyDefaults
    <2> QED BY <1>1, <2>1, <2>3, MainStep DEF CTInv, SameWorld
<1> QED BY <1>3, <1>4, <1>5

LEMMA ResolveKeeps == ASSUME CTInv, Resolve PROVE CTInv'
<1>1. /\ pc = "resolve" /\ Next /\ UNCHANGED <<pc, args, exit>> /\ exit = "none"
    BY DEF Resolve, toolVars, CTInv, Control
<1>2. /\ UNCHANGED <<world, chain, params>>
      /\ \/ UNCHANGED answers /\ stage # "prepare"
         \/ answers' = [n \in DOMAIN chain |-> [k \in Keys |-> ValuesOf(world, chain[n], k)]]
    BY <1>1 DEF Next, Prepare, Ask, EndOfChain, ApplyDefaults, Validate, inputs
<1>3. RInv'
    BY <1>1, NextKeeps DEF CTInv
<1>4. SameWorld' /\ Control'
    BY <1>1, <1>2 DEF CTInv, SameWorld, Control
<1>5. ASSUME NEW n \in DOMAIN chain, NEW k \in Keys PROVE Null \notin answers'[n][k]
    <2>1. Null \notin ValuesOf(world, chain[n], k)
        BY AnswersAreWords DEF CTInv, RInv, ListOfSources
    <2> QED BY <1>2, <2>1 DEF CTInv, NoNull
<1>6. NoNull'
    BY <1>2, <1>5 DEF NoNull
<1>7. ToolExitTellsWhy' /\ DumpReadsBack'
    BY <1>1 DEF ToolExitTellsWhy, DumpReadsBack
<1>8. TemplateHoldsOnlyDefaults' /\ TemplateWritten'
    BY <1>1, <1>2 DEF CTInv, TemplateHoldsOnlyDefaults, TemplateWritten, Written, Wanted, Reads,
                      Tight, FlagValue
<1> QED BY <1>3, <1>4, <1>6, <1>7, <1>8 DEF CTInv

\* The verdict is that of the validation.
LEMMA VerdictTells ==
    ASSUME CTInv, stage = "done"
    PROVE  \/ Verdict = "0" /\ (\A k \in Keys : Valid(k))
           \/ Verdict = "3" /\ (\E k \in Keys : ~Valid(k))
<1>1. errors = {k \in Keys : ~Valid(k)}
    BY ValuesAreWords
<1>2. CASE errors = {}
    <2>1. \A k \in Keys : k \notin {j \in Keys : ~Valid(j)}
        BY <1>1, <1>2
    <2>2. \A k \in Keys : Valid(k)
        BY <2>1
    <2>3. Verdict = "0"
        BY <1>2 DEF Verdict
    <2> QED BY <2>2, <2>3
<1>3. CASE errors # {}
    <2>1. \E k \in Keys : ~Valid(k)
        BY <1>1, <1>3
    <2> QED BY <1>3, <2>1 DEF Verdict
<1> QED BY <1>2, <1>3

LEMMA SameValidity == UNCHANGED Unresolved => \A k : Valid(k)' = Valid(k)
BY SameVerdict DEF Unresolved

LEMMA NoDumpKeeps == ASSUME CTInv, NoDump PROVE CTInv'
<1>1. /\ pc = "resolve" /\ stage = "done" /\ pc' = "ended" /\ exit' = Verdict
      /\ UNCHANGED <<args, world, stage>>
      /\ UNCHANGED Unresolved /\ FlagValue("dump.effective") = ""
    BY DEF NoDump, End, vars, inputs, Unresolved
<1>2. ~Wanted("dump.effective")'
    BY <1>1 DEF Wanted, FlagValue
<1>3. \A k : Valid(k)' = Valid(k)
    BY <1>1, SameValidity
<1>4. ToolExitTellsWhy'
    <2>1. Written("gen.template", Keys)'
        BY <1>1 DEF CTInv, TemplateWritten, Written, Wanted, Tight, FlagValue
    <2>2. Written("dump.effective", DOMAIN values)'
        BY <1>2 DEF Written
    <2> QED BY <1>1, <1>3, <2>1, <2>2, VerdictTells DEF ToolExitTellsWhy
<1>5. DumpReadsBack' /\ TemplateHoldsOnlyDefaults' /\ TemplateWritten'
    BY <1>1, <1>2 DEF DumpReadsBack, TemplateHoldsOnlyDefaults, TemplateWritten
<1> QED BY <1>1, <1>4, <1>5, VerdictTells, MainStep DEF CTInv, SameWorld

\* A dump to another file leaves the template as it was.
LEMMA TemplateStays ==
    ASSUME CTInv, pc = "resolve", UNCHANGED args, NEW path, OnlyFiles,
           DOMAIN world'.files = DOMAIN world.files \cup {path},
           \A p \in DOMAIN world.files \ {path} : world'.files[p] = world.files[p]
    PROVE  FlagValue("gen.template") = path \/ Written("gen.template", Keys)'
BY DEF CTInv, TemplateWritten, Written, Wanted, Tight, FlagValue, OnlyFiles

LEMMA DumpKeeps == ASSUME CTInv, Dump PROVE CTInv'
<1> DEFINE path == FlagValue("dump.effective")
<1>1. /\ pc = "resolve" /\ stage = "done" /\ pc' = "ended" /\ UNCHANGED args /\ path # ""
      /\ UNCHANGED Unresolved
    BY DEF Dump, End
<1>2. /\ path' = path /\ FlagValue("gen.template")' = FlagValue("gen.template")
      /\ UNCHANGED <<stage, values, asked>> /\ \A k : Valid(k)' = Valid(k)
    BY <1>1, SameValidity DEF FlagValue, Unresolved
<1>3. TemplateHoldsOnlyDefaults' /\ TemplateWritten'
    BY <1>1 DEF TemplateHoldsOnlyDefaults, TemplateWritten
<1>4. CASE path \notin world.writable
    <2>1. exit' = "4" /\ UNCHANGED world
        BY <1>4 DEF Dump, End
    <2>2. Written("gen.template", Keys)'
        BY <1>1, <2>1 DEF CTInv, TemplateWritten, Written, Wanted, Tight, FlagValue
    <2>3. ToolExitTellsWhy' /\ DumpReadsBack'
        BY <1>2, <1>4, <2>1, <2>2 DEF ToolExitTellsWhy, DumpReadsBack
    <2> QED BY <1>1, <1>3, <2>1, <2>3, MainStep DEF CTInv, SameWorld
<1>5. CASE path \in world.writable /\ \E k \in DOMAIN values : Shown(k) \in NotUtf8
    <2>1. exit' = "1" /\ PutFile(path, Nothing)
        BY <1>5 DEF Dump, End
    <2>2. /\ DOMAIN world'.files = DOMAIN world.files \cup {path}
          /\ world'.files[path] = Nothing /\ OnlyFiles
          /\ \A p \in DOMAIN world.files \ {path} : world'.files[p] = world.files[p]
        BY <2>1, FilePut DEF CTInv
    <2>3. \A k \in Keys : Reads("dump.effective", k)' = {}
        BY <1>2, <2>2, TemplateScanned DEF Reads, FileValues
    <2>4. FlagValue("gen.template") = path \/ Written("gen.template", Keys)'
        BY <1>1, <2>2, TemplateStays
    <2>5. \E k \in DOMAIN values' : Shown(k)' \in NotUtf8
        BY <1>2, <1>5 DEF Shown
    <2>6. ToolExitTellsWhy' /\ DumpReadsBack'
        BY <1>1, <1>2, <2>1, <2>3, <2>4, <2>5 DEF ToolExitTellsWhy, DumpReadsBack, Wanted
    <2> QED BY <1>1, <1>3, <2>1, <2>2, <2>6, MainStep DEF OnlyFiles
<1>6. CASE path \in world.writable /\ ~ \E k \in DOMAIN values : Shown(k) \in NotUtf8
    <2>1. exit' = Verdict /\ WriteText(path, Effective, PartsOfDump)
        BY <1>6 DEF Dump, End
    <2>2. /\ DOMAIN world'.files = DOMAIN world.files \cup {path} /\ OnlyFiles
          /\ \A p \in DOMAIN world.files \ {path} : world'.files[p] = world.files[p]
          /\ path \notin world.tight => world'.files[path] = Effective
        BY <2>1, TextWritten DEF CTInv
    <2>3. Written("dump.effective", DOMAIN values)'
        BY <1>2, <2>2 DEF Written, Tight, Effective, OnlyFiles
    <2>4. ASSUME NEW k \in DOMAIN values \ Secret, values[k] \notin {""} \cup DOMAIN Mangled
          PROVE  ObjectValues(Effective, k) = {values[k]}
        <3>1. k \in DOMAIN Effective /\ Effective[k] = values[k]
            BY <2>4 DEF Effective, Shown, Reread
        <3>2. k \in Keys /\ values[k] # Null
            BY <1>1, ValuesAreWords
        <3> QED BY <2>4, <3>1, <3>2, Scanned
    <2>5. DumpReadsBack'
        BY <1>2, <2>2, <2>4 DEF DumpReadsBack, Reads, FileValues, Tight, OnlyFiles
    <2>6. FlagValue("gen.template") = path \/ Written("gen.template", Keys)'
        BY <1>1, <2>2, TemplateStays
    <2>7. ToolExitTellsWhy'
        BY <1>1, <1>2, <2>1, <2>3, <2>6, VerdictTells DEF ToolExitTellsWhy
    <2>8. exit' \in {"0", "3"}
        BY <2>1 DEF Verdict
    <2> QED BY <1>1, <1>3, <2>2, <2>5, <2>7, <2>8, MainStep DEF OnlyFiles
<1> QED BY <1>4, <1>5, <1>6

LEMMA RestKeeps == ASSUME CTInv, UNCHANGED ctVars PROVE CTInv'
<1>1. /\ UNCHANGED <<world, chain, params, answers, stage, pos, values, origin, asked, errors>>
      /\ UNCHANGED <<pc, args, exit>> /\ UNCHANGED Unresolved
    BY DEF ctVars, vars, inputs, toolVars, Unresolved
<1>2. RInv'
    BY <1>1, StutterKeeps DEF CTInv
<1>3. SameWorld' /\ NoNull' /\ Control'
    BY <1>1 DEF CTInv, SameWorld, NoNull, Control
<1>4. /\ \A name : FlagValue(name)' = FlagValue(name)
      /\ \A name : Wanted(name)' = Wanted(name)
      /\ \A name : \A k : Reads(name, k)' = Reads(name, k)
      /\ \A name : Tight(name)' = Tight(name)
      /\ HasHelp' = HasHelp
    BY <1>1 DEF FlagValue, Wanted, Reads, Tight, HasHelp
<1>5. \A k : Valid(k)' = Valid(k)
    BY <1>1, SameValidity
<1>6. ToolExitTellsWhy'
    <2>1. /\ Written("gen.template", Keys)' = Written("gen.template", Keys)
          /\ Written("dump.effective", DOMAIN values)'
                 = Written("dump.effective", DOMAIN values)
        BY <1>1, <1>4 DEF Written
    <2>2. \A k : Shown(k)' = Shown(k)
        BY <1>1 DEF Shown
    <2> QED BY <1>1, <1>4, <1>5, <2>1, <2>2 DEF CTInv, ToolExitTellsWhy
<1>7. DumpReadsBack' /\ TemplateHoldsOnlyDefaults' /\ TemplateWritten'
    BY <1>1, <1>4 DEF CTInv, DumpReadsBack, TemplateHoldsOnlyDefaults, TemplateWritten, Written
<1> QED BY <1>2, <1>3, <1>6, <1>7 DEF CTInv

LEMMA Always == CTSpec => []CTInv
<1>1. ASSUME CTInv, [CTNext]_ctVars PROVE CTInv'
    BY <1>1, HelpKeeps, LookFailsKeeps, WriteTemplateKeeps, ResolveKeeps, DumpKeeps, NoDumpKeeps,
       RestKeeps
       DEF CTNext
<1> QED BY InitHolds, <1>1, PTL DEF CTSpec

-----------------------------------------------------------------------------
(* main is in one of its stages and ends with one of five exit codes.        *)
THEOREM ToolTypeCorrect == CTSpec => []ToolTypeOK
<1>1. CTInv => ToolTypeOK
    BY DEF CTInv, RInv, RTypes, SameWorld, Control, ToolTypeOK
<1> QED BY <1>1, Always, PTL

(* Each exit code says what it is documented to say, of files with room.     *)
THEOREM ExitIsTrue == CTSpec => []ToolExitTellsWhy
<1>1. CTInv => ToolExitTellsWhy
    BY DEF CTInv
<1> QED BY <1>1, Always, PTL

(* Of a dump that fits, the next run reads every text that is not secret,    *)
(* empty, or one whose control characters the scan does not restore.         *)
THEOREM DumpIsConfig == CTSpec => []DumpReadsBack
<1>1. CTInv => DumpReadsBack
    BY DEF CTInv
<1> QED BY <1>1, Always, PTL

(* A template gives no option a value other than its default, and all of     *)
(* these if it fits.                                                          *)
THEOREM TemplateIsNeutral == CTSpec => []TemplateHoldsOnlyDefaults
<1>1. CTInv => TemplateHoldsOnlyDefaults
    BY DEF CTInv
<1> QED BY <1>1, Always, PTL
=============================================================================
