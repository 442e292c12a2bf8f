# MSG5 in TLA+

A verification project for MSG5: TLA+ modules translated from the C++ source, TLC
configurations that check them on small instances, and proofs that TLAPS checks for
every value of the constants. Paths are relative to the root of the repository.

1. [The system](#1-the-system)
2. [The modules](#2-the-modules)
3. [The runs](#3-the-runs)
4. [Fairness](#4-fairness)
5. [The proofs](#5-the-proofs)
6. [What the checks found](#6-what-the-checks-found)
7. [Limits of the models](#7-limits-of-the-models)
8. [Plan](#8-plan)

## 1. The system

MSG5 is a back end over PostgreSQL. A bootstrap tool (`MSG5_InstallDB`) creates the
database and applies directories of SQL files to it; an admin and a client service
(`MSG5_Admin`, `MSG5_Client`) answer HTTP requests over a common core (`MSG5_Core`);
a configuration library (`MSG5_Config`) merges options from several sources.

| Component | State it keeps | Operations | Interacts with | Modelled |
|---|---|---|---|---|
| `PgExecutor` (`MSG5_Core/PgExecutor.cpp`) | one connection; on the server the session's transaction block, its uncommitted changes and locks | constructor, `exec`, `scalar`, `callJson`, `callText1Int`, destructor | PostgreSQL; called by every command and service | yes, but for the calls nobody makes |
| apply-meta-structure, apply-meta-data (`bootstrap/commands`) | position in the sorted directory, failure flags, exit code | one run per process; may be given again | `PgExecutor`, file system, prompt | yes |
| create-database | position in the command, exit code | one run per process | `PgExecutor`, prompt | yes |
| `Resolver`, `ResolvedOptions` (`MSG5_Config/src/core`) | values and their origins | `resolve`: prepare, ask the sources in order, defaults, validation | sources, log sinks | yes |
| Sources (`MSG5_Config/src/providers`) | indexes of flags and variables | `prepare`, `fetch` | command line, file, environment, standard input | yes, as functions of the world |
| Bootstrap gate (`bootstrap/sources`, `UI/Prompts.h`, head of the commands) | none of its own | `ResolveFor`, plan / dry run / confirmation | Resolver, standard input | yes, for the apply commands |
| `MSG5_Config_Tool` | exit code; the files it writes | template, `resolve`, dump of the effective configuration | Resolver, file system | yes |
| `ConfigLoader`, `BasicConfig`, `AdminConfig`, `ClientConfig` | the configuration of a service | find the file, parse, override, validate | command line, files, environment | yes, as functions of the world |
| `HttpServer` | httplib's routes, list of readiness checks | mount, register, listen; `/readyz` | httplib's threads, `PgExecutor` | yes |
| Admin service (`MSG5_Admin`) | none of its own | preflight, describe, bootstrap check, three readiness checks | `HttpServer`, `PgExecutor` | yes |
| Client service (`MSG5_Client`) | none of its own | describe, ping, version, the methods of `APIFacade`, one readiness check | `HttpServer`, `PgExecutor` | yes |
| `Logger` | level, list of sinks | `subscribe`, `emit` | everything in MSG5_Config | no: a filter and a list of callbacks that print; no decision depends on it |
| `main` of the bootstrap tool, `validate`, specs of the other commands | - | choose a command; describe options | the commands | no: a table, and a command without effect |
| Old command line parser, `SessionContext`, helpers for texts and files, tests, vendored code | - | - | - | no: unused, stateless, or not the project's own |

### What is hard about it

* **Transactions.** Every `exec` opens its own `pqxx::work`, so it commits when it
  returns. The apply commands send `begin;`, a file and `commit;` as *three* such calls.
  Which of the three does what depends on the session each call leaves behind.
* **Failure in the middle.** Connections are lost before, in and after a `COMMIT`;
  statements fail; processes are killed between two files; commands are given again.
* **Interleaving.** Two operators can run commands against one server: they wait for
  each other's locks, meet half-finished directories, and look before they create.
* **Precedence.** Options come from four places; sources answer more than they are
  asked; a pipe that was read once is empty for the confirmation. The services have three
  other places and rules of their own.
* **Servers come and go** between the preflight and the first request, between two checks
  of one report, and between the checks that two requests run at the same time on
  httplib's threads.
* **Layers that rewrite.** The first route that matches wins; behind the handlers an error
  handler replaces what they wrote; behind a dump a scanner reads what a JSON library
  wrote, the origins included.

### What makes each part correct

* `PgExecutor`: exec is atomic, durable when it returns normally, and always returns; no
  call inherits a transaction block from an earlier one.
* The apply commands: a file is applied as a whole or not at all; files are applied in
  order; exit code 0 can be believed; every run ends; a rerun repairs.
* create-database: nothing that was not asked for is created; success means that role and
  database exist; two runs do not block each other for ever.
* Resolver and sources: the strongest source of each option wins; nobody is asked for
  nothing; what is missing is reported; the command line is read without loss.
* The gate: the database is touched only when it was asked for.
* The configuration tool: a dump can be used as a configuration file, as far as the scan
  inverts what was written; a template decides nothing; the exit code says what happened, as
  far as the tool looks.
* Service configuration: each field comes from the strongest place that has it.
* The services: an admin service that starts has found its servers and the meta structure;
  no connection is opened with an empty DSN; what is announced is not answered with 404;
  a readiness report is true of some time during the request; the facade reaches the
  database for complete requests only; every reply with an error has the one form; every
  request is answered as long as the service runs, and only a path that cannot be written
  ends it.

`PROJECT.json` lists the hazards one by one, each at its line with the properties that
would catch it.

## 2. The modules

```
AtomicExec <--implements-- PgRefinement ---------extends--> PgExecutor
                                                               ^
Baseline <---implements-- ApplyRefinement ----> ApplyMeta -----+
                                                               |
Provision <--implements-- CreateRefinement ---> CreateDatabase +

Sources <--extends-- Resolver <--extends-- BootstrapConfig        BootstrapSpec
                        ^------- extends-- ConfigTool

ServiceConfig <--extends-- Services
```

| Module | What it is |
|---|---|
| `PgExecutor` | processes, their `exec` dialogues and the server's sessions |
| `AtomicExec` | the promise of `exec`: one step between call and return |
| `PgRefinement` | the mapping, and `ExecIsAtomic` |
| `ApplyMeta` | both apply commands over `PgExecutor` |
| `Baseline` | the promise of the apply commands |
| `ApplyRefinement` | the mapping, and `KeepsPromise` |
| `CreateDatabase` | the command create-database over `PgExecutor` |
| `Provision` | the promise of create-database |
| `CreateRefinement` | the mapping, and its `KeepsPromise` |
| `Sources` | the four sources, as operators (no state) |
| `Resolver` | `Resolver::resolve` |
| `BootstrapConfig`, `BootstrapSpec` | the sources the tool builds, its table of options, the decision |
| `ConfigTool` | the configuration tool: its own flags, template, dump, exit codes |
| `ServiceConfig` | how a service gets its configuration (no state) |
| `Services` | both services: `main`, preflight, routes, and requests on threads |
| `PgProofs`, `PgRefinementProofs`, `ApplyProofs`, `CreateProofs`, `ResolverProofs`, `BootstrapProofs`, `ConfigToolProofs`, `ServiceProofs` | the theorems about the module of that name; `BootstrapProofs` and `ConfigToolProofs` build on `ResolverProofs` |
| `MC...` | the instances that TLC checks |

The two apply commands are one function twice, with other names for their options;
`ApplyMeta` stands for both, and `PROJECT.json` maps definitions to either file.

**`PgExecutor`.** `conn` is the `unique_ptr<pqxx::connection>` (none, open, lost without
the process knowing more than `is_open()`), `phase` the position inside `exec`, `script`
and `at` the SQL text and how far the server is in it, `outcome` whether `exec` returned or
threw. `block`, `pend`, `orphan` and `db` are the server's. `Call` and `Refuse` are the
entry (`ensureConnected`), `Begin` the constructor of the work, `RunStmt`, `RunBegin`,
`RunEnd`, `Reject` the statements of the text, `EndScript` the return of `tx.exec`,
`Commit`, `CommitReject` and `Reply` the call of `tx.commit`, `Abort` the destructor of the
work after an exception. `GiveUp`, `Lose`, `Crash` are the faults, `Land` and `Drop` settle
a `COMMIT` whose connection was lost, `Victim` is the deadlock detector. A statement is
known by what it changes; the constants say which statements are always refused (`Bad`),
refused a second time (`Once`), refused inside a transaction (`Outside`) and which need
others first (`Needs`). The server's part is external to the repository and modelled as
far as the code relies on it.

**`ApplyMeta`.** `pc` names the places of the function between two calls of `exec`; `i`,
`fileOk`, `failed` and `exit` are its variables (`all_ok`, `any_err`, the return value).
`Usage`, `Decline` and `Proceed` are the returns before the connection, `Open` line 48,
`SendBegin` ... `Settled` the loop, `SendEnd` and `Ended` the end of tx-mode single,
`Finish` that of the others, `SendRollback` and `Caught` the catch clauses. `said` records
the line "aborted, rolled back."; `base` and `runs` are history. `Rerun` is the operator
who gives the command again.

**`CreateDatabase`.** One action per call or early return. The `DO` block of line 39-44
looks and creates in two steps (`LookForRole`), because another session can commit between
them. A `scalar` query is one step. `Provision` is what is left for somebody who only sees the
catalog and the exit codes: objects appear one by one, each wanted by a run that was told to go
ahead and has not succeeded; success comes once, and after it the run has nothing under way.

**`Sources`** and **`Resolver`.** The world (command line, files, environment, standard
input) is fixed when the process starts. `ParseArgvPairs` is the parser of the command
line as a recursive function; `EnvValues` returns the *set* of values that
`explicit_env_to_key_`, a hash table, can yield. `Prepare` evaluates the sources once (they
are deterministic but for that set), `Ask` is one turn of the loop, `ApplyDefaults` and
`Validate` are the end of `resolve`.

**`BootstrapConfig`.** `ResolveForInit` builds the chain from `FindConfigPath`, `Decide` is
the head of the command, `Confirm` the question, which reads the same standard input as
the prompt source.

**`ConfigTool`.** `pc` is the place of `main` (start, resolve, ended). `Help`,
`WriteTemplate`, `Dump` and `NoDump` are its branches, `Resolve` a step of `Resolver` in
between. `BuildFilteredArgv` takes the tool's own flags out of the command line before the
sources see it. `LookFails` is the line that shows the directory and the file, which can throw.
A file that the tool writes is an object as the scan of `FileSource` finds
it, so that reading it back is the same operator as reading any other file: the comments and
lists of a template are invisible to it, and the members of `"__source"` are not. `Effective`
is what the scan makes of a dump: `json::dump` escapes more than `unescape` inverts, so a text
with control characters comes back as `Reread` says (`Mangled` is that function). `WriteText`
writes a file and does not look whether it fits: where there is no room (`world.tight`), any
part of the text may be there instead, of which a scan sees what `PartsOfDump` lists.

**`ServiceConfig`** and **`Services`.** `ConfigOf` is what `ConfigLoader` and `from_json` make
of a world: command line, variable, file, section, environment. `ToInt` keeps the width of an
`int`. In `Services`, `phase` is the place of `main`: `Configure`; the preflight of the admin
service as `PreflightDsns`, `PingBoot`, `PingApp`, `MetaPresent`; `MountSystemRoutes`,
`Register` and `Listen`. `routes` and `checks` are the lists that these build. A request goes
through `Send` (its line is read), `Dispatch` (a thread of the pool takes it and httplib finds
the first route that matches), its handler, and `Write` (the error handler). `Write` ends the
service when the error has a path that is not UTF-8 (`NotUtf8`): `dump` throws, httplib calls
the error handler outside its `try`, and no thread has one. `RunCheck` is one readiness check,
because a server can go down between two of them; `Report` sums them up. `Unauthorized`,
`Unsupported`, `Unparsed`, `Echo` and `Version` are the returns of `APIFacade::route`. What the
services know of PostgreSQL is `up`, the set of facts that hold (a DSN is answered, the meta
structure exists), and `Change` turns one of them over. `past` and `opened` are history: what
held while somebody waited, and who opened a connection with which text. A handler's
`PgExecutor` runs one query that changes nothing, so it is one step here; `PgExecutor` has the
dialogue.

Operators introduced by the comment *Variant* are not part of the specification: each is a
plausible defect of the definition that follows it, and shows that the property named with
it in `PROJECT.json` ("mutants") would notice.

## 3. The runs

| Run | Instance | What it shows |
|---|---|---|
| `pgexecutor_pure` | 2 processes, 3 statements (one always refused), 6 texts, 2 faults | type, `CleanBetweenCalls`, `OkIsDurable`, `ExecIsAtomic`, `CallsReturn` |
| `apply_solo` | 1 process, all 5 x 4 x 16 option records over plain directories, and 3 over one with a file that has its own `ROLLBACK` and `COMMIT`; 2 faults, 2 runs | type, `FileAtomic`, `InOrder`, `SuccessMeansApplied`, `KeepsPromise`, `RunsGoForward`, `RerunRepairs` |
| `apply_pair` | 2 processes on one or two directories, 1 fault | `KeepsPromise` under interleaving, and `RunsEnd` |
| `apply_rollback` | as `apply_solo`, no faults | violated: `RolledBackMeansUndone` |
| `create_pair` | 2 processes, 2 roles, 1 database, 4 catalogs, 1 fault | type, `RoleEnsured`, `SuccessMeansThere`, `KeepsPromise` (of `Provision`), `RunsEnd` |
| `create_alone` | 1 process, empty server, no faults | violated: `ForcedRunCreates` |
| `resolver_chains` | 3 options, all command lines of up to 2 tokens and some of 3, 3 orders of sources | type, `EarlierWins`, `AskedOnlyForHoles`, `MissingIsReported`, `ArgvIsReadLocally` |
| `bootstrap_gate` | the real table of options; command lines, environments, a file, a terminal, pipes | `ExecutionIsAskedFor` |
| `bootstrap_dryrun` | the same | violated: `DryRunNeverExecutes` |
| `config_tool` | the tool's real table of options; its flags before and behind options; files it may write, may not write, and that have no room; texts that JSON or the scan cannot handle; a directory that cannot be looked at | type, `ToolExitTellsWhy`, `DumpReadsBack`, `TemplateHoldsOnlyDefaults` |
| `services` | both services, 88 starts, 3 services under load, 2 requests, some for a path that is not UTF-8, 1 change of a fact | type, `ConfigFromStrongest`, `ExitTellsWhy`, `NoDefaultConnection`, `NotFoundMeansUnknown`, `DocumentsReachDocSave`, `ReadyIsTrue`, `DatabaseOnlyWithToken`, `ErrorsAreUniform`, `OnlyPathsEndService`, `Answered` |
| `services_errors` | the 3 services under load | violated: `ErrorsAreAnswered` |

The properties are stated, with the lines they are about, at the end of each module.

**Bounds.** `MaxFaults` bounds lost connections, kills, refused `COMMIT`s and server-side
cancellations together. Two are enough for a fault during the handling of a fault (the
`rollback;` of a catch clause) and for a fault in a `COMMIT` in doubt; no action behaves
differently after a third. `MaxRuns` bounds how often a command is given; the second run
already meets every state a failed run can leave. Two processes are enough for a lock wait,
a deadlock (two statements in opposite orders in `pgexecutor_pure`) and a race between
looking and creating. Directories have at most four files: one before, one after, and each
kind of special file. Texts have at most two statements, so that a failure can come after
the first; the file that ends transactions itself has five (a statement that it rolls back, one
that it commits, and one behind that), so that it can fail with a part of it durable, and a
plain file stands behind it. The resolver's three options cover one with several names, one
without a default and one with, and a flag and a variable that two options claim.

`config_tool` writes its template and its dump to files of their own, to the configuration
file that the same run reads, and to a place that cannot be written, with room for all files or
for none; one secret is cut by the mask in the middle of a character, and one value has a
control character. `services` gives an `int` 16 values (`IntRange`) and a port
at most 5 (`MaxPort`), so that numbers in a file wrap to a valid port, to 0 and to a negative
one, which the real 2^32 and 65535 also do. Files have and lack each field, as a text and as
something else, in the root, in the section and in both; variables are unset, empty and set.
One change of a fact (`MaxChanges`) can fall between any two steps of the start, of a check
and of a report; two requests on one and on two threads meet in every order, and on one thread
the second waits while the first runs its checks. Either of them can be the one whose path
cannot be written while the other is at any point. The theorems of section 5 have no bounds.

**Deadlock** is checked where the system must not stop (`pgexecutor_pure`). The other runs
model commands that end, or services with a bounded number of requests, and say so.

## 4. Fairness

* A process takes its next step when it can (weak fairness of `Step`, `Next`): it is a
  sequential program without loops that wait.
* A session is served (strong fairness of `Dialogue`): PostgreSQL grants locks in the order
  of a queue, so a session that waits for a lock is not overtaken for ever, although others
  take and release the lock meanwhile, which makes its step enabled again and again but not
  all the time.
* A `COMMIT` in doubt is settled (weak fairness of `Land \/ Drop`): the server either
  completes it or notices that the client is gone.
* A request that was sent is served (weak fairness of `Serve(r)` for each request in
  `Services`): httplib's threads run on, a query of libpq answers or gives up, and the queue
  of requests is served in its order. No handler waits for another request. A thread whose
  exception ends the process takes all of them with it, so `Answered` says "answered, or the
  service was ended by an exception"; `OnlyPathsEndService` says when that happens.
* No fairness is assumed of faults, of `Rerun`, of calls, of `Send` and `Change`, of the start
  of a service, or of the way a user answers; a user at a prompt is assumed to answer at some
  time. `Resolver`, `BootstrapConfig` and `ConfigTool` are checked for safety only, so they
  state none.

`RunsEnd` and `CallsReturn` depend on the server noticing deadlocks (`Victim`), which
PostgreSQL does after `deadlock_timeout`.

## 5. The proofs

TLAPS checks every leaf. The assumptions on constants are named in the modules that declare
them; TLC evaluates them in every run.

| Theorem | Module | Says |
|---|---|---|
| `PgTypeCorrect` | `PgProofs` | `Spec => []PgTypeOK` |
| `CleanAlways` | `PgProofs` | `Spec => []CleanBetweenCalls` |
| `OkDurableAlways` | `PgProofs` | `Spec => []OkIsDurable` |
| `CallsForward` | `PgProofs` | `Spec => CallsGoForward` |
| `NeverAtAStandstill` | `PgProofs` | `Spec => []NoStandstill` |
| `ExecAtomicity` | `PgRefinementProofs` | `Spec => ExecIsAtomic` (texts are pure) |
| `TypeCorrect` | `ApplyProofs` | `AMSpec => []TypeOK` |
| `FileAtomicAlways`, `InOrderAlways`, `SuccessIsApplied` | `ApplyProofs` | the three safety properties of the commands |
| `CommandsKeepPromise` | `ApplyProofs` | `AMSpec => KeepsPromise` |
| `RunsForward` | `ApplyProofs` | `AMSpec => RunsGoForward` |
| `NeverStuck` | `ApplyProofs` | `AMSpec => []RunsNotStuck` |
| `TypeCorrect` | `CreateProofs` | `CDSpec => []TypeOK` |
| `RoleFirst`, `SuccessIsTrue` | `CreateProofs` | `RoleEnsured`, `SuccessMeansThere` |
| `CommandKeepsPromise` | `CreateProofs` | `CDSpec => KeepsPromise` |
| `TypeCorrect` | `ResolverProofs` | `Spec => []TypeOK` |
| `StrongestSource`, `NoNeedlessQuestion`, `MissingFound` | `ResolverProofs` | `EarlierWins`, `AskedOnlyForHoles`, `MissingIsReported` |
| `LeftToRight` | `ResolverProofs` | `Spec => []ArgvIsReadLocally` |
| `AskedFor` | `BootstrapProofs` | `ExecutionIsAskedFor` |
| `ToolTypeCorrect`, `ExitIsTrue`, `DumpIsConfig`, `TemplateIsNeutral` | `ConfigToolProofs` | the type and the three properties of the configuration tool |
| `TypeCorrect` | `ServiceProofs` | `Spec => []TypeOK` |
| `StrongestConfig`, `ExitTells`, `NoDefault`, `NotFound`, `DocumentsSaved`, `ReadyTrue`, `DatabaseGuarded`, `UniformErrors`, `PathsEndService` | `ServiceProofs` | the nine safety properties of the services |

**`PgExecutor`.** None of the properties is inductive. The invariant `PgInv` says, per phase,
what the block and the uncommitted changes can be: outside a call nothing; in the call, for a
pure text (statements only, or one control statement), exactly the statements already run;
behind the `COMMIT` of a pure text, all its effects durable. For any text it says that each
statement already run is pending or durable, unless the text itself has rolled it back (`Along`,
`Kept`); at the end this is `Lasting`, what a text leaves behind when it runs through, and
`OkIsDurable` promises it for every text. A step of one process leaves the others' conjuncts
alone because `db` only grows; this is the reason why durability survives. `PgInvariant` proves
it inductive, with one step per action, for any set of texts, control statements included;
`CleanAlways` and `OkDurableAlways` follow.

**`ExecAtomicity`.** A call maps to "pending" until its `COMMIT` and to "effected" after it.
Every action maps to a step of `AtomicExec` or to a stutter; `PgInv` gives the one fact
that is not syntactic: at `COMMIT` the changes pending are all the effects of the text, or
none if it is a control statement.

**`ApplyMeta`.** `AMInv` adds to `PgInv` what ties the command to the session: the text
under way is that of the place `pc` names (`Ctl`); in a run that stops at errors the files
before position `i` are applied (`Behind`); whatever may enter the database at once, by a
session or by a `COMMIT` in doubt, is of one file whose predecessors are applied, and is all of
it when the file is plain (`Legit`). The last part is what makes `InOrder` survive kills and
reruns: the doubt outlives the process that caused it. It is also why the theorems hold for
directories with any files: one with control statements of its own may come in parts, but each
part is still of one file, and behind *all* that each predecessor leaves behind (`Passed` asks
for `Lasting` of every readable file before it, plain or not). So a file that failed half-way,
with a part of it committed, lets nothing behind it in; the same is true of the success of a
run, which means `Lasting` of every file.

**Going forward.** That a call returns and a run ends is liveness, which stays with TLC. Its two
safety halves are theorems. First, a measure that no step raises: `Left` counts what a call still
has to do, `Ahead` what a run has, and each step of the process, of the dialogue and of a fault
lowers it (`CallsForward`, `RunsForward`); the invariants `Reached` and `Place` keep the position
in the text and in the directory inside their bounds, so that the measure is a natural number. It
would be false if a catch clause or a lost connection sent anything again. Second, somebody can
always move: when all sessions wait, each for a lock of another, they form a circle, which the
server breaks (`NeverAtAStandstill`; it needs `PgInv`, by which a session without a call holds no
lock); and a run between two calls has what its next step needs, the executor or an answer with
a branch of its own (`NeverStuck`, by the invariant `Equipped`). What is left to fairness is that
who can move does, and in turn.

**`CreateDatabase`.** `PgInv` does not hold here, because the `DO` block looks first and may
skip its statement. `CdInv` says what the server owes to the text instead: from the moment
the block has run, its object is in the catalog or among the session's changes (`InText`); a
process that is past the role has the role (`InCommand`); what a session holds is its own
target (`OwnChanges`); and every `COMMIT` in doubt belongs to a run that was told to go ahead
and that fails, or has failed (`Doubts`). The last is what `Provision` needs when the doubt is
settled long after the run has ended: only a run without success may still change the catalog.

**`Resolver`.** `EarlierWins` is about the end; `RInv` says what the loop has at position
`pos`: an option has a value exactly when a source before `pos` knows it, and the value is
from the first that does (`FromFirst`); a source before `pos` that was not asked had nothing
to add, since every option was known before it (`FullBefore`). `RInv` mentions neither the
world nor how the chain was built, and so the two programs over the resolver reuse
its lemma `NextKeeps` with invariants of their own. `BInv` adds that standard input is last in
the chain of the bootstrap tool and that a verdict to execute is backed by options and by a
confirmation; `CTInv` adds that no value is the bare `null` of a file (`NoNull`), which a dump
could not give back, that the template is in place, whole or in part, from the moment it is
passed until the dump may replace it (`TemplateWritten`), and that nothing happens after the end.

`LeftToRight` is about the parser of the command line, a recursive function. The induction
theorems of the library cannot be instantiated by the provers at hand, so its lemmas take the
other form of induction: if one failed there would be a least counterexample (`LeastNat`), which
the equation of the function refutes.

**`Services`.** `SvInv` has a part for each actor. `MainInv` and `StartInv` say what `main`
has found and put in place at each phase, over the history of the facts since the start;
`RequestInv` says what is known of a request from the handler it was given: its path, the
checks in its report each with a time at which they held or failed, and its reply;
`OpenedInv` says who has opened a connection; `ThreadsInv` counts threads. A change of a fact
disturbs none of it, because the properties speak of some time while somebody waited. What is
known of a request stays true when an exception ends the service under it. `PathsEndService`
is inductive beside `SvInv`: an exit by exception is that of `Configure`, or that of `Write`,
which leaves the request and its reply behind as evidence.

**Assumptions** beyond types: the files of the directories share no statement
(`SeparateAssumption`), so that one can tell whose effects are in the database, for the theorems
of `ApplyProofs`; the texts of `PgRefinement` are pure (`PureAssumption`); the server refuses
`CREATE DATABASE` inside a transaction (`ObjectAssumption`); command lines are sequences of
tokens (`WorldsAssumption`); the words for true and false differ (`WordsAssumption`); the
options that decide about execution are in the table and have neither a default nor a variable
of their own (`ConsentAssumption`); the tool's options are read from files by their keys, their
defaults have no control characters, and no text from elsewhere is a bare `null`
(`ToolSpecAssumption`, `ToolWorldAssumption`, `CommandLineAssumption`); a mangled text is
neither empty nor a bare `null` (`MangledAssumption`); a service has a thread
(`WorldAssumption`), its configuration names DSNs among `Dsn` (`DsnsAssumption`), and the paths
of methods are UTF-8 and not those of other routes (`MethodAssumption`).

**Only model-checked:** liveness (`CallsReturn`, `RunsEnd` of both commands, `RerunRepairs`,
`Answered`), because fairness and `ENABLED` are out of reach of the prover. Every invariant and
every other action property of the passing runs is a theorem.

**Only proved:** `CallsGoForward`, `NoStandstill` and `RunsNotStuck`. The runs check the liveness
that follows from them, so they are not listed there again.

## 6. What the checks found

* `apply_rollback`: `--tx-mode single` is no transaction. The `begin;` commits before the
  first file is sent, each file commits on its own, and the `rollback;` of
  `ApplyMetaStructure.cpp:69` has nothing to undo when "aborted, rolled back." is printed.
* `create_alone`: `CREATE DATABASE` cannot run inside the transaction that `exec` opens, so
  the command never creates a database.
* `bootstrap_dryrun`: `--dry-run=1` is accepted as a boolean and does not prevent a run.
* `services_errors`: the error handler of `HttpServer.cpp:51-60` is announced as the one reply to
  every error. It writes the path of the request as JSON, which throws for a path that is not
  UTF-8, outside every `try`: the service ends, and no request that waits is answered.

Three things where the code does less than a document says, and which the models have as the code
does them, so that the properties name them as exceptions:

* Of two variables listed for an option, hash order decides (`EnvValues` is a set);
  `conventions.md:36` promises the first one listed that exists.
* The tool does not look at its files after writing (`MSG5_Config_Tool.cpp:134`, `:160`): without
  room, a template or a dump that is cut off ends with 0 or 3, where
  `msg_5_config_tool_readme.md:120-126` has 2 and 4 for a file that could not be written.
* A control character that `json::dump` writes as `\b`, `\f` or `\u00XX` is not restored by
  `unescape` (`json_utils.cpp:9-27`), and a value that is empty in a dump is read back as its
  origin, although the dump is "compatible with `FileSource`" (`msg_5_config_tool_readme.md:103`).

Behaviour that is modelled and worth knowing, and that no document contradicts: the commands end
by `std::terminate` when the server cannot be reached; with `--continue-on-error` they return 0
whatever failed; a directory that does not exist is an empty one; an absolute POSIX path after a
flag is not taken as its value; `--config=PATH` is parsed as an option, but the file is looked
up by the form `--config PATH` only. The configuration tool leaves an empty file behind when a
value is not UTF-8, and ends with 1 before it does anything when the directory or the file cannot
be looked at (`MSG5_Config_Tool.cpp:257-259`). In the services, the bodies written for 400, 401, 415 and 503 never reach a
client, because the error handler replaces them; a readiness report with a message that is not
UTF-8 is a 500; a service whose port is taken ends with 0; a port of 2^32 + 80 in a file is port
80; and a port inside the section "admin" is ignored.

## 7. Limits of the models

* A connection that is lost before `COMMIT` is undone by the server at once, and its locks
  are released; only a lost `COMMIT` is in doubt.
* A file's content and the list of files do not change while commands run.
* A text that commits in its middle is not atomic by intent. Claimed of it are the order of the
  files, counted from all that it leaves behind (`Lasting`), and that a run that succeeds has left
  that behind; not what a failure in its middle leaves.
* Isolation is that of what the statements need: a statement sees what is committed and
  what its own session did; reads inside one text are not modelled further.
* In `Resolver` the case without holes is only met for an empty table of options, because
  the loop ends when the last hole is filled. The branch of `ArgsSource.cpp:129-138` is
  never taken, since the parser splits `--name=value` before.
* The keys of a table of options are distinct. Repeated names inside one JSON object are
  not modelled (the scan keeps the last that has a value).
* The branch of `Done` in which `CREATE DATABASE` has succeeded is the code's
  (`CreateDb.cpp:62-65`) and is never taken, because the server refuses that statement
  inside the transaction of `exec` (`ObjectAssumption`).
* A text that is cut off is known by what a scan sees of it. That a value in a cut dump has a
  brace, which would let the scan see a part of the values too, is not modelled; nor is a path
  that cannot be made from its text.
* Wording, log lines and hidden input are left out. What a mask makes of a secret is a
  function of the instance (`Mask`).
* The DSN of a service is known by its text; that two texts name one server is not modelled.
  A body is empty, JSON or broken; what a method echoes is left out.
* httplib (routing in order of registration, error handler after the handler, 500 for an
  exception of a handler, none for one of the error handler) and the JSON library (`null`,
  numbers, exceptions, UTF-8) are modelled as far as the code relies on them.
* The validation's errors reach the caller only through `out_errors`; `errors` in the model
  is that result, whether the caller asked for it or not.

## 8. Plan

Built: `PgExecutor` first, because everything the tool promises rests on `exec`; then the
commands, the resolver and the gate, the services, and the configuration tool.

What could be added to the proofs: measures for create-database, for the start of a service and
for a request, as for the apply commands; the services as an implementation of what their
documentation promises. To the models:

1. **Deployment**: `BootstrapConfig` and `ApplyMeta` composed, so that the options of a run
   come from a world; create-database, structure and data in sequence on one server.
2. **The gate of create-database** with its own table of options.
3. **Sources that throw**: `fetch_impl` is `noexcept`, so an exception ends the process.
4. **Logger**: which events reach which sink at which level.

Not modelled, because there is nothing to go wrong that a model would show: `main` of the
bootstrap tool and the command `validate` (a table of names, and a command that only prints),
the tables of options of the commands that are not implemented, `callJson` and `callText1Int`
of `PgExecutor` (nobody calls them), the old command line parser and `SessionContext` (unused),
helpers for texts and files (stateless), the tests and the vendored libraries.
