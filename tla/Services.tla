------------------------------ MODULE Services ------------------------------
(***************************************************************************)
(* The HTTP services MSG5_Admin and MSG5_Client: from the start of main     *)
(* over the preflight of the admin service to the requests that httplib's    *)
(* threads answer (HttpServer, AdminRoutes, ClientRoutes, APIFacade).        *)
(*                                                                           *)
(* What the services know of the outside are facts: that the server behind   *)
(* a DSN answers, and that the meta schema exists.  Facts change at any      *)
(* time.  A PgExecutor that is made for one query is one step: its query     *)
(* changes nothing, and a connection that is lost on the way and a server    *)
(* that is down end in the same exception.                                   *)
(***************************************************************************)
EXTENDS ServiceConfig, Sequences, FiniteSets

CONSTANTS Worlds,      \* what a service may find: the world of its configuration with
                       \* the threads (workers) it has and the inputs it is sent
          Dsn,         \* the connection strings that a configuration can name
          Request,     \* the requests that are sent, each one of world.inputs
          Ups,         \* the facts that may hold at the start
          MethodOf,    \* path of the form /api/v1/<name> -> the name
          NotUtf8,     \* the paths that are not UTF-8 once httplib has decoded them
          MaxChanges   \* bound on the changes of facts

MetaSchema == "meta.meta_schema"
Fact == Dsn \cup {"", MetaSchema}
Startup == "start-up"
ErrorBody == "the body of errors"

ASSUME DsnAssumption == "" \notin Dsn /\ MetaSchema \notin Dsn
ASSUME RequestAssumption == Startup \notin Request
ASSUME WorldAssumption ==
    \A w \in Worlds : w.kind \in {"admin", "client"} /\ w.workers \in Nat \ {0}
ASSUME DsnsAssumption ==
    \A w \in Worlds : Configures(w) =>
        /\ \A k \in TextKeys(w.kind) \ {"baseline_dir", "migrations_dir"} :
               ConfigOf(w).text[k] \in Dsn \cup {""}
        /\ w.kind = "client" /\ "pg_dsn" \in DOMAIN w.env => w.env["pg_dsn"] \in Dsn \cup {""}
ASSUME MethodAssumption ==
    /\ DOMAIN MethodOf \cap {"/readyz", "/api/db/version", "/admin/bootstrap/check"} = {}
    /\ DOMAIN MethodOf \cap NotUtf8 = {}
    /\ \A p \in DOMAIN MethodOf : MethodOf[p] # ErrorBody
    /\ "/api/v1/documents" \in DOMAIN MethodOf => MethodOf["/api/v1/documents"] = "documents"
ASSUME UpsAssumption == Ups \subseteq SUBSET Fact
ASSUME BoundAssumption == MaxChanges \in Nat

VARIABLES world,    \* fixed
          phase,    \* where main is
          exit,     \* the exit code, once there is one
          cfg,      \* AdminConfig or ClientConfig
          routes,   \* httplib's handlers, in the order of their registration
          checks,   \* HttpServer.readyChecks_
          at,       \* request -> where it is
          input,    \* request -> what it is
          handler,  \* request -> the handler it was dispatched to
          report,   \* request -> results of the checks run for it so far
          garbled,  \* request -> a message in its report is not UTF-8
          reply,    \* request -> status and body
          up,       \* environment: the facts that hold
          changes,  \*   and how often they have changed
          past,     \* history: request -> the values of up from its sending to
                    \* its answer; Startup -> those from main's start on
          opened    \* history: who has opened a connection with which text

main == <<phase, exit, cfg, routes, checks>>
requests == <<at, input, handler, report, garbled, reply, past>>
environment == <<up, changes>>
vars == <<world, main, requests, environment, opened>>

NoReply == [status |-> 0, body |-> "none"]
NoInput == [method |-> "none", path |-> "", token |-> FALSE, type |-> "", body |-> "empty"]

Init ==
    /\ world \in Worlds
    /\ phase = "configure"
    /\ exit = "none"
    /\ cfg = [port |-> DefaultPort, text |-> [k \in TextKeys(world.kind) |-> ""]]
    /\ routes = <<>>
    /\ checks = <<>>
    /\ at = [r \in Request |-> "unsent"]
    /\ input = [r \in Request |-> NoInput]
    /\ handler = [r \in Request |-> "none"]
    /\ report = [r \in Request |-> <<>>]
    /\ garbled = [r \in Request |-> FALSE]
    /\ reply = [r \in Request |-> NoReply]
    /\ up \in Ups
    /\ changes = 0
    /\ past = [r \in Request \cup {Startup} |-> IF r = Startup THEN {up} ELSE {}]
    /\ opened = {}

-----------------------------------------------------------------------------
(* main                                                                      *)

GoTo(p) == phase' = p /\ UNCHANGED exit

End(code) == phase' = "ended" /\ exit' = code

\* An exception: the admin service reports it, the client service has no try.
Configure ==
    /\ phase = "configure"
    /\ IF Configures(world)
       THEN /\ cfg' = ConfigOf(world)
            /\ GoTo(IF world.kind = "admin" THEN "dsns" ELSE "mount")
       ELSE /\ End(IF world.kind = "admin" THEN "1" ELSE "terminated")
            /\ UNCHANGED cfg
    /\ UNCHANGED <<world, routes, checks, requests, environment, opened>>

\* Variant: Preflight looks at the DSN of the bootstrap connection only.
PreflightDsnsBootstrap ==
    /\ phase = "dsns"
    /\ IF cfg.text["bootstrap_dsn"] = "" THEN End("78") ELSE GoTo("boot")
    /\ UNCHANGED <<world, cfg, routes, checks, requests, environment, opened>>

\* Preflight: without both DSNs nothing is tried.
PreflightDsns ==
    /\ phase = "dsns"
    /\ IF cfg.text["bootstrap_dsn"] = "" \/ cfg.text["app_dsn"] = ""
       THEN End("78") ELSE GoTo("boot")
    /\ UNCHANGED <<world, cfg, routes, checks, requests, environment, opened>>

\* One query of Preflight: it throws, or main goes on at next.
Ping(p, dsn, next) ==
    /\ phase = p
    /\ opened' = opened \cup {<<Startup, dsn>>}
    /\ IF dsn \in up THEN GoTo(next) ELSE End("7")
    /\ UNCHANGED <<world, cfg, routes, checks, requests, environment>>

PingBoot == Ping("boot", cfg.text["bootstrap_dsn"], "app")
PingApp == Ping("app", cfg.text["app_dsn"], "meta")

\* Variant: a missing meta structure is only reported.
MetaPresentOrNot == Ping("meta", cfg.text["app_dsn"], "mount")

MetaPresent ==
    /\ phase = "meta"
    /\ opened' = opened \cup {<<Startup, cfg.text["app_dsn"]>>}
    /\ CASE cfg.text["app_dsn"] \notin up -> End("7")
         [] cfg.text["app_dsn"] \in up /\ MetaSchema \notin up -> End("78")
         [] OTHER -> GoTo("mount")
    /\ UNCHANGED <<world, cfg, routes, checks, requests, environment>>

Route(method, paths, name) == [method |-> method, paths |-> paths, handler |-> name]
Check(name, critical) == [name |-> name, critical |-> critical]

SystemRoutes == <<Route("GET", {"/healthz"}, "ok"), Route("GET", {"/livez"}, "ok"),
                  Route("GET", {"/readyz"}, "readyz"), Route("GET", {"/status"}, "status")>>

AdminRoutes == <<Route("GET", {"/admin/describe"}, "describe"),
                 Route("POST", {"/admin/bootstrap/check"}, "bootstrap_check")>>

\* Variant: the route with the name in its path comes before that of documents.
ClientRoutesMethodFirst ==
    <<Route("GET", {"/api/describe"}, "describe"),
      Route("POST", DOMAIN MethodOf, "method"),
      Route("POST", {"/api/v1/documents"}, "doc_save"),
      Route("GET", {"/api/ping"}, "ping"),
      Route("GET", {"/api/db/version"}, "version")>>

ClientRoutes == <<Route("GET", {"/api/describe"}, "describe"),
                  Route("POST", {"/api/v1/documents"}, "doc_save"),
                  Route("GET", {"/api/ping"}, "ping"),
                  Route("GET", {"/api/db/version"}, "version"),
                  Route("POST", DOMAIN MethodOf, "method")>>

AdminChecks == <<Check("postgres_bootstrap", TRUE), Check("postgres_app", FALSE),
                 Check("meta_structure", FALSE)>>
ClientChecks == <<Check("postgres", TRUE)>>

MountSystemRoutes ==
    /\ phase = "mount"
    /\ routes' = routes \o SystemRoutes
    /\ GoTo("register")
    /\ UNCHANGED <<world, cfg, checks, requests, environment, opened>>

Register ==
    /\ phase = "register"
    /\ routes' = routes \o (IF world.kind = "admin" THEN AdminRoutes ELSE ClientRoutes)
    /\ checks' = checks \o (IF world.kind = "admin" THEN AdminChecks ELSE ClientChecks)
    /\ GoTo("listen")
    /\ UNCHANGED <<world, cfg, requests, environment, opened>>

\* Variant: the server is started before the routes of the project are known.
ListenEarly ==
    /\ phase \in {"register", "listen"}
    /\ GoTo("serving") \/ End("0")
    /\ UNCHANGED <<world, cfg, routes, checks, requests, environment, opened>>

\* The port cannot be bound: listen returns FALSE, which start ignores.
Listen ==
    /\ phase = "listen"
    /\ GoTo("serving") \/ End("0")
    /\ UNCHANGED <<world, cfg, routes, checks, requests, environment, opened>>

Main == \/ Configure
        \/ PreflightDsns \/ PingBoot \/ PingApp \/ MetaPresent
        \/ MountSystemRoutes \/ Register \/ Listen

-----------------------------------------------------------------------------
(* httplib: one request is handled by one thread of its pool.                *)

Send(r) ==
    /\ phase = "serving"
    /\ at[r] = "unsent"
    /\ at' = [at EXCEPT ![r] = "waiting"]
    /\ \E in \in world.inputs : input' = [input EXCEPT ![r] = in]
    /\ past' = [past EXCEPT ![r] = {up}]
    /\ UNCHANGED <<world, main, handler, report, garbled, reply, environment, opened>>

Busy == {r \in Request : at[r] \in {"handling", "writing"}}

Matching(in) == {j \in DOMAIN routes : /\ routes[j].method = in.method
                                       /\ in.path \in routes[j].paths}

Answer(r, status, body) ==
    /\ reply' = [reply EXCEPT ![r] = [status |-> status, body |-> body]]
    /\ at' = [at EXCEPT ![r] = "writing"]

\* Variant: a thread is made for each request.
DispatchAtOnce(r) ==
    /\ phase = "serving"
    /\ at[r] = "waiting"
    /\ LET hits == Matching(input[r])
       IN /\ \E j \in hits : /\ \A l \in hits : j <= l
                             /\ handler' = [handler EXCEPT ![r] = routes[j].handler]
          /\ at' = [at EXCEPT ![r] = "handling"]
    /\ UNCHANGED <<world, main, input, report, garbled, reply, environment, past, opened>>

\* The first handler whose pattern matches; 404 if there is none.
Dispatch(r) ==
    /\ phase = "serving"
    /\ at[r] = "waiting"
    /\ Cardinality(Busy) < world.workers
    /\ LET hits == Matching(input[r])
       IN IF hits = {}
          THEN Answer(r, 404, "none") /\ UNCHANGED handler
          ELSE /\ \E j \in hits : /\ \A l \in hits : j <= l
                                  /\ handler' = [handler EXCEPT ![r] = routes[j].handler]
               /\ at' = [at EXCEPT ![r] = "handling"]
               /\ UNCHANGED reply
    /\ UNCHANGED <<world, main, input, report, garbled, environment, past, opened>>

\* Variant: the error handler is not installed.
WriteAsIs(r) ==
    /\ phase = "serving"
    /\ at[r] = "writing"
    /\ at' = [at EXCEPT ![r] = "done"]
    /\ UNCHANGED <<world, main, input, handler, report, garbled, reply, environment, past,
                   opened>>

\* The error handler replaces the body of every reply from 400 on by one with the
\* path.  It cannot write a path that is not UTF-8: dump throws, httplib runs the
\* handler outside its try, and the thread's exception ends the service.
Write(r) ==
    /\ phase = "serving"
    /\ at[r] = "writing"
    /\ LET error == reply[r].status >= 400
       IN IF error /\ input[r].path \in NotUtf8
          THEN End("terminated") /\ UNCHANGED <<cfg, routes, checks, at, reply>>
          ELSE /\ at' = [at EXCEPT ![r] = "done"]
               /\ reply' = IF error THEN [reply EXCEPT ![r].body = ErrorBody] ELSE reply
               /\ UNCHANGED main
    /\ UNCHANGED <<world, input, handler, report, garbled, environment, past, opened>>

-----------------------------------------------------------------------------
(* The handlers.                                                             *)

Handling(r, names) == phase = "serving" /\ at[r] = "handling" /\ handler[r] \in names

\* /healthz, /livez, /status, the two descriptions and /api/ping.
Simple(r) ==
    /\ Handling(r, {"ok", "status", "describe", "ping"})
    /\ Answer(r, 200, handler[r])
    /\ UNCHANGED <<world, main, input, handler, report, garbled, environment, past, opened>>

\* A PgExecutor and one query.
Connect(r, dsn) == opened' = opened \cup {<<r, dsn>>}

\* pg_dsn of the configuration, else the variable, else nothing.
ClientDsn == IF cfg.text["pg_dsn"] # "" THEN cfg.text["pg_dsn"]
             ELSE IF "pg_dsn" \in DOMAIN world.env THEN world.env["pg_dsn"] ELSE ""

CheckDsn(name) == CASE name = "postgres" -> ClientDsn
                    [] name = "postgres_bootstrap" -> cfg.text["bootstrap_dsn"]
                    [] OTHER -> cfg.text["app_dsn"]

\* The facts that a check needs; it is run without a DSN only for the structure.
Needs(name) == {CheckDsn(name)} \cup (IF name = "meta_structure" THEN {MetaSchema} ELSE {})
Connects(name) == CheckDsn(name) # "" \/ name = "meta_structure"

\* The checks that a request runs, one after the other.
ChecksOf(r) == IF handler[r] = "readyz" THEN checks
               ELSE <<Check("postgres_bootstrap", FALSE), Check("postgres_app", FALSE)>>

\* Variant: a check that fails is run again.
RunCheckAgain(r) ==
    /\ Handling(r, {"readyz", "bootstrap_check"})
    /\ Len(report[r]) < Len(ChecksOf(r))
    /\ LET name == ChecksOf(r)[Len(report[r]) + 1].name
           ok == Connects(name) /\ Needs(name) \subseteq up
       IN /\ report' = IF ok THEN [report EXCEPT ![r] = Append(@, ok)] ELSE report
          /\ IF Connects(name) THEN Connect(r, CheckDsn(name)) ELSE UNCHANGED opened
    /\ UNCHANGED <<world, main, at, input, handler, garbled, reply, environment, past>>

\* A check with its own try.  The message of a failed connection can be in the
\* encoding of the server or the system.
RunCheck(r) ==
    /\ Handling(r, {"readyz", "bootstrap_check"})
    /\ Len(report[r]) < Len(ChecksOf(r))
    /\ LET name == ChecksOf(r)[Len(report[r]) + 1].name
           ok == Connects(name) /\ Needs(name) \subseteq up
       IN /\ report' = [report EXCEPT ![r] = Append(@, ok)]
          /\ IF Connects(name) THEN Connect(r, CheckDsn(name)) ELSE UNCHANGED opened
          /\ \/ UNCHANGED garbled
             \/ /\ Connects(name) /\ CheckDsn(name) \notin up
                /\ garbled' = [garbled EXCEPT ![r] = TRUE]
    /\ UNCHANGED <<world, main, at, input, handler, reply, environment, past>>

\* Variant: every check counts as critical.
CriticalOkAll(r) == \A j \in DOMAIN report[r] : report[r][j]

CriticalOk(r) == \A j \in DOMAIN report[r] : ChecksOf(r)[j].critical => report[r][j]

\* Variant: nobody catches what dump throws.
ReportUncaught(r) ==
    /\ Handling(r, {"readyz", "bootstrap_check"})
    /\ Len(report[r]) = Len(ChecksOf(r))
    /\ IF garbled[r]
       THEN End("terminated") /\ UNCHANGED <<cfg, routes, checks, at, reply>>
       ELSE Answer(r, IF CriticalOk(r) THEN 200 ELSE 503, "checks") /\ UNCHANGED main
    /\ UNCHANGED <<world, input, handler, report, garbled, environment, past, opened>>

\* A report with a text that is not UTF-8 cannot be written as JSON: dump throws
\* and httplib, which runs handlers inside a try, answers 500.
Report(r) ==
    /\ Handling(r, {"readyz", "bootstrap_check"})
    /\ Len(report[r]) = Len(ChecksOf(r))
    /\ CASE garbled[r] -> Answer(r, 500, "none")
         [] ~garbled[r] /\ CriticalOk(r) -> Answer(r, 200, "checks")
         [] OTHER -> Answer(r, 503, "checks")
    /\ UNCHANGED <<world, main, input, handler, report, garbled, environment, past, opened>>

\* APIFacade::route, with the name that the route gives it.
Method(r) == IF handler[r] = "doc_save" THEN "doc_save" ELSE MethodOf[input[r].path]
Routed(r) == Handling(r, {"doc_save", "method"})
Acceptable(in) == in.body = "empty" \/ in.type = "json"
Parses(in) == in.body # "broken"

Unauthorized(r) ==
    /\ Routed(r)
    /\ ~input[r].token
    /\ Answer(r, 401, "unauthorized")
    /\ UNCHANGED <<world, main, input, handler, report, garbled, environment, past, opened>>

Unsupported(r) ==
    /\ Routed(r)
    /\ input[r].token /\ ~Acceptable(input[r])
    /\ Answer(r, 415, "unsupported_media_type")
    /\ UNCHANGED <<world, main, input, handler, report, garbled, environment, past, opened>>

Unparsed(r) ==
    /\ Routed(r)
    /\ input[r].token /\ Acceptable(input[r]) /\ ~Parses(input[r])
    /\ Answer(r, 400, "invalid_json")
    /\ UNCHANGED <<world, main, input, handler, report, garbled, environment, past, opened>>

\* Variant: the token is not asked for.
WellFormedAnyone(in) == Acceptable(in) /\ Parses(in)

WellFormed(in) == in.token /\ Acceptable(in) /\ Parses(in)

Echo(r) ==
    /\ Routed(r)
    /\ WellFormed(input[r]) /\ Method(r) # "db_version"
    /\ Answer(r, 200, Method(r))
    /\ UNCHANGED <<world, main, input, handler, report, garbled, environment, past, opened>>

\* GET /api/db/version, and the method db_version of the facade.  Without a DSN
\* no connection is tried; a message that cannot be written as JSON ends in a
\* 500 as well.
Version(r) ==
    /\ \/ Handling(r, {"version"})
       \/ Routed(r) /\ WellFormed(input[r]) /\ Method(r) = "db_version"
    /\ CASE ClientDsn = "" -> Answer(r, 500, "config_error") /\ UNCHANGED opened
         [] ClientDsn # "" /\ ClientDsn \in up ->
                Answer(r, 200, "postgres_version") /\ Connect(r, ClientDsn)
         [] OTHER -> Answer(r, 500, "exception") /\ Connect(r, ClientDsn)
    /\ UNCHANGED <<world, main, input, handler, report, garbled, environment, past>>

Serve(r) == \/ Dispatch(r) \/ Write(r) \/ Simple(r) \/ RunCheck(r) \/ Report(r)
            \/ Unauthorized(r) \/ Unsupported(r) \/ Unparsed(r) \/ Echo(r) \/ Version(r)

-----------------------------------------------------------------------------

\* Somebody waits for the answer to the request, or for the start.
Waits(r) == IF r = Startup THEN phase \notin {"serving", "ended"}
            ELSE at[r] \notin {"unsent", "done"}

\* A server goes down or comes back, the structure is applied.
Change ==
    /\ changes < MaxChanges
    /\ changes' = changes + 1
    /\ \E f \in Fact : up' = IF f \in up THEN up \ {f} ELSE up \cup {f}
    /\ past' = [r \in DOMAIN past |-> IF Waits(r) THEN past[r] \cup {up'} ELSE past[r]]
    /\ UNCHANGED <<world, main, at, input, handler, report, garbled, reply, opened>>

Next == Main \/ Change \/ \E r \in Request : Send(r) \/ Serve(r)

Spec == Init /\ [][Next]_vars

\* The threads run on: libpq answers or gives up, and httplib's queue is served in
\* its order.  Nobody has to send a request, and no fact has to change.
FairSpec == Spec /\ \A r \in Request : WF_vars(Serve(r))

-----------------------------------------------------------------------------

Replies == {0, 200, 400, 401, 404, 415, 500, 503}

TypeOK ==
    /\ world \in Worlds
    /\ phase \in {"configure", "dsns", "boot", "app", "meta", "mount", "register",
                  "listen", "serving", "ended"}
    /\ exit \in {"none", "0", "1", "7", "78", "terminated"}
    /\ (phase = "ended") <=> (exit # "none")
    /\ DOMAIN cfg.text = TextKeys(world.kind)
    /\ at \in [Request -> {"unsent", "waiting", "handling", "writing", "done"}]
    /\ input \in [Request -> world.inputs \cup {NoInput}]
    /\ \A r \in Request : at[r] = "handling" => \E j \in DOMAIN routes :
                                                   handler[r] = routes[j].handler
    /\ report \in [Request -> Seq(BOOLEAN)]
    /\ garbled \in [Request -> BOOLEAN]
    /\ \A r \in Request : reply[r].status \in Replies
    /\ up \subseteq Fact
    /\ changes \in 0..MaxChanges
    /\ past \in [Request \cup {Startup} -> SUBSET SUBSET Fact]
    /\ opened \subseteq (Request \cup {Startup}) \X (Dsn \cup {""})
    /\ Cardinality(Busy) <= world.workers

(* Each field of the configuration has the text of the strongest of its        *)
(* sources: a variable that is not empty, the root of the file, its section    *)
(* "admin" (ConfigLoader.cpp:33-61, AdminConfig.cpp:17-41, ClientConfig.h).   *)
ConfigFromStrongest ==
    phase \notin {"configure", "ended"} =>
        LET f == world.files[ResolvePath(world)]
            said == <<NonEmpty(world.env), Root(world.kind, f), Section(world.kind, f)>>
            Saying(k) == {n \in DOMAIN said : k \in DOMAIN said[n]}
        IN \A k \in TextKeys(world.kind) :
               \/ Saying(k) = {} /\ cfg.text[k] = ""
               \/ \E n \in Saying(k) : /\ \A l \in Saying(k) : n <= l
                                       /\ cfg.text[k] = said[n][k]

\* What held at one time while r was waited for.
Held(r, facts) == \E s \in past[r] : facts \subseteq s
Failed(r, facts) == \E s \in past[r] : ~(facts \subseteq s)

(* The exit code tells why the admin service did not start, and a service that *)
(* starts has found what it needs, although servers come and go meanwhile      *)
(* ("0=OK, 7=connect error, 78=config/state", AdminPreflight.h:7).             *)
ExitTellsWhy ==
    LET boot == cfg.text["bootstrap_dsn"]
        app == cfg.text["app_dsn"]
    IN /\ phase = "serving" => cfg.port \in 1..MaxPort
       /\ exit = "78" => "" \in {boot, app} \/ Failed(Startup, {MetaSchema})
       /\ exit = "7" => Failed(Startup, {boot, app})
       /\ (phase = "serving" /\ world.kind = "admin") =>
              Held(Startup, {boot}) /\ Held(Startup, {app, MetaSchema})

(* No connection is ever opened with an empty text, for which libpq would take *)
(* the server of its own defaults: the check meta_structure does not test its  *)
(* DSN and relies on Preflight (AdminRoutes.cpp:53, AdminPreflight.cpp:19-26). *)
NoDefaultConnection == \A o \in opened : o[2] # ""

\* What a client may rely on: the system routes and the paths of "describe".
API == {<<"GET", p>> : p \in {"/healthz", "/livez", "/readyz", "/status"}}
       \cup (IF world.kind = "admin"
             THEN {<<"GET", "/admin/describe">>, <<"POST", "/admin/bootstrap/check">>}
             ELSE {<<"GET", p>> : p \in {"/api/describe", "/api/ping", "/api/db/version"}}
                  \cup {<<"POST", p>> : p \in DOMAIN MethodOf})

(* A request for something the service has is never answered with 404: the     *)
(* routes are complete before the first request (MSG5_Admin.cpp:64-70).        *)
NotFoundMeansUnknown ==
    \A r \in Request : reply[r].status = 404 => <<input[r].method, input[r].path>> \notin API

(* POST /api/v1/documents saves a document although the route with the name in *)
(* its path matches as well (ClientRoutes.cpp:51,77).                          *)
DocumentsReachDocSave ==
    \A r \in Request :
        (input[r].path = "/api/v1/documents" /\ reply[r].status = 200)
            => reply[r].body = "doc_save"

(* The answer of /readyz is true, while servers come and go and other requests *)
(* are checked at the same time: 200 means that each critical check held, 503  *)
(* that one failed, 500 that some check failed; and a check that is reported   *)
(* as ok did hold, all of it at a time between question and answer             *)
(* (HttpServer.cpp:74-96).                                                     *)
ReadyIsTrue ==
    \A r \in Request :
        (at[r] = "done" /\ handler[r] = "readyz") =>
            LET Bad(j) == CheckDsn(checks[j].name) = "" \/ Failed(r, Needs(checks[j].name))
                critical == {j \in DOMAIN checks : checks[j].critical}
            IN /\ \A j \in DOMAIN checks : report[r][j] => Held(r, Needs(checks[j].name))
               /\ \/ reply[r].status = 200 /\ \A j \in critical : report[r][j]
                  \/ reply[r].status = 503 /\ \E j \in critical : Bad(j)
                  \/ reply[r].status = 500 /\ \E j \in DOMAIN checks : Bad(j)

(* The facade goes to the database only for a request with a token, a body it  *)
(* understands and a method that needs it (APIFacade.cpp:14-88).               *)
DatabaseOnlyWithToken ==
    \A r \in Request :
        (input[r].path \in DOMAIN MethodOf /\ \E d \in Dsn : <<r, d>> \in opened)
            => /\ input[r].token /\ Acceptable(input[r]) /\ Parses(input[r])
               /\ MethodOf[input[r].path] = "db_version"

(* Whatever a handler has said, a reply that is written and has a status from  *)
(* 400 on has the one error body, and no other reply has it                    *)
(* (HttpServer.cpp:51-60).  Of the reply that ends the service nothing is said *)
(* here: OnlyPathsEndService and ErrorsAreAnswered are about it.               *)
ErrorsAreUniform ==
    \A r \in Request : at[r] = "done" =>
        /\ reply[r].status # 0
        /\ reply[r].status >= 400 <=> reply[r].body = ErrorBody

(* A service that has its configuration is ended by nothing but an error that  *)
(* the error handler cannot write: not by a server that goes away under a      *)
(* check, nor by a report or a message that cannot be written as JSON, which   *)
(* are thrown inside httplib's try (HttpServer.cpp:52-60,79-96,                *)
(* AdminRoutes.cpp:97-106, APIFacade.cpp:88-104).                              *)
OnlyPathsEndService ==
    (exit = "terminated" /\ Configures(world)) =>
        \E r \in Request : /\ at[r] = "writing" /\ reply[r].status >= 400
                           /\ input[r].path \in NotUtf8

(* Every request is answered, also when it waits for a thread that runs the    *)
(* checks of another, unless the service is ended by an exception meanwhile.   *)
Answered == \A r \in Request : at[r] = "waiting" ~> (at[r] = "done" \/ exit = "terminated")

(* What the comment of the error handler promises, "one JSON answer for        *)
(* 404/500 and so on" (HttpServer.cpp:51): a request that ends in an error     *)
(* gets that answer.  The code does not keep it: an error on a path that is    *)
(* not UTF-8 ends the service, and every request that waits is left without an *)
(* answer.                                                                     *)
ErrorsAreAnswered ==
    \A r \in Request : (at[r] = "writing" /\ reply[r].status >= 400)
                           ~> (at[r] = "done" /\ reply[r].body = ErrorBody)
=============================================================================
