---------------------------- MODULE ServiceProofs ----------------------------
(***************************************************************************)
(* Proofs about Services, for any worlds, connection strings, methods,       *)
(* requests, threads and changes.  The inductive invariant SvInv says what   *)
(* main has found and put in place when it is at a phase (MainInv, StartInv), *)
(* what is known of each request from the handler it went to (RequestInv),   *)
(* and who has opened a connection (OpenedInv).                              *)
(***************************************************************************)
EXTENDS Services, FiniteSetTheorems, TLAPS

Phases == {"configure", "dsns", "boot", "app", "meta", "mount", "register", "listen",
           "serving", "ended"}
Exits == {"none", "0", "1", "7", "78", "terminated"}
Places == {"unsent", "waiting", "handling", "writing", "done"}
Bodies == {"none", "ok", "status", "describe", "ping", "checks", "unauthorized",
           "unsupported_media_type", "invalid_json", "config_error", "postgres_version",
           "exception", "doc_save", ErrorBody} \cup {MethodOf[p] : p \in DOMAIN MethodOf}
Unpreflighted == {"configure", "dsns", "boot", "app", "meta", "mount"}
Up == {"mount", "register", "listen", "serving"}

AllRoutes == SystemRoutes \o (IF world.kind = "admin" THEN AdminRoutes ELSE ClientRoutes)
AllChecks == IF world.kind = "admin" THEN AdminChecks ELSE ClientChecks
Handlers == {"none", "ok", "readyz", "status", "describe"}
            \cup (IF world.kind = "admin" THEN {"bootstrap_check"}
                  ELSE {"doc_save", "ping", "version", "method"})

Types == /\ at \in [Request -> Places]
         /\ input \in [Request -> world.inputs \cup {NoInput}]
         /\ handler \in [Request -> Handlers]
         /\ report \in [Request -> Seq(BOOLEAN)]
         /\ garbled \in [Request -> BOOLEAN]
         /\ reply \in [Request -> [status : Replies, body : Bodies]]
         /\ up \subseteq Fact
         /\ changes \in 0..MaxChanges
         /\ past \in [Request \cup {Startup} -> SUBSET SUBSET Fact]

MainInv ==
    /\ world \in Worlds
    /\ phase \in Phases
    /\ exit \in Exits
    /\ (phase = "ended") <=> (exit # "none")
    /\ DOMAIN cfg.text = TextKeys(world.kind)
    /\ phase \in {"dsns", "boot", "app", "meta"} => world.kind = "admin"
    /\ phase \notin {"configure", "ended"} => Configures(world) /\ cfg = ConfigOf(world)
    /\ (phase \in {"boot", "app", "meta"} \/ (phase \in Up /\ world.kind = "admin")) =>
           cfg.text["bootstrap_dsn"] # "" /\ cfg.text["app_dsn"] # ""
    /\ phase \in Unpreflighted => routes = <<>> /\ checks = <<>>
    /\ phase = "register" => routes = SystemRoutes /\ checks = <<>>
    /\ phase \in {"listen", "serving"} => routes = AllRoutes /\ checks = AllChecks

StartInv ==
    LET boot == cfg.text["bootstrap_dsn"]
        app == cfg.text["app_dsn"]
    IN /\ phase \notin {"serving", "ended"} => up \in past[Startup]
       /\ exit = "78" => "" \in {boot, app} \/ Failed(Startup, {MetaSchema})
       /\ exit = "7" => Failed(Startup, {boot, app})
       /\ (phase \in {"app", "meta"} \/ (phase \in Up /\ world.kind = "admin")) =>
              Held(Startup, {boot})
       /\ (phase \in Up /\ world.kind = "admin") => Held(Startup, {app, MetaSchema})

\* What a handler knows of the request it was given.
HandlerFits(r) ==
    /\ at[r] = "handling" => \E j \in DOMAIN routes : handler[r] = routes[j].handler
    /\ at[r] \in {"unsent", "waiting"} => handler[r] = "none"
    /\ handler[r] \in {"ok", "status", "describe", "ping"} => input[r].path # "/api/v1/documents"
    /\ handler[r] = "readyz" => input[r].path = "/readyz"
    /\ handler[r] = "bootstrap_check" => input[r].path = "/admin/bootstrap/check"
    /\ handler[r] = "version" => input[r].path = "/api/db/version"
    /\ handler[r] = "doc_save" => input[r].path = "/api/v1/documents"
    /\ handler[r] = "method" => input[r].path \in DOMAIN MethodOf \ {"/api/v1/documents"}

Bad(r, name) == CheckDsn(name) = "" \/ Failed(r, Needs(name))

\* The checks that were run for a request, and what they saw.
Reported(r) ==
    /\ at[r] \in {"unsent", "waiting"} => report[r] = <<>> /\ ~garbled[r]
    /\ Len(report[r]) <= Len(ChecksOf(r)) \/ report[r] = <<>>
    /\ \A j \in DOMAIN report[r] : IF report[r][j] THEN Held(r, Needs(ChecksOf(r)[j].name))
                                   ELSE Bad(r, ChecksOf(r)[j].name)
    /\ garbled[r] => \E j \in DOMAIN report[r] : Failed(r, Needs(ChecksOf(r)[j].name))

\* /readyz was answered by its checks.
Ready(r) ==
    LET critical == {j \in DOMAIN checks : checks[j].critical}
    IN /\ DOMAIN report[r] = DOMAIN checks
       /\ \/ reply[r].status = 200 /\ \A j \in critical : report[r][j]
          \/ reply[r].status = 503 /\ \E j \in critical : ~report[r][j]
          \/ reply[r].status = 500 /\ garbled[r]

Replied(r) ==
    /\ at[r] \in {"unsent", "waiting", "handling"} => reply[r] = NoReply
    /\ reply[r].status = 404 => <<input[r].method, input[r].path>> \notin API
    /\ (input[r].path = "/api/v1/documents" /\ reply[r].status = 200) => reply[r].body = "doc_save"
    /\ at[r] = "writing" => reply[r].status # 0
                            /\ (reply[r].status < 400 => reply[r].body # ErrorBody)
    /\ at[r] = "done" => reply[r].status # 0
                         /\ (reply[r].status >= 400 <=> reply[r].body = ErrorBody)
    /\ (at[r] \in {"writing", "done"} /\ handler[r] = "readyz") => Ready(r)

RequestInv(r) ==
    /\ at[r] # "unsent" => phase \in {"serving", "ended"}
    /\ at[r] \in {"waiting", "handling", "writing"} => up \in past[r]
    /\ HandlerFits(r)
    /\ Reported(r)
    /\ Replied(r)

OpenedInv ==
    /\ opened \subseteq (Request \cup {Startup}) \X Dsn
    /\ \A r \in Request, d \in Dsn : <<r, d>> \in opened =>
           /\ at[r] \notin {"unsent", "waiting"}
           /\ input[r].path \in DOMAIN MethodOf =>
                  WellFormed(input[r]) /\ MethodOf[input[r].path] = "db_version"

ThreadsInv == IsFiniteSet(Busy) /\ Cardinality(Busy) <= world.workers

SvInv == /\ Types
         /\ MainInv
         /\ StartInv
         /\ \A r \in Request : RequestInv(r)
         /\ OpenedInv
         /\ ThreadsInv

-----------------------------------------------------------------------------
(* The tables.                                                               *)

Is(route, method, paths, name) ==
    route.method = method /\ route.paths = paths /\ route.handler = name

LEMMA AdminTable ==
    LET table == SystemRoutes \o AdminRoutes
    IN /\ DOMAIN table = 1..6
       /\ Is(table[1], "GET", {"/healthz"}, "ok")
       /\ Is(table[2], "GET", {"/livez"}, "ok")
       /\ Is(table[3], "GET", {"/readyz"}, "readyz")
       /\ Is(table[4], "GET", {"/status"}, "status")
       /\ Is(table[5], "GET", {"/admin/describe"}, "describe")
       /\ Is(table[6], "POST", {"/admin/bootstrap/check"}, "bootstrap_check")
BY DEF SystemRoutes, AdminRoutes, Route, Is

LEMMA ClientTable ==
    LET table == SystemRoutes \o ClientRoutes
    IN /\ DOMAIN table = 1..9
       /\ Is(table[1], "GET", {"/healthz"}, "ok")
       /\ Is(table[2], "GET", {"/livez"}, "ok")
       /\ Is(table[3], "GET", {"/readyz"}, "readyz")
       /\ Is(table[4], "GET", {"/status"}, "status")
       /\ Is(table[5], "GET", {"/api/describe"}, "describe")
       /\ Is(table[6], "POST", {"/api/v1/documents"}, "doc_save")
       /\ Is(table[7], "GET", {"/api/ping"}, "ping")
       /\ Is(table[8], "GET", {"/api/db/version"}, "version")
       /\ Is(table[9], "POST", DOMAIN MethodOf, "method")
BY DEF SystemRoutes, ClientRoutes, Route, Is

LEMMA Concatenated == /\ <<>> \o SystemRoutes = SystemRoutes
                      /\ <<>> \o AdminChecks = AdminChecks
                      /\ <<>> \o ClientChecks = ClientChecks
BY DEF SystemRoutes, AdminChecks, ClientChecks

LEMMA Kinds == ASSUME world \in Worlds
               PROVE  /\ world.kind \in {"admin", "client"}
                      /\ world.workers \in Nat \ {0}
BY WorldAssumption

LEMMA ConfigDomain == ASSUME NEW w PROVE DOMAIN ConfigOf(w).text = TextKeys(w.kind)
BY DEF ConfigOf, ApplyEnvOverrides, FromJson, Overlay

-----------------------------------------------------------------------------
(* The start.                                                                *)

LEMMA InitHolds == Init => SvInv
<1> SUFFICES ASSUME Init PROVE SvInv
    OBVIOUS
<1>0. /\ world \in Worlds /\ changes = 0 /\ up \in Ups
      /\ report = [r \in Request |-> <<>>] /\ garbled = [r \in Request |-> FALSE]
      /\ past = [r \in Request \cup {Startup} |-> IF r = Startup THEN {up} ELSE {}]
    BY Zenon DEF Init
<1>1. Types
    <2>1. at \in [Request -> Places] /\ handler \in [Request -> Handlers]
        BY DEF Init, Places, Handlers
    <2>2. input \in [Request -> world.inputs \cup {NoInput}]
        BY DEF Init
    <2>3. report \in [Request -> Seq(BOOLEAN)]
        BY <1>0
    <2>8. garbled \in [Request -> BOOLEAN]
        BY <1>0, Zenon
    <2>4. NoReply \in [status : Replies, body : Bodies]
        BY DEF NoReply, Replies, Bodies
    <2>5. reply \in [Request -> [status : Replies, body : Bodies]]
        BY <2>4 DEF Init
    <2>6. up \subseteq Fact /\ changes \in 0..MaxChanges
        BY <1>0, UpsAssumption, BoundAssumption
    <2>7. past \in [Request \cup {Startup} -> SUBSET SUBSET Fact]
        <3>1. {up} \in SUBSET SUBSET Fact /\ {} \in SUBSET SUBSET Fact
            BY <2>6
        <3> QED BY <1>0, <3>1
    <2> QED BY <2>1, <2>2, <2>3, <2>5, <2>6, <2>7, <2>8 DEF Types
<1>2. MainInv
    BY DEF Init, MainInv, Phases, Exits, Unpreflighted, Up
<1>3. StartInv
    BY DEF Init, StartInv, Up
<1>4. \A r \in Request : RequestInv(r)
    <2> SUFFICES ASSUME NEW r \in Request PROVE RequestInv(r)
        OBVIOUS
    <2>1. /\ at[r] = "unsent" /\ handler[r] = "none" /\ report[r] = <<>> /\ ~garbled[r]
          /\ reply[r].status = 0 /\ reply[r] = NoReply
        BY DEF Init, NoReply
    <2> QED BY <2>1 DEF RequestInv, HandlerFits, Reported, Replied
<1>5. OpenedInv
    BY DEF Init, OpenedInv
<1>6. ThreadsInv
    <2>1. Busy = {}
        BY DEF Init, Busy
    <2>2. world.workers \in Nat \ {0}
        BY Kinds DEF Init
    <2>3. IsFiniteSet({}) /\ Cardinality({}) = 0
        BY FS_EmptySet
    <2> QED BY <2>1, <2>2, <2>3 DEF ThreadsInv
<1> QED BY <1>1, <1>2, <1>3, <1>4, <1>5, <1>6 DEF SvInv

\* Before the service listens there is no request.
LEMMA AtRest ==
    ASSUME SvInv, phase \notin {"serving", "ended"},
           UNCHANGED <<world, requests, environment>>,
           \/ UNCHANGED opened
           \/ \E d \in Dsn : opened' = opened \cup {<<Startup, d>>}
    PROVE  Types' /\ (\A r \in Request : RequestInv(r)') /\ OpenedInv' /\ ThreadsInv'
<1> USE DEF requests, environment
<1>1. \A r \in Request : at[r] = "unsent"
    BY DEF SvInv, RequestInv
<1>2. Types'
    BY DEF SvInv, Types, Handlers
<1>3. ASSUME NEW r \in Request PROVE RequestInv(r)'
    <2>1. RequestInv(r)
        BY DEF SvInv
    <2>2. at[r] = "unsent"
        BY <1>1
    <2>3. /\ at'[r] = "unsent" /\ handler'[r] = "none" /\ report'[r] = <<>> /\ ~garbled'[r]
          /\ reply'[r].status = 0 /\ reply'[r] = NoReply
        BY <2>1, <2>2 DEF RequestInv, HandlerFits, Reported, Replied, NoReply
    <2> QED BY <2>3 DEF RequestInv, HandlerFits, Reported, Replied
<1>4. OpenedInv'
    BY RequestAssumption DEF SvInv, OpenedInv, WellFormed, Acceptable, Parses
<1>5. ThreadsInv'
    BY DEF SvInv, ThreadsInv, Busy
<1> QED BY <1>2, <1>3, <1>4, <1>5

LEMMA ConfigureKeeps == ASSUME SvInv, Configure PROVE SvInv'
<1> USE DEF Configure, GoTo, End
<1>1. Types' /\ (\A r \in Request : RequestInv(r)') /\ OpenedInv' /\ ThreadsInv'
    BY AtRest
<1>2. MainInv'
    BY Kinds, ConfigDomain DEF SvInv, MainInv, Phases, Exits, Unpreflighted, Up
<1>3. StartInv'
    BY Kinds DEF SvInv, MainInv, StartInv, Up, requests, environment
<1> QED BY <1>1, <1>2, <1>3 DEF SvInv

LEMMA PreflightDsnsKeeps == ASSUME SvInv, PreflightDsns PROVE SvInv'
<1> USE DEF PreflightDsns, GoTo, End
<1>1. Types' /\ (\A r \in Request : RequestInv(r)') /\ OpenedInv' /\ ThreadsInv'
    BY AtRest
<1>2. MainInv'
    BY DEF SvInv, MainInv, Phases, Exits, Unpreflighted, Up
<1>3. StartInv'
    BY DEF SvInv, MainInv, StartInv, Up, requests, environment, Failed
<1> QED BY <1>1, <1>2, <1>3 DEF SvInv

\* What the two pings and the look for the structure have in common.
LEMMA QueryKeeps ==
    ASSUME SvInv, phase \in {"boot", "app", "meta"},
           UNCHANGED <<world, cfg, routes, checks, requests, environment>>,
           NEW k \in {"bootstrap_dsn", "app_dsn"},
           opened' = opened \cup {<<Startup, cfg.text[k]>>}
    PROVE  Types' /\ (\A r \in Request : RequestInv(r)') /\ OpenedInv' /\ ThreadsInv'
<1>1. world \in Worlds /\ world.kind = "admin" /\ Configures(world) /\ cfg = ConfigOf(world)
    BY DEF SvInv, MainInv
<1>2. cfg.text[k] \in Dsn \cup {""}
    BY <1>1, DsnsAssumption DEF TextKeys
<1>3. cfg.text[k] # ""
    BY DEF SvInv, MainInv
<1> QED BY <1>2, <1>3, AtRest

LEMMA PingBootKeeps == ASSUME SvInv, PingBoot PROVE SvInv'
<1> USE DEF PingBoot, Ping, GoTo, End
<1>1. Types' /\ (\A r \in Request : RequestInv(r)') /\ OpenedInv' /\ ThreadsInv'
    BY QueryKeeps
<1>2. MainInv'
    BY DEF SvInv, MainInv, Phases, Exits, Unpreflighted, Up
<1>3. StartInv'
    BY DEF SvInv, MainInv, StartInv, Up, requests, environment, Failed, Held
<1> QED BY <1>1, <1>2, <1>3 DEF SvInv

LEMMA PingAppKeeps == ASSUME SvInv, PingApp PROVE SvInv'
<1> USE DEF PingApp, Ping, GoTo, End
<1>1. Types' /\ (\A r \in Request : RequestInv(r)') /\ OpenedInv' /\ ThreadsInv'
    BY QueryKeeps
<1>2. MainInv'
    BY DEF SvInv, MainInv, Phases, Exits, Unpreflighted, Up
<1>3. StartInv'
    BY DEF SvInv, MainInv, StartInv, Up, requests, environment, Failed, Held
<1> QED BY <1>1, <1>2, <1>3 DEF SvInv

LEMMA MetaPresentKeeps == ASSUME SvInv, MetaPresent PROVE SvInv'
<1> USE DEF MetaPresent, GoTo, End
<1>1. Types' /\ (\A r \in Request : RequestInv(r)') /\ OpenedInv' /\ ThreadsInv'
    BY QueryKeeps
<1>2. MainInv'
    BY DEF SvInv, MainInv, Phases, Exits, Unpreflighted, Up
<1>3. StartInv'
    <2>1. /\ phase = "meta" /\ exit = "none" /\ up \in past[Startup] /\ Held(Startup, {cfg.text["bootstrap_dsn"]})
          /\ UNCHANGED <<world, cfg, past, up>>
        BY DEF SvInv, MainInv, StartInv, requests, environment
    <2>2. CASE cfg.text["app_dsn"] \notin up
        BY <2>1, <2>2 DEF StartInv, Up, Failed
    <2>3. CASE cfg.text["app_dsn"] \in up /\ MetaSchema \notin up
        BY <2>1, <2>3 DEF StartInv, Up, Failed
    <2>4. CASE cfg.text["app_dsn"] \in up /\ MetaSchema \in up
        <3>1. Held(Startup, {cfg.text["app_dsn"], MetaSchema})
            BY <2>1, <2>4 DEF Held
        <3> QED BY <2>1, <2>4, <3>1 DEF StartInv, Held
    <2> QED BY <2>2, <2>3, <2>4
<1> QED BY <1>1, <1>2, <1>3 DEF SvInv

LEMMA MountKeeps == ASSUME SvInv, MountSystemRoutes PROVE SvInv'
<1> USE DEF MountSystemRoutes, GoTo, End
<1>1. Types' /\ (\A r \in Request : RequestInv(r)') /\ OpenedInv' /\ ThreadsInv'
    BY AtRest
<1>2. MainInv'
    BY Concatenated DEF SvInv, MainInv, Phases, Exits, Unpreflighted, Up
<1>3. StartInv'
    BY DEF SvInv, MainInv, StartInv, Up, requests, environment, Failed, Held
<1> QED BY <1>1, <1>2, <1>3 DEF SvInv

LEMMA RegisterKeeps == ASSUME SvInv, Register PROVE SvInv'
<1> USE DEF Register, GoTo, End
<1>1. Types' /\ (\A r \in Request : RequestInv(r)') /\ OpenedInv' /\ ThreadsInv'
    BY AtRest
<1>2. MainInv'
    BY Concatenated DEF SvInv, MainInv, Phases, Exits, Unpreflighted, Up, AllRoutes, AllChecks
<1>3. StartInv'
    BY DEF SvInv, MainInv, StartInv, Up, requests, environment, Failed, Held
<1> QED BY <1>1, <1>2, <1>3 DEF SvInv

LEMMA ListenKeeps == ASSUME SvInv, Listen PROVE SvInv'
<1> USE DEF Listen, GoTo, End
<1>1. Types' /\ (\A r \in Request : RequestInv(r)') /\ OpenedInv' /\ ThreadsInv'
    BY AtRest
<1>2. MainInv'
    BY DEF SvInv, MainInv, Phases, Exits, Unpreflighted, Up, AllRoutes, AllChecks
<1>3. StartInv'
    BY DEF SvInv, MainInv, StartInv, Up, requests, environment, Failed, Held
<1> QED BY <1>1, <1>2, <1>3 DEF SvInv

-----------------------------------------------------------------------------
(* What a step on one request leaves alone.                                  *)

LEMMA StillMain ==
    ASSUME SvInv, UNCHANGED <<world, main, environment>>, past'[Startup] = past[Startup]
    PROVE  MainInv' /\ StartInv'
<1> USE DEF main, environment
<1>1. MainInv'
    BY DEF SvInv, MainInv, AllRoutes, AllChecks
<1>2. StartInv'
    BY DEF SvInv, StartInv, Held, Failed
<1> QED BY <1>1, <1>2

\* Nothing that an invariant says of q changes, except that time goes on and that
\* the service may end.
Leaves(q) ==
    /\ UNCHANGED <<world, cfg, routes, checks>>
    /\ phase' \in {phase, "ended"}
    /\ at'[q] = at[q] /\ input'[q] = input[q] /\ handler'[q] = handler[q]
    /\ report'[q] = report[q] /\ garbled'[q] = garbled[q] /\ reply'[q] = reply[q]
    /\ past[q] \subseteq past'[q]
    /\ at[q] \in {"waiting", "handling", "writing"} => up' \in past'[q]

LEMMA NeedsStay ==
    ASSUME UNCHANGED <<world, cfg>>, NEW name
    PROVE  CheckDsn(name)' = CheckDsn(name) /\ Needs(name)' = Needs(name)
BY DEF CheckDsn, ClientDsn, Needs

LEMMA LeavesKeeps ==
    ASSUME NEW q \in Request, RequestInv(q), Leaves(q)
    PROVE  RequestInv(q)'
<1>1. /\ at'[q] = at[q] /\ input'[q] = input[q] /\ handler'[q] = handler[q]
      /\ report'[q] = report[q] /\ garbled'[q] = garbled[q] /\ reply'[q] = reply[q]
      /\ UNCHANGED <<world, cfg, routes, checks>>
    BY DEF Leaves
<1>2. ChecksOf(q)' = ChecksOf(q)
    BY <1>1 DEF ChecksOf
<1>5. HandlerFits(q)'
    BY <1>1 DEF RequestInv, HandlerFits
<1>6. Reported(q)'
    <2>1. \A name : Needs(name)' = Needs(name) /\ CheckDsn(name)' = CheckDsn(name)
        BY <1>1, NeedsStay
    <2>2. past[q] \subseteq past'[q]
        BY DEF Leaves
    <2>3. Reported(q)
        BY DEF RequestInv
    <2> QED BY <1>1, <1>2, <2>1, <2>2, <2>3 DEF Reported, Held, Failed, Bad
<1>7. Replied(q)'
    BY <1>1 DEF RequestInv, Replied, Ready, API
<1> QED BY <1>1, <1>5, <1>6, <1>7 DEF RequestInv, Leaves

\* A step on request r that opens no connection.
LEMMA OpenedStays ==
    ASSUME SvInv, NEW r \in Request, UNCHANGED <<opened, world>>,
           \A q \in Request \ {r} : at'[q] = at[q] /\ input'[q] = input[q],
           at[r] \in {"unsent", "waiting"} \/ (input'[r] = input[r] /\ at'[r] \notin {"unsent", "waiting"})
    PROVE  OpenedInv'
<1> SUFFICES ASSUME NEW q \in Request, NEW d \in Dsn, <<q, d>> \in opened
             PROVE  /\ at'[q] \notin {"unsent", "waiting"}
                    /\ input'[q].path \in DOMAIN MethodOf =>
                           WellFormed(input'[q]) /\ MethodOf[input'[q].path] = "db_version"
    BY DEF SvInv, OpenedInv, WellFormed, Acceptable, Parses
<1>1. /\ at[q] \notin {"unsent", "waiting"}
      /\ input[q].path \in DOMAIN MethodOf =>
             WellFormed(input[q]) /\ MethodOf[input[q].path] = "db_version"
    BY DEF SvInv, OpenedInv
<1> QED BY <1>1

-----------------------------------------------------------------------------
(* The environment and httplib.                                              *)

LEMMA ChangeKeeps == ASSUME SvInv, Change PROVE SvInv'
<1> USE DEF Change
<1>0. UNCHANGED <<world, phase, exit, cfg, routes, checks, at, input, handler, report, garbled,
                  reply, opened>>
    BY DEF main
<1>1. up' \subseteq Fact /\ changes' \in 0..MaxChanges
    BY BoundAssumption DEF SvInv, Types
<1>2. /\ past' \in [Request \cup {Startup} -> SUBSET SUBSET Fact]
      /\ \A r \in Request \cup {Startup} :
             past[r] \subseteq past'[r] /\ (Waits(r) => up' \in past'[r])
    BY <1>1 DEF SvInv, Types
<1>3. Types'
    BY <1>0, <1>1, <1>2 DEF SvInv, Types, Handlers
<1>4. MainInv'
    BY <1>0 DEF SvInv, MainInv, AllRoutes, AllChecks
<1>5. StartInv'
    BY <1>0, <1>2 DEF SvInv, StartInv, Held, Failed, Waits
<1>6. ASSUME NEW r \in Request PROVE RequestInv(r)'
    <2>1. Leaves(r)
        BY <1>0, <1>2, RequestAssumption DEF Leaves, Waits
    <2> QED BY <2>1, LeavesKeeps DEF SvInv
<1>7. OpenedInv'
    BY <1>0 DEF SvInv, OpenedInv
<1>8. ThreadsInv'
    BY <1>0 DEF SvInv, ThreadsInv, Busy
<1> QED BY <1>3, <1>4, <1>5, <1>6, <1>7, <1>8 DEF SvInv

LEMMA SendKeeps == ASSUME SvInv, NEW r \in Request, Send(r) PROVE SvInv'
<1> USE DEF Send
<1>0. /\ UNCHANGED <<world, main, environment, handler, report, garbled, reply, opened>>
      /\ \A q \in Request \ {r} : at'[q] = at[q] /\ input'[q] = input[q] /\ past'[q] = past[q]
      /\ past'[Startup] = past[Startup]
      /\ at'[r] = "waiting" /\ past'[r] = {up} /\ phase = "serving" /\ at[r] = "unsent"
    BY RequestAssumption DEF SvInv, Types
<1>1. Types'
    BY <1>0 DEF SvInv, Types, Handlers, Places, main, environment
<1>2. MainInv' /\ StartInv'
    BY <1>0, StillMain
<1>3. RequestInv(r)'
    <2>1. RequestInv(r)
        BY DEF SvInv
    <2>2. /\ handler'[r] = "none" /\ report'[r] = <<>> /\ ~garbled'[r]
          /\ reply'[r].status = 0 /\ reply'[r] = NoReply
        BY <1>0, <2>1 DEF RequestInv, HandlerFits, Reported, Replied, NoReply
    <2> QED BY <1>0, <2>2 DEF RequestInv, HandlerFits, Reported, Replied, main, environment
<1>4. ASSUME NEW q \in Request \ {r} PROVE RequestInv(q)'
    <2>1. Leaves(q)
        BY <1>0 DEF Leaves, SvInv, RequestInv, main, environment
    <2> QED BY <2>1, LeavesKeeps DEF SvInv
<1>5. OpenedInv'
    BY <1>0, OpenedStays
<1>6. ThreadsInv'
    <2>1. Busy' = Busy
        BY <1>0 DEF Busy
    <2> QED BY <1>0, <2>1 DEF SvInv, ThreadsInv
<1> QED BY <1>1, <1>2, <1>3, <1>4, <1>5, <1>6 DEF SvInv

\* The first route that matches, seen from the request.
LEMMA FirstMatch ==
    ASSUME world.kind \in {"admin", "client"}, routes = AllRoutes, NEW in,
           NEW j \in Matching(in), \A l \in Matching(in) : j <= l
    PROVE  LET name == routes[j].handler
           IN /\ j \in DOMAIN routes
              /\ name \in Handlers \ {"none"}
              /\ name \in {"ok", "status", "describe", "ping"} => in.path # "/api/v1/documents"
              /\ name = "readyz" => in.path = "/readyz"
              /\ name = "bootstrap_check" => in.path = "/admin/bootstrap/check"
              /\ name = "version" => in.path = "/api/db/version"
              /\ name = "doc_save" => in.path = "/api/v1/documents"
              /\ name = "method" => in.path \in DOMAIN MethodOf \ {"/api/v1/documents"}
<1> DEFINE name == routes[j].handler
<1>0. j \in DOMAIN routes /\ routes[j].method = in.method /\ in.path \in routes[j].paths
    BY DEF Matching
<1>1. CASE world.kind = "admin"
    <2>1. routes = SystemRoutes \o AdminRoutes
        BY <1>1 DEF AllRoutes
    <2>2. j \in {1, 2, 3, 4, 5, 6}
        BY <1>0, <2>1, AdminTable
    <2>3. \/ Is(routes[j], "GET", {"/healthz"}, "ok") \/ Is(routes[j], "GET", {"/livez"}, "ok")
          \/ Is(routes[j], "GET", {"/readyz"}, "readyz")
          \/ Is(routes[j], "GET", {"/status"}, "status")
          \/ Is(routes[j], "GET", {"/admin/describe"}, "describe")
          \/ Is(routes[j], "POST", {"/admin/bootstrap/check"}, "bootstrap_check")
        BY <2>1, <2>2, AdminTable
    <2>4. \/ name = "ok" /\ in.path \in {"/healthz", "/livez"}
          \/ name = "readyz" /\ in.path = "/readyz"
          \/ name = "status" /\ in.path = "/status"
          \/ name = "describe" /\ in.path = "/admin/describe"
          \/ name = "bootstrap_check" /\ in.path = "/admin/bootstrap/check"
        BY <1>0, <2>3 DEF Is
    <2> HIDE DEF name
    <2>5. name \in Handlers \ {"none"}
        BY <1>1, <2>4 DEF Handlers
    <2> QED BY <1>0, <2>4, <2>5 DEF name
<1>2. CASE world.kind = "client"
    <2>1. routes = SystemRoutes \o ClientRoutes
        BY <1>2 DEF AllRoutes
    <2>2. j \in {1, 2, 3, 4, 5, 6, 7, 8, 9}
        BY <1>0, <2>1, ClientTable
    <2>3. ASSUME j = 9 PROVE in.path # "/api/v1/documents"
        <3>1. SUFFICES ASSUME in.path = "/api/v1/documents" PROVE FALSE
            OBVIOUS
        <3>2. 6 \in DOMAIN routes /\ routes[6].method = in.method /\ in.path \in routes[6].paths
            BY <1>0, <2>1, <2>3, <3>1, ClientTable DEF Is
        <3> QED BY <2>3, <3>2 DEF Matching
    <2>4. \/ Is(routes[j], "GET", {"/healthz"}, "ok") \/ Is(routes[j], "GET", {"/livez"}, "ok")
          \/ Is(routes[j], "GET", {"/readyz"}, "readyz")
          \/ Is(routes[j], "GET", {"/status"}, "status")
          \/ Is(routes[j], "GET", {"/api/describe"}, "describe")
          \/ Is(routes[j], "POST", {"/api/v1/documents"}, "doc_save")
          \/ Is(routes[j], "GET", {"/api/ping"}, "ping")
          \/ Is(routes[j], "GET", {"/api/db/version"}, "version")
          \/ j = 9 /\ Is(routes[j], "POST", DOMAIN MethodOf, "method")
        BY <2>1, <2>2, ClientTable
    <2>5. \/ name = "ok" /\ in.path \in {"/healthz", "/livez"}
          \/ name = "readyz" /\ in.path = "/readyz"
          \/ name = "status" /\ in.path = "/status"
          \/ name = "describe" /\ in.path = "/api/describe"
          \/ name = "ping" /\ in.path = "/api/ping"
          \/ name = "version" /\ in.path = "/api/db/version"
          \/ name = "doc_save" /\ in.path = "/api/v1/documents"
          \/ name = "method" /\ in.path \in DOMAIN MethodOf \ {"/api/v1/documents"}
        BY <1>0, <2>3, <2>4 DEF Is
    <2> HIDE DEF name
    <2>6. name \in Handlers \ {"none"}
        BY <1>2, <2>5 DEF Handlers
    <2> QED BY <1>0, <2>5, <2>6 DEF name
<1> QED BY <1>1, <1>2

LEMMA NoMatch ==
    ASSUME world.kind \in {"admin", "client"}, routes = AllRoutes, NEW in, Matching(in) = {}
    PROVE  <<in.method, in.path>> \notin API
<1> DEFINE Fits(j) == routes[j].method = in.method /\ in.path \in routes[j].paths
<1>1. \A j \in DOMAIN routes : ~Fits(j)
    BY DEF Matching
<1>2. CASE world.kind = "admin"
    <2>1. routes = SystemRoutes \o AdminRoutes
        BY <1>2 DEF AllRoutes
    <2>2. ~Fits(1) /\ ~Fits(2) /\ ~Fits(3) /\ ~Fits(4) /\ ~Fits(5) /\ ~Fits(6)
        <3> HIDE DEF Fits
        <3> QED BY <1>1, <2>1, AdminTable
    <2> QED BY <1>2, <2>1, <2>2, AdminTable DEF API, Is
<1>3. CASE world.kind = "client"
    <2>1. routes = SystemRoutes \o ClientRoutes
        BY <1>3 DEF AllRoutes
    <2>2. /\ ~Fits(1) /\ ~Fits(2) /\ ~Fits(3) /\ ~Fits(4) /\ ~Fits(5)
          /\ ~Fits(7) /\ ~Fits(8) /\ ~Fits(9)
        <3> HIDE DEF Fits
        <3> QED BY <1>1, <2>1, ClientTable
    <2> QED BY <1>3, <2>1, <2>2, ClientTable DEF API, Is
<1> QED BY <1>2, <1>3, Zenon

LEMMA DispatchKeeps == ASSUME SvInv, NEW r \in Request, Dispatch(r) PROVE SvInv'
<1>a. /\ at \in [Request -> Places] /\ handler \in [Request -> Handlers]
      /\ reply \in [Request -> [status : Replies, body : Bodies]]
    BY DEF SvInv, Types
<1>b. /\ UNCHANGED <<world, main, environment, input, report, garbled, past, opened>>
      /\ phase = "serving" /\ at[r] = "waiting" /\ Cardinality(Busy) < world.workers
    BY DEF Dispatch
<1>c. \/ /\ Matching(input[r]) = {}
         /\ at' = [at EXCEPT ![r] = "writing"]
         /\ reply' = [reply EXCEPT ![r] = [status |-> 404, body |-> "none"]]
         /\ UNCHANGED handler
      \/ /\ at' = [at EXCEPT ![r] = "handling"] /\ UNCHANGED reply
         /\ \E j \in Matching(input[r]) :
                /\ \A l \in Matching(input[r]) : j <= l
                /\ handler' = [handler EXCEPT ![r] = routes[j].handler]
    BY Zenon DEF Dispatch, Answer
<1>0. /\ UNCHANGED <<world, main, environment, input, report, garbled, past, opened>>
      /\ phase = "serving" /\ at[r] = "waiting" /\ Cardinality(Busy) < world.workers
      /\ \A q \in Request \ {r} : at'[q] = at[q] /\ handler'[q] = handler[q] /\ reply'[q] = reply[q]
      /\ \/ /\ Matching(input[r]) = {}
            /\ at'[r] = "writing" /\ reply'[r] = [status |-> 404, body |-> "none"]
            /\ UNCHANGED handler
         \/ /\ at'[r] = "handling" /\ UNCHANGED reply
            /\ \E j \in Matching(input[r]) : /\ \A l \in Matching(input[r]) : j <= l
                                            /\ handler'[r] = routes[j].handler
    BY <1>a, <1>b, <1>c
<1>1. /\ phase = "serving" /\ world.kind \in {"admin", "client"} /\ routes = AllRoutes
      /\ RequestInv(r) /\ up \in past[r]
    BY <1>0, Kinds DEF SvInv, MainInv, RequestInv
<1>2. /\ handler[r] = "none" /\ report[r] = <<>> /\ ~garbled[r] /\ reply[r] = NoReply
      /\ reply[r].status = 0
    BY <1>0, <1>1 DEF RequestInv, HandlerFits, Reported, Replied, NoReply
<1>3. Types'
    <2>1. at' \in [Request -> Places]
        BY <1>a, <1>c DEF Places
    <2>2. handler' \in [Request -> Handlers]
        <3>1. CASE UNCHANGED handler
            BY <1>a, <3>1
        <3>2. CASE \E j \in Matching(input[r]) :
                      /\ \A l \in Matching(input[r]) : j <= l
                      /\ handler' = [handler EXCEPT ![r] = routes[j].handler]
            <4>1. PICK j \in Matching(input[r]) :
                      /\ \A l \in Matching(input[r]) : j <= l
                      /\ handler' = [handler EXCEPT ![r] = routes[j].handler]
                BY <3>2
            <4>2. routes[j].handler \in Handlers
                BY <1>1, <4>1, FirstMatch
            <4> QED BY <1>a, <4>1, <4>2
        <3> QED BY <1>c, <3>1, <3>2
    <2>3. [status |-> 404, body |-> "none"] \in [status : Replies, body : Bodies]
        BY DEF Replies, Bodies
    <2>4. reply' \in [Request -> [status : Replies, body : Bodies]]
        BY <1>a, <1>c, <2>3
    <2> QED BY <1>b, <2>1, <2>2, <2>4 DEF SvInv, Types, Handlers, environment
<1>4. MainInv' /\ StartInv'
    BY <1>0, StillMain
<1>5. RequestInv(r)'
    <2>1. HandlerFits(r)'
        BY <1>0, <1>1, <1>2, FirstMatch DEF HandlerFits, main
    <2>2. Reported(r)'
        BY <1>0, <1>2 DEF Reported
    <2>3. Replied(r)'
        <3>1. CASE Matching(input[r]) = {} /\ at'[r] = "writing" /\ UNCHANGED handler
                   /\ reply'[r] = [status |-> 404, body |-> "none"]
            <4>1. <<input[r].method, input[r].path>> \notin API
                BY <1>1, <3>1, NoMatch
            <4> QED BY <1>0, <1>2, <3>1, <4>1 DEF Replied, API, ErrorBody
        <3>2. CASE at'[r] = "handling" /\ UNCHANGED reply
            BY <1>0, <1>2, <3>2 DEF Replied
        <3> QED BY <1>0, <3>1, <3>2
    <2> QED BY <1>0, <1>1, <2>1, <2>2, <2>3 DEF RequestInv, main, environment
<1>6. ASSUME NEW q \in Request \ {r} PROVE RequestInv(q)'
    <2>1. Leaves(q)
        BY <1>0 DEF Leaves, SvInv, RequestInv, main, environment
    <2> QED BY <2>1, LeavesKeeps DEF SvInv
<1>7. OpenedInv'
    BY <1>0, OpenedStays
<1>8. ThreadsInv'
    <2>1. Busy' = Busy \cup {r}
        BY <1>0 DEF Busy
    <2>2. r \notin Busy
        BY <1>0 DEF Busy
    <2>3. IsFiniteSet(Busy') /\ Cardinality(Busy') = Cardinality(Busy) + 1
        BY <2>1, <2>2, FS_AddElement DEF SvInv, ThreadsInv
    <2>4. Cardinality(Busy) \in Nat /\ world.workers \in Nat
        BY FS_CardinalityType, Kinds DEF SvInv, ThreadsInv, MainInv
    <2> QED BY <1>0, <2>3, <2>4 DEF ThreadsInv
<1> QED BY <1>3, <1>4, <1>5, <1>6, <1>7, <1>8 DEF SvInv

\* A request in the hands of a thread stays with its report.
LEMMA ReportedStays ==
    ASSUME NEW r \in Request, Reported(r), at'[r] \notin {"unsent", "waiting"},
           UNCHANGED <<world, main, handler, report, garbled, past>>
    PROVE  Reported(r)'
<1>1. ChecksOf(r)' = ChecksOf(r)
    BY DEF ChecksOf, main
<1>2. \A name : Needs(name)' = Needs(name) /\ CheckDsn(name)' = CheckDsn(name)
    BY NeedsStay DEF main
<1> QED BY <1>1, <1>2 DEF Reported, Bad, Held, Failed

LEMMA WrittenKeeps ==
    ASSUME SvInv, NEW r \in Request, Write(r), UNCHANGED main
    PROVE  SvInv'
<1>a. /\ at' = [at EXCEPT ![r] = "done"]
      /\ reply' = IF reply[r].status >= 400 THEN [reply EXCEPT ![r].body = ErrorBody] ELSE reply
      /\ UNCHANGED <<world, main, environment, input, handler, report, garbled, past, opened>>
      /\ at[r] = "writing" /\ phase = "serving"
    BY DEF Write, End, main
<1>0. /\ UNCHANGED <<world, main, environment, input, handler, report, garbled, past, opened>>
      /\ at[r] = "writing" /\ at'[r] = "done"
      /\ \A q \in Request \ {r} : at'[q] = at[q] /\ reply'[q] = reply[q]
      /\ reply'[r].status = reply[r].status
      /\ reply'[r].body = IF reply[r].status >= 400 THEN ErrorBody ELSE reply[r].body
    BY <1>a DEF SvInv, Types
<1>1. RequestInv(r) /\ reply[r].status \in Replies
    BY DEF SvInv, Types
<1>2. Types'
    <2>1. at' \in [Request -> Places]
        BY <1>a DEF SvInv, Types, Places
    <2>2. reply' \in [Request -> [status : Replies, body : Bodies]]
        BY <1>a DEF SvInv, Types, Bodies
    <2> QED BY <1>0, <2>1, <2>2 DEF SvInv, Types, Handlers, environment
<1>3. MainInv' /\ StartInv'
    BY <1>0, StillMain
<1>4. RequestInv(r)'
    <2>1. HandlerFits(r)'
        BY <1>0, <1>1 DEF RequestInv, HandlerFits, main
    <2>2. Reported(r)'
        BY <1>0, <1>1, ReportedStays DEF RequestInv
    <2>3. Replied(r)'
        BY <1>0, <1>1 DEF RequestInv, Replied, Replies, Ready, API, main
    <2> QED BY <1>0, <1>1, <2>1, <2>2, <2>3 DEF RequestInv, main
<1>5. ASSUME NEW q \in Request \ {r} PROVE RequestInv(q)'
    <2>1. Leaves(q)
        BY <1>0 DEF Leaves, SvInv, RequestInv, main, environment
    <2> QED BY <2>1, LeavesKeeps DEF SvInv
<1>6. OpenedInv'
    BY <1>0, OpenedStays
<1>7. ThreadsInv'
    <2>1. Busy' = Busy \ {r} /\ r \in Busy
        BY <1>0 DEF Busy
    <2>2. IsFiniteSet(Busy') /\ Cardinality(Busy') = Cardinality(Busy) - 1
        BY <2>1, FS_RemoveElement DEF SvInv, ThreadsInv
    <2>3. Cardinality(Busy) \in Nat /\ world.workers \in Nat
        BY FS_CardinalityType, Kinds DEF SvInv, ThreadsInv, MainInv
    <2> QED BY <1>0, <2>2, <2>3 DEF SvInv, ThreadsInv
<1> QED BY <1>2, <1>3, <1>4, <1>5, <1>6, <1>7 DEF SvInv

\* The error that cannot be written ends the service and leaves all else as it was.
LEMMA EndKeeps ==
    ASSUME SvInv, phase = "serving", phase' = "ended", exit' = "terminated",
           UNCHANGED <<world, cfg, routes, checks, requests, environment, opened>>
    PROVE  SvInv'
<1> USE DEF requests, environment
<1>1. Types'
    BY DEF SvInv, Types, Handlers
<1>2. MainInv'
    BY DEF SvInv, MainInv, Phases, Exits, Unpreflighted, Up
<1>3. StartInv'
    BY DEF SvInv, StartInv, Up
<1>4. ASSUME NEW q \in Request PROVE RequestInv(q)'
    <2>1. Leaves(q)
        BY DEF Leaves, SvInv, RequestInv
    <2> QED BY <2>1, LeavesKeeps DEF SvInv
<1>5. OpenedInv' /\ ThreadsInv'
    BY DEF SvInv, OpenedInv, ThreadsInv, Busy, WellFormed, Acceptable, Parses
<1> QED BY <1>1, <1>2, <1>3, <1>4, <1>5 DEF SvInv

LEMMA WriteKeeps == ASSUME SvInv, NEW r \in Request, Write(r) PROVE SvInv'
<1>1. CASE UNCHANGED main
    BY <1>1, WrittenKeeps
<1>2. CASE End("terminated") /\ UNCHANGED <<cfg, routes, checks, at, reply>>
    BY <1>2, EndKeeps DEF Write, End, requests
<1> QED BY <1>1, <1>2 DEF Write

-----------------------------------------------------------------------------
(* The handlers.                                                             *)

LEMMA ClientDsnKnown ==
    ASSUME SvInv, phase = "serving", world.kind = "client"
    PROVE  ClientDsn \in Dsn \cup {""}
<1>1. world \in Worlds /\ Configures(world) /\ cfg = ConfigOf(world)
    BY DEF SvInv, MainInv
<1>2. cfg.text["pg_dsn"] \in Dsn \cup {""}
    BY <1>1, DsnsAssumption DEF TextKeys
<1>3. "pg_dsn" \in DOMAIN world.env => world.env["pg_dsn"] \in Dsn \cup {""}
    BY <1>1, DsnsAssumption
<1> QED BY <1>2, <1>3 DEF ClientDsn

\* A check connects only with a text that is not empty.
LEMMA CheckDsnKnown ==
    ASSUME SvInv, NEW r \in Request, Handling(r, {"readyz", "bootstrap_check"}),
           NEW j \in DOMAIN ChecksOf(r), Connects(ChecksOf(r)[j].name)
    PROVE  CheckDsn(ChecksOf(r)[j].name) \in Dsn
<1>1. /\ phase = "serving" /\ world \in Worlds /\ Configures(world) /\ cfg = ConfigOf(world)
      /\ world.kind \in {"admin", "client"} /\ checks = AllChecks /\ handler[r] \in Handlers
    BY Kinds DEF SvInv, MainInv, Types, RequestInv, Handling
<1>2. CASE world.kind = "admin"
    <2>1. /\ cfg.text["bootstrap_dsn"] \in Dsn /\ cfg.text["app_dsn"] \in Dsn
        BY <1>1, <1>2, DsnsAssumption DEF TextKeys, SvInv, MainInv, Up
    <2>2. ChecksOf(r)[j].name \in {"postgres_bootstrap", "postgres_app", "meta_structure"}
        BY <1>1, <1>2 DEF ChecksOf, AllChecks, AdminChecks, Check
    <2> QED BY <2>1, <2>2 DEF CheckDsn
<1>3. CASE world.kind = "client"
    <2>1. handler[r] = "readyz"
        BY <1>1, <1>3 DEF Handling, Handlers
    <2>2. ChecksOf(r)[j].name = "postgres"
        BY <1>1, <1>3, <2>1 DEF ChecksOf, AllChecks, ClientChecks, Check
    <2>3. ClientDsn # ""
        BY <2>2 DEF Connects, CheckDsn
    <2> QED BY <1>1, <1>3, <2>2, <2>3, ClientDsnKnown DEF CheckDsn
<1> QED BY <1>1, <1>2, <1>3

\* A handler opens a connection with a text that is known, if it may.
MayOpen(r) ==
    \/ UNCHANGED opened
    \/ /\ \E d \in Dsn : opened' = opened \cup {<<r, d>>}
       /\ input[r].path \in DOMAIN MethodOf =>
              WellFormed(input[r]) /\ MethodOf[input[r].path] = "db_version"

\* What opening a connection for r does to OpenedInv.
LEMMA OpenedGrows ==
    ASSUME SvInv, NEW r \in Request, UNCHANGED <<world, input>>,
           \A q \in Request \ {r} : at'[q] = at[q],
           at'[r] \notin {"unsent", "waiting"},
           MayOpen(r)
    PROVE  OpenedInv'
<1>1. opened' \subseteq (Request \cup {Startup}) \X Dsn
    BY DEF SvInv, OpenedInv, MayOpen
<1>2. ASSUME NEW q \in Request, NEW d \in Dsn, <<q, d>> \in opened'
      PROVE  /\ at'[q] \notin {"unsent", "waiting"}
             /\ input[q].path \in DOMAIN MethodOf =>
                    WellFormed(input[q]) /\ MethodOf[input[q].path] = "db_version"
    <2>1. CASE <<q, d>> \in opened
        BY <2>1 DEF SvInv, OpenedInv
    <2>2. CASE q = r /\ <<q, d>> \notin opened
        BY <1>2, <2>2 DEF MayOpen
    <2> QED BY <1>2, <2>1, <2>2 DEF MayOpen
<1> QED BY <1>1, <1>2 DEF OpenedInv, WellFormed, Acceptable, Parses

LEMMA AnswerKeeps ==
    ASSUME SvInv, NEW r \in Request, NEW status, NEW body,
           at[r] = "handling", Answer(r, status, body),
           UNCHANGED <<world, main, environment, input, handler, report, garbled, past>>,
           status \in Replies \ {0, 404}, body \in Bodies, status < 400 => body # ErrorBody,
           (input[r].path = "/api/v1/documents" /\ status = 200) => body = "doc_save",
           handler[r] = "readyz" =>
               LET critical == {j \in DOMAIN checks : checks[j].critical}
               IN /\ DOMAIN report[r] = DOMAIN checks
                  /\ \/ status = 200 /\ \A j \in critical : report[r][j]
                     \/ status = 503 /\ \E j \in critical : ~report[r][j]
                     \/ status = 500 /\ garbled[r],
           MayOpen(r)
    PROVE  SvInv'
<1>1. /\ at' = [at EXCEPT ![r] = "writing"]
      /\ reply' = [reply EXCEPT ![r] = [status |-> status, body |-> body]]
      /\ at \in [Request -> Places]
      /\ reply \in [Request -> [status : Replies, body : Bodies]]
      /\ RequestInv(r)
    BY DEF Answer, SvInv, Types
<1>2. /\ at'[r] = "writing" /\ reply'[r].status = status /\ reply'[r].body = body
      /\ \A q \in Request \ {r} : at'[q] = at[q] /\ reply'[q] = reply[q]
    BY <1>1
<1>3. Types'
    <2>1. at' \in [Request -> Places]
        BY <1>1 DEF Places
    <2>2. reply' \in [Request -> [status : Replies, body : Bodies]]
        BY <1>1
    <2> QED BY <2>1, <2>2 DEF SvInv, Types, Handlers, environment
<1>4. MainInv' /\ StartInv'
    BY StillMain
<1>5. RequestInv(r)'
    <2>1. HandlerFits(r)'
        BY <1>1, <1>2 DEF RequestInv, HandlerFits, main
    <2>2. Reported(r)'
        BY <1>1, <1>2, ReportedStays DEF RequestInv
    <2>3. Replied(r)'
        BY <1>2 DEF Replied, Ready, Replies, main
    <2> QED BY <1>1, <1>2, <2>1, <2>2, <2>3 DEF RequestInv, main, environment
<1>6. ASSUME NEW q \in Request \ {r} PROVE RequestInv(q)'
    <2>1. Leaves(q)
        BY <1>2 DEF Leaves, SvInv, RequestInv, main, environment
    <2> QED BY <2>1, LeavesKeeps DEF SvInv
<1>7. OpenedInv'
    BY <1>2, OpenedGrows
<1>8. ThreadsInv'
    <2>1. Busy' = Busy
        BY <1>2 DEF Busy
    <2> QED BY <2>1 DEF SvInv, ThreadsInv
<1> QED BY <1>3, <1>4, <1>5, <1>6, <1>7, <1>8 DEF SvInv

\* What is known of a request that a handler has.
LEMMA Handled ==
    ASSUME SvInv, NEW r \in Request, at[r] = "handling", phase = "serving"
    PROVE  /\ world.kind \in {"admin", "client"}
           /\ checks = AllChecks /\ handler[r] \in Handlers /\ up \in past[r]
           /\ HandlerFits(r) /\ Reported(r)
BY Kinds DEF SvInv, MainInv, Types, RequestInv

LEMMA SimpleKeeps == ASSUME SvInv, NEW r \in Request, Simple(r) PROVE SvInv'
<1>1. /\ phase = "serving" /\ at[r] = "handling"
      /\ handler[r] \in {"ok", "status", "describe", "ping"}
      /\ Answer(r, 200, handler[r])
      /\ UNCHANGED <<world, main, environment, input, handler, report, garbled, past>>
      /\ MayOpen(r)
    BY DEF MayOpen, Simple, Handling
<1>2. handler[r] \in Bodies /\ handler[r] # ErrorBody
    BY <1>1 DEF Bodies, ErrorBody
<1>3. input[r].path # "/api/v1/documents"
    BY <1>1, Handled DEF HandlerFits
<1>4. 200 \in Replies \ {0, 404}
    BY DEF Replies
<1> QED BY <1>1, <1>2, <1>3, <1>4, AnswerKeeps

LEMMA RefusalKeeps ==
    ASSUME SvInv, NEW r \in Request, Unauthorized(r) \/ Unsupported(r) \/ Unparsed(r)
    PROVE  SvInv'
<1>1. /\ phase = "serving" /\ at[r] = "handling" /\ handler[r] # "readyz"
      /\ UNCHANGED <<world, main, environment, input, handler, report, garbled, past>>
      /\ MayOpen(r)
    BY DEF MayOpen, Unauthorized, Unsupported, Unparsed, Routed, Handling
<1>2. \/ Answer(r, 401, "unauthorized")
      \/ Answer(r, 415, "unsupported_media_type")
      \/ Answer(r, 400, "invalid_json")
    BY DEF Unauthorized, Unsupported, Unparsed
<1>3. /\ 401 \in Replies \ {0, 404} /\ 415 \in Replies \ {0, 404}
      /\ 400 \in Replies \ {0, 404}
      /\ "unauthorized" \in Bodies /\ "unsupported_media_type" \in Bodies
      /\ "invalid_json" \in Bodies
    BY DEF Replies, Bodies
<1>4. CASE Answer(r, 401, "unauthorized")
    BY <1>1, <1>3, <1>4, AnswerKeeps
<1>5. CASE Answer(r, 415, "unsupported_media_type")
    BY <1>1, <1>3, <1>5, AnswerKeeps
<1>6. CASE Answer(r, 400, "invalid_json")
    BY <1>1, <1>3, <1>6, AnswerKeeps
<1> QED BY <1>2, <1>4, <1>5, <1>6

LEMMA EchoKeeps == ASSUME SvInv, NEW r \in Request, Echo(r) PROVE SvInv'
<1>1. /\ phase = "serving" /\ at[r] = "handling" /\ handler[r] \in {"doc_save", "method"}
      /\ Answer(r, 200, Method(r))
      /\ UNCHANGED <<world, main, environment, input, handler, report, garbled, past>>
      /\ MayOpen(r)
    BY DEF MayOpen, Echo, Routed, Handling
<1>2. handler[r] = "method" => input[r].path \in DOMAIN MethodOf \ {"/api/v1/documents"}
    BY <1>1, Handled DEF HandlerFits
<1>3. /\ Method(r) \in Bodies /\ Method(r) # ErrorBody
      /\ input[r].path = "/api/v1/documents" => Method(r) = "doc_save"
    BY <1>1, <1>2, MethodAssumption DEF Method, Bodies, ErrorBody
<1>4. 200 \in Replies \ {0, 404}
    BY DEF Replies
<1> QED BY <1>1, <1>3, <1>4, AnswerKeeps

LEMMA VersionKeeps == ASSUME SvInv, NEW r \in Request, Version(r) PROVE SvInv'
<1>1. /\ phase = "serving" /\ at[r] = "handling"
      /\ handler[r] \in {"version", "doc_save", "method"}
      /\ UNCHANGED <<world, main, environment, input, handler, report, garbled, past>>
    BY DEF Version, Routed, Handling
<1>2. handler[r] = "version" \/ (WellFormed(input[r]) /\ Method(r) = "db_version")
    BY DEF Version, Routed, Handling
<1>3. /\ phase = "serving" /\ world.kind = "client"
      /\ handler[r] = "version" => input[r].path = "/api/db/version"
      /\ handler[r] = "method" => input[r].path \in DOMAIN MethodOf \ {"/api/v1/documents"}
    BY <1>1, Handled DEF HandlerFits, Handlers
<1>4. ClientDsn \in Dsn \cup {""}
    BY <1>3, ClientDsnKnown
<1>5. /\ input[r].path # "/api/v1/documents"
      /\ input[r].path \in DOMAIN MethodOf =>
             WellFormed(input[r]) /\ MethodOf[input[r].path] = "db_version"
    BY <1>1, <1>2, <1>3, MethodAssumption DEF Method
<1>6. \/ ClientDsn = "" /\ Answer(r, 500, "config_error") /\ UNCHANGED opened
      \/ ClientDsn # "" /\ Answer(r, 200, "postgres_version") /\ Connect(r, ClientDsn)
      \/ ClientDsn # "" /\ Answer(r, 500, "exception") /\ Connect(r, ClientDsn)
    BY Zenon DEF Version
<1>7. /\ 200 \in Replies \ {0, 404} /\ 500 \in Replies \ {0, 404}
      /\ "config_error" \in Bodies /\ "postgres_version" \in Bodies /\ "exception" \in Bodies
      /\ "postgres_version" # ErrorBody /\ ~(500 < 400)
      /\ input[r].path # "/api/v1/documents"
    BY <1>5 DEF Replies, Bodies, ErrorBody
<1>8. MayOpen(r)
    BY <1>4, <1>5, <1>6 DEF Connect, MayOpen
<1>9. at[r] = "handling" /\ handler[r] # "readyz" /\ MayOpen(r)
    BY <1>1, <1>8
<1>10. UNCHANGED <<world, main, environment, input, handler, report, garbled, past>>
    BY <1>1
<1>11. CASE ClientDsn = "" /\ Answer(r, 500, "config_error") /\ UNCHANGED opened
    <2>1. Answer(r, 500, "config_error")
        BY <1>11
    <2>2. /\ 500 \in Replies \ {0, 404} /\ "config_error" \in Bodies
          /\ 500 < 400 => "config_error" # ErrorBody
          /\ (input[r].path = "/api/v1/documents" /\ 500 = 200) => "config_error" = "doc_save"
        BY <1>7
    <2> QED BY <1>9, <1>10, <2>1, <2>2, AnswerKeeps
<1>12. CASE ClientDsn # "" /\ Answer(r, 200, "postgres_version") /\ Connect(r, ClientDsn)
    <2>1. Answer(r, 200, "postgres_version")
        BY <1>12
    <2>2. /\ 200 \in Replies \ {0, 404} /\ "postgres_version" \in Bodies
          /\ 200 < 400 => "postgres_version" # ErrorBody
          /\ (input[r].path = "/api/v1/documents" /\ 200 = 200) => "postgres_version" = "doc_save"
        BY <1>7
    <2> QED BY <1>9, <1>10, <2>1, <2>2, AnswerKeeps
<1>13. CASE ClientDsn # "" /\ Answer(r, 500, "exception") /\ Connect(r, ClientDsn)
    <2>1. Answer(r, 500, "exception")
        BY <1>13
    <2>2. /\ 500 \in Replies \ {0, 404} /\ "exception" \in Bodies
          /\ 500 < 400 => "exception" # ErrorBody
          /\ (input[r].path = "/api/v1/documents" /\ 500 = 200) => "exception" = "doc_save"
        BY <1>7
    <2> QED BY <1>9, <1>10, <2>1, <2>2, AnswerKeeps
<1> QED BY <1>6, <1>11, <1>12, <1>13

LEMMA ReportKeeps == ASSUME SvInv, NEW r \in Request, Report(r) PROVE SvInv'
<1> DEFINE critical == {j \in DOMAIN checks : checks[j].critical}
<1>1. /\ phase = "serving" /\ at[r] = "handling" /\ handler[r] \in {"readyz", "bootstrap_check"}
      /\ Len(report[r]) = Len(ChecksOf(r))
      /\ UNCHANGED <<world, main, environment, input, handler, report, garbled, past>>
      /\ MayOpen(r)
    BY DEF MayOpen, Report, Handling
<1>2. \/ garbled[r] /\ Answer(r, 500, "none")
      \/ CriticalOk(r) /\ Answer(r, 200, "checks")
      \/ ~CriticalOk(r) /\ Answer(r, 503, "checks")
    BY Zenon DEF Report
<1>3. input[r].path # "/api/v1/documents"
    BY <1>1, Handled DEF HandlerFits
<1>4. handler[r] = "readyz" => DOMAIN report[r] = DOMAIN checks
    <2>1. report[r] \in Seq(BOOLEAN)
        BY DEF SvInv, Types
    <2>2. Len(checks) \in Nat /\ DOMAIN checks = 1..Len(checks)
        BY <1>1, Handled DEF AllChecks, AdminChecks, ClientChecks
    <2> QED BY <1>1, <2>1, <2>2 DEF ChecksOf
<1>5. handler[r] = "readyz" =>
          /\ CriticalOk(r) => \A j \in critical : report[r][j]
          /\ ~CriticalOk(r) => \E j \in critical : ~report[r][j]
    BY <1>4 DEF CriticalOk, ChecksOf
<1>6. /\ {200, 500, 503} \subseteq Replies \ {0, 404}
      /\ {"none", "checks"} \subseteq Bodies /\ ErrorBody # "checks"
    BY DEF Replies, Bodies, ErrorBody
<1>7. CASE garbled[r] /\ Answer(r, 500, "none")
    BY <1>1, <1>3, <1>4, <1>6, <1>7, AnswerKeeps
<1>8. CASE CriticalOk(r) /\ Answer(r, 200, "checks")
    BY <1>1, <1>3, <1>4, <1>5, <1>6, <1>8, AnswerKeeps
<1>9. CASE ~CriticalOk(r) /\ Answer(r, 503, "checks")
    BY <1>1, <1>3, <1>4, <1>5, <1>6, <1>9, AnswerKeeps
<1> QED BY <1>2, <1>7, <1>8, <1>9

\* One more check: what it says of a fact was so at this time.
LEMMA RunCheckKeeps == ASSUME SvInv, NEW r \in Request, RunCheck(r) PROVE SvInv'
<1> DEFINE n == Len(report[r]) + 1
           name == ChecksOf(r)[n].name
           ok == Connects(name) /\ Needs(name) \subseteq up
<1>1. /\ phase = "serving" /\ at[r] = "handling" /\ Handling(r, {"readyz", "bootstrap_check"})
      /\ Len(report[r]) < Len(ChecksOf(r))
      /\ report' = [report EXCEPT ![r] = Append(@, ok)]
      /\ IF Connects(name) THEN opened' = opened \cup {<<r, CheckDsn(name)>>} ELSE UNCHANGED opened
      /\ \/ UNCHANGED garbled
         \/ CheckDsn(name) \notin up /\ garbled' = [garbled EXCEPT ![r] = TRUE]
      /\ UNCHANGED <<world, main, environment, at, input, handler, reply, past>>
    BY DEF RunCheck, Handling, Connect
<1> HIDE DEF ok
<1>2. /\ phase = "serving" /\ up \in past[r] /\ HandlerFits(r) /\ Reported(r)
      /\ Len(ChecksOf(r)) \in Nat /\ DOMAIN ChecksOf(r) = 1..Len(ChecksOf(r))
    <2>1. /\ phase = "serving" /\ up \in past[r] /\ HandlerFits(r) /\ Reported(r)
          /\ checks = AdminChecks \/ checks = ClientChecks
        BY <1>1, Handled DEF AllChecks
    <2> DEFINE IsList(s) == Len(s) \in Nat /\ DOMAIN s = 1..Len(s)
               both == <<Check("postgres_bootstrap", FALSE), Check("postgres_app", FALSE)>>
    <2>2. IsList(AdminChecks) /\ IsList(ClientChecks) /\ IsList(both)
        BY DEF AdminChecks, ClientChecks
    <2>3. ChecksOf(r) \in {checks, both}
        BY DEF ChecksOf
    <2>4. IsList(ChecksOf(r))
        <3> HIDE DEF IsList, both
        <3> QED BY <2>1, <2>2, <2>3
    <2> QED BY <2>1, <2>4
<1>3. /\ report[r] \in Seq(BOOLEAN) /\ report'[r] = Append(report[r], ok)
      /\ \A q \in Request \ {r} : report'[q] = report[q] /\ garbled'[q] = garbled[q]
      /\ garbled'[r] => garbled[r] \/ CheckDsn(name) \notin up
    <2>1. report \in [Request -> Seq(BOOLEAN)] /\ garbled \in [Request -> BOOLEAN]
        BY DEF SvInv, Types
    <2>2. /\ report'[r] = Append(report[r], ok)
          /\ \A q \in Request \ {r} : report'[q] = report[q]
        BY <1>1, <2>1
    <2>3. /\ \A q \in Request \ {r} : garbled'[q] = garbled[q]
          /\ garbled'[r] => garbled[r] \/ CheckDsn(name) \notin up
        <3> HIDE DEF name
        <3> QED BY <1>1, <2>1
    <2> QED BY <2>1, <2>2, <2>3
<1>4. ok \in BOOLEAN
    BY DEF ok
<1>5. /\ Len(report[r]) \in Nat /\ n \in DOMAIN ChecksOf(r)
      /\ Len(report'[r]) = n /\ DOMAIN report'[r] = DOMAIN report[r] \cup {n}
      /\ n \notin DOMAIN report[r]
      /\ report'[r][n] = ok /\ \A j \in DOMAIN report[r] : report'[r][j] = report[r][j]
    BY <1>1, <1>2, <1>3, <1>4
<1>6. Types'
    <2>1. report' \in [Request -> Seq(BOOLEAN)]
        BY <1>1, <1>3, <1>4 DEF SvInv, Types
    <2>2. garbled' \in [Request -> BOOLEAN]
        BY <1>1 DEF SvInv, Types
    <2> QED BY <1>1, <2>1, <2>2 DEF SvInv, Types, Handlers, environment
<1>7. MainInv' /\ StartInv'
    BY <1>1, StillMain
<1>8. RequestInv(r)'
    <2>1. HandlerFits(r)'
        BY <1>1, <1>2 DEF HandlerFits, main
    <2>2. Reported(r)'
        <3>1. ChecksOf(r)' = ChecksOf(r) /\ past' = past /\ at' = at
            BY <1>1 DEF ChecksOf, main
        <3>2. \A x : Needs(x)' = Needs(x) /\ CheckDsn(x)' = CheckDsn(x)
            BY <1>1, NeedsStay DEF main
        <3>3. IF ok THEN Held(r, Needs(name)) ELSE Bad(r, name)
            BY <1>2 DEF ok, Held, Bad, Failed, Connects
        <3>4. CheckDsn(name) \notin up => Failed(r, Needs(name))
            BY <1>2 DEF Failed, Needs
        <3>5. \A j \in DOMAIN report'[r] :
                  IF report'[r][j] THEN Held(r, Needs(ChecksOf(r)[j].name))
                  ELSE Bad(r, ChecksOf(r)[j].name)
            BY <1>2, <1>5, <3>3 DEF Reported
        <3>6. garbled'[r] => \E j \in DOMAIN report'[r] : Failed(r, Needs(ChecksOf(r)[j].name))
            BY <1>2, <1>3, <1>5, <3>4 DEF Reported
        <3>7. Len(report'[r]) <= Len(ChecksOf(r))
            BY <1>1, <1>2, <1>5
        <3>8. at'[r] \notin {"unsent", "waiting"}
            BY <1>1, <3>1
        <3> QED BY <3>1, <3>2, <3>5, <3>6, <3>7, <3>8 DEF Reported, Bad, Held, Failed
    <2>3. Replied(r)'
        BY <1>1 DEF SvInv, RequestInv, Replied, API
    <2> QED BY <1>1, <1>2, <2>1, <2>2, <2>3 DEF RequestInv, main, environment
<1>9. ASSUME NEW q \in Request \ {r} PROVE RequestInv(q)'
    <2>1. Leaves(q)
        BY <1>1, <1>3 DEF Leaves, SvInv, RequestInv, main, environment
    <2> QED BY <2>1, LeavesKeeps DEF SvInv
<1>10. OpenedInv'
    <2>1. Connects(name) => CheckDsn(name) \in Dsn
        BY <1>1, <1>5, CheckDsnKnown
    <2>2. input[r].path \notin DOMAIN MethodOf
        BY <1>1, <1>2, MethodAssumption DEF HandlerFits, Handling
    <2>3. MayOpen(r)
        BY <1>1, <2>1, <2>2 DEF MayOpen
    <2> QED BY <1>1, <2>3, OpenedGrows
<1>11. ThreadsInv'
    BY <1>1 DEF SvInv, ThreadsInv, Busy
<1> QED BY <1>6, <1>7, <1>8, <1>9, <1>10, <1>11 DEF SvInv

LEMMA ServeKeeps == ASSUME SvInv, NEW r \in Request, Serve(r) PROVE SvInv'
BY DispatchKeeps, WriteKeeps, SimpleKeeps, RunCheckKeeps, ReportKeeps, RefusalKeeps,
   EchoKeeps, VersionKeeps DEF Serve

LEMMA MainKeeps == ASSUME SvInv, Main PROVE SvInv'
BY ConfigureKeeps, PreflightDsnsKeeps, PingBootKeeps, PingAppKeeps, MetaPresentKeeps,
   MountKeeps, RegisterKeeps, ListenKeeps DEF Main

LEMMA StutterKeeps == ASSUME SvInv, UNCHANGED vars PROVE SvInv'
<1>1. UNCHANGED <<world, main, environment, requests, opened, past>>
    BY DEF vars, requests
<1>2. MainInv' /\ StartInv'
    BY <1>1, StillMain
<1>3. Types' /\ ThreadsInv' /\ OpenedInv'
    BY <1>1 DEF requests, environment, SvInv, Types, Handlers, ThreadsInv, Busy, OpenedInv
<1>4. ASSUME NEW q \in Request PROVE RequestInv(q)'
    <2>1. Leaves(q)
        BY <1>1 DEF requests, Leaves, SvInv, RequestInv, main, environment
    <2> QED BY <2>1, LeavesKeeps DEF SvInv
<1> QED BY <1>2, <1>3, <1>4 DEF SvInv

LEMMA NextKeeps == ASSUME SvInv, [Next]_vars PROVE SvInv'
BY MainKeeps, ChangeKeeps, SendKeeps, ServeKeeps, StutterKeeps DEF Next

\* The inductive invariant holds in every behaviour.
THEOREM Always == Spec => []SvInv
<1>1. SvInv /\ [Next]_vars => SvInv'
    BY NextKeeps
<1> QED BY <1>1, InitHolds, PTL DEF Spec

-----------------------------------------------------------------------------
(* What follows from the invariant.                                          *)

\* The types, and that no more requests are in the hands of threads than there
\* are threads (CPPHTTPLIB_THREAD_POOL_COUNT, HttpServer.h:45).
THEOREM TypeCorrect == Spec => []TypeOK
<1>1. SvInv => TypeOK
    <2> SUFFICES ASSUME SvInv PROVE TypeOK
        OBVIOUS
    <2>1. \A r \in Request : reply[r].status \in Replies
        BY DEF SvInv, Types
    <2> QED BY <2>1 DEF SvInv, Types, MainInv, RequestInv, HandlerFits, OpenedInv, ThreadsInv,
                        TypeOK, Phases, Exits, Places
<1> QED BY <1>1, Always, PTL

\* Each text of the configuration is that of its strongest source.
THEOREM StrongestConfig == Spec => []ConfigFromStrongest
<1>1. SvInv => ConfigFromStrongest
    <2> SUFFICES ASSUME SvInv, phase \notin {"configure", "ended"},
                        NEW k \in TextKeys(world.kind)
                 PROVE  LET f == world.files[ResolvePath(world)]
                            said == <<NonEmpty(world.env), Root(world.kind, f),
                                      Section(world.kind, f)>>
                            Saying(x) == {n \in DOMAIN said : x \in DOMAIN said[n]}
                        IN \/ Saying(k) = {} /\ cfg.text[k] = ""
                           \/ \E n \in Saying(k) : /\ \A l \in Saying(k) : n <= l
                                                   /\ cfg.text[k] = said[n][k]
        BY DEF ConfigFromStrongest
    <2> DEFINE f == world.files[ResolvePath(world)]
               env == NonEmpty(world.env)
               root == Root(world.kind, f)
               section == Section(world.kind, f)
    <2>1. cfg.text[k] = IF k \in DOMAIN env THEN env[k]
                        ELSE IF k \in DOMAIN root THEN root[k]
                        ELSE IF k \in DOMAIN section THEN section[k] ELSE ""
        <3>1. cfg = ConfigOf(world)
            BY DEF SvInv, MainInv
        <3> HIDE DEF env, root, section
        <3> QED BY <3>1 DEF ConfigOf, ApplyEnvOverrides, FromJson, Overlay, Parsed, env, root,
                            section
    <2> HIDE DEF env, root, section
    <2> DEFINE said == <<env, root, section>>
               Saying == {n \in DOMAIN said : k \in DOMAIN said[n]}
    <2>2. DOMAIN said = {1, 2, 3} /\ said[1] = env /\ said[2] = root /\ said[3] = section
        OBVIOUS
    <2> HIDE DEF said
    <2>3. \/ Saying = {} /\ cfg.text[k] = ""
          \/ \E n \in Saying : (\A l \in Saying : n <= l) /\ cfg.text[k] = said[n][k]
        <3>1. CASE k \in DOMAIN env
            <4>1. 1 \in Saying /\ (\A l \in Saying : 1 <= l) /\ cfg.text[k] = said[1][k]
                BY <2>1, <2>2, <3>1
            <4> QED BY <4>1
        <3>2. CASE k \notin DOMAIN env /\ k \in DOMAIN root
            <4>1. 2 \in Saying /\ (\A l \in Saying : 2 <= l) /\ cfg.text[k] = said[2][k]
                BY <2>1, <2>2, <3>2
            <4> QED BY <4>1
        <3>3. CASE k \notin DOMAIN env /\ k \notin DOMAIN root /\ k \in DOMAIN section
            <4>1. 3 \in Saying /\ (\A l \in Saying : 3 <= l) /\ cfg.text[k] = said[3][k]
                BY <2>1, <2>2, <3>3
            <4> QED BY <4>1
        <3>4. CASE k \notin DOMAIN env /\ k \notin DOMAIN root /\ k \notin DOMAIN section
            BY <2>1, <2>2, <3>4
        <3> QED BY <3>1, <3>2, <3>3, <3>4
    <2> QED BY <2>3 DEF said, env, root, section
<1> QED BY <1>1, Always, PTL

\* The exit code tells why the admin service did not start.
THEOREM ExitTells == Spec => []ExitTellsWhy
<1>1. SvInv => ExitTellsWhy
    <2> SUFFICES ASSUME SvInv PROVE ExitTellsWhy
        OBVIOUS
    <2>1. phase = "serving" => cfg.port \in 1..MaxPort
        BY DEF SvInv, MainInv, Configures, Valid
    <2> QED BY <2>1 DEF SvInv, StartInv, ExitTellsWhy, Up
<1> QED BY <1>1, Always, PTL

\* No connection is opened with an empty text.
THEOREM NoDefault == Spec => []NoDefaultConnection
<1>1. SvInv => NoDefaultConnection
    BY DsnAssumption DEF SvInv, OpenedInv, NoDefaultConnection
<1> QED BY <1>1, Always, PTL

\* 404 means that the service does not have what was asked for.
THEOREM NotFound == Spec => []NotFoundMeansUnknown
<1>1. SvInv => NotFoundMeansUnknown
    BY DEF SvInv, RequestInv, Replied, NotFoundMeansUnknown
<1> QED BY <1>1, Always, PTL

\* The path of documents is answered by doc_save.
THEOREM DocumentsSaved == Spec => []DocumentsReachDocSave
<1>1. SvInv => DocumentsReachDocSave
    BY DEF SvInv, RequestInv, Replied, DocumentsReachDocSave
<1> QED BY <1>1, Always, PTL

\* The answer of /readyz was true at a time between question and answer.
THEOREM ReadyTrue == Spec => []ReadyIsTrue
<1>1. SvInv => ReadyIsTrue
    <2> SUFFICES ASSUME SvInv, NEW r \in Request, at[r] = "done", handler[r] = "readyz"
                 PROVE  LET Fails(j) == \/ CheckDsn(checks[j].name) = ""
                                        \/ Failed(r, Needs(checks[j].name))
                            critical == {j \in DOMAIN checks : checks[j].critical}
                        IN /\ \A j \in DOMAIN checks :
                                  report[r][j] => Held(r, Needs(checks[j].name))
                           /\ \/ reply[r].status = 200 /\ \A j \in critical : report[r][j]
                              \/ reply[r].status = 503 /\ \E j \in critical : Fails(j)
                              \/ reply[r].status = 500 /\ \E j \in DOMAIN checks : Fails(j)
        BY Zenon DEF ReadyIsTrue
    <2>1. Ready(r) /\ Reported(r) /\ ChecksOf(r) = checks
        BY DEF SvInv, RequestInv, Replied, ChecksOf
    <2>2. \A j \in DOMAIN checks : IF report[r][j] THEN Held(r, Needs(checks[j].name))
                                  ELSE Bad(r, checks[j].name)
        BY <2>1 DEF Reported, Ready
    <2>3. garbled[r] => \E j \in DOMAIN checks : Failed(r, Needs(checks[j].name))
        BY <2>1 DEF Reported, Ready
    <2> DEFINE critical == {j \in DOMAIN checks : checks[j].critical}
               Fails(j) == CheckDsn(checks[j].name) = "" \/ Failed(r, Needs(checks[j].name))
    <2>4. \A j \in DOMAIN checks : report[r][j] => Held(r, Needs(checks[j].name))
        BY <2>2
    <2>5. \A j \in DOMAIN checks : ~report[r][j] => Fails(j)
        BY <2>2 DEF Bad
    <2>6. garbled[r] => \E j \in DOMAIN checks : Fails(j)
        BY <2>3
    <2>7. \/ reply[r].status = 200 /\ \A j \in critical : report[r][j]
          \/ reply[r].status = 503 /\ \E j \in critical : ~report[r][j]
          \/ reply[r].status = 500 /\ garbled[r]
        BY <2>1 DEF Ready
    <2> HIDE DEF Fails
    <2>8. \/ reply[r].status = 200 /\ \A j \in critical : report[r][j]
          \/ reply[r].status = 503 /\ \E j \in critical : Fails(j)
          \/ reply[r].status = 500 /\ \E j \in DOMAIN checks : Fails(j)
        <3>1. critical \subseteq DOMAIN checks
            OBVIOUS
        <3>2. (\E j \in critical : ~report[r][j]) => \E j \in critical : Fails(j)
            BY <2>5, <3>1
        <3> QED BY <2>6, <2>7, <3>2
    <2> QED BY <2>4, <2>8, Zenon DEF Fails
<1> QED BY <1>1, Always, PTL

\* The facade goes to the database only for a request it may be asked for.
THEOREM DatabaseGuarded == Spec => []DatabaseOnlyWithToken
<1>1. SvInv => DatabaseOnlyWithToken
    BY DEF SvInv, OpenedInv, DatabaseOnlyWithToken, WellFormed, Acceptable, Parses
<1> QED BY <1>1, Always, PTL

\* Of the replies that are written, errors and only errors have the body of errors.
THEOREM UniformErrors == Spec => []ErrorsAreUniform
<1>1. SvInv => ErrorsAreUniform
    BY DEF SvInv, RequestInv, Replied, ErrorsAreUniform
<1> QED BY <1>1, Always, PTL

\* A service that has its configuration is ended by an exception only where the
\* error handler has to write a path that is not UTF-8.
THEOREM PathsEndService == Spec => []OnlyPathsEndService
<1>1. Init => OnlyPathsEndService
    BY DEF Init, OnlyPathsEndService
<1>2. ASSUME SvInv, OnlyPathsEndService, [Next]_vars PROVE OnlyPathsEndService'
    <2>1. CASE UNCHANGED <<world, exit, at, input, reply>>
        BY <1>2, <2>1 DEF OnlyPathsEndService
    <2>2. CASE exit = "none" /\ UNCHANGED exit
        BY <2>2 DEF OnlyPathsEndService
    <2>3. CASE Main
        <3>1. exit' # "terminated" \/ ~Configures(world)'
            <4>1. exit = "none" /\ UNCHANGED world
                BY <1>2, <2>3 DEF Main, Configure, PreflightDsns, PingBoot, PingApp, Ping,
                                  MetaPresent, MountSystemRoutes, Register, Listen, SvInv,
                                  MainInv
            <4>2. CASE Configure
                BY <4>1, <4>2 DEF Configure, GoTo, End
            <4>3. CASE ~Configure
                BY <2>3, <4>1, <4>3 DEF Main, PreflightDsns, PingBoot, PingApp, Ping, GoTo, End,
                                        MetaPresent, MountSystemRoutes, Register, Listen
            <4> QED BY <4>2, <4>3
        <3> QED BY <3>1 DEF OnlyPathsEndService
    <2>4. ASSUME NEW r \in Request, Write(r) PROVE OnlyPathsEndService'
        <3>1. exit = "none"
            BY <1>2, <2>4 DEF Write, SvInv, MainInv
        <3>2. CASE UNCHANGED main
            BY <2>2, <3>1, <3>2 DEF main
        <3>3. CASE /\ reply[r].status >= 400 /\ input[r].path \in NotUtf8
                   /\ UNCHANGED <<at, reply, input>>
            BY <2>4, <3>3 DEF Write, OnlyPathsEndService
        <3> QED BY <2>4, <3>2, <3>3 DEF Write
    <2>5. ASSUME NEW r \in Request, Send(r) \/ (Serve(r) /\ ~Write(r))
          PROVE  OnlyPathsEndService'
        <3>1. phase = "serving" /\ UNCHANGED main
            BY <2>5 DEF Send, Serve, Dispatch, Simple, RunCheck, Report, Unauthorized,
                        Unsupported, Unparsed, Echo, Version, Routed, Handling
        <3> QED BY <1>2, <2>2, <3>1 DEF main, SvInv, MainInv
    <2>6. CASE Change
        BY <2>1, <2>6 DEF Change, main
    <2>7. CASE UNCHANGED vars
        BY <2>1, <2>7 DEF vars, main, requests
    <2> QED BY <1>2, <2>3, <2>4, <2>5, <2>6, <2>7 DEF Next
<1> QED BY <1>1, <1>2, Always, PTL DEF Spec

=============================================================================
