---------------------------- MODULE ServiceConfig ----------------------------
(***************************************************************************)
(* How MSG5_Admin and MSG5_Client come by their configuration:              *)
(* ConfigLoader, BasicConfig, AdminConfig and ClientConfig.  No state: all  *)
(* of it is a function of the world the process starts in, a record          *)
(*   kind     "admin" or "client"                                            *)
(*   arg      argv[1], "" if there is none                                   *)
(*   variable the text of MSG5_ADMIN_CONFIG or MSG5_CLIENT_CONFIG, or Unset  *)
(*   files    path -> file, for the files that exist                         *)
(*   port     MSG5_SERVER_PORT                                               *)
(*   env      key -> text, for the keys whose variable MSG5_<KEY> is set     *)
(* A file is a record [json, port, root, section]: whether its text is JSON, *)
(* its server_port, the other members of the root object and those of the   *)
(* object "admin" (both empty if there is no such object).  A port is a      *)
(* record [is, n]: "absent", a "number" n, or something "other".             *)
(***************************************************************************)
EXTENDS Integers

CONSTANTS IntRange,     \* the number of values of an int, 2^32
          MaxPort,      \* 65535
          DefaultPort,  \* 8080
          DefaultPath   \* the path that is used when none is given

ASSUME PortAssumption == /\ IntRange \in Nat /\ MaxPort \in Nat
                         /\ DefaultPort \in 1..MaxPort
                         /\ 2 * MaxPort < IntRange

Unset == "the variable is not set"
NotText == "a value that is no string"

TextKeys(kind) == IF kind = "admin"
                  THEN {"baseline_dir", "migrations_dir", "bootstrap_dsn", "app_dsn"}
                  ELSE {"pg_dsn"}

-----------------------------------------------------------------------------
(* ConfigLoader                                                              *)

\* The path that is tried; only that one, whether it exists or not.
ResolvePath(w) ==
    CASE w.arg # "" -> w.arg
      [] w.arg = "" /\ w.variable # Unset -> w.variable
      [] OTHER -> DefaultPath

\* The path exists, the file can be read and is JSON.
Loads(w) == ResolvePath(w) \in DOMAIN w.files /\ w.files[ResolvePath(w)].json

-----------------------------------------------------------------------------
(* BasicConfig, AdminConfig, ClientConfig                                    *)

\* The conversion of a JSON number to int keeps the low bits.
ToInt(n) == LET low == n % IntRange
            IN IF 2 * low < IntRange THEN low ELSE low - IntRange

FitsInt(n) == ToInt(n) = n

Overlay(fields, object) ==
    [k \in DOMAIN fields |-> IF k \in DOMAIN object THEN object[k] ELSE fields[k]]

NonEmpty(env) == [k \in {n \in DOMAIN env : env[n] # ""} |-> env[k]]

\* ClientConfig: "dsn" stands for "pg_dsn" if that is missing.
WithAlias(root) ==
    IF "dsn" \in DOMAIN root /\ "pg_dsn" \notin DOMAIN root
    THEN [k \in DOMAIN root \cup {"pg_dsn"} |-> IF k = "pg_dsn" THEN root["dsn"] ELSE root[k]]
    ELSE root

\* The objects from_json reads, the later over the earlier.
Section(kind, f) == IF kind = "admin" THEN f.section ELSE [k \in {} |-> ""]
Root(kind, f) == IF kind = "admin" THEN f.root ELSE WithAlias(f.root)

\* Variant: the section over the flat form.
FromJsonSectionLast(kind, f) ==
    [port |-> IF f.port.is = "number" THEN ToInt(f.port.n) ELSE DefaultPort,
     text |-> Overlay(Overlay([k \in TextKeys(kind) |-> ""], Root(kind, f)), Section(kind, f))]

FromJson(kind, f) ==
    [port |-> IF f.port.is = "number" THEN ToInt(f.port.n) ELSE DefaultPort,
     text |-> Overlay(Overlay([k \in TextKeys(kind) |-> ""], Section(kind, f)), Root(kind, f))]

\* from_json does not throw: each key it reads has a value of its type.
WellTyped(kind, f) ==
    /\ f.port.is # "other"
    /\ \A k \in TextKeys(kind) :
           /\ k \in DOMAIN Section(kind, f) => Section(kind, f)[k] # NotText
           /\ k \in DOMAIN Root(kind, f) => Root(kind, f)[k] # NotText

\* A variable that is no int leaves the port alone, an empty text its field.
ApplyEnvOverrides(w, c) ==
    [port |-> IF w.port.is = "number" /\ FitsInt(w.port.n) THEN w.port.n ELSE c.port,
     text |-> Overlay(c.text, NonEmpty(w.env))]

Valid(kind, c) ==
    /\ c.port \in 1..MaxPort
    /\ kind = "admin" => c.text["baseline_dir"] # "" /\ c.text["migrations_dir"] # ""

Parsed(w) == w.files[ResolvePath(w)]
ConfigOf(w) == ApplyEnvOverrides(w, FromJson(w.kind, Parsed(w)))

\* main reaches the end of the configuration without an exception.
Configures(w) == /\ Loads(w)
                 /\ WellTyped(w.kind, Parsed(w))
                 /\ Valid(w.kind, ConfigOf(w))
=============================================================================
