------------------------------ MODULE Startup ------------------------------
(***************************************************************************)
(* What a deployment's settings make of the process (backend config.rs,    *)
(* observability/settings.rs, main.rs run).                                *)
(*                                                                         *)
(* A deployer edits one setting at a time and deploys.  The OTEL_*         *)
(* variables are decided on first and as a set; then the configuration is  *)
(* merged from defaults, the managed store (if an access URL is set) and   *)
(* the environment, its groups are checked, and the process serves or      *)
(* stops.  A setting is a class of values: absent, blank, good, padded with white space, or junk that its  *)
(* check refuses; each key is spelled one way in a layer.                  *)
(***************************************************************************)
EXTENDS Integers, FiniteSets

CONSTANTS
    Signals,    \* the signals modelled
    Shaped,     \* OTEL_* variables checked for their shape alone
    Said,       \* the keys and values in each attribute list that parses
    Edits,      \* the edits a deployer makes: [layer, key, to]
    First,      \* the settings of the first deployment
    MaxEdits,   \* edits made
    MaxFaults   \* stores, databases and providers found out of reach

VARIABLES
    settings,   \* [otel, source, sovereign, environment]: what is set where
    phase,      \* how far run has come
    decision,   \* settings::decide
    cfg,        \* the merged configuration
    features,   \* what the process offers while it serves
    was,        \* what the last deployment that served offered
    since,      \* the edits since
    edits, faults

vars == <<settings, phase, decision, cfg, features, was, since, edits, faults>>

Absent == "absent"
Off == [on |-> FALSE]
Refuse == [on |-> FALSE, refused |-> TRUE]

(***************************************************************************)
(* The OTEL_* variables                                                    *)
(***************************************************************************)

\* A value that is blank after trimming counts as absent.
Read(otel, name) ==
    CASE otel[name] = "blank"  -> Absent
      [] otel[name] = "padded" -> "good"
      [] OTHER -> otel[name]

Exporter(s) == <<"exporter", s>>
Own(s) == <<"endpoint", s>>
Shared == <<"endpoint">>
Disabled == <<"disabled">>
ServiceName == <<"service name">>
Attributes == <<"attributes">>
OtelNames == {Shared, Disabled, ServiceName, Attributes} \cup Shaped
             \cup {Exporter(s) : s \in Signals} \cup {Own(s) : s \in Signals}

\* What the attribute list says of a key, if it says anything.
Names(otel, key) ==
    LET list == Read(otel, Attributes)
    IN IF list \in DOMAIN Said /\ key \in DOMAIN Said[list] THEN Said[list][key] ELSE Absent

Exporting(otel) == {s \in Signals : Read(otel, Exporter(s)) # "none"}

Endpoint(otel, s) ==
    IF Read(otel, Own(s)) # Absent THEN [from |-> Own(s), suffix |-> FALSE]
    ELSE [from |-> Shared, suffix |-> TRUE]

\* Every variable of the set is checked, whether or not it is used.
Malformed(otel) == \E name \in OtelNames : Read(otel, name) = "junk"

Incomplete(otel) ==
    \/ \E s \in Exporting(otel) : Read(otel, Shared) = Absent /\ Read(otel, Own(s)) = Absent
    \/ Read(otel, ServiceName) = Absent /\ Names(otel, "service.name") = Absent
    \/ Names(otel, "deployment.environment.name") = Absent

\* (DecideLeniently: a plausible slip, a signal without an endpoint is left
\* out instead of refused.)
DecideLeniently(otel) ==
    IF (\A name \in OtelNames : Read(otel, name) = Absent) \/ Read(otel, Disabled) = "true" THEN Off
    ELSE IF Malformed(otel) THEN Refuse
    ELSE   [on |-> TRUE, environment |-> Names(otel, "deployment.environment.name"),
            endpoints |-> [s \in {t \in Exporting(otel) : Read(otel, Shared) # Absent \/ Read(otel, Own(t)) # Absent}
                             |-> Endpoint(otel, s)]]
Decide(otel) ==
    IF (\A name \in OtelNames : Read(otel, name) = Absent) \/ Read(otel, Disabled) = "true" THEN Off
    ELSE IF Malformed(otel) THEN Refuse
    ELSE IF Exporting(otel) = {} THEN Off
    ELSE IF Incomplete(otel) THEN Refuse
    ELSE   [on |-> TRUE, environment |-> Names(otel, "deployment.environment.name"),
            endpoints |-> [s \in Exporting(otel) |-> Endpoint(otel, s)]]

(***************************************************************************)
(* The layered configuration                                               *)
(***************************************************************************)

Oidc == {"issuer-url", "client-secret"}
Required == {"environment", "static-dir", "password"}
Typed == {"http-port"}
Optional == {"tls-cert", "tls-key", "client-endpoint"}
Leaves == Oidc \cup {"cookie-key"} \cup Required \cup Typed \cup Optional

Default(leaf) ==
    CASE leaf = "environment" -> "dev"
      [] leaf \in {"http-port", "static-dir"} -> "good"
      [] OTHER -> Absent

\* Every leaf a source gives is trimmed before the layers merge.
Trimmed(value) == IF value = "padded" THEN "good" ELSE value

Blank == {Absent, "blank"}

\* sovereign_source_enabled: one of the two variables names the store.
AccessUrls == {"access url file", "access url"}
Managed(s) == \E name \in AccessUrls : s.source[name] \notin Blank

\* The highest layer that has the leaf gives it, a blank included; the managed
\* store is a layer only when it is named.
Merge(s) == [leaf \in Leaves |->
    IF s.environment[leaf] # Absent THEN Trimmed(s.environment[leaf])
    ELSE IF Managed(s) /\ s.sovereign[leaf] # Absent THEN Trimmed(s.sovereign[leaf])
    ELSE Default(leaf)]

\* Each key of a layer has a class of values, and a list that is absent says nothing.
Settings ==
    [otel : [OtelNames -> STRING], source : [AccessUrls -> STRING],
     sovereign : [Leaves -> STRING], environment : [Leaves -> STRING]]
ConstantsOK ==
    /\ First \in Settings
    /\ Edits \subseteq [layer : {"otel"}, key : OtelNames, to : STRING]
                       \cup [layer : {"source"}, key : AccessUrls, to : STRING]
                       \cup [layer : {"sovereign", "environment"}, key : Leaves, to : STRING]
    /\ Absent \notin DOMAIN Said

ObservabilityOk(c) == c["environment"] \notin Blank

\* oidc is optional: it is probed by its issuer, and then all of it is needed.
AuthOn(c) == c["issuer-url"] \notin Blank
OidcOk(c) == AuthOn(c) => \A leaf \in Oidc : c[leaf] \notin Blank
SessionOk(c) == AuthOn(c) => c["cookie-key"] \notin Blank \cup {"junk"}

ServerOk(c) ==
    /\ c["static-dir"] \notin Blank
    /\ c["http-port"] \notin Blank \cup {"junk"}
    /\ c["tls-cert"] \in Blank <=> c["tls-key"] \in Blank
DatabaseOk(c) == c["password"] \notin Blank
ClientTelemetryOk(c) == c["client-endpoint"] # "junk"

(***************************************************************************)
(* Deployments                                                             *)
(***************************************************************************)

Init ==
    /\ settings = First
    /\ phase = "decide" /\ decision = Off
    /\ cfg = [leaf \in Leaves |-> Absent]
    /\ features = {} /\ was = {} /\ since = {}
    /\ edits = 0 /\ faults = 0

\* Settings, phases and features have their values, and only a process that serves offers
\* anything.
TypeOK ==
    /\ phase \in {"decide", "load", "compare", "connect", "discover", "serving", "failed"}
    /\ decision.on \in BOOLEAN
    /\ DOMAIN cfg = Leaves
    /\ features \cup was \subseteq {"auth", "tls", "client telemetry"} \cup Signals
    /\ phase = "serving" \/ features = {}
    /\ edits \in 0..MaxEdits /\ faults \in 0..MaxFaults

To(next) == phase' = next

Fault == faults < MaxFaults /\ faults' = faults + 1

\* observability::init, before anything else.
DecideStep ==
    /\ phase = "decide"
    /\ decision' = Decide(settings.otel)
    /\ To(IF decision' = Refuse THEN "failed" ELSE "load")
    /\ UNCHANGED <<settings, cfg, features, was, since, edits, faults>>

\* SovereignConfigSource (external): which of two URLs it takes, and what it
\* makes of one that is padded, is its own affair.
Found(s) == Managed(s) => \E name \in AccessUrls : s.source[name] \notin Blank \cup {"junk"}
Doubtful(s) == \E name \in AccessUrls : s.source[name] \in {"padded", "junk"}

\* build_config and the groups, each of which can stop the start.
LoadConfig ==
    /\ phase = "load"
    /\ \/ /\ Found(settings)
          /\ cfg' = Merge(settings)
          /\ To(IF /\ ObservabilityOk(cfg') /\ OidcOk(cfg') /\ SessionOk(cfg')
                   /\ ServerOk(cfg') /\ DatabaseOk(cfg') /\ ClientTelemetryOk(cfg')
                THEN "compare" ELSE "failed")
          /\ UNCHANGED faults
       \/ Doubtful(settings) /\ To("failed") /\ UNCHANGED <<cfg, faults>>
       \/ Managed(settings) /\ Fault /\ To("failed") /\ UNCHANGED cfg
    /\ UNCHANGED <<settings, decision, features, was, since, edits>>

\* check_environment: one deployment has one name.
CompareEnvironments ==
    /\ phase = "compare"
    /\ To(IF decision.on /\ decision.environment # cfg["environment"] THEN "failed" ELSE "connect")
    /\ UNCHANGED <<settings, decision, cfg, features, was, since, edits, faults>>

\* What run hands to the router, the listener and the exporters.
Leaf(f) == CASE f = "auth" -> "issuer-url" [] f = "tls" -> "tls-cert" [] OTHER -> "client-endpoint"
Offered(c, d) ==
    {f \in {"auth", "tls", "client telemetry"} : c[Leaf(f)] \notin Blank}
    \cup (IF d.on THEN DOMAIN d.endpoints ELSE {})

ConnectDatabase ==
    /\ phase = "connect"
    /\ \/ To(IF AuthOn(cfg) THEN "discover" ELSE "serving") /\ UNCHANGED faults
       \/ To("failed") /\ Fault
    /\ features' = IF phase' = "serving" THEN Offered(cfg, decision) ELSE {}
    /\ UNCHANGED <<settings, decision, cfg, was, since, edits>>

DiscoverProvider ==
    /\ phase = "discover"
    /\ \/ cfg["issuer-url"] # "junk" /\ To("serving") /\ UNCHANGED faults
       \/ cfg["issuer-url"] = "junk" /\ To("failed") /\ UNCHANGED faults
       \/ To("failed") /\ Fault
    /\ features' = IF phase' = "serving" THEN Offered(cfg, decision) ELSE {}
    /\ UNCHANGED <<settings, decision, cfg, was, since, edits>>

\* The deployer edits a setting and deploys.
Deploy ==
    /\ phase \in {"serving", "failed"}
    /\ edits < MaxEdits
    /\ \E e \in Edits :
         /\ settings[e.layer][e.key] # e.to
         /\ settings' = [settings EXCEPT ![e.layer][e.key] = e.to]
         /\ since' = (IF phase = "serving" THEN {} ELSE since) \cup {e}
    /\ was' = IF phase = "serving" THEN features ELSE was
    /\ features' = {}
    /\ phase' = "decide" /\ decision' = Off
    /\ edits' = edits + 1
    /\ UNCHANGED <<cfg, faults>>

Next ==
    \/ DecideStep \/ LoadConfig \/ CompareEnvironments
    \/ ConnectDatabase \/ DiscoverProvider \/ Deploy

Spec == Init /\ [][Next]_vars

(***************************************************************************)
(* Properties                                                              *)
(***************************************************************************)

\* The edits that say a feature is to be off.
TurnsOff(e, f) ==
    \/ f \in Signals /\ e.layer = "otel"
       /\ \/ e.key = Disabled /\ e.to = "true"
          \/ e.key = Exporter(f) /\ e.to = "none"
    \/ f = "auth" /\ e.key = "issuer-url" /\ e.to \in Blank
    \/ f = "client telemetry" /\ e.key = "client-endpoint" /\ e.to \in Blank

\* The edit that leaves no access URL drops the store, and with it, all at
\* once, whatever the environment does not set as well.
DropsStore(e, f, s) ==
    /\ e.layer = "source" /\ ~Managed(s)
    /\ f \in {"auth", "tls", "client telemetry"} /\ s.environment[Leaf(f)] = Absent

\* One edit silences nothing that a deployment offers: the next one still
\* offers it or fails to start.  Two kinds of edit are the exceptions, the
\* setting that turns the feature off, and the removal of the store's last
\* access URL, after which a start goes on without it as if it were a
\* developer's (config.rs:114-122).  Removing any other variable, blanking or
\* mistyping it never makes a signal, sign-in, TLS or the browser's telemetry
\* quietly go away (settings.rs:11-20 "a deployment that looks configured and
\* exports nowhere", config.rs ServerConfig and load_optional_oidc).
OneEditNeverSilences ==
    phase = "serving" /\ Cardinality(since) = 1 =>
        \A f \in was :
            f \in features \/ \E e \in since : TurnsOff(e, f) \/ DropsStore(e, f, settings)
=============================================================================
