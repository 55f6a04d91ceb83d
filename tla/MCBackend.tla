----------------------------- MODULE MCBackend -----------------------------
(****************************************************************************)
(* The machines of the backend, of its deploys and of the MCP server, side  *)
(* by side: one run checks each of them on its own small instance. A        *)
(* behaviour picks one machine, which runs as its module says, while the    *)
(* variables of the others stay off.                                        *)
(****************************************************************************)
EXTENDS Integers, TLC

CONSTANTS
    \* CardHistory: the requests and who makes them
    Handlers, Editors, Sessions,
    \* CutOver: the SurrealDB stores there may be
    Stores,
    \* SignIn: who signs in with what, and the provider's keys
    Tabs, Bearers, Tokens, Paths, NotRsa, DiscoveryAttempts,
    \* McpServer: the calls, and the times of tokens and requests
    Calls, Kinds, Lifetimes, Margin, Skew, Transit,
    \* Startup: the settings there are, the first ones, and the edits a deployer makes
    Signals, Shaped, Said, First, Edits,
    \* the bounds of the machines
    MaxRequests, MaxFaults, MaxEdits, MaxChanges, MaxCards, MaxDeploys, MaxRollbacks, MaxRotations,
    MaxLogins, MaxTime

VARIABLES
    part,            \* the machine this behaviour is of
    \* CardPositions
    home, pos, req, shown, issued, positionsFaults, crossed, astray,
    \* CardHistory
    row, history, clock, request, historyEdits, overlapped,
    \* CutOver
    old, pg, seq, box, pc, copy, rows, report, restoring, made, deploys, cutOverFaults,
    rollbacks, lost, clashed,
    \* SignIn
    boot, published, newest, cache, cookie, tab, look, logins, signInFaults,
    \* Startup
    settings, phase, decision, cfg, features, was, since, startupEdits, startupFaults,
    \* McpServer
    now, token, holder, call, mcpFaults

\* CardPositions: columns as edits, restores and earlier moves may have left them: crowded,
\* equal and below the top, at the limit of a position of seven bits, and two columns.
Layout(x, y, z, third) ==
    [home |-> (1 :> "todo" @@ 2 :> "todo" @@ 3 :> third), pos |-> (1 :> x @@ 2 :> y @@ 3 :> z)]
StartLayouts ==
    {Layout(4, 5, 6, "todo"), Layout(-3, -3, 9, "todo"), Layout(61, 63, 2, "todo"),
     Layout(8, 4, 4, "done")}
\* All the cards, some of them, and one alone.
StartOrders == {<<3, 2, 1>>, <<2, 3>>, <<3>>}

\* CutOver: a store with a card whose column is gone, one whose counter lags behind, one
\* with a deleted card above the counter, and one the import refuses.
Card(i, k, n) == [id |-> i, column |-> k, number |-> n]
Store(cs, ls, n, ds) == [cards |-> cs, links |-> ls, counter |-> n, deleted |-> ds]
StartStores ==
    {Store({Card(1, "todo", 1), Card(2, "todo", 1), Card(3, "gone", 2)}, {<<1, 2>>, <<1, 3>>}, 2, {}),
     Store({Card(1, "todo", 2), Card(2, "todo", 2)}, {}, 1, {Card(3, "todo", 2)}),
     Store({Card(1, "todo", 1)}, {}, 1, {Card(3, "todo", 3)}),
     Store({Card(1, "todo", 0)}, {}, 0, {})}

\* SignIn: a bearer with a token signed with the provider's first key.
BearerTokens == {[kid |-> 1, rsa |-> TRUE, ours |-> TRUE, scope |-> TRUE]}
ForeignPaths == {[local |-> FALSE, name |-> "x"]}

\* Startup: everything set, and single edits of every kind of setting.
Environment == "deployment.environment.name"
SaidLists ==
    "dev" :> (Environment :> "dev") @@ "prod" :> (Environment :> "prod")
    @@ "bored" :> ("service.name" :> "bored")
    @@ "both" :> (Environment :> "dev" @@ "service.name" :> "bored")
HeaderNames == {<<"headers">>}
Otel == {<<"endpoint">>, <<"disabled">>, <<"service name">>, <<"attributes">>, <<"headers">>}
        \cup {<<v, s>> : v \in {"exporter", "endpoint"}, s \in {"traces", "logs"}}
Leaves == {"issuer-url", "client-secret", "cookie-key", "environment", "static-dir", "password",
           "http-port", "tls-cert", "tls-key", "client-endpoint"}
FirstSettings ==
    [otel |-> [n \in Otel |-> CASE n \in {<<"endpoint">>, <<"service name">>} -> "good"
                                [] n = <<"attributes">> -> "dev"
                                [] OTHER -> "absent"],
     source |-> ("access url file" :> "good" @@ "access url" :> "absent"),
     sovereign |-> [n \in Leaves |-> IF n \in {"issuer-url", "client-secret", "password",
                                               "cookie-key", "client-endpoint"}
                                     THEN "good" ELSE "absent"],
     environment |-> [n \in Leaves |-> CASE n \in {"tls-cert", "tls-key"} -> "padded"
                                         [] n = "environment" -> "dev"
                                         [] OTHER -> "absent"]]
To(l, ks, vs) == {[layer |-> l, key |-> k, to |-> v] : k \in ks, v \in vs}
SingleEdits ==
    To("otel", {<<"endpoint">>, <<"endpoint", "traces">>, <<"service name">>}, {"absent", "good", "junk"})
    \cup To("otel", {<<"headers">>}, {"blank", "padded", "junk"})
    \cup To("otel", {<<"exporter", "traces">>}, {"absent", "none", "otlp", "junk"})
    \cup To("otel", {<<"exporter", "logs">>}, {"none", "otlp"})
    \cup To("otel", {<<"disabled">>}, {"true", "false", "junk"})
    \cup To("otel", {<<"attributes">>}, {"absent", "junk"} \cup DOMAIN SaidLists)
    \cup To("environment", {"issuer-url", "tls-cert", "tls-key", "client-endpoint"},
            {"absent", "blank", "good"})
    \cup To("environment", {"environment"}, {"dev", "prod", "blank", "absent"})
    \cup To("environment", {"http-port"}, {"blank", "junk"})
    \cup To("environment", {"password"}, {"good"})
    \cup To("source", {"access url file"}, {"absent", "blank", "padded", "junk"})
    \cup To("source", {"access url"}, {"good"})
    \cup To("sovereign", {"issuer-url", "client-secret", "password", "cookie-key", "client-endpoint"},
            {"absent", "good", "junk"})

\* McpServer: a partial update, one of nothing, a bad id, and a link.
ToolCall(name, good, given) == [tool |-> name, good |-> good, fields |-> given]
ToolCalls ==
    {ToolCall("update_card", {"card_id"}, {"body"}), ToolCall("update_column", {"column_id"}, {}),
     ToolCall("delete_column", {}, {}),
     ToolCall("link_cards", {"predecessor_id", "successor_id"}, {"other_card_id"})}

Positions == INSTANCE CardPositions WITH
    Procs <- {"p", "q"}, Columns <- {"todo", "done"}, Cards <- 1 .. 4, Made <- 1 .. 3,
    Width <- 7, Gap <- 4, Layouts <- StartLayouts, Orders <- StartOrders,
    faults <- positionsFaults

History == INSTANCE CardHistory WITH Actors <- Editors, edits <- historyEdits

CutOver == INSTANCE CutOver WITH faults <- cutOverFaults

\* Every store has finitely many cards.
ASSUME CutOverAssumption == CutOver!ConstantsOK

SignIn == INSTANCE SignIn WITH faults <- signInFaults

\* A request signs in or carries a token of its own.
ASSUME SignInAssumption == SignIn!ConstantsOK

Startup == INSTANCE Startup WITH
    MaxEdits <- MaxChanges, edits <- startupEdits, faults <- startupFaults

\* Every key has a class of values, before and after an edit.
ASSUME StartupAssumption == Startup!ConstantsOK

Mcp == INSTANCE McpServer WITH faults <- mcpFaults

\* A request gets to the backend within the margin.
ASSUME McpAssumption == Mcp!ConstantsOK

Off == "off"    \* the variables of the machines this behaviour is not of

positionsVars == <<home, pos, req, shown, issued, positionsFaults, crossed, astray>>
historyVars == <<row, history, clock, request, historyEdits, overlapped>>
cutOverVars == <<old, pg, seq, box, pc, copy, rows, report, restoring, made, deploys,
                 cutOverFaults, rollbacks, lost, clashed>>
signInVars == <<boot, published, newest, cache, cookie, tab, look, logins, signInFaults>>
startupVars == <<settings, phase, decision, cfg, features, was, since, startupEdits,
                 startupFaults>>
mcpVars == <<now, token, holder, call, mcpFaults>>

PositionsStarts ==
    IF part = "positions" THEN Positions!Init
    ELSE home = Off /\ pos = Off /\ req = Off /\ shown = Off /\ issued = Off /\
         positionsFaults = Off /\ crossed = Off /\ astray = Off
HistoryStarts ==
    IF part = "history" THEN History!Init
    ELSE row = Off /\ history = Off /\ clock = Off /\ request = Off /\
         historyEdits = Off /\ overlapped = Off
CutOverStarts ==
    IF part = "cutOver" THEN CutOver!Init
    ELSE old = Off /\ pg = Off /\ seq = Off /\ box = Off /\ pc = Off /\ copy = Off /\
         rows = Off /\ report = Off /\ restoring = Off /\ made = Off /\ deploys = Off /\
         cutOverFaults = Off /\ rollbacks = Off /\ lost = Off /\ clashed = Off
SignInStarts ==
    IF part = "signIn" THEN SignIn!Init
    ELSE boot = Off /\ published = Off /\ newest = Off /\ cache = Off /\ cookie = Off /\
         tab = Off /\ look = Off /\ logins = Off /\ signInFaults = Off
StartupStarts ==
    IF part = "startup" THEN Startup!Init
    ELSE settings = Off /\ phase = Off /\ decision = Off /\ cfg = Off /\
         features = Off /\ was = Off /\ since = Off /\ startupEdits = Off /\
         startupFaults = Off
McpStarts ==
    IF part = "mcp" THEN Mcp!Init
    ELSE now = Off /\ token = Off /\ holder = Off /\ call = Off /\ mcpFaults = Off

BackendInit ==
    /\ part \in {"positions", "history", "cutOver", "signIn", "startup", "mcp"}
    /\ PositionsStarts
    /\ HistoryStarts
    /\ CutOverStarts
    /\ SignInStarts
    /\ StartupStarts
    /\ McpStarts

PositionsRuns ==
    /\ part = "positions" /\ Positions!Next
    /\ UNCHANGED <<part, historyVars, cutOverVars, signInVars, startupVars, mcpVars>>
HistoryRuns ==
    /\ part = "history" /\ History!Next
    /\ UNCHANGED <<part, positionsVars, cutOverVars, signInVars, startupVars, mcpVars>>
CutOverRuns ==
    /\ part = "cutOver" /\ CutOver!Next
    /\ UNCHANGED <<part, positionsVars, historyVars, signInVars, startupVars, mcpVars>>
SignInRuns ==
    /\ part = "signIn" /\ SignIn!Next
    /\ UNCHANGED <<part, positionsVars, historyVars, cutOverVars, startupVars, mcpVars>>
StartupRuns ==
    /\ part = "startup" /\ Startup!Next
    /\ UNCHANGED <<part, positionsVars, historyVars, cutOverVars, signInVars, mcpVars>>
McpRuns ==
    /\ part = "mcp" /\ Mcp!Next
    /\ UNCHANGED <<part, positionsVars, historyVars, cutOverVars, signInVars,
                   startupVars>>

BackendNext ==
    \/ PositionsRuns
    \/ HistoryRuns
    \/ CutOverRuns
    \/ SignInRuns
    \/ StartupRuns
    \/ McpRuns

BackendVars == <<part, positionsVars, historyVars, cutOverVars, signInVars, startupVars, mcpVars>>

BackendSpec == BackendInit /\ [][BackendNext]_BackendVars

----------------------------------------------------------------------------
(* What each machine keeps to.                                            *)

\* The type invariants of the machines.
BackendTypeOK ==
    /\ part = "positions" => Positions!TypeOK
    /\ part = "history" => History!TypeOK
    /\ part = "cutOver" => CutOver!TypeOK
    /\ part = "signIn" => SignIn!TypeOK
    /\ part = "startup" => Startup!TypeOK
    /\ part = "mcp" => Mcp!TypeOK

\* A card goes to the index it was asked for and nothing else moves, when nobody else wrote
\* since the request's first read (routes/cards.rs create_card, move_card).
PlacedWhereAsked == part = "positions" => Positions!PlacedWhereAsked

\* A reorder nobody interfered with leaves the column in the order asked for, with positions
\* that tell its cards apart (routes/cards.rs reorder_cards).
ReorderedAsAsked == part = "positions" => Positions!ReorderedAsAsked

\* The events of placements, renumberings and reorders, applied as they come, keep a tab's
\* lists as they are stored, for every settled column (routes/cards.rs, events.rs).
TabShowsTheColumn == part = "positions" => Positions!TabShowsTheColumn

\* A card's history reads as the card changed, through merged stretches of editing, as long
\* as no two requests for the card overlapped (audit.rs try_merge_card_update_audit).
HistoryReads == part = "history" => History!HistoryReads

\* No deploy drops a card that nobody gave up and the import's report does not name, and no
\* new card is refused its number (surreal_migration.rs, migrate-from-surreal.sh, audit.rs).
CutOverKeepsCards == part = "cutOver" => CutOver!NothingDropped /\ CutOver!NumbersRunAhead

\* A sign-in nobody disturbs works, across key rotations and concurrent refreshes of the
\* keys (routes/auth.rs callback, auth/jwt.rs get and refresh).
SignInsFailForCause == part = "signIn" => SignIn!SignInsFailForCause

\* No single edit of the settings makes a signal, sign-in, TLS or the browser's telemetry
\* quietly go away, but for the settings that turn it off and the last access URL of the
\* managed store (config.rs, observability/settings.rs).
OneEditNeverSilences == part = "startup" => Startup!OneEditNeverSilences

\* A tool changes only what it was given and tells the truth about it, and a token from the
\* cache never runs out on the way, only one the call waited for itself (mcp/src/server.rs get_token, fetch, the tools).
CallsTellTheTruth == part = "mcp" => Mcp!CallsTellTheTruth
============================================================================
