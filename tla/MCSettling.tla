---------------------------- MODULE MCSettling -----------------------------
(****************************************************************************)
(* The machines that have to come to an end, side by side: one run checks   *)
(* each of them on its own small instance. A behaviour picks one machine,   *)
(* which runs as its module says, while the variables of the others stay    *)
(* off.  The sort is extended, for its proofs stand with the composition's; *)
(* the others are instances.                                                *)
(****************************************************************************)
EXTENDS DependencyOrder, Integers

CONSTANTS
    \* the limits of the pool and of the way down, in seconds; those of the exporter
    Connections, DrainTimeout, FlushTimeout, ExportTimeout, RuntimeTimeout, Grace,
    MaxItems, MaxBytes, MaxItemBytes, BatchBytes, KeepaliveBytes, MaxAttempts, GiveUpAfter,
    Sizes,
    \* the cards and the sets of links the search is run on
    Cards, SearchedLinks,
    \* the bounds of the machines
    MaxRequests, MaxFaults, MaxDeploys, MaxOutages, MaxRecorded

VARIABLES
    part,            \* the machine this behaviour is of
    \* AuthSession
    jar, aged, last, login, live, cache, tombs, gate, revoking, req, issued, authFaults,
    ended, forgot,
    \* ServerProcess
    plan, processPhase, tls, handler, signalled, draining, since, left, stage,
    processQueue, unflushed, gaveUpOn, processFaults,
    \* ConnectionGuard
    version, bundle, up, deploys, guardFaults, client, leaving, heartbeatOk, streamOk,
    state, failures, delay, probing, probe, storage, marker, spurned,
    \* TelemetryExport
    exportPhase, outbox, dropped, stopped, refreshed, failedBatches, token, retry, pass,
    recorded, accepted, flushed, exportFaults,
    \* CycleSearch
    edges, predecessor, successor, queue, visited, searchAnswer

\* CycleSearch: the search on every set of up to four links, and every link to add.
SearchLinks == {{}} \cup {{e, f, g, h} : e, f, g, h \in Cards \X Cards}

\* DependencyOrder: the sort on every set of up to three links of a column of four cards,
\* links that leave the column and self-links included.
SortLinks == {{}} \cup {{e, f, g} : e, f, g \in (0 .. N) \X (0 .. N)}

\* ServerProcess: a stream, a cascade that wants a row, and an edit or a second cascade.
Wants(k, r) == [kind |-> k, row |-> r]
RequestPlans == {[s |-> Wants("stream", 0), a |-> Wants("cascade", 1), b |-> k] :
                    k \in {Wants("cascade", 2), Wants("edit", 1)}}

Auth == INSTANCE AuthSessionProofs WITH
    Procs <- {"p", "q"}, NoOne <- "no one", CacheMax <- 2, TombMax <- 4, MaxToken <- 5,
    faults <- authFaults

\* Nobody is no request, and the memories hold something.
ASSUME AuthAssumption == Auth!ConstantsOK

Process == INSTANCE ServerProcessProofs WITH
    Requests <- {"s", "a", "b"}, Plans <- RequestPlans,
    Exports <- {{}, {"traces", "metrics"}},
    phase <- processPhase, queue <- processQueue, faults <- processFaults

\* What the process goes down in fits in the grace period.
ASSUME ProcessAssumption == Process!ConstantsOK

Guard == INSTANCE ConnectionGuard WITH
    Versions <- {"v1", "v2"}, MaxFaults <- MaxOutages, MaxFailures <- 6,
    faults <- guardFaults

Export == INSTANCE TelemetryExportProofs WITH
    MaxTokenFaults <- MaxFaults, phase <- exportPhase, faults <- exportFaults

Search == INSTANCE CycleSearch WITH
    GivenLinks <- SearchedLinks, answer <- searchAnswer

\* The searches are among cards; the sort's links name cards of the column or others.
ASSUME SearchAssumption == Search!ConstantsOK
ASSUME SortAssumption == ConstantsOK

Off == "off"    \* the variables of the machines this behaviour is not of

authVars == <<jar, aged, last, login, live, cache, tombs, gate, revoking, req, issued,
              authFaults, ended, forgot>>
processVars == <<plan, processPhase, tls, handler, signalled, draining, since, left,
                 stage, processQueue, unflushed, gaveUpOn, processFaults>>
guardVars == <<version, bundle, up, deploys, guardFaults, client, leaving, heartbeatOk,
               streamOk, state, failures, delay, probing, probe, storage, marker,
               spurned>>
exportVars == <<exportPhase, outbox, dropped, stopped, refreshed, failedBatches, token,
                retry, pass, recorded, accepted, flushed, exportFaults>>
searchVars == <<edges, predecessor, successor, queue, visited, searchAnswer>>
sortVars == vars

AuthStarts ==
    IF part = "auth" THEN Auth!Init
    ELSE jar = Off /\ aged = Off /\ last = Off /\ login = Off /\ live = Off /\
         cache = Off /\ tombs = Off /\ gate = Off /\ revoking = Off /\ req = Off /\
         issued = Off /\ authFaults = Off /\ ended = Off /\ forgot = Off
ProcessStarts ==
    IF part = "process" THEN Process!Init
    ELSE plan = Off /\ processPhase = Off /\ tls = Off /\ handler = Off /\
         signalled = Off /\ draining = Off /\ since = Off /\ left = Off /\
         stage = Off /\ processQueue = Off /\ unflushed = Off /\ gaveUpOn = Off /\
         processFaults = Off
GuardStarts ==
    IF part = "guard" THEN Guard!Init
    ELSE version = Off /\ bundle = Off /\ up = Off /\ deploys = Off /\
         guardFaults = Off /\ client = Off /\ leaving = Off /\ heartbeatOk = Off /\
         streamOk = Off /\ state = Off /\ failures = Off /\ delay = Off /\
         probing = Off /\ probe = Off /\ storage = Off /\ marker = Off /\ spurned = Off
ExportStarts ==
    IF part = "export" THEN Export!Init
    ELSE exportPhase = Off /\ outbox = Off /\ dropped = Off /\ stopped = Off /\
         refreshed = Off /\ failedBatches = Off /\ token = Off /\ retry = Off /\
         pass = Off /\ recorded = Off /\ accepted = Off /\ flushed = Off /\
         exportFaults = Off
SearchStarts ==
    IF part = "search" THEN Search!Init
    ELSE edges = Off /\ predecessor = Off /\ successor = Off /\ queue = Off /\
         visited = Off /\ searchAnswer = Off
SortStarts ==
    IF part = "sort" THEN Init
    ELSE given = Off /\ inDegree = Off /\ ready = Off /\ ordered = Off /\ answer = Off

SettlingInit ==
    /\ part \in {"auth", "process", "guard", "export", "search", "sort"}
    /\ AuthStarts
    /\ ProcessStarts
    /\ GuardStarts
    /\ ExportStarts
    /\ SearchStarts
    /\ SortStarts

AuthRuns ==
    /\ part = "auth" /\ Auth!Next
    /\ UNCHANGED <<part, processVars, guardVars, exportVars, searchVars, sortVars>>
ProcessRuns ==
    /\ part = "process" /\ Process!Next
    /\ UNCHANGED <<part, authVars, guardVars, exportVars, searchVars, sortVars>>
GuardRuns ==
    /\ part = "guard" /\ Guard!Next
    /\ UNCHANGED <<part, authVars, processVars, exportVars, searchVars, sortVars>>
ExportRuns ==
    /\ part = "export" /\ Export!Next
    /\ UNCHANGED <<part, authVars, processVars, guardVars, searchVars, sortVars>>
SearchRuns ==
    /\ part = "search" /\ Search!Next
    /\ UNCHANGED <<part, authVars, processVars, guardVars, exportVars, sortVars>>
SortRuns ==
    /\ part = "sort" /\ Next
    /\ UNCHANGED <<part, authVars, processVars, guardVars, exportVars, searchVars>>

SettlingNext ==
    \/ AuthRuns
    \/ ProcessRuns
    \/ GuardRuns
    \/ ExportRuns
    \/ SearchRuns
    \/ SortRuns

SettlingVars == <<part, authVars, processVars, guardVars, exportVars, searchVars, sortVars>>

\* Requests, requests to others, timers and loops go on, each as its machine says.
Fairness ==
    /\ \A p \in {"p", "q"} : WF_authVars(part = "auth" /\ Auth!Step(p))
    /\ WF_processVars(part = "process" /\ Process!Acquire)
    /\ \A r \in {"s", "a", "b"} :
          /\ WF_processVars(part = "process" /\ Process!LockRow(r))
          /\ WF_processVars(part = "process" /\ Process!BorrowSecond(r))
          /\ WF_processVars(part = "process" /\ Process!Finish(r) /\ Process!Kind(r) # "stream")
          /\ WF_processVars(part = "process" /\ Process!PoolTimesOut(r))
          /\ WF_processVars(part = "process" /\ Process!LockTimesOut(r))
    /\ WF_guardVars(part = "guard" /\ Guard!Beat)
    /\ WF_guardVars(part = "guard" /\ Guard!ProbeSteps)
    /\ WF_guardVars(part = "guard" /\ Guard!PageLoads)
    /\ WF_exportVars(part = "export" /\ Export!LaunchExpires)
    /\ WF_exportVars(part = "export" /\ Export!Tick)
    /\ WF_exportVars(part = "export" /\ Export!Requests)
    /\ \A s \in {"traces", "logs"} : SF_exportVars(part = "export" /\ Export!BackoffEnds(s))
    /\ WF_searchVars(part = "search" /\ Search!Next)
    /\ WF_sortVars(part = "sort" /\ Next)

SettlingSpec == SettlingInit /\ [][SettlingNext]_SettlingVars /\ Fairness

----------------------------------------------------------------------------
(* What each machine keeps to.                                            *)

\* The type invariants of the machines.
SettlingTypeOK ==
    /\ part = "auth" => Auth!TypeOK
    /\ part = "process" => Process!TypeOK
    /\ part = "guard" => Guard!TypeOK
    /\ part = "export" => Export!TypeOK
    /\ part = "search" => Search!TypeOK
    /\ part = "sort" => TypeOK

\* A refresh token goes to the provider once, unless a memory forgot it or a logout buried it
\* since its request looked (auth/session.rs refresh_session).
NoReplay == part = "auth" => Auth!NoReplay

\* With no fault and nothing forgotten, a session that was not logged out stays good for
\* every request sent with it, in whatever order they run (auth/session.rs).
RefusedForCause == part = "auth" => Auth!RefusedForCause

\* No handler runs for a request sent after its sign-in was logged out, unless a token of the
\* sign-in was forgotten (auth/session.rs invalidate, routes/auth.rs logout).
LogoutHolds == part = "auth" => Auth!LogoutHolds

\* A caught signal ends the process within the grace period, streams before telemetry, and no
\* stream is what the drain gives up on (main.rs, listen.rs, observability.rs).
ExitsInTime == part = "process" => Process!ExitsInTime /\ Process!StreamsEndFirst

\* Each item recorded is held, was accepted, left on a flush, or is counted as dropped
\* (telemetry/outbox.rs, exporter.rs, runtime.rs).
EveryLossCounted == part = "export" => Export!EveryLossCounted

\* The search says "loop" of a new link exactly when its predecessor follows from its
\* successor along the links there are (shared links.rs would_create_cycle).
SearchRight == part = "search" => Search!AnswerRight

\* The sort returns the smallest order by current position that satisfies the links, and says
\* there is none exactly when there is none, naming the cards on or behind a loop
\* (shared links.rs dependency_order).
SortRight == part = "sort" => SmallestOrder /\ CycleNamed

\* What is under way comes to its end, and stays so once the bounds leave nothing to start:
\* every request is answered and no gate stays locked; whoever waits for a connection or a
\* lock has been answered; a tab has stopped reloading, runs the server's version and says it
\* is connected; the exporter holds nothing; the search and the sort end, on loops too.
Settled ==
    /\ part = "auth" => \A p \in {"p", "q"} : req[p] = Auth!Idle
    /\ part = "process" => Process!NobodyWaits
    /\ part = "guard" => Guard!Steady
    /\ part = "export" => Export!Drained
    /\ part = "search" => searchAnswer # "searching"
    /\ part = "sort" => answer # "sorting"
PartsSettle == <>[]Settled
============================================================================
