-------------------------- MODULE ConnectionGuard --------------------------
(***************************************************************************)
(* A tab's heartbeat and its deploy-triggered reload (frontend:            *)
(* connection.rs): the scheduled probe and the one an error of the event   *)
(* stream adds, the state the tab shows, and the marker in sessionStorage  *)
(* that keeps a reload which does not help from being repeated.            *)
(*                                                                         *)
(* The server's version, what a reload is served and whether the server    *)
(* answers are the environment's.                                          *)
(*                                                                         *)
(* Abstracted: time; the navbar and the telemetry that the same answer     *)
(* configures; the warning logged once.                                    *)
(***************************************************************************)
EXTENDS Integers

CONSTANTS
    Versions,        \* release tags
    MaxDeploys,      \* bound: deploys in one behaviour
    MaxFaults,       \* bound: times the server or the stream goes away
    MaxFailures      \* bound: where the count of failures saturates (u32::MAX in the code)

Unsaid == "unsaid"   \* an empty version
Absent == "absent"   \* no marker
Probes == {"loop", "extra"}

VARIABLES
    version, bundle, up,         \* what /api/info says, what a reload gets, whether it answers
    deploys, faults,
    client,                      \* the version compiled into the page
    leaving,                     \* location.reload() was called, and the page still runs
    heartbeatOk, streamOk, state,
    failures, delay,             \* failed heartbeats in a row; the wait after the last one
    probing,                     \* an extra probe is claimed
    probe,                       \* probe[p]: "idle", "asked", "failed" or what the answer says
    storage,                     \* "works", "blocked", or "full": the marker cannot be written
    marker,                      \* the version last reloaded for
    spurned                      \* history: the last reload came back with another bundle

server == <<version, bundle, up, deploys, faults>>
page == <<heartbeatOk, streamOk, state, failures, delay, probing, probe>>
guardVars == <<server, page, client, leaving, storage, marker, spurned>>

Combine(heartbeat, stream) == IF heartbeat /\ stream THEN "Connected" ELSE "Disconnected"

\* next_delay_ms: 1 s, doubled for each failure, 10 s at most and while healthy.
NextDelay(n) ==
    IF n = 0 \/ n > 4 THEN 10000 ELSE 1000 * (2 ^ (n - 1))

\* A page as it is loaded: the loop's first probe is under way.
Fresh ==
    /\ heartbeatOk = TRUE /\ streamOk = TRUE /\ state = "Connected"
    /\ failures = 0 /\ delay = 0 /\ probing = FALSE
    /\ probe = [loop |-> "asked", extra |-> "idle"]

Init ==
    /\ version \in Versions /\ bundle = version /\ client = version
    /\ up = TRUE /\ deploys = 0 /\ faults = 0
    /\ leaving = FALSE
    /\ Fresh
    /\ storage \in {"works", "blocked", "full"}
    /\ marker = Absent
    /\ spurned = FALSE

----------------------------------------------------------------------------
(* The environment.                                                        *)

\* A release, whose bundle a reload gets unless the image or a cached page says otherwise.
Deploy ==
    /\ deploys < MaxDeploys
    /\ \E v \in Versions \cup {Unsaid} : v # version /\ version' = v
    /\ \E b \in Versions : b \in {version', bundle} /\ bundle' = b
    /\ deploys' = deploys + 1
    /\ UNCHANGED <<up, faults, page, client, leaving, storage, marker, spurned>>

GoesAway ==
    /\ up /\ faults < MaxFaults
    /\ up' = FALSE /\ faults' = faults + 1
    /\ UNCHANGED <<version, bundle, deploys, page, client, leaving, storage, marker, spurned>>

ComesBack ==
    /\ ~up /\ up' = TRUE
    /\ UNCHANGED <<version, bundle, deploys, faults, page, client, leaving, storage, marker,
                   spurned>>

----------------------------------------------------------------------------
(* The stream's reports.                                                   *)

\* The slot is claimed as the probe is asked for; a claimed one is not asked for again.
StreamDown ==
    /\ faults < MaxFaults /\ faults' = faults + 1
    /\ streamOk' = FALSE
    /\ state' = Combine(heartbeatOk, FALSE)
    /\ probing' = TRUE
    /\ probe' = IF probing THEN probe ELSE [probe EXCEPT !.extra = "asked"]
    /\ UNCHANGED <<version, bundle, up, deploys, heartbeatOk, failures, delay, client, leaving,
                   storage, marker, spurned>>

\* stream_up, and stream_reset of a page without a stream.
StreamUp ==
    /\ ~streamOk
    /\ streamOk' = TRUE
    /\ state' = Combine(heartbeatOk, TRUE)
    /\ UNCHANGED <<server, heartbeatOk, failures, delay, probing, probe, client, leaving,
                   storage, marker, spurned>>

----------------------------------------------------------------------------
(* A heartbeat.                                                            *)

\* The delay is over.
Beat ==
    /\ probe.loop = "idle"
    /\ probe' = [probe EXCEPT !.loop = "asked"]
    /\ UNCHANGED <<server, heartbeatOk, streamOk, state, failures, delay, probing, client,
                   leaving, storage, marker, spurned>>

\* The server reads its version, or nothing comes back before the deadline.
Answers(p) ==
    /\ probe[p] = "asked"
    /\ probe' = [probe EXCEPT ![p] = IF up THEN version ELSE "failed"]
    /\ UNCHANGED <<server, heartbeatOk, streamOk, state, failures, delay, probing, client,
                   leaving, storage, marker, spurned>>

\* The probe is over: the loop waits, the extra one frees its slot.
Over(p, n) ==
    /\ probe' = [probe EXCEPT ![p] = "idle"]
    /\ probing' = (probing /\ p # "extra")
    /\ failures' = n
    /\ delay' = IF p = "loop" THEN NextDelay(n) ELSE delay

Fails(p) ==
    /\ probe[p] = "failed"
    /\ Over(p, IF failures < MaxFailures THEN failures + 1 ELSE failures)
    /\ heartbeatOk' = FALSE
    /\ state' = Combine(FALSE, streamOk)
    /\ UNCHANGED <<server, streamOk, client, leaving, storage, marker, spurned>>

\* reload_decision, on the marker as read_marker finds it: a test write comes first.
Decision(v) ==
    IF v \in {Unsaid, client} THEN "Stay"
    ELSE IF storage = "blocked" \/ marker = v THEN "Blocked"
    ELSE "Reload"

\* The versions agree: the next deploy is free to reload.
ClearMarker ==
    /\ marker' = IF storage = "blocked" THEN marker ELSE Absent
    /\ spurned' = FALSE

Succeeds(p) ==
    /\ probe[p] \notin {"idle", "asked", "failed"}
    /\ Over(p, 0)
    /\ heartbeatOk' = TRUE
    /\ state' = Combine(TRUE, streamOk)
    /\ LET v == probe[p]
           d == Decision(v)
       IN  \/ d = "Stay" /\ ClearMarker /\ UNCHANGED leaving
           \/ d = "Reload" /\ storage = "works" /\ marker' = v /\ leaving' = TRUE
              /\ UNCHANGED spurned
           \/ /\ d = "Blocked" \/ (d = "Reload" /\ storage = "full")
              /\ UNCHANGED <<marker, leaving, spurned>>
    /\ UNCHANGED <<server, streamOk, client, storage>>

\* The reload commits: a fresh page, of the bundle there is, and the marker of the old one.
PageLoads ==
    /\ leaving /\ up
    /\ leaving' = FALSE
    /\ client' = bundle
    /\ heartbeatOk' = TRUE /\ streamOk' = TRUE /\ state' = "Connected"
    /\ failures' = 0 /\ delay' = 0 /\ probing' = FALSE
    /\ probe' = [loop |-> "asked", extra |-> "idle"]
    /\ spurned' = (bundle # marker)
    /\ UNCHANGED <<server, storage, marker>>

----------------------------------------------------------------------------

Environment == Deploy \/ GoesAway \/ ComesBack \/ StreamDown \/ StreamUp
ProbeSteps == \E p \in Probes : Answers(p) \/ Fails(p) \/ Succeeds(p)

Next == Environment \/ Beat \/ ProbeSteps \/ PageLoads

\* Timers fire, a request ends by its deadline and a reload commits.
Fairness == WF_guardVars(Beat) /\ WF_guardVars(ProbeSteps) /\ WF_guardVars(PageLoads)

Spec == Init /\ [][Next]_guardVars /\ Fairness

----------------------------------------------------------------------------

\* The page's state is what its two signals combine to, a marker is only where one can
\* be kept, and an extra probe runs only claimed.
TypeOK ==
    /\ version \in Versions \cup {Unsaid} /\ {bundle, client} \subseteq Versions
    /\ marker \in Versions \cup {Absent}
    /\ marker # Absent => storage = "works"
    /\ failures \in 0 .. MaxFailures /\ delay \in 0 .. 10000
    /\ state = Combine(heartbeatOk, streamOk)
    /\ probe.extra # "idle" <=> probing

Agreed == up /\ bundle = version /\ storage = "works" /\ ~spurned
Well == up /\ streamOk /\ ~leaving

\* Once there are no more deploys a tab stops reloading, however the image's version and its
\* bundle disagree and whatever late answer clears the marker. Where the server serves the
\* version it reports, a tab that can remember a reload runs that version unless its last
\* reload came back with another one; and it says it is connected if its stream is well too.
Steady ==
    /\ ~(leaving /\ up)
    /\ Agreed => client = version
    /\ Well => state = "Connected"
============================================================================
