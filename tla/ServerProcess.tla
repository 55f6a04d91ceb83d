--------------------------- MODULE ServerProcess ---------------------------
(***************************************************************************)
(* The life of the backend's process: it starts (main.rs), serves over TLS *)
(* or plain HTTP (listen.rs), shares one pool of connections among its     *)
(* requests (db.rs, routes/cascade.rs), and goes down: on SIGTERM it drains*)
(* what is open for a bounded time, flushes its telemetry for a bounded    *)
(* time (observability.rs) and winds the runtime down, before the SIGKILL  *)
(* docker sends at the end of the grace period.                            *)
(*                                                                         *)
(* Abstracted: what a request asks, to its kind; time, to the seconds since*)
(* the signal and those left of a bounded wait.  A wait for a connection or*)
(* for a row's lock may time out whenever it lasts.                        *)
(***************************************************************************)
EXTENDS Integers, FiniteSets, Sequences, SequencesExt

CONSTANTS
    Requests,        \* requests the process may get
    Plans,           \* what they ask: [Requests -> [kind: {"stream", "edit", "cascade"}, row: rows]]
    Exports,         \* sets of signals the deployment may export
    Connections,     \* connections of the pool
    DrainTimeout, FlushTimeout, ExportTimeout, RuntimeTimeout, Grace,   \* seconds
    MaxFaults        \* bound: startup failures, panics, listeners that fail

Signals == {"traces", "logs", "metrics"}
Startup == {"telemetry", "config", "database", "discovery", "bind"}

\* Each bound is a length of time; the three of the way down fit in the grace period.
ConstantsOK ==
    /\ IsFiniteSet(Requests) /\ Connections \in Nat
    /\ DrainTimeout \in Nat \ {0} /\ FlushTimeout \in Nat
    /\ ExportTimeout \in Nat /\ RuntimeTimeout \in Nat
    /\ Grace \in Nat /\ DrainTimeout + 2 * FlushTimeout + RuntimeTimeout < Grace
    /\ Exports \subseteq SUBSET Signals

VARIABLES
    plan,            \* what each request asks
    phase,           \* what main is at
    tls,             \* which listener the configuration calls for
    handler,         \* the signal handlers are installed
    signalled,       \* SIGTERM or SIGINT was caught
    draining,        \* the drain signal is raised
    since, left,     \* seconds since the signal; seconds left of the bounded wait
    stage,           \* each request's
    queue,           \* requests that wait for a connection, first come first served
    unflushed,       \* signals whose provider has not stopped
    gaveUpOn,        \* requests open when the drain timed out
    faults

processVars == <<plan, phase, tls, handler, signalled, draining, since, left, stage, queue,
                 unflushed, gaveUpOn, faults>>

time == <<since, left>>
signal == <<handler, signalled, draining>>

Init ==
    /\ plan \in Plans /\ phase = "telemetry" /\ tls \in BOOLEAN
    /\ handler = FALSE /\ signalled = FALSE /\ draining = FALSE
    /\ since = 0 /\ left = 0
    /\ stage = [r \in Requests |-> "away"] /\ queue = <<>>
    /\ unflushed = {} /\ gaveUpOn = {} /\ faults = 0

----------------------------------------------------------------------------
(* Startup.                                                                *)

Fails == faults < MaxFaults /\ faults' = faults + 1

FlushPhase == phase' = "flush" /\ left' = 2 * FlushTimeout

\* OTEL_*: off, or on for some of the signals; an invalid set ends the process at once.
StartTelemetry ==
    /\ phase = "telemetry"
    /\ \/ phase' = "config" /\ unflushed' \in Exports /\ UNCHANGED faults
       \/ phase' = "failed" /\ Fails /\ UNCHANGED unflushed
    /\ UNCHANGED <<plan, tls, signal, time, stage, queue, gaveUpOn>>

\* Configuration, the database with its migrations, the identity provider, the listener: an
\* error or a panic of any goes to the flush.
StartStep(from, to) ==
    /\ phase = from
    /\ \/ phase' = to /\ UNCHANGED <<left, faults>>
       \/ FlushPhase /\ Fails
    /\ UNCHANGED <<plan, tls, signal, since, stage, queue, unflushed, gaveUpOn>>

Start ==
    \/ StartTelemetry
    \/ StartStep("config", "database")
    \/ StartStep("database", "discovery")
    \/ StartStep("discovery", "bind")
    \/ StartStep("bind", "serve")

\* shutdown_signal is polled for the first time once the server runs.
InstallHandlers ==
    /\ phase = "serve" /\ ~handler
    /\ handler' = TRUE
    /\ UNCHANGED <<plan, phase, tls, signalled, draining, time, stage, queue, unflushed, gaveUpOn, faults>>

----------------------------------------------------------------------------
(* Requests.                                                               *)

Kind(r) == plan[r].kind
Queued == {queue[i] : i \in DOMAIN queue}
In(these) == {r \in Requests : stage[r] \in these}
Held == Cardinality(In({"locking", "working", "second"})) + 2 * Cardinality(In({"recording"}))
Over == {"ok", "failed", "dropped"}
Open == {r \in Requests : stage[r] \notin Over \cup {"away"}}

\* The runtime polls requests until it is wound down.
Running == phase \in {"serve", "drain", "flush", "wind"}

Go(r, to) == stage' = [stage EXCEPT ![r] = to]
SameProcess == UNCHANGED <<plan, phase, tls, signal, time, unflushed, gaveUpOn>>

\* Accepted while the listener is open, which it still is for a moment after the drain signal.
Arrive(r) ==
    /\ stage[r] = "away"
    /\ phase = "serve" \/ (phase = "drain" /\ since = 0)
    /\ IF Kind(r) \in {"edit", "cascade"}
       THEN Go(r, "queued") /\ queue' = Append(queue, r)
       ELSE Go(r, "open") /\ UNCHANGED queue
    /\ UNCHANGED faults /\ SameProcess

\* A connection is free: the first in the queue takes it.
Acquire ==
    /\ Running /\ queue # <<>> /\ Held < Connections
    /\ LET r == Head(queue)
       IN  Go(r, IF stage[r] = "queued" THEN "locking" ELSE "recording")
    /\ queue' = Tail(queue)
    /\ UNCHANGED faults /\ SameProcess

\* SELECT .. FOR UPDATE, or the UPDATE of an edit: one transaction has a row.
LockRow(r) ==
    /\ Running /\ stage[r] = "locking"
    /\ \A q \in In({"working", "second", "recording"}) : plan[q].row # plan[r].row
    /\ Go(r, "working")
    /\ UNCHANGED <<queue, faults>> /\ SameProcess

\* delete_cards: the links and the audit row go through the pool, the transaction stays open.
BorrowSecond(r) ==
    /\ Running /\ Kind(r) = "cascade" /\ stage[r] = "working"
    /\ Go(r, "second") /\ queue' = Append(queue, r)
    /\ UNCHANGED faults /\ SameProcess

\* COMMIT; a browser leaves its stream.
Finish(r) ==
    /\ Running
    /\ stage[r] \in {"recording", "open"} \/ (Kind(r) = "edit" /\ stage[r] = "working")
    /\ Go(r, "ok")
    /\ UNCHANGED <<queue, faults>> /\ SameProcess

\* PoolTimedOut; whatever the request holds is given back.
PoolTimesOut(r) ==
    /\ Running /\ \E i \in DOMAIN queue : queue[i] = r /\ queue' = RemoveAt(queue, i)
    /\ Go(r, "failed")
    /\ UNCHANGED faults /\ SameProcess

\* lock_timeout.
LockTimesOut(r) ==
    /\ Running /\ stage[r] = "locking"
    /\ Go(r, "failed")
    /\ UNCHANGED <<queue, faults>> /\ SameProcess

\* A panic is that request's 500.
Panic(r) ==
    /\ Running /\ stage[r] \in {"working", "recording"} /\ Fails
    /\ Go(r, "failed")
    /\ UNCHANGED queue /\ SameProcess

\* Mutant: the stream does not watch the signal.
SeesNoSignal(r) == FALSE

\* take_until(draining.started()): raised before or after the stream began.
SeesSignal(r) == draining

StreamEnds(r) ==
    /\ Running /\ Kind(r) = "stream" /\ stage[r] = "open" /\ SeesSignal(r)
    /\ Go(r, "ok")
    /\ UNCHANGED <<queue, faults>> /\ SameProcess

Request(r) ==
    \/ Arrive(r) \/ LockRow(r) \/ BorrowSecond(r) \/ Finish(r)
    \/ PoolTimesOut(r) \/ LockTimesOut(r) \/ Panic(r) \/ StreamEnds(r)

----------------------------------------------------------------------------
(* Going down.                                                             *)

\* Without a handler the signal ends the process there.
Signal ==
    /\ ~signalled /\ phase \notin {"exited", "failed", "killed"}
    /\ IF handler
       THEN signalled' = TRUE /\ UNCHANGED phase
       ELSE phase' = "exited" /\ UNCHANGED signalled
    /\ UNCHANGED <<plan, tls, handler, draining, time, stage, queue, unflushed, gaveUpOn, faults>>

\* The drain signal first, then the listener stops.
StartDrain ==
    /\ phase = "serve" /\ signalled
    /\ phase' = "drain" /\ draining' = TRUE /\ left' = DrainTimeout
    /\ UNCHANGED <<plan, tls, handler, signalled, since, stage, queue, unflushed, gaveUpOn, faults>>

\* The listener fails: serve returns, and nobody raises the drain signal.
ServerFails ==
    /\ phase = "serve" /\ Fails
    /\ FlushPhase
    /\ UNCHANGED <<plan, tls, signal, since, stage, queue, unflushed, gaveUpOn>>

Drained ==
    /\ phase = "drain" /\ Open = {}
    /\ FlushPhase
    /\ UNCHANGED <<plan, tls, signal, since, stage, queue, unflushed, gaveUpOn, faults>>

DrainOver == left = 0

\* axum-server closes what is still open; the plain branch stops waiting for it.
DrainTimesOut ==
    /\ phase = "drain" /\ DrainOver /\ Open # {}
    /\ FlushPhase
    /\ gaveUpOn' = Open
    /\ IF tls
       THEN /\ stage' = [r \in Requests |-> IF r \in Open THEN "dropped" ELSE stage[r]]
            /\ queue' = <<>>
       ELSE UNCHANGED <<stage, queue>>
    /\ UNCHANGED <<plan, tls, signal, since, unflushed, faults>>

\* One provider's shutdown returns, on a thread of its own.
Flushed(s) ==
    /\ phase = "flush" /\ s \in unflushed
    /\ unflushed' = unflushed \ {s}
    /\ UNCHANGED <<plan, phase, tls, signal, time, stage, queue, gaveUpOn, faults>>

\* All have stopped, or the outer bound is up.
FlushOver == unflushed = {} \/ left = 0

EndFlush ==
    /\ phase = "flush" /\ FlushOver
    /\ phase' = "wind" /\ left' = RuntimeTimeout
    /\ UNCHANGED <<plan, tls, signal, since, stage, queue, unflushed, gaveUpOn, faults>>

\* shutdown_timeout: tasks are dropped where they are, blocking ones get a moment more.
Exit ==
    /\ phase = "wind" /\ (unflushed = {} \/ left = 0)
    /\ phase' = "exited"
    /\ stage' = [r \in Requests |-> IF r \in Open THEN "dropped" ELSE stage[r]]
    /\ queue' = <<>>
    /\ UNCHANGED <<plan, tls, signal, time, unflushed, gaveUpOn, faults>>

\* What is due at once is done before a second has passed.
Due ==
    \/ phase = "serve" /\ signalled
    \/ phase = "drain" /\ (DrainOver \/ Open = {} \/ \E r \in Open : Kind(r) = "stream" /\ SeesSignal(r))
    \/ phase = "flush" /\ FlushOver
    \/ phase = "wind" /\ (unflushed = {} \/ left = 0)

\* How long a provider may take: the metrics one has the time of one export.
MayTake(s) == IF s = "metrics" THEN ExportTimeout ELSE FlushTimeout
OverTime(s) == s \in unflushed /\ 2 * FlushTimeout - left >= MayTake(s)

Tick ==
    /\ phase \in {"drain", "flush", "wind"} /\ signalled /\ since < Grace
    /\ ~Due /\ (phase = "flush" => \A s \in Signals : ~OverTime(s))
    /\ since' = since + 1 /\ left' = left - 1
    /\ UNCHANGED <<plan, phase, tls, signal, stage, queue, unflushed, gaveUpOn, faults>>

\* The same for a failed startup, which no grace period bounds.
TickUnsignalled ==
    /\ phase \in {"flush", "wind"} /\ ~signalled
    /\ ~Due /\ (phase = "flush" => \A s \in Signals : ~OverTime(s))
    /\ left' = left - 1
    /\ UNCHANGED <<plan, phase, tls, signal, since, stage, queue, unflushed, gaveUpOn, faults>>

\* docker stop's SIGKILL.
SigKill ==
    /\ phase \notin {"exited", "failed", "killed"} /\ signalled /\ since = Grace
    /\ phase' = "killed"
    /\ UNCHANGED <<plan, tls, signal, time, stage, queue, unflushed, gaveUpOn, faults>>

GoDown ==
    \/ Signal \/ StartDrain \/ ServerFails \/ Drained \/ DrainTimesOut
    \/ \E s \in Signals : Flushed(s)
    \/ EndFlush \/ Exit \/ Tick \/ TickUnsignalled \/ SigKill

Next == Start \/ InstallHandlers \/ Acquire \/ (\E r \in Requests : Request(r)) \/ GoDown

\* The pool serves its queue and its timers fire; a transaction that has what it needs ends.
Fairness ==
    /\ WF_processVars(Acquire)
    /\ \A r \in Requests :
          /\ WF_processVars(LockRow(r)) /\ WF_processVars(BorrowSecond(r))
          /\ WF_processVars(Finish(r) /\ Kind(r) # "stream")
          /\ WF_processVars(PoolTimesOut(r)) /\ WF_processVars(LockTimesOut(r))

Spec == Init /\ [][Next]_processVars /\ Fairness

----------------------------------------------------------------------------

\* The pool hands out no more connections than it has, to those who wait first, and only
\* a caught signal drains.
TypeOK ==
    /\ phase \in Startup \cup {"serve", "drain", "flush", "wind", "exited", "failed", "killed"}
    /\ Held <= Connections /\ Queued = In({"queued", "second"})
    /\ since \in 0..Grace
    /\ draining => signalled
    /\ unflushed \subseteq Signals

\* A signal that is caught ends the process before docker kills it: whatever the requests, the
\* collector and the pool are at, the drain, the flush and the runtime's end fit in the grace
\* period together.
ExitsInTime == phase # "killed"

\* The streams are closed before telemetry is flushed, and never hold the drain: those it gives
\* up on are requests that outlast it.
StreamsEndFirst ==
    /\ \A r \in gaveUpOn : Kind(r) # "stream"
    /\ draining /\ phase \in {"flush", "wind"} => \A r \in Open : Kind(r) # "stream"

Waits(r) == stage[r] \in {"queued", "locking", "working", "second", "recording"}

\* Whoever waits for a connection or a lock is answered or dropped, though cascades hold one
\* connection while they wait for another.
NobodyWaits == Running => \A r \in Requests : ~Waits(r)
=============================================================================
