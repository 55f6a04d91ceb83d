-------------------------- MODULE TelemetryExport --------------------------
(***************************************************************************)
(* The exporter of a tab's spans and log records (frontend: telemetry/     *)
(* runtime.rs, outbox.rs, policy.rs, config.rs): two bounded outboxes, a   *)
(* pass every five seconds that sends a batch of each, what each answer    *)
(* means, and the flush when the page is hidden or left.                   *)
(*                                                                         *)
(* The page has one thread: a pass runs from one request to the next       *)
(* without anything between (at = "runs").                                 *)
(*                                                                         *)
(* Abstracted: an item is its size, bytes are few, the envelope weighs     *)
(* nothing; console lines; the length of a delay.  Time stands still       *)
(* during a pass, as the pass's `now` does.                                *)
(***************************************************************************)
EXTENDS Integers, Sequences, SequencesExt, FiniteSetsExt

CONSTANTS
    MaxItems, MaxBytes, MaxItemBytes,    \* Limits of an outbox
    BatchBytes, KeepaliveBytes,          \* MAX_BATCH_BYTES, KEEPALIVE_BATCH_BYTES
    MaxAttempts,                         \* MAX_ATTEMPTS
    GiveUpAfter,                         \* GIVE_UP_AFTER_FAILED_BATCHES
    Sizes,                               \* sizes of items
    MaxRecorded,                         \* bound: items in one behaviour
    MaxTokenFaults                       \* bound: times the product hands out no token for now

Signals == {"traces", "logs"}

VARIABLES
    phase,           \* Phase
    outbox,          \* outbox[signal]: the items buffered
    dropped,         \* items counted as lost
    stopped, refreshed, failedBatches,   \* ExportPolicy
    token,           \* "none", "good", "dying" (within the margin) or "expired"
    retry,           \* retry[signal]: a batch to send again, if any
    pass,            \* the export pass: where it is, with which signal and batch
    \* history variables, and what the bounds count
    recorded, accepted, flushed, faults

policy == <<stopped, refreshed, failedBatches>>
counted == <<recorded, accepted, flushed, faults>>
exportVars == <<phase, outbox, dropped, policy, token, retry, pass, counted>>

None == << >>
Idle == [at |-> "idle"]
Bytes(items) == FoldSeq(+, 0, items)

Init ==
    /\ phase = "Pending"
    /\ outbox = [s \in Signals |-> << >>]
    /\ dropped = 0
    /\ stopped = FALSE /\ refreshed = FALSE /\ failedBatches = 0
    /\ token = "none"
    /\ retry = [s \in Signals |-> None]
    /\ pass = Idle
    /\ recorded = 0 /\ accepted = 0 /\ flushed = 0 /\ faults = 0

Waiting(s) == IF retry[s] = None THEN << >> ELSE retry[s].items
InFlight == IF pass.at = "post" THEN pass.items ELSE << >>
Ready == pass.at # "runs"

----------------------------------------------------------------------------
(* The outbox.                                                             *)

\* The oldest items whose bytes fit.
Fitting(s, bytes) ==
    LET fit == {0} \cup {n \in 1 .. Len(outbox[s]) : Bytes(SubSeq(outbox[s], 1, n)) <= bytes}
    IN  SubSeq(outbox[s], 1, Max(fit))

\* The newest items that keep within both caps.
Newest(items, n) == SubSeq(items, Len(items) - n + 1, Len(items))
Kept(items) ==
    LET within == {0} \cup {n \in 1 .. Len(items) :
                               n <= MaxItems /\ Bytes(Newest(items, n)) <= MaxBytes}
    IN  Newest(items, Max(within))

\* record_span, record_log, and push.
Record(s, size) ==
    /\ Ready /\ recorded < MaxRecorded
    /\ phase # "Disabled" /\ ~stopped
    /\ recorded' = recorded + 1
    /\ LET pushed == Append(outbox[s], size)
           kept == IF size > MaxItemBytes THEN outbox[s] ELSE Kept(pushed)
       IN  /\ outbox' = [outbox EXCEPT ![s] = kept]
           /\ dropped' = dropped + Len(pushed) - Len(kept)
    /\ UNCHANGED <<phase, policy, token, retry, pass, accepted, flushed, faults>>

\* Mutant: a batch that waits is thrown away uncounted.
DiscardUncounted(lost) ==
    /\ outbox' = [s \in Signals |-> << >>]
    /\ retry' = [s \in Signals |-> None]
    /\ dropped' = dropped + lost + Len(outbox["traces"]) + Len(outbox["logs"])

\* discard_everything, and what was lost besides.
Discard(lost) ==
    /\ outbox' = [s \in Signals |-> << >>]
    /\ retry' = [s \in Signals |-> None]
    /\ dropped' = dropped + lost
          + Len(outbox["traces"]) + Len(outbox["logs"])
          + Len(Waiting("traces")) + Len(Waiting("logs"))

----------------------------------------------------------------------------
(* The configuration.                                                      *)

\* configure: the first answer decides, a later one can only switch off.
Configure(on) ==
    /\ Ready
    /\ \/ /\ on /\ phase = "Pending"
          /\ phase' = "Enabled"
          /\ UNCHANGED <<outbox, retry, dropped>>
       \/ /\ ~on /\ phase # "Disabled"
          /\ phase' = "Disabled"
          /\ Discard(0)
    /\ UNCHANGED <<policy, token, pass, counted>>

\* expire_launch_buffer, by a tick.
LaunchExpires ==
    /\ Ready /\ phase = "Pending"
    /\ phase' = "Disabled"
    /\ Discard(0)
    /\ UNCHANGED <<policy, token, pass, counted>>

----------------------------------------------------------------------------
(* The pass.                                                               *)

Tick ==
    /\ pass = Idle /\ phase = "Enabled" /\ ~stopped
    /\ \E s \in Signals : outbox[s] # << >> \/ retry[s] # None
    /\ pass' = [at |-> "runs", signal |-> "traces", inHand |-> FALSE]
    /\ UNCHANGED <<phase, outbox, dropped, policy, token, retry, counted>>

\* The pass comes to its next signal, or ends.
Onwards == IF pass.signal = "traces" THEN [at |-> "runs", signal |-> "logs", inHand |-> FALSE]
           ELSE Idle

\* next_batch: a batch that waits goes before anything newer, and not before its time.
Batch(s) ==
    IF phase # "Enabled" \/ stopped \/ (retry[s] # None /\ ~retry[s].due) THEN << >>
    ELSE IF retry[s] # None THEN retry[s].items ELSE Fitting(s, BatchBytes)

\* ensure_token, and the batch of a signal once there is a token.
Run ==
    /\ pass.at = "runs"
    /\ LET s == pass.signal
       IN  \/ /\ token # "good" /\ ~pass.inHand
              /\ pass' = [at |-> "fetch", signal |-> s]
              /\ UNCHANGED <<outbox, retry>>
           \/ /\ token = "good" \/ pass.inHand
              /\ IF Batch(s) = << >> THEN pass' = Onwards /\ UNCHANGED <<outbox, retry>>
                 ELSE /\ pass' = [at |-> "post", signal |-> s, items |-> Batch(s),
                                  attempt |-> IF retry[s] = None THEN 1 ELSE retry[s].attempt]
                      /\ retry' = [retry EXCEPT ![s] = None]
                      /\ outbox' = IF retry[s] # None THEN outbox
                                   ELSE [outbox EXCEPT ![s] =
                                            SubSeq(@, Len(Batch(s)) + 1, Len(@))]
    /\ UNCHANGED <<phase, dropped, policy, token, counted>>

\* fetch_token answers; a short-lived token is used once.
TokenComes ==
    /\ pass.at = "fetch"
    /\ token' \in {"good", "dying"}
    /\ pass' = [at |-> "runs", signal |-> pass.signal, inHand |-> TRUE]
    /\ UNCHANGED <<phase, outbox, dropped, policy, retry, counted>>

\* No token for now: the pass is over.
TokenFails ==
    /\ pass.at = "fetch" /\ faults < MaxTokenFaults
    /\ faults' = faults + 1
    /\ pass' = Idle
    /\ UNCHANGED <<phase, outbox, dropped, policy, token, retry, recorded, accepted, flushed>>

\* on_token_failure: a definite no stops the exporter.
TokenRefused ==
    /\ pass.at = "fetch"
    /\ stopped' = TRUE /\ pass' = Idle
    /\ Discard(0)
    /\ UNCHANGED <<phase, refreshed, failedBatches, token, counted>>

----------------------------------------------------------------------------
(* What an answer means: on_response, and apply_verdict.                   *)

Sent ==
    /\ pass' = Onwards
    /\ accepted' = accepted + Len(pass.items)
    /\ failedBatches' = 0 /\ refreshed' = FALSE
    /\ UNCHANGED <<outbox, retry, dropped, token, stopped>>

Retry ==
    /\ pass' = Onwards
    /\ retry' = [retry EXCEPT ![pass.signal] =
                    [items |-> pass.items, attempt |-> pass.attempt + 1, due |-> FALSE]]
    /\ UNCHANGED <<outbox, dropped, token, accepted, policy>>

Stop ==
    /\ pass' = Onwards
    /\ stopped' = TRUE
    /\ Discard(Len(pass.items))
    /\ token' = "none"
    /\ UNCHANGED <<refreshed, accepted>>

Drop ==
    /\ pass' = Onwards
    /\ dropped' = dropped + Len(pass.items)
    /\ UNCHANGED <<outbox, retry, stopped, accepted>>

\* One refresh of the token for a 401, until something is accepted.
Unauthorized ==
    IF refreshed THEN Stop /\ UNCHANGED failedBatches
    ELSE Drop /\ refreshed' = TRUE /\ token' = "none" /\ UNCHANGED failedBatches

\* Refused, or retried to exhaustion.
DropBatch ==
    /\ failedBatches' = failedBatches + 1
    /\ IF failedBatches + 1 >= GiveUpAfter THEN Stop ELSE Drop /\ UNCHANGED <<token, refreshed>>

Answer(class) ==
    /\ pass.at = "post"
    /\ CASE class = "Accepted" -> Sent
         [] class = "Unauthorized" -> Unauthorized
         [] class = "Retryable" /\ pass.attempt < MaxAttempts -> Retry
         [] OTHER -> DropBatch
    /\ UNCHANGED <<phase, recorded, flushed, faults>>

Classes == {"Accepted", "Retryable", "Unauthorized", "Permanent"}

----------------------------------------------------------------------------
(* The flush.                                                              *)

\* unload_batch: whether a batch that waits goes, and what goes instead of it.
Unloads(s, kind) ==
    IF retry[s] # None /\ kind = "Hidden" /\ ~retry[s].due THEN "nothing"
    ELSE IF retry[s] # None /\ Bytes(retry[s].items) <= KeepaliveBytes THEN "retry"
    ELSE "fresh"

Flush(kind) ==
    /\ Ready /\ phase = "Enabled" /\ ~stopped /\ token \in {"good", "dying"}
    /\ LET fresh(s) == IF Unloads(s, kind) = "fresh" THEN Fitting(s, KeepaliveBytes) ELSE << >>
           again(s) == IF Unloads(s, kind) = "retry" THEN Waiting(s) ELSE << >>
       IN  /\ outbox' = [s \in Signals |-> SubSeq(outbox[s], Len(fresh(s)) + 1, Len(outbox[s]))]
           /\ retry' = [s \in Signals |-> IF Unloads(s, kind) = "retry" THEN None ELSE retry[s]]
           /\ flushed' = flushed + Len(fresh("traces")) + Len(fresh("logs"))
                                 + Len(again("traces")) + Len(again("logs"))
    /\ UNCHANGED <<phase, dropped, policy, token, pass, recorded, accepted, faults>>

----------------------------------------------------------------------------
(* Time.                                                                   *)

BackoffEnds(s) ==
    /\ pass = Idle /\ retry[s] # None /\ ~retry[s].due
    /\ retry' = [retry EXCEPT ![s].due = TRUE]
    /\ UNCHANGED <<phase, outbox, dropped, policy, token, pass, counted>>

TokenAges ==
    /\ pass = Idle
    /\ \/ token = "good" /\ token' = "dying"
       \/ token = "dying" /\ token' = "expired"
    /\ UNCHANGED <<phase, outbox, dropped, policy, retry, pass, counted>>

----------------------------------------------------------------------------

Requests == Run \/ TokenComes \/ TokenFails \/ TokenRefused \/ \E c \in Classes : Answer(c)

Next ==
    \/ \E s \in Signals, size \in Sizes : Record(s, size)
    \/ \E on \in BOOLEAN : Configure(on)
    \/ LaunchExpires \/ Tick \/ Requests \/ TokenAges
    \/ \E kind \in {"Final", "Hidden"} : Flush(kind)
    \/ \E s \in Signals : BackoffEnds(s)

\* The interval and the timers fire; each request has its answer or its deadline; a delay
\* is over however many passes come and go.
Fairness ==
    /\ WF_exportVars(LaunchExpires) /\ WF_exportVars(Tick) /\ WF_exportVars(Requests)
    /\ \A s \in Signals : SF_exportVars(BackoffEnds(s))

Spec == Init /\ [][Next]_exportVars /\ Fairness

----------------------------------------------------------------------------

StoppedHoldsNothing == stopped => \A s \in Signals : outbox[s] = << >> /\ retry[s] = None

\* An outbox keeps to its two caps, a batch to be sent again has items and an attempt
\* left, and a stopped exporter holds nothing.
TypeOK ==
    /\ phase \in {"Pending", "Enabled", "Disabled"}
    /\ \A s \in Signals : Len(outbox[s]) <= MaxItems /\ Bytes(outbox[s]) <= MaxBytes
    /\ \A s \in Signals : retry[s] # None =>
          retry[s].items # << >> /\ retry[s].attempt \in 2 .. MaxAttempts
    /\ token \in {"none", "good", "dying", "expired"}
    /\ pass.at \in {"idle", "runs", "fetch", "post"}
    /\ StoppedHoldsNothing
    /\ failedBatches <= GiveUpAfter

Buffered == Len(outbox["traces"]) + Len(outbox["logs"])
Held == Buffered + Len(Waiting("traces")) + Len(Waiting("logs")) + Len(InFlight)

\* "one counter covers every loss": each item recorded is held, was accepted, left on a
\* request of a flush, or is counted as dropped, once.
EveryLossCounted == recorded = Held + accepted + flushed + dropped

\* However the ingest answers, the exporter comes to hold nothing: each item is sent,
\* flushed or dropped, unless telemetry was switched off while its batch was under way.
Drained == Held = 0 \/ phase = "Disabled"

============================================================================
