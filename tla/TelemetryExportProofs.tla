----------------------- MODULE TelemetryExportProofs -----------------------
(***************************************************************************)
(* No item of telemetry is lost uncounted, for any sizes, limits and       *)
(* answers.                                                                *)
(*                                                                         *)
(* The invariant ExportInv adds to the count what keeps it true: a batch   *)
(* under way leaves the place of the batch to send again free, so that a   *)
(* retry overwrites nothing, and a stopped exporter has nothing under way. *)
(* Which items fit is left open: the count holds whatever a batch is.      *)
(***************************************************************************)
EXTENDS TelemetryExport, SequenceTheorems, WellFoundedInduction, TLAPS

Items == Seq(Sizes)
Batches == [items : Items, attempt : Nat, due : BOOLEAN]
Passes ==
    {Idle} \cup [at : {"runs"}, signal : Signals, inHand : BOOLEAN]
           \cup [at : {"fetch"}, signal : Signals]
           \cup [at : {"post"}, signal : Signals, items : Items, attempt : Nat]

ExportType ==
    /\ outbox \in [Signals -> Items]
    /\ retry \in [Signals -> {None} \cup Batches]
    /\ pass \in Passes
    /\ stopped \in BOOLEAN
    /\ recorded \in Nat /\ accepted \in Nat /\ flushed \in Nat /\ dropped \in Nat

ExportInv ==
    /\ ExportType
    /\ pass.at = "post" => retry[pass.signal] = None /\ ~stopped
    /\ StoppedHoldsNothing
    /\ EveryLossCounted

----------------------------------------------------------------------------
(* Items, in their places.                                                 *)

\* A bounded set of numbers has its greatest.
LEMMA MaxIn ==
    ASSUME NEW n \in Nat, NEW S \in SUBSET (0 .. n), S # {}
    PROVE  Max(S) \in S
<1> DEFINE R == OpToRel(<, Nat)
           T == {n - i : i \in S}
<1>1. T \subseteq Nat /\ T # {}
  <2>1. \A i \in S : n - i \in Nat
    OBVIOUS
  <2>2. QED BY <2>1
<1>2. PICK x \in T : \A y \in T : <<y, x>> \notin R
  <2>1. IsWellFoundedOn(R, Nat)
    BY NatLessThanWellFounded
  <2> HIDE DEF R, T
  <2>2. QED BY <1>1, <2>1, WFMin
<1>3. \A y \in T : ~(y < x)
  BY <1>1, <1>2 DEF OpToRel
<1>4. PICK m \in S : x = n - m
  BY <1>2
<1>5. \A i \in S : m >= i
  <2>1. SUFFICES ASSUME NEW i \in S PROVE m >= i
    OBVIOUS
  <2>2. n - i \in T
    OBVIOUS
  <2>3. ~(n - i < n - m)
    BY <1>3, <1>4, <2>2
  <2>4. i \in Nat /\ m \in Nat
    OBVIOUS
  <2>5. QED BY <2>3, <2>4
<1>6. \E k \in S : \A y \in S : k >= y
  BY <1>5
<1>7. Max(S) = CHOOSE k \in S : \A y \in S : k >= y
  BY DEF Max
<1>8. QED BY <1>6, <1>7, Zenon

\* What is taken from the front of an outbox and what stays are the outbox.
LEMMA Splits ==
    ASSUME NEW items \in Items, NEW n \in 0 .. Len(items)
    PROVE  /\ SubSeq(items, 1, n) \in Items
           /\ Len(SubSeq(items, 1, n)) = n
           /\ SubSeq(items, n + 1, Len(items)) \in Items
           /\ Len(SubSeq(items, n + 1, Len(items))) = Len(items) - n
<1>1. Len(items) \in Nat /\ \A i \in 1 .. Len(items) : items[i] \in Sizes
  BY DEF Items
<1>2. QED BY <1>1, SubSeqProperties DEF Items

LEMMA FittingType ==
    ASSUME ExportType, NEW s \in Signals, NEW bytes
    PROVE  Fitting(s, bytes) \in Items /\ Len(Fitting(s, bytes)) \in 0 .. Len(outbox[s])
<1> DEFINE fit == {0} \cup {n \in 1 .. Len(outbox[s]) : Bytes(SubSeq(outbox[s], 1, n)) <= bytes}
<1>1. outbox[s] \in Items /\ Len(outbox[s]) \in Nat
  BY DEF ExportType, Items
<1>2. Fitting(s, bytes) = SubSeq(outbox[s], 1, Max(fit))
  BY DEF Fitting
<1>3. fit \in SUBSET (0 .. Len(outbox[s])) /\ fit # {}
  BY <1>1
<1> HIDE DEF fit
<1>4. Max(fit) \in 0 .. Len(outbox[s])
  BY <1>1, <1>3, MaxIn
<1>5. QED BY <1>1, <1>2, <1>4, Splits

LEMMA KeptType ==
    ASSUME NEW items \in Items
    PROVE  Kept(items) \in Items /\ Len(Kept(items)) \in 0 .. Len(items)
<1> DEFINE within == {0} \cup {n \in 1 .. Len(items) :
                                  n <= MaxItems /\ Bytes(Newest(items, n)) <= MaxBytes}
<1>1. Len(items) \in Nat
  BY DEF Items
<1>2. Kept(items) = Newest(items, Max(within))
  BY DEF Kept
<1>3. within \in SUBSET (0 .. Len(items)) /\ within # {}
  BY <1>1
<1> HIDE DEF within
<1>4. Max(within) \in 0 .. Len(items)
  BY <1>1, <1>3, MaxIn
<1>5. /\ Len(items) - Max(within) \in 0 .. Len(items)
      /\ Kept(items) = SubSeq(items, (Len(items) - Max(within)) + 1, Len(items))
  BY <1>1, <1>2, <1>4 DEF Newest
<1>6. QED BY <1>1, <1>4, <1>5, Splits

\* A batch to send again is told from none, and its items wait.
LEMMA WaitingType ==
    ASSUME ExportType, NEW s \in Signals
    PROVE  /\ outbox[s] \in Items /\ Len(outbox[s]) \in Nat
           /\ Waiting(s) \in Items /\ Len(Waiting(s)) \in Nat
           /\ retry[s] = None => Waiting(s) = << >>
           /\ retry[s] # None => retry[s] \in Batches /\ Waiting(s) = retry[s].items
BY DEF ExportType, Waiting, Items, Batches

LEMMA BatchIsSome == \A b \in Batches : b # None
<1>1. \A b \in Batches : "items" \in DOMAIN b
  BY DEF Batches
<1>2. "items" \notin DOMAIN None
  BY DEF None
<1>3. QED BY <1>1, <1>2

LEMMA PassType ==
    ASSUME ExportType
    PROVE  /\ pass.at \in {"runs", "fetch", "post"} => pass.signal \in Signals
           /\ pass.at = "post" => pass.items \in Items /\ pass.attempt \in Nat
           /\ InFlight \in Items /\ Len(InFlight) \in Nat
<1>1. pass.at \in {"runs", "fetch", "post"} => pass.signal \in Signals
  BY DEF ExportType, Passes, Idle
<1>2. pass.at = "post" => pass.items \in Items /\ pass.attempt \in Nat
  BY DEF ExportType, Passes, Idle
<1>3. QED BY <1>1, <1>2 DEF InFlight, Items

\* Everything that is held for signal s outside the pass.
HeldFor(s) == Len(outbox[s]) + Len(Waiting(s))

HeldRight ==
    \E x, y, z \in Nat :
        /\ HeldFor("traces") = x /\ HeldFor("logs") = y /\ Len(InFlight) = z
        /\ Held = x + y + z

LEMMA HeldIs == ExportType => HeldRight
<1> SUFFICES ASSUME ExportType PROVE HeldRight
  OBVIOUS
<1>1. "traces" \in Signals /\ "logs" \in Signals
  BY DEF Signals
<1>2. PICK a \in Nat : a = Len(outbox["traces"])
  BY <1>1, WaitingType
<1>3. PICK b \in Nat : b = Len(Waiting("traces"))
  BY <1>1, WaitingType
<1>4. PICK c \in Nat : c = Len(outbox["logs"])
  BY <1>1, WaitingType
<1>5. PICK d \in Nat : d = Len(Waiting("logs"))
  BY <1>1, WaitingType
<1>6. PICK e \in Nat : e = Len(InFlight)
  BY PassType
<1>7. HeldFor("traces") = a + b /\ HeldFor("logs") = c + d
  BY <1>2, <1>3, <1>4, <1>5, Zenon DEF HeldFor
<1>8. Held = (a + c) + b + d + e
  BY <1>2, <1>3, <1>4, <1>5, <1>6, Zenon DEF Held, Buffered
<1>9. PICK x, y \in Nat : x = a + b /\ y = c + d
  OBVIOUS
<1>10. Held = x + y + e
  BY <1>8, <1>9
<1>11. QED BY <1>6, <1>7, <1>9, <1>10, Zenon DEF HeldRight

LEMMA HeldNext == ExportType' => HeldRight'
BY HeldIs, PTL

\* A step that touches one signal's items, or the batch under way.
LEMMA OneSignal ==
    ASSUME ExportType, ExportType', NEW s \in Signals,
           \A t \in Signals : t # s => HeldFor(t)' = HeldFor(t)
    PROVE  \E h, g, i, j, o \in Nat :
              /\ HeldFor(s) = h /\ HeldFor(s)' = g
              /\ Len(InFlight) = i /\ Len(InFlight)' = j
              /\ Held = o + h + i /\ Held' = o + g + j
<1>1. HeldRight /\ HeldRight'
  BY HeldIs, HeldNext
<1>2. PICK x, y, i \in Nat : /\ HeldFor("traces") = x /\ HeldFor("logs") = y
                            /\ Len(InFlight) = i /\ Held = x + y + i
  BY <1>1 DEF HeldRight
<1>3. PICK u, v, j \in Nat : /\ HeldFor("traces")' = u /\ HeldFor("logs")' = v
                            /\ Len(InFlight)' = j /\ Held' = u + v + j
  BY <1>1 DEF HeldRight
<1>4. CASE s = "traces"
  <2>1. v = y
    BY <1>2, <1>3, <1>4 DEF Signals
  <2>2. Held = y + x + i /\ Held' = y + u + j
    BY <1>2, <1>3, <2>1
  <2>3. QED BY <1>2, <1>3, <1>4, <2>2
<1>5. CASE s = "logs"
  <2>1. u = x
    BY <1>2, <1>3, <1>5 DEF Signals
  <2>2. Held' = x + v + j
    BY <1>3, <2>1
  <2>3. QED BY <1>2, <1>3, <1>5, <2>2
<1>6. QED BY <1>4, <1>5 DEF Signals

----------------------------------------------------------------------------
(* The steps.                                                              *)

LEMMA InitExport == Init => ExportInv
<1> SUFFICES ASSUME Init PROVE ExportInv
  OBVIOUS
<1>1. ExportType
  <2>1. << >> \in Items /\ Idle \in Passes
    BY DEF Items, Passes
  <2>2. QED BY <2>1 DEF Init, ExportType
<1>2. pass.at = "idle" /\ stopped = FALSE
  BY DEF Init, Idle
<1>3. EveryLossCounted
  BY DEF Init, EveryLossCounted, Held, Buffered, Waiting, InFlight, Idle, Signals
<1>4. QED BY <1>1, <1>2, <1>3 DEF ExportInv, StoppedHoldsNothing

LEMMA RecordKeeps ==
    ASSUME ExportInv, NEW s \in Signals, NEW size \in Sizes, Record(s, size)
    PROVE  ExportInv'
<1> DEFINE pushed == Append(outbox[s], size)
           kept == IF size > MaxItemBytes THEN outbox[s] ELSE Kept(pushed)
<1>1. ExportType
  BY DEF ExportInv
<1>2. outbox[s] \in Items /\ pushed \in Items /\ Len(pushed) = Len(outbox[s]) + 1
      /\ Len(outbox[s]) \in Nat
  BY <1>1 DEF ExportType, Items
<1>3. kept \in Items /\ Len(kept) \in 0 .. Len(pushed)
  <2>1. Kept(pushed) \in Items /\ Len(Kept(pushed)) \in 0 .. Len(pushed)
    BY <1>2, KeptType
  <2>2. CASE size > MaxItemBytes
    BY <1>2, <2>2
  <2>3. CASE ~(size > MaxItemBytes)
    BY <2>1, <2>3
  <2>4. QED BY <2>2, <2>3
<1>4. /\ outbox' = [outbox EXCEPT ![s] = kept]
      /\ dropped' = dropped + Len(pushed) - Len(kept)
      /\ recorded' = recorded + 1 /\ ~stopped
      /\ UNCHANGED <<stopped, retry, pass, accepted, flushed>>
  BY DEF Record, policy
<1> HIDE DEF pushed, kept
<1>5. ExportType'
  BY <1>1, <1>2, <1>3, <1>4 DEF ExportType
<1>6. /\ HeldFor(s)' = HeldFor(s) - Len(outbox[s]) + Len(kept)
      /\ \A t \in Signals : t # s => HeldFor(t)' = HeldFor(t)
      /\ InFlight' = InFlight
  <2>1. /\ outbox'[s] = kept /\ Len(kept) \in Nat
        /\ \A t \in Signals : t # s => outbox'[t] = outbox[t]
    BY <1>1, <1>2, <1>3, <1>4 DEF ExportType
  <2>2. \A t \in Signals : Waiting(t)' = Waiting(t) /\ Len(Waiting(t)) \in Nat
    BY <1>1, <1>4, WaitingType DEF Waiting
  <2>3. QED BY <1>2, <1>4, <2>1, <2>2 DEF HeldFor, InFlight
<1>7. PICK h, g, i, j, o \in Nat :
         /\ HeldFor(s) = h /\ HeldFor(s)' = g
         /\ Len(InFlight) = i /\ Len(InFlight)' = j
         /\ Held = o + h + i /\ Held' = o + g + j
  BY <1>1, <1>5, <1>6, OneSignal
<1>8. EveryLossCounted'
  <2>1. PICK k \in Nat : k = Len(kept)
    BY <1>2, <1>3
  <2>2. PICK n \in Nat : n = Len(outbox[s])
    BY <1>2
  <2>3. g = h - n + k /\ i = j
    BY <1>6, <1>7, <2>1, <2>2
  <2>4. dropped' = dropped + (n + 1) - k
    BY <1>2, <1>4, <2>1, <2>2
  <2>5. QED
    BY <1>1, <1>4, <1>7, <2>3, <2>4 DEF ExportInv, ExportType, EveryLossCounted
<1>9. QED BY <1>4, <1>5, <1>8 DEF ExportInv, StoppedHoldsNothing

\* discard_everything counts all that is held outside the pass.
LEMMA DiscardCounts ==
    ASSUME ExportType, NEW lost \in Nat, Discard(lost), stopped' \in BOOLEAN,
           pass' \in Passes, UNCHANGED <<recorded, flushed>>, accepted' \in Nat
    PROVE  /\ ExportType'
           /\ StoppedHoldsNothing'
           /\ \A s \in Signals : retry'[s] = None
           /\ HeldFor("traces")' = 0 /\ HeldFor("logs")' = 0
           /\ dropped' = dropped + lost + HeldFor("traces") + HeldFor("logs")
<1> "traces" \in Signals /\ "logs" \in Signals
  BY DEF Signals
<1>1. /\ outbox' = [s \in Signals |-> << >>] /\ retry' = [s \in Signals |-> None]
      /\ \A s \in Signals : Waiting(s)' = << >>
  BY DEF Discard, Waiting
<1>2. dropped' = dropped + lost + HeldFor("traces") + HeldFor("logs")
  BY WaitingType DEF Discard, HeldFor, ExportType
<1>3. dropped' \in Nat
  BY <1>2, HeldIs DEF ExportType, HeldRight
<1>4. ExportType'
  BY <1>1, <1>3 DEF ExportType, Items
<1>5. QED BY <1>1, <1>2, <1>4 DEF StoppedHoldsNothing, HeldFor

\* A pass that is not at a request goes on, or the exporter is switched off.
LEMMA DiscardKeeps ==
    ASSUME ExportInv, Discard(0), stopped' \in BOOLEAN, UNCHANGED <<recorded, accepted, flushed>>,
           \/ pass' = pass /\ stopped' = stopped
           \/ pass.at # "post" /\ pass' = Idle
    PROVE  ExportInv'
<1>1. ExportType
  BY DEF ExportInv
<1>2. pass' \in Passes /\ accepted' \in Nat
  BY DEF ExportInv, ExportType, Passes
<1>3. /\ ExportType' /\ StoppedHoldsNothing'
      /\ \A s \in Signals : retry'[s] = None
      /\ HeldFor("traces")' = 0 /\ HeldFor("logs")' = 0
      /\ dropped' = dropped + HeldFor("traces") + HeldFor("logs")
  BY <1>1, <1>2, DiscardCounts, HeldIs DEF ExportType, HeldRight
<1>4. InFlight' = InFlight
  BY DEF InFlight, Idle
<1>5. EveryLossCounted'
  <2>1. HeldRight /\ HeldRight'
    BY <1>1, <1>3, HeldIs, HeldNext
  <2>2. PICK x, y, z \in Nat : /\ HeldFor("traces") = x /\ HeldFor("logs") = y
                              /\ Len(InFlight) = z /\ Held = x + y + z
    BY <2>1 DEF HeldRight
  <2>3. Held' = z
    <3>1. PICK u, v, w \in Nat : /\ HeldFor("traces")' = u /\ HeldFor("logs")' = v
                                /\ Len(InFlight)' = w /\ Held' = u + v + w
      BY <2>1 DEF HeldRight
    <3>2. u = 0 /\ v = 0 /\ w = z
      BY <1>3, <1>4, <2>2, <3>1
    <3>3. QED BY <3>1, <3>2
  <2>4. dropped' = dropped + x + y
    BY <1>3, <2>2
  <2>5. QED BY <2>2, <2>3, <2>4 DEF ExportInv, ExportType, EveryLossCounted
<1>6. pass'.at = "post" => retry'[pass'.signal] = None /\ ~stopped'
  BY <1>1, <1>3, PassType DEF ExportInv, Idle
<1>7. QED BY <1>3, <1>5, <1>6 DEF ExportInv

LEMMA ConfigureKeeps ==
    ASSUME ExportInv, NEW on \in BOOLEAN, Configure(on)
    PROVE  ExportInv'
<1>1. UNCHANGED <<stopped, pass, recorded, accepted, flushed>>
  BY DEF Configure, policy, counted
<1>2. CASE Discard(0)
  BY <1>1, <1>2, DiscardKeeps DEF ExportInv, ExportType
<1>3. CASE UNCHANGED <<outbox, retry, dropped>>
  BY <1>1, <1>3
     DEF ExportInv, ExportType, StoppedHoldsNothing, EveryLossCounted, Held, Buffered, Waiting,
         InFlight
<1>4. QED BY <1>2, <1>3 DEF Configure

LEMMA LaunchExpiresKeeps ==
    ASSUME ExportInv, LaunchExpires
    PROVE  ExportInv'
BY DiscardKeeps DEF LaunchExpires, policy, counted, ExportInv, ExportType


\* Nothing changes hands: the pass moves between two requests, or stays.
LEMMA PassMovesKeeps ==
    ASSUME ExportInv, UNCHANGED <<outbox, retry, dropped, stopped, recorded, accepted, flushed>>,
           pass' = pass \/ (pass.at # "post" /\ pass' \in Passes /\ pass'.at # "post")
    PROVE  ExportInv'
<1>1. ExportType'
  BY DEF ExportInv, ExportType
<1>2. InFlight' = InFlight
  BY DEF InFlight
<1>3. Held' = Held
  BY <1>2, Zenon DEF Held, Buffered, Waiting
<1>4. QED BY <1>1, <1>3 DEF ExportInv, StoppedHoldsNothing, EveryLossCounted

LEMMA OnwardsType ==
    ASSUME ExportType, pass.at \in {"runs", "post"}
    PROVE  /\ Onwards \in Passes /\ Onwards.at # "post"
           /\ pass' = Onwards => InFlight' = << >> /\ Len(InFlight)' = 0
<1>1. Onwards \in Passes /\ Onwards.at # "post"
  BY DEF Onwards, Passes, Idle, Signals
<1>2. QED BY <1>1 DEF InFlight

LEMMA TickKeeps ==
    ASSUME ExportInv, Tick
    PROVE  ExportInv'
<1>1. pass.at # "post" /\ pass' \in Passes /\ pass'.at # "post"
  BY DEF Tick, Passes, Idle, Signals
<1>2. QED BY <1>1, PassMovesKeeps DEF Tick, policy, counted

LEMMA TokenKeeps ==
    ASSUME ExportInv, TokenComes \/ TokenFails \/ TokenRefused \/ TokenAges
    PROVE  ExportInv'
<1>1. CASE TokenComes
  <2>1. pass.at # "post" /\ pass' \in Passes /\ pass'.at # "post"
    BY <1>1, PassType DEF TokenComes, Passes, ExportInv
  <2>2. QED BY <1>1, <2>1, PassMovesKeeps DEF TokenComes, policy, counted
<1>2. CASE TokenFails
  <2>1. pass.at # "post" /\ pass' \in Passes /\ pass'.at # "post"
    BY <1>2 DEF TokenFails, Passes, Idle
  <2>2. QED BY <1>2, <2>1, PassMovesKeeps DEF TokenFails, policy, counted
<1>3. CASE TokenRefused
  BY <1>3, DiscardKeeps DEF TokenRefused, counted
<1>4. CASE TokenAges
  BY <1>4, PassMovesKeeps DEF TokenAges, policy, counted
<1>5. QED BY <1>1, <1>2, <1>3, <1>4

\* A batch leaves for the ingest, from the outbox or as one sent again.
LEMMA RunKeeps ==
    ASSUME ExportInv, Run
    PROVE  ExportInv'
<1>1. /\ ExportType /\ pass.at = "runs" /\ pass.signal \in Signals
      /\ UNCHANGED <<dropped, stopped, recorded, accepted, flushed>>
  BY PassType DEF ExportInv, Run, policy, counted
<1> PICK s \in Signals : s = pass.signal
  BY <1>1
<1> PICK batch : batch = Batch(s)
  OBVIOUS
<1>2. CASE UNCHANGED <<outbox, retry>> /\ pass' \in {Onwards, [at |-> "fetch", signal |-> s]}
  <2>1. [at |-> "fetch", signal |-> s] \in Passes /\ [at |-> "fetch", signal |-> s].at # "post"
    BY <1>1 DEF Passes
  <2>2. QED BY <1>1, <1>2, <2>1, OnwardsType, PassMovesKeeps
<1>3. CASE /\ batch # << >>
           /\ pass' = [at |-> "post", signal |-> s, items |-> batch,
                       attempt |-> IF retry[s] = None THEN 1 ELSE retry[s].attempt]
           /\ retry' = [retry EXCEPT ![s] = None]
           /\ outbox' = IF retry[s] # None THEN outbox
                        ELSE [outbox EXCEPT ![s] = SubSeq(@, Len(batch) + 1, Len(@))]
  <2>1. /\ ~stopped
        /\ retry[s] # None => batch = Waiting(s)
        /\ retry[s] = None => batch = Fitting(s, BatchBytes)
    BY <1>3 DEF Batch, Waiting
  <2>2. /\ outbox[s] \in Items /\ Len(outbox[s]) \in Nat
        /\ Waiting(s) \in Items /\ Len(Waiting(s)) \in Nat
        /\ retry[s] = None => Waiting(s) = << >>
        /\ retry[s] # None => retry[s].attempt \in Nat
    BY <1>1, WaitingType DEF Batches
  <2>3. batch \in Items /\ (retry[s] = None => Len(batch) \in 0 .. Len(outbox[s]))
        /\ Len(batch) \in Nat
    BY <1>1, <2>1, <2>2, FittingType DEF Items
  <2>4. PICK n \in Nat : n = Len(batch)
    BY <2>3
  <2>5. PICK m \in Nat : m = Len(outbox[s])
    BY <2>2
  <2>6. /\ outbox' \in [Signals -> Items]
        /\ Len(outbox'[s]) = IF retry[s] = None THEN m - n ELSE m
        /\ \A t \in Signals : t # s => outbox'[t] = outbox[t]
    <3>1. CASE retry[s] # None
      BY <1>1, <1>3, <2>5, <3>1 DEF ExportType
    <3>2. CASE retry[s] = None
      <4>1. /\ SubSeq(outbox[s], n + 1, Len(outbox[s])) \in Items
            /\ Len(SubSeq(outbox[s], n + 1, Len(outbox[s]))) = m - n
        BY <2>2, <2>3, <2>4, <2>5, <3>2, Splits
      <4>2. outbox' = [outbox EXCEPT ![s] = SubSeq(outbox[s], n + 1, Len(outbox[s]))]
        BY <1>3, <2>4, <3>2
      <4>3. QED BY <1>1, <3>2, <4>1, <4>2 DEF ExportType
    <3>3. QED BY <3>1, <3>2
  <2>7. retry' \in [Signals -> {None} \cup Batches] /\ retry'[s] = None
        /\ \A t \in Signals : t # s => retry'[t] = retry[t]
    BY <1>1, <1>3 DEF ExportType
  <2>8. pass' \in Passes
    <3>1. PICK k \in Nat : k = IF retry[s] = None THEN 1 ELSE retry[s].attempt
      BY <2>2
    <3>2. pass' = [at |-> "post", signal |-> s, items |-> batch, attempt |-> k]
      BY <1>3, <3>1
    <3>3. QED BY <1>1, <2>3, <3>2 DEF Passes
  <2>9. pass'.at = "post" /\ pass'.signal = s /\ pass'.items = batch
    BY <1>3
  <2>10. ExportType'
    BY <1>1, <2>6, <2>7, <2>8 DEF ExportType
  <2>11. /\ InFlight = << >> /\ InFlight' = batch
         /\ Waiting(s)' = << >>
         /\ \A t \in Signals : t # s => HeldFor(t)' = HeldFor(t)
    <3>1. InFlight = << >> /\ InFlight' = batch
      BY <1>1, <2>9 DEF InFlight
    <3>2. Waiting(s)' = << >> /\ \A t \in Signals : t # s => Waiting(t)' = Waiting(t)
      BY <2>7 DEF Waiting
    <3>3. \A t \in Signals : t # s => HeldFor(t)' = HeldFor(t)
      BY <2>6, <3>2, Zenon DEF HeldFor
    <3>4. QED BY <3>1, <3>2, <3>3
  <2>12. PICK h, g, i, j, o \in Nat :
            /\ HeldFor(s) = h /\ HeldFor(s)' = g
            /\ Len(InFlight) = i /\ Len(InFlight)' = j
            /\ Held = o + h + i /\ Held' = o + g + j
    BY <1>1, <2>10, <2>11, OneSignal
  <2>13. i = 0 /\ j = n
    <3>1. Len(InFlight) = 0 /\ Len(InFlight)' = Len(batch)
      BY <2>11
    <3>2. QED BY <2>4, <2>12, <3>1
  <2>14. h = g + n
    <3>1. PICK w \in Nat : w = Len(Waiting(s))
      BY <2>2
    <3>2. h = m + w
      BY <2>5, <2>12, <3>1 DEF HeldFor
    <3>3. g = Len(outbox'[s])
      <4>1. Len(outbox'[s]) \in Nat /\ Len(Waiting(s)') = 0
        BY <1>1, <2>6, <2>11 DEF Items
      <4>2. HeldFor(s)' = Len(outbox'[s]) + Len(Waiting(s)')
        BY Zenon DEF HeldFor
      <4>3. QED BY <2>12, <4>1, <4>2
    <3>4. retry[s] # None => w = n
      BY <2>1, <2>4, <3>1
    <3>5. retry[s] = None => w = 0
      BY <2>2, <3>1
    <3>6. QED BY <2>6, <3>2, <3>3, <3>4, <3>5
  <2>15. Held' = Held
    BY <2>12, <2>13, <2>14
  <2>16. EveryLossCounted'
    BY <1>1, <2>15 DEF EveryLossCounted, ExportInv
  <2>17. QED BY <1>1, <2>1, <2>7, <2>9, <2>10, <2>16 DEF ExportInv, StoppedHoldsNothing
<1>4. QED BY <1>2, <1>3 DEF Run

\* What an answer does, in brief: the batch is accepted, dropped, kept to send again, or
\* discarded with all the rest.
Answered ==
    /\ pass.at = "post" /\ pass' = Onwards /\ UNCHANGED <<recorded, flushed>>
    /\ \/ /\ accepted' = accepted + Len(pass.items)
          /\ UNCHANGED <<outbox, retry, dropped, stopped>>
       \/ /\ dropped' = dropped + Len(pass.items)
          /\ UNCHANGED <<outbox, retry, stopped, accepted>>
       \/ /\ retry' = [retry EXCEPT ![pass.signal] =
                          [items |-> pass.items, attempt |-> pass.attempt + 1, due |-> FALSE]]
          /\ UNCHANGED <<outbox, dropped, stopped, accepted>>
       \/ stopped' = TRUE /\ Discard(Len(pass.items)) /\ UNCHANGED accepted

LEMMA AnswerIs ==
    ASSUME NEW class \in Classes, Answer(class)
    PROVE  Answered
BY DEF Answer, Sent, Retry, Unauthorized, DropBatch, Stop, Drop, Answered, policy

LEMMA AnswerKeeps ==
    ASSUME ExportInv, Answered
    PROVE  ExportInv'
<1>1. /\ ExportType /\ pass.at = "post" /\ pass' = Onwards
      /\ pass.signal \in Signals /\ pass.items \in Items /\ pass.attempt \in Nat
      /\ retry[pass.signal] = None /\ ~stopped
      /\ UNCHANGED <<recorded, flushed>>
  BY PassType DEF ExportInv, Answered
<1>s. PICK s \in Signals : s = pass.signal
  BY <1>1
<1>n. PICK n \in Nat : n = Len(pass.items)
  BY <1>1 DEF Items
<1>2. pass' \in Passes /\ pass'.at # "post" /\ Len(InFlight)' = 0 /\ Len(InFlight) = n
  BY <1>n, <1>1, OnwardsType DEF InFlight
<1>3. CASE /\ UNCHANGED <<outbox, retry, stopped>>
           /\ \/ accepted' = accepted + n /\ dropped' = dropped
              \/ dropped' = dropped + n /\ accepted' = accepted
  <2>1. ExportType'
    BY <1>s, <1>n, <1>1, <1>2, <1>3 DEF ExportType
  <2>2. \A t \in Signals : HeldFor(t)' = HeldFor(t)
    BY <1>3 DEF HeldFor, Waiting
  <2>3. PICK h, g, i, j, o \in Nat :
           /\ HeldFor(s) = h /\ HeldFor(s)' = g
           /\ Len(InFlight) = i /\ Len(InFlight)' = j
           /\ Held = o + h + i /\ Held' = o + g + j
    BY <1>s, <1>n, <1>1, <2>1, <2>2, OneSignal
  <2>4. g = h /\ i = n /\ j = 0
    BY <1>2, <2>2, <2>3
  <2>5. PICK t \in Nat : Held = t + n /\ Held' = t
    <3>1. o + h \in Nat /\ Held = (o + h) + n /\ Held' = o + h
      BY <2>3, <2>4
    <3>2. QED BY <3>1
  <2>6. PICK a, d, f \in Nat : a = accepted /\ d = dropped /\ f = flushed
    BY <1>1 DEF ExportType
  <2>7. recorded' = (t + n) + a + f + d
    BY <1>s, <1>n, <1>1, <2>5, <2>6 DEF ExportInv, EveryLossCounted
  <2>8. \/ accepted' = a + n /\ dropped' = d
        \/ dropped' = d + n /\ accepted' = a
    BY <1>3, <2>6
  <2>9. (t + n) + a + f + d = t + (a + n) + f + d /\ (t + n) + a + f + d = t + a + f + (d + n)
    OBVIOUS
  <2>10. EveryLossCounted'
    BY <1>s, <1>n, <1>1, <2>5, <2>6, <2>7, <2>8, <2>9, Zenon DEF EveryLossCounted
  <2>11. QED BY <1>s, <1>n, <1>1, <1>2, <1>3, <2>1, <2>10 DEF ExportInv, StoppedHoldsNothing
<1>4. CASE /\ retry' = [retry EXCEPT ![s] =
                           [items |-> pass.items, attempt |-> pass.attempt + 1, due |-> FALSE]]
           /\ UNCHANGED <<outbox, dropped, stopped, accepted>>
  <2>1. PICK again \in Batches :
           /\ again = [items |-> pass.items, attempt |-> pass.attempt + 1, due |-> FALSE]
           /\ again.items = pass.items
    <3>1. PICK items \in Items : items = pass.items
      BY <1>1
    <3>2. PICK k \in Nat : k = pass.attempt + 1
      BY <1>1
    <3>3. [items |-> items, attempt |-> k, due |-> FALSE] \in Batches
      BY DEF Batches
    <3>4. QED BY <3>1, <3>2, <3>3
  <2>2. /\ retry' \in [Signals -> {None} \cup Batches] /\ retry'[s] = again
        /\ \A t \in Signals : t # s => retry'[t] = retry[t]
    BY <1>s, <1>n, <1>1, <1>4, <2>1 DEF ExportType
  <2>3. ExportType'
    BY <1>s, <1>n, <1>1, <1>2, <1>4, <2>2 DEF ExportType
  <2>4. /\ Waiting(s) = << >>
        /\ Waiting(s)' = pass.items
        /\ \A t \in Signals : t # s => Waiting(t)' = Waiting(t)
    <3>1. again # None
      BY BatchIsSome
    <3>2. QED BY <1>s, <1>n, <1>1, <2>1, <2>2, <3>1 DEF Waiting
  <2>5. \A t \in Signals : t # s => HeldFor(t)' = HeldFor(t)
    BY <1>4, <2>4, Zenon DEF HeldFor
  <2>6. PICK m \in Nat : m = Len(outbox[s])
    BY <1>s, <1>n, <1>1, WaitingType
  <2>7. HeldFor(s) = m /\ HeldFor(s)' = m + n
    <3>1. HeldFor(s) = m + Len(Waiting(s)) /\ HeldFor(s)' = m + Len(Waiting(s)')
      BY <1>4, <2>6, Zenon DEF HeldFor
    <3>2. Len(Waiting(s)) = 0 /\ Len(Waiting(s)') = n
      BY <1>n, <2>4
    <3>3. QED BY <3>1, <3>2
  <2>8. PICK h, g, i, j, o \in Nat :
           /\ HeldFor(s) = h /\ HeldFor(s)' = g
           /\ Len(InFlight) = i /\ Len(InFlight)' = j
           /\ Held = o + h + i /\ Held' = o + g + j
    BY <1>s, <1>n, <1>1, <2>3, <2>5, OneSignal
  <2>9. Held' = Held
    BY <1>2, <2>7, <2>8
  <2>10. EveryLossCounted'
    BY <1>s, <1>n, <1>1, <1>4, <2>9 DEF ExportInv, EveryLossCounted
  <2>11. QED BY <1>s, <1>n, <1>1, <1>2, <1>4, <2>3, <2>10 DEF ExportInv, StoppedHoldsNothing
<1>5. CASE stopped' = TRUE /\ Discard(n) /\ UNCHANGED accepted
  <2>1. /\ ExportType' /\ StoppedHoldsNothing'
        /\ HeldFor("traces")' = 0 /\ HeldFor("logs")' = 0
        /\ dropped' = dropped + n + HeldFor("traces") + HeldFor("logs")
    BY <1>s, <1>n, <1>1, <1>2, <1>5, DiscardCounts DEF ExportType
  <2>2. HeldRight /\ HeldRight'
    BY <1>s, <1>n, <1>1, <2>1, HeldIs, HeldNext
  <2>3. PICK x, y, z \in Nat : /\ HeldFor("traces") = x /\ HeldFor("logs") = y
                              /\ Len(InFlight) = z /\ Held = x + y + z
    BY <2>2 DEF HeldRight
  <2>4. Held' = 0
    <3>1. PICK u, v, w \in Nat : /\ HeldFor("traces")' = u /\ HeldFor("logs")' = v
                                /\ Len(InFlight)' = w /\ Held' = u + v + w
      BY <2>2 DEF HeldRight
    <3>2. u = 0 /\ v = 0 /\ w = 0
      BY <1>2, <2>1, <3>1
    <3>3. QED BY <3>1, <3>2
  <2>5. dropped' = dropped + Held
    BY <1>s, <1>n, <1>1, <1>2, <2>1, <2>3 DEF ExportType
  <2>6. EveryLossCounted'
    BY <1>s, <1>n, <1>1, <1>5, <2>3, <2>4, <2>5 DEF ExportInv, ExportType, EveryLossCounted
  <2>7. QED BY <1>2, <2>1, <2>6 DEF ExportInv
<1>6. QED BY <1>s, <1>n, <1>3, <1>4, <1>5 DEF Answered

\* A flush takes from the front of each outbox, or the batch that waits.
LEMMA FlushKeeps ==
    ASSUME ExportInv, NEW kind, Flush(kind)
    PROVE  ExportInv'
<1> DEFINE fresh(s) == IF Unloads(s, kind) = "fresh" THEN Fitting(s, KeepaliveBytes) ELSE << >>
           again(s) == IF Unloads(s, kind) = "retry" THEN Waiting(s) ELSE << >>
<1>1. /\ ExportType
      /\ UNCHANGED <<stopped, pass, dropped, recorded, accepted>> /\ ~stopped
  BY DEF ExportInv, Flush, policy
<1>2. /\ outbox' = [s \in Signals |-> SubSeq(outbox[s], Len(fresh(s)) + 1, Len(outbox[s]))]
      /\ retry' = [s \in Signals |-> IF Unloads(s, kind) = "retry" THEN None ELSE retry[s]]
      /\ flushed' = flushed + Len(fresh("traces")) + Len(fresh("logs"))
                            + Len(again("traces")) + Len(again("logs"))
  BY DEF Flush
<1>3. ASSUME NEW s \in Signals
      PROVE  \E f, a, h \in Nat :
                /\ Len(fresh(s)) = f /\ Len(again(s)) = a
                /\ HeldFor(s) = h + f + a /\ HeldFor(s)' = h
                /\ outbox'[s] \in Items /\ retry'[s] \in {None} \cup Batches
                /\ retry[s] = None => retry'[s] = None
  <2>1. /\ Fitting(s, KeepaliveBytes) \in Items
        /\ Len(Fitting(s, KeepaliveBytes)) \in 0 .. Len(outbox[s])
        /\ outbox[s] \in Items /\ Len(outbox[s]) \in Nat
        /\ Waiting(s) \in Items /\ Len(Waiting(s)) \in Nat
    BY <1>1, FittingType, WaitingType
  <2>2. fresh(s) \in Items /\ Len(fresh(s)) \in 0 .. Len(outbox[s])
    <3>1. << >> \in Items /\ Len(<< >>) = 0
      BY DEF Items
    <3>2. QED BY <2>1, <3>1
  <2>3. PICK f \in Nat : f = Len(fresh(s))
    BY <2>1, <2>2
  <2>4. PICK m \in Nat : m = Len(outbox[s])
    BY <2>1
  <2>5. PICK w \in Nat : w = Len(Waiting(s))
    BY <2>1
  <2>6. /\ outbox'[s] = SubSeq(outbox[s], f + 1, Len(outbox[s]))
        /\ retry'[s] = IF Unloads(s, kind) = "retry" THEN None ELSE retry[s]
    BY <1>2, <2>3
  <2>7. outbox'[s] \in Items /\ Len(outbox'[s]) = m - f /\ f <= m
    <3>1. f \in 0 .. Len(outbox[s])
      BY <2>2, <2>3
    <3>2. /\ SubSeq(outbox[s], f + 1, Len(outbox[s])) \in Items
          /\ Len(SubSeq(outbox[s], f + 1, Len(outbox[s]))) = Len(outbox[s]) - f
      BY <2>1, <3>1, Splits
    <3>3. f <= m
      BY <2>4, <3>1
    <3>4. QED BY <2>4, <2>6, <3>2, <3>3
  <2>8. retry'[s] \in {None} \cup Batches
    BY <1>1, <2>6 DEF ExportType
  <2>9. \E a \in Nat : Len(again(s)) = a /\ Len(Waiting(s)') = w - a /\ a <= w
    <3>1. CASE Unloads(s, kind) = "retry"
      <4>1. again(s) = Waiting(s) /\ Waiting(s)' = << >>
        BY <2>6, <3>1 DEF Waiting
      <4>2. Len(again(s)) = w /\ Len(Waiting(s)') = 0
        BY <2>5, <4>1
      <4>3. QED BY <4>2
    <3>2. CASE Unloads(s, kind) # "retry"
      <4>1. again(s) = << >> /\ Waiting(s)' = Waiting(s)
        BY <2>6, <3>2 DEF Waiting
      <4>2. Len(again(s)) = 0 /\ Len(Waiting(s)') = w
        BY <2>5, <4>1
      <4>3. QED BY <4>2
    <3>3. QED BY <3>1, <3>2
  <2> HIDE DEF fresh, again
  <2>10. PICK a \in Nat : Len(again(s)) = a /\ Len(Waiting(s)') = w - a /\ a <= w
    BY <2>9
  <2>11. HeldFor(s) = m + w /\ HeldFor(s)' = (m - f) + (w - a)
    BY <2>4, <2>5, <2>7, <2>10, Zenon DEF HeldFor
  <2>12. PICK h \in Nat : h = (m - f) + (w - a)
    BY <2>7, <2>10
  <2>13. m + w = h + f + a
    BY <2>12
  <2>14. QED BY <2>3, <2>6, <2>7, <2>8, <2>10, <2>11, <2>12, <2>13
<1> HIDE DEF fresh, again
<1>4. PICK f1, a1, h1 \in Nat :
         /\ Len(fresh("traces")) = f1 /\ Len(again("traces")) = a1
         /\ HeldFor("traces") = h1 + f1 + a1 /\ HeldFor("traces")' = h1
  BY <1>3 DEF Signals
<1>5. PICK f2, a2, h2 \in Nat :
         /\ Len(fresh("logs")) = f2 /\ Len(again("logs")) = a2
         /\ HeldFor("logs") = h2 + f2 + a2 /\ HeldFor("logs")' = h2
  BY <1>3 DEF Signals
<1>6. flushed' = flushed + f1 + f2 + a1 + a2
  BY <1>2, <1>4, <1>5
<1>7. outbox' \in [Signals -> Items] /\ retry' \in [Signals -> {None} \cup Batches]
      /\ \A s \in Signals : retry[s] = None => retry'[s] = None
  <2>1. \A s \in Signals : /\ outbox'[s] \in Items /\ retry'[s] \in {None} \cup Batches
                           /\ retry[s] = None => retry'[s] = None
    BY <1>3
  <2>2. /\ DOMAIN outbox' = Signals /\ outbox' = [s \in Signals |-> outbox'[s]]
        /\ DOMAIN retry' = Signals /\ retry' = [s \in Signals |-> retry'[s]]
    BY <1>2
  <2>3. QED BY <2>1, <2>2
<1>8. ExportType'
  BY <1>1, <1>6, <1>7 DEF ExportType
<1>9. HeldRight /\ HeldRight' /\ InFlight' = InFlight
  BY <1>1, <1>8, HeldIs, HeldNext DEF InFlight
<1>10. PICK z \in Nat : Len(InFlight) = z /\ Held = (h1 + f1 + a1) + (h2 + f2 + a2) + z
  BY <1>4, <1>5, <1>9 DEF HeldRight
<1>11. Held' = h1 + h2 + z
  BY <1>4, <1>5, <1>9, <1>10 DEF HeldRight
<1>12. EveryLossCounted'
  BY <1>1, <1>6, <1>10, <1>11 DEF ExportInv, ExportType, EveryLossCounted
<1>13. pass'.at = "post" => retry'[pass'.signal] = None
  BY <1>1, <1>7, PassType DEF ExportInv
<1>14. QED BY <1>1, <1>8, <1>12, <1>13 DEF ExportInv, StoppedHoldsNothing

LEMMA BackoffEndsKeeps ==
    ASSUME ExportInv, NEW s \in Signals, BackoffEnds(s)
    PROVE  ExportInv'
<1>1. /\ ExportType /\ pass = Idle /\ retry[s] # None
      /\ retry' = [retry EXCEPT ![s].due = TRUE]
      /\ UNCHANGED <<outbox, dropped, stopped, pass, recorded, accepted, flushed>>
  BY DEF ExportInv, BackoffEnds, policy, counted
<1>2. PICK r \in Batches : r = retry[s]
  BY <1>1, WaitingType
<1>3. PICK b \in Batches : b = [retry[s] EXCEPT !.due = TRUE] /\ b.items = retry[s].items
  <2>1. [r EXCEPT !.due = TRUE] \in Batches /\ [r EXCEPT !.due = TRUE].items = r.items
    BY DEF Batches
  <2>2. QED BY <1>2, <2>1
<1>4. /\ retry' \in [Signals -> {None} \cup Batches] /\ retry'[s] = b
      /\ \A t \in Signals : t # s => retry'[t] = retry[t]
  BY <1>1, <1>3 DEF ExportType
<1>5. ExportType'
  BY <1>1, <1>4 DEF ExportType
<1>6. \A t \in Signals : Waiting(t)' = Waiting(t)
  BY <1>1, <1>3, <1>4, BatchIsSome DEF Waiting
<1>7. Held' = Held
  <2>1. Waiting("traces")' = Waiting("traces") /\ Waiting("logs")' = Waiting("logs")
    BY <1>6 DEF Signals
  <2>2. InFlight' = InFlight
    BY <1>1 DEF InFlight
  <2>3. QED BY <1>1, <2>1, <2>2, Zenon DEF Held, Buffered
<1>8. ~stopped
  BY <1>1 DEF ExportInv, StoppedHoldsNothing
<1>9. QED BY <1>1, <1>5, <1>7, <1>8 DEF ExportInv, StoppedHoldsNothing, EveryLossCounted, Idle

LEMMA NextExport ==
    ASSUME ExportInv, [Next]_exportVars
    PROVE  ExportInv'
<1>1. CASE UNCHANGED exportVars
  BY <1>1, PassMovesKeeps DEF exportVars, policy, counted
<1>2. CASE Next
  BY <1>2, RecordKeeps, ConfigureKeeps, LaunchExpiresKeeps, TickKeeps, TokenKeeps, RunKeeps,
     AnswerIs, AnswerKeeps, FlushKeeps, BackoffEndsKeeps
     DEF Next, Requests
<1>3. QED BY <1>1, <1>2

\* However long a tab runs and whatever its sizes, limits and answers are, one counter covers
\* every loss, and an exporter that has stopped holds nothing (telemetry/runtime.rs, outbox.rs,
\* policy.rs).
THEOREM ExportCorrect == Spec => [](EveryLossCounted /\ StoppedHoldsNothing)
<1>1. ExportInv => EveryLossCounted /\ StoppedHoldsNothing
  BY DEF ExportInv
<1>2. QED BY <1>1, InitExport, NextExport, PTL DEF Spec
=============================================================================
