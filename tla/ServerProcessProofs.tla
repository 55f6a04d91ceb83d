------------------------ MODULE ServerProcessProofs ------------------------
(***************************************************************************)
(* What ServerProcess promises, for any requests, pool and timeouts that   *)
(* fit in the grace period.                                                *)
(*                                                                         *)
(* The inductive invariant ProcessInv has two parts.  PoolInv is about the *)
(* requests: each that waits for a connection is in the queue once, and a  *)
(* stream never waits.  DownInv is about the way down: the seconds that    *)
(* have passed since the signal and those that are left of the wait the    *)
(* process is in stay within what was allowed so far, and from the second  *)
(* after the drain signal on no stream is open.                            *)
(***************************************************************************)
EXTENDS ServerProcess, FiniteSetTheorems, SequenceTheorems, TLAPS

Waiting == {"queued", "second"}
Stages == Waiting \cup Over \cup {"away", "open", "locking", "working", "recording"}

NoStreamOpen == \A r \in Open : Kind(r) # "stream"

PoolInv ==
    /\ stage \in [Requests -> Stages]
    /\ queue \in Seq(Requests)
    /\ \A i, j \in DOMAIN queue : queue[i] = queue[j] => i = j
    /\ Queued = In(Waiting)
    /\ \A r \in Requests : Kind(r) = "stream" => stage[r] \in Over \cup {"away", "open"}
    /\ Held <= Connections

DownInv ==
    /\ phase \in Startup \cup {"serve", "drain", "flush", "wind", "exited", "failed"}
    /\ since \in Nat /\ left \in Nat /\ since < Grace
    /\ unflushed \subseteq Signals
    /\ phase \in Startup \cup {"serve"} => since = 0 /\ ~draining
    /\ phase = "drain" =>
          draining /\ since + left = DrainTimeout /\ (since > 0 => NoStreamOpen)
    /\ phase = "flush" => since + left <= DrainTimeout + 2 * FlushTimeout
    /\ phase = "wind" => since + left <= DrainTimeout + 2 * FlushTimeout + RuntimeTimeout
    /\ draining => signalled
    /\ draining /\ phase \in {"flush", "wind"} => NoStreamOpen
    /\ \A r \in gaveUpOn : Kind(r) # "stream"

ProcessInv == PoolInv /\ DownInv

----------------------------------------------------------------------------
(* The pool.                                                               *)

\* How many connections a request at a stage holds.
Holds(s) ==
    CASE s \in {"locking", "working", "second"} -> 1
      [] s = "recording" -> 2
      [] OTHER -> 0

One(b) == IF b THEN 1 ELSE 0

\* A sequence without its i-th element.
LEMMA RemovedAt ==
    ASSUME NEW S, NEW seq \in Seq(S), NEW i \in 1 .. Len(seq)
    PROVE  /\ RemoveAt(seq, i) \in Seq(S)
           /\ Len(RemoveAt(seq, i)) = Len(seq) - 1
           /\ \A j \in 1 .. Len(seq) - 1 :
                 RemoveAt(seq, i)[j] = seq[IF j < i THEN j ELSE j + 1]
<1> DEFINE before == SubSeq(seq, 1, i - 1)
           behind == SubSeq(seq, i + 1, Len(seq))
           both == before \o behind
<1>1. PICK n \in Nat : n = Len(seq)
  OBVIOUS
<1>2. /\ before \in Seq(S) /\ Len(before) = i - 1
      /\ \A j \in 1 .. i - 1 : before[j] = seq[j]
  <2>1. i - 1 \in Int /\ \A k \in 1 .. i - 1 : seq[k] \in S
    BY <1>1
  <2>2. Len(before) = (IF 1 <= i - 1 THEN i - 1 - 1 + 1 ELSE 0) /\ before \in Seq(S)
        /\ \A j \in 1 .. i - 1 - 1 + 1 : before[j] = seq[1 + j - 1]
    BY <1>1, <2>1, SubSeqProperties
  <2>3. QED BY <1>1, <2>2
<1>3. /\ behind \in Seq(S) /\ Len(behind) = n - i
      /\ \A j \in 1 .. n - i : behind[j] = seq[i + j]
  <2>1. i + 1 \in Int /\ n \in Int /\ \A k \in i + 1 .. n : seq[k] \in S
    BY <1>1
  <2>2. Len(behind) = (IF i + 1 <= n THEN n - (i + 1) + 1 ELSE 0) /\ behind \in Seq(S)
        /\ \A j \in 1 .. n - (i + 1) + 1 : behind[j] = seq[i + 1 + j - 1]
    BY <1>1, <2>1, SubSeqProperties
  <2>3. QED BY <1>1, <2>2
<1>4. RemoveAt(seq, i) = both
  BY DEF RemoveAt
<1> HIDE DEF before, behind
<1>5. /\ both \in Seq(S) /\ Len(both) = Len(before) + Len(behind)
      /\ \A j \in 1 .. Len(before) + Len(behind) :
            both[j] = IF j <= Len(before) THEN before[j] ELSE behind[j - Len(before)]
  BY <1>2, <1>3, ConcatProperties
<1>6. Len(both) = n - 1
  BY <1>1, <1>2, <1>3, <1>5
<1> HIDE DEF both
<1>7. ASSUME NEW j \in 1 .. n - 1
      PROVE  both[j] = seq[IF j < i THEN j ELSE j + 1]
  <2> j \in Int /\ i \in Int /\ n \in Int
    OBVIOUS
  <2>1. CASE j < i
    <3>1. j \in 1 .. Len(before) + Len(behind) /\ j <= Len(before) /\ j \in 1 .. i - 1
      BY <1>1, <1>2, <1>3, <2>1
    <3>2. both[j] = before[j] /\ before[j] = seq[j]
      BY <1>2, <1>5, <3>1
    <3>3. QED BY <2>1, <3>2
  <2>2. CASE ~(j < i)
    <3>1. /\ j \in 1 .. Len(before) + Len(behind) /\ ~(j <= Len(before))
          /\ j - Len(before) \in 1 .. n - i /\ i + (j - Len(before)) = j + 1
      BY <1>1, <1>2, <1>3, <2>2
    <3>2. both[j] = behind[j - Len(before)] /\ behind[j - Len(before)] = seq[j + 1]
      BY <1>3, <1>5, <3>1
    <3>3. QED BY <2>2, <3>2
  <2>3. QED BY <2>1, <2>2
<1>8. QED BY <1>1, <1>4, <1>5, <1>6, <1>7

\* When request r moves on, a set of stages gains or loses r alone.
LEMMA InChanges ==
    ASSUME ConstantsOK, stage \in [Requests -> Stages],
           NEW r \in Requests, NEW to \in Stages, Go(r, to), NEW these
    PROVE  /\ IsFiniteSet(In(these)) /\ Cardinality(In(these)) \in Nat
           /\ Cardinality(In(these)') =
                 Cardinality(In(these)) - One(stage[r] \in these) + One(to \in these)
<1> DEFINE before == In(these)
           others == before \ {r}
           after == In(these)'
<1>1. IsFiniteSet(before) /\ Cardinality(before) \in Nat
  BY FS_Subset, FS_CardinalityType DEF ConstantsOK, In
<1>2. IsFiniteSet(others) /\ Cardinality(others) = Cardinality(before) - One(stage[r] \in these)
  <2>1. r \in before <=> stage[r] \in these
    BY DEF In
  <2> HIDE DEF before
  <2>2. /\ IsFiniteSet(others)
        /\ Cardinality(others) = IF r \in before THEN Cardinality(before) - 1
                                 ELSE Cardinality(before)
    BY <1>1, FS_RemoveElement, Zenon
  <2>3. QED BY <1>1, <2>1, <2>2 DEF One
<1>3. after = IF to \in these THEN others \cup {r} ELSE others
  BY DEF Go, In
<1>4. r \notin others
  OBVIOUS
<1>5. Cardinality(others \cup {r}) = Cardinality(others) + 1
  BY <1>2, <1>4, FS_AddElement
<1>6. Cardinality(others) \in Nat
  BY <1>2, FS_CardinalityType
<1>7. Cardinality(after) = Cardinality(others) + One(to \in these)
  BY <1>3, <1>5, <1>6 DEF One
<1>8. QED BY <1>1, <1>2, <1>6, <1>7 DEF One

LEMMA HeldChanges ==
    ASSUME ConstantsOK, stage \in [Requests -> Stages],
           NEW r \in Requests, NEW to \in Stages, Go(r, to)
    PROVE  Held \in Nat /\ Held' = Held - Holds(stage[r]) + Holds(to)
<1> DEFINE ones == {"locking", "working", "second"}
           twos == {"recording"}
<1>1. /\ Cardinality(In(ones)) \in Nat
      /\ Cardinality(In(ones)') =
            Cardinality(In(ones)) - One(stage[r] \in ones) + One(to \in ones)
  BY InChanges
<1>2. /\ Cardinality(In(twos)) \in Nat
      /\ Cardinality(In(twos)') =
            Cardinality(In(twos)) - One(stage[r] \in twos) + One(to \in twos)
  BY InChanges
<1>3. /\ Holds(stage[r]) = One(stage[r] \in ones) + 2 * One(stage[r] \in twos)
      /\ Holds(to) = One(to \in ones) + 2 * One(to \in twos)
  BY DEF Holds, One
<1>4. /\ Held = Cardinality(In(ones)) + 2 * Cardinality(In(twos))
      /\ Held' = Cardinality(In(ones)') + 2 * Cardinality(In(twos)')
  BY DEF Held
<1> HIDE DEF ones, twos
<1>5. One(stage[r] \in ones) \in Nat /\ One(stage[r] \in twos) \in Nat
      /\ One(to \in ones) \in Nat /\ One(to \in twos) \in Nat
  BY DEF One
<1>6. QED BY <1>1, <1>2, <1>3, <1>4, <1>5

\* A request that moves on without the queue: it may not come to wait, and holds no more.
LEMMA GoesOnKeepsPool ==
    ASSUME ConstantsOK, PoolInv, NEW r \in Requests, NEW to \in Stages \ Waiting, Go(r, to),
           UNCHANGED <<plan, queue>>, stage[r] \notin Waiting,
           Kind(r) = "stream" => to \in Over \cup {"away", "open"},
           Holds(to) <= Holds(stage[r])
    PROVE  PoolInv'
<1>1. Held \in Nat /\ Held' = Held - Holds(stage[r]) + Holds(to)
  BY HeldChanges DEF PoolInv
<1>2. Holds(stage[r]) \in Nat /\ Holds(to) \in Nat
  BY DEF Holds
<1>3. Held' <= Connections
  BY <1>1, <1>2 DEF PoolInv, ConstantsOK
<1>4. stage' \in [Requests -> Stages] /\ stage'[r] = to
      /\ \A q \in Requests : q # r => stage'[q] = stage[q]
  BY DEF PoolInv, Go
<1>5. In(Waiting)' = In(Waiting) /\ Queued' = Queued
  BY <1>4 DEF In, Queued
<1>6. \A q \in Requests : Kind(q)' = Kind(q)
  BY DEF Kind
<1>7. QED BY <1>3, <1>4, <1>5, <1>6 DEF PoolInv


\* A request comes to wait for a connection.
LEMMA JoinsQueueKeepsPool ==
    ASSUME ConstantsOK, PoolInv, NEW r \in Requests, NEW to \in Waiting, Go(r, to),
           queue' = Append(queue, r), UNCHANGED plan, stage[r] \notin Waiting,
           Kind(r) # "stream", Holds(to) <= Holds(stage[r])
    PROVE  PoolInv'
<1>1. Held \in Nat /\ Held' = Held - Holds(stage[r]) + Holds(to)
  BY HeldChanges DEF PoolInv, Waiting, Stages
<1>2. Holds(stage[r]) \in Nat /\ Holds(to) \in Nat
  BY DEF Holds
<1>3. Held' <= Connections
  BY <1>1, <1>2 DEF PoolInv, ConstantsOK
<1>4. stage' \in [Requests -> Stages] /\ stage'[r] = to
      /\ \A q \in Requests : q # r => stage'[q] = stage[q]
  BY DEF PoolInv, Go, Stages
<1>5. r \notin Queued
  BY DEF PoolInv, In
<1>6. /\ queue' \in Seq(Requests)
      /\ DOMAIN queue = 1 .. Len(queue) /\ Len(queue) \in Nat
      /\ DOMAIN queue' = 1 .. Len(queue) + 1
      /\ queue'[Len(queue) + 1] = r
      /\ \A i \in DOMAIN queue : queue'[i] = queue[i]
  BY DEF PoolInv
<1>7. \A i, j \in DOMAIN queue' : queue'[i] = queue'[j] => i = j
  BY <1>5, <1>6 DEF PoolInv, Queued
<1>8. Queued' = Queued \cup {r}
  BY <1>6 DEF Queued
<1>9. In(Waiting)' = In(Waiting) \cup {r}
  BY <1>4 DEF In
<1>10. \A q \in Requests : Kind(q)' = Kind(q)
  BY DEF Kind
<1>11. QED BY <1>3, <1>4, <1>6, <1>7, <1>8, <1>9, <1>10 DEF PoolInv

\* The request at place i of the queue is served, or gives up.
LEMMA LeavesQueueKeepsPool ==
    ASSUME ConstantsOK, PoolInv, NEW i \in DOMAIN queue, NEW r, r = queue[i],
           NEW to \in Stages \ Waiting, Go(r, to), UNCHANGED plan,
           queue' \in Seq(Requests), Len(queue') = Len(queue) - 1,
           \A j \in 1 .. Len(queue) - 1 : queue'[j] = queue[IF j < i THEN j ELSE j + 1],
           Held - Holds(stage[r]) + Holds(to) <= Connections
    PROVE  PoolInv'
<1>1. /\ DOMAIN queue = 1 .. Len(queue) /\ Len(queue) \in Nat
      /\ DOMAIN queue' = 1 .. Len(queue) - 1
      /\ r \in Requests
  BY DEF PoolInv
<1>2. Held' <= Connections
  BY <1>1, HeldChanges DEF PoolInv
<1>3. stage' \in [Requests -> Stages] /\ stage'[r] = to
      /\ \A q \in Requests : q # r => stage'[q] = stage[q]
  BY <1>1 DEF PoolInv, Go
<1>4. r \in Queued /\ stage[r] \in Waiting
  BY <1>1 DEF PoolInv, Queued, In
<1>5. \A j, k \in DOMAIN queue' : queue'[j] = queue'[k] => j = k
  <2> DEFINE was(j) == IF j < i THEN j ELSE j + 1
  <2>1. \A j \in DOMAIN queue' : was(j) \in DOMAIN queue /\ queue'[j] = queue[was(j)]
    BY <1>1
  <2>2. \A j, k \in DOMAIN queue' : was(j) = was(k) => j = k
    BY <1>1
  <2> HIDE DEF was
  <2>3. QED BY <2>1, <2>2 DEF PoolInv
<1>6. Queued' = Queued \ {r}
  <2>1. ASSUME NEW j \in DOMAIN queue' PROVE queue'[j] \in Queued /\ queue'[j] # r
    <3>1. PICK k \in DOMAIN queue : queue'[j] = queue[k] /\ k # i
      BY <1>1
    <3>2. QED BY <3>1 DEF PoolInv, Queued
  <2>2. ASSUME NEW j \in DOMAIN queue, queue[j] # r
        PROVE  \E k \in DOMAIN queue' : queue'[k] = queue[j]
    <3>1. CASE j < i
      BY <1>1, <3>1
    <3>2. CASE j > i
      <4>1. j - 1 \in 1 .. Len(queue) - 1 /\ ~(j - 1 < i) /\ (j - 1) + 1 = j
        BY <1>1, <3>2
      <4>2. QED BY <1>1, <4>1
    <3>3. QED BY <1>1, <2>2, <3>1, <3>2
  <2>3. QED BY <2>1, <2>2 DEF Queued
<1>7. In(Waiting)' = In(Waiting) \ {r}
  BY <1>1, <1>3 DEF In
<1>8. Kind(r) # "stream"
  BY <1>1, <1>4 DEF PoolInv, Waiting, Over
<1>9. \A q \in Requests : Kind(q)' = Kind(q)
  BY DEF Kind
<1>10. QED BY <1>1, <1>2, <1>3, <1>5, <1>6, <1>7, <1>8, <1>9 DEF PoolInv

\* Whoever is still open is dropped.
LEMMA DropsKeepPool ==
    ASSUME ConstantsOK, PoolInv, UNCHANGED plan, queue' = << >>,
           stage' = [r \in Requests |-> IF r \in Open THEN "dropped" ELSE stage[r]]
    PROVE  PoolInv'
<1>1. /\ stage' \in [Requests -> Stages]
      /\ \A r \in Requests : stage'[r] \in Over \cup {"away"}
  BY DEF PoolInv, Stages, Open, Over
<1>2. /\ In(Waiting)' = {}
      /\ In({"locking", "working", "second"})' = {}
      /\ In({"recording"})' = {}
  BY <1>1 DEF In, Over, Waiting
<1>3. Held' = 0
  <2>1. /\ Cardinality(In({"locking", "working", "second"})') = 0
        /\ Cardinality(In({"recording"})') = 0
    BY <1>2, FS_EmptySet, Zenon
  <2>2. QED BY <2>1 DEF Held
<1>4. Queued' = {}
  BY DEF Queued
<1>5. QED BY <1>1, <1>2, <1>3, <1>4 DEF PoolInv, ConstantsOK, Kind

LEMMA RequestKeepsPool ==
    ASSUME ConstantsOK, PoolInv, NEW r \in Requests, Request(r)
    PROVE  PoolInv'
<1> USE DEF SameProcess
<1>1. CASE Arrive(r)
  <2>1. stage[r] = "away" /\ UNCHANGED plan
    BY <1>1 DEF Arrive
  <2>2. CASE Kind(r) \in {"edit", "cascade"}
    BY <1>1, <2>1, <2>2, JoinsQueueKeepsPool DEF Arrive, Waiting, Holds
  <2>3. CASE Kind(r) \notin {"edit", "cascade"}
    BY <1>1, <2>1, <2>3, GoesOnKeepsPool DEF Arrive, Waiting, Holds, Stages
  <2>4. QED BY <2>2, <2>3
<1>2. CASE LockRow(r)
  BY <1>2, GoesOnKeepsPool DEF LockRow, Waiting, Holds, Stages, PoolInv, Over
<1>3. CASE BorrowSecond(r)
  BY <1>3, JoinsQueueKeepsPool DEF BorrowSecond, Waiting, Holds
<1>4. CASE Finish(r)
  <2>1. stage[r] \in {"recording", "open", "working"} /\ Go(r, "ok")
        /\ UNCHANGED <<plan, queue>>
    BY <1>4 DEF Finish
  <2>2. Holds("ok") = 0 /\ Holds(stage[r]) \in Nat
    BY DEF Holds
  <2>3. QED BY <2>1, <2>2, GoesOnKeepsPool DEF Waiting, Stages, Over
<1>5. CASE PoolTimesOut(r)
  <2>1. PICK i \in DOMAIN queue : queue[i] = r /\ queue' = RemoveAt(queue, i)
    BY <1>5 DEF PoolTimesOut
  <2>2. /\ queue' \in Seq(Requests) /\ Len(queue') = Len(queue) - 1
        /\ \A j \in 1 .. Len(queue) - 1 : queue'[j] = queue[IF j < i THEN j ELSE j + 1]
    BY <2>1, RemovedAt DEF PoolInv
  <2>3. Go(r, "failed") /\ UNCHANGED plan
    BY <1>5 DEF PoolTimesOut
  <2>4. Held \in Nat /\ Holds(stage[r]) \in Nat /\ Holds("failed") = 0
    BY <2>3, HeldChanges DEF PoolInv, Holds, Stages, Over
  <2>5. Held - Holds(stage[r]) + Holds("failed") <= Connections
    BY <2>4 DEF PoolInv, ConstantsOK
  <2>6. "failed" \in Stages \ Waiting
    BY DEF Stages, Over, Waiting
  <2>7. QED BY <2>1, <2>2, <2>3, <2>5, <2>6, LeavesQueueKeepsPool
<1>6. CASE LockTimesOut(r)
  BY <1>6, GoesOnKeepsPool DEF LockTimesOut, Waiting, Holds, Stages, Over
<1>7. CASE Panic(r)
  <2>1. stage[r] \in {"recording", "working"} /\ Go(r, "failed") /\ UNCHANGED <<plan, queue>>
    BY <1>7 DEF Panic
  <2>2. Holds("failed") = 0 /\ Holds(stage[r]) \in Nat
    BY DEF Holds
  <2>3. QED BY <2>1, <2>2, GoesOnKeepsPool DEF Waiting, Stages, Over
<1>8. CASE StreamEnds(r)
  BY <1>8, GoesOnKeepsPool DEF StreamEnds, Waiting, Holds, Stages, Over
<1>9. QED BY <1>1, <1>2, <1>3, <1>4, <1>5, <1>6, <1>7, <1>8 DEF Request

LEMMA AcquireKeepsPool ==
    ASSUME ConstantsOK, PoolInv, Acquire
    PROVE  PoolInv'
<1> DEFINE r == queue[1]
           to == IF stage[r] = "queued" THEN "locking" ELSE "recording"
<1>1. /\ Len(queue) \in Nat /\ 1 \in DOMAIN queue /\ r \in Requests /\ r = Head(queue)
      /\ queue' = Tail(queue) /\ Held < Connections /\ UNCHANGED plan
      /\ Go(r, to)
  BY DEF PoolInv, Acquire, SameProcess
<1>2. /\ queue' \in Seq(Requests) /\ Len(queue') = Len(queue) - 1
      /\ \A j \in 1 .. Len(queue) - 1 : queue'[j] = queue[j + 1]
  BY <1>1 DEF PoolInv
<1>3. \A j \in 1 .. Len(queue) - 1 : ~(j < 1)
  OBVIOUS
<1>4. to \in Stages \ Waiting
  BY DEF Stages, Waiting
<1>5. stage[r] \in Waiting
  BY <1>1 DEF PoolInv, Queued, In
<1>6. Holds(to) = Holds(stage[r]) + 1 /\ Holds(stage[r]) \in Nat
  BY <1>5 DEF Holds, Waiting
<1> HIDE DEF to
<1>7. Held \in Nat
  BY <1>1, <1>4, HeldChanges DEF PoolInv
<1>8. Held - Holds(stage[r]) + Holds(to) <= Connections
  BY <1>1, <1>6, <1>7 DEF ConstantsOK
<1>9. QED BY <1>1, <1>2, <1>3, <1>4, <1>8, LeavesQueueKeepsPool

LEMMA NextKeepsPool ==
    ASSUME ConstantsOK, PoolInv, [Next]_processVars
    PROVE  PoolInv'
<1>1. CASE UNCHANGED <<plan, stage, queue>>
  BY <1>1 DEF PoolInv, Queued, In, Kind, Held
<1>2. CASE Acquire
  BY <1>2, AcquireKeepsPool
<1>3. CASE \E r \in Requests : Request(r)
  BY <1>3, RequestKeepsPool
<1>4. CASE DrainTimesOut
  BY <1>1, <1>4, DropsKeepPool DEF DrainTimesOut
<1>5. CASE Exit
  BY <1>5, DropsKeepPool DEF Exit
<1>6. QED
  BY <1>1, <1>2, <1>3, <1>4, <1>5
     DEF Next, processVars, Start, StartTelemetry, StartStep, InstallHandlers, GoDown, Signal,
         StartDrain, ServerFails, Drained, Flushed, EndFlush, Tick, TickUnsignalled, SigKill


----------------------------------------------------------------------------
(* The way down.                                                           *)

\* Unless a request arrives, no step opens one.
LEMMA OpenShrinks ==
    ASSUME PoolInv, [Next]_processVars, \A r \in Requests : ~Arrive(r)
    PROVE  plan' = plan /\ Open' \subseteq Open
<1> USE DEF SameProcess
<1>1. CASE UNCHANGED <<plan, stage>>
  BY <1>1 DEF Open
<1>2. ASSUME NEW r \in Requests, NEW to \in Stages, UNCHANGED plan, Go(r, to), r \in Open
      PROVE  plan' = plan /\ Open' \subseteq Open
  BY <1>2 DEF PoolInv, Go, Open
<1>3. CASE Acquire
  <2>1. /\ 1 \in DOMAIN queue /\ queue[1] \in Requests /\ UNCHANGED plan
        /\ \E to \in {"locking", "recording"} : Go(queue[1], to)
    BY <1>3 DEF PoolInv, Acquire
  <2>2. queue[1] \in Open
    BY <2>1 DEF PoolInv, Queued, In, Open, Waiting, Over
  <2>3. QED BY <1>2, <2>1, <2>2 DEF Stages
<1>4. ASSUME NEW r \in Requests, Request(r)
      PROVE  plan' = plan /\ Open' \subseteq Open
  <2>1. ASSUME r \in Queued PROVE r \in Open
    BY <2>1 DEF PoolInv, In, Open, Waiting, Over
  <2>2. stage[r] \in {"locking", "working", "recording", "open"} => r \in Open
    BY DEF Open, Over
  <2>3. r \in Open
    BY <1>4, <2>1, <2>2
       DEF Request, LockRow, BorrowSecond, Finish, PoolTimesOut, LockTimesOut, Panic,
           StreamEnds, Queued
  <2>4. UNCHANGED plan /\ \E to \in {"working", "second", "ok", "failed"} : Go(r, to)
    BY <1>4
       DEF Request, LockRow, BorrowSecond, Finish, PoolTimesOut, LockTimesOut, Panic,
           StreamEnds
  <2>5. QED BY <1>2, <2>3, <2>4 DEF Stages, Over, Waiting
<1>5. CASE DrainTimesOut \/ Exit
  <2>1. /\ plan' = plan
        /\ \/ stage' = stage
           \/ stage' = [r \in Requests |-> IF r \in Open THEN "dropped" ELSE stage[r]]
    BY <1>5 DEF DrainTimesOut, Exit
  <2>2. QED BY <2>1 DEF Open, Over
<1>6. QED
  BY <1>1, <1>3, <1>4, <1>5
     DEF Next, processVars, Start, StartTelemetry, StartStep, InstallHandlers, GoDown, Signal,
         StartDrain, ServerFails, Drained, Flushed, EndFlush, Tick, TickUnsignalled, SigKill

\* No stream is open once a second of the drain has passed, nor is one opened again.
LEMMA StreamsStayEnded ==
    ASSUME PoolInv, [Next]_processVars, \A r \in Requests : ~Arrive(r), NoStreamOpen
    PROVE  NoStreamOpen'
BY OpenShrinks DEF NoStreamOpen, Kind

LEMMA RequestKeepsDown ==
    ASSUME ProcessInv, Acquire \/ \E r \in Requests : Request(r)
    PROVE  DownInv'
<1>1. UNCHANGED <<plan, phase, tls, signal, time, unflushed, gaveUpOn>>
  BY DEF SameProcess, Acquire, Request, Arrive, LockRow, BorrowSecond, Finish, PoolTimesOut,
         LockTimesOut, Panic, StreamEnds
<1>2. Next
  BY DEF Next
<1>3. ASSUME NEW r \in Requests, Arrive(r)
      PROVE  phase = "serve" \/ (phase = "drain" /\ since = 0)
  BY <1>3 DEF Arrive
<1>4. (phase = "drain" /\ since > 0) \/ (draining /\ phase \in {"flush", "wind"})
         => NoStreamOpen'
  <2> SUFFICES ASSUME \/ phase = "drain" /\ since > 0
                      \/ draining /\ phase \in {"flush", "wind"}
               PROVE  NoStreamOpen'
    OBVIOUS
  <2>1. NoStreamOpen
    BY DEF ProcessInv, DownInv
  <2>2. \A r \in Requests : ~Arrive(r)
    BY <1>3 DEF ProcessInv, DownInv
  <2>3. QED BY <1>2, <2>1, <2>2, StreamsStayEnded DEF ProcessInv
<1>5. QED BY <1>1, <1>4 DEF ProcessInv, DownInv, Kind, signal, time

LEMMA GoDownKeepsDown ==
    ASSUME ConstantsOK, ProcessInv, GoDown
    PROVE  DownInv'
<1> USE DEF ConstantsOK
<1>1. Next /\ plan' = plan /\ \A r : Kind(r)' = Kind(r)
  BY DEF Next, GoDown, Signal, StartDrain, ServerFails, Drained, Flushed, DrainTimesOut, EndFlush,
         Exit, Tick, TickUnsignalled, SigKill, Kind
<1>2. ASSUME NEW r \in Requests, Arrive(r) PROVE FALSE
  <2>1. stage[r] = "away" /\ Go(r, stage'[r]) /\ stage'[r] \in {"open", "queued"}
    BY <1>2 DEF Arrive, Go, ProcessInv, PoolInv
  <2>2. r \notin Open
    BY <2>1 DEF Open
  <2>3. stage'[r] = stage[r]
    BY <2>2
       DEF GoDown, Signal, StartDrain, ServerFails, Drained, Flushed, DrainTimesOut, EndFlush,
           Exit, Tick, TickUnsignalled, SigKill, ProcessInv, PoolInv
  <2>4. QED BY <2>1, <2>3
<1>3. NoStreamOpen => NoStreamOpen'
  BY <1>1, <1>2, StreamsStayEnded DEF ProcessInv
<1>4. DownInv
  BY DEF ProcessInv
<1>5. CASE Signal
  BY <1>1, <1>3, <1>4, <1>5 DEF Startup, DownInv, Signal, time
<1>6. CASE StartDrain
  BY <1>1, <1>4, <1>6 DEF Startup, DownInv, StartDrain
<1>7. CASE ServerFails
  BY <1>1, <1>4, <1>7 DEF Startup, DownInv, ServerFails, FlushPhase, signal
<1>8. CASE Drained
  <2>1. NoStreamOpen'
    BY <1>3, <1>8 DEF Drained, NoStreamOpen
  <2>2. QED BY <1>1, <1>4, <1>8, <2>1 DEF Startup, DownInv, Drained, FlushPhase, signal
<1>9. CASE DrainTimesOut
  <2>1. NoStreamOpen
    BY <1>4, <1>9 DEF Startup, DownInv, DrainTimesOut, DrainOver
  <2>2. QED
    BY <1>1, <1>3, <1>4, <1>9, <2>1
       DEF Startup, DownInv, DrainTimesOut, FlushPhase, signal, NoStreamOpen, Open
<1>10. CASE \E s \in Signals : Flushed(s)
  BY <1>1, <1>3, <1>4, <1>10 DEF Startup, DownInv, Flushed, signal, time
<1>11. CASE EndFlush
  BY <1>1, <1>3, <1>4, <1>11 DEF Startup, DownInv, EndFlush, signal
<1>12. CASE Exit
  BY <1>1, <1>4, <1>12 DEF Startup, DownInv, Exit, signal, time
<1>13. CASE Tick
  <2>1. left > 0
    BY <1>4, <1>13 DEF Startup, DownInv, Tick, Due, DrainOver, FlushOver
  <2>2. phase = "drain" => NoStreamOpen
    BY <1>4, <1>13 DEF Startup, DownInv, Tick, Due, SeesSignal, NoStreamOpen
  <2>3. QED BY <1>1, <1>3, <1>4, <1>13, <2>1, <2>2 DEF Startup, DownInv, Tick, signal
<1>14. CASE TickUnsignalled
  <2>1. left > 0
    BY <1>4, <1>14 DEF Startup, DownInv, TickUnsignalled, Due, FlushOver
  <2>2. QED BY <1>1, <1>3, <1>4, <1>14, <2>1 DEF Startup, DownInv, TickUnsignalled, signal
<1>15. CASE SigKill
  BY <1>4, <1>15 DEF Startup, DownInv, SigKill
<1>16. QED
  BY <1>5, <1>6, <1>7, <1>8, <1>9, <1>10, <1>11, <1>12, <1>13, <1>14, <1>15 DEF GoDown

LEMMA NextKeepsDown ==
    ASSUME ConstantsOK, ProcessInv, [Next]_processVars
    PROVE  DownInv'
<1> USE DEF ConstantsOK
<1>1. CASE UNCHANGED processVars
  BY <1>1
     DEF ProcessInv, DownInv, processVars, signal, time, NoStreamOpen, Open, Kind
<1>2. CASE Start
  <2>1. phase \in Startup /\ DownInv
    BY <1>2 DEF ProcessInv, Start, StartTelemetry, StartStep, Startup
  <2>2. UNCHANGED <<plan, signal, since, gaveUpOn>>
    BY <1>2 DEF Start, StartTelemetry, StartStep, time
  <2>3. phase' \in Startup \cup {"serve", "flush", "failed"} /\ left' \in {left, 2 * FlushTimeout}
        /\ (phase' = "flush" => left' = 2 * FlushTimeout)
    BY <1>2 DEF Start, StartTelemetry, StartStep, FlushPhase, Startup, time
  <2>4. unflushed' \subseteq Signals
    BY <1>2, <2>1 DEF DownInv, Start, StartTelemetry, StartStep
  <2>5. QED BY <2>1, <2>2, <2>3, <2>4 DEF DownInv, signal, Kind, Startup
<1>3. CASE InstallHandlers
  BY <1>3 DEF ProcessInv, DownInv, InstallHandlers, time, Kind, Startup
<1>4. CASE Acquire \/ \E r \in Requests : Request(r)
  BY <1>4, RequestKeepsDown
<1>5. CASE GoDown
  BY <1>5, GoDownKeepsDown
<1>6. QED BY <1>1, <1>2, <1>3, <1>4, <1>5 DEF Next

----------------------------------------------------------------------------

LEMMA InitProcess ==
    ASSUME ConstantsOK, Init
    PROVE  ProcessInv
<1> USE DEF Init, ConstantsOK
<1>1. DownInv
  BY DEF DownInv, Startup
<1>2. In(Waiting) = {} /\ Queued = {}
  BY DEF In, Queued, Waiting
<1>3. Held = 0
  <2>1. In({"locking", "working", "second"}) = {} /\ In({"recording"}) = {}
    BY DEF In
  <2>2. /\ Cardinality(In({"locking", "working", "second"})) = 0
        /\ Cardinality(In({"recording"})) = 0
    BY <2>1, FS_EmptySet, Zenon
  <2>3. QED BY <2>2 DEF Held
<1>4. PoolInv
  BY <1>2, <1>3 DEF PoolInv, Stages
<1>5. QED BY <1>1, <1>4 DEF ProcessInv

LEMMA NextKeepsProcess ==
    ASSUME ConstantsOK, ProcessInv, [Next]_processVars
    PROVE  ProcessInv'
BY NextKeepsPool, NextKeepsDown DEF ProcessInv

LEMMA ProcessKeeps ==
    ASSUME ConstantsOK, ProcessInv
    PROVE  TypeOK /\ ExitsInTime /\ StreamsEndFirst
<1>1. ExitsInTime /\ StreamsEndFirst
  BY DEF ProcessInv, DownInv, ExitsInTime, StreamsEndFirst, NoStreamOpen, Startup
<1>2. TypeOK
  BY DEF ProcessInv, DownInv, PoolInv, TypeOK, ConstantsOK, Startup, Waiting
<1>3. QED BY <1>1, <1>2

\* Whatever the requests, the pool and the collector do, and for any timeouts that fit in the
\* grace period: a caught signal ends the process before docker kills it, no stream is open
\* when telemetry is flushed, and the pool lends no connection twice (main.rs, listen.rs,
\* observability.rs, db.rs).
THEOREM ProcessCorrect ==
    ASSUME ConstantsOK
    PROVE  Spec => [](TypeOK /\ ExitsInTime /\ StreamsEndFirst)
<1>1. Init => ProcessInv
  BY InitProcess
<1>2. ProcessInv /\ [Next]_processVars => ProcessInv'
  BY NextKeepsProcess
<1>3. ProcessInv => TypeOK /\ ExitsInTime /\ StreamsEndFirst
  BY ProcessKeeps
<1>4. QED BY <1>1, <1>2, <1>3, PTL DEF Spec
=============================================================================
