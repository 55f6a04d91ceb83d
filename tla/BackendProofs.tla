--------------------------- MODULE BackendProofs ---------------------------
(***************************************************************************)
(* Machines of MCBackend keep their promises, each with any constants that *)
(* its assumptions allow: first what the machine's own steps keep, then    *)
(* the theorem about the composition, in which a step is one machine's and *)
(* the others' variables stay off.                                         *)
(*   CallsTellTheTruthCorrect     McpServer                                *)
(*   SignInsFailForCauseCorrect   SignIn                                   *)
(*   HistoryReadsCorrect          CardHistory                              *)
(*   CutOverKeepsCardsCorrect     CutOver                                  *)
(*   OneEditNeverSilencesCorrect  Startup                                  *)
(***************************************************************************)
EXTENDS MCBackend, FiniteSetTheorems, SequenceTheorems, WellFoundedInduction, TLAPS

----------------------------------------------------------------------------
(* McpServer.                                                              *)

ToolKinds == Kinds \cup {CHOOSE k \in Kinds : TRUE}

CallType ==
    [at : {"idle", "waiting", "locked", "fetching", "issued", "sent", "done"}, kind : ToolKinds,
     token : [exp : Nat, refresh : Nat], own : BOOLEAN, left : Nat,
     applied : [done : BOOLEAN, fields : {{}} \cup {Mcp!Payload(k) : k \in ToolKinds}],
     answer : {"none", "bad arguments", "no token", "ok", "refused", "lost"}]

McpType ==
    /\ now \in 0 .. MaxTime
    /\ token \in [exp : Nat, refresh : Nat]
    /\ holder \in Calls \cup {Mcp!Nobody}
    /\ call \in [Calls -> CallType]
    /\ mcpFaults \in 0 .. MaxFaults

\* A token is refreshed Margin before its expiry, on a clock that is Skew ahead, or at once.
TokenTimed ==
    token # Mcp!NoToken =>
        token.refresh <= now \/ token.refresh <= token.exp - Skew - Margin

\* A request is on its way for Transit at most, with a token of its own fetch, or one that
\* outlives the way.
OnItsWay(r) ==
    /\ r.left <= now /\ now <= r.left + Transit
    /\ r.own \/ r.left + Transit < r.token.exp

\* What is true of a call while its locals are r.
CallWell(r) ==
    /\ r.at # "done" => r.applied = Mcp!Nothing /\ r.answer = "none"
    /\ r.at = "sent" => OnItsWay(r)
    /\ r.kind.tool \in DOMAIN Mcp!Partial => r.applied.fields \subseteq r.kind.fields
    /\ r.answer = "ok" => r.applied.done
    /\ r.answer \in {"bad arguments", "no token", "refused"} => ~r.applied.done
    /\ r.answer = "refused" => r.own /\ r.token.exp <= r.left + Transit

McpInv ==
    /\ McpType
    /\ TokenTimed
    /\ \A c \in Calls : holder = c <=> call[c].at \in {"locked", "fetching", "issued"}
    /\ \A c \in Calls : CallWell(call[c])

LEMMA NewCall == Mcp!New \in CallType /\ (Mcp!ConstantsOK => CallWell(Mcp!New))
BY DEF Mcp!New, Mcp!NoToken, Mcp!Nothing, CallType, CallWell, ToolKinds

\* Nothing was applied, so nothing is told or changed.
LEMMA NothingApplied ==
    ASSUME NEW r \in CallType, r.applied = Mcp!Nothing,
           r.answer \in {"none", "bad arguments", "no token", "lost"},
           r.at # "done" => r.answer = "none",
           r.at = "sent" => OnItsWay(r)
    PROVE  CallWell(r)
<1>1. ~r.applied.done /\ r.applied.fields = {}
  <2>1. ~Mcp!Nothing.done /\ Mcp!Nothing.fields = {}
    BY DEF Mcp!Nothing
  <2>2. QED BY <2>1
<1>2. r.answer \notin {"ok", "refused"}
  OBVIOUS
<1>3. QED BY <1>1, <1>2 DEF CallWell

LEMMA InitMcp == Mcp!ConstantsOK /\ Mcp!Init => McpInv
<1> SUFFICES ASSUME Mcp!ConstantsOK, Mcp!Init PROVE McpInv
  OBVIOUS
<1>1. McpType
  BY NewCall DEF Mcp!Init, McpType, Mcp!ConstantsOK, Mcp!NoToken
<1>2. \A c \in Calls : CallWell(call[c]) /\ call[c].at = "idle" /\ holder # c
  BY NewCall DEF Mcp!Init, Mcp!ConstantsOK, Mcp!New
<1>3. QED BY <1>1, <1>2 DEF Mcp!Init, McpInv, TokenTimed

\* Call c takes the locals r, and the time stands still.
LEMMA OneCallMoves ==
    ASSUME McpInv, NEW c \in Calls, NEW r \in CallType, call' = [call EXCEPT ![c] = r],
           CallWell(r), now' = now,
           token' \in [exp : Nat, refresh : Nat], TokenTimed',
           holder' \in Calls \cup {Mcp!Nobody}, mcpFaults' \in 0 .. MaxFaults,
           (holder' = c) <=> r.at \in {"locked", "fetching", "issued"},
           \A d \in Calls \ {c} : holder' = d <=> holder = d
    PROVE  McpInv'
<1>1. \A d \in Calls : call'[d] = IF d = c THEN r ELSE call[d]
  BY DEF McpInv, McpType
<1>2. \A d \in Calls : CallWell(call[d])'
  <2>1. \A d \in Calls : CallWell(IF d = c THEN r ELSE call[d])
    BY DEF McpInv
  <2>2. QED BY <1>1, <2>1 DEF CallWell, OnItsWay
<1>3. McpType'
  BY DEF McpInv, McpType
<1>4. \A d \in Calls : holder' = d <=> call'[d].at \in {"locked", "fetching", "issued"}
  BY <1>1 DEF McpInv
<1>5. QED BY <1>2, <1>3, <1>4 DEF McpInv

\* The mutex is its holder's, which is one call or nobody.
LEMMA OneHolder ==
    ASSUME McpInv, NEW c \in Calls, call[c].at \in {"locked", "fetching", "issued"}
    PROVE  holder = c /\ (Mcp!ConstantsOK => \A d \in Calls : Mcp!Nobody # d)
BY DEF McpInv, Mcp!ConstantsOK

LEMMA BeginKeepsMcp ==
    ASSUME Mcp!ConstantsOK, McpInv, NEW c \in Calls, Mcp!Begin(c) PROVE McpInv'
<1> USE DEF Mcp!Begin
<1>1. PICK kind \in Kinds :
        call' = [call EXCEPT ![c] =
                   IF Mcp!Refused(kind) THEN [Mcp!End(c, "bad arguments") EXCEPT !.kind = kind]
                   ELSE [call[c] EXCEPT !.at = "waiting", !.kind = kind]]
  OBVIOUS
<1> DEFINE r == IF Mcp!Refused(kind) THEN [Mcp!End(c, "bad arguments") EXCEPT !.kind = kind]
                ELSE [call[c] EXCEPT !.at = "waiting", !.kind = kind]
<1>2. call[c] \in CallType /\ CallWell(call[c]) /\ call[c].at = "idle" /\ holder # c
  BY DEF McpInv, McpType
<1>3. r \in CallType
  BY <1>2 DEF CallType, ToolKinds, Mcp!End
<1>4. r.applied = Mcp!Nothing /\ r.at \in {"waiting", "done"}
      /\ r.answer = IF r.at = "done" THEN "bad arguments" ELSE "none"
  BY <1>2 DEF CallType, CallWell, Mcp!End
<1>5. TokenTimed' /\ holder' = holder /\ now' = now /\ token' = token /\ mcpFaults' = mcpFaults
  BY DEF McpInv, TokenTimed
<1> HIDE DEF r
<1>6. call' = [call EXCEPT ![c] = r]
  BY <1>1 DEF r
<1>7. CallWell(r)
  BY <1>3, <1>4, NothingApplied
<1>8. QED BY <1>2, <1>3, <1>4, <1>5, <1>6, <1>7, OneCallMoves DEF McpInv, McpType

LEMMA LockKeepsMcp ==
    ASSUME Mcp!ConstantsOK, McpInv, NEW c \in Calls, Mcp!Lock(c) PROVE McpInv'
<1> USE DEF Mcp!Lock
<1> DEFINE r == [call[c] EXCEPT !.at = "locked"]
<1>1. call[c] \in CallType /\ CallWell(call[c]) /\ call[c].at = "waiting"
  BY DEF McpInv, McpType
<1>2. r \in CallType
  BY <1>1 DEF CallType
<1>3. CallWell(r) /\ r.at = "locked"
  BY <1>1 DEF CallType, CallWell
<1>4. TokenTimed' /\ now' = now /\ token' = token /\ mcpFaults' = mcpFaults
  BY DEF McpInv, TokenTimed
<1>5. \A d \in Calls : holder # d
  BY DEF Mcp!ConstantsOK
<1> HIDE DEF r
<1>6. call' = [call EXCEPT ![c] = r]
  BY DEF r
<1>7. QED BY <1>2, <1>3, <1>4, <1>5, <1>6, OneCallMoves DEF McpInv, McpType

\* A call that leaves with a cached token leaves a margin before its expiry.
LEMMA UseCachedKeepsMcp ==
    ASSUME Mcp!ConstantsOK, McpInv, NEW c \in Calls, Mcp!UseCached(c) PROVE McpInv'
<1> USE DEF Mcp!UseCached
<1> DEFINE r == Mcp!Depart(c, token, FALSE)
<1>1. call[c] \in CallType /\ CallWell(call[c]) /\ call[c].at = "locked" /\ holder = c
  BY OneHolder DEF McpInv, McpType
<1>2. now \in Nat /\ token \in [exp : Nat, refresh : Nat] /\ TokenTimed
  BY DEF McpInv, McpType, Mcp!ConstantsOK
<1>3. now + Transit < token.exp
  BY <1>2 DEF Mcp!Fresh, TokenTimed, Mcp!ConstantsOK
<1>4. r \in CallType
  BY <1>1, <1>2 DEF CallType, Mcp!Depart
<1>5. CallWell(r) /\ r.at = "sent"
  <2>1. r.at = "sent" /\ r.applied = Mcp!Nothing /\ r.answer = "none" /\ r.left = now
        /\ r.token = token
    BY <1>1 DEF CallType, CallWell, Mcp!Depart
  <2>2. now <= now /\ now <= now + Transit
    BY <1>2 DEF Mcp!ConstantsOK
  <2>3. OnItsWay(r)
    BY <1>3, <2>1, <2>2, Zenon DEF OnItsWay
  <2>4. QED BY <1>4, <2>1, <2>3, NothingApplied
<1>6. TokenTimed' /\ now' = now /\ token' = token /\ mcpFaults' = mcpFaults
  BY DEF McpInv, TokenTimed
<1>7. \A d \in Calls : holder' # d
  BY DEF Mcp!ConstantsOK
<1> HIDE DEF r
<1>8. call' = [call EXCEPT ![c] = r]
  BY DEF r
<1>9. QED BY <1>1, <1>4, <1>5, <1>6, <1>7, <1>8, OneCallMoves DEF McpInv, McpType

LEMMA FetchKeepsMcp ==
    ASSUME Mcp!ConstantsOK, McpInv, NEW c \in Calls, Mcp!Fetch(c) PROVE McpInv'
<1> USE DEF Mcp!Fetch
<1> DEFINE r == [call[c] EXCEPT !.at = "fetching"]
<1>1. call[c] \in CallType /\ CallWell(call[c]) /\ call[c].at = "locked" /\ holder = c
  BY OneHolder DEF McpInv, McpType
<1>2. r \in CallType
  BY <1>1 DEF CallType
<1>3. CallWell(r) /\ r.at = "fetching"
  BY <1>1 DEF CallType, CallWell
<1>4. TokenTimed' /\ holder' = holder /\ now' = now /\ token' = token /\ mcpFaults' = mcpFaults
  BY DEF McpInv, TokenTimed
<1> HIDE DEF r
<1>5. call' = [call EXCEPT ![c] = r]
  BY DEF r
<1>6. QED BY <1>1, <1>2, <1>3, <1>4, <1>5, OneCallMoves DEF McpInv, McpType

\* The token is issued while the call that asked for it waits.
LEMMA IssueKeepsMcp ==
    ASSUME Mcp!ConstantsOK, McpInv, NEW c \in Calls, Mcp!Issue(c) PROVE McpInv'
<1> USE DEF Mcp!Issue
<1>1. PICK life \in Lifetimes :
        call' = [call EXCEPT ![c].at = "issued", ![c].token = [Mcp!NoToken EXCEPT !.exp = now + life]]
  OBVIOUS
<1> DEFINE r == [call[c] EXCEPT !.at = "issued", !.token = [Mcp!NoToken EXCEPT !.exp = now + life]]
<1>2. call[c] \in CallType /\ CallWell(call[c]) /\ call[c].at = "fetching" /\ holder = c
  BY OneHolder DEF McpInv, McpType
<1>3. now \in Nat /\ life \in Nat
  BY DEF McpInv, McpType, Mcp!ConstantsOK
<1>4. r \in CallType
  <2>1. [Mcp!NoToken EXCEPT !.exp = now + life] \in [exp : Nat, refresh : Nat]
    BY <1>3 DEF Mcp!NoToken
  <2>2. QED BY <1>2, <2>1 DEF CallType
<1>5. CallWell(r) /\ r.at = "issued"
  <2>1. r.at = "issued" /\ r.applied = Mcp!Nothing /\ r.answer = "none"
    BY <1>2 DEF CallType, CallWell
  <2>2. QED BY <1>4, <2>1, NothingApplied
<1>6. TokenTimed' /\ holder' = holder /\ now' = now /\ token' = token /\ mcpFaults' = mcpFaults
  BY DEF McpInv, TokenTimed
<1>7. call' = [call EXCEPT ![c] = r]
  BY <1>1, <1>2 DEF McpInv, McpType, CallType
<1> HIDE DEF r
<1>8. QED BY <1>2, <1>4, <1>5, <1>6, <1>7, OneCallMoves DEF McpInv, McpType

\* A token is cached until Margin before its expiry, by the process's clock.
LEMMA RefreshDue ==
    ASSUME Mcp!ConstantsOK, now \in Nat, NEW exp \in Nat
    PROVE  /\ Mcp!Due(exp) \in Nat
           /\ Mcp!Due(exp) <= now \/ Mcp!Due(exp) <= exp - Skew - Margin
BY DEF Mcp!Due, Mcp!Later, Mcp!ConstantsOK

LEMMA FetchedKeepsMcp ==
    ASSUME Mcp!ConstantsOK, McpInv, NEW c \in Calls, Mcp!Fetched(c) PROVE McpInv'
<1> USE DEF Mcp!Fetched
<1> DEFINE t == [call[c].token EXCEPT !.refresh = Mcp!Due(call[c].token.exp)]
           r == Mcp!Depart(c, t, TRUE)
<1>1. call[c] \in CallType /\ CallWell(call[c]) /\ call[c].at = "issued" /\ holder = c
  BY OneHolder DEF McpInv, McpType
<1>2. now \in Nat /\ call[c].token \in [exp : Nat, refresh : Nat]
  <2>1. now \in Nat
    BY DEF McpInv, McpType, Mcp!ConstantsOK
  <2>2. QED BY <1>1, <2>1 DEF CallType
<1>3. /\ t \in [exp : Nat, refresh : Nat]
      /\ t.refresh <= now \/ t.refresh <= t.exp - Skew - Margin
  BY <1>2, RefreshDue
<1> HIDE DEF t
<1>4. token' = t /\ now' = now /\ mcpFaults' = mcpFaults
  BY DEF t
<1>5. TokenTimed'
  BY <1>3, <1>4 DEF TokenTimed
<1>6. r \in CallType
  BY <1>1, <1>2, <1>3 DEF CallType, Mcp!Depart
<1>7. CallWell(r) /\ r.at = "sent"
  <2>1. r.at = "sent" /\ r.applied = Mcp!Nothing /\ r.answer = "none" /\ r.left = now /\ r.own
    BY <1>1 DEF CallType, CallWell, Mcp!Depart
  <2>2. now <= now /\ now <= now + Transit
    BY <1>2 DEF Mcp!ConstantsOK
  <2>3. OnItsWay(r)
    BY <2>1, <2>2, Zenon DEF OnItsWay
  <2>4. QED BY <1>6, <2>1, <2>3, NothingApplied
<1>8. \A d \in Calls : holder' # d
  BY DEF Mcp!ConstantsOK
<1> HIDE DEF r
<1>9. call' = [call EXCEPT ![c] = r]
  BY <1>4 DEF r
<1>10. QED BY <1>1, <1>3, <1>4, <1>5, <1>6, <1>7, <1>8, <1>9, OneCallMoves DEF McpInv, McpType

LEMMA FaultCounted ==
    ASSUME Mcp!ConstantsOK, McpInv, Mcp!Fault PROVE mcpFaults' \in 0 .. MaxFaults
<1>1. MaxFaults \in Nat
  BY DEF Mcp!ConstantsOK
<1>2. QED BY <1>1 DEF McpInv, McpType, Mcp!Fault

LEMMA FetchFailsKeepsMcp ==
    ASSUME Mcp!ConstantsOK, McpInv, NEW c \in Calls, Mcp!FetchFails(c) PROVE McpInv'
<1> USE DEF Mcp!FetchFails
<1> DEFINE r == Mcp!End(c, "no token")
<1>1. /\ call[c] \in CallType /\ CallWell(call[c]) /\ holder = c
      /\ call[c].at \in {"fetching", "issued"}
  BY OneHolder DEF McpInv, McpType
<1>2. r \in CallType
  BY <1>1 DEF CallType, Mcp!End
<1>3. CallWell(r) /\ r.at = "done"
  <2>1. r.at = "done" /\ r.applied = Mcp!Nothing /\ r.answer = "no token"
    BY <1>1 DEF CallType, CallWell, Mcp!End
  <2>2. QED BY <1>2, <2>1, NothingApplied
<1>4. TokenTimed' /\ now' = now /\ token' = token
  BY DEF McpInv, TokenTimed
<1>5. \A d \in Calls : holder' # d
  BY DEF Mcp!ConstantsOK
<1> HIDE DEF r
<1>6. call' = [call EXCEPT ![c] = r]
  BY DEF r
<1>7. mcpFaults' \in 0 .. MaxFaults
  BY FaultCounted
<1>8. QED BY <1>1, <1>2, <1>3, <1>4, <1>5, <1>6, <1>7, OneCallMoves DEF McpInv, McpType

\* A call ends with what the backend did of it.
LEMMA Ends ==
    ASSUME Mcp!ConstantsOK, McpInv, NEW c \in Calls, NEW r \in CallType, CallWell(r),
           call[c].at = "sent", r.at = "done", call' = [call EXCEPT ![c] = r],
           UNCHANGED <<now, token, holder>>, mcpFaults' \in 0 .. MaxFaults
    PROVE  McpInv'
<1>1. TokenTimed' /\ holder' = holder /\ now' = now /\ token' = token /\ holder # c
  BY DEF McpInv, TokenTimed
<1>2. QED BY <1>1, OneCallMoves DEF McpInv, McpType

LEMMA DropKeepsMcp ==
    ASSUME Mcp!ConstantsOK, McpInv, NEW c \in Calls, Mcp!Drop(c) PROVE McpInv'
<1> USE DEF Mcp!Drop
<1> DEFINE r == Mcp!End(c, "lost")
<1>1. call[c] \in CallType /\ CallWell(call[c]) /\ call[c].at = "sent"
  BY DEF McpInv, McpType
<1>2. r \in CallType /\ r.at = "done" /\ r.applied = Mcp!Nothing /\ r.answer = "lost"
  BY <1>1 DEF CallType, CallWell, Mcp!End
<1>3. CallWell(r)
  BY <1>2, NothingApplied
<1>4. mcpFaults' \in 0 .. MaxFaults
  BY FaultCounted
<1> HIDE DEF r
<1>5. call' = [call EXCEPT ![c] = r]
  BY DEF r
<1>6. QED BY <1>1, <1>2, <1>3, <1>4, <1>5, Ends

\* A call whose token expired on its way had fetched it, and it had no more left than that.
LEMMA ArriveKeepsMcp ==
    ASSUME Mcp!ConstantsOK, McpInv, NEW c \in Calls, Mcp!Arrive(c) PROVE McpInv'
<1> DEFINE expired == call[c].token.exp <= now
           outcome == IF expired THEN Mcp!Nothing
                   ELSE [done |-> TRUE, fields |-> Mcp!Payload(call[c].kind)]
           Answered(answer) == [Mcp!End(c, answer) EXCEPT !.applied = outcome]
<1>1. call[c] \in CallType /\ CallWell(call[c]) /\ call[c].at = "sent" /\ now \in Nat
  BY DEF Mcp!Arrive, McpInv, McpType
<1>2. PICK answer \in {"ok", "refused", "lost"} :
        /\ call' = [call EXCEPT ![c] = Answered(answer)]
        /\ answer = "ok" => ~expired
        /\ answer = "refused" => expired
        /\ mcpFaults' \in 0 .. MaxFaults
  BY FaultCounted DEF Mcp!Arrive, Mcp!Report, McpInv, McpType
<1> DEFINE r == Answered(answer)
<1>3. outcome \in [done : BOOLEAN, fields : {{}} \cup {Mcp!Payload(k) : k \in ToolKinds}]
  BY <1>1 DEF CallType, Mcp!Nothing
<1>4. /\ call[c].kind.tool \in DOMAIN Mcp!Partial => outcome.fields \subseteq call[c].kind.fields
      /\ expired <=> ~outcome.done
  BY DEF Mcp!Nothing, Mcp!Partial, Mcp!Payload
<1>5. expired => call[c].own /\ call[c].token.exp <= call[c].left + Transit
  <2>1. call[c].left \in Nat /\ call[c].token.exp \in Nat
    BY <1>1 DEF CallType
  <2>2. OnItsWay(call[c])
    BY <1>1 DEF CallWell
  <2>3. Transit \in Nat
    BY DEF Mcp!ConstantsOK
  <2>4. QED BY <1>1, <2>1, <2>2, <2>3 DEF OnItsWay
<1> HIDE DEF outcome, expired
<1>6. /\ r \in CallType /\ r.at = "done" /\ r.answer = answer /\ r.applied = outcome
      /\ r.kind = call[c].kind /\ r.token = call[c].token
      /\ r.own = call[c].own /\ r.left = call[c].left
  BY <1>1, <1>3 DEF CallType, Mcp!End
<1> HIDE DEF r
<1>7. CallWell(r)
  BY <1>2, <1>4, <1>5, <1>6 DEF CallWell
<1>8. UNCHANGED <<now, token, holder>>
  BY DEF Mcp!Arrive
<1>9. call' = [call EXCEPT ![c] = r]
  BY <1>2 DEF r
<1>10. QED BY <1>1, <1>2, <1>6, <1>7, <1>8, <1>9, Ends

LEMMA AgainKeepsMcp ==
    ASSUME Mcp!ConstantsOK, McpInv, NEW c \in Calls, Mcp!Again(c) PROVE McpInv'
<1> USE DEF Mcp!Again
<1>1. call[c].at = "done" /\ holder # c /\ Mcp!New.at = "idle"
  BY DEF McpInv, Mcp!New
<1>2. TokenTimed' /\ holder' = holder /\ now' = now /\ token' = token /\ mcpFaults' = mcpFaults
  BY DEF McpInv, TokenTimed
<1>3. call' = [call EXCEPT ![c] = Mcp!New]
  OBVIOUS
<1>4. QED BY <1>1, <1>2, <1>3, NewCall, OneCallMoves DEF McpInv, McpType

\* No request is longer on its way than Transit.
LEMMA TickKeepsMcp ==
    ASSUME Mcp!ConstantsOK, McpInv, Mcp!Tick PROVE McpInv'
<1> USE DEF Mcp!Tick
<1>1. now \in Nat /\ now' = now + 1 /\ now' \in 0 .. MaxTime /\ Transit \in Nat
  BY DEF McpInv, McpType, Mcp!ConstantsOK
<1>2. McpType'
  BY <1>1 DEF McpInv, McpType
<1>3. TokenTimed'
  BY <1>1 DEF McpInv, McpType, TokenTimed, Mcp!NoToken
<1>4. ASSUME NEW c \in Calls PROVE CallWell(call[c])'
  <2>1. call[c] \in CallType /\ CallWell(call[c]) /\ call'[c] = call[c]
    BY DEF McpInv, McpType
  <2>2. call[c].at = "sent" => OnItsWay(call[c])'
    <3>1. call[c].left \in Nat
      BY <2>1 DEF CallType
    <3>2. SUFFICES ASSUME call[c].at = "sent" PROVE OnItsWay(call[c])'
      OBVIOUS
    <3>3. OnItsWay(call[c]) /\ now < call[c].left + Transit
      BY <2>1, <3>2 DEF CallWell
    <3>4. call[c].left <= now + 1 /\ now + 1 <= call[c].left + Transit
      BY <1>1, <3>1, <3>3 DEF OnItsWay
    <3>5. QED BY <1>1, <2>1, <3>3, <3>4 DEF OnItsWay
  <2>3. QED BY <2>1, <2>2 DEF CallWell
<1>5. QED BY <1>2, <1>3, <1>4 DEF McpInv

LEMMA McpKeeps == ASSUME Mcp!ConstantsOK, McpInv, [Mcp!Next]_(Mcp!vars) PROVE McpInv'
<1>1. CASE UNCHANGED Mcp!vars
  BY <1>1 DEF Mcp!vars, McpInv, McpType, TokenTimed, CallWell, OnItsWay
<1>2. CASE Mcp!Next
  BY <1>2, TickKeepsMcp, BeginKeepsMcp, LockKeepsMcp, UseCachedKeepsMcp, FetchKeepsMcp,
     IssueKeepsMcp, FetchedKeepsMcp, FetchFailsKeepsMcp, ArriveKeepsMcp, DropKeepsMcp, AgainKeepsMcp
     DEF Mcp!Next
<1>3. QED BY <1>1, <1>2

LEMMA McpTells == McpInv => Mcp!TypeOK /\ Mcp!CallsTellTheTruth
<1> SUFFICES ASSUME McpInv PROVE Mcp!TypeOK /\ Mcp!CallsTellTheTruth
  OBVIOUS
<1>1. \A c \in Calls : call[c] \in CallType
  BY DEF McpInv, McpType
<1>2. Mcp!TypeOK
  BY <1>1 DEF McpInv, McpType, CallType, Mcp!TypeOK
<1>3. Mcp!CallsTellTheTruth
  BY DEF McpInv, CallWell, Mcp!CallsTellTheTruth
<1>4. QED BY <1>2, <1>3

\* The machine of the composition keeps its promise while the others' variables are off.
McpPart == part = "mcp" => McpInv

\* Whatever tools are called with whatever arguments, for any lifetimes of tokens and any
\* skew of the clocks, with failed fetches and lost answers: a tool changes only the fields it
\* was given and tells the truth about it, and a call is refused for its token only when it
\* fetched that token itself and the token came with no more life than the way to the backend
\* takes (mcp/src/server.rs get_token, fetch, require_ok).
THEOREM CallsTellTheTruthCorrect == BackendSpec => []CallsTellTheTruth
<1>1. BackendInit => McpPart
  BY McpAssumption, InitMcp DEF BackendInit, McpStarts, McpPart
<1>2. McpPart /\ [BackendNext]_BackendVars => McpPart'
  <2> SUFFICES ASSUME McpPart, [BackendNext]_BackendVars, part' = "mcp" PROVE McpInv'
    BY DEF McpPart
  <2>1. part = part' /\ [Mcp!Next]_(Mcp!vars)
    BY DEF BackendNext, BackendVars, PositionsRuns, HistoryRuns, CutOverRuns, SignInRuns,
           StartupRuns, McpRuns, mcpVars, Mcp!vars
  <2>2. QED BY <2>1, McpAssumption, McpKeeps DEF McpPart
<1>3. McpPart => CallsTellTheTruth
  BY McpTells DEF McpPart, CallsTellTheTruth
<1>4. QED BY <1>1, <1>2, <1>3, PTL DEF BackendSpec

----------------------------------------------------------------------------
(* SignIn.                                                                 *)

StateKinds == {SignIn!NoState} \cup [nonce : Nat, to : {SignIn!Root} \cup Paths]
TokenKinds == {SignIn!NoToken} \cup {[SignIn!NoToken EXCEPT !.kid = k] : k \in Nat} \cup Tokens

TabType ==
    [at : {"idle", "provider", "exchange", "validate", "done"}, state : StateKinds,
     end : {"none", "denied", "no_state", "mismatch", "not_exchanged", "not_valid", "session"},
     hurt : BOOLEAN]

LookType ==
    [at : {"idle", "lookup", "asked", "answered", "again", "ok", "no_key", "no_fetch", "refused"},
     token : TokenKinds, doc : SUBSET Nat, overtaken : BOOLEAN]

SignInType ==
    /\ newest \in Nat /\ published \in SUBSET Nat
    /\ cookie \in StateKinds
    /\ tab \in [Tabs -> TabType]
    /\ look \in [SignIn!Actors -> LookType]
    /\ logins \in Nat

\* A key that is missing once the document is stored was not in it, or was overwritten.
LookWell(l) ==
    /\ l.at = "again" => l.token.kid \in cache \/ l.token.kid \notin l.doc \/ l.overtaken
    /\ l.at = "no_key" => l.token.kid \notin l.doc \/ l.overtaken

\* A tab that is not disturbed finds its state in the cookie.
HoldsState(r) ==
    r.state # SignIn!NoState /\ ~r.hurt /\ r.end # "session" => cookie = r.state

\* A tab is turned away for its state when it is disturbed, and its token is the provider's.
TabWell(r, l) ==
    /\ r.at \in {"provider", "exchange", "validate"} =>
           r.end = "none" /\ r.state # SignIn!NoState
    /\ r.end = "not_exchanged" => r.state # SignIn!NoState
    /\ r.end \in {"no_state", "mismatch"} => r.hurt
    /\ r.at = "validate" => SignIn!Verdict(l.token) = "ok" /\ l.at # "refused"
    /\ r.end = "not_valid" => l.at \in {"no_fetch", "no_key"}

SignInInv ==
    /\ SignInType
    /\ \A a \in SignIn!Actors : LookWell(look[a])
    /\ \A t \in Tabs : HoldsState(tab[t]) /\ TabWell(tab[t], look[t])

LEMMA InitSignIn == SignIn!Init => SignInInv
<1> SUFFICES ASSUME SignIn!Init PROVE SignInInv
  OBVIOUS
<1> USE DEF SignIn!Init
<1>1. SignIn!Home \in TabType /\ SignIn!Idle \in LookType
  BY DEF SignIn!Home, SignIn!Idle, TabType, LookType, StateKinds, TokenKinds
<1>2. SignInType
  BY <1>1 DEF SignInType, StateKinds
<1>3. LookWell(SignIn!Idle) /\ HoldsState(SignIn!Home) /\ TabWell(SignIn!Home, SignIn!Idle)
  BY DEF SignIn!Home, SignIn!Idle, LookWell, HoldsState, TabWell
<1>4. \A t \in Tabs : t \in SignIn!Actors
  BY DEF SignIn!Actors
<1>5. QED BY <1>2, <1>3, <1>4 DEF SignInInv

LEMMA LookTyped ==
    ASSUME SignInInv, NEW a \in SignIn!Actors
    PROVE  look[a] \in LookType /\ LookWell(look[a])
BY DEF SignInInv, SignInType

LEMMA TabTyped ==
    ASSUME SignInInv, NEW t \in Tabs
    PROVE  /\ tab[t] \in TabType /\ HoldsState(tab[t]) /\ TabWell(tab[t], look[t])
           /\ t \in SignIn!Actors /\ look[t] \in LookType
BY DEF SignInInv, SignInType, SignIn!Actors

\* One validation moves on, and was not over.
LEMMA OneLookMoves ==
    ASSUME SignInInv, NEW a \in SignIn!Actors, NEW l \in LookType,
           look' = [look EXCEPT ![a] = l], LookWell(l),
           UNCHANGED <<published, newest, cache, cookie, tab, logins>>,
           look[a].at \notin {"no_fetch", "no_key"}, l.token = look[a].token,
           SignIn!Verdict(l.token) = "ok" => l.at # "refused"
    PROVE  SignInInv'
<1>1. \A b \in SignIn!Actors : look'[b] = IF b = a THEN l ELSE look[b]
  BY DEF SignInInv, SignInType
<1>2. SignInType'
  BY DEF SignInInv, SignInType
<1>3. \A b \in SignIn!Actors : LookWell(look[b])'
  BY <1>1 DEF SignInInv, LookWell
<1>4. \A t \in Tabs : HoldsState(tab[t])' /\ TabWell(tab'[t], look'[t])
  <2> TAKE t \in Tabs
  <2>1. HoldsState(tab[t]) /\ TabWell(tab[t], look[t]) /\ t \in SignIn!Actors
    BY TabTyped
  <2>2. TabWell(tab[t], IF t = a THEN l ELSE look[t])
    BY <2>1 DEF TabWell
  <2>3. QED BY <1>1, <2>1, <2>2 DEF HoldsState
<1>5. QED BY <1>2, <1>3, <1>4 DEF SignInInv

LEMMA LookupKeepsSignIn ==
    ASSUME SignInInv, NEW a \in SignIn!Actors, SignIn!Lookup(a) \/ SignIn!LookAgain(a)
    PROVE  SignInInv'
<1> DEFINE otherwise == IF look[a].at = "lookup" THEN "asked" ELSE "no_key"
           l == [look[a] EXCEPT
                   !.at = IF SignIn!Found(a) THEN SignIn!Verdict(look[a].token) ELSE otherwise]
<1>1. /\ look[a].at \in {"lookup", "again"}
      /\ look' = [look EXCEPT ![a] = l]
      /\ UNCHANGED <<published, newest, cache, cookie, tab, logins>>
  BY DEF SignIn!Lookup, SignIn!LookAgain, SignIn!Set
<1>2. look[a] \in LookType /\ LookWell(look[a])
  BY LookTyped
<1>3. SignIn!Verdict(look[a].token) \in {"ok", "refused"}
  BY DEF SignIn!Verdict
<1>4. l \in LookType /\ l.token = look[a].token /\ l.doc = look[a].doc
      /\ l.overtaken = look[a].overtaken
      /\ l.at = IF SignIn!Found(a) THEN SignIn!Verdict(look[a].token) ELSE otherwise
  BY <1>2, <1>3 DEF LookType
<1> HIDE DEF l
<1>5. LookWell(l)
  BY <1>1, <1>2, <1>3, <1>4 DEF LookWell, SignIn!Found
<1>6. SignIn!Verdict(l.token) = "ok" => l.at # "refused"
  BY <1>4
<1>7. QED BY <1>1, <1>4, <1>5, <1>6, OneLookMoves

LEMMA AnswerKeepsSignIn ==
    ASSUME SignInInv, NEW a \in SignIn!Actors, SignIn!Answer(a) PROVE SignInInv'
<1> DEFINE l == [look[a] EXCEPT !.at = "answered", !.doc = SignIn!KeysOf(published)]
<1>1. /\ look[a].at = "asked"
      /\ look' = [look EXCEPT ![a] = l]
      /\ UNCHANGED <<published, newest, cache, cookie, tab, logins>>
  BY DEF SignIn!Answer
<1>2. look[a] \in LookType /\ SignIn!KeysOf(published) \in SUBSET Nat
  BY LookTyped DEF SignInInv, SignInType, SignIn!KeysOf
<1>3. l \in LookType /\ l.token = look[a].token /\ l.at = "answered"
  BY <1>2 DEF LookType
<1> HIDE DEF l
<1>4. QED BY <1>1, <1>3, OneLookMoves DEF LookWell

LEMMA FetchFailsKeepsSignIn ==
    ASSUME SignInInv, NEW a \in SignIn!Actors, SignIn!FetchFails(a) PROVE SignInInv'
<1> DEFINE l == [look[a] EXCEPT !.at = "no_fetch"]
<1>1. /\ look[a].at \in {"asked", "answered"}
      /\ look' = [look EXCEPT ![a] = l]
      /\ UNCHANGED <<published, newest, cache, cookie, tab, logins>>
  BY DEF SignIn!FetchFails, SignIn!Set
<1>2. look[a] \in LookType
  BY LookTyped
<1>3. l \in LookType /\ l.token = look[a].token /\ l.at = "no_fetch"
  BY <1>2 DEF LookType
<1> HIDE DEF l
<1>4. QED BY <1>1, <1>3, OneLookMoves DEF LookWell

\* Whoever stored a document that had the key is told of an older one over it.
LEMMA StoreKeepsSignIn ==
    ASSUME SignInInv, NEW a \in SignIn!Actors, SignIn!Store(a) PROVE SignInInv'
<1> DEFINE Stored(b) == IF b = a THEN [look[a] EXCEPT !.at = "again"]
                        ELSE IF look[b].at = "again" /\ look[b].token.kid \notin cache'
                        THEN [look[b] EXCEPT !.overtaken = TRUE] ELSE look[b]
<1>1. /\ look[a].at = "answered" /\ cache' = look[a].doc
      /\ look' = [b \in SignIn!Actors |-> Stored(b)]
      /\ UNCHANGED <<published, newest, cookie, tab, logins>>
  BY DEF SignIn!Store, SignIn!Replaced
<1>2. ASSUME NEW b \in SignIn!Actors
      PROVE  /\ Stored(b) \in LookType /\ look'[b] = Stored(b)
             /\ Stored(b).token = look[b].token /\ LookWell(look[b])'
             /\ Stored(b).at = IF b = a THEN "again" ELSE look[b].at
  <2>1. look[b] \in LookType /\ LookWell(look[b]) /\ look'[b] = Stored(b)
    BY <1>1, LookTyped
  <2>2. /\ Stored(b) \in LookType
        /\ Stored(b).token = look[b].token /\ Stored(b).doc = look[b].doc
        /\ Stored(b).at = IF b = a THEN "again" ELSE look[b].at
        /\ Stored(b).overtaken \/ Stored(b).overtaken = look[b].overtaken
        /\ b # a /\ look[b].at = "again" /\ look[b].token.kid \notin cache' => Stored(b).overtaken
    BY <2>1 DEF LookType
  <2> HIDE DEF Stored
  <2>3. LookWell(look[b])'
    BY <1>1, <2>1, <2>2 DEF LookWell
  <2>4. QED BY <2>1, <2>2, <2>3
<1> HIDE DEF Stored
<1>3. SignInType'
  BY <1>1, <1>2 DEF SignInInv, SignInType
<1>4. \A t \in Tabs : HoldsState(tab[t])' /\ TabWell(tab'[t], look'[t])
  <2> TAKE t \in Tabs
  <2>1. HoldsState(tab[t]) /\ TabWell(tab[t], look[t]) /\ t \in SignIn!Actors
    BY TabTyped
  <2>2. QED BY <1>1, <1>2, <2>1 DEF HoldsState, TabWell
<1>5. QED BY <1>2, <1>3, <1>4 DEF SignInInv

\* A request of another's token looks it up; no tab signs in with it.
LEMMA PresentKeepsSignIn ==
    ASSUME SignIn!ConstantsOK, SignInInv, NEW b \in Bearers, SignIn!Present(b) PROVE SignInInv'
<1>1. PICK carried \in Tokens :
        look' = [look EXCEPT ![b] = [SignIn!Idle EXCEPT !.at = "lookup", !.token = carried]]
  BY DEF SignIn!Present
<1> DEFINE l == [SignIn!Idle EXCEPT !.at = "lookup", !.token = carried]
<1>2. l \in LookType /\ l.at = "lookup"
  BY DEF SignIn!Idle, LookType, TokenKinds
<1> HIDE DEF l
<1>3. /\ \A a \in SignIn!Actors : look'[a] = IF a = b THEN l ELSE look[a]
      /\ look' \in [SignIn!Actors -> LookType]
      /\ UNCHANGED <<published, newest, cache, cookie, tab, logins>>
  BY <1>1, <1>2 DEF l, SignInInv, SignInType, SignIn!Present
<1>4. SignInType'
  BY <1>3 DEF SignInInv, SignInType
<1>5. \A a \in SignIn!Actors : LookWell(look[a])'
  BY <1>2, <1>3 DEF SignInInv, LookWell
<1>6. \A t \in Tabs : HoldsState(tab[t])' /\ TabWell(tab'[t], look'[t])
  <2> TAKE t \in Tabs
  <2>1. look'[t] = look[t] /\ HoldsState(tab[t]) /\ TabWell(tab[t], look[t])
    BY <1>3, TabTyped DEF SignIn!ConstantsOK
  <2>2. QED BY <1>3, <2>1 DEF HoldsState
<1>7. QED BY <1>4, <1>5, <1>6 DEF SignInInv

LEMMA RotateKeepsSignIn ==
    ASSUME SignInInv, SignIn!Rotate PROVE SignInInv'
<1>1. UNCHANGED <<cache, cookie, tab, look, logins>> /\ newest' = newest + 1
  BY DEF SignIn!Rotate
<1>2. published' \in SUBSET Nat
  BY <1>1 DEF SignIn!Rotate, SignInInv, SignInType
<1>3. SignInType'
  BY <1>1, <1>2 DEF SignInInv, SignInType
<1>4. \A a \in SignIn!Actors : LookWell(look[a])'
  BY <1>1 DEF SignInInv, LookWell
<1>5. \A t \in Tabs : HoldsState(tab[t])' /\ TabWell(tab'[t], look'[t])
  BY <1>1 DEF SignInInv, HoldsState
<1>6. QED BY <1>3, <1>4, <1>5 DEF SignInInv

\* One tab moves on under the cookie it found, and its validation with it.
LEMMA OneTabMoves ==
    ASSUME SignInInv, NEW t \in Tabs, NEW r \in TabType, NEW l \in LookType,
           tab' = [tab EXCEPT ![t] = r], look' = [look EXCEPT ![t] = l],
           UNCHANGED <<published, newest, cache, cookie, logins>>,
           HoldsState(r), TabWell(r, l), LookWell(l)
    PROVE  SignInInv'
<1>1. /\ \A u \in Tabs : tab'[u] = IF u = t THEN r ELSE tab[u]
      /\ \A a \in SignIn!Actors : look'[a] = IF a = t THEN l ELSE look[a]
      /\ SignInType'
  BY DEF SignInInv, SignInType
<1>2. \A a \in SignIn!Actors : LookWell(look[a])'
  BY <1>1 DEF SignInInv, LookWell
<1>3. \A u \in Tabs : HoldsState(tab[u])' /\ TabWell(tab'[u], look'[u])
  <2> TAKE u \in Tabs
  <2>1. HoldsState(tab[u]) /\ TabWell(tab[u], look[u]) /\ u \in SignIn!Actors
    BY TabTyped
  <2>2. QED BY <1>1, <2>1 DEF HoldsState
<1>4. QED BY <1>1, <1>2, <1>3 DEF SignInInv

\* The same, while its validation stands still.
LEMMA TabEnds ==
    ASSUME SignInInv, NEW t \in Tabs, NEW r \in TabType, tab' = [tab EXCEPT ![t] = r],
           UNCHANGED <<published, newest, cache, cookie, logins, look>>,
           HoldsState(r), TabWell(r, look[t])
    PROVE  SignInInv'
<1>1. look' = [look EXCEPT ![t] = look[t]] /\ look[t] \in LookType /\ LookWell(look[t])
  BY LookTyped, TabTyped DEF SignInInv, SignInType
<1>2. QED BY <1>1, OneTabMoves

LEMMA DeniedKeepsSignIn ==
    ASSUME SignInInv, NEW t \in Tabs, SignIn!Denied(t) PROVE SignInInv'
<1> DEFINE r == [tab[t] EXCEPT !.at = "done", !.end = "denied"]
<1>1. tab[t] \in TabType /\ HoldsState(tab[t]) /\ TabWell(tab[t], look[t]) /\ tab[t].at = "provider"
  BY TabTyped DEF SignIn!Denied
<1>2. /\ r \in TabType /\ r.at = "done" /\ r.end = "denied"
      /\ r.state = tab[t].state /\ r.hurt = tab[t].hurt
  BY <1>1 DEF TabType
<1>3. tab' = [tab EXCEPT ![t] = r]
  BY DEF SignIn!Denied, SignIn!End, SignInInv, SignInType
<1> HIDE DEF r
<1>4. HoldsState(r) /\ TabWell(r, look[t])
  BY <1>1, <1>2 DEF HoldsState, TabWell
<1>5. QED BY <1>2, <1>3, <1>4, TabEnds DEF SignIn!Denied

\* A tab that comes back finds its state, or was disturbed.
LEMMA CallbackKeepsSignIn ==
    ASSUME SignInInv, NEW t \in Tabs, SignIn!Callback(t) PROVE SignInInv'
<1> DEFINE r == IF SignIn!Refusal(t) = "none" THEN [tab[t] EXCEPT !.at = "exchange", !.end = "none"]
                ELSE [tab[t] EXCEPT !.at = "done", !.end = SignIn!Refusal(t)]
<1>1. /\ tab[t] \in TabType /\ HoldsState(tab[t]) /\ TabWell(tab[t], look[t])
      /\ tab[t].at = "provider" \/ tab[t].end = "not_exchanged"
  BY TabTyped DEF SignIn!Callback
<1>2. tab[t].state # SignIn!NoState /\ tab[t].end # "session"
  BY <1>1 DEF TabWell
<1>3. /\ SignIn!Refusal(t) \in {"none", "no_state", "mismatch"}
      /\ SignIn!Refusal(t) # "none" => tab[t].hurt
  BY <1>1, <1>2 DEF SignIn!Refusal, HoldsState
<1>4. /\ r \in TabType /\ r.state = tab[t].state /\ r.hurt = tab[t].hurt
      /\ r.at = IF SignIn!Refusal(t) = "none" THEN "exchange" ELSE "done"
      /\ r.end = SignIn!Refusal(t)
  BY <1>1, <1>3 DEF TabType
<1>5. tab' = [tab EXCEPT ![t] = r]
  BY DEF SignIn!Callback, SignIn!End, SignInInv, SignInType
<1> HIDE DEF r
<1>6. HoldsState(r) /\ TabWell(r, look[t])
  BY <1>1, <1>2, <1>3, <1>4 DEF HoldsState, TabWell
<1>7. QED BY <1>4, <1>5, <1>6, TabEnds DEF SignIn!Callback

LEMMA ExchangeKeepsSignIn ==
    ASSUME SignInInv, NEW t \in Tabs, SignIn!Exchange(t) PROVE SignInInv'
<1> DEFINE r == [tab[t] EXCEPT !.at = "validate"]
           issued_token == [SignIn!NoToken EXCEPT !.kid = newest]
           l == [SignIn!Idle EXCEPT !.at = "lookup", !.token = issued_token]
<1>1. /\ tab[t] \in TabType /\ HoldsState(tab[t]) /\ TabWell(tab[t], look[t])
      /\ tab[t].at = "exchange"
  BY TabTyped DEF SignIn!Exchange
<1>2. /\ r \in TabType /\ r.at = "validate" /\ r.end = tab[t].end
      /\ r.state = tab[t].state /\ r.hurt = tab[t].hurt
  BY <1>1 DEF TabType
<1>3. issued_token \in TokenKinds /\ SignIn!Verdict(issued_token) = "ok"
  BY DEF SignInInv, SignInType, TokenKinds, SignIn!NoToken, SignIn!Verdict
<1> HIDE DEF issued_token
<1>4. l \in LookType /\ l.at = "lookup" /\ l.token = issued_token
  BY <1>3 DEF SignIn!Idle, LookType
<1>5. tab' = [tab EXCEPT ![t] = r] /\ look' = [look EXCEPT ![t] = l]
  BY DEF SignIn!Exchange, SignInInv, SignInType, issued_token
<1> HIDE DEF r, l
<1>6. HoldsState(r) /\ TabWell(r, l) /\ LookWell(l)
  BY <1>1, <1>2, <1>3, <1>4 DEF HoldsState, TabWell, LookWell
<1>7. QED BY <1>2, <1>4, <1>5, <1>6, OneTabMoves DEF SignIn!Exchange

LEMMA ExchangeFailsKeepsSignIn ==
    ASSUME SignInInv, NEW t \in Tabs, SignIn!ExchangeFails(t) PROVE SignInInv'
<1> DEFINE r == [tab[t] EXCEPT !.at = "done", !.end = "not_exchanged"]
<1>1. /\ tab[t] \in TabType /\ HoldsState(tab[t]) /\ TabWell(tab[t], look[t])
      /\ tab[t].at = "exchange"
  BY TabTyped DEF SignIn!ExchangeFails
<1>2. /\ r \in TabType /\ r.at = "done" /\ r.end = "not_exchanged"
      /\ r.state = tab[t].state /\ r.hurt = tab[t].hurt
  BY <1>1 DEF TabType
<1>3. tab' = [tab EXCEPT ![t] = r]
  BY DEF SignIn!ExchangeFails, SignIn!End, SignInInv, SignInType
<1> HIDE DEF r
<1>4. HoldsState(r) /\ TabWell(r, look[t])
  BY <1>1, <1>2 DEF HoldsState, TabWell
<1>5. QED BY <1>2, <1>3, <1>4, TabEnds DEF SignIn!ExchangeFails

\* A token the provider issued is never refused once its key is found.
LEMMA RejectKeepsSignIn ==
    ASSUME SignInInv, NEW t \in Tabs, SignIn!Reject(t) PROVE SignInInv'
<1> DEFINE r == [tab[t] EXCEPT !.at = "done", !.end = "not_valid"]
<1>1. /\ tab[t] \in TabType /\ HoldsState(tab[t]) /\ TabWell(tab[t], look[t])
      /\ tab[t].at = "validate" /\ look[t].at \in {"no_key", "no_fetch", "refused"}
  BY TabTyped DEF SignIn!Reject
<1>2. /\ r \in TabType /\ r.at = "done" /\ r.end = "not_valid"
      /\ r.state = tab[t].state /\ r.hurt = tab[t].hurt
  BY <1>1 DEF TabType
<1>3. tab' = [tab EXCEPT ![t] = r]
  BY DEF SignIn!Reject, SignIn!End, SignInInv, SignInType
<1> HIDE DEF r
<1>4. HoldsState(r) /\ TabWell(r, look[t])
  BY <1>1, <1>2 DEF HoldsState, TabWell
<1>5. QED BY <1>2, <1>3, <1>4, TabEnds DEF SignIn!Reject

\* Once the cookie is taken, every tab is disturbed, has its session or never had a state.
LEMMA DisturbedWell ==
    ASSUME SignInInv, NEW u \in Tabs
    PROVE  /\ SignIn!Disturbed[u] \in TabType /\ TabWell(SignIn!Disturbed[u], look[u])
           /\ \/ SignIn!Disturbed[u].hurt \/ SignIn!Disturbed[u].end = "session"
              \/ SignIn!Disturbed[u].state = SignIn!NoState
<1> DEFINE d == SignIn!Disturbed[u]
<1>1. tab[u] \in TabType /\ HoldsState(tab[u]) /\ TabWell(tab[u], look[u])
  BY TabTyped
<1>2. d = IF tab[u].state = cookie /\ cookie # SignIn!NoState
          THEN [tab[u] EXCEPT !.hurt = TRUE] ELSE tab[u]
  BY DEF SignIn!Disturbed
<1> HIDE DEF d
<1>3. /\ d \in TabType /\ d.at = tab[u].at /\ d.end = tab[u].end /\ d.state = tab[u].state
      /\ tab[u].hurt => d.hurt
      /\ d.hurt \/ tab[u].state # cookie \/ cookie = SignIn!NoState
  BY <1>1, <1>2 DEF TabType
<1>4. TabWell(d, look[u])
  BY <1>1, <1>3 DEF TabWell
<1>5. d.hurt \/ d.end = "session" \/ d.state = SignIn!NoState
  BY <1>1, <1>3 DEF HoldsState
<1>6. QED BY <1>3, <1>4, <1>5 DEF d

LEMMA ExpireKeepsSignIn == ASSUME SignInInv, SignIn!ExpireState PROVE SignInInv'
<1>1. /\ tab' = SignIn!Disturbed /\ cookie' = SignIn!NoState
      /\ UNCHANGED <<published, newest, cache, look, logins>>
  BY DEF SignIn!ExpireState
<1>2. tab' \in [Tabs -> TabType]
  BY <1>1, DisturbedWell DEF SignIn!Disturbed
<1>3. SignInType'
  BY <1>1, <1>2 DEF SignInInv, SignInType, StateKinds
<1>4. \A a \in SignIn!Actors : LookWell(look[a])'
  BY <1>1 DEF SignInInv, LookWell
<1>5. \A u \in Tabs : HoldsState(tab[u])' /\ TabWell(tab'[u], look'[u])
  BY <1>1, DisturbedWell DEF HoldsState
<1>6. QED BY <1>3, <1>4, <1>5 DEF SignInInv

\* A logout disturbs the sign-ins under way and sends the sessions home.
LEMMA LogoutKeepsSignIn == ASSUME SignInInv, SignIn!Logout PROVE SignInInv'
<1> DEFINE Left(u) == IF tab[u].end = "session" THEN SignIn!Home ELSE SignIn!Disturbed[u]
<1>1. /\ tab' = [u \in Tabs |-> Left(u)] /\ cookie' = SignIn!NoState
      /\ UNCHANGED <<published, newest, cache, look, logins>>
  BY DEF SignIn!Logout
<1>2. ASSUME NEW u \in Tabs
      PROVE  /\ Left(u) \in TabType /\ TabWell(Left(u), look[u])
             /\ Left(u).state # SignIn!NoState /\ ~Left(u).hurt => Left(u).end = "session"
  <2>1. SignIn!Home \in TabType /\ SignIn!Home.state = SignIn!NoState
        /\ TabWell(SignIn!Home, look[u])
    BY DEF SignIn!Home, TabType, StateKinds, TabWell
  <2>2. QED BY <2>1, DisturbedWell
<1> HIDE DEF Left
<1>3. SignInType'
  BY <1>1, <1>2 DEF SignInInv, SignInType, StateKinds
<1>4. \A a \in SignIn!Actors : LookWell(look[a])'
  BY <1>1 DEF SignInInv, LookWell
<1>5. \A u \in Tabs : HoldsState(tab[u])' /\ TabWell(tab'[u], look'[u])
  BY <1>1, <1>2 DEF HoldsState
<1>6. QED BY <1>3, <1>4, <1>5 DEF SignInInv

\* Tab t takes the cookie from the others.
LEMMA CookieMoves ==
    ASSUME SignInInv, NEW t \in Tabs, NEW r \in TabType, NEW l \in LookType,
           tab' = [SignIn!Disturbed EXCEPT ![t] = r], look' = [look EXCEPT ![t] = l],
           UNCHANGED <<published, newest, cache>>, cookie' \in StateKinds, logins' \in Nat,
           r.state # SignIn!NoState /\ r.end # "session" => cookie' = r.state,
           TabWell(r, l), LookWell(l)
    PROVE  SignInInv'
<1>1. SignIn!Disturbed \in [Tabs -> TabType]
  BY DisturbedWell DEF SignIn!Disturbed
<1>2. /\ \A u \in Tabs : tab'[u] = IF u = t THEN r ELSE SignIn!Disturbed[u]
      /\ \A a \in SignIn!Actors : look'[a] = IF a = t THEN l ELSE look[a]
      /\ SignInType'
  BY <1>1 DEF SignInInv, SignInType
<1>3. \A a \in SignIn!Actors : LookWell(look[a])'
  BY <1>2 DEF SignInInv, LookWell
<1>4. \A u \in Tabs : HoldsState(tab[u])' /\ TabWell(tab'[u], look'[u])
  <2> TAKE u \in Tabs
  <2>1. u \in SignIn!Actors
    BY TabTyped
  <2>2. QED BY <1>2, <2>1, DisturbedWell DEF HoldsState
<1>5. QED BY <1>2, <1>3, <1>4 DEF SignInInv

LEMMA LoginKeepsSignIn ==
    ASSUME SignInInv, NEW t \in Tabs, SignIn!Login(t) PROVE SignInInv'
<1>1. PICK path \in Paths :
        LET s == [nonce |-> logins + 1, to |-> SignIn!SafeReturnTo(path)]
        IN /\ cookie' = s
           /\ tab' = [SignIn!Disturbed EXCEPT ![t] =
                         [SignIn!Home EXCEPT !.at = "provider", !.state = s]]
  BY DEF SignIn!Login
<1> DEFINE s == [nonce |-> logins + 1, to |-> SignIn!SafeReturnTo(path)]
           r == [SignIn!Home EXCEPT !.at = "provider", !.state = s]
<1>2. logins \in Nat /\ logins' = logins + 1
  BY DEF SignInInv, SignInType, SignIn!Login
<1>3. s \in StateKinds /\ s # SignIn!NoState
  BY <1>2 DEF StateKinds, SignIn!SafeReturnTo, SignIn!NoState
<1>4. cookie' = s /\ tab' = [SignIn!Disturbed EXCEPT ![t] = r]
  BY <1>1
<1> HIDE DEF s
<1>5. /\ r \in TabType /\ r.at = "provider" /\ r.state = s /\ r.end = "none"
      /\ SignIn!Idle \in LookType /\ SignIn!Idle.at = "idle"
  BY <1>3 DEF SignIn!Home, SignIn!Idle, TabType, LookType, TokenKinds
<1> HIDE DEF r
<1>6. cookie' = r.state /\ TabWell(r, SignIn!Idle) /\ LookWell(SignIn!Idle)
  BY <1>3, <1>4, <1>5 DEF TabWell, LookWell
<1>7. UNCHANGED <<published, newest, cache>> /\ look' = [look EXCEPT ![t] = SignIn!Idle]
  BY DEF SignIn!Login
<1>8. cookie' \in StateKinds /\ logins' \in Nat
  BY <1>2, <1>3, <1>4
<1> DEFINE l == SignIn!Idle
<1>9. l \in LookType /\ TabWell(r, l) /\ LookWell(l) /\ look' = [look EXCEPT ![t] = l]
  BY <1>5, <1>6, <1>7
<1> HIDE DEF l
<1>10. QED BY <1>4, <1>5, <1>6, <1>7, <1>8, <1>9, CookieMoves

LEMMA CompleteKeepsSignIn ==
    ASSUME SignInInv, NEW t \in Tabs, SignIn!Complete(t) PROVE SignInInv'
<1> DEFINE r == [tab[t] EXCEPT !.at = "done", !.end = "session"]
<1>1. tab[t] \in TabType /\ look[t] \in LookType /\ LookWell(look[t])
  BY TabTyped, LookTyped
<1>2. r \in TabType /\ r.at = "done" /\ r.end = "session"
  BY <1>1 DEF TabType
<1>3. /\ tab' = [SignIn!Disturbed EXCEPT ![t] = r] /\ look' = [look EXCEPT ![t] = look[t]]
      /\ cookie' \in StateKinds /\ logins' \in Nat /\ UNCHANGED <<published, newest, cache>>
  BY DEF SignIn!Complete, StateKinds, SignInInv, SignInType
<1> HIDE DEF r
<1>4. TabWell(r, look[t])
  BY <1>2 DEF TabWell
<1>5. QED BY <1>1, <1>2, <1>3, <1>4, CookieMoves

LEMMA SignInKeeps ==
    ASSUME SignIn!ConstantsOK, SignInInv, [SignIn!Next]_(SignIn!vars) PROVE SignInInv'
<1>1. CASE UNCHANGED SignIn!vars \/ SignIn!Discover \/ SignIn!GiveUp
  <2>1. UNCHANGED <<published, newest, cache, cookie, tab, look, logins>>
    BY <1>1 DEF SignIn!vars, SignIn!Discover, SignIn!GiveUp
  <2>2. QED BY <2>1 DEF SignInInv, SignInType, LookWell, HoldsState
<1>2. CASE SignIn!Next
  BY <1>1, <1>2, RotateKeepsSignIn, ExpireKeepsSignIn, LogoutKeepsSignIn, PresentKeepsSignIn, LookupKeepsSignIn,
     AnswerKeepsSignIn, FetchFailsKeepsSignIn, StoreKeepsSignIn, LoginKeepsSignIn,
     DeniedKeepsSignIn, CallbackKeepsSignIn, ExchangeKeepsSignIn, ExchangeFailsKeepsSignIn,
     CompleteKeepsSignIn, RejectKeepsSignIn DEF SignIn!Next
<1>3. QED BY <1>1, <1>2

LEMMA SignInTells == SignInInv => SignIn!SignInsFailForCause
<1> SUFFICES ASSUME SignInInv, NEW t \in Tabs
    PROVE /\ tab[t].end \in {"no_state", "mismatch"} => tab[t].hurt
          /\ tab[t].end = "not_valid" =>
               \/ look[t].at = "no_fetch"
               \/ look[t].at = "no_key"
                  /\ (look[t].token.kid \notin look[t].doc \/ look[t].overtaken)
  BY DEF SignIn!SignInsFailForCause
<1>1. TabWell(tab[t], look[t]) /\ LookWell(look[t])
  BY TabTyped, LookTyped
<1>2. QED BY <1>1 DEF TabWell, LookWell

SignInPart == part = "signIn" => SignInInv

\* However many tabs sign in over one another or come back late, and whatever keys the
\* provider rotates while requests refresh the cache: a callback is turned away for its state
\* only when something took the state from the cookie, and a token the provider issued is
\* rejected only for a failed fetch, a key that was gone from the document, or an older
\* document stored over it (routes/auth.rs callback, auth/jwt.rs get and refresh).
THEOREM SignInsFailForCauseCorrect == BackendSpec => []SignInsFailForCause
<1>1. BackendInit => SignInPart
  BY InitSignIn DEF BackendInit, SignInStarts, SignInPart
<1>2. SignInPart /\ [BackendNext]_BackendVars => SignInPart'
  <2> SUFFICES ASSUME SignInPart, [BackendNext]_BackendVars, part' = "signIn" PROVE SignInInv'
    BY DEF SignInPart
  <2>1. part = part' /\ [SignIn!Next]_(SignIn!vars)
    BY DEF BackendNext, BackendVars, PositionsRuns, HistoryRuns, CutOverRuns, SignInRuns,
           StartupRuns, McpRuns, signInVars, SignIn!vars
  <2>2. QED BY <2>1, SignInAssumption, SignInKeeps DEF SignInPart
<1>3. SignInPart => SignInsFailForCause
  BY SignInTells DEF SignInPart, SignInsFailForCause
<1>4. QED BY <1>1, <1>2, <1>3, PTL DEF BackendSpec

----------------------------------------------------------------------------
(* CardHistory.  Nothing is claimed once two requests for the card have    *)
(* overlapped, and they stay overlapped, so the invariant is that of one   *)
(* request after another.                                                  *)

Sittings == Sessions \cup {History!NoSession}
Deeds == {"create", "update", "move", "restore"}
Wanted == [fields : SUBSET History!Fields, to : History!Contents, restored : BOOLEAN]

RowType ==
    [actor : Editors \cup {History!NoSession}, action : Deeds, session : Sittings,
     before : History!Contents, after : History!Contents, restored : BOOLEAN, at : Nat]

LoadType == [pc : {"load"}, wish : Wanted, actor : Editors, session : Sittings]
WriteType == [pc : {"write"}, wish : Wanted, actor : Editors, fields : SUBSET History!Fields,
              session : Sittings, before : History!Contents]
RecordType == [pc : {"find", "append"}, actor : Editors, session : Sittings, action : Deeds,
               before : History!Contents, after : History!Contents, restored : BOOLEAN]
MergeType == [pc : {"merge"}, actor : Editors, session : Sittings, action : Deeds,
              before : History!Contents, after : History!Contents, restored : BOOLEAN,
              last : RowType]
RequestType == {History!Nothing} \cup LoadType \cup WriteType \cup RecordType \cup MergeType

HistoryType ==
    /\ row \in History!Contents
    /\ history \in Seq(RowType) /\ history # << >>
    /\ clock \in Nat
    /\ request \in [Handlers -> RequestType]

Newest == history[Len(history)]

\* Each row was made later than the one before it, and none in the future.
Dated ==
    /\ \A i \in 1 .. Len(history) : history[i].at <= clock
    /\ \A i, j \in 1 .. Len(history) : i < j => history[i].at < history[j].at

\* Each row starts where the one before it ends, and a stretch of editing leaves the tags.
Chained ==
    /\ \A i \in 2 .. Len(history) : history[i].before = history[i - 1].after
    /\ \A i \in 1 .. Len(history) : history[i].session # History!NoSession =>
           history[i].before["tags"] = history[i].after["tags"]

\* How far request r has brought the card and its newest row.
Underway(r, card, newestRow) ==
    /\ r.pc \in {"load", "write"} => newestRow.after = card
    /\ r.pc = "write" =>
           r.before = card /\ (r.session # History!NoSession => "tags" \notin r.fields)
    /\ r.pc \in {"find", "append", "merge"} =>
           /\ r.before = newestRow.after /\ r.after = card
           /\ r.session # History!NoSession => r.before["tags"] = r.after["tags"]
    /\ r.pc \in {"find", "merge"} => r.session # History!NoSession
    /\ r.pc = "merge" => r.last = newestRow /\ newestRow.session = r.session

OneAtATime ==
    /\ HistoryType /\ Dated /\ Chained
    /\ \A g, h \in Handlers : request[g].pc # "idle" /\ request[h].pc # "idle" => g = h
    /\ (\A h \in Handlers : request[h].pc = "idle") => Newest.after = row
    /\ \A h \in Handlers : Underway(request[h], row, Newest)

HistoryInv == ~overlapped => OneAtATime

LEMMA RequestFields ==
    ASSUME NEW r \in RequestType
    PROVE  /\ r.pc = "load" => r \in LoadType
           /\ r.pc = "write" => r \in WriteType
           /\ r.pc \in {"find", "append"} => r \in RecordType
           /\ r.pc = "merge" => r \in MergeType
           /\ r.pc \in {"idle", "load", "write", "find", "append", "merge"}
BY DEF RequestType, LoadType, WriteType, RecordType, MergeType, History!Nothing

LEMMA InitHistory == History!Init => HistoryInv
<1> SUFFICES ASSUME History!Init PROVE OneAtATime
  BY DEF HistoryInv
<1> USE DEF History!Init
<1> DEFINE e == [actor |-> History!NoSession, action |-> "create", session |-> History!NoSession,
                 before |-> History!Blank, after |-> History!Blank, restored |-> FALSE, at |-> 0]
<1>1. History!Blank \in History!Contents /\ e \in RowType
  BY DEF History!Blank, History!Contents, History!Values, RowType, Deeds, Sittings
<1>2. /\ history = <<e>> /\ Len(history) = 1 /\ history[1] = e
      /\ row = History!Blank /\ clock = 0
      /\ request = [h \in Handlers |-> History!Nothing]
  OBVIOUS
<1>3. e.after = History!Blank /\ e.at = 0 /\ e.session = History!NoSession
  OBVIOUS
<1> HIDE DEF e, History!Init
<1>4. HistoryType
  BY <1>1, <1>2 DEF HistoryType, RequestType
<1>5. Dated /\ Chained
  BY <1>2, <1>3 DEF Dated, Chained
<1>6. \A h \in Handlers : request[h].pc = "idle"
  BY <1>2 DEF History!Nothing
<1>7. Newest.after = row
  BY <1>2, <1>3 DEF Newest
<1>8. QED BY <1>4, <1>5, <1>6, <1>7 DEF OneAtATime, Underway

\* A handler works on alone, while the history stands.
LEMMA OneRequestMoves ==
    ASSUME OneAtATime, NEW h \in Handlers, NEW r \in RequestType,
           request' = [request EXCEPT ![h] = r], UNCHANGED <<history, clock>>,
           row' \in History!Contents, Underway(r, row', Newest),
           \A g \in Handlers \ {h} : request[g].pc = "idle",
           r.pc = "idle" => Newest.after = row'
    PROVE  OneAtATime'
<1>1. \A g \in Handlers : request'[g] = IF g = h THEN r ELSE request[g]
  BY DEF OneAtATime, HistoryType
<1>2. HistoryType' /\ Dated' /\ Chained' /\ Newest' = Newest
  BY DEF OneAtATime, HistoryType, Dated, Chained, Newest
<1>3. \A g \in Handlers : Underway(request'[g], row', Newest)
  BY <1>1 DEF Underway
<1>4. QED BY <1>1, <1>2, <1>3 DEF OneAtATime

LEMMA Alone ==
    ASSUME OneAtATime, NEW h \in Handlers, request[h].pc # "idle"
    PROVE  /\ \A g \in Handlers \ {h} : request[g].pc = "idle"
           /\ request[h] \in RequestType /\ Underway(request[h], row, Newest)
           /\ Newest \in RowType /\ row \in History!Contents
BY DEF OneAtATime, HistoryType, Newest

LEMMA WishesWanted ==
    ASSUME HistoryType, NEW w \in History!Wishes PROVE w \in Wanted
<1>1. \A f \in History!Asked : f \in SUBSET History!Fields
  BY DEF History!Asked, History!Fields
<1>2. CASE w \in [fields : History!Asked,
                  to : {[f \in History!Fields |-> v] : v \in History!Values}, restored : {FALSE}]
  BY <1>1, <1>2 DEF Wanted, History!Contents
<1>3. CASE \E version \in History!ToSet(history) :
             w = [fields |-> {"body", "tags"}, to |-> version.after, restored |-> TRUE]
  <2>1. PICK i \in DOMAIN history :
          w = [fields |-> {"body", "tags"}, to |-> history[i].after, restored |-> TRUE]
    BY <1>3 DEF History!ToSet
  <2>2. history[i] \in RowType
    BY DEF HistoryType
  <2>3. QED BY <2>1, <2>2 DEF Wanted, RowType, History!Fields
<1>4. QED BY <1>2, <1>3 DEF History!Wishes

LEMMA ArrivesKeepsHistory ==
    ASSUME OneAtATime, NEW h \in Handlers, History!Arrives(h), ~overlapped' PROVE OneAtATime'
<1>1. PICK w \in History!Wishes, a \in Editors, s \in Sittings :
        request' = [request EXCEPT ![h] = [pc |-> "load", wish |-> w, actor |-> a, session |-> s]]
  BY DEF History!Arrives, Sittings
<1> DEFINE r == [pc |-> "load", wish |-> w, actor |-> a, session |-> s]
<1>2. w \in Wanted
  BY WishesWanted DEF OneAtATime
<1>3. r \in RequestType /\ r.pc = "load"
  BY <1>2 DEF RequestType, LoadType
<1> HIDE DEF r
<1>4. \A g \in Handlers : request[g].pc = "idle"
  BY DEF History!Arrives
<1>5. Newest.after = row /\ row \in History!Contents /\ UNCHANGED <<row, history, clock>>
  BY <1>4 DEF OneAtATime, HistoryType, History!Arrives
<1>6. Underway(r, row', Newest)
  BY <1>3, <1>5 DEF Underway
<1>7. request' = [request EXCEPT ![h] = r]
  BY <1>1 DEF r
<1>8. QED BY <1>3, <1>4, <1>5, <1>6, <1>7, OneRequestMoves

\* What is planned is planned on the card as it is.
LEMMA LoadKeepsHistory ==
    ASSUME OneAtATime, NEW h \in Handlers, History!Load(h) PROVE OneAtATime'
<1> DEFINE q == request[h]
           fields == History!Writes(q.wish, row)
           plan == [pc |-> "write", wish |-> q.wish, actor |-> q.actor, fields |-> fields,
                    session |-> History!Session(q, fields), before |-> row]
<1>1. q.pc = "load" /\ UNCHANGED <<row, history, clock>>
  BY DEF History!Load
<1>2. /\ \A g \in Handlers \ {h} : request[g].pc = "idle"
      /\ q \in LoadType /\ Newest.after = row /\ row \in History!Contents
  BY <1>1, Alone, RequestFields DEF Underway
<1>3. PICK r \in {History!Nothing, plan} : request' = [request EXCEPT ![h] = r]
  BY DEF History!Load
<1>4. /\ fields \in SUBSET History!Fields
      /\ History!Session(q, fields) \in Sittings
      /\ History!Session(q, fields) # History!NoSession => "tags" \notin fields
  BY <1>2 DEF LoadType, Wanted, Sittings, History!Writes, History!Session
<1>5. /\ plan \in WriteType /\ plan.pc = "write" /\ plan.before = row
      /\ plan.session # History!NoSession => "tags" \notin plan.fields
  BY <1>2, <1>4 DEF LoadType, WriteType
<1> HIDE DEF plan, fields
<1>6. r \in RequestType /\ Underway(r, row', Newest)
  BY <1>1, <1>2, <1>3, <1>5 DEF RequestType, Underway, History!Nothing
<1>7. QED BY <1>1, <1>2, <1>3, <1>6, OneRequestMoves

LEMMA WriteKeepsHistory ==
    ASSUME OneAtATime, NEW h \in Handlers, History!Write(h) PROVE OneAtATime'
<1> DEFINE q == request[h]
           r == [pc |-> IF q.session = History!NoSession THEN "append" ELSE "find",
                 actor |-> q.actor, session |-> q.session,
                 action |-> History!Action(q.wish, q.fields), before |-> q.before,
                 after |-> row', restored |-> q.wish.restored]
<1>1. /\ q.pc = "write" /\ UNCHANGED <<history, clock>>
      /\ row' = [f \in History!Fields |-> IF f \in q.fields THEN q.wish.to[f] ELSE row[f]]
      /\ request' = [request EXCEPT ![h] = r]
  BY DEF History!Write
<1>2. /\ \A g \in Handlers \ {h} : request[g].pc = "idle"
      /\ q \in WriteType /\ row \in History!Contents
      /\ Newest.after = row /\ q.before = row
      /\ q.session # History!NoSession => "tags" \notin q.fields
  BY <1>1, Alone, RequestFields DEF Underway
<1>3. row' \in History!Contents
  BY <1>1, <1>2 DEF WriteType, Wanted, History!Contents
<1>4. q.session # History!NoSession => row'["tags"] = q.before["tags"]
  BY <1>1, <1>2 DEF History!Fields
<1>5. History!Action(q.wish, q.fields) \in Deeds
  BY DEF History!Action, Deeds
<1>6. /\ r \in RecordType /\ r.before = q.before /\ r.after = row' /\ r.session = q.session
      /\ r.pc = IF q.session = History!NoSession THEN "append" ELSE "find"
  BY <1>2, <1>3, <1>5 DEF WriteType, Wanted, RecordType
<1> HIDE DEF r
<1>7. r \in RequestType /\ Underway(r, row', Newest) /\ r.pc # "idle"
  BY <1>2, <1>4, <1>6 DEF RequestType, Underway
<1>8. QED BY <1>1, <1>2, <1>3, <1>7, OneRequestMoves

LEMMA FindKeepsHistory ==
    ASSUME OneAtATime, NEW h \in Handlers, History!Find(h) PROVE OneAtATime'
<1> DEFINE q == request[h]
           own == [q EXCEPT !.pc = "append"]
           into == [actor |-> q.actor, session |-> q.session, action |-> q.action,
                    before |-> q.before, after |-> q.after, restored |-> q.restored,
                    pc |-> "merge", last |-> Newest]
<1>1. q.pc = "find" /\ UNCHANGED <<row, history, clock>>
  BY DEF History!Find
<1>2. /\ \A g \in Handlers \ {h} : request[g].pc = "idle"
      /\ q \in RecordType /\ row \in History!Contents /\ Newest \in RowType
      /\ q.before = Newest.after /\ q.after = row /\ q.session # History!NoSession
      /\ q.before["tags"] = q.after["tags"]
  BY <1>1, Alone, RequestFields DEF Underway
<1>3. PICK r \in {own, into} :
        /\ request' = [request EXCEPT ![h] = r]
        /\ r = into => Newest.session = q.session
  <2>1. History!Last(history) = Newest
    BY DEF History!Last, Newest
  <2>2. CASE History!Ours(q, Newest)
    <3>1. History!Found(q) = <<Newest>>
      BY <2>1, <2>2 DEF History!Found
    <3>2. request' = [request EXCEPT ![h] = into]
      BY <3>1 DEF History!Find
    <3>3. Newest.session = q.session
      BY <2>2 DEF History!Ours
    <3>4. QED BY <3>2, <3>3
  <2>3. CASE ~History!Ours(q, Newest)
    <3>1. History!Found(q) = << >>
      BY <2>1, <2>3 DEF History!Found
    <3>2. request' = [request EXCEPT ![h] = own]
      BY <3>1 DEF History!Find
    <3>3. own.pc # into.pc
      BY <1>2 DEF RecordType
    <3>4. QED BY <3>2, <3>3
  <2>4. QED BY <2>2, <2>3
<1>4. /\ own \in RecordType /\ own.pc = "append" /\ own.before = q.before
      /\ own.after = q.after /\ own.session = q.session
  BY <1>2 DEF RecordType
<1>5. /\ into \in MergeType /\ into.pc = "merge" /\ into.before = q.before
      /\ into.after = q.after /\ into.session = q.session /\ into.last = Newest
  BY <1>2 DEF RecordType, MergeType
<1> HIDE DEF own, into
<1>6. r \in RequestType /\ Underway(r, row', Newest) /\ r.pc # "idle"
  BY <1>1, <1>2, <1>3, <1>4, <1>5 DEF RequestType, Underway
<1>7. QED BY <1>1, <1>2, <1>3, <1>6, OneRequestMoves

\* Row e goes behind the rows s that history begins with, and its request is done.
LEMMA RowRecorded ==
    ASSUME OneAtATime, NEW h \in Handlers, \A g \in Handlers \ {h} : request[g].pc = "idle",
           request' = [request EXCEPT ![h] = History!Nothing], UNCHANGED row,
           NEW s \in Seq(RowType), NEW e \in RowType, history' = Append(s, e),
           Len(s) <= Len(history), \A i \in 1 .. Len(s) : s[i] = history[i],
           e.at = clock + 1, clock' = clock + 1, e.after = row,
           Len(s) > 0 => e.before = s[Len(s)].after,
           e.session # History!NoSession => e.before["tags"] = e.after["tags"]
    PROVE  OneAtATime'
<1> DEFINE n == Len(s)
<1>1. n \in Nat /\ Len(history) \in Nat /\ clock \in Nat
  BY DEF OneAtATime, HistoryType
<1>2. /\ history' \in Seq(RowType) /\ Len(history') = n + 1
      /\ \A i \in 1 .. n : history'[i] = history[i]
      /\ history'[n + 1] = e
  BY <1>1
<1>3. /\ \A g \in Handlers : request'[g] = IF g = h THEN History!Nothing ELSE request[g]
      /\ request' \in [Handlers -> RequestType]
      /\ History!Nothing.pc = "idle"
  BY DEF OneAtATime, HistoryType, RequestType, History!Nothing
<1>4. HistoryType'
  BY <1>1, <1>2, <1>3 DEF OneAtATime, HistoryType
<1>5. Dated'
  <2> DEFINE m == Len(history)
  <2>1. \A i \in 1 .. n : i \in 1 .. m
    BY <1>1
  <2>2. \A i \in 1 .. m : history[i].at \in Nat
    <3>1. \A i \in 1 .. m : history[i] \in RowType
      BY DEF OneAtATime, HistoryType
    <3>2. QED BY <3>1 DEF RowType
  <2>3. /\ \A i \in 1 .. m : history[i].at <= clock
        /\ \A i, j \in 1 .. m : i < j => history[i].at < history[j].at
    BY DEF OneAtATime, Dated
  <2>4. \A i \in 1 .. n + 1 : i \in 1 .. n \/ i = n + 1
    BY <1>1
  <2> HIDE DEF m, n
  <2>5. ASSUME NEW i \in 1 .. n + 1 PROVE history'[i].at <= clock + 1
    <3>1. CASE i = n + 1
      BY <1>1, <1>2, <3>1
    <3>2. CASE i \in 1 .. n
      <4>1. history'[i] = history[i] /\ history[i].at <= clock /\ history[i].at \in Nat
        BY <1>2, <2>1, <2>2, <2>3, <3>2
      <4>2. QED BY <1>1, <4>1
    <3>3. QED BY <2>4, <3>1, <3>2
  <2>6. ASSUME NEW i \in 1 .. n + 1, NEW j \in 1 .. n + 1, i < j
        PROVE  history'[i].at < history'[j].at
    <3>1. i \in 1 .. n
      BY <1>1, <2>6
    <3>2. history'[i] = history[i] /\ history[i].at <= clock /\ history[i].at \in Nat
      BY <1>2, <2>1, <2>2, <2>3, <3>1
    <3>3. CASE j = n + 1
      BY <1>1, <1>2, <3>2, <3>3
    <3>4. CASE j \in 1 .. n
      BY <1>2, <2>1, <2>3, <2>6, <3>1, <3>4
    <3>5. QED BY <2>4, <3>3, <3>4
  <2>7. QED BY <1>2, <2>5, <2>6 DEF Dated, n
<1>6. Chained'
  <2>1. ASSUME NEW i \in 2 .. n + 1 PROVE history'[i].before = history'[i - 1].after
    <3>1. CASE i = n + 1
      BY <1>1, <1>2, <3>1
    <3>2. CASE i \in 2 .. n
      BY <1>1, <1>2, <3>2 DEF OneAtATime, Chained
    <3>3. QED BY <1>1, <3>1, <3>2
  <2>2. ASSUME NEW i \in 1 .. n + 1, history'[i].session # History!NoSession
        PROVE  history'[i].before["tags"] = history'[i].after["tags"]
    <3>1. CASE i = n + 1
      BY <1>2, <2>2, <3>1
    <3>2. CASE i \in 1 .. n
      BY <1>1, <1>2, <2>2, <3>2 DEF OneAtATime, Chained
    <3>3. QED BY <1>1, <3>1, <3>2
  <2>3. QED BY <1>2, <2>1, <2>2 DEF Chained
<1>7. Newest'.after = row'
  BY <1>1, <1>2 DEF Newest
<1>8. \A g \in Handlers : request'[g].pc = "idle"
  BY <1>3
<1>9. \A g \in Handlers : Underway(request[g], row, Newest)'
  BY <1>8 DEF Underway
<1>10. QED BY <1>4, <1>5, <1>6, <1>7, <1>8, <1>9 DEF OneAtATime

LEMMA AppendRowKeepsHistory ==
    ASSUME OneAtATime, NEW h \in Handlers, History!AppendRow(h) PROVE OneAtATime'
<1> DEFINE q == request[h]
           e == [actor |-> q.actor, action |-> q.action, session |-> q.session,
                 before |-> q.before, after |-> q.after, restored |-> q.restored,
                 at |-> clock + 1]
<1>1. /\ q.pc = "append" /\ history' = Append(history, e) /\ clock' = clock + 1
      /\ request' = [request EXCEPT ![h] = History!Nothing] /\ UNCHANGED row
  BY DEF History!AppendRow
<1>2. /\ \A g \in Handlers \ {h} : request[g].pc = "idle"
      /\ q \in RecordType /\ q.before = Newest.after /\ q.after = row
      /\ q.session # History!NoSession => q.before["tags"] = q.after["tags"]
  BY <1>1, Alone, RequestFields DEF Underway
<1>3. history \in Seq(RowType) /\ clock \in Nat /\ Len(history) \in Nat
  BY DEF OneAtATime, HistoryType
<1>4. /\ e \in RowType /\ e.at = clock + 1 /\ e.after = row
      /\ e.before = history[Len(history)].after
      /\ e.session # History!NoSession => e.before["tags"] = e.after["tags"]
  BY <1>2, <1>3 DEF RecordType, RowType, Newest
<1> HIDE DEF e
<1>5. Len(history) <= Len(history) /\ \A i \in 1 .. Len(history) : history[i] = history[i]
  BY <1>3
<1>6. QED BY <1>1, <1>2, <1>3, <1>4, <1>5, RowRecorded

LEMMA ButTheNewest ==
    ASSUME HistoryType
    PROVE  LET s == History!RemoveAt(history, Len(history))
           IN  /\ s \in Seq(RowType) /\ Len(s) = Len(history) - 1
               /\ \A i \in 1 .. Len(s) : s[i] = history[i]
<1> DEFINE n == Len(history)
           a == SubSeq(history, 1, n - 1)
           b == SubSeq(history, n + 1, n)
<1>1. history \in Seq(RowType) /\ n \in Nat /\ n > 0
  BY DEF HistoryType
<1>2. a \in Seq(RowType) /\ Len(a) = n - 1 /\ \A i \in 1 .. n - 1 : a[i] = history[i]
  <2>1. \A i \in 1 .. n - 1 : history[i] \in RowType
    BY <1>1
  <2>2. /\ a \in Seq(RowType)
        /\ Len(a) = IF 1 <= n - 1 THEN n - 1 - 1 + 1 ELSE 0
        /\ \A i \in 1 .. n - 1 - 1 + 1 : a[i] = history[1 + i - 1]
    BY <1>1, <2>1, SubSeqProperties
  <2> HIDE DEF n, a
  <2>3. n - 1 - 1 + 1 = n - 1 /\ \A i \in 1 .. n - 1 : 1 + i - 1 = i
    BY <1>1
  <2>4. QED BY <1>1, <2>2, <2>3
<1>3. b = << >>
  BY <1>1, SubSeqEmpty
<1>4. History!RemoveAt(history, n) = a \o b
  BY DEF History!RemoveAt
<1> HIDE DEF a, b
<1>5. a \o b = a
  BY <1>2, <1>3
<1>6. QED BY <1>1, <1>2, <1>4, <1>5

\* The row that was found is still the newest, and the merged row takes its place.
LEMMA MergeKeepsHistory ==
    ASSUME OneAtATime, NEW h \in Handlers, History!Merge(h) PROVE OneAtATime'
<1> DEFINE q == request[h]
           n == Len(history)
           e == [q.last EXCEPT !.after = q.after, !.at = clock + 1]
           s == History!RemoveAt(history, n)
<1>1. /\ q.pc = "merge" /\ UNCHANGED row
      /\ \/ /\ \E i \in DOMAIN history :
                 /\ history[i].at = q.last.at
                 /\ history' = Append(History!RemoveAt(history, i), e)
            /\ clock' = clock + 1
            /\ request' = [request EXCEPT ![h] = History!Nothing]
         \/ \A i \in DOMAIN history : history[i].at # q.last.at
  BY DEF History!Merge
<1>2. /\ \A g \in Handlers \ {h} : request[g].pc = "idle"
      /\ q \in MergeType /\ q.last = Newest /\ q.after = row
      /\ q.before = Newest.after /\ q.session # History!NoSession
      /\ Newest.session = q.session
      /\ q.before["tags"] = q.after["tags"]
  BY <1>1, Alone, RequestFields DEF Underway
<1>3. history \in Seq(RowType) /\ clock \in Nat /\ n \in Nat \ {0} /\ DOMAIN history = 1 .. n
  BY DEF OneAtATime, HistoryType
<1>4. Newest \in RowType /\ Newest = history[n]
  BY <1>3 DEF Newest
<1>5. \A i \in DOMAIN history : history[i].at = q.last.at <=> i = n
  <2>1. \A i \in 1 .. n : history[i] \in RowType
    BY <1>3
  <2>2. \A i \in 1 .. n : history[i].at \in Nat
    BY <2>1 DEF RowType
  <2>3. \A i, j \in 1 .. n : i < j => history[i].at < history[j].at
    BY DEF OneAtATime, Dated
  <2> HIDE DEF n
  <2>4. ASSUME NEW i \in 1 .. n, i # n PROVE history[i].at # history[n].at
    <3>1. n \in 1 .. n /\ i < n
      BY <1>3, <2>4
    <3>2. history[i].at < history[n].at /\ history[i].at \in Nat /\ history[n].at \in Nat
      BY <2>2, <2>3, <3>1
    <3>3. QED BY <3>2
  <2>5. QED BY <1>2, <1>3, <1>4, <2>4
<1>6. /\ history' = Append(s, e) /\ clock' = clock + 1
      /\ request' = [request EXCEPT ![h] = History!Nothing]
  BY <1>1, <1>3, <1>5
<1>7. /\ s \in Seq(RowType) /\ Len(s) = n - 1 /\ \A i \in 1 .. Len(s) : s[i] = history[i]
  BY ButTheNewest DEF OneAtATime
<1>8. /\ e \in RowType /\ e.at = clock + 1 /\ e.after = row
      /\ e.before = Newest.before /\ e.session = Newest.session
  <2>1. q.after \in History!Contents /\ clock + 1 \in Nat
    BY <1>2, <1>3 DEF MergeType
  <2>2. e = [Newest EXCEPT !.after = q.after, !.at = clock + 1]
    BY <1>2
  <2>3. QED BY <1>2, <1>4, <2>1, <2>2 DEF RowType
<1> HIDE DEF e, s
<1>9. Len(s) > 0 => e.before = s[Len(s)].after
  <2>1. n - 1 > 0 => history[n].before = history[n - 1].after
    BY <1>3 DEF OneAtATime, Chained
  <2>2. QED BY <1>3, <1>4, <1>7, <1>8, <2>1
<1>10. e.before["tags"] = e.after["tags"]
  <2>1. history[n].before["tags"] = history[n].after["tags"]
    BY <1>2, <1>3, <1>4 DEF OneAtATime, Chained
  <2>2. QED BY <1>2, <1>4, <1>8, <2>1
<1>11. Len(s) <= Len(history)
  BY <1>3, <1>7
<1>12. QED BY <1>1, <1>2, <1>6, <1>7, <1>8, <1>9, <1>10, <1>11, RowRecorded

LEMMA HistoryKeeps ==
    ASSUME HistoryInv, [History!Next]_(History!historyVars) PROVE HistoryInv'
<1> SUFFICES ASSUME ~overlapped' PROVE OneAtATime'
  BY DEF HistoryInv
<1>1. CASE UNCHANGED History!historyVars
  BY <1>1 DEF History!historyVars, HistoryInv, OneAtATime, HistoryType, Dated, Chained, Newest
<1>2. CASE History!Next
  <2>1. PICK h \in Handlers :
          \/ History!Arrives(h) \/ History!Load(h) \/ History!Write(h)
          \/ History!Find(h) \/ History!Merge(h) \/ History!AppendRow(h)
    BY <1>2 DEF History!Next
  <2>2. OneAtATime
    BY <2>1 DEF HistoryInv, History!Arrives, History!Load, History!Write, History!Find,
                History!Merge, History!AppendRow
  <2>3. QED BY <2>1, <2>2, ArrivesKeepsHistory, LoadKeepsHistory, WriteKeepsHistory,
               FindKeepsHistory, MergeKeepsHistory, AppendRowKeepsHistory
<1>3. QED BY <1>1, <1>2

LEMMA HistoryTells == HistoryInv => History!HistoryReads
<1> SUFFICES ASSUME OneAtATime, \A h \in Handlers : request[h].pc \in {"idle", "load", "write"}
    PROVE /\ \A i \in 2 .. Len(history) : history[i].before = history[i - 1].after
          /\ History!Last(history).after = row
          /\ \A i \in DOMAIN history : history[i].session # History!NoSession =>
                history[i].before["tags"] = history[i].after["tags"]
  BY DEF HistoryInv, History!HistoryReads
<1>1. History!Last(history).after = row
  BY DEF OneAtATime, Underway, History!Last, Newest
<1>2. DOMAIN history = 1 .. Len(history)
  BY DEF OneAtATime, HistoryType
<1>3. QED BY <1>1, <1>2 DEF OneAtATime, Chained

HistoryPart == part = "history" => HistoryInv

\* Any number of people editing a card one after another, in any stretches of editing, with
\* restores and moves between them: each row of its history starts where the one before it
\* ends and the newest ends with the card, through every merge, and no row of a stretch hides
\* a change of the tags (audit.rs try_merge_card_update_audit, routes/cards/update.rs).
THEOREM HistoryReadsCorrect == BackendSpec => []HistoryReads
<1>1. BackendInit => HistoryPart
  BY InitHistory DEF BackendInit, HistoryStarts, HistoryPart
<1>2. HistoryPart /\ [BackendNext]_BackendVars => HistoryPart'
  <2> SUFFICES ASSUME HistoryPart, [BackendNext]_BackendVars, part' = "history"
      PROVE HistoryInv'
    BY DEF HistoryPart
  <2>1. part = part' /\ [History!Next]_(History!historyVars)
    BY DEF BackendNext, BackendVars, PositionsRuns, HistoryRuns, CutOverRuns, SignInRuns,
           StartupRuns, McpRuns, historyVars, History!historyVars
  <2>2. QED BY <2>1, HistoryKeeps DEF HistoryPart
<1>3. HistoryPart => HistoryReads
  BY HistoryTells DEF HistoryPart, HistoryReads
<1>4. QED BY <1>1, <1>2, <1>3, PTL DEF BackendSpec

----------------------------------------------------------------------------
(* CutOver.                                                                *)

CardType == [id : Nat, column : {"todo", "gone"}, number : Nat]
LinkType == Nat \X Nat

GoodStore(s) ==
    /\ s \in [cards : SUBSET CardType, links : SUBSET LinkType, counter : Nat,
              deleted : SUBSET CardType]
    /\ IsFiniteSet(s.cards)

CutOverType ==
    /\ GoodStore(old) /\ GoodStore(copy)
    /\ pg \in [cards : SUBSET CardType, links : SUBSET LinkType, deleted : SUBSET CardType,
               used : BOOLEAN]
    /\ seq \in Nat /\ made \in Nat
    /\ box \in [build : {"surreal", "postgres", "none"}, running : BOOLEAN]
    /\ box.build = "none" => ~box.running
    /\ restoring = {} \/ \E n \in Nat : restoring = {n}

\* The sequence is ahead of every number, but for one that is being restored.
Ahead ==
    /\ \A c \in pg.cards : c.number <= seq \/ c.number \in restoring
    /\ ~clashed

\* While the store is moved nothing uses Postgres, and it is empty until the commit.
Moving ==
    /\ pc \in {"stop", "copy", "read", "write", "commit", "failed"} => box.build # "postgres"
    /\ pc \in {"stop", "copy", "read", "write", "commit"} => ~CutOver!HasData
    /\ pc = "empty" /\ box.build # "postgres" => ~CutOver!HasData
    /\ pc = "full" /\ box.build # "postgres" => CutOver!HasData

\* What is under way holds every card of the old store that is not reported or given up.
Carried ==
    /\ pc = "read" =>
           /\ CutOver!Ids(copy.cards) \subseteq CutOver!Ids(old.cards)
           /\ CutOver!Ids(old.cards) \subseteq CutOver!Ids(copy.cards) \cup lost
    /\ pc \in {"write", "commit"} =>
           /\ rows.cards \subseteq CardType /\ rows.links \subseteq LinkType
           /\ rows.deleted \subseteq CardType
           /\ CutOver!Ids(rows.cards) \subseteq CutOver!Ids(old.cards)
           /\ CutOver!Ids(old.cards) \subseteq CutOver!Ids(rows.cards) \cup report.skipped \cup lost
    /\ pc = "write" =>
           report.counter \in Nat /\ \A c \in rows.cards : c.number <= report.counter
    /\ pc = "commit" => \A c \in rows.cards : c.number <= seq

\* The old build hides nothing of Postgres's, and Postgres nothing of the old store's once
\* the Postgres build serves, may be started, or the old one is stopped.
NothingHidden ==
    /\ box.build # "postgres" =>
           CutOver!Ids(pg.cards) \subseteq CutOver!Ids(old.cards) \cup report.skipped \cup lost
    /\ box.build = "postgres" \/ (CutOver!HasData /\ ~box.running) \/ pc = "up" =>
           CutOver!Ids(old.cards) \subseteq CutOver!Ids(pg.cards) \cup report.skipped \cup lost

CutOverInv == CutOverType /\ Ahead /\ Moving /\ Carried /\ NothingHidden

\* Numbers.

LEMMA HasLeast ==
    ASSUME NEW T \in SUBSET Nat, T # {} PROVE \E x \in T : \A y \in T : x <= y
<1>1. \E x \in T : \A y \in T : <<y, x>> \notin OpToRel(<, Nat)
  BY NatLessThanWellFounded, WFMin, Zenon
<1>2. \E x \in T : \A y \in T : ~ (y < x)
  BY <1>1, Zenon DEF OpToRel
<1>3. QED BY <1>2, SMT

LEMMA HasGreatest ==
    ASSUME NEW T \in SUBSET Nat, T # {}, NEW b \in Nat, \A x \in T : x <= b
    PROVE  \E m \in T : \A x \in T : m >= x
<1> DEFINE U == {u \in Nat : \A x \in T : x <= u}
<1>1. PICK m \in U : \A u \in U : m <= u
  BY HasLeast
<1>2. m \in T
  <2> SUFFICES ASSUME m \notin T PROVE FALSE
    OBVIOUS
  <2>1. \A x \in T : x \in Nat /\ x <= m /\ x # m
    BY <1>1
  <2>2. m \in Nat /\ m # 0
    <3>1. PICK x \in T : TRUE
      OBVIOUS
    <3>2. x \in Nat /\ x <= m /\ x # m /\ m \in Nat
      BY <1>1, <2>1
    <3>3. QED BY <3>2
  <2>3. m - 1 \in U
    BY <2>1, <2>2
  <2>4. m <= m - 1
    BY <1>1, <2>3
  <2>5. QED BY <2>2, <2>4
<1>3. QED BY <1>1, <1>2

\* The numbers of finitely many things have a bound.
LEMMA HasBound ==
    ASSUME NEW S, IsFiniteSet(S), NEW f \in [S -> Nat]
    PROVE  \E b \in Nat : \A x \in S : f[x] <= b
<1>1. PICK s \in Seq(S) : \A x \in S : \E i \in 1 .. Len(s) : s[i] = x
  BY DEF IsFiniteSet
<1> DEFINE Bounded(k) == \E b \in Nat : \A i \in 1 .. k : f[s[i]] <= b
           Bad == {k \in 0 .. Len(s) : ~Bounded(k)}
<1>2. Len(s) \in Nat /\ \A i \in 1 .. Len(s) : f[s[i]] \in Nat
  OBVIOUS
<1>3. Bounded(0)
  <2>1. \A i \in 1 .. 0 : f[s[i]] <= 0
    OBVIOUS
  <2>2. QED BY <2>1
<1>4. ASSUME NEW k \in 1 .. Len(s), Bounded(k - 1) PROVE Bounded(k)
  <2> DEFINE v == f[s[k]]
  <2>1. PICK b \in Nat : \A i \in 1 .. k - 1 : f[s[i]] <= b
    BY <1>4
  <2>2. v \in Nat /\ k \in Nat /\ f[s[k]] = v
    BY <1>2
  <2> HIDE DEF v
  <2>3. PICK c \in Nat : b <= c /\ v <= c
    <3>1. CASE v <= b
      BY <2>1, <2>2, <3>1
    <3>2. CASE ~(v <= b)
      <4>1. b <= v /\ v <= v
        BY <2>1, <2>2, <3>2
      <4>2. QED BY <2>2, <4>1
    <3>3. QED BY <3>1, <3>2
  <2>4. ASSUME NEW i \in 1 .. k PROVE f[s[i]] <= c
    <3>1. CASE i = k
      BY <2>2, <2>3, <3>1
    <3>2. CASE i # k
      <4>1. i \in 1 .. k - 1 /\ i \in 1 .. Len(s)
        BY <1>2, <2>2, <3>2
      <4>2. f[s[i]] \in Nat /\ f[s[i]] <= b
        BY <1>2, <2>1, <4>1
      <4>3. QED BY <2>3, <4>2
    <3>3. QED BY <3>1, <3>2
  <2>5. QED BY <2>4
<1> HIDE DEF Bounded
<1>5. Bad = {}
  <2> SUFFICES ASSUME Bad # {} PROVE FALSE
    OBVIOUS
  <2>1. Bad \in SUBSET Nat
    BY <1>2
  <2>2. PICK k \in Bad : \A j \in Bad : k <= j
    BY <2>1, HasLeast
  <2>3. k \in 0 .. Len(s) /\ ~Bounded(k) /\ k # 0
    BY <1>3, <2>2
  <2>4. k \in 1 .. Len(s) /\ k - 1 \in 0 .. Len(s) /\ ~(k <= k - 1)
    BY <1>2, <2>3
  <2>5. Bounded(k - 1)
    BY <2>2, <2>4
  <2>6. QED BY <1>4, <2>3, <2>4, <2>5
<1>6. Bounded(Len(s))
  <2>1. Len(s) \in 0 .. Len(s)
    BY <1>2
  <2>2. QED BY <1>5, <2>1
<1>7. QED BY <1>1, <1>6 DEF Bounded

\* The machine counts as this module does.
LEMMA SameCounts ==
    \A S : CutOver!Cardinality(S) = Cardinality(S) /\ (CutOver!IsFiniteSet(S) <=> IsFiniteSet(S))
BY Zenon DEF CutOver!Cardinality, Cardinality, CutOver!IsFiniteSet, IsFiniteSet

\* No number the import gives out is above the counter it leaves, and every card is either
\* among its rows or in its report.
LEMMA Converts ==
    ASSUME NEW s, GoodStore(s)
    PROVE  LET out == CutOver!Converted(s)  told == CutOver!Report(s)
           IN  /\ out.cards \subseteq CardType /\ out.links \subseteq LinkType
               /\ out.deleted \subseteq CardType
               /\ CutOver!Ids(out.cards) \subseteq CutOver!Ids(s.cards)
               /\ CutOver!Ids(s.cards) \subseteq CutOver!Ids(out.cards) \cup told.skipped
               /\ told.counter \in Nat
               /\ \A c \in out.cards : c.number <= told.counter
<1> DEFINE kept == CutOver!KeptCards(s)
           again == CutOver!Repeats(s)
           top == CutOver!HighWater(s)
           T == {s.counter} \cup CutOver!Numbers(kept)
<1>1. kept \subseteq s.cards /\ again \subseteq kept /\ kept \subseteq CardType
      /\ s.counter \in Nat /\ IsFiniteSet(s.cards)
  BY DEF GoodStore, CutOver!KeptCards, CutOver!Repeats
<1>2. IsFiniteSet(kept) /\ IsFiniteSet(again)
  BY <1>1, FS_Subset
<1>3. T \in SUBSET Nat
  BY <1>1 DEF CutOver!Numbers, CardType
<1>4. top \in T /\ \A x \in T : top >= x
  <2> DEFINE f == [c \in kept |-> c.number]
  <2>1. f \in [kept -> Nat]
    BY <1>1 DEF CardType
  <2>2. PICK b \in Nat : \A c \in kept : f[c] <= b
    BY <1>2, <2>1, HasBound
  <2>3. \A c \in kept : c.number <= b
    BY <2>2
  <2> DEFINE d == IF s.counter <= b THEN b ELSE s.counter
  <2>4. d \in Nat /\ s.counter <= d /\ b <= d
    BY <1>1
  <2> HIDE DEF d
  <2>5. \A x \in T : x <= d
    <3>1. \A c \in kept : c.number \in Nat
      BY <1>1 DEF CardType
    <3>2. QED BY <2>3, <2>4, <3>1 DEF CutOver!Numbers
  <2>6. \E m \in T : \A x \in T : m >= x
    BY <1>3, <2>4, <2>5, HasGreatest
  <2>7. top = CHOOSE m \in T : \A x \in T : m >= x
    BY DEF CutOver!HighWater, CutOver!Max
  <2> HIDE DEF T, top
  <2>8. QED BY <2>6, <2>7
<1> HIDE DEF top
<1>5. top \in Nat /\ \A c \in kept : c.number \in Nat /\ c.number <= top
  BY <1>1, <1>3, <1>4 DEF CutOver!Numbers, CardType
<1>6. Cardinality(again) \in Nat
  BY <1>2, FS_CardinalityType
<1>7. \A c \in again : /\ CutOver!NewNumber(s, c) \in Nat
                       /\ CutOver!NewNumber(s, c) <= top + Cardinality(again)
  <2> TAKE c \in again
  <2> DEFINE before == {d \in again : d.number < c.number \/ (d.number = c.number /\ d.id <= c.id)}
  <2>1. before \in SUBSET again
    OBVIOUS
  <2>2. IsFiniteSet(before) /\ Cardinality(before) <= Cardinality(again)
    BY <1>2, <2>1, FS_Subset
  <2>3. Cardinality(before) \in Nat
    BY <2>2, FS_CardinalityType
  <2>4. CutOver!NewNumber(s, c) = top + Cardinality(before)
    BY SameCounts, Zenon DEF CutOver!NewNumber, top
  <2> HIDE DEF before
  <2>5. QED BY <1>5, <1>6, <2>2, <2>3, <2>4
<1> DEFINE New(c) == IF c \in again THEN [c EXCEPT !.number = CutOver!NewNumber(s, c)] ELSE c
<1>8. \A c \in kept : /\ New(c) \in CardType /\ New(c).id = c.id
                      /\ New(c).number <= top + Cardinality(again)
  <2> TAKE c \in kept
  <2>1. c \in CardType /\ c.number \in Nat /\ c.number <= top + Cardinality(again)
    BY <1>1, <1>5, <1>6
  <2>2. CASE c \in again
    <3>1. New(c) = [c EXCEPT !.number = CutOver!NewNumber(s, c)]
      BY <2>2
    <3>2. CutOver!NewNumber(s, c) \in Nat /\ CutOver!NewNumber(s, c) <= top + Cardinality(again)
      BY <1>7, <2>2
    <3> HIDE DEF New
    <3>3. New(c) \in CardType /\ New(c).id = c.id /\ New(c).number = CutOver!NewNumber(s, c)
      BY <2>1, <3>1, <3>2 DEF CardType
    <3>4. QED BY <3>2, <3>3
  <2>3. CASE c \notin again
    BY <2>1, <2>3
  <2>4. QED BY <2>2, <2>3
<1> DEFINE converted == {New(c) : c \in kept}
<1>9. /\ CutOver!Converted(s).cards = converted
      /\ CutOver!Converted(s).links = CutOver!KeptLinks(s)
      /\ CutOver!Converted(s).deleted = s.deleted
      /\ CutOver!Report(s).skipped = CutOver!Ids(s.cards \ kept)
      /\ CutOver!Report(s).counter = top + Cardinality(again)
  <2>1. CutOver!Converted(s) =
          [cards |-> converted, links |-> CutOver!KeptLinks(s), deleted |-> s.deleted]
    BY Zenon DEF CutOver!Converted
  <2> HIDE DEF converted
  <2>2. CutOver!Report(s).counter = top + Cardinality(again)
    BY SameCounts DEF CutOver!Report, top
  <2>3. QED BY <2>1, <2>2 DEF CutOver!Report
<1> HIDE DEF New
<1>10. CutOver!Converted(s).cards \subseteq CardType
       /\ CutOver!Converted(s).links \subseteq LinkType /\ CutOver!Converted(s).deleted \subseteq CardType
  BY <1>8, <1>9 DEF CutOver!KeptLinks, GoodStore
<1>11. CutOver!Ids(CutOver!Converted(s).cards) = CutOver!Ids(kept)
  BY <1>8, <1>9 DEF CutOver!Ids
<1>12. /\ CutOver!Ids(kept) \subseteq CutOver!Ids(s.cards)
       /\ CutOver!Ids(s.cards) \subseteq CutOver!Ids(kept) \cup CutOver!Ids(s.cards \ kept)
  BY <1>1 DEF CutOver!Ids
<1>13. /\ CutOver!Report(s).counter \in Nat
       /\ \A c \in CutOver!Converted(s).cards : c.number <= CutOver!Report(s).counter
  BY <1>5, <1>6, <1>8, <1>9
<1> HIDE DEF kept, again, converted
<1>14. QED BY <1>9, <1>10, <1>11, <1>12, <1>13

LEMMA InitCutOver == CutOver!ConstantsOK /\ CutOver!Init => CutOverInv
<1> SUFFICES ASSUME CutOver!ConstantsOK, CutOver!Init PROVE CutOverInv
  OBVIOUS
<1> USE DEF CutOver!Init
<1>1. GoodStore(CutOver!NoStore)
  BY FS_EmptySet DEF GoodStore, CutOver!NoStore
<1>2. GoodStore(old)
  BY <1>1, SameCounts DEF CutOver!ConstantsOK, GoodStore, CardType, LinkType
<1>3. CutOverType
  <2>1. pg \in [cards : SUBSET CardType, links : SUBSET LinkType, deleted : SUBSET CardType,
                used : BOOLEAN]
    BY DEF CutOver!Blank
  <2>2. /\ box \in [build : {"surreal", "postgres", "none"}, running : BOOLEAN]
        /\ box.build = "none" => ~box.running
    <3>1. CASE box = [build |-> "surreal", running |-> TRUE]
      <4>1. box.build = "surreal"
        BY <3>1
      <4>2. QED BY ONLY <3>1, <4>1
    <3>2. CASE box = [build |-> "none", running |-> FALSE]
      <4>1. box.running = FALSE
        BY ONLY <3>2
      <4>2. QED BY ONLY <3>2, <4>1
    <3>3. QED BY <3>1, <3>2
  <2>3. seq \in Nat /\ made \in Nat /\ restoring = {} /\ copy = CutOver!NoStore
    OBVIOUS
  <2>4. QED BY <1>1, <1>2, <2>1, <2>2, <2>3 DEF CutOverType
<1>4. pg.cards = {} /\ ~CutOver!HasData /\ box.build # "postgres" /\ pc = "idle"
  BY DEF CutOver!Blank, CutOver!HasData, CutOver!Idle
<1>5. CutOver!Ids(pg.cards) = {}
  BY <1>4 DEF CutOver!Ids
<1>6. QED BY <1>3, <1>4, <1>5 DEF CutOverInv, Ahead, Moving, Carried, NothingHidden

\* The script moves on, and the stores stand still.
LEMMA ScriptMoves ==
    ASSUME CutOverInv, UNCHANGED <<old, pg, seq, copy, rows, report, restoring, made, clashed>>,
           box' \in [build : {"surreal", "postgres", "none"}, running : BOOLEAN],
           box'.build = "none" => ~box'.running, pc' \notin {"read", "write", "commit"},
           Moving', NothingHidden'
    PROVE  CutOverInv'
<1>1. CutOverType' /\ Ahead'
  BY DEF CutOverInv, CutOverType, Ahead, GoodStore
<1>2. Carried'
  BY DEF Carried
<1>3. QED BY <1>1, <1>2 DEF CutOverInv

LEMMA DeployStepsKeepCutOver ==
    ASSUME CutOverInv,
           \/ CutOver!StartDeploy \/ CutOver!CheckEmpty \/ CutOver!AlreadyThere
           \/ CutOver!NothingThere \/ CutOver!StopOld \/ CutOver!RestartOld
           \/ CutOver!ComposeUp \/ CutOver!Killed
    PROVE  CutOverInv'
<1> USE DEF CutOver!import, CutOver!counted, CutOver!Idle
<1>1. CutOver!HasData' = CutOver!HasData \/ ~UNCHANGED pg
  BY DEF CutOver!HasData
<1>2. /\ box \in [build : {"surreal", "postgres", "none"}, running : BOOLEAN]
      /\ box.build = "none" => ~box.running
      /\ Moving /\ NothingHidden
  BY DEF CutOverInv, CutOverType
<1>3. CASE CutOver!StartDeploy \/ CutOver!CheckEmpty \/ CutOver!Killed
  <2>1. /\ UNCHANGED <<old, pg, seq, box, copy, rows, report, restoring, made, clashed, lost>>
        /\ pc' \in {"check", "empty", "full", "idle"}
        /\ pc' = "empty" => ~CutOver!HasData
        /\ pc' = "full" => CutOver!HasData
    BY <1>3 DEF CutOver!StartDeploy, CutOver!CheckEmpty, CutOver!Killed
  <2>2. Moving' /\ NothingHidden'
    BY <1>1, <1>2, <2>1 DEF Moving, NothingHidden
  <2>3. QED BY <1>2, <2>1, <2>2, ScriptMoves
<1>4. CASE CutOver!AlreadyThere
  <2>1. /\ UNCHANGED <<old, pg, seq, box, copy, rows, report, restoring, made, clashed, lost>>
        /\ pc = "full"
        /\ pc' = "idle" \/ (pc' = "up" /\ ~(box.build = "surreal" /\ box.running))
    BY <1>4 DEF CutOver!AlreadyThere
  <2>2. Moving'
    BY <2>1 DEF Moving
  <2>3. NothingHidden'
    BY <1>1, <1>2, <2>1 DEF Moving, NothingHidden
  <2>4. QED BY <1>2, <2>1, <2>2, <2>3, ScriptMoves
<1>5. CASE CutOver!NothingThere
  <2>1. /\ UNCHANGED <<old, pg, seq, box, copy, rows, report, restoring, made, clashed, lost>>
        /\ pc = "empty"
        /\ \/ pc' \in {"up", "idle"} /\ box.build = "postgres"
           \/ pc' = "stop" /\ box.build # "postgres"
    BY <1>5 DEF CutOver!NothingThere
  <2>2. Moving' /\ NothingHidden'
    BY <1>1, <1>2, <2>1 DEF Moving, NothingHidden
  <2>3. QED BY <1>2, <2>1, <2>2, ScriptMoves
<1>6. CASE CutOver!StopOld
  <2>1. /\ UNCHANGED <<old, pg, seq, copy, rows, report, restoring, made, clashed, lost>>
        /\ pc = "stop" /\ pc' = "copy"
        /\ box' = [box EXCEPT !.running = FALSE] \/ box' = box
    BY <1>6 DEF CutOver!StopOld
  <2>2. box' \in [build : {"surreal", "postgres", "none"}, running : BOOLEAN]
        /\ box'.build = box.build /\ (box'.build = "none" => ~box'.running)
    BY <1>2, <2>1
  <2>3. Moving' /\ NothingHidden'
    BY <1>1, <1>2, <2>1, <2>2 DEF Moving, NothingHidden
  <2>4. QED BY <2>1, <2>2, <2>3, ScriptMoves
<1>7. CASE CutOver!RestartOld
  <2>1. /\ UNCHANGED <<old, pg, seq, copy, rows, report, restoring, made, clashed, lost>>
        /\ pc = "failed" /\ pc' = "idle"
        /\ box' = [box EXCEPT !.running = (box.build # "none")] \/ box' = box
    BY <1>7 DEF CutOver!RestartOld
  <2>2. box' \in [build : {"surreal", "postgres", "none"}, running : BOOLEAN]
        /\ box'.build = box.build /\ (box'.build = "none" => ~box'.running)
        /\ (~box'.running => ~box.running)
    <3>1. CASE box' = [box EXCEPT !.running = (box.build # "none")]
      <4>1. box'.build = box.build /\ box'.running = (box.build # "none")
        BY <1>2, <3>1
      <4>2. box' \in [build : {"surreal", "postgres", "none"}, running : BOOLEAN]
        BY <1>2, <3>1, (box.build # "none") \in BOOLEAN
      <4>3. QED BY <1>2, <4>1, <4>2, Zenon
    <3>2. CASE box' = box
      BY <1>2, <3>2
    <3>3. QED BY <2>1, <3>1, <3>2
  <2>3. Moving' /\ NothingHidden'
    BY <1>1, <1>2, <2>1, <2>2 DEF Moving, NothingHidden
  <2>4. QED BY <2>1, <2>2, <2>3, ScriptMoves
<1>8. CASE CutOver!ComposeUp
  <2>1. /\ UNCHANGED <<old, pg, seq, copy, rows, report, restoring, made, clashed, lost>>
        /\ pc = "up" /\ pc' = "idle"
        /\ box' = [build |-> "postgres", running |-> TRUE] \/ box' = box
    BY <1>8 DEF CutOver!ComposeUp
  <2>2. box' \in [build : {"surreal", "postgres", "none"}, running : BOOLEAN]
        /\ (box'.build = "none" => ~box'.running)
        /\ (box'.build # "postgres" => box.build # "postgres")
    <3>1. CASE box' = [build |-> "postgres", running |-> TRUE]
      <4>1. box'.build = "postgres"
        BY ONLY <3>1
      <4>2. QED BY ONLY <3>1, <4>1
    <3>2. CASE box' = box
      BY <1>2, <3>2
    <3>3. QED BY <2>1, <3>1, <3>2
  <2>3. Moving' /\ NothingHidden'
    BY <1>1, <1>2, <2>1, <2>2 DEF Moving, NothingHidden
  <2>4. QED BY <2>1, <2>2, <2>3, ScriptMoves
<1>9. QED BY <1>3, <1>4, <1>5, <1>6, <1>7, <1>8

\* What a person gives up, with a rollback or a store put aside, is counted as given up.
LEMMA HandStepsKeepCutOver ==
    ASSUME CutOverInv, CutOver!RollBack \/ CutOver!StopByHand PROVE CutOverInv'
<1> USE DEF CutOver!import, CutOver!counted, CutOver!Idle
<1>1. /\ UNCHANGED <<old, pg, seq, copy, rows, report, restoring, made, clashed, pc>>
      /\ pc = "idle"
  BY DEF CutOver!RollBack, CutOver!StopByHand
<1>2. /\ box \in [build : {"surreal", "postgres", "none"}, running : BOOLEAN]
      /\ Moving /\ NothingHidden
  BY DEF CutOverInv, CutOverType
<1>3. CASE CutOver!RollBack
  <2>1. /\ box' = [build |-> "surreal", running |-> TRUE]
        /\ lost' = lost \cup (CutOver!Ids(pg.cards) \ CutOver!Ids(old.cards))
    BY <1>3 DEF CutOver!RollBack, CutOver!OnlyIn
  <2>2. Moving' /\ NothingHidden'
    BY <1>1, <1>2, <2>1 DEF Moving, NothingHidden
  <2>3. QED BY <1>1, <2>1, <2>2, ScriptMoves
<1>4. CASE CutOver!StopByHand
  <2>1. /\ box.build = "surreal" /\ box' = [box EXCEPT !.running = FALSE]
        /\ lost' = lost \cup (CutOver!Ids(old.cards) \ CutOver!Ids(pg.cards))
    BY <1>4 DEF CutOver!StopByHand, CutOver!OnlyIn, CutOver!Serving
  <2>2. box'.build = "surreal" /\ box' \in [build : {"surreal", "postgres", "none"}, running : BOOLEAN]
    BY <1>2, <2>1
  <2>3. Moving' /\ NothingHidden'
    BY <1>1, <1>2, <2>1, <2>2 DEF Moving, NothingHidden
  <2>4. QED BY <1>1, <2>2, <2>3, ScriptMoves
<1>5. QED BY <1>3, <1>4

\* The stores change, and nothing is being carried over.
LEMMA StoreMoves ==
    ASSUME CutOverInv, CutOverType', Ahead', NothingHidden', UNCHANGED <<box, pc>>,
           pc = "idle" \/ box.build = "postgres"
    PROVE  CutOverInv'
<1>1. Moving' /\ Carried'
  BY DEF CutOverInv, Moving, Carried
<1>2. QED BY <1>1 DEF CutOverInv

\* Postgres is emptied.
LEMMA EmptyingKeepsCutOver ==
    ASSUME CutOverInv, CutOver!EmptyByHand \/ CutOver!LoseData PROVE CutOverInv'
<1> USE DEF CutOver!import, CutOver!counted, CutOver!Idle
<1>1. /\ UNCHANGED <<old, copy, box, pc, made, restoring, clashed>> /\ pc = "idle"
      /\ pg' = CutOver!Blank /\ seq' = 0 /\ report' = report
  BY DEF CutOver!EmptyByHand, CutOver!LoseData
<1>2. pg'.cards = {} /\ ~CutOver!HasData'
  BY <1>1 DEF CutOver!Blank, CutOver!HasData
<1>3. CutOver!Ids(pg'.cards) = {}
  BY <1>2 DEF CutOver!Ids
<1>4. pg' \in [cards : SUBSET CardType, links : SUBSET LinkType, deleted : SUBSET CardType,
               used : BOOLEAN]
  BY <1>1 DEF CutOver!Blank
<1>5. CutOverType' /\ Ahead'
  BY <1>1, <1>2, <1>4 DEF CutOverInv, CutOverType, Ahead, GoodStore
<1>6. box.build = "postgres" => CutOver!Ids(old.cards) \subseteq report.skipped \cup lost'
  BY DEF CutOverInv, NothingHidden, CutOver!EmptyByHand, CutOver!LoseData, CutOver!Serving
<1>7. NothingHidden'
  BY <1>1, <1>2, <1>3, <1>6 DEF NothingHidden
<1>8. QED BY <1>1, <1>5, <1>7, StoreMoves

LEMMA CreateInPostgresKeepsCutOver ==
    ASSUME CutOverInv, CutOver!CreateInPostgres PROVE CutOverInv'
<1> USE DEF CutOver!import, CutOver!counted, CutOver!Idle
<1> DEFINE new == CutOver!NewCard(seq + 1)
<1>1. /\ UNCHANGED <<old, copy, box, pc, restoring, report, lost>> /\ box.build = "postgres"
      /\ seq' = seq + 1 /\ made' = made + 1
  BY DEF CutOver!CreateInPostgres, CutOver!Serving
<1>2. CutOverType /\ Ahead /\ NothingHidden
  BY DEF CutOverInv
<1>3. seq \in Nat /\ made \in Nat /\ pg.cards \subseteq CardType
  BY <1>2 DEF CutOverType
<1>4. CASE seq' \in CutOver!Numbers(pg.cards)
  <2>1. restoring # {}
    BY <1>1, <1>2, <1>3, <1>4 DEF Ahead, CutOver!Numbers, CardType
  <2>2. UNCHANGED pg /\ (clashed' <=> clashed)
    BY <1>4, <2>1 DEF CutOver!CreateInPostgres
  <2>3. CutOverType'
    BY <1>1, <1>2, <2>2 DEF CutOverType, GoodStore
  <2>4. Ahead'
    BY <1>1, <1>2, <1>3, <2>2 DEF Ahead, CardType
  <2>5. NothingHidden'
    BY <1>1, <1>2, <2>2 DEF NothingHidden
  <2>6. QED BY <1>1, <2>3, <2>4, <2>5, StoreMoves
<1>5. CASE seq' \notin CutOver!Numbers(pg.cards)
  <2>1. pg' = [pg EXCEPT !.cards = @ \cup {new}, !.used = TRUE] /\ clashed' = clashed
    BY <1>1, <1>5 DEF CutOver!CreateInPostgres
  <2>2. new \in CardType /\ new.number = seq + 1
    BY <1>3 DEF CutOver!NewCard, CutOver!NextId, CardType
  <2> HIDE DEF new
  <2>3. /\ pg'.cards = pg.cards \cup {new}
        /\ pg' \in [cards : SUBSET CardType, links : SUBSET LinkType, deleted : SUBSET CardType,
                    used : BOOLEAN]
    BY <1>2, <2>1, <2>2 DEF CutOverType
  <2>4. CutOverType'
    BY <1>1, <1>2, <1>3, <2>3 DEF CutOverType, GoodStore
  <2>5. Ahead'
    <3>1. ASSUME NEW c \in pg'.cards PROVE c.number <= seq' \/ c.number \in restoring'
      BY <1>1, <1>2, <1>3, <2>2, <2>3 DEF Ahead, CardType
    <3>2. QED BY <1>2, <2>1, <3>1 DEF Ahead
  <2>6. CutOver!Ids(pg.cards) \subseteq CutOver!Ids(pg'.cards)
    BY <2>3 DEF CutOver!Ids
  <2>7. NothingHidden'
    BY <1>1, <1>2, <2>6 DEF NothingHidden
  <2>8. QED BY <1>1, <2>4, <2>5, <2>7, StoreMoves
<1>6. QED BY <1>4, <1>5

LEMMA DeleteCardKeepsCutOver ==
    ASSUME CutOverInv, NEW c \in pg.cards, CutOver!DeleteCard(c) PROVE CutOverInv'
<1> USE DEF CutOver!import, CutOver!counted, CutOver!Idle
<1>1. /\ UNCHANGED <<old, copy, seq, made, box, pc, restoring, report, clashed>>
      /\ box.build = "postgres" /\ lost' = lost \cup {c.id}
  BY DEF CutOver!DeleteCard, CutOver!Serving
<1>2. CutOverType /\ Ahead /\ NothingHidden
  BY DEF CutOverInv
<1>3. /\ pg'.cards = pg.cards \ {c}
      /\ pg' \in [cards : SUBSET CardType, links : SUBSET LinkType, deleted : SUBSET CardType,
                  used : BOOLEAN]
  BY <1>2 DEF CutOverType, CutOver!DeleteCard
<1>4. CutOverType' /\ Ahead'
  BY <1>1, <1>2, <1>3 DEF CutOverType, Ahead, GoodStore
<1>5. CutOver!Ids(pg.cards) \subseteq CutOver!Ids(pg'.cards) \cup {c.id}
  BY <1>3 DEF CutOver!Ids
<1>6. NothingHidden'
  BY <1>1, <1>2, <1>5 DEF NothingHidden
<1>7. QED BY <1>1, <1>4, <1>6, StoreMoves

\* A number the sequence gives is free while no restore is under way.
LEMMA RestoreCardKeepsCutOver ==
    ASSUME CutOverInv, NEW c \in pg.deleted, CutOver!RestoreCard(c) PROVE CutOverInv'
<1> USE DEF CutOver!import, CutOver!counted, CutOver!Idle
<1> DEFINE kept == c.number > 0 /\ c.number \notin CutOver!Numbers(pg.cards)
           n == IF kept THEN c.number ELSE seq + 1
           back == [c EXCEPT !.number = n]
<1>1. /\ UNCHANGED <<old, copy, made, box, pc, report, lost>>
      /\ box.build = "postgres" /\ restoring = {}
  BY DEF CutOver!RestoreCard, CutOver!Serving
<1>2. CutOverType /\ Ahead /\ NothingHidden
  BY DEF CutOverInv
<1>3. c \in CardType /\ seq \in Nat /\ pg.cards \subseteq CardType
  BY <1>2 DEF CutOverType
<1>4. \A d \in pg.cards : d.number \in Nat /\ d.number <= seq
  BY <1>1, <1>2, <1>3 DEF Ahead, CardType
<1>5. n \in Nat /\ n \notin CutOver!Numbers(pg.cards)
  BY <1>3, <1>4 DEF CutOver!Numbers, CardType
<1>6. /\ pg' = [pg EXCEPT !.cards = @ \cup {back}, !.deleted = @ \ {c}]
      /\ seq' = (IF kept THEN seq ELSE n) /\ restoring' = {n} /\ clashed' = clashed
  BY <1>5 DEF CutOver!RestoreCard
<1>7. seq' \in Nat /\ seq <= seq'
  BY <1>3, <1>6
<1>8. back \in CardType /\ back.number = n
  BY <1>3, <1>5 DEF CardType
<1> HIDE DEF kept, n, back
<1>9. /\ pg'.cards = pg.cards \cup {back}
      /\ pg' \in [cards : SUBSET CardType, links : SUBSET LinkType, deleted : SUBSET CardType,
                  used : BOOLEAN]
  BY <1>2, <1>6, <1>8 DEF CutOverType
<1>10. CutOverType'
  BY <1>1, <1>2, <1>5, <1>6, <1>7, <1>9 DEF CutOverType, GoodStore
<1>11. Ahead'
  <2>1. ASSUME NEW d \in pg'.cards PROVE d.number <= seq' \/ d.number \in restoring'
    BY <1>3, <1>4, <1>6, <1>7, <1>8, <1>9
  <2>2. QED BY <1>2, <1>6, <2>1 DEF Ahead
<1>12. CutOver!Ids(pg.cards) \subseteq CutOver!Ids(pg'.cards)
  BY <1>9 DEF CutOver!Ids
<1>13. NothingHidden'
  BY <1>1, <1>2, <1>12 DEF NothingHidden
<1>14. QED BY <1>1, <1>10, <1>11, <1>13, StoreMoves

LEMMA MoveSequenceKeepsCutOver ==
    ASSUME CutOverInv, CutOver!MoveSequence PROVE CutOverInv'
<1> USE DEF CutOver!import, CutOver!counted, CutOver!Idle
<1>1. /\ UNCHANGED <<old, pg, copy, rows, made, box, pc, report, lost, clashed>>
      /\ restoring # {} /\ restoring' = {}
  BY DEF CutOver!MoveSequence
<1>2. CutOverType /\ Ahead /\ Moving /\ Carried /\ NothingHidden
  BY DEF CutOverInv
<1>3. seq \in Nat /\ pg.cards \subseteq CardType
  BY <1>2 DEF CutOverType
<1>4. PICK n \in Nat : restoring = {n}
  BY <1>1, <1>2 DEF CutOverType
<1>5. seq' = CutOver!PastNumber(n)
  BY <1>4 DEF CutOver!MoveSequence
<1>6. seq' \in Nat /\ seq <= seq' /\ n <= seq'
  BY <1>3, <1>4, <1>5 DEF CutOver!PastNumber
<1>7. CutOverType'
  BY <1>1, <1>2, <1>6 DEF CutOverType, GoodStore
<1>8. Ahead'
  BY <1>1, <1>2, <1>3, <1>4, <1>6 DEF Ahead, CardType
<1>9. Moving'
  BY <1>1, <1>2 DEF Moving, CutOver!HasData
<1>10. Carried'
  <2>1. pc = "commit" => \A c \in rows.cards : c.number <= seq'
    BY <1>2, <1>3, <1>6 DEF Carried, CardType
  <2>2. QED BY <1>1, <1>2, <2>1 DEF Carried
<1>11. NothingHidden'
  BY <1>1, <1>2 DEF NothingHidden, CutOver!HasData
<1>12. QED BY <1>7, <1>8, <1>9, <1>10, <1>11 DEF CutOverInv

\* Cards written while the old store is carried over are counted as given up.
LEMMA CreateInSurrealKeepsCutOver ==
    ASSUME CutOverInv, CutOver!CreateInSurreal PROVE CutOverInv'
<1> USE DEF CutOver!import, CutOver!counted, CutOver!Idle
<1> DEFINE new == CutOver!NewCard(old.counter + 1)
<1>1. /\ UNCHANGED <<pg, seq, copy, rows, box, pc, report, restoring, clashed>>
      /\ made' = made + 1 /\ box.build = "surreal" /\ box.running = TRUE
      /\ old' = [old EXCEPT !.cards = @ \cup {new}, !.counter = @ + 1]
      /\ lost' = IF CutOver!Importing THEN lost \cup {CutOver!NextId} ELSE lost
  BY DEF CutOver!CreateInSurreal, CutOver!Serving
<1>2. CutOverType /\ Ahead /\ Moving /\ Carried /\ NothingHidden
  BY DEF CutOverInv
<1>3. made \in Nat /\ GoodStore(old) /\ old.counter \in Nat
  BY <1>2 DEF CutOverType, GoodStore
<1>4. new \in CardType /\ new.id = CutOver!NextId
  BY <1>3 DEF CutOver!NewCard, CutOver!NextId, CardType
<1> HIDE DEF new
<1>5. old'.cards = old.cards \cup {new}
  BY <1>1, <1>3 DEF GoodStore
<1>6. GoodStore(old')
  <2>1. IsFiniteSet(old'.cards)
    BY <1>3, <1>5, FS_AddElement DEF GoodStore
  <2>2. old' \in [cards : SUBSET CardType, links : SUBSET LinkType, counter : Nat,
                  deleted : SUBSET CardType]
    <3>1. old.cards \cup {new} \in SUBSET CardType /\ old.counter + 1 \in Nat
      BY <1>3, <1>4 DEF GoodStore
    <3>2. QED BY <1>1, <1>3, <3>1 DEF GoodStore
  <2>3. QED BY <2>1, <2>2 DEF GoodStore
<1>7. CutOver!Ids(old'.cards) = CutOver!Ids(old.cards) \cup {CutOver!NextId}
  BY <1>4, <1>5 DEF CutOver!Ids
<1>8. pc \in {"read", "write", "commit", "up"} => lost' = lost \cup {CutOver!NextId}
  BY <1>1 DEF CutOver!Importing
<1>9. lost \subseteq lost'
  BY <1>1
<1>10. CutOverType'
  BY <1>1, <1>2, <1>3, <1>6 DEF CutOverType, GoodStore
<1>11. Ahead' /\ Moving'
  BY <1>1, <1>2 DEF Ahead, Moving, CutOver!HasData
<1>12. Carried'
  BY <1>1, <1>2, <1>7, <1>8, <1>9 DEF Carried
<1>13. NothingHidden'
  BY <1>1, <1>2, <1>7, <1>8, <1>9 DEF NothingHidden, CutOver!HasData
<1>14. QED BY <1>10, <1>11, <1>12, <1>13 DEF CutOverInv

LEMMA CopyKeepsCutOver == ASSUME CutOverInv, CutOver!Copy PROVE CutOverInv'
<1>1. /\ UNCHANGED <<old, pg, seq, box, rows, report, restoring, made, lost, clashed>>
      /\ pc = "copy"
      /\ \/ copy' = old /\ pc' = "read"
         \/ old = CutOver!NoStore /\ pc' = "up" /\ copy' = old
         \/ copy' = copy /\ pc' = "failed"
  BY DEF CutOver!Copy
<1>2. CutOverType /\ Ahead /\ Moving /\ Carried /\ NothingHidden
  BY DEF CutOverInv
<1>3. CutOverType' /\ Ahead' /\ Moving' /\ Carried'
  BY <1>1, <1>2 DEF CutOverType, Ahead, Moving, Carried, GoodStore, CutOver!HasData
<1>4. old = CutOver!NoStore => CutOver!Ids(old.cards) = {}
  BY DEF CutOver!NoStore, CutOver!Ids
<1>5. NothingHidden'
  BY <1>1, <1>2, <1>4 DEF NothingHidden, CutOver!HasData
<1>6. QED BY <1>3, <1>5 DEF CutOverInv

LEMMA ReadSourceKeepsCutOver == ASSUME CutOverInv, CutOver!ReadSource PROVE CutOverInv'
<1>1. /\ UNCHANGED <<old, pg, seq, box, copy, restoring, made, lost, clashed>>
      /\ pc = "read"
      /\ \/ /\ pc' = "write"
            /\ rows' = CutOver!Converted(copy) /\ report' = CutOver!Report(copy)
         \/ pc' = "failed" /\ rows' = rows /\ report' = report
  BY DEF CutOver!ReadSource
<1>2. CutOverType /\ Ahead /\ Moving /\ Carried /\ NothingHidden
  BY DEF CutOverInv
<1>3. CutOverType' /\ Ahead' /\ Moving'
  BY <1>1, <1>2 DEF CutOverType, Ahead, Moving, GoodStore, CutOver!HasData
<1>4. Carried'
  <2>1. CASE pc' = "write"
    <3> DEFINE out == CutOver!Converted(copy)
               told == CutOver!Report(copy)
    <3>1. GoodStore(copy)
      BY <1>2 DEF CutOverType
    <3>2. /\ out.cards \subseteq CardType /\ out.links \subseteq LinkType
          /\ out.deleted \subseteq CardType
          /\ CutOver!Ids(out.cards) \subseteq CutOver!Ids(copy.cards)
          /\ CutOver!Ids(copy.cards) \subseteq CutOver!Ids(out.cards) \cup told.skipped
          /\ told.counter \in Nat
          /\ \A c \in out.cards : c.number <= told.counter
      BY <3>1, Converts
    <3> HIDE DEF out, told
    <3>3. rows' = out /\ report' = told
      BY <1>1, <2>1 DEF out, told
    <3>4. QED BY <1>1, <1>2, <2>1, <3>2, <3>3 DEF Carried
  <2>2. CASE pc' = "failed"
    BY <2>2 DEF Carried
  <2>3. QED BY <1>1, <2>1, <2>2
<1>5. CutOver!Ids(pg.cards) = {} /\ box.build # "postgres" /\ ~CutOver!HasData
  BY <1>1, <1>2 DEF Moving, CutOver!HasData, CutOver!Ids
<1>6. NothingHidden'
  BY <1>1, <1>5 DEF NothingHidden, CutOver!HasData
<1>7. QED BY <1>3, <1>4, <1>6 DEF CutOverInv

LEMMA WriteRowsKeepsCutOver == ASSUME CutOverInv, CutOver!WriteRows PROVE CutOverInv'
<1>1. /\ UNCHANGED <<old, pg, box, copy, rows, report, restoring, made, lost, clashed>>
      /\ pc = "write"
      /\ \/ pc' = "commit" /\ seq' = IF report.counter > 0 THEN report.counter ELSE seq
         \/ pc' = "failed" /\ seq' = seq
  BY DEF CutOver!WriteRows, CutOver!import
<1>2. CutOverType /\ Ahead /\ Moving /\ Carried /\ NothingHidden
  BY DEF CutOverInv
<1>3. /\ seq \in Nat /\ report.counter \in Nat /\ rows.cards \subseteq CardType
      /\ \A c \in rows.cards : c.number <= report.counter
  BY <1>1, <1>2 DEF CutOverType, Carried
<1>4. seq' \in Nat /\ (pc' = "commit" => report.counter <= seq')
  BY <1>1, <1>3
<1>5. CutOverType' /\ Moving'
  BY <1>1, <1>2, <1>4 DEF CutOverType, Moving, GoodStore, CutOver!HasData
<1>6. Ahead'
  BY <1>1, <1>2 DEF Ahead, Moving, CutOver!HasData
<1>7. pc' = "commit" => \A c \in rows.cards : c.number <= seq'
  BY <1>3, <1>4 DEF CardType
<1>8. Carried'
  BY <1>1, <1>2, <1>7 DEF Carried
<1>9. NothingHidden'
  BY <1>1, <1>2 DEF NothingHidden, CutOver!HasData
<1>10. QED BY <1>5, <1>6, <1>8, <1>9 DEF CutOverInv

\* What is committed holds the old store's cards, whatever answer comes back.
LEMMA CommitKeepsCutOver == ASSUME CutOverInv, CutOver!Commit PROVE CutOverInv'
<1>1. /\ UNCHANGED <<old, seq, box, copy, rows, report, restoring, made, lost, clashed>>
      /\ pc = "commit" /\ pc' \in {"up", "failed"}
      /\ \/ pg' = [cards |-> rows.cards, links |-> rows.links, deleted |-> rows.deleted,
                   used |-> TRUE]
         \/ pc' = "failed" /\ pg' = pg
  BY DEF CutOver!Commit, CutOver!import
<1>2. CutOverType /\ Ahead /\ Moving /\ Carried /\ NothingHidden
  BY DEF CutOverInv
<1>3. /\ rows.cards \subseteq CardType /\ rows.links \subseteq LinkType
      /\ rows.deleted \subseteq CardType
      /\ CutOver!Ids(rows.cards) \subseteq CutOver!Ids(old.cards)
      /\ CutOver!Ids(old.cards) \subseteq CutOver!Ids(rows.cards) \cup report.skipped \cup lost
      /\ \A c \in rows.cards : c.number <= seq
  BY <1>1, <1>2 DEF Carried
<1>4. box.build # "postgres" /\ ~CutOver!HasData
  BY <1>1, <1>2 DEF Moving
<1>5. CASE pg' = [cards |-> rows.cards, links |-> rows.links, deleted |-> rows.deleted,
                  used |-> TRUE]
  <2>1. /\ pg'.cards = rows.cards
        /\ pg' \in [cards : SUBSET CardType, links : SUBSET LinkType, deleted : SUBSET CardType,
                    used : BOOLEAN]
    BY <1>3, <1>5
  <2>2. CutOverType'
    BY <1>1, <1>2, <2>1 DEF CutOverType, GoodStore
  <2>3. Ahead'
    BY <1>1, <1>2, <1>3, <2>1 DEF Ahead
  <2>4. Moving' /\ Carried'
    BY <1>1, <1>4 DEF Moving, Carried
  <2>5. NothingHidden'
    BY <1>1, <1>3, <2>1 DEF NothingHidden
  <2>6. QED BY <2>2, <2>3, <2>4, <2>5 DEF CutOverInv
<1>6. CASE pc' = "failed" /\ pg' = pg
  <2>1. CutOverType' /\ Ahead' /\ Moving' /\ Carried'
    BY <1>1, <1>2, <1>4, <1>6 DEF CutOverType, Ahead, Moving, Carried, GoodStore
  <2>2. NothingHidden'
    BY <1>1, <1>2, <1>4, <1>6 DEF NothingHidden, CutOver!HasData
  <2>3. QED BY <2>1, <2>2 DEF CutOverInv
<1>7. QED BY <1>1, <1>5, <1>6

LEMMA CutOverKeeps ==
    ASSUME CutOverInv, [CutOver!Next]_(CutOver!cutOverVars) PROVE CutOverInv'
<1>1. CASE CutOver!Next
  <2>1. CASE CutOver!Deploy
    BY <2>1, DeployStepsKeepCutOver, CopyKeepsCutOver, ReadSourceKeepsCutOver,
       WriteRowsKeepsCutOver, CommitKeepsCutOver DEF CutOver!Deploy
  <2>2. CASE CutOver!RollBack \/ CutOver!StopByHand \/ CutOver!EmptyByHand \/ CutOver!LoseData
    BY <2>2, HandStepsKeepCutOver, EmptyingKeepsCutOver
  <2>3. CASE CutOver!Backend
    BY <2>3, CreateInSurrealKeepsCutOver, CreateInPostgresKeepsCutOver, DeleteCardKeepsCutOver,
       RestoreCardKeepsCutOver, MoveSequenceKeepsCutOver DEF CutOver!Backend
  <2>4. QED BY <1>1, <2>1, <2>2, <2>3 DEF CutOver!Next
<1>2. CASE UNCHANGED CutOver!cutOverVars
  BY <1>2 DEF CutOverInv, CutOverType, Ahead, Moving, Carried, NothingHidden, GoodStore,
     CutOver!HasData, CutOver!cutOverVars
<1>3. QED BY <1>1, <1>2

LEMMA CutOverTells == CutOverInv => CutOver!NothingDropped /\ CutOver!NumbersRunAhead
<1> SUFFICES ASSUME CutOverInv PROVE CutOver!NothingDropped /\ CutOver!NumbersRunAhead
  OBVIOUS
<1>1. CutOverType /\ Ahead /\ NothingHidden
  BY DEF CutOverInv
<1>2. box.running => box.build \in {"surreal", "postgres"}
  BY <1>1 DEF CutOverType
<1>3. CutOver!NothingDropped
  BY <1>1, <1>2 DEF NothingHidden, CutOver!NothingDropped
<1>4. CutOver!NumbersRunAhead
  BY <1>1 DEF Ahead, CutOver!NumbersRunAhead
<1>5. QED BY <1>3, <1>4

CutOverPart == part = "cutOver" => CutOverInv

\* However many deploys fail at whatever step, are killed, commit and lose the answer, or are
\* rolled back and reconciled by hand: whichever build serves, no card of either store is
\* missing but those the report names and those a person gave up, and no new card is refused
\* its number (migrate-from-surreal.sh, surreal_migration.rs, audit.rs restore_one_delete).
THEOREM CutOverKeepsCardsCorrect == BackendSpec => []CutOverKeepsCards
<1>1. BackendInit => CutOverPart
  BY InitCutOver, CutOverAssumption DEF BackendInit, CutOverStarts, CutOverPart
<1>2. CutOverPart /\ [BackendNext]_BackendVars => CutOverPart'
  <2> SUFFICES ASSUME CutOverPart, [BackendNext]_BackendVars, part' = "cutOver" PROVE CutOverInv'
    BY DEF CutOverPart
  <2>1. part = part' /\ [CutOver!Next]_(CutOver!cutOverVars)
    BY DEF BackendNext, BackendVars, PositionsRuns, HistoryRuns, CutOverRuns, SignInRuns,
           StartupRuns, McpRuns, cutOverVars, CutOver!cutOverVars
  <2>2. QED BY <2>1, CutOverKeeps DEF CutOverPart
<1>3. CutOverPart => CutOverKeepsCards
  BY CutOverTells DEF CutOverPart, CutOverKeepsCards
<1>4. QED BY <1>1, <1>2, <1>3, PTL DEF BackendSpec

----------------------------------------------------------------------------
(* Startup.                                                                *)

GroupsOk(c) ==
    /\ Startup!ObservabilityOk(c) /\ Startup!OidcOk(c) /\ Startup!SessionOk(c)
    /\ Startup!ServerOk(c) /\ Startup!DatabaseOk(c) /\ Startup!ClientTelemetryOk(c)

\* What a deployment with these settings offers, if it gets as far as serving.
OfferedWith(s) == Startup!Offered(Startup!Merge(s), Startup!Decide(s.otel))
Acceptable(s) == GroupsOk(Startup!Merge(s)) /\ Startup!Decide(s.otel) # Startup!Refuse
Edited(s, e) == [s EXCEPT ![e.layer][e.key] = e.to]

\* The last deployment that served was of settings the edits since then started from.
Before(s, offered, edited, t) ==
    /\ offered \subseteq OfferedWith(s) /\ Acceptable(s)
    /\ edited # {}
    /\ \A e : edited = {e} => e \in Edits /\ t = Edited(s, e)

StartupInv ==
    /\ settings \in Startup!Settings
    /\ IsFiniteSet(since)
    /\ phase \in {"load", "compare", "connect", "discover", "serving"} =>
           decision = Startup!Decide(settings.otel) /\ decision # Startup!Refuse
    /\ phase \in {"compare", "connect", "discover", "serving"} =>
           cfg = Startup!Merge(settings) /\ GroupsOk(cfg)
    /\ phase = "serving" => features = Startup!Offered(cfg, decision)
    /\ was # {} => \E s \in Startup!Settings : Before(s, was, since, settings)

LEMMA EditedSettings ==
    ASSUME Startup!ConstantsOK, NEW s \in Startup!Settings, NEW e \in Edits
    PROVE  /\ Edited(s, e) \in Startup!Settings
           /\ e.layer = "otel" =>
                 /\ e.key \in Startup!OtelNames
                 /\ Edited(s, e).otel = [s.otel EXCEPT ![e.key] = e.to]
                 /\ Edited(s, e).sovereign = s.sovereign
                 /\ Edited(s, e).environment = s.environment
           /\ e.layer # "otel" =>
                 /\ e.layer \in {"source", "sovereign", "environment"}
                 /\ Edited(s, e).otel = s.otel
           /\ e.layer # "source" => Edited(s, e).source = s.source
           /\ e.layer = "source" =>
                 /\ Edited(s, e).sovereign = s.sovereign
                 /\ Edited(s, e).environment = s.environment
           /\ e.layer \in {"sovereign", "environment"} => e.key \in Startup!Leaves
           /\ e.layer = "sovereign" =>
                 /\ Edited(s, e).sovereign = [s.sovereign EXCEPT ![e.key] = e.to]
                 /\ Edited(s, e).environment = s.environment
           /\ e.layer = "environment" =>
                 /\ Edited(s, e).environment = [s.environment EXCEPT ![e.key] = e.to]
                 /\ Edited(s, e).sovereign = s.sovereign
<1>1. \/ e \in [layer : {"otel"}, key : Startup!OtelNames, to : STRING]
      \/ e \in [layer : {"source"}, key : Startup!AccessUrls, to : STRING]
      \/ e \in [layer : {"sovereign", "environment"}, key : Startup!Leaves, to : STRING]
  BY DEF Startup!ConstantsOK
<1>2. s \in [otel : [Startup!OtelNames -> STRING], source : [Startup!AccessUrls -> STRING],
             sovereign : [Startup!Leaves -> STRING], environment : [Startup!Leaves -> STRING]]
  BY DEF Startup!Settings
<1>3. CASE e.layer = "otel"
  <2>1. e.key \in Startup!OtelNames /\ e.to \in STRING
    BY <1>1, <1>3
  <2>2. Edited(s, e) = [s EXCEPT !.otel = [s.otel EXCEPT ![e.key] = e.to]]
    BY <1>2, <1>3 DEF Edited
  <2>3. QED BY <1>2, <1>3, <2>1, <2>2 DEF Startup!Settings
<1>4. CASE e.layer = "sovereign"
  <2>1. e.key \in Startup!Leaves /\ e.to \in STRING
    BY <1>1, <1>4
  <2>2. Edited(s, e) = [s EXCEPT !.sovereign = [s.sovereign EXCEPT ![e.key] = e.to]]
    BY <1>2, <1>4 DEF Edited
  <2>3. QED BY <1>2, <1>4, <2>1, <2>2 DEF Startup!Settings
<1>5. CASE e.layer = "environment"
  <2>1. e.key \in Startup!Leaves /\ e.to \in STRING
    BY <1>1, <1>5
  <2>2. Edited(s, e) = [s EXCEPT !.environment = [s.environment EXCEPT ![e.key] = e.to]]
    BY <1>2, <1>5 DEF Edited
  <2>3. QED BY <1>2, <1>5, <2>1, <2>2 DEF Startup!Settings
<1>6. CASE e.layer = "source"
  <2>1. e.key \in Startup!AccessUrls /\ e.to \in STRING
    BY <1>1, <1>6
  <2>2. Edited(s, e) = [s EXCEPT !.source = [s.source EXCEPT ![e.key] = e.to]]
    BY <1>2, <1>6 DEF Edited
  <2>3. QED BY <1>2, <1>6, <2>1, <2>2 DEF Startup!Settings
<1>7. QED BY <1>1, <1>3, <1>4, <1>5, <1>6

\* An edit of a leaf leaves the others, and takes one that was set away only by a blank; the
\* edit of an access URL takes leaves that nothing but the store has.
LEMMA LeavesKept ==
    ASSUME Startup!ConstantsOK, NEW s \in Startup!Settings, NEW e \in Edits,
           NEW leaf \in Startup!Leaves, Startup!Merge(s)[leaf] \notin Startup!Blank,
           Startup!Merge(Edited(s, e))[leaf] \in Startup!Blank
    PROVE  \/ /\ e.key = leaf /\ e.layer # "source"
              /\ Startup!Default(leaf) = Startup!Absent => e.to \in Startup!Blank
           \/ /\ e.layer = "source" /\ Edited(s, e).environment[leaf] = Startup!Absent
              /\ Startup!Default(leaf) = Startup!Absent => ~Startup!Managed(Edited(s, e))
<1> DEFINE t == Edited(s, e)
<1>1. t \in Startup!Settings
  BY EditedSettings
<1>2. /\ DOMAIN s.sovereign = Startup!Leaves /\ DOMAIN s.environment = Startup!Leaves
  BY DEF Startup!Settings
<1> HIDE DEF t
<1>3. /\ Startup!Merge(s)[leaf] =
             IF s.environment[leaf] # Startup!Absent THEN Startup!Trimmed(s.environment[leaf])
             ELSE IF Startup!Managed(s) /\ s.sovereign[leaf] # Startup!Absent
                  THEN Startup!Trimmed(s.sovereign[leaf])
             ELSE Startup!Default(leaf)
      /\ Startup!Merge(t)[leaf] =
             IF t.environment[leaf] # Startup!Absent THEN Startup!Trimmed(t.environment[leaf])
             ELSE IF Startup!Managed(t) /\ t.sovereign[leaf] # Startup!Absent
                  THEN Startup!Trimmed(t.sovereign[leaf])
             ELSE Startup!Default(leaf)
  BY DEF Startup!Merge
<1>4. Startup!Merge(t)[leaf] \in Startup!Blank
  BY DEF t
<1>10. e.layer # "source" => Startup!Managed(t) = Startup!Managed(s)
  BY EditedSettings DEF t, Startup!Managed
<1>5. CASE e.layer = "otel"
  <2>1. t.sovereign = s.sovereign /\ t.environment = s.environment
    BY <1>5, EditedSettings DEF t
  <2>2. QED BY <1>10, <1>3, <1>4, <1>5, <2>1
<1>6. CASE e.layer = "sovereign"
  <2>1. t.sovereign = [s.sovereign EXCEPT ![e.key] = e.to] /\ t.environment = s.environment
    BY <1>6, EditedSettings DEF t
  <2>2. e.key = leaf
    BY <1>10, <1>2, <1>3, <1>4, <1>6, <2>1
  <2>3. t.sovereign[leaf] = e.to
    BY <1>2, <2>1, <2>2
  <2>4. QED BY <1>10, <1>3, <1>4, <1>6, <2>1, <2>2, <2>3 DEF Startup!Trimmed, Startup!Blank, Startup!Absent
<1>7. CASE e.layer = "environment"
  <2>1. t.environment = [s.environment EXCEPT ![e.key] = e.to] /\ t.sovereign = s.sovereign
    BY <1>7, EditedSettings DEF t
  <2>2. e.key = leaf
    BY <1>10, <1>2, <1>3, <1>4, <1>7, <2>1
  <2>3. t.environment[leaf] = e.to
    BY <1>2, <2>1, <2>2
  <2>4. QED BY <1>10, <1>3, <1>4, <1>7, <2>1, <2>2, <2>3 DEF Startup!Trimmed, Startup!Blank, Startup!Absent
<1>8. CASE e.layer = "source"
  <2>1. t.sovereign = s.sovereign /\ t.environment = s.environment
    BY <1>8, EditedSettings DEF t
  <2>2. t.environment[leaf] = Startup!Absent
    BY <1>3, <1>4, <2>1
  <2>3. Startup!Managed(t) => Startup!Default(leaf) # Startup!Absent
    BY <1>3, <1>4, <2>1, <2>2 DEF Startup!Blank
  <2>4. QED BY <1>8, <2>2, <2>3 DEF t
<1>9. QED BY <1>5, <1>6, <1>7, <1>8, EditedSettings

\* Exporting goes on while one variable of the set changes, unless that turns it off: the
\* attributes and an endpoint are two variables, so one edit does not clear the set.
LEMMA SignalsKept ==
    ASSUME Startup!ConstantsOK, NEW s \in Startup!Settings, NEW e \in Edits, e.layer = "otel",
           NEW f, Startup!Decide(s.otel).on,
           f \in DOMAIN Startup!Decide(s.otel).endpoints,
           Startup!Decide(Edited(s, e).otel) # Startup!Refuse
    PROVE  \/ /\ Startup!Decide(Edited(s, e).otel).on
              /\ f \in DOMAIN Startup!Decide(Edited(s, e).otel).endpoints
           \/ Startup!TurnsOff(e, f)
<1> DEFINE o == s.otel
           n == Edited(s, e).otel
           k == e.key
           Shared == Startup!Shared
           Own == Startup!Own(f)
           Exporter == Startup!Exporter(f)
           Attributes == Startup!Attributes
           Disabled == Startup!Disabled
<1>1. DOMAIN o = Startup!OtelNames /\ n = [o EXCEPT ![k] = e.to] /\ k \in Startup!OtelNames
  BY EditedSettings DEF Startup!Settings
<1>2. /\ Startup!Decide(o) =
            [on |-> TRUE, environment |-> Startup!Names(o, "deployment.environment.name"),
             endpoints |-> [x \in Startup!Exporting(o) |-> Startup!Endpoint(o, x)]]
      /\ ~Startup!Incomplete(o) /\ Startup!Read(o, Disabled) # "true"
  BY DEF Startup!Decide, Startup!Off, Startup!Refuse
<1>3. f \in Startup!Exporting(o)
  BY <1>2
<1>4. f \in Signals /\ Startup!Read(o, Exporter) # "none"
  BY <1>3 DEF Startup!Exporting
<1>5. /\ Startup!Read(o, Attributes) # Startup!Absent
      /\ Startup!Read(o, Shared) # Startup!Absent \/ Startup!Read(o, Own) # Startup!Absent
  BY <1>2, <1>3 DEF Startup!Incomplete, Startup!Names, Startup!ConstantsOK
<1>6. /\ {Attributes, Shared, Own, Exporter, Disabled} \subseteq Startup!OtelNames
      /\ Shared # Attributes /\ Own # Attributes
  BY <1>4 DEF Startup!OtelNames, Startup!Attributes, Startup!Shared, Startup!Own,
     Startup!Exporter, Startup!Disabled
<1> HIDE DEF o, n, k, Shared, Own, Exporter, Attributes, Disabled
<1>7. /\ \A name \in Startup!OtelNames \ {k} : Startup!Read(n, name) = Startup!Read(o, name)
      /\ n[k] = e.to
  BY <1>1 DEF Startup!Read
<1>8. \E name \in Startup!OtelNames : Startup!Read(n, name) # Startup!Absent
  BY <1>5, <1>6, <1>7
<1>9. CASE Startup!Read(n, Disabled) = "true"
  <2>1. k = Disabled
    BY <1>2, <1>6, <1>7, <1>9
  <2>2. e.to = "true"
    BY <1>7, <1>9, <2>1 DEF Startup!Read, Startup!Absent
  <2>3. QED BY <1>4, <2>1, <2>2 DEF Startup!TurnsOff, k, Disabled
<1>10. CASE f \notin Startup!Exporting(n)
  <2>1. Startup!Read(n, Exporter) = "none"
    BY <1>4, <1>10 DEF Startup!Exporting, Exporter
  <2>2. k = Exporter
    BY <1>4, <1>6, <1>7, <2>1
  <2>3. e.to = "none"
    BY <1>7, <2>1, <2>2 DEF Startup!Read, Startup!Absent
  <2>4. QED BY <1>4, <2>2, <2>3 DEF Startup!TurnsOff, k, Exporter
<1>11. CASE Startup!Read(n, Disabled) # "true" /\ f \in Startup!Exporting(n)
  <2>1. Startup!Decide(n) # Startup!Refuse
    BY DEF n
  <2>2. Startup!Decide(n) =
            [on |-> TRUE, environment |-> Startup!Names(n, "deployment.environment.name"),
             endpoints |-> [x \in Startup!Exporting(n) |-> Startup!Endpoint(n, x)]]
    BY <1>8, <1>11, <2>1 DEF Startup!Decide, Disabled
  <2>3. Startup!Decide(n).on /\ DOMAIN Startup!Decide(n).endpoints = Startup!Exporting(n)
    BY <2>2
  <2>4. QED BY <1>11, <2>3 DEF n
<1>12. QED BY <1>9, <1>10, <1>11

\* One edit takes nothing away from what a deployment offers but what it says it does, or
\* what the store alone had.
LEMMA OneEdit ==
    ASSUME Startup!ConstantsOK, NEW s \in Startup!Settings, NEW e \in Edits, Acceptable(s),
           Acceptable(Edited(s, e)), NEW f \in OfferedWith(s)
    PROVE  \/ f \in OfferedWith(Edited(s, e))
           \/ Startup!TurnsOff(e, f) \/ Startup!DropsStore(e, f, Edited(s, e))
<1> DEFINE t == Edited(s, e)
           c == Startup!Merge(s)
           d == Startup!Merge(t)
<1>1. GroupsOk(c) /\ GroupsOk(d)
  BY DEF Acceptable
<1>2. \A leaf \in Startup!Leaves : c[leaf] \notin Startup!Blank /\ d[leaf] \in Startup!Blank =>
          \/ /\ e.key = leaf /\ e.layer # "source"
             /\ Startup!Default(leaf) = Startup!Absent => e.to \in Startup!Blank
          \/ /\ e.layer = "source" /\ t.environment[leaf] = Startup!Absent
             /\ Startup!Default(leaf) = Startup!Absent => ~Startup!Managed(t)
  BY LeavesKept
<1>3. {"issuer-url", "tls-cert", "tls-key", "client-endpoint"} \subseteq Startup!Leaves
  BY DEF Startup!Leaves, Startup!Oidc, Startup!Optional
<1>4. CASE f = "auth" /\ c["issuer-url"] \notin Startup!Blank
  <2>1. CASE d["issuer-url"] \notin Startup!Blank
    BY <1>4, <2>1 DEF OfferedWith, Startup!Offered, Startup!Leaf
  <2>2. CASE d["issuer-url"] \in Startup!Blank
    BY <1>2, <1>3, <1>4, <2>2 
       DEF Startup!TurnsOff, Startup!DropsStore, Startup!Default, Startup!Leaf
  <2>3. QED BY <2>1, <2>2
<1>5. CASE f = "client telemetry" /\ c["client-endpoint"] \notin Startup!Blank
  <2>1. CASE d["client-endpoint"] \notin Startup!Blank
    BY <1>5, <2>1 DEF OfferedWith, Startup!Offered, Startup!Leaf
  <2>2. CASE d["client-endpoint"] \in Startup!Blank
    BY <1>2, <1>3, <1>5, <2>2 
       DEF Startup!TurnsOff, Startup!DropsStore, Startup!Default, Startup!Leaf
  <2>3. QED BY <2>1, <2>2
<1>6. CASE f = "tls" /\ c["tls-cert"] \notin Startup!Blank
  <2>1. c["tls-key"] \notin Startup!Blank
    BY <1>1, <1>6 DEF GroupsOk, Startup!ServerOk
  <2>2. CASE d["tls-cert"] \notin Startup!Blank
    BY <1>6, <2>2 DEF OfferedWith, Startup!Offered, Startup!Leaf
  <2>3. CASE d["tls-cert"] \in Startup!Blank
    <3>1. d["tls-key"] \in Startup!Blank
      BY <1>1, <2>3 DEF GroupsOk, Startup!ServerOk
    <3>2. e.layer = "source" /\ t.environment["tls-cert"] = Startup!Absent
          /\ (Startup!Default("tls-cert") = Startup!Absent => ~Startup!Managed(t))
      <4> HIDE DEF c, d, t
      <4>1. e.key = "tls-key" \/ e.layer = "source"
        BY <1>2, <1>3, <2>1, <3>1
      <4>2. QED BY <1>2, <1>3, <1>6, <2>3, <4>1
    <3>3. QED BY <1>6, <3>2 DEF Startup!DropsStore, Startup!Default, Startup!Leaf
  <2>4. QED BY <2>2, <2>3
<1>7. CASE Startup!Decide(s.otel).on /\ f \in DOMAIN Startup!Decide(s.otel).endpoints
  <2>1. CASE e.layer # "otel"
    <3>1. t.otel = s.otel
      BY <2>1, EditedSettings
    <3>2. QED BY <1>7, <3>1 DEF OfferedWith, Startup!Offered
  <2>2. CASE e.layer = "otel"
    <3>1. Startup!Decide(t.otel) # Startup!Refuse
      BY DEF Acceptable
    <3>2. \/ Startup!Decide(t.otel).on /\ f \in DOMAIN Startup!Decide(t.otel).endpoints
          \/ Startup!TurnsOff(e, f)
      BY <1>7, <2>2, <3>1, SignalsKept
    <3>3. QED BY <3>2 DEF OfferedWith, Startup!Offered
  <2>3. QED BY <2>1, <2>2
<1>8. QED BY <1>4, <1>5, <1>6, <1>7 DEF OfferedWith, Startup!Offered, Startup!Leaf

LEMMA InitStartup == Startup!ConstantsOK /\ Startup!Init => StartupInv
BY FS_EmptySet DEF Startup!ConstantsOK, Startup!Init, StartupInv

\* run: each step is taken on what the ones before it made of the settings.
LEMMA StartKeepsStartup ==
    ASSUME StartupInv,
           \/ Startup!DecideStep \/ Startup!LoadConfig \/ Startup!CompareEnvironments
           \/ Startup!ConnectDatabase \/ Startup!DiscoverProvider
    PROVE  StartupInv'
<1> USE DEF Startup!To
<1>1. UNCHANGED <<settings, was, since>>
  BY DEF Startup!DecideStep, Startup!LoadConfig, Startup!CompareEnvironments,
     Startup!ConnectDatabase, Startup!DiscoverProvider
<1>2. /\ settings' \in Startup!Settings /\ IsFiniteSet(since')
      /\ was' # {} => \E s \in Startup!Settings : Before(s, was', since', settings')
  BY <1>1 DEF StartupInv
<1>3. CASE Startup!DecideStep
  <2>1. /\ decision' = Startup!Decide(settings.otel)
        /\ decision' = Startup!Refuse => phase' = "failed"
        /\ phase' \in {"load", "failed"}
    BY <1>3 DEF Startup!DecideStep
  <2>2. QED BY <1>1, <1>2, <2>1 DEF StartupInv
<1>4. CASE Startup!LoadConfig
  <2>1. /\ phase = "load" /\ decision' = decision /\ phase' \in {"compare", "failed"}
        /\ phase' = "compare" => cfg' = Startup!Merge(settings) /\ GroupsOk(cfg')
    BY <1>4 DEF Startup!LoadConfig, GroupsOk
  <2>2. QED BY <1>1, <1>2, <2>1 DEF StartupInv
<1>5. CASE Startup!CompareEnvironments
  <2>1. phase = "compare" /\ UNCHANGED <<decision, cfg>> /\ phase' \in {"connect", "failed"}
    BY <1>5 DEF Startup!CompareEnvironments
  <2>2. QED BY <1>1, <1>2, <2>1 DEF StartupInv
<1>6. CASE Startup!ConnectDatabase \/ Startup!DiscoverProvider
  <2>1. /\ phase \in {"connect", "discover"} /\ UNCHANGED <<decision, cfg>>
        /\ phase' \in {"discover", "serving", "failed"}
        /\ phase' = "serving" => features' = Startup!Offered(cfg, decision)
    BY <1>6 DEF Startup!ConnectDatabase, Startup!DiscoverProvider
  <2>2. QED BY <1>1, <1>2, <2>1 DEF StartupInv
<1>7. QED BY <1>3, <1>4, <1>5, <1>6

\* An edit is no edit unless it changes something, so one edit since is the last one.
LEMMA DeployKeepsStartup ==
    ASSUME Startup!ConstantsOK, StartupInv, Startup!Deploy PROVE StartupInv'
<1>1. PICK e \in Edits :
          /\ settings[e.layer][e.key] # e.to
          /\ settings' = [settings EXCEPT ![e.layer][e.key] = e.to]
          /\ since' = (IF phase = "serving" THEN {} ELSE since) \cup {e}
  BY DEF Startup!Deploy
<1>2. /\ phase \in {"serving", "failed"} /\ phase' = "decide"
      /\ was' = IF phase = "serving" THEN features ELSE was
  BY DEF Startup!Deploy
<1>3. settings \in Startup!Settings /\ IsFiniteSet(since)
  BY DEF StartupInv
<1>4. settings' = Edited(settings, e) /\ settings' \in Startup!Settings
  BY <1>1, <1>3, EditedSettings DEF Edited
<1>5. IsFiniteSet(since') /\ e \in since'
  BY <1>1, <1>3, FS_EmptySet, FS_AddElement
<1>6. ASSUME was' # {} PROVE \E s \in Startup!Settings : Before(s, was', since', settings')
  <2>1. CASE phase = "serving"
    <3>1. was' = OfferedWith(settings) /\ Acceptable(settings) /\ since' = {e}
      BY <1>1, <1>2, <2>1 DEF StartupInv, OfferedWith, Acceptable
    <3>2. Before(settings, was', since', settings')
      BY <1>4, <3>1 DEF Before
    <3>3. QED BY <1>3, <3>2
  <2>2. CASE phase = "failed"
    <3>1. was' = was /\ since' = since \cup {e}
      BY <1>1, <1>2, <2>2
    <3>2. PICK s \in Startup!Settings : Before(s, was, since, settings)
      BY <1>6, <3>1 DEF StartupInv
    <3>3. \A x : since' # {x}
      <4> SUFFICES ASSUME NEW x, since' = {x} PROVE FALSE
        OBVIOUS
      <4>1. since = {e}
        BY <3>1, <3>2 DEF Before
      <4>2. settings = Edited(s, e)
        BY <3>2, <4>1 DEF Before
      <4>3. Edited(s, e)[e.layer][e.key] = e.to
        <5>1. \/ e \in [layer : {"otel"}, key : Startup!OtelNames, to : STRING]
              \/ e \in [layer : {"source"}, key : Startup!AccessUrls, to : STRING]
              \/ e \in [layer : {"sovereign", "environment"}, key : Startup!Leaves, to : STRING]
          BY DEF Startup!ConstantsOK
        <5>2. QED BY <5>1 DEF Edited, Startup!Settings
      <4>4. QED BY <1>1, <4>2, <4>3
    <3>4. Before(s, was', since', settings')
      BY <1>5, <3>1, <3>2, <3>3 DEF Before
    <3>5. QED BY <3>4
  <2>3. QED BY <1>2, <2>1, <2>2
<1>7. QED BY <1>2, <1>4, <1>5, <1>6 DEF StartupInv

LEMMA StartupKeeps ==
    ASSUME Startup!ConstantsOK, StartupInv, [Startup!Next]_(Startup!vars) PROVE StartupInv'
<1>1. CASE Startup!Next
  BY <1>1, StartKeepsStartup, DeployKeepsStartup DEF Startup!Next
<1>2. CASE UNCHANGED Startup!vars
  BY <1>2 DEF StartupInv, Startup!vars
<1>3. QED BY <1>1, <1>2

LEMMA StartupCounts == \A S : Startup!Cardinality(S) = Cardinality(S)
BY Zenon DEF Startup!Cardinality, Cardinality, Startup!IsFiniteSet, IsFiniteSet

LEMMA StartupTells ==
    ASSUME Startup!ConstantsOK, StartupInv PROVE Startup!OneEditNeverSilences
<1> SUFFICES ASSUME phase = "serving", Startup!Cardinality(since) = 1, NEW f \in was
             PROVE  f \in features \/ \E e \in since : \/ Startup!TurnsOff(e, f)
                                                     \/ Startup!DropsStore(e, f, settings)
  BY DEF Startup!OneEditNeverSilences
<1>1. PICK s \in Startup!Settings : Before(s, was, since, settings)
  BY DEF StartupInv
<1>2. Cardinality(since) = 1 /\ IsFiniteSet(since)
  BY StartupCounts DEF StartupInv
<1>3. PICK e : since = {e}
  BY <1>2, FS_Singleton
<1>4. e \in Edits /\ settings = Edited(s, e) /\ f \in OfferedWith(s) /\ Acceptable(s)
  BY <1>1, <1>3 DEF Before
<1>5. Acceptable(settings) /\ features = OfferedWith(settings)
  BY DEF StartupInv, Acceptable, OfferedWith
<1>6. \/ f \in OfferedWith(settings)
      \/ Startup!TurnsOff(e, f) \/ Startup!DropsStore(e, f, settings)
  BY <1>4, <1>5, OneEdit
<1>7. QED BY <1>3, <1>5, <1>6

StartupPart == part = "startup" => StartupInv

\* Whatever a deployment that served was set to, whatever the single edit after it: what it
\* offered, the next one offers or does not start, unless that edit is the one that turns it
\* off, or takes away the last access URL of the store that alone had it (config.rs, observability/settings.rs decide).
THEOREM OneEditNeverSilencesCorrect == BackendSpec => []OneEditNeverSilences
<1>1. BackendInit => StartupPart
  BY InitStartup, StartupAssumption DEF BackendInit, StartupStarts, StartupPart
<1>2. StartupPart /\ [BackendNext]_BackendVars => StartupPart'
  <2> SUFFICES ASSUME StartupPart, [BackendNext]_BackendVars, part' = "startup" PROVE StartupInv'
    BY DEF StartupPart
  <2>1. part = part' /\ [Startup!Next]_(Startup!vars)
    BY DEF BackendNext, BackendVars, PositionsRuns, HistoryRuns, CutOverRuns, SignInRuns,
           StartupRuns, McpRuns, startupVars, Startup!vars
  <2>2. QED BY <2>1, StartupAssumption, StartupKeeps DEF StartupPart
<1>3. StartupPart => OneEditNeverSilences
  BY StartupTells, StartupAssumption DEF StartupPart, OneEditNeverSilences
<1>4. QED BY <1>1, <1>2, <1>3, PTL DEF BackendSpec
============================================================================
