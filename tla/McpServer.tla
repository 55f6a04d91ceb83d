----------------------------- MODULE McpServer -----------------------------
(***************************************************************************)
(* The MCP server (mcp/src/server.rs): tool calls turned into REST calls   *)
(* under a cached client-credentials token.                                *)
(*                                                                         *)
(* Calls run concurrently.  Each checks its arguments, takes the token     *)
(* under a mutex that is held across a fetch, and sends its request, which *)
(* the backend applies, refuses or applies with its answer lost.  A fetch  *)
(* has no timeout: the token's life runs while the provider's answer is on *)
(* its way.  The      *)
(* token's expiry is the provider's; the process compares it with a clock  *)
(* of its own, Skew ahead of the provider's.                               *)
(***************************************************************************)
EXTENDS Integers, TLC

CONSTANTS
    Calls,      \* tool calls
    Kinds,      \* what is called: [tool, good, fields] (the arguments that
                \* have the form the tool asks for, the fields supplied)
    Lifetimes,  \* how long a token may be issued for
    Margin,     \* the refresh comes this long before the expiry (60 s)
    Skew,       \* the process's clock less the provider's
    Transit,    \* how long a request may be on its way
    MaxTime,    \* the clock stops there
    MaxFaults   \* failed token fetches and lost answers

Nobody == "nobody"     \* holds the mutex when no call does

\* A request is on its way for no longer than the margin, less what the
\* process's clock is behind the provider's.
ConstantsOK ==
    /\ Nobody \notin Calls
    /\ Lifetimes \subseteq Nat
    /\ {Margin, Transit, MaxTime, MaxFaults} \subseteq Nat
    /\ Skew \in Int /\ Transit <= Margin + Skew

VARIABLES
    now,        \* the provider's and the backend's clock
    token,      \* TokenManager.state
    holder,     \* the call that holds its mutex
    call,       \* each tool call
    faults

vars == <<now, token, holder, call, faults>>

NoToken == [exp |-> 0, refresh |-> 0]

\* What the backend was asked to set, and did.
Nothing == [done |-> FALSE, fields |-> {}]

\* `own`: it fetched its token itself.
New == [at |-> "idle", kind |-> CHOOSE k \in Kinds : TRUE, token |-> NoToken,
        own |-> FALSE, left |-> 0, applied |-> Nothing, answer |-> "none"]

\* The mutex is held by the call that looks at the token or fetches one.
TypeOK ==
    /\ now \in 0..MaxTime
    /\ holder \in Calls \cup {Nobody}
    /\ \A c \in Calls : call[c].at \in {"idle", "waiting", "locked", "fetching", "issued", "sent", "done"}
    /\ \A c \in Calls : (holder = c) <=> (call[c].at \in {"locked", "fetching", "issued"})
    /\ faults \in 0..MaxFaults

Init ==
    /\ now = 0
    /\ token = NoToken
    /\ holder = Nobody
    /\ call = [c \in Calls |-> New]
    /\ faults = 0

End(c, answer) == [call[c] EXCEPT !.at = "done", !.answer = answer]
Fault == faults < MaxFaults /\ faults' = faults + 1

\* The arguments each tool checks before anything is sent: that slugs look
\* like slugs and ids like ids.  (Names, bodies, tags, positions and reasons
\* are the backend's to check.)
BoardTools == [list_boards |-> {}, create_board |-> {}, get_board |-> {"board_slug"},
               update_board |-> {"board_slug", "name"}, delete_board |-> {"board_slug"}]
ColumnTools == [list_columns |-> {"board_slug"}, create_column |-> {"board_slug"},
                update_column |-> {"column_id"}, reorder_columns |-> {"board_slug", "order"},
                delete_column |-> {"column_id"}]
CardTools == [list_cards |-> {"column_id"}, get_card |-> {"card_id"}, get_card_by_number |-> {},
              create_card |-> {"column_id"}, update_card |-> {"card_id"},
              move_card |-> {"card_id", "column_id"}, delete_card |-> {"card_id"}]
LinkTools == [list_board_links |-> {"board_slug"}, link_cards |-> {"predecessor_id", "successor_id"},
              unlink_cards |-> {"link_id"}]

\* The tools that change only what they are given, and need something.
Partial == [update_column |-> {"name", "position"}, update_card |-> {"body", "tags"}]

Refused(kind) ==
    \/ ~((BoardTools @@ ColumnTools @@ CardTools @@ LinkTools)[kind.tool] \subseteq kind.good)
    \/ kind.tool \in DOMAIN Partial /\ kind.fields = {}

\* The fields of the request.
Payload(kind) == kind.fields \cup (CASE kind.tool = "create_column" -> {"position"}
                                     [] kind.tool = "link_cards" -> {"direction", "reason"}
                                     [] OTHER -> {})

Begin(c) ==
    /\ call[c].at = "idle"
    /\ \E kind \in Kinds :
         call' = [call EXCEPT ![c] = IF Refused(kind) THEN [End(c, "bad arguments") EXCEPT !.kind = kind]
                                     ELSE [call[c] EXCEPT !.at = "waiting", !.kind = kind]]
    /\ UNCHANGED <<now, token, holder, faults>>

\* get_token: the mutex is taken before the cached token is looked at.
Lock(c) ==
    /\ call[c].at = "waiting"
    /\ holder = Nobody
    /\ holder' = c
    /\ call' = [call EXCEPT ![c].at = "locked"]
    /\ UNCHANGED <<now, token, faults>>

Fresh == token # NoToken /\ now < token.refresh

\* The request leaves, under the token as it was got.
Depart(c, t, own) ==
    [call[c] EXCEPT !.at = "sent", !.token = t, !.own = own, !.left = now]

UseCached(c) ==
    /\ call[c].at = "locked" /\ Fresh
    /\ holder' = Nobody
    /\ call' = [call EXCEPT ![c] = Depart(c, token, FALSE)]
    /\ UNCHANGED <<now, token, faults>>

Fetch(c) ==
    /\ call[c].at = "locked" /\ ~Fresh
    /\ call' = [call EXCEPT ![c].at = "fetching"]
    /\ UNCHANGED <<now, token, holder, faults>>

\* The provider issues the token and answers.
Issue(c) ==
    /\ call[c].at = "fetching"
    /\ \E life \in Lifetimes :
         call' = [call EXCEPT ![c].at = "issued", ![c].token = [NoToken EXCEPT !.exp = now + life]]
    /\ UNCHANGED <<now, token, holder, faults>>

\* fetch: the refresh is due Margin before the expiry, as far off as the
\* process's own clock makes it, and at once when that is past (DueAtExpiry:
\* a plausible slip, the margin forgotten).
Later(a, b) == IF a > b THEN a ELSE b
DueAtExpiry(exp) == now + Later(exp - (now + Skew), 0)
Due(exp) == now + Later(Later(exp - (now + Skew), 0) - Margin, 0)

\* The answer arrives, however late: the token is cached, and handed to the
\* call that fetched it without another look at its expiry.
Fetched(c) ==
    /\ call[c].at = "issued"
    /\ token' = [call[c].token EXCEPT !.refresh = Due(call[c].token.exp)]
    /\ call' = [call EXCEPT ![c] = Depart(c, token', TRUE)]
    /\ holder' = Nobody
    /\ UNCHANGED <<now, faults>>

\* The mutex is given up with the error, and the next call fetches for itself.
FetchFails(c) ==
    /\ call[c].at \in {"fetching", "issued"}
    /\ Fault
    /\ holder' = Nobody
    /\ call' = [call EXCEPT ![c] = End(c, "no token")]
    /\ UNCHANGED <<now, token>>

\* The backend: a token it finds expired is refused, a good call applied.
\* The answer is checked before it is reported.
Report(c, status) == IF status = "applied" THEN "ok" ELSE "refused"

Arrive(c) ==
    /\ call[c].at = "sent"
    /\ LET status == IF call[c].token.exp <= now THEN "unauthorised" ELSE "applied"
           made == IF status = "applied" THEN [done |-> TRUE, fields |-> Payload(call[c].kind)]
                   ELSE Nothing
       IN \/ /\ call' = [call EXCEPT ![c] = [End(c, Report(c, status)) EXCEPT !.applied = made]]
             /\ UNCHANGED faults
          \/ /\ Fault
             /\ call' = [call EXCEPT ![c] = [End(c, "lost") EXCEPT !.applied = made]]
    /\ UNCHANGED <<now, token, holder>>

\* The request never got there.
Drop(c) ==
    /\ call[c].at = "sent"
    /\ Fault
    /\ call' = [call EXCEPT ![c] = End(c, "lost")]
    /\ UNCHANGED <<now, token, holder>>

Tick ==
    /\ now < MaxTime
    /\ \A c \in Calls : call[c].at = "sent" => now < call[c].left + Transit
    /\ now' = now + 1
    /\ UNCHANGED <<token, holder, call, faults>>

\* The client calls again.
Again(c) ==
    /\ call[c].at = "done" /\ now < MaxTime
    /\ call' = [call EXCEPT ![c] = New]
    /\ UNCHANGED <<now, token, holder, faults>>

Next ==
    \/ Tick
    \/ \E c \in Calls : \/ Begin(c) \/ Lock(c) \/ UseCached(c) \/ Fetch(c) \/ Issue(c)
                        \/ Fetched(c) \/ FetchFails(c) \/ Arrive(c) \/ Drop(c) \/ Again(c)

Spec == Init /\ [][Next]_vars

(***************************************************************************)
(* Properties                                                              *)
(***************************************************************************)

\* A tool does what it was asked and tells the truth about it: no column or
\* card loses a field the caller left out, a success was applied, and a call
\* with bad arguments, without a token or with a token that ran out was not.
\* A token from the cache never runs out under a call, however long the call
\* waited for the mutex behind another's fetch and however old the cache: a
\* call is refused for its token only when it fetched that token itself, and
\* the token, when it came, had no more of its life left than a request's
\* way to the backend (server.rs get_token, fetch, require_ok).
CallsTellTheTruth ==
    \A c \in Calls :
        /\ call[c].kind.tool \in DOMAIN Partial => call[c].applied.fields \subseteq call[c].kind.fields
        /\ call[c].answer = "ok" => call[c].applied.done
        /\ call[c].answer \in {"bad arguments", "no token", "refused"} => ~call[c].applied.done
        /\ call[c].answer = "refused" =>
              call[c].own /\ call[c].token.exp <= call[c].left + Transit

=============================================================================
