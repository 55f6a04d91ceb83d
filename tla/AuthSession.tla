---------------------------- MODULE AuthSession ----------------------------
(***************************************************************************)
(* One browser's session: the cookies it holds, the requests that refresh  *)
(* them side by side, logging in and out, and the provider that takes each *)
(* refresh token once (auth/session.rs, auth/middleware.rs,                *)
(* routes/auth.rs).                                                        *)
(*                                                                         *)
(* A token n stands for the refresh token and the access token that were   *)
(* issued together; the cookies are set and cleared together, so the       *)
(* browser's jar is one token or none.  Every lock of refresh_state is one *)
(* step; the provider's answer is a step of its own.  A response carries   *)
(* its Set-Cookie until it is delivered, and responses overtake each other.*)
(*                                                                         *)
(* Abstracted: the encryption of the cookies; the ID token; bearer         *)
(* requests, which touch none of this state; the sign-in's state cookie;   *)
(* the age of a tombstone, which outlives the cookie it refuses.           *)
(***************************************************************************)
EXTENDS Naturals, FiniteSets, SequencesExt

CONSTANTS
    Procs,         \* requests under way at once
    NoOne,         \* "gate not held"
    CacheMax,      \* REFRESH_CACHE_MAX_ENTRIES
    TombMax,       \* REFRESH_INVALIDATION_MAX_ENTRIES
    MaxToken,      \* bound: tokens the provider issues
    MaxRequests,   \* bound: requests in one behaviour
    MaxFaults      \* bound: failed calls, dropped requests, restarts, expiries

Tokens == 1 .. MaxToken
NoToken == 0

\* The two memories hold something. (A request has at most one token issued, so MaxToken is
\* no bound above MaxRequests.)
ConstantsOK ==
    /\ NoOne \notin Procs
    /\ {CacheMax, TombMax, MaxToken} \subseteq Nat \ {0}

VARIABLES
    jar,       \* the browser: the token of its cookies, or NoToken
    aged,      \* tokens whose access token is about to expire, or has
    \* the provider
    last,      \* the token issued last
    login,     \* login[n]: the sign-in token n comes from, by its first token
    live,      \* refresh tokens it would exchange
    \* AuthSessionManager, in memory
    cache,     \* rotations <<old, new>>, the first to expire first
    tombs,     \* tombstones, the oldest first
    gate,      \* gate[n]: the request holding token n's gate
    revoking,  \* tokens the detached revocation tasks still have to revoke
    req,       \* req[p]: request p and its locals
    issued,    \* requests so far
    faults,    \* faults so far
    \* history variables: they guide no step
    ended,     \* sign-ins that were logged out
    forgot     \* tokens that were spent, or tombstoned, and are no longer known to be

manager == <<cache, tombs, gate>>
provider == <<last, login, live>>
vars == <<jar, aged, provider, manager, revoking, req, issued, faults, ended, forgot>>

Buried == Range(tombs)

Cached(n) == \E i \in DOMAIN cache : cache[i][1] = n
Rotation(n) == (CHOOSE r \in Range(cache) : r[1] = n)[2]

Idle ==
    [pc |-> "idle",
     tok |-> NoToken,    \* the refresh token it was sent with
     got |-> NoToken,    \* the token it was given instead
     set |-> "keep",     \* its Set-Cookie: "keep", "clear", or "write" got
     served |-> FALSE,   \* its handler has run
     late |-> FALSE]     \* its sign-in was logged out before it was sent

Init ==
    /\ jar = 1
    /\ aged = {}
    /\ last = 1
    /\ login = [n \in Tokens |-> IF n = 1 THEN 1 ELSE NoToken]
    /\ live = {1}
    /\ cache = << >>
    /\ tombs = << >>
    /\ gate = [n \in Tokens |-> NoOne]
    /\ revoking = {}
    /\ req = [p \in Procs |-> Idle]
    /\ issued = 0
    /\ faults = 0
    /\ ended = {}
    /\ forgot = {}

----------------------------------------------------------------------------
Become(p, r) == req' = [req EXCEPT ![p] = r]

Goto(p, label) == Become(p, [req[p] EXCEPT !.pc = label])

\* The response is on its way with its Set-Cookie.
Respond(p, setCookie, served) ==
    Become(p, [req[p] EXCEPT !.pc = "respond", !.set = setCookie, !.served = served])

\* 401, and the session cookies cleared.
Refuse(p) == Respond(p, "clear", FALSE)

Release(p) == gate' = [n \in Tokens |-> IF gate[n] = p THEN NoOne ELSE gate[n]]

Fault == faults < MaxFaults /\ faults' = faults + 1

\* The provider issues the next token of sign-in s (or a new sign-in, s = NoToken).
Issue(s, spends) ==
    /\ last < MaxToken
    /\ last' = last + 1
    /\ login' = [login EXCEPT ![last + 1] = IF s = NoToken THEN last + 1 ELSE s]
    /\ live' = (live \ spends) \cup {last + 1}

----------------------------------------------------------------------------
(* The middleware.                                                         *)

\* The browser sends a request with the cookies it holds at that moment.
Send(p, label) ==
    /\ req[p] = Idle
    /\ issued < MaxRequests
    /\ issued' = issued + 1
    /\ Become(p, [Idle EXCEPT !.pc = label, !.tok = jar,
                              !.late = jar # NoToken /\ login[jar] \in ended])
    /\ UNCHANGED <<jar, aged, provider, manager, revoking, faults, ended, forgot>>

Request(p) == jar # NoToken /\ Send(p, "check")

\* The tombstone check, then the fast path of a healthy access token.
Check(p) ==
    /\ req[p].pc = "check"
    /\ \/ req[p].tok \in Buried /\ Refuse(p)
       \/ req[p].tok \notin Buried \cup aged /\ Respond(p, "keep", TRUE)
       \/ req[p].tok \in aged \ Buried /\ Goto(p, "gate")
    /\ UNCHANGED <<jar, aged, provider, manager, revoking, issued, faults, ended, forgot>>

\* No gate: every request goes on at once.
TakeNoGate(p) ==
    /\ req[p].pc \in {"gate", "logout_gate"}
    /\ Goto(p, IF req[p].pc = "gate" THEN "recheck" ELSE "bury")
    /\ UNCHANGED <<jar, aged, provider, manager, revoking, issued, faults, ended, forgot>>

\* The token's own gate; whoever gets it knows nothing of the time it waited.
TakeGate(p) ==
    /\ req[p].pc \in {"gate", "logout_gate"}
    /\ gate[req[p].tok] = NoOne
    /\ gate' = [gate EXCEPT ![req[p].tok] = p]
    /\ Goto(p, IF req[p].pc = "gate" THEN "recheck" ELSE "bury")
    /\ UNCHANGED <<jar, aged, provider, cache, tombs, revoking, issued, faults, ended, forgot>>

\* The gate alone, and not what happened while the request waited for it.
RecheckNothing(p) ==
    /\ req[p].pc = "recheck"
    /\ Goto(p, "post")
    /\ UNCHANGED <<jar, aged, provider, manager, revoking, issued, faults, ended, forgot>>

\* Under the gate: logged out meanwhile, or rotated meanwhile, or ours to exchange.
Recheck(p) ==
    /\ req[p].pc = "recheck"
    /\ LET tok == req[p].tok
       IN  \/ tok \in Buried /\ Refuse(p) /\ Release(p)
           \/ /\ tok \notin Buried /\ Cached(tok)
              /\ Become(p, [req[p] EXCEPT !.pc = "handler", !.got = Rotation(tok)])
              /\ Release(p)
           \/ tok \notin Buried /\ ~Cached(tok) /\ Goto(p, "post") /\ UNCHANGED gate
    /\ UNCHANGED <<jar, aged, provider, cache, tombs, revoking, issued, faults, ended, forgot>>

\* The refresh grant reaches the provider: a live token is spent and rotated, any
\* other is refused.
Post(p) ==
    /\ req[p].pc = "post"
    /\ LET tok == req[p].tok
       IN  \/ /\ tok \in live
              /\ Issue(login[tok], {tok})
              /\ Become(p, [req[p] EXCEPT !.pc = "store", !.got = last + 1])
              /\ UNCHANGED gate
           \/ /\ tok \notin live
              /\ Refuse(p) /\ Release(p)
              /\ UNCHANGED provider
    /\ UNCHANGED <<jar, aged, cache, tombs, revoking, issued, faults, ended, forgot>>

\* The call fails: before the provider saw it ("post"), or with the answer lost,
\* late, unreadable or not accepted by validate_jwt ("store").
CallFails(p) ==
    /\ req[p].pc \in {"post", "store"}
    /\ Fault
    /\ Refuse(p) /\ Release(p)
    /\ forgot' = IF req[p].pc = "store" THEN forgot \cup {req[p].tok} ELSE forgot
    /\ UNCHANGED <<jar, aged, provider, cache, tombs, revoking, issued, ended>>

\* The cache grows past its limit.
KeptAll(old, new) == Append(cache, <<old, new>>)

\* The cache with a rotation more: at its limit the entry that expires first goes.
Kept(old, new) ==
    Append(IF Len(cache) >= CacheMax THEN Tail(cache) ELSE cache, <<old, new>>)

\* The rotation kept without a second look at the tombstones.
StoreAnyway(p) ==
    /\ req[p].pc = "store"
    /\ cache' = Kept(req[p].tok, req[p].got)
    /\ Goto(p, "handler")
    /\ Release(p)
    /\ UNCHANGED <<jar, aged, provider, tombs, revoking, issued, faults, ended, forgot>>

\* The answer is in: refused if a logout buried either token meanwhile, else kept for
\* whoever comes with the spent token.
Store(p) ==
    /\ req[p].pc = "store"
    /\ Release(p)
    /\ IF {req[p].tok, req[p].got} \cap Buried # {}
       THEN /\ Refuse(p)
            /\ forgot' = forgot \cup {req[p].tok}
            /\ UNCHANGED cache
       ELSE /\ cache' = Kept(req[p].tok, req[p].got)
            /\ forgot' = IF Len(cache) >= CacheMax THEN forgot \cup {cache[1][1]} ELSE forgot
            /\ Goto(p, "handler")
    /\ UNCHANGED <<jar, aged, provider, tombs, revoking, issued, faults, ended>>

\* The handler has run; the rotated session is written unless it was buried meanwhile.
Handle(p) ==
    /\ req[p].pc = "handler"
    /\ Respond(p, IF req[p].got \in Buried THEN "clear" ELSE "write", TRUE)
    /\ UNCHANGED <<jar, aged, provider, manager, revoking, issued, faults, ended, forgot>>

\* The browser receives a response and applies its Set-Cookie.
Deliver(p) ==
    /\ req[p].pc = "respond"
    /\ jar' = CASE req[p].set = "keep" -> jar
                [] req[p].set = "clear" -> NoToken
                [] req[p].set = "write" -> req[p].got
    /\ Become(p, Idle)
    /\ UNCHANGED <<aged, provider, manager, revoking, issued, faults, ended, forgot>>

----------------------------------------------------------------------------
(* Signing in and out.                                                     *)

\* The provider sends the browser back with a code.
Callback(p) == jar = NoToken /\ Send(p, "code")

ExchangeCode(p) ==
    /\ req[p].pc = "code"
    /\ Issue(NoToken, {})
    /\ Become(p, [req[p] EXCEPT !.pc = "respond", !.set = "write", !.got = last + 1])
    /\ UNCHANGED <<jar, aged, manager, revoking, issued, faults, ended, forgot>>

\* The exchange of the code, or the validation of what it gave, fails: no cookie is set.
CodeRefused(p) ==
    /\ req[p].pc = "code"
    /\ Fault
    /\ Respond(p, "keep", FALSE)
    /\ UNCHANGED <<jar, aged, provider, manager, revoking, issued, ended, forgot>>

Logout(p) == jar # NoToken /\ Send(p, "logout_gate")

\* Every token that cached rotations connect to n, in either direction.
Connected(n) ==
    {m \in Tokens :
        \A chain \in SUBSET Tokens :
            /\ n \in chain
            /\ \A i \in DOMAIN cache : cache[i][1] \in chain <=> cache[i][2] \in chain
            => m \in chain}

\* A tombstone more, the token's older one replaced; at the limit the oldest of all goes.
Tombstone(ts, n) ==
    LET kept == IF Len(ts) >= TombMax THEN Tail(ts) ELSE ts
    IN  Append(IF n \in Range(kept) THEN RemoveAt(kept, CHOOSE i \in DOMAIN kept : kept[i] = n)
               ELSE kept, n)

\* The tombstones with those of some tokens, one after the other.
Tombstones(tokens) ==
    LET after[i \in 0 .. Len(tokens)] ==
            IF i = 0 THEN tombs ELSE Tombstone(after[i - 1], tokens[i])
    IN  after[Len(tokens)]

\* The rotations of the chain leave the cache, the others keeping their order; its tokens get
\* tombstones in some order, and those known in full are revoked later.
Bury(p) ==
    /\ req[p].pc = "bury"
    /\ LET chain == Connected(req[p].tok)
           others == {i \in DOMAIN cache : cache[i][1] \notin chain}
       IN  /\ \E at \in Bijection(1 .. Cardinality(others), others) :
                 /\ \A i, j \in DOMAIN at : i < j => at[i] < at[j]
                 /\ cache' = [i \in DOMAIN at |-> cache[at[i]]]
           /\ \E order \in SetToSeqs(chain) : tombs' = Tombstones(order)
           /\ revoking' = revoking \cup {req[p].tok} \cup
                  {cache[i][2] : i \in DOMAIN cache \ others}
           /\ forgot' = forgot \cup ((Buried \cup chain) \ Range(tombs'))
    /\ ended' = ended \cup {login[req[p].tok]}
    /\ Release(p)
    /\ Refuse(p)
    /\ UNCHANGED <<jar, aged, provider, issued, faults>>

\* A detached revocation task: the provider revokes the token, or the call fails.
Revoke(n) ==
    /\ n \in revoking
    /\ revoking' = revoking \ {n}
    /\ live' \in {live, live \ {n}}
    /\ UNCHANGED <<jar, aged, last, login, manager, req, issued, faults, ended, forgot>>

----------------------------------------------------------------------------
(* What else happens.                                                      *)

\* An access token comes within REFRESH_WINDOW_SECS of its expiry.
Age(n) ==
    /\ n \in 1 .. last
    /\ n \notin aged
    /\ aged' = aged \cup {n}
    /\ UNCHANGED <<jar, provider, manager, revoking, req, issued, faults, ended, forgot>>

\* REFRESH_CACHE_TTL is over for the oldest rotation.
Expire ==
    /\ cache # << >>
    /\ Fault
    /\ cache' = Tail(cache)
    /\ forgot' = forgot \cup {cache[1][1]}
    /\ UNCHANGED <<jar, aged, provider, tombs, gate, revoking, req, issued, ended>>

\* What is lost with the requests of ps: exchanges the provider has made.
Unstored(ps) == {req[p].tok : p \in {q \in ps : req[q].pc = "store"}}

\* The connection of a request breaks: its future is dropped, its gate with it.
Dropped(p) ==
    /\ req[p] # Idle
    /\ Fault
    /\ Become(p, Idle)
    /\ Release(p)
    /\ forgot' = forgot \cup Unstored({p})
    /\ UNCHANGED <<jar, aged, provider, cache, tombs, revoking, issued, ended>>

\* The server restarts: the manager, every request and every task are gone.
Restart ==
    /\ Fault
    /\ cache' = << >>
    /\ tombs' = << >>
    /\ gate' = [n \in Tokens |-> NoOne]
    /\ revoking' = {}
    /\ req' = [p \in Procs |-> Idle]
    /\ forgot' = forgot \cup {r[1] : r \in Range(cache)} \cup Buried \cup Unstored(Procs)
    /\ UNCHANGED <<jar, aged, provider, issued, ended>>

Step(p) ==
    \/ Check(p) \/ TakeGate(p) \/ Recheck(p) \/ Post(p) \/ Store(p) \/ Handle(p)
    \/ ExchangeCode(p) \/ Bury(p) \/ Deliver(p)

Next ==
    \/ \E p \in Procs :
          \/ Request(p) \/ Callback(p) \/ Logout(p)
          \/ Step(p)
          \/ CallFails(p) \/ CodeRefused(p) \/ Dropped(p)
    \/ \E n \in Tokens : Age(n) \/ Revoke(n)
    \/ Expire
    \/ Restart

Spec == Init /\ [][Next]_vars

FairSpec == Spec /\ \A p \in Procs : WF_vars(Step(p))

----------------------------------------------------------------------------
(* Properties.                                                             *)

Steps == {"check", "gate", "recheck", "post", "store", "handler", "respond",
          "code", "logout_gate", "bury"}

\* Everything has its type, the two memories keep to their limits, and a gate is held
\* by a request that is past it and not done.
TypeOK ==
    /\ jar \in 0 .. last
    /\ last \in Tokens
    /\ aged \cup live \cup revoking \cup forgot \cup ended \subseteq 1 .. last
    /\ login \in [Tokens -> 0 .. last]
    /\ Len(cache) <= CacheMax /\ Range(cache) \subseteq (1 .. last) \X (1 .. last)
    /\ Len(tombs) <= TombMax /\ Buried \subseteq 1 .. last
    /\ \A p \in Procs :
          \/ req[p] = Idle
          \/ /\ req[p].pc \in Steps
             /\ {req[p].tok, req[p].got} \subseteq 0 .. last
             /\ req[p].set \in {"keep", "clear", "write"}
             /\ {req[p].served, req[p].late} \subseteq BOOLEAN
    /\ \A n \in Tokens : gate[n] \in {NoOne} \cup
          {p \in Procs : req[p].tok = n /\ req[p].pc \in {"recheck", "post", "store", "bury"}}

\* A refresh token goes to the provider once, however many requests carry it and
\* wherever they wait: whoever is about to send one that was spent or revoked holds a
\* token that a memory forgot, or that a logout has buried since it looked.
NoReplay ==
    \A p \in Procs : req[p].pc = "post" =>
        req[p].tok \in live \cup forgot \cup Buried

\* Nobody is turned away but for a cause: with no fault and nothing forgotten, a session
\* that was not logged out stays good for every request sent with it, in whatever order
\* requests and responses run.
RefusedForCause ==
    \A p \in Procs :
        req[p].pc = "respond" /\ req[p].set = "clear" =>
            \/ login[req[p].tok] \in ended
            \/ faults > 0
            \/ forgot # {}

\* A logout holds: no handler runs for a request sent after its sign-in was logged out,
\* whichever of the sign-in's tokens either of them carried, unless one of these tokens
\* was forgotten.
LogoutHolds ==
    \A p \in Procs :
        req[p].late /\ req[p].served =>
            \E n \in forgot : login[n] = login[req[p].tok]
============================================================================
