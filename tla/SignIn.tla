------------------------------- MODULE SignIn -------------------------------
(***************************************************************************)
(* Starting a browser session, and the signing keys a token is read with   *)
(* (backend auth/provider.rs, auth/jwt.rs, routes/auth.rs).                *)
(*                                                                         *)
(* The process finds its identity provider once, at boot.  A tab is sent   *)
(* to the provider with a fresh state kept in the browser's one state      *)
(* cookie, comes back with a code, and the code is exchanged for a token   *)
(* that is validated before it becomes a session.  A logout takes the      *)
(* session and the state cookie with it, in every tab of the browser.      *)
(* Bearer tokens are validated the same way.  Keys are looked up in a cache that every       *)
(* request meeting an unknown key id refreshes by itself: the document it  *)
(* is given may be old by the time it replaces the cache.                  *)
(***************************************************************************)
EXTENDS Integers, FiniteSets

CONSTANTS
    Tabs,               \* tabs of one browser that sign in
    Bearers,            \* requests that carry a token of their own
    Tokens,             \* what such a token says: its key id, its claims
    Paths,              \* return paths a tab may ask for
    NotRsa,             \* key ids the provider publishes that are not RSA
    DiscoveryAttempts,  \* DISCOVERY_ATTEMPTS
    MaxRotations,       \* how often the provider changes its keys
    MaxLogins,          \* how often a tab is sent to the provider
    MaxFaults           \* failed calls to the provider

\* A request signs in or carries a token of its own.
ConstantsOK ==
    /\ Tabs \cap Bearers = {}
    /\ {DiscoveryAttempts, MaxRotations, MaxLogins, MaxFaults} \subseteq Nat

VARIABLES
    boot,       \* discovery: the attempts made, and how it ended
    published,  \* the key ids the provider's document lists now
    newest,     \* the key id the provider signs with
    cache,      \* JwksCache.keys
    cookie,     \* the browser's state cookie
    tab,        \* the sign-in of each tab
    look,       \* the validation each tab or bearer has under way
    logins,     \* states made so far
    faults      \* calls to the provider that failed

vars == <<boot, published, newest, cache, cookie, tab, look, logins, faults>>

Actors == Tabs \cup Bearers
Root == [local |-> TRUE, name |-> "/"]
NoState == [nonce |-> 0, to |-> Root]
NoToken == [kid |-> 0, rsa |-> TRUE, ours |-> TRUE, scope |-> TRUE]
Idle == [at |-> "idle", token |-> NoToken, doc |-> {}, overtaken |-> FALSE]
Home == [at |-> "idle", state |-> NoState, end |-> "none", hurt |-> FALSE]

\* The keys listed and cached are ones the provider made, and the cookie's state is of a
\* login there was.
TypeOK ==
    /\ boot \in [tries : 0..DiscoveryAttempts, end : {"trying", "up", "panicked"}]
    /\ published \subseteq 1..newest
    /\ cache \subseteq 1..newest
    /\ cookie.nonce \in 0..logins
    /\ \A t \in Tabs :
         /\ tab[t].at \in {"idle", "provider", "exchange", "validate", "done"}
         /\ tab[t].end \in {"none", "denied", "no_state", "mismatch",
                            "not_exchanged", "not_valid", "session"}
    /\ \A a \in Actors : look[a].at \in {"idle", "lookup", "asked", "answered", "again",
                                         "ok", "no_key", "no_fetch", "refused"}
    /\ faults \in 0..MaxFaults

Init ==
    /\ boot = [tries |-> 0, end |-> "trying"]
    /\ published = {1} /\ newest = 1
    /\ cache = {}
    /\ cookie = NoState
    /\ tab = [t \in Tabs |-> Home]
    /\ look = [a \in Actors |-> Idle]
    /\ logins = 0 /\ faults = 0

Up == boot.end = "up"

\* A failed call to the provider, of which there are only so many.
Fault == faults < MaxFaults /\ faults' = faults + 1

(***************************************************************************)
(* Discovery                                                               *)
(***************************************************************************)

Discover ==
    /\ boot.end = "trying"
    /\ boot.tries < DiscoveryAttempts
    /\ \/ boot' = [boot EXCEPT !.end = "up"] /\ UNCHANGED faults
       \/ Fault /\ boot' = [boot EXCEPT !.tries = @ + 1]
    /\ UNCHANGED <<published, newest, cache, cookie, tab, look, logins>>

\* Out of attempts: from_config expects a document, and the process panics.
GiveUp ==
    /\ boot.end = "trying"
    /\ boot.tries = DiscoveryAttempts
    /\ boot' = [boot EXCEPT !.end = "panicked"]
    /\ UNCHANGED <<published, newest, cache, cookie, tab, look, logins, faults>>

(***************************************************************************)
(* Keys and tokens                                                         *)
(***************************************************************************)

\* The provider adds a key and signs with it; it may retire an older one.
Rotate ==
    /\ newest <= MaxRotations
    /\ newest' = newest + 1
    /\ \E kept \in SUBSET published : published' = kept \cup {newest'}
    /\ UNCHANGED <<boot, cache, cookie, tab, look, logins, faults>>

\* The keys refresh makes of a document: RSA ones, the others are skipped.
KeysOf(doc) == doc \ NotRsa

\* validate_jwt, with the key in hand: algorithm, signer and audience, scope.
Verdict(token) ==
    IF token.rsa /\ token.ours /\ token.scope THEN "ok" ELSE "refused"

Set(a, at) == look' = [look EXCEPT ![a].at = at]

\* get: the cached key, or a refresh of this request's own.
Found(a) == look[a].token.kid \in cache
Lookup(a) ==
    /\ look[a].at = "lookup"
    /\ Set(a, IF Found(a) THEN Verdict(look[a].token) ELSE "asked")
    /\ UNCHANGED <<boot, published, newest, cache, cookie, tab, logins, faults>>

\* The provider reads its document for the request.
Answer(a) ==
    /\ look[a].at = "asked"
    /\ look' = [look EXCEPT ![a].at = "answered", ![a].doc = KeysOf(published)]
    /\ UNCHANGED <<boot, published, newest, cache, cookie, tab, logins, faults>>

FetchFails(a) ==
    /\ look[a].at \in {"asked", "answered"}
    /\ Fault
    /\ Set(a, "no_fetch")
    /\ UNCHANGED <<boot, published, newest, cache, cookie, tab, logins>>

\* What the cache holds once a document has been read.
Replaced(doc) == doc

\* refresh: the document replaces the cache.  Others that stored theirs and
\* have not looked again yet are overtaken by it.
Store(a) ==
    /\ look[a].at = "answered"
    /\ cache' = Replaced(look[a].doc)
    /\ look' = [b \in Actors |->
           IF b = a THEN [look[a] EXCEPT !.at = "again"]
           ELSE IF look[b].at = "again" /\ look[b].token.kid \notin cache'
                THEN [look[b] EXCEPT !.overtaken = TRUE]
                ELSE look[b]]
    /\ UNCHANGED <<boot, published, newest, cookie, tab, logins, faults>>

LookAgain(a) ==
    /\ look[a].at = "again"
    /\ Set(a, IF Found(a) THEN Verdict(look[a].token) ELSE "no_key")
    /\ UNCHANGED <<boot, published, newest, cache, cookie, tab, logins, faults>>

\* The middleware validates the token a request carries.
Present(b) ==
    /\ Up
    /\ b \in Bearers
    /\ look[b].at = "idle"
    /\ \E token \in Tokens :
         /\ token.kid <= newest
         /\ look' = [look EXCEPT ![b] = [Idle EXCEPT !.at = "lookup", !.token = token]]
    /\ UNCHANGED <<boot, published, newest, cache, cookie, tab, logins, faults>>

(***************************************************************************)
(* Sign-in                                                                 *)
(***************************************************************************)

\* safe_return_to: a path of this site, or the root.
SafeReturnTo(path) == IF path.local THEN path ELSE Root

\* A tab whose state the cookie still holds loses it.
Disturbed == [t \in Tabs |->
    IF tab[t].state = cookie /\ cookie # NoState
    THEN [tab[t] EXCEPT !.hurt = TRUE] ELSE tab[t]]

\* login: a fresh state in the one cookie, and the tab goes to the provider.
Login(t) ==
    /\ Up
    /\ tab[t].at \in {"idle", "done"}
    /\ tab[t].end # "session"
    /\ logins < MaxLogins
    /\ \E path \in Paths :
         LET state == [nonce |-> logins + 1, to |-> SafeReturnTo(path)]
         IN /\ cookie' = state
            /\ tab' = [Disturbed EXCEPT ![t] =
                   [Home EXCEPT !.at = "provider", !.state = state]]
    /\ logins' = logins + 1
    /\ look' = [look EXCEPT ![t] = Idle]
    /\ UNCHANGED <<boot, published, newest, cache, faults>>

End(t, end) == tab' = [tab EXCEPT ![t].at = "done", ![t].end = end]

\* callback, when the provider answered with an error (DeniedClearing: a
\* plausible slip, the state cleared whoever's it is).
DeniedClearing(t) ==
    /\ tab[t].at = "provider"
    /\ End(t, "denied")
    /\ cookie' = NoState
    /\ UNCHANGED <<boot, published, newest, cache, look, logins, faults>>
Denied(t) ==
    /\ tab[t].at = "provider"
    /\ End(t, "denied")
    /\ UNCHANGED <<boot, published, newest, cache, cookie, look, logins, faults>>

\* callback up to its first await: the state must be the cookie's.
Refusal(t) ==
    IF cookie = NoState THEN "no_state"
    ELSE IF cookie # tab[t].state THEN "mismatch" ELSE "none"
Callback(t) ==
    /\ \/ tab[t].at = "provider"
       \/ tab[t].at = "done" /\ tab[t].end = "not_exchanged"    \* the page is reloaded
    /\ IF Refusal(t) = "none"
       THEN tab' = [tab EXCEPT ![t].at = "exchange", ![t].end = "none"]
       ELSE End(t, Refusal(t))
    /\ UNCHANGED <<boot, published, newest, cache, cookie, look, logins, faults>>

\* exchange_authorization_code: a token signed with the newest key.
Exchange(t) ==
    /\ tab[t].at = "exchange"
    /\ tab' = [tab EXCEPT ![t].at = "validate"]
    /\ look' = [look EXCEPT ![t] =
           [Idle EXCEPT !.at = "lookup", !.token = [NoToken EXCEPT !.kid = newest]]]
    /\ UNCHANGED <<boot, published, newest, cache, cookie, logins, faults>>

ExchangeFails(t) ==
    /\ tab[t].at = "exchange"
    /\ Fault
    /\ End(t, "not_exchanged")
    /\ UNCHANGED <<boot, published, newest, cache, cookie, look, logins>>

\* The validated token becomes the session, and the state cookie is cleared:
\* whichever state it holds by now.
Complete(t) ==
    /\ tab[t].at = "validate"
    /\ look[t].at = "ok"
    /\ cookie' = NoState
    /\ tab' = [Disturbed EXCEPT ![t] = [tab[t] EXCEPT !.at = "done", !.end = "session"]]
    /\ UNCHANGED <<boot, published, newest, cache, look, logins, faults>>

Reject(t) ==
    /\ tab[t].at = "validate"
    /\ look[t].at \in {"no_key", "no_fetch", "refused"}
    /\ End(t, "not_valid")
    /\ UNCHANGED <<boot, published, newest, cache, cookie, look, logins, faults>>

\* The state cookie lives STATE_COOKIE_MAX_AGE_SECS.
ExpireState ==
    /\ cookie # NoState
    /\ cookie' = NoState
    /\ tab' = Disturbed
    /\ UNCHANGED <<boot, published, newest, cache, look, logins, faults>>

\* logout: the session ends and the state cookie is cleared, whichever sign-in
\* of another tab it was kept for; with or without a session, any tab may ask.
Logout ==
    /\ Up
    /\ cookie' = NoState
    /\ tab' = [t \in Tabs |-> IF tab[t].end = "session" THEN Home ELSE Disturbed[t]]
    /\ UNCHANGED <<boot, published, newest, cache, look, logins, faults>>

Next ==
    \/ Discover \/ GiveUp \/ Rotate \/ ExpireState \/ Logout
    \/ \E b \in Bearers : Present(b)
    \/ \E a \in Actors : \/ Lookup(a) \/ Answer(a) \/ FetchFails(a)
                         \/ Store(a) \/ LookAgain(a)
    \/ \E t \in Tabs : \/ Login(t) \/ Denied(t) \/ Callback(t) \/ Exchange(t)
                       \/ ExchangeFails(t) \/ Complete(t) \/ Reject(t)

Spec == Init /\ [][Next]_vars

(***************************************************************************)
(* Properties                                                              *)
(***************************************************************************)

\* A sign-in nobody disturbs works, across key rotations and concurrent
\* refreshes: once its tab went to the provider, a callback is turned away
\* for its state only when another login, another completed sign-in, a logout
\* or time took the state from the cookie, and the issued token is rejected
\* only when fetching the keys failed, the key it was signed with had been
\* retired or is not RSA by the time the document was read, or another
\* request stored an older document over the one with the key
\* (routes/auth.rs callback, auth/jwt.rs get and refresh).
SignInsFailForCause ==
    \A t \in Tabs :
        /\ tab[t].end \in {"no_state", "mismatch"} => tab[t].hurt
        /\ tab[t].end = "not_valid" =>
             \/ look[t].at = "no_fetch"
             \/ look[t].at = "no_key" /\ (look[t].token.kid \notin look[t].doc \/ look[t].overtaken)

=============================================================================
