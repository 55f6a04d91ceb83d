-------------------------- MODULE AuthSessionProofs -------------------------
(***************************************************************************)
(* What AuthSession promises, for any number of requests, tokens and       *)
(* sign-ins and for memories of any size.                                  *)
(*                                                                         *)
(* The inductive invariant AuthInv follows the tokens.  Accounted says     *)
(* where a token can be that the provider would no longer take.  Secret:   *)
(* the token a request has just been given is nobody else's until it is    *)
(* stored.  Linked: the tokens of a sign-in are connected, by rotations    *)
(* that are cached and by exchanges about to be, so that a logout, which   *)
(* follows the cached ones, finds all the tokens anybody holds; EndedGone  *)
(* is what remains of that after the logout.  Well is about one request:   *)
(* the gate it holds, what it knows of its token, and what its answer may  *)
(* say.                                                                    *)
(***************************************************************************)
EXTENDS AuthSession, FiniteSetTheorems, SequenceTheorems, WellFoundedInduction, TLAPS

Made == 1 .. last

Carrying == {"check", "gate", "recheck", "post", "store", "handler", "logout_gate", "bury"}
Exclusive == {"recheck", "post", "store", "bury"}

Locals == [pc : Steps \cup {"idle"}, tok : Nat, got : Nat, set : {"keep", "clear", "write"},
           served : BOOLEAN, late : BOOLEAN]

StateType ==
    /\ last \in Tokens
    /\ jar \in 0 .. last
    /\ live \subseteq Made
    /\ login \in [Tokens -> Nat] /\ \A n \in Made : login[n] \in Made
    /\ cache \in Seq(Made \X Made)
    /\ tombs \in Seq(Made)
    /\ gate \in [Tokens -> Procs \cup {NoOne}]
    /\ forgot \subseteq Made /\ ended \subseteq Made
    /\ revoking \subseteq forgot \cup Buried
    /\ req \in [Procs -> Locals]
    /\ faults \in Nat

ForgotOf(s) == \E n \in forgot : login[n] = s

\* What is true of request p while its locals are r.
Well(p, r) ==
    /\ {r.tok, r.got} \subseteq 0 .. last
    /\ r.pc \in Carrying => r.tok # NoToken
    /\ r.pc \in Exclusive => gate[r.tok] = p
    /\ r.pc = "post" => ~Cached(r.tok)
    /\ r.pc \in {"store", "handler"} => r.got # NoToken /\ login[r.got] = login[r.tok]
    /\ r.late => r.tok # NoToken /\ login[r.tok] \in ended
    /\ r.late /\ (r.served \/ r.pc = "handler") => ForgotOf(login[r.tok])
    /\ r.pc = "respond" /\ r.set = "clear" =>
          r.tok # NoToken /\ (login[r.tok] \in ended \/ faults > 0 \/ forgot # {})

AllWell == \A p \in Procs : Well(p, req[p])

Storing == {p \in Procs : req[p].pc = "store"}

Accounted ==
    \A n \in Made : \/ n \in live \cup forgot \cup Buried \/ Cached(n)
                    \/ \E p \in Storing : req[p].tok = n

Logins ==
    /\ \A r \in Range(cache) : login[r[1]] = login[r[2]]
    /\ \A n \in Buried : login[n] \in ended

\* Token n is not what a request other than p has been given and not stored yet.
Open(n, p) == \A q \in Storing \ {p} : req[q].got # n

Secret ==
    \A q \in Storing : LET g == req[q].got IN
        /\ jar # g
        /\ \A r \in Range(cache) : r[1] # g /\ r[2] # g
        /\ \A p \in Procs : req[p].tok # g /\ (p # q => req[p].got # g)

Pairs == Range(cache) \cup {<<req[p].tok, req[p].got>> : p \in Storing}

\* What a set of tokens is that no rotation of sign-in s leads into or out of.
Closed(set, s) == \A r \in Pairs : login[r[1]] = s => (r[1] \in set <=> r[2] \in set)

Linked ==
    \A s \in Made \ ended : ~ForgotOf(s) =>
        \A set \in SUBSET Tokens : Closed(set, s) =>
            \A m, n \in Made : login[m] = s /\ login[n] = s /\ m \in set => n \in set

EndedGone ==
    \A s \in ended : ~ForgotOf(s) =>
        \A n \in Made : login[n] = s =>
            n \in Buried \/ \E p \in Storing : req[p].got = n /\ req[p].tok \in Buried

AuthInv ==
    StateType /\ AllWell /\ Accounted /\ Logins /\ Secret /\ Linked /\ EndedGone

----------------------------------------------------------------------------
(* Chains and tombstones.                                                  *)

LEMMA ConnectedClosed ==
    ASSUME cache \in Seq(Tokens \X Tokens), NEW n \in Tokens
    PROVE  /\ Connected(n) \subseteq Tokens /\ n \in Connected(n)
           /\ \A i \in DOMAIN cache : cache[i][1] \in Connected(n) <=> cache[i][2] \in Connected(n)
<1>1. \A i \in DOMAIN cache : cache[i][1] \in Tokens /\ cache[i][2] \in Tokens
  <2>1. \A i \in DOMAIN cache : cache[i] \in Tokens \X Tokens
    OBVIOUS
  <2>2. QED BY <2>1
<1>2. QED BY <1>1 DEF Connected

LEMMA ConnectedLeast ==
    ASSUME NEW n \in Tokens, NEW set \in SUBSET Tokens, n \in set,
           \A i \in DOMAIN cache : cache[i][1] \in set <=> cache[i][2] \in set
    PROVE  Connected(n) \subseteq set
BY DEF Connected

\* A sequence of elements of a set is one of any larger set.
LEMMA SeqOfMore ==
    ASSUME NEW S, NEW T, S \subseteq T, NEW s \in Seq(S)
    PROVE  s \in Seq(T)
<1>1. Len(s) \in Nat /\ s \in [1 .. Len(s) -> T]
  OBVIOUS
<1>2. QED BY <1>1, SeqDef

LEMMA SizeIsNat ==
    ASSUME NEW n \in Nat, NEW S \in SUBSET (1 .. n)
    PROVE  Cardinality(S) \in Nat
<1>1. IsFiniteSet(1 .. n)
  BY FS_Interval
<1>2. IsFiniteSet(S)
  BY <1>1, FS_Subset
<1>3. QED BY <1>2, FS_CardinalityType

\* A set of numbers has its least.
LEMMA LeastOf ==
    ASSUME NEW T \in SUBSET Nat, T # {}
    PROVE  \E n \in T : \A m \in T : n <= m
<1> DEFINE R == OpToRel(<, Nat)
<1>1. IsWellFoundedOn(R, Nat)
  BY NatLessThanWellFounded
<1> HIDE DEF R
<1>2. PICK n \in T : \A m \in T : <<m, n>> \notin R
  BY <1>1, WFMin
<1> USE DEF R
<1>3. \A m \in T : ~(m < n)
  BY <1>2 DEF OpToRel
<1>4. QED BY <1>3

LEMMA TombstoneIn ==
    ASSUME ConstantsOK, NEW S, NEW ts \in Seq(S), NEW n \in S
    PROVE  Tombstone(ts, n) \in Seq(S)
<1> DEFINE kept == IF Len(ts) >= TombMax THEN Tail(ts) ELSE ts
           k == CHOOSE i \in DOMAIN kept : kept[i] = n
           rest == IF n \in Range(kept) THEN RemoveAt(kept, k) ELSE kept
<1>1. kept \in Seq(S)
  BY DEF ConstantsOK
<1>2. Tombstone(ts, n) = Append(rest, n)
  BY DEF Tombstone
<1> HIDE DEF kept
<1>3. n \in Range(kept) => k \in DOMAIN kept
  BY DEF Range
<1> HIDE DEF k
<1>4. CASE n \in Range(kept)
  <2>1. k \in 1 .. Len(kept)
    BY <1>1, <1>3, <1>4
  <2>2. SubSeq(kept, 1, k - 1) \in Seq(S) /\ SubSeq(kept, k + 1, Len(kept)) \in Seq(S)
    BY <1>1, <2>1
  <2>3. rest \in Seq(S)
    BY <1>4, <2>2, ConcatProperties DEF RemoveAt
  <2>4. QED BY <1>2, <2>3
<1>5. CASE n \notin Range(kept)
  BY <1>1, <1>2, <1>5
<1>6. QED BY <1>4, <1>5

\* The tombstones of some tokens are of these tokens or were there before: by induction on
\* the tokens taken so far, first that the tombstones after each are defined, then of what.
LEMMA TombstonesIn ==
    ASSUME ConstantsOK, NEW S, tombs \in Seq(S), NEW tokens \in Seq(S)
    PROVE  Tombstones(tokens) \in Seq(S)
<1>1. PICK len \in Nat : len = Len(tokens)
  OBVIOUS
<1>2. \A i \in 1 .. len : tokens[i] \in S
  BY <1>1
<1> DEFINE Runs(f, k) ==
        /\ f \in [0 .. k -> Seq(S)]
        /\ f[0] = tombs
        /\ \A i \in 1 .. k : f[i] = Tombstone(f[i - 1], tokens[i])
<1>3. \E f : Runs(f, len)
  <2> DEFINE Bad == {k \in 0 .. len : ~\E f : Runs(f, k)}
  <2>1. ASSUME Bad # {} PROVE FALSE
    <3> HIDE DEF Runs
    <3>0. Bad \in SUBSET Nat /\ \A k \in Bad : k \in 0 .. len /\ ~\E f : Runs(f, k)
      OBVIOUS
    <3>a. \A k \in 0 .. len : k \notin Bad => \E f : Runs(f, k)
      OBVIOUS
    <3> HIDE DEF Bad
    <3>1. PICK k \in Bad : \A j \in Bad : k <= j
      BY <2>1, <3>0, LeastOf
    <3> USE DEF Runs
    <3>2. k # 0
      <4>1. Runs([i \in 0 .. 0 |-> tombs], 0)
        OBVIOUS
      <4> HIDE DEF Runs
      <4>2. QED BY <3>0, <4>1
    <3>3. k - 1 \in 0 .. len /\ k \in 1 .. len /\ k - 1 \notin Bad
      BY <3>0, <3>1, <3>2
    <3>4. PICK f : Runs(f, k - 1)
      BY <3>3, <3>a
    <3> DEFINE g == [i \in 0 .. k |-> IF i = k THEN Tombstone(f[k - 1], tokens[k]) ELSE f[i]]
    <3>5. Tombstone(f[k - 1], tokens[k]) \in Seq(S)
      <4>1. f[k - 1] \in Seq(S) /\ tokens[k] \in S
        BY <1>2, <3>3, <3>4
      <4>2. QED BY <4>1, TombstoneIn
    <3>6. g \in [0 .. k -> Seq(S)] /\ g[0] = tombs
      BY <3>3, <3>4, <3>5
    <3>7. ASSUME NEW i \in 1 .. k PROVE g[i] = Tombstone(g[i - 1], tokens[i])
      <4>1. g[i - 1] = f[i - 1]
        BY <3>3
      <4>2. CASE i = k
        BY <4>1, <4>2
      <4>3. CASE i # k
        BY <3>3, <3>4, <4>1, <4>3
      <4>4. QED BY <4>2, <4>3
    <3> HIDE DEF g
    <3>8. Runs(g, k)
      BY <3>6, <3>7
    <3> HIDE DEF Runs
    <3>9. QED BY <3>0, <3>8
  <2> HIDE DEF Runs
  <2>2. len \notin Bad
    BY <2>1
  <2>3. QED BY <2>2
<1> DEFINE Fits(f) == f = [i \in 0 .. Len(tokens) |->
                              IF i = 0 THEN tombs ELSE Tombstone(f[i - 1], tokens[i])]
           after == CHOOSE f : Fits(f)
<1>4. Tombstones(tokens) = after[Len(tokens)]
  BY DEF Tombstones
<1>5. Fits(after)
  <2>1. PICK f : Runs(f, len)
    BY <1>3
  <2>2. Fits(f)
    BY <1>1, <2>1
  <2>3. QED BY <2>2
<1> HIDE DEF after
<1>6. \A i \in 0 .. len : after[i] \in Seq(S)
  <2> DEFINE Bad == {i \in 0 .. len : after[i] \notin Seq(S)}
  <2>1. ASSUME Bad # {} PROVE FALSE
    <3>0. Bad \in SUBSET Nat
      OBVIOUS
    <3>1. PICK i \in Bad : \A j \in Bad : i <= j
      <4> HIDE DEF Bad
      <4>1. QED BY <2>1, <3>0, LeastOf
    <3>2. i # 0
      BY <1>1, <1>5, <3>1
    <3>3. i - 1 \in 0 .. len /\ i \in 1 .. len /\ after[i - 1] \in Seq(S)
      BY <3>1, <3>2
    <3>4. after[i] = Tombstone(after[i - 1], tokens[i])
      BY <1>1, <1>5, <3>3
    <3>5. QED BY <1>2, <3>1, <3>3, <3>4, TombstoneIn
  <2>2. QED BY <2>1
<1>7. QED BY <1>1, <1>4, <1>6

----------------------------------------------------------------------------
(* What a step leaves as it is.                                            *)

LEMMA Types ==
    ASSUME ConstantsOK, StateType
    PROVE  /\ last \in Nat /\ MaxToken \in Int /\ last <= MaxToken /\ Made \subseteq Tokens
           /\ \A r \in Range(cache) : r[1] \in Made /\ r[2] \in Made
           /\ \A n : Cached(n) <=> \E r \in Range(cache) : r[1] = n
           /\ Buried \subseteq Made
<1>1. last \in Nat /\ MaxToken \in Int /\ last <= MaxToken
  BY DEF ConstantsOK, StateType, Tokens
<1>2. \A i \in DOMAIN cache : cache[i] \in Made \X Made
  BY DEF StateType
<1>3. Range(cache) \subseteq Made \X Made
  BY <1>2 DEF Range
<1>4. \A n : Cached(n) <=> \E r \in Range(cache) : r[1] = n
  BY DEF Range, Cached
<1>5. \A i \in DOMAIN tombs : tombs[i] \in Made
  BY DEF StateType
<1>6. QED BY <1>1, <1>3, <1>4, <1>5 DEF Made, Tokens, Buried, Range

LEMMA StaysWell ==
    ASSUME ConstantsOK, AuthInv, NEW q \in Procs, NEW r \in Locals, Well(q, r),
           last' \in Nat, last <= last', \A n \in Made : login'[n] = login[n],
           ended \subseteq ended', forgot \subseteq forgot', faults' \in Nat, faults <= faults',
           r.pc \in Exclusive => gate'[r.tok] = q,
           r.pc = "post" => ~Cached(r.tok)'
    PROVE  Well(q, r)'
<1>1. last \in Nat /\ faults \in Nat /\ forgot \subseteq Made
  BY Types DEF AuthInv, StateType
<1>2. r.tok \in 0 .. last /\ r.got \in 0 .. last
  BY DEF Well
<1>3. r.tok \in 0 .. last' /\ r.got \in 0 .. last'
  BY <1>1, <1>2
<1>4. \A n \in 0 .. last : n # NoToken => login'[n] = login[n]
  BY <1>1 DEF Made, NoToken
<1>5. \A s : ForgotOf(s) => ForgotOf(s)'
  BY <1>1 DEF ForgotOf
<1>6. r.pc \in {"store", "handler"} => r.tok # NoToken
  BY DEF Well, Carrying
<1>7. r.pc \in {"store", "handler"} => r.got # NoToken /\ login'[r.got] = login'[r.tok]
  BY <1>2, <1>4, <1>6 DEF Well
<1>8. r.late => r.tok # NoToken /\ login'[r.tok] \in ended'
  BY <1>2, <1>4 DEF Well
<1>9. r.late /\ (r.served \/ r.pc = "handler") => ForgotOf(login[r.tok])'
  BY <1>2, <1>4, <1>5, <1>8 DEF Well
<1>10. r.pc = "respond" /\ r.set = "clear" =>
          r.tok # NoToken /\ (login'[r.tok] \in ended' \/ faults' > 0 \/ forgot' # {})
  <2>1. faults > 0 => faults' > 0
    BY <1>1
  <2>2. QED BY <1>2, <1>4, <2>1 DEF Well
<1>11. QED BY <1>3, <1>7, <1>8, <1>9, <1>10 DEF Well

\* A token of sign-in s is forgotten after the step.
LostOf(s) == \E n \in forgot' : login[n] = s

\* While no token is issued, a sign-in stays linked if each rotation of it stays, or goes with
\* its end or with a token forgotten.
LEMMA StaysLinked ==
    ASSUME ConstantsOK, AuthInv, last' = last, login' = login,
           ended \subseteq ended', forgot \subseteq forgot',
           \A r \in Pairs : r \in Pairs' \/ login[r[1]] \in ended' \/ LostOf(login[r[1]])
    PROVE  Linked'
<1>1. SUFFICES ASSUME NEW s \in (Made \ ended)', ~ForgotOf(s)', NEW set \in SUBSET Tokens,
                      Closed(set, s)'
               PROVE  \A m, n \in Made : login[m] = s /\ login[n] = s /\ m \in set => n \in set
  BY DEF Linked, Made
<1>2. s \in Made \ ended /\ ~ForgotOf(s)
  BY <1>1 DEF Made, ForgotOf
<1>3. \A r \in Pairs : login[r[1]] = s => r \in Pairs'
  BY <1>1 DEF LostOf, ForgotOf
<1>4. Closed(set, s)
  BY <1>1, <1>3 DEF Closed
<1>5. QED BY <1>2, <1>4 DEF AuthInv, Linked

\* While nobody logs out and no token is issued, a sign-in that ended stays so.
LEMMA StaysGone ==
    ASSUME ConstantsOK, AuthInv, last' = last, login' = login, ended' = ended, forgot \subseteq forgot',
           Buried \subseteq Buried' \cup forgot',
           \A p \in Storing : req[p].tok \in Buried =>
               \/ p \in Storing' /\ req'[p].tok = req[p].tok /\ req'[p].got = req[p].got
               \/ LostOf(login[req[p].got])
    PROVE  EndedGone'
<1>1. SUFFICES ASSUME NEW s \in ended, ~ForgotOf(s)', NEW n \in Made, login[n] = s
               PROVE  n \in Buried' \/ \E p \in Storing' : req'[p].got = n /\ req'[p].tok \in Buried'
  BY DEF EndedGone, Made
<1>2. ~ForgotOf(s)
  BY <1>1 DEF ForgotOf
<1>3. n \notin forgot'
  BY <1>1 DEF ForgotOf
<1>4. CASE n \in Buried
  BY <1>3, <1>4
<1>5. CASE n \notin Buried
  <2>1. PICK p \in Storing : req[p].got = n /\ req[p].tok \in Buried
    BY <1>1, <1>2, <1>5 DEF AuthInv, EndedGone
  <2>0. \A k \in forgot' : login[k] # s
    BY <1>1 DEF ForgotOf
  <2>2. p \in Storing' /\ req'[p].tok = req[p].tok /\ req'[p].got = req[p].got
    BY <1>1, <2>1, <2>0 DEF LostOf
  <2>3. login[req[p].tok] = s
    <3>1. Well(p, req[p])
      BY DEF AuthInv, AllWell, Storing
    <3>2. QED BY <1>1, <2>1, <3>1 DEF Well, Storing
  <2>4. req[p].tok \notin forgot'
    BY <1>1, <2>3 DEF ForgotOf
  <2>5. QED BY <2>1, <2>2, <2>4
<1>6. QED BY <1>4, <1>5

----------------------------------------------------------------------------
(* A request goes on.                                                      *)

\* Request p goes on, stores nothing, and forgets the exchange it has made, if any.
LEMMA GoesOn ==
    ASSUME ConstantsOK, AuthInv, NEW p \in Procs, NEW n \in Locals,
           req' = [req EXCEPT ![p] = n], n.pc # "store",
           UNCHANGED <<provider, cache, tombs, revoking, ended>>,
           forgot \subseteq forgot', forgot' \subseteq Made,
           req[p].pc = "store" => req[p].tok \in forgot',
           faults' \in Nat, faults <= faults',
           jar' \in 0 .. last, Open(jar', p), Open(n.tok, p), Open(n.got, p),
           gate' \in [Tokens -> Procs \cup {NoOne}],
           \A t \in Tokens : gate[t] \notin {p, NoOne} => gate'[t] = gate[t],
           Well(p, n)'
    PROVE  AuthInv'
<1>1. req' \in [Procs -> Locals] /\ req'[p] = n /\ \A q \in Procs \ {p} : req'[q] = req[q]
  BY DEF AuthInv, StateType
<1>2. /\ last' = last /\ login' = login /\ live' = live /\ cache' = cache /\ tombs' = tombs
      /\ Made' = Made /\ Buried' = Buried /\ \A t : Cached(t)' <=> Cached(t)
  BY DEF provider, Made, Buried, Cached
<1>3. Storing' = Storing \ {p}
  BY <1>1 DEF Storing
<1>4. StateType'
  BY <1>1, <1>2 DEF AuthInv, StateType
<1>5. AllWell'
  <2>1. SUFFICES ASSUME NEW q \in Procs \ {p} PROVE Well(q, req[q])'
    BY <1>1 DEF AllWell
  <2>2. Well(q, req[q]) /\ req[q] \in Locals /\ req'[q] = req[q]
    BY <1>1 DEF AuthInv, AllWell, StateType
  <2>3. PICK r \in Locals : r = req[q]
    BY <2>2
  <2>4. r.pc \in Exclusive => gate'[r.tok] = q
    <3>1. r.pc \in Exclusive => gate[r.tok] = q /\ r.tok \in Tokens
      BY <2>2, <2>3, Types DEF AuthInv, Well, Made, Carrying, Exclusive, NoToken
    <3>2. QED BY <3>1 DEF ConstantsOK
  <2>5. last' \in Nat /\ last <= last' /\ faults' \in Nat
    BY <1>2, Types DEF AuthInv
  <2>6. Well(q, r)'
    BY <1>2, <2>2, <2>3, <2>4, <2>5, StaysWell DEF Well
  <2>7. QED BY <2>2, <2>3, <2>6
<1>6. Accounted'
  <2>1. SUFFICES ASSUME NEW t \in Made, t \notin live \cup forgot' \cup Buried, ~Cached(t)
                 PROVE  \E q \in Storing' : req'[q].tok = t
    BY <1>2 DEF Accounted
  <2>2. PICK q \in Storing : req[q].tok = t
    BY <2>1 DEF AuthInv, Accounted
  <2>3. q # p
    BY <2>1, <2>2 DEF Storing
  <2>4. QED BY <1>1, <1>3, <2>2, <2>3 DEF Storing
<1>7. Logins'
  BY <1>2 DEF AuthInv, Logins
<1>8. Secret'
  <2>1. SUFFICES ASSUME NEW q \in Storing \ {p}
                 PROVE  LET g == req[q].got IN
                        /\ jar' # g
                        /\ \A r \in Range(cache) : r[1] # g /\ r[2] # g
                        /\ \A o \in Procs : req'[o].tok # g /\ (o # q => req'[o].got # g)
    BY <1>1, <1>2, <1>3 DEF Secret, Storing
  <2>2. /\ \A r \in Range(cache) : r[1] # req[q].got /\ r[2] # req[q].got
        /\ \A o \in Procs : req[o].tok # req[q].got /\ (o # q => req[o].got # req[q].got)
    BY DEF AuthInv, Secret
  <2>3. jar' # req[q].got /\ n.tok # req[q].got /\ n.got # req[q].got
    BY DEF Open
  <2>4. QED BY <1>1, <2>2, <2>3
<1>9. Linked'
  <2>1. ASSUME NEW r \in Pairs PROVE r \in Pairs' \/ LostOf(login[r[1]])
    <3>1. CASE r \in Range(cache)
      BY <1>2, <3>1 DEF Pairs
    <3>2. CASE r \notin Range(cache)
      <4>1. PICK q \in Storing : r = <<req[q].tok, req[q].got>>
        BY <3>2 DEF Pairs
      <4>2. CASE q = p
        BY <1>2, <4>1, <4>2 DEF LostOf, Storing
      <4>3. CASE q # p
        BY <1>1, <1>3, <4>1, <4>3 DEF Pairs, Storing
      <4>4. QED BY <4>2, <4>3
    <3>3. QED BY <3>1, <3>2
  <2>2. QED BY <1>2, <2>1, StaysLinked
<1>10. EndedGone'
  <2>1. ASSUME NEW q \in Storing
        PROVE  \/ q \in Storing' /\ req'[q].tok = req[q].tok /\ req'[q].got = req[q].got
               \/ LostOf(login[req[q].got])
    <3>1. CASE q = p
      <4>1. Well(p, req[p]) /\ req[p].pc = "store"
        BY <3>1 DEF AuthInv, AllWell, Storing
      <4>2. login[req[p].got] = login[req[p].tok] /\ req[p].tok \in forgot'
        BY <4>1 DEF Well
      <4>3. QED BY <3>1, <4>2 DEF LostOf
    <3>2. CASE q # p
      BY <1>1, <1>3, <3>2 DEF Storing
    <3>3. QED BY <3>1, <3>2
  <2>2. QED BY <1>2, <2>1, StaysGone
<1>11. QED BY <1>4, <1>5, <1>6, <1>7, <1>8, <1>9, <1>10 DEF AuthInv

LEMMA OpenTokens ==
    ASSUME ConstantsOK, AuthInv, NEW p \in Procs
    PROVE  /\ Open(NoToken, p) /\ Open(jar, p)
           /\ Open(req[p].tok, p) /\ Open(req[p].got, p)
           /\ \A r \in Range(cache) : Open(r[1], p) /\ Open(r[2], p)
<1>1. Open(NoToken, p)
  <2>1. \A q \in Storing : Well(q, req[q]) /\ req[q].pc = "store"
    BY DEF AuthInv, AllWell, Storing
  <2>2. QED BY <2>1 DEF Open, Well
<1>2. QED BY <1>1 DEF AuthInv, Secret, Open

LEMMA GateKept ==
    ASSUME StateType, NEW p \in Procs, Release(p) \/ gate' = gate
    PROVE  /\ gate' \in [Tokens -> Procs \cup {NoOne}]
           /\ \A t \in Tokens : gate[t] \notin {p, NoOne} => gate'[t] = gate[t]
BY DEF StateType, Release

\* Request p is refused, for a cause.
LEMMA Refuses ==
    ASSUME ConstantsOK, AuthInv, NEW p \in Procs, req[p].pc \in Carrying, Refuse(p),
           UNCHANGED <<jar, provider, cache, tombs, revoking, ended>>,
           forgot \subseteq forgot', forgot' \subseteq Made,
           req[p].pc = "store" => req[p].tok \in forgot',
           faults' \in Nat, faults <= faults',
           Release(p) \/ gate' = gate,
           login[req[p].tok] \in ended \/ faults' > 0 \/ forgot' # {}
    PROVE  AuthInv'
<1>1. req[p] \in Locals /\ Well(p, req[p])
  BY DEF AuthInv, StateType, AllWell
<1>2. PICK n \in Locals : /\ req' = [req EXCEPT ![p] = n]
                          /\ n.tok = req[p].tok /\ n.got = req[p].got /\ n.late = req[p].late
                          /\ n.pc = "respond" /\ n.set = "clear" /\ n.served = FALSE
  <2> DEFINE n == [req[p] EXCEPT !.pc = "respond", !.set = "clear", !.served = FALSE]
  <2>1. n \in Locals
    BY <1>1 DEF Locals, Steps
  <2>2. /\ n.tok = req[p].tok /\ n.got = req[p].got /\ n.late = req[p].late
        /\ n.pc = "respond" /\ n.set = "clear" /\ n.served = FALSE
    BY <1>1 DEF Locals
  <2>3. req' = [req EXCEPT ![p] = n]
    BY DEF Refuse, Respond, Become
  <2>4. QED BY <2>1, <2>2, <2>3
<1>3. n.tok # NoToken
  BY <1>1, <1>2 DEF Well
<1>4. Well(p, n)'
  BY <1>1, <1>2, <1>3 DEF Well, Carrying, Exclusive, provider
<1>5. jar' \in 0 .. last /\ Open(jar', p) /\ Open(n.tok, p) /\ Open(n.got, p)
  BY <1>2, OpenTokens DEF AuthInv, StateType
<1>6. /\ gate' \in [Tokens -> Procs \cup {NoOne}]
      /\ \A t \in Tokens : gate[t] \notin {p, NoOne} => gate'[t] = gate[t]
  BY GateKept DEF AuthInv
<1>7. n.pc # "store"
  BY <1>2
<1>8. QED BY <1>2, <1>4, <1>5, <1>6, <1>7, GoesOn

\* Request p goes on to a label, its tokens and gate its own.
LEMMA GoesTo ==
    ASSUME ConstantsOK, AuthInv, NEW p \in Procs, NEW label \in Steps, Goto(p, label),
           req[p].pc \in Carrying, label \notin {"store", "handler", "respond"},
           UNCHANGED <<jar, provider, cache, tombs, revoking, ended, forgot, faults>>,
           req[p].pc # "store",
           gate' \in [Tokens -> Procs \cup {NoOne}],
           \A t \in Tokens : gate[t] \notin {p, NoOne} => gate'[t] = gate[t],
           label \in Exclusive => gate'[req[p].tok] = p,
           label = "post" => ~Cached(req[p].tok)
    PROVE  AuthInv'
<1>1. req[p] \in Locals /\ Well(p, req[p])
  BY DEF AuthInv, StateType, AllWell
<1>2. PICK n \in Locals : /\ req' = [req EXCEPT ![p] = n]
                          /\ n.tok = req[p].tok /\ n.got = req[p].got /\ n.late = req[p].late
                          /\ n.pc = label /\ n.set = req[p].set /\ n.served = req[p].served
  <2> DEFINE n == [req[p] EXCEPT !.pc = label]
  <2>1. n \in Locals
    BY <1>1 DEF Locals
  <2>2. /\ n.tok = req[p].tok /\ n.got = req[p].got /\ n.late = req[p].late
        /\ n.pc = label /\ n.set = req[p].set /\ n.served = req[p].served
    BY <1>1 DEF Locals
  <2>3. req' = [req EXCEPT ![p] = n]
    BY DEF Goto, Become
  <2>4. QED BY <2>1, <2>2, <2>3
<1>3. n.tok # NoToken
  BY <1>1, <1>2 DEF Well
<1>4. Cached(n.tok)' <=> Cached(req[p].tok)
  BY <1>2 DEF Cached
<1>5. Well(p, n)'
  BY <1>1, <1>2, <1>3, <1>4 DEF Well, ForgotOf, provider
<1>6. jar' \in 0 .. last /\ Open(jar', p) /\ Open(n.tok, p) /\ Open(n.got, p)
  BY <1>2, OpenTokens DEF AuthInv, StateType
<1>7. n.pc # "store" /\ forgot' \subseteq Made /\ faults' \in Nat /\ faults <= faults'
  BY <1>2 DEF AuthInv, StateType
<1>8. QED BY <1>2, <1>5, <1>6, <1>7, GoesOn

----------------------------------------------------------------------------
(* The steps.                                                              *)

LEMMA InitAuth == ConstantsOK /\ Init => AuthInv
<1> SUFFICES ASSUME ConstantsOK, Init PROVE AuthInv
  OBVIOUS
<1>1. 1 \in Tokens /\ Made = {1}
  BY DEF ConstantsOK, Tokens, Init, Made
<1>2. Idle \in Locals /\ Idle.pc = "idle" /\ Idle.tok = 0 /\ Idle.got = 0 /\ ~Idle.late
      /\ Idle.set = "keep"
  BY DEF Idle, Locals, NoToken
<1>3. Range(cache) = {} /\ Buried = {} /\ \A n : ~Cached(n)
  BY DEF Init, Range, Buried, Cached
<1>4. Storing = {} /\ \A p \in Procs : req[p] = Idle
  BY <1>2 DEF Init, Storing
<1>5. StateType
  BY <1>1, <1>2, <1>3 DEF Init, StateType, NoToken
<1>6. AllWell
  BY <1>2, <1>4 DEF Init, AllWell, Well, Carrying, Exclusive
<1>7. Accounted /\ Logins /\ Secret /\ EndedGone
  BY <1>1, <1>3, <1>4 DEF Init, Accounted, Logins, Secret, EndedGone
<1>8. Linked
  BY <1>1 DEF Linked
<1>9. QED BY <1>5, <1>6, <1>7, <1>8 DEF AuthInv

LEMMA SendKeeps ==
    ASSUME ConstantsOK, AuthInv, NEW p \in Procs, NEW label \in {"check", "code", "logout_gate"},
           Send(p, label), label # "code" => jar # NoToken
    PROVE  AuthInv'
<1>1. jar \in 0 .. last /\ last \in Nat
  BY Types DEF AuthInv, StateType
<1>2. PICK n \in Locals : /\ req' = [req EXCEPT ![p] = n]
                          /\ n.tok = jar /\ n.got = NoToken /\ n.set = "keep" /\ ~n.served
                          /\ n.pc = label
                          /\ n.late => jar # NoToken /\ login[jar] \in ended
  <2>0. PICK late \in BOOLEAN : late = (jar # NoToken /\ login[jar] \in ended)
    OBVIOUS
  <2> DEFINE n == [Idle EXCEPT !.pc = label, !.tok = jar, !.late = late]
  <2>1. n \in Locals
    <3>1. label \in Steps /\ jar \in Nat /\ NoToken \in Nat
      BY <1>1 DEF Steps, NoToken
    <3>2. PICK idle \in Locals : idle = Idle
      BY DEF Idle, Locals, NoToken
    <3>3. n = [idle EXCEPT !.pc = label, !.tok = jar, !.late = late]
      BY <3>2
    <3>4. QED BY <3>1, <3>3 DEF Locals
  <2>2. /\ n.tok = jar /\ n.got = NoToken /\ n.set = "keep" /\ ~n.served /\ n.pc = label
        /\ n.late => jar # NoToken /\ login[jar] \in ended
    BY <2>0 DEF Idle
  <2>3. req' = [req EXCEPT ![p] = n]
    BY <2>0 DEF Send, Become
  <2>4. QED BY <2>1, <2>2, <2>3
<1>3. req[p].pc # "store"
  BY DEF Send, Idle
<1>4. UNCHANGED <<jar, last, login, gate, cache, ended, forgot, faults>>
  BY DEF Send, provider, manager
<1>5. Well(p, n)'
  <2>1. /\ n.pc \notin Exclusive \cup {"post", "store", "handler", "respond"} /\ ~n.served
        /\ n.tok \in 0 .. last' /\ n.got \in 0 .. last'
        /\ n.pc \in Carrying => n.tok # NoToken
        /\ n.late => n.tok # NoToken /\ login'[n.tok] \in ended'
    BY <1>1, <1>2, <1>4 DEF Carrying, Exclusive, NoToken
  <2>2. QED BY <2>1 DEF Well
<1>6. Open(jar', p) /\ Open(n.tok, p) /\ Open(n.got, p)
  BY <1>2, <1>4, OpenTokens
<1>7. n.pc # "store" /\ forgot' \subseteq Made /\ faults' \in Nat /\ faults <= faults'
  BY <1>2, <1>4 DEF AuthInv, StateType
<1>8. /\ gate' \in [Tokens -> Procs \cup {NoOne}]
      /\ \A t \in Tokens : gate[t] \notin {p, NoOne} => gate'[t] = gate[t]
  BY <1>4, GateKept DEF AuthInv
<1>9. UNCHANGED <<provider, cache, tombs, revoking, ended>> /\ forgot \subseteq forgot'
      /\ jar' \in 0 .. last
  BY <1>1, <1>4 DEF Send, manager
<1>10. QED BY <1>2, <1>3, <1>5, <1>6, <1>7, <1>8, <1>9, GoesOn

\* Whoever comes late and finds no tombstone has a sign-in of which a token was forgotten.
LEMMA LateMissed ==
    ASSUME AuthInv, NEW p \in Procs, req[p].late, req[p].tok \notin Buried
    PROVE  ForgotOf(login[req[p].tok])
<1>1. Well(p, req[p])
  BY DEF AuthInv, AllWell
<1>2. req[p].tok \in Made /\ login[req[p].tok] \in ended
  BY <1>1 DEF Well, Made, NoToken
<1>3. \A q \in Storing : req[q].got # req[p].tok
  BY DEF AuthInv, Secret
<1>4. QED BY <1>2, <1>3 DEF AuthInv, EndedGone

\* Request p is answered, and nothing is forgotten.
LEMMA Responds ==
    ASSUME ConstantsOK, AuthInv, NEW p \in Procs, req[p].pc # "store",
           NEW set \in {"keep", "clear", "write"}, NEW served \in BOOLEAN,
           Respond(p, set, served),
           UNCHANGED <<jar, provider, manager, revoking, ended, forgot>>,
           faults' \in Nat, faults <= faults',
           req[p].late /\ served => ForgotOf(login[req[p].tok]),
           set = "clear" => req[p].tok # NoToken /\ login[req[p].tok] \in ended
    PROVE  AuthInv'
<1>1. req[p] \in Locals /\ Well(p, req[p])
  BY DEF AuthInv, StateType, AllWell
<1>2. PICK n \in Locals : /\ req' = [req EXCEPT ![p] = n]
                          /\ n.tok = req[p].tok /\ n.got = req[p].got /\ n.late = req[p].late
                          /\ n.pc = "respond" /\ n.set = set /\ n.served = served
  <2> DEFINE n == [req[p] EXCEPT !.pc = "respond", !.set = set, !.served = served]
  <2>1. n \in Locals
    BY <1>1 DEF Locals, Steps
  <2>2. /\ n.tok = req[p].tok /\ n.got = req[p].got /\ n.late = req[p].late
        /\ n.pc = "respond" /\ n.set = set /\ n.served = served
    BY <1>1 DEF Locals
  <2>3. req' = [req EXCEPT ![p] = n]
    BY DEF Respond, Become
  <2>4. QED BY <2>1, <2>2, <2>3
<1>3. UNCHANGED <<last, login, live, cache, tombs, gate>>
  BY DEF provider, manager
<1>4. Well(p, n)'
  BY <1>1, <1>2, <1>3 DEF Well, Carrying, Exclusive, ForgotOf
<1>5. jar' \in 0 .. last /\ Open(jar', p) /\ Open(n.tok, p) /\ Open(n.got, p)
  BY <1>2, OpenTokens DEF AuthInv, StateType
<1>6. /\ gate' \in [Tokens -> Procs \cup {NoOne}]
      /\ \A t \in Tokens : gate[t] \notin {p, NoOne} => gate'[t] = gate[t]
  BY <1>3, GateKept DEF AuthInv
<1>7. n.pc # "store" /\ forgot' \subseteq Made /\ forgot \subseteq forgot'
  BY <1>2 DEF AuthInv, StateType
<1>8. UNCHANGED <<provider, cache, tombs, revoking, ended>>
  BY <1>3
<1>9. QED BY <1>2, <1>4, <1>5, <1>6, <1>7, <1>8, GoesOn

\* Request p is over.
LEMMA Ends ==
    ASSUME ConstantsOK, AuthInv, NEW p \in Procs, Become(p, Idle),
           UNCHANGED <<provider, cache, tombs, revoking, ended>>,
           forgot \subseteq forgot', forgot' \subseteq Made,
           req[p].pc = "store" => req[p].tok \in forgot',
           faults' \in Nat, faults <= faults',
           Release(p) \/ gate' = gate,
           jar' \in 0 .. last, Open(jar', p)
    PROVE  AuthInv'
<1>1. PICK n \in Locals : /\ n = Idle /\ n.tok = NoToken /\ n.got = NoToken
                          /\ n.pc = "idle" /\ ~n.late
  <2>1. Idle \in Locals
    BY DEF Idle, Locals, NoToken
  <2>2. Idle.tok = NoToken /\ Idle.got = NoToken /\ Idle.pc = "idle" /\ ~Idle.late
    BY DEF Idle
  <2>3. QED BY <2>1, <2>2
<1>2. req' = [req EXCEPT ![p] = n]
  BY <1>1 DEF Become
<1>3. Well(p, n)'
  <2>1. last' = last /\ last \in Nat
    BY Types DEF AuthInv, provider
  <2>2. QED BY <1>1, <2>1 DEF Well, Carrying, Exclusive, NoToken
<1>4. Open(n.tok, p) /\ Open(n.got, p)
  BY <1>1, OpenTokens
<1>5. /\ gate' \in [Tokens -> Procs \cup {NoOne}]
      /\ \A t \in Tokens : gate[t] \notin {p, NoOne} => gate'[t] = gate[t]
  BY GateKept DEF AuthInv
<1>6. n.pc # "store"
  BY <1>1
<1>7. QED BY <1>2, <1>3, <1>4, <1>5, <1>6, GoesOn

LEMMA CheckKeeps ==
    ASSUME ConstantsOK, AuthInv, NEW p \in Procs, Check(p)
    PROVE  AuthInv'
<1>1. /\ req[p].pc = "check" /\ req[p].pc \in Carrying /\ req[p].pc # "store"
      /\ UNCHANGED <<jar, provider, cache, tombs, gate, revoking, faults, ended, forgot>>
  BY DEF Check, Carrying, manager
<1>2. forgot' \subseteq Made /\ faults \in Nat /\ faults <= faults'
  BY <1>1 DEF AuthInv, StateType
<1>3. CASE req[p].tok \in Buried /\ Refuse(p)
  <2>1. login[req[p].tok] \in ended
    BY <1>3 DEF AuthInv, Logins
  <2>2. QED BY <1>1, <1>2, <1>3, <2>1, Refuses
<1>4. CASE req[p].tok \notin Buried \cup aged /\ Respond(p, "keep", TRUE)
  BY <1>1, <1>2, <1>4, LateMissed, Responds DEF manager
<1>5. CASE req[p].tok \in aged \ Buried /\ Goto(p, "gate")
  <2>1. "gate" \in Steps \ Exclusive
    BY DEF Steps, Exclusive
  <2>2. /\ gate' \in [Tokens -> Procs \cup {NoOne}]
        /\ \A t \in Tokens : gate[t] \notin {p, NoOne} => gate'[t] = gate[t]
    BY <1>1, GateKept DEF AuthInv
  <2>3. QED BY <1>1, <1>5, <2>1, <2>2, GoesTo
<1>6. QED BY <1>3, <1>4, <1>5 DEF Check

LEMMA TakeGateKeeps ==
    ASSUME ConstantsOK, AuthInv, NEW p \in Procs, TakeGate(p)
    PROVE  AuthInv'
<1>1. /\ req[p].pc \in Carrying /\ req[p].pc # "store"
      /\ UNCHANGED <<jar, provider, cache, tombs, revoking, faults, ended, forgot>>
  BY DEF TakeGate, Carrying
<1>2. req[p].tok \in Tokens
  <2>1. Well(p, req[p])
    BY DEF AuthInv, AllWell
  <2>2. QED BY <1>1, <2>1, Types DEF AuthInv, Well, Made, NoToken
<1>3. PICK label \in {"recheck", "bury"} : Goto(p, label)
  BY DEF TakeGate
<1>4. label \in Steps /\ label # "post" /\ label \notin {"store", "handler", "respond"}
  BY DEF Steps
<1>5. /\ gate' \in [Tokens -> Procs \cup {NoOne}] /\ gate'[req[p].tok] = p
      /\ \A t \in Tokens : gate[t] \notin {p, NoOne} => gate'[t] = gate[t]
  BY <1>2 DEF TakeGate, AuthInv, StateType
<1>6. QED BY <1>1, <1>3, <1>4, <1>5, GoesTo

LEMMA RecheckKeeps ==
    ASSUME ConstantsOK, AuthInv, NEW p \in Procs, Recheck(p)
    PROVE  AuthInv'
<1>1. /\ req[p].pc = "recheck" /\ req[p].pc \in Carrying /\ req[p].pc # "store"
      /\ UNCHANGED <<jar, provider, cache, tombs, revoking, faults, ended, forgot>>
  BY DEF Recheck, Carrying
<1>2. forgot' \subseteq Made /\ faults \in Nat /\ faults <= faults' /\ forgot \subseteq forgot'
  BY <1>1 DEF AuthInv, StateType
<1>3. req[p] \in Locals /\ Well(p, req[p])
  BY DEF AuthInv, StateType, AllWell
<1>4. CASE req[p].tok \in Buried /\ Refuse(p) /\ Release(p)
  <2>1. login[req[p].tok] \in ended
    BY <1>4 DEF AuthInv, Logins
  <2>2. QED BY <1>1, <1>2, <1>4, <2>1, Refuses
<1>5. CASE /\ req[p].tok \notin Buried /\ Cached(req[p].tok)
           /\ Become(p, [req[p] EXCEPT !.pc = "handler", !.got = Rotation(req[p].tok)])
           /\ Release(p)
  <2>1. PICK r \in Range(cache) : r[1] = req[p].tok /\ r[2] = Rotation(req[p].tok)
    BY <1>5, Types DEF AuthInv, Rotation
  <2>2. r[2] \in 1 .. last /\ login[r[2]] = login[req[p].tok] /\ last \in Nat
    BY <2>1, Types DEF AuthInv, Logins, Made
  <2>3. PICK n \in Locals : /\ req' = [req EXCEPT ![p] = n]
                            /\ n.tok = req[p].tok /\ n.got = r[2] /\ n.late = req[p].late
                            /\ n.pc = "handler"
    <3> DEFINE n == [req[p] EXCEPT !.pc = "handler", !.got = r[2]]
    <3>0. r[2] \in Nat
      BY <2>2
    <3>1. n \in Locals
      BY <1>3, <3>0 DEF Locals, Steps
    <3>2. n.tok = req[p].tok /\ n.got = r[2] /\ n.late = req[p].late /\ n.pc = "handler"
      BY <1>3 DEF Locals
    <3>3. req' = [req EXCEPT ![p] = n]
      BY <1>5, <2>1 DEF Become
    <3>4. QED BY <3>1, <3>2, <3>3
  <2>4. n.late => ForgotOf(login[n.tok])
    BY <1>5, <2>3, LateMissed
  <2>5. Well(p, n)'
    BY <1>1, <1>3, <2>2, <2>3, <2>4 DEF Well, Carrying, Exclusive, ForgotOf, provider, NoToken
  <2>6. jar' \in 0 .. last /\ Open(jar', p) /\ Open(n.tok, p) /\ Open(n.got, p)
    BY <1>1, <2>1, <2>3, OpenTokens DEF AuthInv, StateType
  <2>7. /\ gate' \in [Tokens -> Procs \cup {NoOne}]
        /\ \A t \in Tokens : gate[t] \notin {p, NoOne} => gate'[t] = gate[t]
    BY <1>5, GateKept DEF AuthInv
  <2>8. n.pc # "store" /\ faults' \in Nat
    BY <1>1, <1>2, <2>3
  <2>9. QED BY <1>1, <1>2, <2>3, <2>5, <2>6, <2>7, <2>8, GoesOn
<1>6. CASE req[p].tok \notin Buried /\ ~Cached(req[p].tok) /\ Goto(p, "post") /\ UNCHANGED gate
  <2>1. "post" \in Steps /\ "post" \notin {"store", "handler", "respond"}
    BY DEF Steps
  <2>2. /\ gate' \in [Tokens -> Procs \cup {NoOne}]
        /\ \A t \in Tokens : gate[t] \notin {p, NoOne} => gate'[t] = gate[t]
    BY <1>6, GateKept DEF AuthInv
  <2>3. gate'[req[p].tok] = p
    BY <1>1, <1>3, <1>6 DEF Well, Exclusive
  <2>4. QED BY <1>1, <1>6, <2>1, <2>2, <2>3, GoesTo
<1>7. QED BY <1>4, <1>5, <1>6 DEF Recheck

\* NoReplay: the token about to be sent is one that the provider takes, or that a memory
\* forgot, or that was buried.
LEMMA PostsKnown ==
    ASSUME AuthInv, NEW p \in Procs, req[p].pc = "post"
    PROVE  req[p].tok \in live \cup forgot \cup Buried
<1>1. Well(p, req[p]) /\ \A q \in Storing : Well(q, req[q])
  BY DEF AuthInv, AllWell, Storing
<1>2. req[p].tok \in Made /\ ~Cached(req[p].tok)
  BY <1>1 DEF Well, Carrying, Made, NoToken
<1>3. \A q \in Storing : req[q].tok # req[p].tok
  BY <1>1 DEF Well, Exclusive, Storing
<1>4. QED BY <1>2, <1>3 DEF AuthInv, Accounted


LEMMA CallFailsKeeps ==
    ASSUME ConstantsOK, AuthInv, NEW p \in Procs, CallFails(p)
    PROVE  AuthInv'
<1>1. /\ req[p].pc \in Carrying /\ Refuse(p)
      /\ UNCHANGED <<jar, provider, cache, tombs, revoking, ended>>
      /\ Release(p) \/ gate' = gate
      /\ forgot' = forgot \cup (IF req[p].pc = "store" THEN {req[p].tok} ELSE {})
  BY DEF CallFails, Carrying
<1>2. faults \in Nat /\ faults' = faults + 1
  BY DEF CallFails, Fault, AuthInv, StateType
<1>3. faults' \in Nat /\ faults <= faults' /\ faults' > 0
  BY <1>2
<1>4. req[p].tok \in Made
  <2>1. Well(p, req[p])
    BY DEF AuthInv, AllWell
  <2>2. QED BY <1>1, <2>1 DEF Well, Made, NoToken
<1>5. forgot' \subseteq Made /\ (req[p].pc = "store" => req[p].tok \in forgot')
  BY <1>1, <1>4 DEF AuthInv, StateType
<1>6. QED BY <1>1, <1>3, <1>5, Refuses

LEMMA HandleKeeps ==
    ASSUME ConstantsOK, AuthInv, NEW p \in Procs, Handle(p)
    PROVE  AuthInv'
<1>1. /\ req[p].pc = "handler" /\ Well(p, req[p])
      /\ UNCHANGED <<jar, provider, manager, revoking, faults, ended, forgot>>
  BY DEF Handle, AuthInv, AllWell
<1>2. PICK set \in {"keep", "clear", "write"} :
          Respond(p, set, TRUE) /\ (set = "clear" => req[p].got \in Buried)
  BY DEF Handle
<1>3. req[p].tok # NoToken /\ login[req[p].got] = login[req[p].tok]
  BY <1>1 DEF Well, Carrying
<1>4. set = "clear" => login[req[p].tok] \in ended
  BY <1>2, <1>3 DEF AuthInv, Logins
<1>5. req[p].late => ForgotOf(login[req[p].tok])
  BY <1>1 DEF Well
<1>6. req[p].pc # "store" /\ faults' \in Nat /\ faults <= faults'
  BY <1>1 DEF AuthInv, StateType
<1>7. QED BY <1>1, <1>2, <1>3, <1>4, <1>5, <1>6, Responds

LEMMA DeliverKeeps ==
    ASSUME ConstantsOK, AuthInv, NEW p \in Procs, Deliver(p)
    PROVE  AuthInv'
<1>1. /\ req[p].pc = "respond" /\ Become(p, Idle) /\ gate' = gate
      /\ UNCHANGED <<provider, cache, tombs, revoking, ended, forgot, faults>>
  BY DEF Deliver, manager
<1>2. Well(p, req[p]) /\ req[p] \in Locals /\ last \in Nat /\ jar \in 0 .. last
  BY Types DEF AuthInv, AllWell, StateType
<1>3. jar' \in {jar, NoToken, req[p].got}
  <2>1. req[p].set \in {"keep", "clear", "write"}
    BY <1>2 DEF Locals
  <2>2. QED BY <2>1 DEF Deliver
<1>4. jar' \in 0 .. last /\ Open(jar', p)
  BY <1>2, <1>3, OpenTokens DEF Well, NoToken
<1>5. /\ req[p].pc # "store" /\ forgot' \subseteq Made /\ forgot \subseteq forgot'
      /\ faults' \in Nat /\ faults <= faults'
  BY <1>1 DEF AuthInv, StateType
<1>6. QED BY <1>1, <1>4, <1>5, Ends

LEMMA DroppedKeeps ==
    ASSUME ConstantsOK, AuthInv, NEW p \in Procs, Dropped(p)
    PROVE  AuthInv'
<1>1. /\ Become(p, Idle) /\ Release(p) /\ jar' = jar
      /\ UNCHANGED <<provider, cache, tombs, revoking, ended>>
      /\ forgot' = forgot \cup (IF req[p].pc = "store" THEN {req[p].tok} ELSE {})
  BY DEF Dropped, Unstored
<1>2. faults \in Nat /\ faults' = faults + 1
  BY DEF Dropped, Fault, AuthInv, StateType
<1>3. faults' \in Nat /\ faults <= faults'
  BY <1>2
<1>4. req[p].pc = "store" => req[p].tok \in Made
  <2>1. Well(p, req[p])
    BY DEF AuthInv, AllWell
  <2>2. QED BY <2>1 DEF Well, Carrying, Made, NoToken
<1>5. /\ forgot' \subseteq Made /\ forgot \subseteq forgot'
      /\ req[p].pc = "store" => req[p].tok \in forgot'
  BY <1>1, <1>4 DEF AuthInv, StateType
<1>6. jar' \in 0 .. last /\ Open(jar', p)
  BY <1>1, OpenTokens DEF AuthInv, StateType
<1>7. QED BY <1>1, <1>3, <1>5, <1>6, Ends

LEMMA CodeRefusedKeeps ==
    ASSUME ConstantsOK, AuthInv, NEW p \in Procs, CodeRefused(p)
    PROVE  AuthInv'
<1>1. /\ req[p].pc = "code" /\ req[p].pc # "store" /\ Respond(p, "keep", FALSE)
      /\ UNCHANGED <<jar, provider, manager, revoking, ended, forgot>>
  BY DEF CodeRefused
<1>2. faults \in Nat /\ faults' = faults + 1
  BY DEF CodeRefused, Fault, AuthInv, StateType
<1>3. faults' \in Nat /\ faults <= faults'
  BY <1>2
<1>4. QED BY <1>1, <1>3, Responds

\* Tokens age, and the revocation tasks revoke what is forgotten or buried already.
LEMMA QuietKeeps ==
    ASSUME ConstantsOK, AuthInv,
           UNCHANGED <<jar, last, login, manager, req, faults, ended, forgot>>,
           revoking' \subseteq revoking, live' \subseteq live,
           live \subseteq live' \cup forgot \cup Buried
    PROVE  AuthInv'
<1>1. /\ cache' = cache /\ tombs' = tombs /\ gate' = gate /\ Buried' = Buried /\ Made' = Made
      /\ Storing' = Storing /\ \A n : Cached(n)' <=> Cached(n)
  BY DEF manager, Buried, Made, Storing, Cached
<1>2. StateType'
  BY <1>1 DEF AuthInv, StateType
<1>3. AllWell'
  BY <1>1 DEF AuthInv, AllWell, Well, ForgotOf
<1>4. Accounted'
  BY <1>1 DEF AuthInv, Accounted
<1>5. Logins' /\ Secret'
  BY <1>1 DEF AuthInv, Logins, Secret
<1>6. Pairs' = Pairs
  BY <1>1 DEF Pairs
<1>7. Linked' /\ EndedGone'
  BY <1>1, <1>6, StaysLinked, StaysGone
<1>8. QED BY <1>2, <1>3, <1>4, <1>5, <1>7 DEF AuthInv

LEMMA RevokeKeeps ==
    ASSUME ConstantsOK, AuthInv, NEW n \in Tokens, Revoke(n)
    PROVE  AuthInv'
<1>1. n \in forgot \cup Buried
  BY DEF Revoke, AuthInv, StateType
<1>2. QED BY <1>1, QuietKeeps DEF Revoke

LEMMA ExpireKeeps ==
    ASSUME ConstantsOK, AuthInv, Expire
    PROVE  AuthInv'
<1>1. /\ cache \in Seq(Made \X Made) /\ cache # << >> /\ cache' = Tail(cache)
      /\ UNCHANGED <<jar, last, login, live, tombs, gate, revoking, req, ended>>
      /\ forgot' = forgot \cup {cache[1][1]}
      /\ Made' = Made /\ Buried' = Buried /\ Storing' = Storing
  BY DEF Expire, AuthInv, StateType, provider, Made, Buried, Storing
<1>2. faults' \in Nat /\ faults <= faults'
  <2>1. faults \in Nat /\ faults' = faults + 1
    BY DEF Expire, Fault, AuthInv, StateType
  <2>2. QED BY <2>1
<1>3. cache' \in Seq(Made \X Made) /\ cache[1] \in Range(cache)
  BY <1>1 DEF Range
<1>4. Range(cache') \subseteq Range(cache) /\ Range(cache) \subseteq Range(cache') \cup {cache[1]}
  <2>1. \A i \in DOMAIN cache' : i + 1 \in DOMAIN cache /\ cache'[i] = cache[i + 1]
    BY <1>1
  <2>2. \A i \in DOMAIN cache : i # 1 => i - 1 \in DOMAIN cache' /\ cache[i] = cache'[i - 1]
    BY <1>1
  <2>3. QED BY <2>1, <2>2 DEF Range
<1>5. /\ cache[1][1] \in Made /\ \A n : Cached(n)' => Cached(n)
      /\ \A n : Cached(n) => Cached(n)' \/ n \in forgot'
  <2>1. \A n : Cached(n)' <=> \E r \in Range(cache') : r[1] = n
    BY DEF Cached, Range
  <2>2. QED BY <1>1, <1>3, <1>4, <2>1, Types DEF AuthInv
<1>6. StateType'
  BY <1>1, <1>2, <1>3, <1>5 DEF AuthInv, StateType
<1>7. AllWell'
  <2>1. SUFFICES ASSUME NEW q \in Procs PROVE Well(q, req[q])'
    BY <1>1 DEF AllWell
  <2>2. PICK r \in Locals : r = req[q] /\ r = req'[q]
    BY <1>1 DEF AuthInv, StateType
  <2>3. Well(q, r)
    BY <2>2 DEF AuthInv, AllWell
  <2>4. /\ r.pc \in Exclusive => gate'[r.tok] = q
        /\ r.pc = "post" => ~Cached(r.tok)'
    BY <1>1, <1>5, <2>3 DEF Well
  <2>5. last' \in Nat /\ last <= last'
    BY <1>1, Types DEF AuthInv
  <2>6. Well(q, r)'
    BY <1>1, <1>2, <2>3, <2>4, <2>5, StaysWell
  <2>7. QED BY <2>2, <2>6
<1>8. Accounted'
  BY <1>1, <1>5 DEF AuthInv, Accounted
<1>9. Logins' /\ Secret'
  BY <1>1, <1>4 DEF AuthInv, Logins, Secret
<1>10. Linked'
  <2>1. \A r \in Pairs : r \in Pairs' \/ LostOf(login[r[1]])
    BY <1>1, <1>4 DEF Pairs, LostOf
  <2>2. QED BY <1>1, <2>1, StaysLinked
<1>11. EndedGone'
  BY <1>1, StaysGone
<1>12. QED BY <1>6, <1>7, <1>8, <1>9, <1>10, <1>11 DEF AuthInv

LEMMA RestartKeeps ==
    ASSUME ConstantsOK, AuthInv, Restart
    PROVE  AuthInv'
<1>1. /\ cache' = << >> /\ tombs' = << >> /\ gate' = [n \in Tokens |-> NoOne] /\ revoking' = {}
      /\ UNCHANGED <<jar, last, login, live, ended>> /\ Made' = Made
      /\ forgot' = forgot \cup {r[1] : r \in Range(cache)} \cup Buried \cup Unstored(Procs)
  BY DEF Restart, provider, Made
<1>2. faults' \in Nat
  <2>1. faults \in Nat /\ faults' = faults + 1
    BY DEF Restart, Fault, AuthInv, StateType
  <2>2. QED BY <2>1
<1>3. PICK n \in Locals : /\ n = Idle /\ n.tok = NoToken /\ n.got = NoToken
                          /\ n.pc = "idle" /\ ~n.late
  <2>1. Idle \in Locals
    BY DEF Idle, Locals, NoToken
  <2>2. Idle.tok = NoToken /\ Idle.got = NoToken /\ Idle.pc = "idle" /\ ~Idle.late
    BY DEF Idle
  <2>3. QED BY <2>1, <2>2
<1>4. req' = [p \in Procs |-> n]
  BY <1>3 DEF Restart
<1>5. Storing' = {} /\ Range(cache') = {} /\ Buried' = {} /\ \A t : ~Cached(t)'
  BY <1>1, <1>3, <1>4 DEF Storing, Range, Buried, Cached
<1>6. \A p \in Storing : /\ req[p].tok \in forgot' /\ req[p].tok \in Made
                         /\ login[req[p].got] = login[req[p].tok]
  <2>1. \A p \in Storing : Well(p, req[p]) /\ req[p].pc = "store"
    BY DEF AuthInv, AllWell, Storing
  <2>2. QED BY <1>1, <2>1 DEF Well, Carrying, Made, NoToken, Unstored, Storing
<1>7. forgot' \subseteq Made
  <2>1. Unstored(Procs) \subseteq Made
    BY <1>6 DEF Unstored, Storing
  <2>2. QED BY <1>1, <2>1, Types DEF AuthInv, StateType
<1>8. StateType'
  BY <1>1, <1>2, <1>4, <1>7 DEF AuthInv, StateType
<1>9. AllWell'
  <2>1. last' \in Nat
    BY <1>1, Types DEF AuthInv
  <2>2. ASSUME NEW p \in Procs PROVE Well(p, n)'
    BY <1>3, <2>1 DEF Well, Carrying, Exclusive, NoToken
  <2>3. QED BY <1>4, <2>2 DEF AllWell
<1>10. Accounted'
  BY <1>1, <1>6, Types DEF AuthInv, Accounted
<1>11. Logins' /\ Secret'
  BY <1>5 DEF Logins, Secret
<1>12. Linked'
  <2>1. \A r \in Pairs : LostOf(login[r[1]])
    BY <1>1, <1>6 DEF Pairs, LostOf
  <2>2. QED BY <1>1, <2>1, StaysLinked
<1>13. EndedGone'
  <2>1. \A p \in Storing : LostOf(login[req[p].got])
    BY <1>6 DEF LostOf
  <2>2. QED BY <1>1, <2>1, StaysGone
<1>14. QED BY <1>8, <1>9, <1>10, <1>11, <1>12, <1>13 DEF AuthInv


----------------------------------------------------------------------------
(* The provider issues a token.                                            *)

LEMMA Fresh ==
    ASSUME ConstantsOK, AuthInv, NEW s \in Made \cup {NoToken}, NEW spends, Issue(s, spends)
    PROVE  /\ last' = last + 1 /\ last' \in Tokens /\ last' \in Nat /\ last <= last'
           /\ last' \notin 0 .. last /\ 0 .. last \subseteq 0 .. last'
           /\ Made' = Made \cup {last'} /\ Made \subseteq 0 .. last /\ Made \subseteq Tokens
           /\ login' \in [Tokens -> Nat] /\ \A n \in Made : login'[n] = login[n]
           /\ login'[last'] = IF s = NoToken THEN last' ELSE s
           /\ live' = (live \ spends) \cup {last'}
<1>1. /\ last \in Nat /\ MaxToken \in Nat /\ last < MaxToken /\ last' = last + 1
      /\ Made \subseteq Tokens
  BY Types DEF AuthInv, Issue, ConstantsOK
<1>2. last' \in Tokens /\ last' \in Nat /\ s \in Nat
  BY <1>1 DEF Tokens, Made, NoToken
<1>3. login \in [Tokens -> Nat] /\ login' = [login EXCEPT ![last'] = IF s = NoToken THEN last' ELSE s]
  BY <1>1 DEF AuthInv, StateType, Issue
<1>4. \A n \in Made : n # last'
  BY <1>1 DEF Made
<1>5. /\ login' \in [Tokens -> Nat] /\ \A n \in Made : login'[n] = login[n]
      /\ login'[last'] = IF s = NoToken THEN last' ELSE s
  BY <1>1, <1>2, <1>3, <1>4
<1>6. last' \notin 0 .. last /\ 0 .. last \subseteq 0 .. last' /\ last <= last'
  BY <1>1
<1>7. Made' = Made \cup {last'} /\ Made \subseteq 0 .. last
  BY <1>1 DEF Made
<1>8. live' = (live \ spends) \cup {last'}
  BY <1>1 DEF Issue
<1>9. QED BY <1>1, <1>2, <1>5, <1>6, <1>7, <1>8

\* Request p is given a token: for the one it carries, which is spent, or for a new sign-in.
LEMMA Given ==
    ASSUME ConstantsOK, AuthInv, NEW p \in Procs, NEW n \in Locals,
           req' = [req EXCEPT ![p] = n], req[p].pc # "store",
           NEW s \in Made \cup {NoToken}, NEW spends, Issue(s, spends),
           n.tok = req[p].tok, n.got = last',
           \/ n.pc = "store" /\ n.tok \in Made /\ s = login[n.tok] /\ spends = {n.tok}
           \/ n.pc # "store" /\ s = NoToken /\ spends = {},
           UNCHANGED <<jar, manager, revoking, faults, ended, forgot>>,
           Well(p, n)'
    PROVE  AuthInv'
<1> DEFINE g == last'
<1>1. /\ cache' = cache /\ tombs' = tombs /\ gate' = gate /\ Buried' = Buried /\ jar' = jar
      /\ Range(cache') = Range(cache) /\ \A m : Cached(m)' <=> Cached(m)
      /\ ended' = ended /\ forgot' = forgot
  BY DEF manager, Buried, Cached, Range
<1>2. /\ g \in Tokens /\ g \in Nat /\ last <= g /\ g \notin 0 .. last
      /\ 0 .. last \subseteq 0 .. g
      /\ Made' = Made \cup {g} /\ Made \subseteq 0 .. last /\ Made \subseteq Tokens
      /\ login' \in [Tokens -> Nat] /\ \A m \in Made : login'[m] = login[m]
      /\ login'[g] = IF s = NoToken THEN g ELSE s
      /\ live' = (live \ spends) \cup {g}
  BY Fresh
<1> HIDE DEF g
<1>3. n.got = g /\ last' = g
  BY DEF g
<1>4. req' \in [Procs -> Locals] /\ req'[p] = n /\ \A q \in Procs \ {p} : req'[q] = req[q]
  BY DEF AuthInv, StateType
<1>5. Storing' = IF n.pc = "store" THEN Storing \cup {p} ELSE Storing
  BY <1>4 DEF Storing
<1>6. p \notin Storing
  BY DEF Storing
<1>7. \A q \in Procs : Well(q, req[q]) /\ req[q].tok \in 0 .. last /\ req[q].got \in 0 .. last
  BY DEF AuthInv, AllWell, Well
<1>8. /\ \A m \in Made : login[m] \in Made /\ m # g
      /\ forgot \subseteq Made /\ ended \subseteq Made /\ Buried \subseteq Made
      /\ \A r \in Range(cache) : r[1] \in Made /\ r[2] \in Made
      /\ jar \in 0 .. last /\ last \in Nat /\ NoToken \notin Made /\ 0 .. last = Made \cup {NoToken}
  <2>1. /\ \A m \in Made : login[m] \in Made
        /\ forgot \subseteq Made /\ ended \subseteq Made /\ jar \in 0 .. last
    BY DEF AuthInv, StateType
  <2>2. /\ Buried \subseteq Made /\ last \in Nat
        /\ \A r \in Range(cache) : r[1] \in Made /\ r[2] \in Made
    BY Types DEF AuthInv
  <2>3. NoToken \notin Made /\ 0 .. last = Made \cup {NoToken}
    BY <2>2 DEF NoToken, Made
  <2>4. QED BY <1>2, <2>1, <2>2, <2>3
<1>9. \A q \in Storing : /\ req[q].tok \in Made /\ req[q].got \in Made
                         /\ login[req[q].got] = login[req[q].tok]
  BY <1>7, <1>8 DEF Storing, Well, Carrying
<1>10. StateType'
  <2>1. last' \in Tokens /\ jar' \in 0 .. last' /\ login' \in [Tokens -> Nat]
    BY <1>1, <1>2, <1>3, <1>8
  <2>2. \A m \in Made' : login'[m] \in Made'
    BY <1>2, <1>8
  <2>3. live' \subseteq Made'
    BY <1>2 DEF AuthInv, StateType
  <2>4. cache' \in Seq(Made' \X Made') /\ tombs' \in Seq(Made')
    <3>1. cache \in Seq(Made \X Made) /\ tombs \in Seq(Made)
      BY DEF AuthInv, StateType
    <3>2. Made \subseteq Made' /\ Made \X Made \subseteq Made' \X Made'
      BY <1>2
    <3>3. QED BY <1>1, <3>1, <3>2, SeqOfMore
  <2>5. /\ gate' \in [Tokens -> Procs \cup {NoOne}] /\ forgot' \subseteq Made'
        /\ ended' \subseteq Made' /\ revoking' \subseteq forgot' \cup Buried' /\ faults' \in Nat
    BY <1>1, <1>2 DEF AuthInv, StateType
  <2>6. QED BY <1>4, <2>1, <2>2, <2>3, <2>4, <2>5 DEF StateType
<1>11. AllWell'
  <2>1. SUFFICES ASSUME NEW q \in Procs \ {p} PROVE Well(q, req[q])'
    BY <1>4 DEF AllWell
  <2>2. PICK r \in Locals : r = req[q] /\ r = req'[q]
    BY <1>4 DEF AuthInv, StateType
  <2>3. Well(q, r)
    BY <1>7, <2>2
  <2>4. /\ r.pc \in Exclusive => gate'[r.tok] = q
        /\ r.pc = "post" => ~Cached(r.tok)'
    BY <1>1, <2>3 DEF Well
  <2>5. faults' \in Nat /\ faults <= faults' /\ last' \in Nat /\ last <= last'
    BY <1>2, <1>3 DEF AuthInv, StateType
  <2>6. \A m \in Made : login'[m] = login[m]
    BY <1>2
  <2>7. Well(q, r)'
    BY <1>1, <2>3, <2>4, <2>5, <2>6, StaysWell
  <2>8. QED BY <2>2, <2>7
<1>12. Accounted'
  <2>1. SUFFICES ASSUME NEW t \in Made, t \notin live' \cup forgot \cup Buried, ~Cached(t)
                 PROVE  \E q \in Storing' : req'[q].tok = t
    BY <1>1, <1>2 DEF Accounted
  <2>2. CASE t \in live
    BY <1>2, <1>4, <1>5, <2>1, <2>2
  <2>3. CASE t \notin live
    <3>1. PICK q \in Storing : req[q].tok = t
      BY <2>1, <2>3 DEF AuthInv, Accounted
    <3>2. QED BY <1>4, <1>5, <1>6, <3>1 DEF Storing
  <2>4. QED BY <2>2, <2>3
<1>13. Logins'
  BY <1>1, <1>2, <1>8 DEF AuthInv, Logins
<1>14. Secret'
  <2>1. ASSUME NEW q \in Storing
        PROVE  LET t == req[q].got IN
               /\ jar # t
               /\ \A r \in Range(cache) : r[1] # t /\ r[2] # t
               /\ \A o \in Procs : req'[o].tok # t /\ (o # q => req'[o].got # t)
    <3>1. /\ jar # req[q].got
          /\ \A r \in Range(cache) : r[1] # req[q].got /\ r[2] # req[q].got
          /\ \A o \in Procs : req[o].tok # req[q].got /\ (o # q => req[o].got # req[q].got)
      BY DEF AuthInv, Secret
    <3>2. req[q].got # g
      BY <1>8, <1>9
    <3>3. QED BY <1>3, <1>4, <3>1, <3>2
  <2>2. /\ jar # g
        /\ \A r \in Range(cache) : r[1] # g /\ r[2] # g
        /\ \A o \in Procs : req'[o].tok # g /\ (o # p => req'[o].got # g)
    BY <1>2, <1>4, <1>7, <1>8
  <2>3. \A q \in Storing' : \/ q \in Storing /\ req'[q] = req[q]
                            \/ q = p /\ req'[q].got = g
    BY <1>3, <1>4, <1>5, <1>6 DEF Storing
  <2>4. QED BY <1>1, <2>1, <2>2, <2>3 DEF Secret
<1>15. Pairs \subseteq Pairs' /\ (n.pc = "store" => <<n.tok, g>> \in Pairs')
  <2>1. \A q \in Storing : q \in Storing' /\ req'[q] = req[q]
    BY <1>4, <1>5, <1>6 DEF Storing
  <2>2. QED BY <1>1, <1>3, <1>4, <1>5, <2>1 DEF Pairs
<1>16. Linked'
  <2>1. SUFFICES ASSUME NEW t \in Made' \ ended', ~ForgotOf(t)', NEW set \in SUBSET Tokens,
                        Closed(set, t)', NEW a \in Made', NEW b \in Made',
                        login'[a] = t, login'[b] = t, a \in set
                 PROVE  b \in set
    BY DEF Linked
  <2>2. CASE n.pc = "store" \/ t # g
    <3>1. t \in Made /\ t \notin ended
      BY <1>1, <1>2, <1>8, <2>1, <2>2
    <3>2. ~ForgotOf(t)
      BY <1>1, <1>2, <1>8, <2>1 DEF ForgotOf
    <3>3. Closed(set, t)
      <4>1. \A r \in Pairs : login'[r[1]] = login[r[1]]
        BY <1>2, <1>8, <1>9 DEF Pairs
      <4>2. QED BY <1>15, <2>1, <4>1 DEF Closed
    <3>4. \A k, m \in Made : login[k] = t /\ login[m] = t /\ k \in set => m \in set
      BY <3>1, <3>2, <3>3 DEF AuthInv, Linked
    <3>5. ASSUME n.pc = "store", login'[g] = t
          PROVE  n.tok \in Made /\ login[n.tok] = t /\ (n.tok \in set <=> g \in set)
      <4>1. n.tok \in Made /\ login[n.tok] = t
        BY <1>2, <1>8, <3>5
      <4>2. login'[n.tok] = t
        BY <1>2, <4>1
      <4>3. QED BY <1>15, <2>1, <3>5, <4>1, <4>2 DEF Closed
    <3>6. n.pc # "store" => a # g /\ b # g
      BY <1>2, <2>1, <2>2
    <3>7. QED BY <1>2, <2>1, <3>4, <3>5, <3>6
  <2>3. CASE n.pc # "store" /\ t = g
    BY <1>2, <1>8, <2>1, <2>3
  <2>4. QED BY <2>2, <2>3
<1>17. EndedGone'
  <2>1. SUFFICES ASSUME NEW t \in ended, ~ForgotOf(t)', NEW k \in Made', login'[k] = t
                 PROVE  k \in Buried \/ \E q \in Storing' : req'[q].got = k /\ req'[q].tok \in Buried
    BY <1>1 DEF EndedGone
  <2>2. ~ForgotOf(t)
    BY <1>1, <1>2, <1>8, <2>1 DEF ForgotOf
  <2>3. CASE k \in Made
    <3>1. k \in Buried \/ \E q \in Storing : req[q].got = k /\ req[q].tok \in Buried
      BY <1>2, <2>1, <2>2, <2>3 DEF AuthInv, EndedGone
    <3>2. QED BY <1>4, <1>5, <1>6, <3>1 DEF Storing
  <2>4. CASE k = g
    <3>1. n.pc = "store" /\ n.tok \in Made /\ login[n.tok] = t
      BY <1>2, <1>8, <2>1, <2>4
    <3>2. \A q \in Storing : req[q].got # n.tok
      BY DEF AuthInv, Secret
    <3>3. n.tok \in Buried
      BY <2>1, <2>2, <3>1, <3>2 DEF AuthInv, EndedGone
    <3>4. QED BY <1>3, <1>4, <1>5, <2>4, <3>1, <3>3
  <2>5. QED BY <1>2, <2>3, <2>4
<1>18. QED BY <1>10, <1>11, <1>12, <1>13, <1>14, <1>16, <1>17 DEF AuthInv

LEMMA PostKeeps ==
    ASSUME ConstantsOK, AuthInv, NEW p \in Procs, Post(p)
    PROVE  AuthInv'
<1>1. /\ req[p].pc = "post" /\ req[p].pc \in Carrying /\ req[p].pc # "store"
      /\ UNCHANGED <<jar, cache, tombs, revoking, faults, ended, forgot>>
  BY DEF Post, Carrying
<1>2. req[p] \in Locals /\ Well(p, req[p]) /\ req[p].tok \in Made
  <2>1. req[p] \in Locals /\ Well(p, req[p])
    BY DEF AuthInv, StateType, AllWell
  <2>2. QED BY <1>1, <2>1 DEF Well, Made, NoToken
<1>3. forgot' \subseteq Made /\ faults \in Nat /\ faults <= faults' /\ forgot \subseteq forgot'
  BY <1>1 DEF AuthInv, StateType
<1>4. CASE req[p].tok \notin live /\ Refuse(p) /\ Release(p) /\ UNCHANGED provider
  <2>1. req[p].tok \in forgot \cup Buried
    BY <1>1, <1>4, PostsKnown
  <2>2. login[req[p].tok] \in ended \/ forgot' # {}
    BY <1>1, <2>1 DEF AuthInv, Logins
  <2>3. QED BY <1>1, <1>3, <1>4, <2>2, Refuses
<1>5. CASE /\ req[p].tok \in live /\ Issue(login[req[p].tok], {req[p].tok})
           /\ Become(p, [req[p] EXCEPT !.pc = "store", !.got = last + 1]) /\ UNCHANGED gate
  <2>1. PICK s \in Made \cup {NoToken} : s = login[req[p].tok] /\ s \in Made
    BY <1>2 DEF AuthInv, StateType
  <2>2. /\ last' = last + 1 /\ last' \in Nat /\ last <= last' /\ last' \notin 0 .. last
        /\ Made \subseteq 0 .. last /\ login'[last'] = IF s = NoToken THEN last' ELSE s
        /\ 0 .. last \subseteq 0 .. last' /\ \A m \in Made : login'[m] = login[m]
    BY <1>5, <2>1, Fresh
  <2>3. PICK n \in Locals : /\ req' = [req EXCEPT ![p] = n]
                            /\ n.tok = req[p].tok /\ n.got = last' /\ n.late = req[p].late
                            /\ n.pc = "store" /\ n.served = req[p].served
    <3> DEFINE n == [req[p] EXCEPT !.pc = "store", !.got = last + 1]
    <3>1. last + 1 \in Nat
      BY <2>2
    <3>2. n \in Locals
      BY <1>2, <3>1 DEF Locals, Steps
    <3>3. /\ n.tok = req[p].tok /\ n.got = last + 1 /\ n.late = req[p].late
          /\ n.pc = "store" /\ n.served = req[p].served
      BY <1>2 DEF Locals
    <3>4. req' = [req EXCEPT ![p] = n]
      BY <1>5 DEF Become
    <3>5. last' = last + 1
      BY <2>2
    <3>6. QED BY <3>2, <3>3, <3>4, <3>5
  <2>4. Well(p, n)'
    <3>1. s # NoToken /\ NoToken \notin Made /\ last' # NoToken /\ n.tok # NoToken
      BY <1>2, <2>1, <2>2, <2>3, Types DEF AuthInv, Made, NoToken
    <3>2. n.tok \in 0 .. last' /\ n.got \in 0 .. last' /\ login'[n.got] = login'[n.tok]
      BY <1>2, <2>1, <2>2, <2>3, <3>1
    <3>3. gate'[n.tok] = p
      BY <1>1, <1>2, <1>5, <2>3 DEF Well, Exclusive
    <3>4. n.late => login'[n.tok] \in ended' /\ (n.served => ForgotOf(login[n.tok])')
      <4>1. n.late => login[n.tok] \in ended /\ (n.served => ForgotOf(login[n.tok]))
        BY <1>2, <2>3 DEF Well
      <4>2. login'[n.tok] = login[n.tok]
        BY <1>2, <2>2, <2>3
      <4>3. \A k : ForgotOf(k) => \E m \in forgot' : login'[m] = k
        BY <1>1, <1>3, <2>2 DEF ForgotOf
      <4>4. ForgotOf(login[n.tok]) => ForgotOf(login[n.tok])'
        BY <4>2, <4>3 DEF ForgotOf
      <4>5. QED BY <1>1, <4>1, <4>2, <4>4
    <3>5. QED BY <2>3, <3>1, <3>2, <3>3, <3>4 DEF Well, Carrying, Exclusive
  <2>5. UNCHANGED <<jar, manager, revoking, faults, ended, forgot>>
    BY <1>1, <1>5 DEF manager
  <2>6. Issue(s, {n.tok}) /\ n.tok \in Made
    BY <1>2, <1>5, <2>1, <2>3
  <2>7. QED BY <1>1, <2>1, <2>3, <2>4, <2>5, <2>6, Given
<1>6. QED BY <1>4, <1>5 DEF Post

LEMMA ExchangeCodeKeeps ==
    ASSUME ConstantsOK, AuthInv, NEW p \in Procs, ExchangeCode(p)
    PROVE  AuthInv'
<1>1. /\ req[p].pc = "code" /\ Issue(NoToken, {})
      /\ UNCHANGED <<jar, manager, revoking, faults, ended, forgot>>
  BY DEF ExchangeCode
<1>2. req[p] \in Locals /\ Well(p, req[p]) /\ req[p].tok \in 0 .. last
  BY DEF AuthInv, StateType, AllWell, Well
<1>3. PICK s \in Made \cup {NoToken} : s = NoToken
  OBVIOUS
<1>4. /\ last' = last + 1 /\ last' \in Nat /\ 0 .. last \subseteq 0 .. last'
      /\ \A m \in Made : login'[m] = login[m]
  BY <1>1, <1>3, Fresh
<1>5. PICK n \in Locals : /\ req' = [req EXCEPT ![p] = n]
                          /\ n.tok = req[p].tok /\ n.got = last' /\ n.late = req[p].late
                          /\ n.pc = "respond" /\ n.set = "write" /\ n.served = req[p].served
  <2> DEFINE n == [req[p] EXCEPT !.pc = "respond", !.set = "write", !.got = last + 1]
  <2>1. last + 1 \in Nat
    BY <1>4
  <2>2. n \in Locals
    BY <1>2, <2>1 DEF Locals, Steps
  <2>3. /\ n.tok = req[p].tok /\ n.got = last + 1 /\ n.late = req[p].late
        /\ n.pc = "respond" /\ n.set = "write" /\ n.served = req[p].served
    BY <1>2 DEF Locals
  <2>4. req' = [req EXCEPT ![p] = n]
    BY DEF ExchangeCode, Become
  <2>5. last' = last + 1
    BY <1>4
  <2>6. QED BY <2>2, <2>3, <2>4, <2>5
<1>6. Well(p, n)'
  <2>1. n.tok \in 0 .. last' /\ n.got \in 0 .. last'
    BY <1>2, <1>4, <1>5
  <2>2. n.late => /\ n.tok # NoToken /\ login'[n.tok] \in ended'
                  /\ n.served => ForgotOf(login[n.tok])'
    <3>1. n.late => /\ n.tok # NoToken /\ login[n.tok] \in ended
                    /\ n.served => ForgotOf(login[n.tok])
      BY <1>2, <1>5 DEF Well
    <3>2. n.tok # NoToken => login'[n.tok] = login[n.tok]
      BY <1>2, <1>4, <1>5 DEF Made, NoToken
    <3>3. \A k : ForgotOf(k) => \E m \in forgot' : login'[m] = k
      <4>1. forgot' = forgot /\ forgot \subseteq Made
        BY <1>1 DEF AuthInv, StateType
      <4>2. QED BY <1>4, <4>1 DEF ForgotOf
    <3>4. n.tok # NoToken /\ ForgotOf(login[n.tok]) => ForgotOf(login[n.tok])'
      BY <3>2, <3>3 DEF ForgotOf
    <3>5. QED BY <1>1, <3>1, <3>2, <3>4
  <2>3. QED BY <1>5, <2>1, <2>2 DEF Well, Carrying, Exclusive
<1>7. req[p].pc # "store" /\ n.pc # "store" /\ Issue(s, {})
  BY <1>1, <1>3, <1>5
<1>8. QED BY <1>1, <1>3, <1>5, <1>6, <1>7, Given


----------------------------------------------------------------------------
(* A rotation is kept.                                                     *)

LEMMA KeptRange ==
    ASSUME ConstantsOK, NEW S, cache \in Seq(S), NEW old, NEW new, <<old, new>> \in S
    PROVE  /\ Kept(old, new) \in Seq(S)
           /\ Range(Kept(old, new)) \subseteq Range(cache) \cup {<<old, new>>}
           /\ <<old, new>> \in Range(Kept(old, new))
           /\ Len(cache) >= CacheMax => cache[1] \in Range(cache)
           /\ \A r \in Range(cache) :
                 r \in Range(Kept(old, new)) \/ (Len(cache) >= CacheMax /\ r = cache[1])
<1> DEFINE rest == IF Len(cache) >= CacheMax THEN Tail(cache) ELSE cache
<1>0. CacheMax \in Nat \ {0}
  BY DEF ConstantsOK
<1>1. rest \in Seq(S) /\ Range(rest) \subseteq Range(cache)
      /\ (Len(cache) >= CacheMax => cache[1] \in Range(cache))
      /\ \A r \in Range(cache) : r \in Range(rest) \/ (Len(cache) >= CacheMax /\ r = cache[1])
  <2>1. CASE Len(cache) >= CacheMax
    <3>1. cache # << >> /\ rest = Tail(cache) /\ 1 \in DOMAIN cache
      BY <1>0, <2>1
    <3>2. \A i \in DOMAIN rest : i + 1 \in DOMAIN cache /\ rest[i] = cache[i + 1]
      BY <3>1
    <3>3. \A i \in DOMAIN cache : i # 1 => i - 1 \in DOMAIN rest /\ cache[i] = rest[i - 1]
      BY <3>1
    <3>4. rest \in Seq(S)
      BY <3>1
    <3> HIDE DEF rest
    <3>5. Range(rest) \subseteq Range(cache) /\ cache[1] \in Range(cache)
      BY <3>1, <3>2 DEF Range
    <3>6. \A r \in Range(cache) : r \in Range(rest) \/ r = cache[1]
      BY <3>3 DEF Range
    <3>7. QED BY <2>1, <3>4, <3>5, <3>6
  <2>2. CASE ~(Len(cache) >= CacheMax)
    BY <2>2
  <2>3. QED BY <2>1, <2>2
<1>2. Kept(old, new) = Append(rest, <<old, new>>)
  BY DEF Kept
<1> HIDE DEF rest
<1>3. Range(Append(rest, <<old, new>>)) = Range(rest) \cup {<<old, new>>}
  <2> DEFINE more == Append(rest, <<old, new>>)
  <2>1. \A i \in DOMAIN rest : i \in DOMAIN more /\ more[i] = rest[i]
    BY <1>1
  <2>2. \A i \in DOMAIN more : (i \in DOMAIN rest /\ more[i] = rest[i]) \/ more[i] = <<old, new>>
    BY <1>1
  <2>3. Len(rest) + 1 \in DOMAIN more /\ more[Len(rest) + 1] = <<old, new>>
    BY <1>1
  <2> HIDE DEF more
  <2>4. Range(more) = Range(rest) \cup {<<old, new>>}
    BY <2>1, <2>2, <2>3 DEF Range
  <2>5. QED BY <2>4 DEF more
<1>4. Append(rest, <<old, new>>) \in Seq(S)
  BY <1>1
<1>5. QED BY <1>1, <1>2, <1>3, <1>4

LEMMA StoreKeeps ==
    ASSUME ConstantsOK, AuthInv, NEW p \in Procs, Store(p)
    PROVE  AuthInv'
<1>1. /\ req[p].pc = "store" /\ req[p].pc \in Carrying /\ Release(p) /\ p \in Storing
      /\ UNCHANGED <<jar, provider, tombs, revoking, faults, ended>>
      /\ UNCHANGED <<last, login, live>> /\ Buried' = Buried /\ Made' = Made
  BY DEF Store, Carrying, Storing, provider, Buried, Made
<1>2. /\ req[p] \in Locals /\ Well(p, req[p]) /\ faults \in Nat /\ faults <= faults'
      /\ req[p].tok \in Made /\ req[p].got \in Made /\ login[req[p].got] = login[req[p].tok]
  <2>1. req[p] \in Locals /\ Well(p, req[p]) /\ faults \in Nat
    BY DEF AuthInv, StateType, AllWell
  <2>2. QED BY <1>1, <2>1 DEF Well, Made, NoToken
<1>3. CASE {req[p].tok, req[p].got} \cap Buried # {}
  <2>1. Refuse(p) /\ forgot' = forgot \cup {req[p].tok} /\ UNCHANGED cache
    BY <1>3 DEF Store
  <2>2. forgot \subseteq forgot' /\ forgot' \subseteq Made /\ forgot' # {} /\ req[p].tok \in forgot'
    BY <1>2, <2>1 DEF AuthInv, StateType
  <2>3. QED BY <1>1, <1>2, <2>1, <2>2, Refuses
<1>4. CASE {req[p].tok, req[p].got} \cap Buried = {}
  <2> DEFINE rot == <<req[p].tok, req[p].got>>
  <2>1. /\ cache' = Kept(req[p].tok, req[p].got) /\ Goto(p, "handler")
        /\ forgot' = IF Len(cache) >= CacheMax THEN forgot \cup {cache[1][1]} ELSE forgot
    BY <1>4 DEF Store
  <2>2. rot \in Made \X Made /\ cache \in Seq(Made \X Made)
    BY <1>2 DEF AuthInv, StateType
  <2>3. /\ cache' \in Seq(Made \X Made) /\ Range(cache') \subseteq Range(cache) \cup {rot}
        /\ rot \in Range(cache')
        /\ Len(cache) >= CacheMax => cache[1] \in Range(cache)
        /\ \A r \in Range(cache) :
                 r \in Range(cache') \/ (Len(cache) >= CacheMax /\ r = cache[1])
    BY <2>1, <2>2, KeptRange
  <2>4. /\ forgot \subseteq forgot' /\ forgot' \subseteq Made
        /\ \A r \in Range(cache) : r \in Range(cache') \/ r[1] \in forgot'
    <3>1. forgot \subseteq Made
      BY DEF AuthInv, StateType
    <3>2. Len(cache) >= CacheMax => cache[1][1] \in Made
      BY <2>3, Types DEF AuthInv
    <3>3. QED BY <2>1, <2>3, <3>1, <3>2
  <2> DEFINE old == req[p].tok
             new == req[p].got
  <2>5. rot[1] = old /\ rot[2] = new
    OBVIOUS
  <2> HIDE DEF rot
  <2>6. PICK n \in Locals : /\ req' = [req EXCEPT ![p] = n]
                            /\ n.tok = req[p].tok /\ n.got = req[p].got /\ n.late = req[p].late
                            /\ n.pc = "handler"
    <3> DEFINE n == [req[p] EXCEPT !.pc = "handler"]
    <3>1. n \in Locals
      BY <1>2 DEF Locals, Steps
    <3>2. n.tok = req[p].tok /\ n.got = req[p].got /\ n.late = req[p].late /\ n.pc = "handler"
      BY <1>2 DEF Locals
    <3>3. req' = [req EXCEPT ![p] = n]
      BY <2>1 DEF Goto, Become
    <3>4. QED BY <3>1, <3>2, <3>3
  <2>7. req' \in [Procs -> Locals] /\ req'[p] = n /\ \A q \in Procs \ {p} : req'[q] = req[q]
    BY <2>6 DEF AuthInv, StateType
  <2>8. Storing' = Storing \ {p}
    BY <2>6, <2>7 DEF Storing
  <2>9. /\ \A t : Cached(t)' <=> \E r \in Range(cache') : r[1] = t
        /\ \A t : Cached(t) <=> \E r \in Range(cache) : r[1] = t
    BY DEF Cached, Range
  <2>10. /\ gate' \in [Tokens -> Procs \cup {NoOne}]
         /\ \A t \in Tokens : gate[t] \notin {p, NoOne} => gate'[t] = gate[t]
    BY <1>1, GateKept DEF AuthInv
  <2>11. StateType'
    <3>1. last' \in Tokens /\ jar' \in 0 .. last' /\ live' \subseteq Made' /\ ended' \subseteq Made'
          /\ login' \in [Tokens -> Nat] /\ \A t \in Made' : login'[t] \in Made'
      BY <1>1 DEF AuthInv, StateType
    <3>2. cache' \in Seq(Made' \X Made') /\ tombs' \in Seq(Made') /\ forgot' \subseteq Made'
      BY <1>1, <2>3, <2>4 DEF AuthInv, StateType
    <3>3. revoking' \subseteq forgot' \cup Buried' /\ faults' \in Nat
      BY <1>1, <2>4 DEF AuthInv, StateType
    <3>4. QED BY <2>7, <2>10, <3>1, <3>2, <3>3 DEF StateType
  <2>12. AllWell'
    <3>1. ASSUME NEW q \in Procs \ {p} PROVE Well(q, req[q])'
      <4>1. PICK r \in Locals : r = req[q] /\ r = req'[q]
        BY <2>7 DEF AuthInv, StateType
      <4>2. Well(q, r)
        BY <4>1 DEF AuthInv, AllWell
      <4>3. r.pc \in Exclusive => r.tok \in Tokens /\ gate[r.tok] = q
        BY <4>2, Types DEF AuthInv, Well, Made, Carrying, Exclusive, NoToken
      <4>4. r.pc \in Exclusive => gate'[r.tok] = q
        BY <2>10, <4>3 DEF ConstantsOK
      <4>5. r.pc = "post" => ~Cached(r.tok)'
        <5>1. r.pc = "post" => gate[r.tok] = q /\ ~Cached(r.tok)
          BY <4>2 DEF Well, Exclusive
        <5>2. gate[req[p].tok] = p
          BY <1>1, <1>2 DEF Well, Exclusive
        <5>3. QED BY <2>3, <2>5, <2>9, <5>1, <5>2
      <4>6. last' \in Nat /\ last <= last' /\ faults' \in Nat /\ \A t \in Made : login'[t] = login[t]
        BY <1>1, <1>2, Types DEF AuthInv
      <4>7. Well(q, r)'
        BY <1>1, <1>2, <2>4, <4>2, <4>4, <4>5, <4>6, StaysWell
      <4>8. QED BY <4>1, <4>7
    <3>2. Well(p, n)'
      <4>1. n.late => ForgotOf(login[n.tok])
        BY <1>4, <2>6, LateMissed
      <4>2. ForgotOf(login[n.tok]) => \E t \in forgot' : login'[t] = login'[n.tok]
        BY <1>1, <2>4 DEF ForgotOf
      <4>3. n.late => ForgotOf(login[n.tok])'
        BY <4>1, <4>2 DEF ForgotOf
      <4>4. QED BY <1>1, <1>2, <2>6, <4>3 DEF Well, Carrying, Exclusive
    <3>3. QED BY <2>7, <3>1, <3>2 DEF AllWell
  <2>13. Accounted'
    <3>1. SUFFICES ASSUME NEW t \in Made, t \notin live \cup forgot' \cup Buried, ~Cached(t)'
                   PROVE  \E q \in Storing' : req'[q].tok = t
      BY <1>1 DEF Accounted
    <3>2. ~Cached(t) /\ t # old
      BY <2>3, <2>4, <2>5, <2>9, <3>1
    <3>3. PICK q \in Storing : req[q].tok = t
      BY <2>4, <3>1, <3>2 DEF AuthInv, Accounted
    <3>4. QED BY <2>7, <2>8, <3>2, <3>3 DEF Storing
  <2>14. Logins'
    BY <1>1, <1>2, <2>3, <2>5 DEF AuthInv, Logins
  <2>15. Secret'
    <3>1. SUFFICES ASSUME NEW q \in Storing \ {p}
                   PROVE  LET g == req[q].got IN
                          /\ jar # g
                          /\ \A r \in Range(cache') : r[1] # g /\ r[2] # g
                          /\ \A o \in Procs : req'[o].tok # g /\ (o # q => req'[o].got # g)
      BY <1>1, <2>7, <2>8 DEF Secret, Storing
    <3>2. /\ jar # req[q].got
          /\ \A r \in Range(cache) : r[1] # req[q].got /\ r[2] # req[q].got
          /\ \A o \in Procs : req[o].tok # req[q].got /\ (o # q => req[o].got # req[q].got)
      BY DEF AuthInv, Secret
    <3>3. QED BY <2>3, <2>5, <2>6, <2>7, <3>2
  <2>16. Linked'
    <3>1. ASSUME NEW r \in Pairs PROVE r \in Pairs' \/ LostOf(login[r[1]])
      <4>1. CASE r \in Range(cache)
        BY <2>4, <4>1 DEF Pairs, LostOf
      <4>2. CASE r \notin Range(cache)
        <5>1. PICK q \in Storing : r = <<req[q].tok, req[q].got>>
          BY <4>2 DEF Pairs
        <5>2. CASE q = p
          BY <2>3, <5>1, <5>2 DEF Pairs, rot
        <5>3. CASE q # p
          BY <2>7, <2>8, <5>1, <5>3 DEF Pairs, Storing
        <5>4. QED BY <5>2, <5>3
      <4>3. QED BY <4>1, <4>2
    <3>2. QED BY <1>1, <2>4, <3>1, StaysLinked
  <2>17. EndedGone'
    <3>1. \A q \in Storing : req[q].tok \in Buried =>
             q \in Storing' /\ req'[q].tok = req[q].tok /\ req'[q].got = req[q].got
      BY <1>4, <2>7, <2>8 DEF Storing
    <3>2. QED BY <1>1, <2>4, <3>1, StaysGone
  <2>18. QED BY <2>11, <2>12, <2>13, <2>14, <2>15, <2>16, <2>17 DEF AuthInv
<1>5. QED BY <1>3, <1>4


----------------------------------------------------------------------------
(* A logout.                                                               *)

LEMMA ChainIsOfSignIn ==
    ASSUME ConstantsOK, AuthInv, NEW n \in Made
    PROVE  /\ Connected(n) \subseteq Made /\ n \in Connected(n)
           /\ \A m \in Connected(n) : login[m] = login[n]
           /\ \A i \in DOMAIN cache : cache[i][1] \in Connected(n) <=> cache[i][2] \in Connected(n)
<1>1. n \in Tokens /\ Made \subseteq Tokens
  BY Types DEF AuthInv
<1>2. cache \in Seq(Made \X Made) /\ \A i \in DOMAIN cache : cache[i] \in Range(cache)
  BY DEF AuthInv, StateType, Range
<1>3. cache \in Seq(Tokens \X Tokens)
  <2>1. Made \X Made \subseteq Tokens \X Tokens
    BY <1>1
  <2>2. QED BY <1>2, <2>1, SeqOfMore
<1>4. \A i \in DOMAIN cache : /\ cache[i][1] \in Made /\ cache[i][2] \in Made
                              /\ login[cache[i][1]] = login[cache[i][2]]
  BY <1>2, Types DEF AuthInv, Logins
<1>5. Connected(n) \subseteq {m \in Made : login[m] = login[n]}
  <2> DEFINE mine == {m \in Made : login[m] = login[n]}
  <2>1. mine \in SUBSET Tokens /\ n \in mine
    BY <1>1
  <2>2. \A i \in DOMAIN cache : cache[i][1] \in mine <=> cache[i][2] \in mine
    BY <1>4
  <2> HIDE DEF mine
  <2>3. Connected(n) \subseteq mine
    BY <1>1, <2>1, <2>2, ConnectedLeast
  <2>4. QED BY <2>3 DEF mine
<1>6. QED BY <1>1, <1>3, <1>5, ConnectedClosed

\* The token an exchange has given is in nobody's chain.
LEMMA ChainHasNoSecret ==
    ASSUME ConstantsOK, AuthInv, NEW p \in Procs, req[p].tok \in Made, NEW q \in Storing
    PROVE  req[q].got \notin Connected(req[p].tok)
<1> DEFINE tok == req[p].tok
           g == req[q].got
           rest == Connected(tok) \ {g}
<1>1. tok \in Tokens /\ tok # g
  BY Types DEF AuthInv, Secret
<1>2. \A i \in DOMAIN cache : cache[i][1] # g /\ cache[i][2] # g
  BY DEF AuthInv, Secret, Range
<1>3. /\ Connected(tok) \subseteq Tokens /\ tok \in Connected(tok)
      /\ \A i \in DOMAIN cache : cache[i][1] \in Connected(tok) <=> cache[i][2] \in Connected(tok)
  BY ChainIsOfSignIn, Types DEF AuthInv
<1> HIDE DEF tok, g
<1>4. rest \in SUBSET Tokens /\ tok \in rest
  BY <1>1, <1>3
<1>5. \A i \in DOMAIN cache : cache[i][1] \in rest <=> cache[i][2] \in rest
  BY <1>2, <1>3
<1>6. Connected(tok) \subseteq rest
  <2> HIDE DEF rest
  <2>1. QED BY <1>1, <1>4, <1>5, ConnectedLeast
<1>7. g \notin Connected(tok)
  BY <1>6
<1>8. QED BY <1>7 DEF tok, g

\* The chain of a token, with what exchanges of its tokens have given, is all of its sign-in,
\* unless a token of the sign-in was forgotten or it has ended before.
LEMMA ChainIsAll ==
    ASSUME ConstantsOK, AuthInv, NEW p \in Procs, req[p].tok \in Made,
           login[req[p].tok] \notin ended, ~ForgotOf(login[req[p].tok]),
           NEW n \in Made, login[n] = login[req[p].tok]
    PROVE  \/ n \in Connected(req[p].tok)
           \/ \E q \in Storing : req[q].got = n /\ req[q].tok \in Connected(req[p].tok)
<1> DEFINE tok == req[p].tok
           s == login[tok]
           chain == Connected(tok)
           all == chain \cup {req[q].got : q \in {o \in Storing : req[o].tok \in chain}}
<1>1. /\ chain \subseteq Made /\ tok \in chain
      /\ \A i \in DOMAIN cache : cache[i][1] \in chain <=> cache[i][2] \in chain
  BY ChainIsOfSignIn
<1>2. \A q \in Storing : req[q].got \notin chain
  BY ChainHasNoSecret
<1>3. \A q \in Storing : /\ req[q].got \in Made
                         /\ \A r \in Range(cache) : r[1] # req[q].got /\ r[2] # req[q].got
                         /\ \A o \in Storing : req[o].tok # req[q].got
                                               /\ (o # q => req[o].got # req[q].got)
  <2>1. ASSUME NEW q \in Storing PROVE req[q].got \in Made
    <3>1. Well(q, req[q]) /\ req[q].pc = "store"
      BY DEF AuthInv, AllWell, Storing
    <3>2. QED BY <3>1 DEF Well, Made, NoToken
  <2>2. QED BY <2>1 DEF AuthInv, Secret, Storing
<1>4. tok \in Made /\ s \in Made /\ s \notin ended /\ ~ForgotOf(s) /\ login[n] = s
  BY DEF AuthInv, StateType
<1> HIDE DEF chain, s, tok
<1>5. all \in SUBSET Tokens /\ tok \in all
  BY <1>1, <1>3, Types DEF AuthInv
<1>6. \A r \in Range(cache) : r[1] \in all <=> r[2] \in all
  <2>1. ASSUME NEW r \in Range(cache) PROVE r[1] \in chain <=> r[2] \in chain
    BY <1>1 DEF Range
  <2>2. QED BY <1>3, <2>1
<1>7. ASSUME NEW q \in Storing PROVE req[q].tok \in all <=> req[q].got \in all
  <2>1. req[q].tok \in all <=> req[q].tok \in chain
    BY <1>3
  <2>2. req[q].got \in all <=> req[q].tok \in chain
    BY <1>2, <1>3
  <2>3. QED BY <2>1, <2>2
<1>8. n \in all
  <2> HIDE DEF all
  <2>1. Closed(all, s)
    BY <1>6, <1>7 DEF Closed, Pairs
  <2>2. login[tok] = s
    BY DEF s
  <2>3. QED BY <1>4, <1>5, <2>1, <2>2 DEF AuthInv, Linked
<1>9. QED BY <1>8 DEF chain, tok

\* What is left of the cache and what is known by tombstones after a chain was buried.
LEMMA BuryLeaves ==
    ASSUME ConstantsOK, AuthInv, NEW p \in Procs, Bury(p), req[p].tok \in Made
    PROVE  /\ cache' \in Seq(Made \X Made) /\ Range(cache') \subseteq Range(cache)
           /\ \A r \in Range(cache) : r \in Range(cache') \/ r[1] \in Connected(req[p].tok)
           /\ tombs' \in Seq(Made) /\ Buried' \subseteq Buried \cup Connected(req[p].tok)
           /\ revoking' \subseteq revoking \cup Connected(req[p].tok)
<1> DEFINE chain == Connected(req[p].tok)
           others == {i \in DOMAIN cache : cache[i][1] \notin chain}
<1>1. /\ cache \in Seq(Made \X Made) /\ tombs \in Seq(Made)
  BY DEF AuthInv, StateType
<1>2. /\ chain \subseteq Made /\ req[p].tok \in chain
      /\ \A i \in DOMAIN cache : cache[i][1] \in chain <=> cache[i][2] \in chain
  BY ChainIsOfSignIn
<1>3. PICK at \in Bijection(1 .. Cardinality(others), others) :
          cache' = [i \in DOMAIN at |-> cache[at[i]]]
  BY DEF Bury
<1>4. PICK order \in SetToSeqs(chain) : tombs' = Tombstones(order)
  BY DEF Bury
<1>5. revoking' = revoking \cup {req[p].tok} \cup {cache[i][2] : i \in DOMAIN cache \ others}
  BY DEF Bury
<1> HIDE DEF chain
<1>6. others \subseteq 1 .. Len(cache) /\ Len(cache) \in Nat
  BY <1>1
<1>7. revoking' \subseteq revoking \cup chain
  BY <1>2, <1>5
<1>8. /\ \A i \in others : i \in DOMAIN cache
      /\ \A i \in DOMAIN cache : i \in others \/ cache[i][1] \in chain
  OBVIOUS
<1> HIDE DEF others
<1>9. PICK k \in Nat : k = Cardinality(others)
  BY <1>6, SizeIsNat
<1>10. at \in [1 .. k -> others] /\ \A j \in others : \E i \in 1 .. k : at[i] = j
  BY <1>3, <1>9 DEF Bijection, Injection, Surjection
<1>11. cache' = [i \in 1 .. k |-> cache[at[i]]]
  BY <1>3, <1>10
<1>12. cache' \in Seq(Made \X Made)
  <2>1. \A i \in 1 .. k : cache[at[i]] \in Made \X Made
    BY <1>1, <1>8, <1>10
  <2>2. QED BY <1>11, <2>1, SeqDef
<1>13. Range(cache') \subseteq Range(cache)
  BY <1>8, <1>10, <1>11 DEF Range
<1>14. \A r \in Range(cache) : r \in Range(cache') \/ r[1] \in chain
  <2>1. ASSUME NEW j \in others PROVE cache[j] \in Range(cache')
    BY <1>10, <1>11 DEF Range
  <2>2. QED BY <1>8, <2>1 DEF Range
<1>15. Tombstones(order) \in Seq(Buried \cup chain)
  <2>1. tombs \in Seq(Buried \cup chain)
    <3>1. Len(tombs) \in Nat /\ tombs \in [1 .. Len(tombs) -> Buried \cup chain]
      BY <1>1 DEF Buried, Range
    <3>2. QED BY <3>1, SeqDef
  <2>2. order \in Seq(Buried \cup chain)
    <3>1. chain \subseteq 1 .. last /\ last \in Nat
      BY <1>2, Types DEF AuthInv, Made
    <3>2. PICK k2 \in Nat : k2 = Cardinality(chain)
      BY <3>1, SizeIsNat
    <3>3. order \in [1 .. k2 -> Buried \cup chain]
      BY <1>4, <3>2 DEF SetToSeqs
    <3>4. QED BY <3>3, SeqDef
  <2>3. QED BY <2>1, <2>2, TombstonesIn
<1>16. tombs' \in Seq(Made) /\ Buried' \subseteq Buried \cup chain
  <2>1. tombs' \in Seq(Buried \cup chain)
    BY <1>4, <1>15
  <2>2. Buried \cup chain \subseteq Made
    BY <1>2, Types DEF AuthInv
  <2>3. tombs' \in Seq(Made)
    BY <2>1, <2>2, SeqOfMore
  <2>4. \A i \in DOMAIN tombs' : tombs'[i] \in Buried \cup chain
    BY <2>1
  <2>5. Range(tombs') \subseteq Buried \cup chain
    BY <2>4 DEF Range
  <2>6. Buried' = Range(tombs')
    BY DEF Buried
  <2>7. QED BY <2>3, <2>5, <2>6
<1>17. QED BY <1>7, <1>12, <1>13, <1>14, <1>16 DEF chain

LEMMA BuryKeeps ==
    ASSUME ConstantsOK, AuthInv, NEW p \in Procs, Bury(p)
    PROVE  AuthInv'
<1> DEFINE chain == Connected(req[p].tok)
           s == login[req[p].tok]
<1>1. /\ req[p].pc = "bury" /\ Release(p) /\ Refuse(p)
      /\ UNCHANGED <<jar, last, login, live, faults>> /\ Made' = Made
      /\ forgot' = forgot \cup ((Buried \cup chain) \ Buried')
      /\ ended' = ended \cup {s}
  BY DEF Bury, provider, Made, Buried
<1>2. /\ req[p] \in Locals /\ Well(p, req[p]) /\ req[p].tok \in Made /\ s \in Made
      /\ req[p].tok # NoToken
  <2>1. req[p] \in Locals /\ Well(p, req[p])
    BY DEF AuthInv, StateType, AllWell
  <2>2. req[p].tok \in Made /\ req[p].tok # NoToken
    BY <1>1, <2>1 DEF Well, Made, NoToken, Carrying
  <2>3. QED BY <2>1, <2>2 DEF AuthInv, StateType
<1>3. /\ chain \subseteq Made /\ req[p].tok \in chain /\ \A m \in chain : login[m] = s
  BY <1>2, ChainIsOfSignIn
<1>4. /\ cache' \in Seq(Made \X Made) /\ Range(cache') \subseteq Range(cache)
      /\ \A r \in Range(cache) : r \in Range(cache') \/ r[1] \in chain
      /\ tombs' \in Seq(Made) /\ Buried' \subseteq Buried \cup chain
      /\ revoking' \subseteq revoking \cup chain
  BY <1>2, BuryLeaves
<1>5. /\ ~ForgotOf(s) /\ s \notin ended => \A n \in Made : login[n] = s =>
             n \in chain \/ \E q \in Storing : req[q].got = n /\ req[q].tok \in chain
  BY <1>2, ChainIsAll
<1> HIDE DEF chain
<1>6. PICK n \in Locals : /\ req' = [req EXCEPT ![p] = n]
                          /\ n.tok = req[p].tok /\ n.got = req[p].got /\ n.late = req[p].late
                          /\ n.pc = "respond" /\ n.set = "clear" /\ n.served = FALSE
  <2> DEFINE n == [req[p] EXCEPT !.pc = "respond", !.set = "clear", !.served = FALSE]
  <2>1. n \in Locals
    BY <1>2 DEF Locals, Steps
  <2>2. /\ n.tok = req[p].tok /\ n.got = req[p].got /\ n.late = req[p].late
        /\ n.pc = "respond" /\ n.set = "clear" /\ n.served = FALSE
    BY <1>2 DEF Locals
  <2>3. req' = [req EXCEPT ![p] = n]
    BY <1>1 DEF Refuse, Respond, Become
  <2>4. QED BY <2>1, <2>2, <2>3
<1>7. /\ req' \in [Procs -> Locals] /\ req'[p] = n /\ \A q \in Procs \ {p} : req'[q] = req[q]
      /\ \A q \in Procs : req'[q].tok = req[q].tok /\ req'[q].got = req[q].got
  BY <1>6 DEF AuthInv, StateType
<1>8. Storing' = Storing
  BY <1>1, <1>6, <1>7 DEF Storing
<1>9. /\ \A t : Cached(t)' <=> \E r \in Range(cache') : r[1] = t
      /\ \A t : Cached(t) <=> \E r \in Range(cache) : r[1] = t
  BY DEF Cached, Range
<1>10. /\ gate' \in [Tokens -> Procs \cup {NoOne}]
       /\ \A t \in Tokens : gate[t] \notin {p, NoOne} => gate'[t] = gate[t]
  BY <1>1, GateKept DEF AuthInv
<1>11. /\ forgot \subseteq forgot' /\ forgot' \subseteq Made /\ ended \subseteq ended'
       /\ ended' \subseteq Made /\ Buried \cup chain \subseteq Buried' \cup forgot'
       /\ Buried \subseteq Made
  BY <1>1, <1>2, <1>3, Types DEF AuthInv, StateType
<1>12. StateType'
  <2>1. last' \in Tokens /\ jar' \in 0 .. last' /\ live' \subseteq Made' /\ faults' \in Nat
        /\ login' \in [Tokens -> Nat] /\ \A t \in Made' : login'[t] \in Made'
    BY <1>1 DEF AuthInv, StateType
  <2>2. cache' \in Seq(Made' \X Made') /\ tombs' \in Seq(Made')
        /\ forgot' \subseteq Made' /\ ended' \subseteq Made'
    BY <1>1, <1>4, <1>11
  <2>3. revoking' \subseteq forgot' \cup Buried'
    BY <1>4, <1>11 DEF AuthInv, StateType
  <2>4. QED BY <1>7, <1>10, <2>1, <2>2, <2>3 DEF StateType
<1>13. AllWell'
  <2>1. ASSUME NEW q \in Procs \ {p} PROVE Well(q, req[q])'
    <3>1. PICK r \in Locals : r = req[q] /\ r = req'[q]
      BY <1>7 DEF AuthInv, StateType
    <3>2. Well(q, r)
      BY <3>1 DEF AuthInv, AllWell
    <3>3. r.pc \in Exclusive => r.tok \in Tokens /\ gate[r.tok] = q
      BY <3>2, Types DEF AuthInv, Well, Made, Carrying, Exclusive, NoToken
    <3>4. r.pc \in Exclusive => gate'[r.tok] = q
      BY <1>10, <3>3 DEF ConstantsOK
    <3>5. r.pc = "post" => ~Cached(r.tok)'
      BY <1>4, <1>9, <3>2 DEF Well
    <3>6. last' \in Nat /\ last <= last' /\ faults' \in Nat /\ faults <= faults'
          /\ \A t \in Made : login'[t] = login[t]
      BY <1>1, Types DEF AuthInv, StateType
    <3>7. Well(q, r)'
      BY <1>11, <3>2, <3>4, <3>5, <3>6, StaysWell
    <3>8. QED BY <3>1, <3>7
  <2>2. Well(p, n)'
    <3>1. {n.tok, n.got} \subseteq 0 .. last'
      BY <1>1, <1>2, <1>6 DEF Well
    <3>2. n.tok # NoToken /\ login'[n.tok] \in ended'
      BY <1>1, <1>2, <1>6
    <3>3. QED BY <1>6, <3>1, <3>2 DEF Well, Carrying, Exclusive
  <2>3. QED BY <1>7, <2>1, <2>2 DEF AllWell
<1>14. Accounted'
  <2>1. SUFFICES ASSUME NEW t \in Made, t \notin live \cup forgot' \cup Buried', ~Cached(t)'
                 PROVE  \E q \in Storing' : req'[q].tok = t
    BY <1>1 DEF Accounted
  <2>2. t \notin Buried \cup chain
    BY <1>11, <2>1
  <2>3. ~Cached(t)
    BY <1>4, <1>9, <2>1, <2>2
  <2>4. PICK q \in Storing : req[q].tok = t
    BY <1>11, <2>1, <2>2, <2>3 DEF AuthInv, Accounted
  <2>5. QED BY <1>7, <1>8, <2>4 DEF Storing
<1>15. Logins'
  BY <1>1, <1>3, <1>4 DEF AuthInv, Logins
<1>16. Secret'
  BY <1>1, <1>4, <1>7, <1>8 DEF AuthInv, Secret, Storing
<1>17. Linked'
  <2>1. ASSUME NEW r \in Pairs PROVE r \in Pairs' \/ login[r[1]] \in ended'
    <3>1. CASE r \in Range(cache)
      BY <1>1, <1>3, <1>4, <3>1 DEF Pairs
    <3>2. CASE r \notin Range(cache)
      <4>1. PICK q \in Storing : r = <<req[q].tok, req[q].got>>
        BY <3>2 DEF Pairs
      <4>2. QED BY <1>7, <1>8, <4>1 DEF Pairs, Storing
    <3>3. QED BY <3>1, <3>2
  <2>2. QED BY <1>1, <1>11, <2>1, StaysLinked
<1>18. EndedGone'
  <2>1. SUFFICES ASSUME NEW u \in ended', ~ForgotOf(u)', NEW t \in Made, login[t] = u
                 PROVE  t \in Buried' \/ \E q \in Storing : req[q].got = t /\ req[q].tok \in Buried'
    BY <1>1, <1>7, <1>8 DEF EndedGone, Storing
  <2>2. \A m \in forgot' : login[m] # u
    BY <1>1, <2>1 DEF ForgotOf
  <2>3. ~ForgotOf(u)
    BY <1>11, <2>2 DEF ForgotOf
  <2>4. \A m \in Buried \cup chain : login[m] = u => m \in Buried'
    BY <1>11, <2>2
  <2>5. \A q \in Storing : login[req[q].tok] = login[req[q].got]
    <3>1. \A q \in Storing : Well(q, req[q]) /\ req[q].pc = "store"
      BY DEF AuthInv, AllWell, Storing
    <3>2. QED BY <3>1 DEF Well
  <2>6. t \in Buried \cup chain \/ \E q \in Storing : req[q].got = t /\ req[q].tok \in Buried \cup chain
    <3>1. CASE u \in ended
      BY <2>1, <2>3, <3>1 DEF AuthInv, EndedGone
    <3>2. CASE u \notin ended
      BY <1>1, <1>5, <2>1, <2>3, <3>2
    <3>3. QED BY <3>1, <3>2
  <2>7. QED BY <2>1, <2>4, <2>5, <2>6
<1>19. QED BY <1>12, <1>13, <1>14, <1>15, <1>16, <1>17, <1>18 DEF AuthInv


----------------------------------------------------------------------------
LEMMA NextAuth ==
    ASSUME ConstantsOK, AuthInv, [Next]_vars
    PROVE  AuthInv'
<1>1. CASE UNCHANGED vars
  <2>1. /\ UNCHANGED <<jar, last, login, manager, req, faults, ended, forgot>>
        /\ UNCHANGED <<revoking, live>>
    BY <1>1 DEF vars, provider
  <2>2. QED BY <2>1, QuietKeeps
<1>2. CASE Next
  <2>1. ASSUME NEW p \in Procs, Request(p) \/ Callback(p) \/ Logout(p) PROVE AuthInv'
    BY <2>1, SendKeeps DEF Request, Callback, Logout
  <2>2. ASSUME NEW p \in Procs, Step(p) PROVE AuthInv'
    BY <2>2, CheckKeeps, TakeGateKeeps, RecheckKeeps, PostKeeps, StoreKeeps, HandleKeeps,
       ExchangeCodeKeeps, BuryKeeps, DeliverKeeps DEF Step
  <2>3. ASSUME NEW p \in Procs, CallFails(p) \/ CodeRefused(p) \/ Dropped(p) PROVE AuthInv'
    BY <2>3, CallFailsKeeps, CodeRefusedKeeps, DroppedKeeps
  <2>4. ASSUME NEW n \in Tokens, Age(n) PROVE AuthInv'
    <3>1. /\ UNCHANGED <<jar, last, login, manager, req, faults, ended, forgot>>
          /\ UNCHANGED <<revoking, live>>
      BY <2>4 DEF Age, provider
    <3>2. QED BY <3>1, QuietKeeps
  <2>5. QED BY <1>2, <2>1, <2>2, <2>3, <2>4, RevokeKeeps, ExpireKeeps, RestartKeeps DEF Next
<1>3. QED BY <1>1, <1>2

LEMMA AuthKeeps ==
    ASSUME AuthInv
    PROVE  NoReplay /\ RefusedForCause /\ LogoutHolds
<1>1. NoReplay
  BY PostsKnown DEF NoReplay
<1>2. RefusedForCause
  BY DEF AuthInv, AllWell, Well, RefusedForCause
<1>3. LogoutHolds
  BY DEF AuthInv, AllWell, Well, ForgotOf, LogoutHolds
<1>4. QED BY <1>1, <1>2, <1>3

\* Whatever requests, responses, calls and restarts overtake each other, and however many of
\* them: a refresh token is not sent again but where a memory was lost or a logout came between,
\* nobody is turned away without a cause, and a logout ends its sign-in for good
\* (auth/session.rs, auth/middleware.rs, routes/auth.rs).
THEOREM AuthCorrect ==
    ASSUME ConstantsOK
    PROVE  Spec => [](NoReplay /\ RefusedForCause /\ LogoutHolds)
<1>1. Init => AuthInv
  BY InitAuth
<1>2. AuthInv /\ [Next]_vars => AuthInv'
  BY NextAuth
<1>3. AuthInv => NoReplay /\ RefusedForCause /\ LogoutHolds
  BY AuthKeeps
<1>4. QED BY <1>1, <1>2, <1>3, PTL DEF Spec
=============================================================================
