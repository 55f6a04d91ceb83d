-------------------------- MODULE CardLinksProofs --------------------------
(***************************************************************************)
(* Proofs about CardLinks, for every set of cards, boards, handlers, kinds *)
(* of request and number of requests:                                      *)
(*   NewLinkKeepsNoLoop   what the cycle check is for;                     *)
(*   TypeCorrect      the type invariant;                                  *)
(*   InvCorrect       the strengthening CardLinksInv;                      *)
(*   Implements       CardLinks implements LinkGraph;                      *)
(*   LinkGraphCorrect what LinkGraph promises, it keeps;                   *)
(*   LinksAcyclic     no interleaving ever closes a loop of links.         *)
(*   CascadeRecordsLinksCorrect   a cascade takes no link in silence.      *)
(***************************************************************************)
EXTENDS CardLinks, TLAPS

USE CardsAssumption, HomeAssumption, ProcsAssumption, OpsAssumption, MaxRequestsAssumption

----------------------------------------------------------------------------
(* Reachability, for any set of links                                      *)

\* The links followed from one card reach that card itself.
LEMMA ReachesSelf ==
    ASSUME NEW E, NEW a
    PROVE  Reaches(E, a, a)
BY DEF Reaches

\* What follows from a card is a closed set: if b follows from a and the
\* arrow <<b, c>> is in E then c follows from a too.
LEMMA ReachesStep ==
    ASSUME NEW E, NEW a, NEW e \in E, Reaches(E, a, e[1])
    PROVE  Reaches(E, a, e[2])
BY DEF Reaches, Closed

\* Fewer links reach less.
LEMMA ReachesSubset ==
    ASSUME NEW E, NEW F \in SUBSET E, NEW a, NEW b, Reaches(F, a, b)
    PROVE  Reaches(E, a, b)
<1>1. ASSUME NEW S, Closed(E, S) PROVE Closed(F, S)
  BY <1>1 DEF Closed
<1> QED BY <1>1 DEF Reaches

\* Removing links closes no loop.
LEMMA SubsetKeepsNoLoop ==
    ASSUME NEW E, NEW F \in SUBSET E, NoLoop(E)
    PROVE  NoLoop(F)
BY ReachesSubset DEF NoLoop

\* The set of cards that follow from a.
After(E, a) == {c \in Cards : Reaches(E, a, c)}

LEMMA AfterClosed ==
    ASSUME NEW E \in SUBSET (Cards \X Cards), NEW a
    PROVE  Closed(E, After(E, a))
BY ReachesStep DEF After, Closed

\* The rule of would_create_cycle is the right one: a link whose predecessor
\* does not follow from its successor can be added to a graph without loops,
\* and the graph still has none.
THEOREM NewLinkKeepsNoLoop ==
    ASSUME NEW E \in SUBSET (Cards \X Cards), NoLoop(E),
           NEW pred \in Cards, NEW succ \in Cards, ~Reaches(E, succ, pred)
    PROVE  NoLoop(E \cup {<<pred, succ>>})
<1> DEFINE F == E \cup {<<pred, succ>>}
<1> SUFFICES ASSUME NEW f \in F PROVE ~Reaches(F, f[2], f[1])
  BY DEF NoLoop
\* The new arrow starts outside what follows from succ, so that set stays
\* closed and keeps pred out.
<1>1. Closed(F, After(E, succ))
  BY AfterClosed DEF After, Closed
<1>2. succ \in After(E, succ)
  BY ReachesSelf DEF After
<1>3. pred \notin After(E, succ)
  BY DEF After
<1>4. CASE f = <<pred, succ>>
  BY <1>1, <1>2, <1>3, <1>4 DEF Reaches, After
<1>5. CASE f \in E
  <2>1. f[1] \in Cards /\ f[2] \in Cards
    BY <1>5
  <2>2. f[2] \in After(E, f[2]) /\ f[1] \notin After(E, f[2])
    BY <1>5, <2>1, ReachesSelf DEF After, NoLoop
  <2>3. CASE pred \notin After(E, f[2])
    <3>1. Closed(F, After(E, f[2]))
      BY <2>3, AfterClosed DEF Closed
    <3>2. QED BY <3>1, <2>2 DEF Reaches, After
  \* Otherwise the new arrow leads on from what follows f's end: join both.
  <2>4. CASE pred \in After(E, f[2])
    <3> DEFINE U == After(E, f[2]) \cup After(E, succ)
    <3>1. Closed(F, U)
      BY <1>2, AfterClosed DEF Closed
    <3>2. f[1] \notin After(E, succ)
      <4>1. SUFFICES ASSUME f[1] \in After(E, succ) PROVE FALSE
        OBVIOUS
      <4>2. f[2] \in After(E, succ)
        BY <4>1, <1>5, <2>1, ReachesStep DEF After
      <4>3. \A S \in SUBSET Cards : succ \in S /\ Closed(E, S) => pred \in S
        BY <4>2, <2>4 DEF After, Reaches
      <4>4. QED BY <4>3 DEF Reaches
    <3>3. f[1] \notin U /\ f[2] \in U
      BY <2>2, <3>2
    <3>4. QED BY <3>1, <3>3 DEF Reaches, After
  <2>5. QED BY <2>3, <2>4
<1>6. QED BY <1>4, <1>5

----------------------------------------------------------------------------

LEMMA GotoType ==
    ASSUME TypeOK, NEW p \in Procs, NEW label \in Labels, Goto(p, label)
    PROVE  pc' \in [Procs -> Labels]
BY DEF TypeOK, Goto

LEMMA ArriveType ==
    ASSUME TypeOK, NEW p \in Procs, NEW o, NEW c \in Cards,
           NEW label \in Labels, Arrive(p, o, c, label)
    PROVE  /\ pc' \in [Procs -> Labels]
           /\ op' \in [Procs -> AllOps]
           /\ card' \in [Procs -> Cards]
           /\ issued' \in Nat
BY DEF TypeOK, Arrive, Goto

LEMMA WorkOnType ==
    ASSUME TypeOK, NEW p \in Procs, NEW rows \in SUBSET LinkRow, WorkOn(p, rows)
    PROVE  /\ pc' \in [Procs -> Labels]
           /\ todo' \in [Procs -> SUBSET LinkRow]
<1>1. AfterLinks(op[p]) \in Labels
  BY DEF AfterLinks, Labels, TypeOK
<1>2. QED BY <1>1 DEF TypeOK, WorkOn, Goto, Labels

LEMMA ArrivalsKeepType ==
    ASSUME TypeOK, NEW p \in Procs, Arrivals(p)
    PROVE  TypeOK'
<1> USE DEF Labels, store, locks, read
<1>1. ASSUME NEW c \in Cards, NEW pred \in Cards, NEW succ \in Cards,
             CreateArrives(p, c, pred, succ)
      PROVE  TypeOK'
  BY <1>1, ArriveType DEF CreateArrives, TypeOK
<1>2. ASSUME NEW l \in links, DeleteLinkArrives(p, l)
      PROVE  TypeOK'
  <2>1. l.pred \in Cards /\ l \in LinkRow
    BY DEF TypeOK, LinkRow
  <2>2. QED BY <1>2, <2>1, ArriveType DEF DeleteLinkArrives, TypeOK
<1>3. ASSUME NEW c \in Cards,
             DeleteCardArrives(p, c) \/ CascadeArrives(p, c) \/ RestoreArrives(p, c)
      PROVE  TypeOK'
  BY <1>3, ArriveType
     DEF DeleteCardArrives, CascadeArrives, RestoreArrives, TypeOK
<1>4. QED BY <1>1, <1>2, <1>3 DEF Arrivals

\* ON DELETE CASCADE: the links left are between the cards left.
LEMMA DeleteKeepsReferences ==
    ASSUME TypeOK, NEW c \in Cards, DeleteCardRow(c)
    PROVE  /\ cards' \subseteq Cards /\ links' \subseteq LinkRow
           /\ \A l \in links' : l.pred \in cards' /\ l.succ \in cards'
BY DEF TypeOK, DeleteCardRow, Touching

LEMMA StepsKeepType ==
    ASSUME TypeOK, NEW p \in Procs, Step(p)
    PROVE  TypeOK'
<1> USE DEF Labels, InBlock, store, locks, read, request
<1>1. CASE SelectOther(p)
  BY <1>1, GotoType DEF SelectOther, TypeOK
<1>2. CASE TakeLock(p)
  BY <1>2, GotoType DEF TakeLock, TypeOK
<1>3. CASE ReadGraph(p)
  <2>1. Edges(BoardLinks(Home[pair[p][1]])) \subseteq Cards \X Cards
    BY DEF TypeOK, Edges, BoardLinks, LinkRow
  <2>2. seen' \in [Procs -> SUBSET (Cards \X Cards)]
    BY <1>3, <2>1 DEF ReadGraph, TypeOK
  <2>3. pc' \in [Procs -> Labels] /\ lock' \in Procs \cup {NoOne}
    BY <1>3, GotoType DEF ReadGraph, LeaveBlock, TypeOK
  <2>4. QED BY <1>3, <2>2, <2>3 DEF ReadGraph, TypeOK
<1>4. ASSUME NEW at, NEW c, NEW label \in Labels, Recheck(p, at, c, label)
      PROVE  TypeOK'
  <2>1. pc' \in [Procs -> Labels] /\ lock' \in Procs \cup {NoOne}
    BY <1>4, GotoType DEF Recheck, LeaveBlock, TypeOK
  <2>2. QED BY <1>4, <2>1 DEF Recheck, TypeOK
<1>5. CASE InsertLink(p)
  <2>1. [id |-> nextLink, pred |-> pair[p][1], succ |-> pair[p][2]] \in LinkRow
    BY DEF TypeOK, LinkRow
  <2>2. links' \subseteq LinkRow /\ nextLink' \in Nat
    BY <1>5, <2>1 DEF InsertLink, TypeOK
  <2>3. pc' \in [Procs -> Labels] /\ lock' \in Procs \cup {NoOne}
    BY <1>5, GotoType DEF InsertLink, LeaveBlock
  <2>4. QED BY <1>5, <2>2, <2>3 DEF InsertLink, TypeOK
<1>6. CASE LockRow(p)
  <2>1. rowLock' \in [Cards -> Procs \cup {NoOne}]
    BY <1>6 DEF LockRow, TypeOK
  <2>2. pc' \in [Procs -> Labels]
    BY <1>6, GotoType DEF LockRow
  <2>3. QED BY <1>6, <2>1, <2>2 DEF LockRow, TypeOK
<1>7. CASE ListLinks(p)
  <2>1. Touching(card[p]) \subseteq LinkRow
    BY DEF Touching, TypeOK
  <2>2. QED BY <1>7, <2>1, WorkOnType DEF ListLinks, TypeOK
<1>8. CASE RecordLink(p)
  <2>1. \A l \in todo[p] : l.id \in Nat
    BY DEF TypeOK, LinkRow
  <2>2. QED BY <1>8, <2>1, GotoType DEF RecordLink, TypeOK
<1>9. CASE RemoveLink(p)
  <2>1. PICK l \in todo[p] :
          links' = {m \in links : m.id # l.id} /\ WorkOn(p, todo[p] \ {l})
    BY <1>9 DEF RemoveLink
  <2>2. todo[p] \ {l} \in SUBSET LinkRow
    BY DEF TypeOK
  <2>3. pc' \in [Procs -> Labels] /\ todo' \in [Procs -> SUBSET LinkRow]
    BY <2>1, <2>2, WorkOnType
  <2>4. QED BY <1>9, <2>1, <2>3 DEF RemoveLink, TypeOK
<1>10. CASE DropCard(p)
  <2>1. card[p] \in Cards
    BY DEF TypeOK
  <2>2. QED BY <1>10, <2>1, GotoType, DeleteKeepsReferences DEF DropCard, TypeOK
<1>11. CASE CommitCascade(p)
  <2>1. rowLock' \in [Cards -> Procs \cup {NoOne}]
    BY <1>11 DEF CommitCascade, TypeOK
  <2>2. card[p] \in Cards
    BY DEF TypeOK
  <2>3. QED BY <1>11, <2>1, <2>2, GotoType, DeleteKeepsReferences DEF CommitCascade, TypeOK
<1>12. CASE Reinsert(p)
  BY <1>12, GotoType DEF Reinsert, TypeOK
<1>13. QED
  BY <1>1, <1>2, <1>3, <1>4, <1>5, <1>6, <1>7, <1>8, <1>9, <1>10, <1>11, <1>12
     DEF Step, RecheckPredecessor, RecheckSuccessor, InBlock

LEMMA DroppedKeepsType ==
    ASSUME TypeOK, NEW p \in Procs, Dropped(p)
    PROVE  TypeOK'
<1>1. pc' \in [Procs -> Labels]
  BY GotoType DEF Dropped, Labels
<1>2. rowLock' \in [Cards -> Procs \cup {NoOne}]
  BY DEF Dropped, TypeOK
<1>3. QED BY <1>1, <1>2 DEF Dropped, TypeOK, store, request, read

LEMMA InitType == Init => TypeOK
<1> SUFFICES ASSUME Init PROVE TypeOK
  OBVIOUS
<1>1. (CHOOSE c \in Cards : TRUE) \in Cards
  BY Zenon
<1>2. card \in [Procs -> Cards] /\ pair \in [Procs -> Cards \X Cards]
  BY <1>1 DEF Init
<1>3. pc \in [Procs -> Labels] /\ op \in [Procs -> AllOps]
  BY DEF Init, Labels, AllOps
<1>4. QED BY <1>2, <1>3 DEF Init, TypeOK

\* The type invariant.
THEOREM TypeCorrect == Spec => []TypeOK
<1>1. TypeOK /\ [Next]_vars => TypeOK'
  <2>1. CASE UNCHANGED vars
    BY <2>1 DEF vars, store, locks, request, read, TypeOK
  <2>2. QED BY <2>1, ArrivalsKeepType, StepsKeepType, DroppedKeepsType DEF Next
<1>2. QED BY InitType, <1>1, PTL DEF Spec

----------------------------------------------------------------------------
(* The strengthening CardLinksInv                                          *)

LEMMA InitInv == Init => CardLinksInv
<1> SUFFICES ASSUME Init PROVE CardLinksInv
  OBVIOUS
<1>1. \A p \in Procs : pc[p] = "idle"
  BY DEF Init
<1>2. QED
  BY <1>1, InitType
     DEF Init, CardLinksInv, LockHeld, SameBoard, RowsKeyed, CheckStaysValid,
         CheckPassed, InBlock

\* Work outside the locked block only ever takes links away, and no link
\* without its ends: whatever a create has read and checked still holds.
LEMMA OutsideBlock ==
    ASSUME CardLinksInv, TypeOK', NEW p \in Procs,
           NEW label \in Labels \ (InBlock \cup {"lock"}), Goto(p, label),
           lock' = lock, nextLink' = nextLink, links' \subseteq links,
           \A l \in links' : l.pred \in cards' /\ l.succ \in cards',
           \A q \in Procs \ {p} : pair'[q] = pair[q] /\ seen'[q] = seen[q]
    PROVE  CardLinksInv'
<1> USE DEF CardLinksInv
<1>1. pc'[p] \notin InBlock \cup {"lock"}
  BY DEF Goto, TypeOK
<1>2. \A q \in Procs \ {p} : pc'[q] = pc[q]
  BY DEF Goto, TypeOK
<1>3. LockHeld'
  BY <1>1, <1>2 DEF LockHeld
<1>4. SameBoard'
  BY <1>1, <1>2 DEF SameBoard
<1>5. RowsKeyed'
  BY DEF RowsKeyed
<1>6. CheckStaysValid'
  <2>1. SUFFICES ASSUME NEW q \in Procs,
                        pc'[q] \in {"recheck_pred", "recheck_succ", "insert"}
                 PROVE  Edges(BoardLinks(Home[pair[q][1]]))' \subseteq seen'[q]
    BY DEF CheckStaysValid
  <2>2. q # p
    BY <1>1, <2>1 DEF InBlock
  <2>3. Edges(BoardLinks(Home[pair[q][1]])) \subseteq seen[q]
    BY <2>1, <2>2, <1>2 DEF CheckStaysValid
  <2>4. QED BY <2>2, <2>3 DEF Edges, BoardLinks
<1>7. CheckPassed'
  BY <1>1, <1>2 DEF CheckPassed, InBlock
<1>8. QED BY <1>3, <1>4, <1>5, <1>6, <1>7

LEMMA ArrivalsKeepInv ==
    ASSUME CardLinksInv, NEW p \in Procs, Arrivals(p)
    PROVE  CardLinksInv'
<1> USE DEF store, locks, read
<1>1. TypeOK /\ TypeOK' /\ RowsKeyed
  BY ArrivalsKeepType DEF CardLinksInv
<1>2. PICK label \in {"select_other", "record", "list", "lock_row", "reinsert"} :
        Goto(p, label)
  BY DEF Arrivals, CreateArrives, DeleteLinkArrives, DeleteCardArrives,
         CascadeArrives, RestoreArrives, Arrive
<1>3. UNCHANGED <<store, locks, seen>>
  BY DEF Arrivals, CreateArrives, DeleteLinkArrives, DeleteCardArrives,
         CascadeArrives, RestoreArrives
<1>4. \A q \in Procs \ {p} : pair'[q] = pair[q]
  BY <1>1 DEF Arrivals, CreateArrives, DeleteLinkArrives, DeleteCardArrives,
         CascadeArrives, RestoreArrives, TypeOK
<1>5. label \in Labels \ (InBlock \cup {"lock"})
  BY DEF Labels, InBlock
<1>6. QED BY <1>1, <1>2, <1>3, <1>4, <1>5, OutsideBlock DEF RowsKeyed

\* A step of p inside the block before the INSERT changes no row.  Going on,
\* p keeps the lock; leaving, it hands it back.
LEMMA InsideBlock ==
    ASSUME CardLinksInv, TypeOK', NEW p \in Procs, pc[p] \in InBlock,
           UNCHANGED <<links, cards, nextLink, pair>>,
           \A q \in Procs \ {p} : seen'[q] = seen[q],
           \/ LeaveBlock(p)
           \/ /\ UNCHANGED lock
              /\ \E label \in InBlock : Goto(p, label)
              /\ Edges(BoardLinks(Home[pair[p][1]])) \subseteq seen'[p]
              /\ ~WouldCreateCycle(seen'[p], pair[p][1], pair[p][2])
    PROVE  CardLinksInv'
<1> USE DEF CardLinksInv
<1>1. \A q \in Procs \ {p} : pc'[q] = pc[q] /\ pc[q] \notin InBlock
  BY DEF LeaveBlock, Goto, TypeOK, LockHeld
<1>2. pc'[p] = "idle" \/ (pc'[p] \in InBlock /\ lock' = lock)
  BY DEF LeaveBlock, Goto, TypeOK
<1>3. LockHeld'
  BY <1>1, <1>2 DEF LockHeld, InBlock
<1>4. SameBoard'
  BY <1>1, <1>2 DEF SameBoard, InBlock
<1>5. RowsKeyed'
  BY DEF RowsKeyed
<1>6. CheckStaysValid' /\ CheckPassed'
  <2>1. \A q \in Procs \ {p} :
          pc'[q] \notin {"recheck_pred", "recheck_succ", "insert"}
    BY <1>1 DEF InBlock
  <2>2. CASE LeaveBlock(p)
    <3>1. pc'[p] = "idle"
      BY <2>2 DEF LeaveBlock, Goto, TypeOK
    <3>2. QED BY <2>1, <3>1 DEF CheckStaysValid, CheckPassed
  <2>3. CASE ~LeaveBlock(p)
    BY <2>1, <2>3 DEF CheckStaysValid, CheckPassed, Edges, BoardLinks
  <2>4. QED BY <2>2, <2>3
<1>7. QED BY <1>3, <1>4, <1>5, <1>6

\* The heart of the matter: the check made of the links read under the lock
\* holds of all links of all boards when the INSERT runs.  The links of the
\* board are among those read, and no link leaves the board.
LEMMA CheckHoldsAtInsert ==
    ASSUME CardLinksInv, NEW p \in Procs,
           pc[p] \in {"recheck_pred", "recheck_succ", "insert"}
    PROVE  ~Reaches(Edges(links), pair[p][2], pair[p][1])
<1> DEFINE pred == pair[p][1]
           succ == pair[p][2]
           board == {c \in Cards : Home[c] = Home[pred]}
<1> USE DEF CardLinksInv
<1>1. pred \in Cards /\ succ \in board
  BY DEF TypeOK, SameBoard, InBlock
<1>2. PICK S \in SUBSET Cards : succ \in S /\ Closed(seen[p], S) /\ pred \notin S
  BY DEF CheckPassed, WouldCreateCycle, Reaches
<1>3. Closed(Edges(links), S \cap board)
  <2>1. SUFFICES ASSUME NEW l \in links, l.pred \in S, l.pred \in board
                 PROVE  l.succ \in S \cap board
    BY DEF Closed, Edges
  <2>2. <<l.pred, l.succ>> \in seen[p]
    BY <2>1 DEF CheckStaysValid, Edges, BoardLinks
  <2>3. l.succ \in S
    BY <2>1, <2>2, <1>2 DEF Closed
  <2>4. l.succ \in board
    BY <2>1 DEF SameBoard, TypeOK, LinkRow
  <2>5. QED BY <2>3, <2>4
<1>4. QED BY <1>1, <1>2, <1>3 DEF Reaches

LEMMA InsertKeepsInv ==
    ASSUME CardLinksInv, TypeOK', NEW p \in Procs, InsertLink(p)
    PROVE  CardLinksInv'
<1> DEFINE pred == pair[p][1]
           succ == pair[p][2]
           row == [id |-> nextLink, pred |-> pred, succ |-> succ]
<1> USE DEF CardLinksInv
<1>1. /\ pc[p] = "insert" /\ LeaveBlock(p)
      /\ UNCHANGED <<cards, pair, seen>>
      /\ \/ UNCHANGED <<links, nextLink>>
         \/ /\ links' = links \cup {row} /\ nextLink' = nextLink + 1
            /\ pred \in cards /\ succ \in cards
            /\ <<pred, succ>> \notin Edges(links)
  BY DEF InsertLink, read, request
<1>2. pc'[p] = "idle" /\ lock' = NoOne
  BY <1>1 DEF LeaveBlock, Goto, TypeOK
<1>3. \A q \in Procs \ {p} : pc'[q] = pc[q] /\ pc[q] \notin InBlock
  BY <1>1 DEF LeaveBlock, Goto, TypeOK, LockHeld, InBlock
<1>4. LockHeld' /\ CheckStaysValid' /\ CheckPassed'
  BY <1>2, <1>3 DEF LockHeld, CheckStaysValid, CheckPassed, InBlock
<1>5. SameBoard'
  <2>1. Home[pred] = Home[succ]
    BY <1>1 DEF SameBoard, InBlock
  <2>2. \A l \in links' : Home[l.pred] = Home[l.succ]
    BY <1>1, <2>1 DEF SameBoard
  <2>3. \A q \in Procs : pc'[q] \in InBlock \cup {"lock"} =>
          q # p /\ pc[q] \in InBlock \cup {"lock"}
    BY <1>2, <1>3 DEF InBlock
  <2>4. \A q \in Procs : pc'[q] \in InBlock \cup {"lock"} =>
          Home[pair'[q][1]] = Home[pair'[q][2]]
    BY <1>1, <2>3 DEF SameBoard
  <2>5. QED BY <2>2, <2>4 DEF SameBoard
<1>6. RowsKeyed'
  <2>1. CASE UNCHANGED <<links, nextLink>>
    BY <1>1, <2>1 DEF RowsKeyed
  <2>2. CASE /\ links' = links \cup {row} /\ nextLink' = nextLink + 1
             /\ pred \in cards /\ succ \in cards
             /\ <<pred, succ>> \notin Edges(links)
    <3>1. \A l \in links : l.id \in Nat /\ l.id < nextLink /\ nextLink \in Nat
      BY DEF RowsKeyed, TypeOK, LinkRow
    <3>2. \A l \in links : <<l.pred, l.succ>> # <<pred, succ>>
      BY <2>2 DEF Edges
    <3>3. \A l \in links' :
            l.id < nextLink' /\ l.pred \in cards' /\ l.succ \in cards'
      <4>1. nextLink < nextLink'
        BY <2>2, <3>1 DEF TypeOK
      <4>2. row.id < nextLink' /\ row.pred \in cards' /\ row.succ \in cards'
        BY <1>1, <2>2, <4>1
      <4>3. \A l \in links :
              l.id < nextLink' /\ l.pred \in cards' /\ l.succ \in cards'
        BY <1>1, <2>2, <3>1, <4>1 DEF RowsKeyed, TypeOK
      <4>4. QED BY <2>2, <4>2, <4>3
    <3>4. \A l, m \in links' :
            l.id = m.id \/ <<l.pred, l.succ>> = <<m.pred, m.succ>> => l = m
      BY <2>2, <3>1, <3>2 DEF RowsKeyed
    <3>5. QED BY <3>3, <3>4 DEF RowsKeyed
  <2>3. QED BY <1>1, <2>1, <2>2
<1>7. QED BY <1>4, <1>5, <1>6

\* Deleting a card row takes the rows of its links along.
LEMMA DeleteCardRowFacts ==
    ASSUME CardLinksInv, NEW c \in Cards, DeleteCardRow(c)
    PROVE  /\ links' \subseteq links
           /\ \A l \in links' : l.pred \in cards' /\ l.succ \in cards'
           /\ Edges(links') = {e \in Edges(links) : e[1] # c /\ e[2] # c}
BY DEF DeleteCardRow, Touching, Edges, CardLinksInv, RowsKeyed

LEMMA StepsKeepInv ==
    ASSUME CardLinksInv, NEW p \in Procs, Step(p)
    PROVE  CardLinksInv'
<1> USE DEF store, locks, read, request
<1>1. TypeOK /\ TypeOK' /\ RowsKeyed /\ card[p] \in Cards
  BY StepsKeepType DEF CardLinksInv, TypeOK
<1>2. CASE SelectOther(p)
  <2>1. CASE Goto(p, "idle")
    BY <1>1, <1>2, <2>1, OutsideBlock DEF SelectOther, Labels, InBlock, RowsKeyed
  <2>2. CASE Goto(p, "lock") /\ Home[pair[p][1]] = Home[pair[p][2]]
    <3>1. pc'[p] = "lock" /\ \A q \in Procs \ {p} : pc'[q] = pc[q]
      BY <1>1, <2>2 DEF Goto, TypeOK
    <3>2. SameBoard'
      BY <1>2, <2>2, <3>1 DEF SelectOther, SameBoard, CardLinksInv
    <3>3. LockHeld' /\ CheckStaysValid' /\ CheckPassed'
      BY <1>2, <3>1 DEF SelectOther, CardLinksInv, LockHeld, CheckStaysValid,
         CheckPassed, InBlock, Edges, BoardLinks
    <3>4. QED BY <1>1, <1>2, <3>2, <3>3 DEF SelectOther, CardLinksInv, RowsKeyed
  <2>3. QED BY <1>2, <2>1, <2>2 DEF SelectOther
<1>3. CASE TakeLock(p)
  <2>1. pc'[p] = "read" /\ \A q \in Procs \ {p} : pc'[q] = pc[q]
    BY <1>1, <1>3 DEF TakeLock, Goto, TypeOK
  <2>2. \A q \in Procs : pc[q] \notin InBlock
    BY <1>3 DEF TakeLock, CardLinksInv, LockHeld
  <2>3. LockHeld' /\ CheckStaysValid' /\ CheckPassed'
    BY <1>3, <2>1, <2>2 DEF TakeLock, LockHeld, CheckStaysValid, CheckPassed, InBlock
  <2>4. SameBoard'
    BY <1>3, <2>1 DEF TakeLock, CardLinksInv, SameBoard
  <2>5. QED BY <1>1, <1>3, <2>3, <2>4 DEF TakeLock, CardLinksInv, RowsKeyed
<1>4. CASE ReadGraph(p)
  <2>1. UNCHANGED <<links, cards, nextLink, pair>> /\ pc[p] \in InBlock
    BY <1>4 DEF ReadGraph, InBlock
  <2>2. /\ seen'[p] = Edges(BoardLinks(Home[pair[p][1]]))
        /\ \A q \in Procs \ {p} : seen'[q] = seen[q]
    BY <1>1, <1>4 DEF ReadGraph, TypeOK
  <2>3. \/ LeaveBlock(p)
        \/ /\ UNCHANGED lock /\ Goto(p, "recheck_pred")
           /\ ~WouldCreateCycle(seen'[p], pair[p][1], pair[p][2])
    BY <1>4, <2>2 DEF ReadGraph
  <2>4. QED BY <1>1, <2>1, <2>2, <2>3, InsideBlock DEF InBlock
<1>5. ASSUME NEW at \in {"recheck_pred", "recheck_succ"}, NEW c,
             NEW label \in InBlock, Recheck(p, at, c, label)
      PROVE  CardLinksInv'
  <2>1. /\ UNCHANGED <<links, cards, nextLink, pair, seen>>
        /\ pc[p] \in InBlock
        /\ pc[p] \in {"recheck_pred", "recheck_succ", "insert"}
    BY <1>5 DEF Recheck, InBlock
  <2>2. /\ Edges(BoardLinks(Home[pair[p][1]])) \subseteq seen'[p]
        /\ ~WouldCreateCycle(seen'[p], pair[p][1], pair[p][2])
    BY <2>1 DEF CardLinksInv, CheckStaysValid, CheckPassed
  <2>3. LeaveBlock(p) \/ (UNCHANGED lock /\ Goto(p, label))
    BY <1>5 DEF Recheck
  <2>4. QED BY <1>1, <1>5, <2>1, <2>2, <2>3, InsideBlock
<1>6. CASE InsertLink(p)
  BY <1>1, <1>6, InsertKeepsInv
<1>7. CASE LockRow(p) \/ RecordLink(p) \/ Reinsert(p)
  <2>1. PICK label \in {"list", "idle", "remove"} : Goto(p, label)
    BY <1>7 DEF LockRow, RecordLink, Reinsert
  <2>2. UNCHANGED <<lock, links, nextLink, pair, seen>> /\ cards \subseteq cards'
    BY <1>7 DEF LockRow, RecordLink, Reinsert
  <2>3. QED BY <1>1, <2>1, <2>2, OutsideBlock DEF Labels, InBlock, RowsKeyed
<1>8. CASE ListLinks(p) \/ RemoveLink(p)
  <2>1. PICK rows : WorkOn(p, rows)
    BY <1>8 DEF ListLinks, RemoveLink
  <2>2. PICK label \in {"record", "idle", "drop_card", "commit"} : Goto(p, label)
    BY <2>1 DEF WorkOn, AfterLinks
  <2>3. UNCHANGED <<lock, cards, nextLink, pair, seen>> /\ links' \subseteq links
    BY <1>8 DEF ListLinks, RemoveLink
  <2>4. QED BY <1>1, <2>2, <2>3, OutsideBlock DEF Labels, InBlock, RowsKeyed
<1>9. CASE DropCard(p) \/ CommitCascade(p)
  <2>1. /\ DeleteCardRow(card[p]) /\ Goto(p, "idle")
        /\ UNCHANGED <<lock, nextLink, pair, seen>>
    BY <1>9 DEF DropCard, CommitCascade
  <2>2. QED
    BY <1>1, <2>1, DeleteCardRowFacts, OutsideBlock DEF Labels, InBlock
<1>10. QED
  BY <1>2, <1>3, <1>4, <1>5, <1>6, <1>7, <1>8, <1>9
     DEF Step, RecheckPredecessor, RecheckSuccessor, InBlock

LEMMA DroppedKeepsInv ==
    ASSUME CardLinksInv, NEW p \in Procs, Dropped(p)
    PROVE  CardLinksInv'
<1>1. TypeOK /\ TypeOK' /\ RowsKeyed
  BY DroppedKeepsType DEF CardLinksInv
<1>2. UNCHANGED <<cards, links, nextLink, pair, seen>> /\ Goto(p, "idle")
  BY DEF Dropped, store, request, read
<1>3. CASE pc[p] \in InBlock
  BY <1>1, <1>2, <1>3, InsideBlock DEF Dropped, LeaveBlock
<1>4. CASE pc[p] \notin InBlock
  <2>1. lock' = lock
    BY <1>4 DEF Dropped
  <2>2. QED BY <1>1, <1>2, <2>1, OutsideBlock DEF Labels, InBlock, RowsKeyed
<1>5. QED BY <1>3, <1>4

LEMMA UnchangedKeepsInv == CardLinksInv /\ UNCHANGED vars => CardLinksInv'
BY DEF vars, store, locks, request, read, CardLinksInv, TypeOK, LockHeld,
   SameBoard, RowsKeyed, CheckStaysValid, CheckPassed, Edges, BoardLinks

\* The lock is held inside the block and only there, and what was read under
\* it covers the board's links until the INSERT, for any number of handlers.
THEOREM InvCorrect == Spec => []CardLinksInv
<1>1. CardLinksInv /\ [Next]_vars => CardLinksInv'
  BY ArrivalsKeepInv, StepsKeepInv, DroppedKeepsInv, UnchangedKeepsInv DEF Next
<1>2. QED BY InitInv, <1>1, PTL DEF Spec

\* The check made under the lock cannot go stale before the INSERT.
THEOREM CheckStaysValidCorrect == Spec => []CheckStaysValid
BY InvCorrect, PTL DEF CardLinksInv

----------------------------------------------------------------------------
(* Refinement                                                              *)

LEMMA StepImplements ==
    ASSUME CardLinksInv, NEW p \in Procs, Step(p)
    PROVE  [Graph!Next]_(Graph!vars)
<1> USE DEF store, locks, read, request, Graph!vars
<1>1. TypeOK /\ RowsKeyed /\ card[p] \in Cards /\ pair[p] \in Cards \X Cards
  BY DEF CardLinksInv, TypeOK
<1>2. CASE \/ SelectOther(p) \/ TakeLock(p) \/ ReadGraph(p)
           \/ RecheckPredecessor(p) \/ RecheckSuccessor(p)
           \/ LockRow(p) \/ ListLinks(p) \/ RecordLink(p)
  BY <1>2 DEF SelectOther, TakeLock, ReadGraph, RecheckPredecessor,
     RecheckSuccessor, Recheck, LockRow, ListLinks, RecordLink
<1>3. CASE InsertLink(p)
  <2>1. CASE UNCHANGED links
    BY <1>3, <2>1 DEF InsertLink
  <2>2. CASE ~UNCHANGED links
    <3> DEFINE pred == pair[p][1]
               succ == pair[p][2]
               row == [id |-> nextLink, pred |-> pred, succ |-> succ]
    <3>1. /\ pc[p] = "insert" /\ UNCHANGED cards
          /\ pred \in cards /\ succ \in cards
          /\ links' = links \cup {row}
      BY <1>3, <2>2 DEF InsertLink
    <3>2. Edges(links') = Edges(links) \cup {<<pred, succ>>}
      <4>1. row.pred = pred /\ row.succ = succ
        OBVIOUS
      <4>2. \A l : l \in links' <=> l \in links \/ l = row
        BY <3>1
      <4> HIDE DEF row, pred, succ
      <4>3. ASSUME NEW e PROVE e \in Edges(links') <=> e \in Edges(links) \/ e = <<pred, succ>>
        <5>1. e \in Edges(links') <=> \E l : l \in links' /\ e = <<l.pred, l.succ>>
          BY DEF Edges
        <5>2. e \in Edges(links) <=> \E l : l \in links /\ e = <<l.pred, l.succ>>
          BY DEF Edges
        <5>3. QED BY <5>1, <5>2, <4>1, <4>2
      <4>4. QED BY <4>3
    <3>3. ~Graph!Reaches(Edges(links), succ, pred)
      BY <3>1, CheckHoldsAtInsert DEF Reaches, Closed, Graph!Reaches, Graph!Closed
    <3>4. Graph!AddLink(pred, succ)
      BY <3>1, <3>2, <3>3 DEF Graph!AddLink
    <3>5. QED BY <1>1, <3>4 DEF Graph!Next
  <2>3. QED BY <2>1, <2>2
<1>4. CASE RemoveLink(p)
  <2>1. PICK id : links' = {m \in links : m.id # id} /\ UNCHANGED cards
    BY <1>4 DEF RemoveLink
  <2>2. CASE \A m \in links : m.id # id
    BY <2>1, <2>2
  <2>3. CASE \E m \in links : m.id = id
    <3>1. PICK m \in links : m.id = id
      BY <2>3
    <3>2. links' = links \ {m}
      BY <1>1, <2>1, <3>1 DEF RowsKeyed
    <3>3. Edges(links') = Edges(links) \ {<<m.pred, m.succ>>}
      BY <1>1, <3>1, <3>2 DEF Edges, RowsKeyed
    <3>4. <<m.pred, m.succ>> \in Edges(links)
      BY <3>1 DEF Edges
    <3>5. QED BY <2>1, <3>3, <3>4 DEF Graph!Next, Graph!RemoveLink
  <2>4. QED BY <2>2, <2>3
<1>5. CASE DropCard(p) \/ CommitCascade(p)
  <2>1. DeleteCardRow(card[p])
    BY <1>5 DEF DropCard, CommitCascade
  <2>2. CASE card[p] \in cards
    BY <1>1, <2>1, <2>2, DeleteCardRowFacts
       DEF DeleteCardRow, Graph!Next, Graph!RemoveCard
  <2>3. CASE card[p] \notin cards
    <3>1. cards' = cards /\ links' = links
      BY <1>1, <2>1, <2>3 DEF DeleteCardRow, Touching, RowsKeyed
    <3>2. QED BY <3>1
  <2>4. QED BY <2>2, <2>3
<1>6. CASE Reinsert(p)
  <2>1. CASE card[p] \in cards
    BY <1>6, <2>1 DEF Reinsert
  <2>2. CASE card[p] \notin cards
    BY <1>1, <1>6, <2>2 DEF Reinsert, Graph!Next, Graph!RestoreCard
  <2>3. QED BY <2>1, <2>2
<1>7. QED BY <1>2, <1>3, <1>4, <1>5, <1>6 DEF Step

\* Statement by statement, lock by lock, the code amounts to LinkGraph.
THEOREM Implements == Spec => ImplementsLinkGraph
<1>1. Init => Graph!Init
  BY DEF Init, Graph!Init, Edges
<1>2. CardLinksInv /\ [Next]_vars => [Graph!Next]_(Graph!vars)
  <2>1. ASSUME NEW p \in Procs, Arrivals(p)
        PROVE  [Graph!Next]_(Graph!vars)
    BY <2>1 DEF Arrivals, CreateArrives, DeleteLinkArrives, DeleteCardArrives,
       CascadeArrives, RestoreArrives, store, Graph!vars
  <2>2. ASSUME NEW p \in Procs, Dropped(p)
        PROVE  [Graph!Next]_(Graph!vars)
    BY <2>2 DEF Dropped, store, Graph!vars
  <2>3. CASE UNCHANGED vars
    BY <2>3 DEF vars, store, Graph!vars
  <2>4. QED BY <2>1, <2>2, <2>3, StepImplements DEF Next
<1>3. QED BY <1>1, <1>2, InvCorrect, PTL DEF Spec, ImplementsLinkGraph, Graph!Spec

----------------------------------------------------------------------------
(* What LinkGraph promises                                                 *)

GraphInv == Graph!TypeOK /\ Graph!EndsExist /\ Graph!Acyclic

\* LinkGraph's reachability is the one the lemmas are about.
LEMMA GraphReaches ==
    /\ \A E, a, b : Graph!Reaches(E, a, b) <=> Reaches(E, a, b)
    /\ \A E : Graph!NoLoop(E) <=> NoLoop(E)
BY DEF Graph!NoLoop, Graph!Reaches, Graph!Closed, NoLoop, Reaches, Closed

LEMMA GraphSteps == GraphInv /\ [Graph!Next]_(Graph!vars) => GraphInv'
<1> SUFFICES ASSUME GraphInv, [Graph!Next]_(Graph!vars) PROVE GraphInv'
  OBVIOUS
<1> DEFINE E == Edges(links)
<1>1. /\ cards \subseteq Cards /\ E \subseteq Cards \X Cards /\ NoLoop(E)
      /\ \A e \in E : e[1] \in cards /\ e[2] \in cards
  BY GraphReaches DEF GraphInv, Graph!TypeOK, Graph!EndsExist, Graph!Acyclic
<1>2. SUFFICES /\ cards' \subseteq Cards /\ E' \subseteq Cards \X Cards /\ NoLoop(E')
               /\ \A e \in E' : e[1] \in cards' /\ e[2] \in cards'
  BY GraphReaches DEF GraphInv, Graph!TypeOK, Graph!EndsExist, Graph!Acyclic
<1> HIDE DEF E
<1>3. ASSUME NEW pred \in Cards, NEW succ \in Cards, pred \in cards, succ \in cards,
             ~Reaches(E, succ, pred), E' = E \cup {<<pred, succ>>}, cards' = cards
      PROVE  /\ cards' \subseteq Cards /\ E' \subseteq Cards \X Cards /\ NoLoop(E')
             /\ \A e \in E' : e[1] \in cards' /\ e[2] \in cards'
  BY <1>1, <1>3, NewLinkKeepsNoLoop
<1>4. ASSUME E' \subseteq E, cards' \subseteq Cards, \A e \in E' : e[1] \in cards' /\ e[2] \in cards'
      PROVE  /\ E' \subseteq Cards \X Cards /\ NoLoop(E')
  BY <1>1, <1>4, SubsetKeepsNoLoop
<1>5. ASSUME NEW pred \in Cards, NEW succ \in Cards, Graph!AddLink(pred, succ)
      PROVE  /\ pred \in cards /\ succ \in cards /\ ~Reaches(E, succ, pred)
             /\ E' = E \cup {<<pred, succ>>} /\ cards' = cards
  BY <1>5, GraphReaches DEF Graph!AddLink, E
<1>6. ASSUME ~(\E pred, succ \in Cards : Graph!AddLink(pred, succ))
      PROVE  E' \subseteq E /\ cards' \subseteq Cards /\ \A e \in E' : e[1] \in cards' /\ e[2] \in cards'
  BY <1>1, <1>6 DEF Graph!Next, Graph!vars, Graph!RemoveLink, Graph!RemoveCard, Graph!RestoreCard, E
<1>7. QED BY <1>3, <1>4, <1>5, <1>6

\* A graph that starts without links and takes a link only when its predecessor does not
\* follow from its successor is loop-free, and its links join cards that exist (LinkGraph,
\* here over the links of CardLinks).
THEOREM LinkGraphCorrect == Graph!Spec => [](Graph!TypeOK /\ Graph!EndsExist /\ Graph!Acyclic)
<1>1. Graph!Init => GraphInv
  BY DEF Graph!Init, GraphInv, Graph!TypeOK, Graph!EndsExist, Graph!Acyclic, Graph!NoLoop
<1>2. QED BY <1>1, GraphSteps, PTL DEF Graph!Spec, GraphInv

\* No interleaving of creates, deletes, cascades and restores, on however many
\* boards and cards, ever leaves a loop of links.
THEOREM LinksAcyclic == Spec => []Acyclic
<1>1. Graph!Acyclic => Acyclic
  BY GraphReaches DEF Graph!Acyclic, Acyclic
<1>2. QED BY Implements, LinkGraphCorrect, <1>1, PTL DEF ImplementsLinkGraph

----------------------------------------------------------------------------
(* No link goes in silence with a cascade                                  *)

Sweeping == {"list", "record", "remove", "commit"}

\* What handler p's deletion relies on: a cascade holds the row of its card, so every link
\* that touches the card is still on its list, and the link removed next has its row.
SweepOf(p) ==
    /\ pc[p] = "lock_row" => op[p] = "cascade"
    /\ pc[p] \in Sweeping => op[p] \in {"delete_link", "delete_card", "cascade"}
    /\ pc[p] = "commit" => op[p] = "cascade" /\ todo[p] = {}
    /\ op[p] = "cascade" /\ pc[p] \in Sweeping => rowLock[card[p]] = p
    /\ op[p] = "cascade" /\ pc[p] \in Sweeping \ {"list"} => Touching(card[p]) \subseteq todo[p]
    /\ pc[p] = "remove" => \A l \in todo[p] : Oldest(l, todo[p]) => l.id \in recorded

SweepInv == \A p \in Procs : SweepOf(p)

LEMMA InitSweep == Init => SweepInv
BY DEF Init, SweepInv, SweepOf, Sweeping

\* Handler q's deletion goes on undisturbed.
LEMMA OtherSweeps ==
    ASSUME NEW q \in Procs, SweepOf(q), recorded \subseteq recorded',
           pc'[q] = pc[q], op'[q] = op[q], card'[q] = card[q], todo'[q] = todo[q],
           rowLock[card[q]] = q => rowLock'[card[q]] = q,
           rowLock[card[q]] = q =>
               \A l \in links' : l \in links \/ card[q] \notin {l.pred, l.succ}
    PROVE  SweepOf(q)'
<1>1. op[q] = "cascade" /\ pc[q] \in Sweeping \ {"list"} => Touching(card[q])' \subseteq todo[q]
  <2>1. SUFFICES ASSUME op[q] = "cascade", pc[q] \in Sweeping \ {"list"}, NEW l \in Touching(card[q])'
                 PROVE  l \in todo[q]
    OBVIOUS
  <2>2. rowLock[card[q]] = q /\ Touching(card[q]) \subseteq todo[q]
    BY <2>1 DEF SweepOf
  <2>3. QED BY <2>1, <2>2 DEF Touching
<1>2. QED BY <1>1 DEF SweepOf, Oldest, Sweeping, Touching

LEMMA ArrivalsKeepSweep ==
    ASSUME TypeOK, SweepInv, NEW p \in Procs, Arrivals(p)
    PROVE  SweepInv'
<1> USE DEF store, locks, read
<1>1. UNCHANGED <<links, recorded, rowLock>>
  BY DEF Arrivals, CreateArrives, DeleteLinkArrives, DeleteCardArrives, CascadeArrives,
         RestoreArrives
<1>2. PICK o \in AllOps, label \in {"select_other", "record", "list", "lock_row", "reinsert"} :
          /\ op' = [op EXCEPT ![p] = o] /\ Goto(p, label)
          /\ label = "record" => o = "delete_link"
          /\ label = "list" => o = "delete_card"
          /\ label = "lock_row" => o = "cascade"
  BY DEF Arrivals, CreateArrives, DeleteLinkArrives, DeleteCardArrives, CascadeArrives,
         RestoreArrives, Arrive, AllOps
<1>3. \A q \in Procs \ {p} : card'[q] = card[q] /\ todo'[q] = todo[q]
  BY DEF Arrivals, CreateArrives, DeleteLinkArrives, DeleteCardArrives, CascadeArrives,
         RestoreArrives, Arrive, TypeOK
<1>4. op'[p] = o /\ pc'[p] = label
      /\ \A q \in Procs \ {p} : op'[q] = op[q] /\ pc'[q] = pc[q]
  BY <1>2 DEF Goto, TypeOK
<1>5. SweepOf(p)'
  BY <1>2, <1>4 DEF SweepOf, Sweeping
<1>6. ASSUME NEW q \in Procs \ {p} PROVE SweepOf(q)'
  BY <1>1, <1>3, <1>4, OtherSweeps DEF SweepInv
<1>7. QED BY <1>5, <1>6 DEF SweepInv

\* A step of p that takes no row and makes no link leaves the other deletions as they are.
LEMMA StepSweeps ==
    ASSUME TypeOK, SweepInv, NEW p \in Procs, NEW label, Goto(p, label),
           UNCHANGED <<op, card>>, recorded \subseteq recorded', links' \subseteq links,
           \A q \in Procs \ {p} : todo'[q] = todo[q],
           \A c \in Cards : rowLock[c] \in Procs \ {p} => rowLock'[c] = rowLock[c],
           SweepOf(p)'
    PROVE  SweepInv'
<1>1. \A q \in Procs \ {p} : pc'[q] = pc[q] /\ card[q] \in Cards
  BY DEF Goto, TypeOK
<1>2. ASSUME NEW q \in Procs \ {p} PROVE SweepOf(q)'
  BY <1>1, OtherSweeps DEF SweepInv
<1>3. QED BY <1>2 DEF SweepInv

LEMMA StepsKeepSweep ==
    ASSUME TypeOK, SweepInv, NEW p \in Procs, Step(p)
    PROVE  SweepInv'
<1> USE DEF store, locks, read, request
<1>1. SweepOf(p) /\ card[p] \in Cards /\ rowLock \in [Cards -> Procs \cup {NoOne}]
  BY DEF SweepInv, TypeOK
<1>2. \A label : Goto(p, label) => pc'[p] = label
  BY DEF Goto, TypeOK
<1>3. CASE \/ SelectOther(p) \/ TakeLock(p) \/ ReadGraph(p)
           \/ RecheckPredecessor(p) \/ RecheckSuccessor(p) \/ Reinsert(p)
  <2>1. PICK label \in {"idle", "lock", "read", "recheck_pred", "recheck_succ", "insert"} :
            Goto(p, label)
    BY <1>3 DEF SelectOther, TakeLock, ReadGraph, RecheckPredecessor, RecheckSuccessor,
       Recheck, LeaveBlock, Reinsert
  <2>2. UNCHANGED <<op, card, todo, rowLock, recorded, links>>
    BY <1>3 DEF SelectOther, TakeLock, ReadGraph, RecheckPredecessor, RecheckSuccessor,
       Recheck, Reinsert
  <2>3. SweepOf(p)'
    BY <1>2, <2>1 DEF SweepOf, Sweeping
  <2>4. QED BY <2>1, <2>2, <2>3, StepSweeps
<1>4. CASE InsertLink(p)
  <2>1. /\ Goto(p, "idle") /\ UNCHANGED <<op, card, todo, rowLock, recorded>>
        /\ rowLock[pair[p][1]] = NoOne /\ rowLock[pair[p][2]] = NoOne
    BY <1>4 DEF InsertLink, LeaveBlock
  <2>2. \A l \in links' : l \in links \/ (l.pred = pair[p][1] /\ l.succ = pair[p][2])
    BY <1>4 DEF InsertLink
  <2>3. SweepOf(p)'
    BY <1>2, <2>1 DEF SweepOf, Sweeping
  <2>4. ASSUME NEW q \in Procs \ {p} PROVE SweepOf(q)'
    <3>1. pc'[q] = pc[q]
      BY <2>1 DEF Goto, TypeOK
    <3>2. rowLock[card[q]] = q =>
              \A l \in links' : l \in links \/ card[q] \notin {l.pred, l.succ}
      BY <2>1, <2>2
    <3>3. QED BY <2>1, <3>1, <3>2, OtherSweeps DEF SweepInv
  <2>5. QED BY <2>3, <2>4 DEF SweepInv
<1>5. CASE LockRow(p)
  <2>1. PICK label \in {"list", "idle"} :
            Goto(p, label) /\ (label = "list" => rowLock'[card[p]] = p)
    BY <1>1, <1>5 DEF LockRow
  <2>2. /\ pc[p] = "lock_row" /\ UNCHANGED <<op, card, todo, recorded, links>>
        /\ \A c \in Cards : rowLock[c] \in Procs \ {p} => rowLock'[c] = rowLock[c]
    BY <1>1, <1>5 DEF LockRow
  <2>3. SweepOf(p)'
    BY <1>1, <1>2, <2>1, <2>2 DEF SweepOf, Sweeping
  <2>4. QED BY <2>1, <2>2, <2>3, StepSweeps
<1>6. CASE ListLinks(p) \/ RemoveLink(p)
  <2>1. PICK rows \in SUBSET LinkRow : /\ WorkOn(p, rows)
                                       /\ \A l \in Touching(card[p])' : op[p] = "cascade" => l \in rows
    <3>1. CASE ListLinks(p)
      <4>1. WorkOn(p, Touching(card[p])) /\ UNCHANGED <<links, card>>
        BY <3>1 DEF ListLinks
      <4>2. Touching(card[p]) \in SUBSET LinkRow
        BY DEF Touching, TypeOK
      <4>3. QED BY <4>1, <4>2 DEF Touching
    <3>2. CASE RemoveLink(p)
      <4>1. PICK l \in todo[p] : /\ links' = {m \in links : m.id # l.id}
                                 /\ WorkOn(p, todo[p] \ {l})
                                 /\ pc[p] = "remove" /\ card' = card
        BY <3>2 DEF RemoveLink
      <4>2. op[p] = "cascade" => Touching(card[p]) \subseteq todo[p]
        BY <1>1, <4>1 DEF SweepOf, Sweeping
      <4>3. \A m \in Touching(card[p])' : m \in Touching(card[p]) /\ m # l
        BY <4>1 DEF Touching
      <4>4. todo[p] \ {l} \in SUBSET LinkRow
        BY DEF TypeOK
      <4>5. QED BY <4>1, <4>2, <4>3, <4>4
    <3>3. QED BY <1>6, <3>1, <3>2
  <2>2. /\ pc[p] \in {"list", "remove"} /\ UNCHANGED <<op, card, rowLock, recorded>>
        /\ links' \subseteq links
    BY <1>6 DEF ListLinks, RemoveLink
  <2>3. /\ todo'[p] = rows /\ \A q \in Procs \ {p} : todo'[q] = todo[q]
    BY <2>1 DEF WorkOn, TypeOK
  <2>4. PICK label : /\ Goto(p, label)
                     /\ label = IF rows = {} THEN AfterLinks(op[p]) ELSE "record"
    BY <2>1 DEF WorkOn
  <2>5. op[p] \in {"delete_link", "delete_card", "cascade"}
    BY <1>1, <2>2 DEF SweepOf, Sweeping
  <2>6. /\ label \in {"record", "idle", "drop_card", "commit"}
        /\ label = "commit" => op[p] = "cascade" /\ rows = {}
    BY <2>4, <2>5 DEF AfterLinks
  <2>7. SweepOf(p)'
    <3>1. op[p] = "cascade" => rowLock'[card[p]] = p
      BY <1>1, <2>2 DEF SweepOf, Sweeping
    <3>2. pc'[p] = label /\ op'[p] = op[p] /\ card'[p] = card[p]
      BY <1>2, <2>2, <2>4
    <3>3. op[p] = "cascade" => Touching(card[p])' \subseteq todo'[p]
      BY <2>1, <2>3
    <3>4. QED BY <2>3, <2>5, <2>6, <3>1, <3>2, <3>3 DEF SweepOf, Sweeping
  <2>8. QED BY <2>2, <2>3, <2>4, <2>7, StepSweeps
<1>7. CASE RecordLink(p)
  <2>1. PICK l \in todo[p] : Oldest(l, todo[p]) /\ recorded' = recorded \cup {l.id}
    BY <1>7 DEF RecordLink
  <2>2. pc[p] = "record" /\ Goto(p, "remove") /\ UNCHANGED <<op, card, todo, rowLock, links>>
    BY <1>7 DEF RecordLink
  <2>3. \A m \in todo[p] : Oldest(m, todo[p]) => m.id \in recorded'
    <3>1. SUFFICES ASSUME NEW m \in todo[p], Oldest(m, todo[p]) PROVE m.id = l.id
      BY <2>1
    <3>2. m.id \in Nat /\ l.id \in Nat
      BY DEF TypeOK, LinkRow
    <3>3. m.id <= l.id /\ l.id <= m.id
      BY <2>1, <3>1 DEF Oldest
    <3>4. QED BY <3>2, <3>3
  <2>4. Touching(card[p])' = Touching(card[p])
    BY <2>2 DEF Touching
  <2>5. SweepOf(p)'
    BY <1>1, <1>2, <2>2, <2>3, <2>4 DEF SweepOf, Sweeping, Oldest
  <2>6. QED BY <2>1, <2>2, <2>5, StepSweeps
<1>8. CASE DropCard(p) \/ CommitCascade(p)
  <2>1. /\ Goto(p, "idle") /\ UNCHANGED <<op, card, todo, recorded>> /\ links' \subseteq links
    BY <1>8 DEF DropCard, CommitCascade, DeleteCardRow
  <2>2. \A c \in Cards : rowLock[c] \in Procs \ {p} => rowLock'[c] = rowLock[c]
    <3>1. CASE DropCard(p)
      BY <3>1 DEF DropCard
    <3>2. CASE CommitCascade(p)
      <4>1. rowLock[card[p]] = p
        BY <1>1, <3>2 DEF CommitCascade, SweepOf, Sweeping
      <4>2. QED BY <1>1, <3>2, <4>1 DEF CommitCascade
    <3>3. QED BY <1>8, <3>1, <3>2
  <2>3. SweepOf(p)'
    BY <1>2, <2>1 DEF SweepOf, Sweeping
  <2>4. QED BY <2>1, <2>2, <2>3, StepSweeps
<1>9. QED BY <1>3, <1>4, <1>5, <1>6, <1>7, <1>8 DEF Step

LEMMA DroppedKeepsSweep ==
    ASSUME TypeOK, SweepInv, NEW p \in Procs, Dropped(p)
    PROVE  SweepInv'
<1> USE DEF store, read, request
<1>1. Goto(p, "idle") /\ UNCHANGED <<op, card, todo, recorded, links>>
  BY DEF Dropped
<1>2. \A c \in Cards : rowLock[c] \in Procs \ {p} => rowLock'[c] = rowLock[c]
  BY DEF Dropped
<1>3. SweepOf(p)'
  <2>1. pc'[p] = "idle"
    BY <1>1 DEF Goto, TypeOK
  <2>2. QED BY <2>1 DEF SweepOf, Sweeping
<1>4. QED BY <1>1, <1>2, <1>3, StepSweeps

\* Whatever is requested and dropped beside it, a cascade leaves the schema's silent ON DELETE
\* CASCADE no link to take: a link that goes without a row goes with a card that a single
\* delete_card takes (routes/cascade.rs, routes/cards.rs delete_card).
THEOREM CascadeRecordsLinksCorrect == Spec => CascadeRecordsLinks
<1> DEFINE Recorded == \A l \in links \ links' :
                           \/ l.id \in recorded
                           \/ \E p \in Procs : pc[p] = "drop_card" /\ card[p] \in {l.pred, l.succ}
<1>1. TypeOK /\ SweepInv /\ [Next]_vars => SweepInv'
  <2>1. CASE UNCHANGED vars
    BY <2>1 DEF vars, store, locks, request, read, SweepInv, SweepOf, Touching, Oldest
  <2>2. QED BY <2>1, ArrivalsKeepSweep, StepsKeepSweep, DroppedKeepsSweep DEF Next
<1>2. TypeOK /\ SweepInv /\ [Next]_vars => [Recorded]_vars
  <2> SUFFICES ASSUME TypeOK, SweepInv, Next PROVE Recorded
    OBVIOUS
  <2>1. PICK p \in Procs : Arrivals(p) \/ Step(p) \/ Dropped(p)
    BY DEF Next
  <2>2. SweepOf(p)
    BY DEF SweepInv
  <2>3. CASE links \subseteq links'
    BY <2>3
  <2>4. CASE RemoveLink(p)
    <3>1. PICK l \in todo[p] : Oldest(l, todo[p]) /\ links' = {m \in links : m.id # l.id}
      BY <2>4 DEF RemoveLink
    <3>2. l.id \in recorded
      BY <2>2, <2>4, <3>1 DEF RemoveLink, SweepOf
    <3>3. QED BY <3>1, <3>2
  <2>5. CASE DropCard(p)
    BY <2>5 DEF DropCard, DeleteCardRow, Touching
  <2>6. CASE CommitCascade(p)
    <3>1. Touching(card[p]) = {}
      BY <2>2, <2>6 DEF CommitCascade, SweepOf, Sweeping
    <3>2. QED BY <2>6, <3>1 DEF CommitCascade, DeleteCardRow
  <2>7. ~(RemoveLink(p) \/ DropCard(p) \/ CommitCascade(p)) => links \subseteq links'
    BY <2>1 DEF Arrivals, CreateArrives, DeleteLinkArrives, DeleteCardArrives, CascadeArrives,
       RestoreArrives, Step, SelectOther, TakeLock, ReadGraph, RecheckPredecessor,
       RecheckSuccessor, Recheck, InsertLink, LockRow, ListLinks, RecordLink, Reinsert,
       Dropped, store
  <2>8. QED BY <2>3, <2>4, <2>5, <2>6, <2>7
<1>3. QED BY InitSweep, TypeCorrect, <1>1, <1>2, PTL DEF Spec, CascadeRecordsLinks
============================================================================
