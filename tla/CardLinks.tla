----------------------------- MODULE CardLinks -----------------------------
(***************************************************************************)
(* Card links as the backend runs them: routes/links.rs, the link half of  *)
(* the card-deleting routes (routes/cards.rs, routes/cascade.rs) and of    *)
(* restore_from_audit (audit.rs).  Every SQL statement is one step, and    *)
(* the requests of Procs interleave between them; a request may be dropped *)
(* at any await.                                                           *)
(*                                                                         *)
(*   - creating a link holds AppState::link_lock from the read of the      *)
(*     board's links to the INSERT;                                        *)
(*   - nothing else takes that lock: deletes and cascades run beside it;   *)
(*   - the column and board cascade holds the card's row lock (SELECT ...  *)
(*     FOR UPDATE) from before it lists the card's links to its commit;    *)
(*     a single delete_card holds no lock at all.                          *)
(*                                                                         *)
(* Abstracted: a link's reason and timestamps; the audit rows other than   *)
(* "link deleted"; the card's column.  A card's board is the constant Home:*)
(* a column never changes board and a move across boards is refused.  The  *)
(* one schedule that escapes that guard is shown in BoardStore.            *)
(***************************************************************************)
EXTENDS Naturals, LinkReach

CONSTANTS
    Boards,              \* board ids
    Home,                \* Home[c]: the board card c is on
    Procs,               \* request handlers that may run at once
    NoOne,               \* "nobody holds this lock"
    Ops,                 \* the kinds of request issued, a subset of AllOps
    MaxRequests          \* bound: requests issued in one behaviour

AllOps == {"create", "delete_link", "delete_card", "cascade", "restore"}

ASSUME CardsAssumption == Cards # {}
ASSUME HomeAssumption == Home \in [Cards -> Boards]
ASSUME ProcsAssumption == NoOne \notin Procs
ASSUME OpsAssumption == Ops \subseteq AllOps
ASSUME MaxRequestsAssumption == MaxRequests \in Nat

VARIABLES
    cards,               \* card ids with a row in cards
    links,               \* rows of card_links: [id, pred, succ]
    nextLink,            \* the id the next link row gets
    recorded,            \* link ids with a "delete" row in audit_log
    lock,                \* who holds AppState::link_lock
    rowLock,             \* rowLock[c]: the cascade holding card c's row
    pc,                  \* pc[p]: the statement p runs next
    op,                  \* op[p]: the kind of p's latest request
    card,                \* card[p]: the card that request was sent for
    pair,                \* pair[p]: <<predecessor, successor>> to link
    seen,                \* seen[p]: the link pairs read under the lock
    todo,                \* todo[p]: link rows read, still to be deleted
    issued               \* requests so far

store == <<cards, links, nextLink, recorded>>
locks == <<lock, rowLock>>
request == <<op, card, pair, issued>>
read == <<seen, todo>>
vars == <<store, locks, pc, request, read>>

LinkRow == [id : Nat, pred : Cards, succ : Cards]

\* The graph that link rows draw.
Edges(rows) == {<<l.pred, l.succ>> : l \in rows}

----------------------------------------------------------------------------
(* The shared rule, shared/src/links.rs.  The breadth-first search that    *)
(* decides it is module CycleSearch, which is checked to agree with it.    *)

\* Mutant: the rule looks one link deep.
DirectLoopOnly(E, pred, succ) == pred = succ \/ <<succ, pred>> \in E

WouldCreateCycle(E, pred, succ) == Reaches(E, succ, pred)

----------------------------------------------------------------------------

Init ==
    /\ cards = Cards
    /\ links = {}
    /\ nextLink = 1
    /\ recorded = {}
    /\ lock = NoOne
    /\ rowLock = [c \in Cards |-> NoOne]
    /\ pc = [p \in Procs |-> "idle"]
    /\ op = [p \in Procs |-> "create"]
    /\ card = [p \in Procs |-> CHOOSE c \in Cards : TRUE]
    /\ pair = [p \in Procs |-> <<card[p], card[p]>>]
    /\ seen = [p \in Procs |-> {}]
    /\ todo = [p \in Procs |-> {}]
    /\ issued = 0

\* The statements a create runs while it holds link_lock.
InBlock == {"read", "recheck_pred", "recheck_succ", "insert"}

Goto(p, label) == pc' = [pc EXCEPT ![p] = label]

\* A request of kind o arrives for card c and goes on at label.
Arrive(p, o, c, label) ==
    /\ o \in Ops
    /\ pc[p] = "idle"
    /\ issued < MaxRequests
    /\ issued' = issued + 1
    /\ op' = [op EXCEPT ![p] = o]
    /\ card' = [card EXCEPT ![p] = c]
    /\ Goto(p, label)

----------------------------------------------------------------------------
(* create_card_link                                                        *)

\* Select the card of the path, refuse a self-link.  `pair` puts the other
\* card in the role payload.direction gives it.
CreateArrives(p, c, pred, succ) ==
    /\ Arrive(p, "create", c, "select_other")
    /\ c \in cards
    /\ c \in {pred, succ}
    /\ pred # succ
    /\ pair' = [pair EXCEPT ![p] = <<pred, succ>>]
    /\ UNCHANGED <<store, locks, read>>

\* Select the other card (404) and both boards (422 when they differ).
SelectOther(p) ==
    LET pred == pair[p][1]
        succ == pair[p][2]
        other == IF card[p] = pred THEN succ ELSE pred IN
    /\ pc[p] = "select_other"
    /\ Goto(p, IF other \in cards /\ Home[pred] = Home[succ] THEN "lock" ELSE "idle")
    /\ UNCHANGED <<store, locks, request, read>>

\* Mutant: the guard is not held across the check and the write.
TakeNoLock(p) ==
    /\ pc[p] = "lock"
    /\ Goto(p, "read")
    /\ UNCHANGED <<store, locks, request, read>>

TakeLock(p) ==
    /\ pc[p] = "lock"
    /\ lock = NoOne
    /\ lock' = p
    /\ Goto(p, "read")
    /\ UNCHANGED <<store, rowLock, request, read>>

\* Mutant: an early return that forgets to unlock.
KeepLock(p) == UNCHANGED lock /\ Goto(p, "idle")

\* Leaving the block drops the guard, whatever the way out.
LeaveBlock(p) == lock' = NoOne /\ Goto(p, "idle")

\* board_links: scoped by the board of the predecessor alone.
BoardLinks(b) == {l \in links : Home[l.pred] = b}

\* Read the board's links; 409 for a duplicate, 422 for a loop.
ReadGraph(p) ==
    LET pred == pair[p][1]
        succ == pair[p][2]
        known == Edges(BoardLinks(Home[pred])) IN
    /\ pc[p] = "read"
    /\ seen' = [seen EXCEPT ![p] = known]
    /\ IF <<pred, succ>> \in known \/ WouldCreateCycle(known, pred, succ)
       THEN LeaveBlock(p)
       ELSE Goto(p, "recheck_pred") /\ UNCHANGED lock
    /\ UNCHANGED <<store, rowLock, request, todo>>

\* Re-select one end right before the write: a card deleted meanwhile is 404.
Recheck(p, at, c, label) ==
    /\ pc[p] = at
    /\ IF c \in cards THEN Goto(p, label) /\ UNCHANGED lock ELSE LeaveBlock(p)
    /\ UNCHANGED <<store, rowLock, request, read>>

RecheckPredecessor(p) == Recheck(p, "recheck_pred", pair[p][1], "recheck_succ")

RecheckSuccessor(p) == Recheck(p, "recheck_succ", pair[p][2], "insert")

\* Mutant: a schema whose card_links columns reference no card; the INSERT
\* waits for nothing and checks the pair alone.
InsertLinkUnreferenced(p) ==
    LET pred == pair[p][1]
        succ == pair[p][2] IN
    /\ pc[p] = "insert"
    /\ IF <<pred, succ>> \notin Edges(links)
       THEN /\ links' = links \cup {[id |-> nextLink, pred |-> pred, succ |-> succ]}
            /\ nextLink' = nextLink + 1
       ELSE UNCHANGED <<links, nextLink>>
    /\ LeaveBlock(p)
    /\ UNCHANGED <<cards, recorded, rowLock, request, read>>

\* The INSERT's foreign keys take a share lock on both card rows, so it waits
\* for a cascade that holds one; a card gone by then is a 404, and a pair that
\* is there already a 409 (card_links_pair).
InsertLink(p) ==
    LET pred == pair[p][1]
        succ == pair[p][2] IN
    /\ pc[p] = "insert"
    /\ rowLock[pred] = NoOne
    /\ rowLock[succ] = NoOne
    /\ IF pred \in cards /\ succ \in cards /\ <<pred, succ>> \notin Edges(links)
       THEN /\ links' = links \cup {[id |-> nextLink, pred |-> pred, succ |-> succ]}
            /\ nextLink' = nextLink + 1
       ELSE UNCHANGED <<links, nextLink>>
    /\ LeaveBlock(p)
    /\ UNCHANGED <<cards, recorded, rowLock, request, read>>

----------------------------------------------------------------------------
(* Deletes: delete_card_link, delete_card, the cascade of delete_column    *)
(* and delete_board.  All three remove links through delete_one_link.      *)

\* Where a request goes on once its list of links is used up.
AfterLinks(o) ==
    IF o = "delete_link" THEN "idle"
    ELSE IF o = "delete_card" THEN "drop_card" ELSE "commit"

\* Go on with the links in `rows`, oldest first; none left ends the loop.
WorkOn(p, rows) ==
    /\ todo' = [todo EXCEPT ![p] = rows]
    /\ Goto(p, IF rows = {} THEN AfterLinks(op[p]) ELSE "record")

Oldest(l, rows) == \A m \in rows : l.id <= m.id

Touching(c) == {l \in links : l.pred = c \/ l.succ = c}

\* delete_card_link loads the row, 404 when there is none.
DeleteLinkArrives(p, l) ==
    /\ Arrive(p, "delete_link", l.pred, "record")
    /\ l \in links
    /\ todo' = [todo EXCEPT ![p] = {l}]
    /\ UNCHANGED <<store, locks, pair, seen>>

\* delete_card loads the card, 404 when there is none.
DeleteCardArrives(p, c) ==
    /\ Arrive(p, "delete_card", c, "list")
    /\ c \in cards
    /\ UNCHANGED <<store, locks, pair, read>>

\* A cascade's sweep has read the card as one of its column's.
CascadeArrives(p, c) ==
    /\ Arrive(p, "cascade", c, "lock_row")
    /\ c \in cards
    /\ UNCHANGED <<store, locks, pair, read>>

\* Mutant: the cascade re-reads the card without FOR UPDATE.
ReadRowUnlocked(p) ==
    /\ pc[p] = "lock_row"
    /\ rowLock[card[p]] = NoOne
    /\ Goto(p, IF card[p] \in cards THEN "list" ELSE "idle")
    /\ UNCHANGED <<store, locks, request, read>>

\* BEGIN; SELECT ... FOR UPDATE, held to the commit.  A card gone since the
\* sweep is skipped, and dropping the transaction holds nothing.
LockRow(p) ==
    /\ pc[p] = "lock_row"
    /\ rowLock[card[p]] = NoOne
    /\ IF card[p] \in cards
       THEN rowLock' = [rowLock EXCEPT ![card[p]] = p] /\ Goto(p, "list")
       ELSE UNCHANGED rowLock /\ Goto(p, "idle")
    /\ UNCHANGED <<store, lock, request, read>>

\* links_touching_card
ListLinks(p) ==
    /\ pc[p] = "list"
    /\ WorkOn(p, Touching(card[p]))
    /\ UNCHANGED <<store, locks, request, seen>>

\* delete_one_link: the audit row first ...
RecordLink(p) ==
    /\ pc[p] = "record"
    /\ \E l \in todo[p] : Oldest(l, todo[p]) /\ recorded' = recorded \cup {l.id}
    /\ Goto(p, "remove")
    /\ UNCHANGED <<cards, links, nextLink, locks, request, read>>

\* ... then DELETE by id, which may find the row gone already.
RemoveLink(p) ==
    /\ pc[p] = "remove"
    /\ \E l \in todo[p] :
          /\ Oldest(l, todo[p])
          /\ links' = {m \in links : m.id # l.id}
          /\ WorkOn(p, todo[p] \ {l})
    /\ UNCHANGED <<cards, nextLink, recorded, locks, request, seen>>

\* Mutant: a schema without ON DELETE CASCADE.
DeleteCardRowOnly(c) == cards' = cards \ {c} /\ UNCHANGED links

\* DELETE FROM cards.  The schema's ON DELETE CASCADE takes, unrecorded, any
\* link that still touches the card.
DeleteCardRow(c) == cards' = cards \ {c} /\ links' = links \ Touching(c)

\* delete_card's DELETE waits for a row lock; no row left is a 404.
DropCard(p) ==
    /\ pc[p] = "drop_card"
    /\ rowLock[card[p]] = NoOne
    /\ DeleteCardRow(card[p])
    /\ Goto(p, "idle")
    /\ UNCHANGED <<nextLink, recorded, locks, request, read>>

\* The cascade's DELETE and COMMIT.
CommitCascade(p) ==
    /\ pc[p] = "commit"
    /\ DeleteCardRow(card[p])
    /\ rowLock' = [rowLock EXCEPT ![card[p]] = NoOne]
    /\ Goto(p, "idle")
    /\ UNCHANGED <<nextLink, recorded, lock, request, read>>

----------------------------------------------------------------------------
(* restore_from_audit of a card's delete row: the card alone comes back.   *)

RestoreArrives(p, c) ==
    /\ Arrive(p, "restore", c, "reinsert")
    /\ c \notin cards
    /\ UNCHANGED <<store, locks, pair, read>>

\* INSERT; a card restored meanwhile by someone else is a conflict.
Reinsert(p) ==
    /\ pc[p] = "reinsert"
    /\ cards' = cards \cup {card[p]}
    /\ Goto(p, "idle")
    /\ UNCHANGED <<links, nextLink, recorded, locks, request, read>>

----------------------------------------------------------------------------

\* The client hangs up, or the server stops: the handler's future is dropped
\* at an await.  The mutex guard goes with it, and an open transaction rolls
\* back and lets go of its row.
Dropped(p) ==
    /\ pc[p] # "idle"
    /\ lock' = IF pc[p] \in InBlock THEN NoOne ELSE lock
    /\ rowLock' = [c \in Cards |-> IF rowLock[c] = p THEN NoOne ELSE rowLock[c]]
    /\ Goto(p, "idle")
    /\ UNCHANGED <<store, request, read>>

Arrivals(p) ==
    \/ \E c, pred, succ \in Cards : CreateArrives(p, c, pred, succ)
    \/ \E l \in links : DeleteLinkArrives(p, l)
    \/ \E c \in Cards :
          DeleteCardArrives(p, c) \/ CascadeArrives(p, c) \/ RestoreArrives(p, c)

\* What a request does once it has arrived.
Step(p) ==
    \/ SelectOther(p) \/ TakeLock(p) \/ ReadGraph(p)
    \/ RecheckPredecessor(p) \/ RecheckSuccessor(p) \/ InsertLink(p)
    \/ LockRow(p) \/ ListLinks(p) \/ RecordLink(p) \/ RemoveLink(p)
    \/ DropCard(p) \/ CommitCascade(p) \/ Reinsert(p)

Next == \E p \in Procs : Arrivals(p) \/ Step(p) \/ Dropped(p)

Spec == Init /\ [][Next]_vars

\* A handler that can go on does: tokio polls every ready task, its Mutex is
\* first come first served, and Postgres answers each statement.
Fairness == \A p \in Procs : WF_vars(Step(p))

FairSpec == Spec /\ Fairness

----------------------------------------------------------------------------
(* Properties                                                              *)

Labels == InBlock \cup
    {"idle", "select_other", "lock", "lock_row", "list", "record", "remove",
     "drop_card", "commit", "reinsert"}

\* Every request holds a label of its transaction, the card and link it was given,
\* and the rows keep the schema's foreign keys: a link is between two cards there
\* are, whatever is deleted while a create is between its re-check and its INSERT.
TypeOK ==
    /\ cards \subseteq Cards
    /\ links \subseteq LinkRow
    /\ \A l \in links : l.pred \in cards /\ l.succ \in cards
    /\ nextLink \in Nat
    /\ recorded \subseteq Nat
    /\ lock \in Procs \cup {NoOne}
    /\ rowLock \in [Cards -> Procs \cup {NoOne}]
    /\ pc \in [Procs -> Labels]
    /\ op \in [Procs -> AllOps]
    /\ card \in [Procs -> Cards]
    /\ pair \in [Procs -> Cards \X Cards]
    /\ seen \in [Procs -> SUBSET (Cards \X Cards)]
    /\ todo \in [Procs -> SUBSET LinkRow]
    /\ issued \in Nat

\* The links of all boards together never form a loop, however requests to
\* create, delete, cascade and restore interleave (AppState::link_lock).
Acyclic == NoLoop(Edges(links))

\* Between the read of the board's links and the INSERT, whatever the
\* deletes and cascades running beside it do, the links of that board are
\* among those read: the cycle check's answer cannot go stale.
CheckStaysValid ==
    \A p \in Procs : pc[p] \in {"recheck_pred", "recheck_succ", "insert"} =>
        Edges(BoardLinks(Home[pair[p][1]])) \subseteq seen[p]

\* "Every removal - however it came about - leaves the same history row"
\* (delete_one_link): every link that has gone has a delete row.
RemovedLinksRecorded ==
    \A id \in 1 .. nextLink - 1 :
        (\A l \in links : l.id # id) => id \in recorded

\* A link that goes without a delete row goes with a card that a single
\* delete_card takes: a cascade, which holds the card's row, leaves the
\* schema's silent ON DELETE CASCADE nothing to do.
CascadeRecordsLinks ==
    [][\A l \in links \ links' :
          \/ l.id \in recorded
          \/ \E p \in Procs : pc[p] = "drop_card" /\ card[p] \in {l.pred, l.succ}]_vars

\* What the proofs add: the lock is held inside the block and only there, a
\* check passed holds of what was read, both ends are on one board, and the
\* schema's keys hold.
LockHeld == \A p \in Procs : pc[p] \in InBlock => lock = p

CheckPassed ==
    \A p \in Procs : pc[p] \in {"recheck_pred", "recheck_succ", "insert"} =>
        ~WouldCreateCycle(seen[p], pair[p][1], pair[p][2])

SameBoard ==
    /\ \A p \in Procs : pc[p] \in InBlock \cup {"lock"} =>
          Home[pair[p][1]] = Home[pair[p][2]]
    /\ \A l \in links : Home[l.pred] = Home[l.succ]

RowsKeyed ==
    /\ \A l \in links : l.id < nextLink /\ l.pred \in cards /\ l.succ \in cards
    /\ \A l, m \in links :
          l.id = m.id \/ <<l.pred, l.succ>> = <<m.pred, m.succ>> => l = m

CardLinksInv ==
    /\ TypeOK
    /\ LockHeld
    /\ SameBoard
    /\ RowsKeyed
    /\ CheckStaysValid
    /\ CheckPassed

\* The statements of the code together amount to LinkGraph's atomic steps.
Graph == INSTANCE LinkGraph WITH edges <- Edges(links)

ImplementsLinkGraph == Graph!Spec

\* Every request is answered: no early return keeps link_lock, and link_lock
\* and row locks are never waited for in a circle.
RequestsAnswered == \A p \in Procs : pc[p] # "idle" ~> pc[p] = "idle"

============================================================================
