--------------------------- MODULE CardPositions ---------------------------
(***************************************************************************)
(* Where a card goes in its column, and what an open tab makes of it:      *)
(* create_card, move_card and reorder_cards with the sparse positions they *)
(* compute from one statement's read and write with another, and the       *)
(* events by which a tab keeps its lists (routes/cards.rs,                 *)
(* routes/cards/position.rs, components/column.rs).                        *)
(*                                                                         *)
(* A request is a sequence of statements, each one step, with the events   *)
(* it sends before its next await.  Positions are integers of Width bits   *)
(* that wrap, as i32 does in the release build.                            *)
(*                                                                         *)
(* Abstracted: the board and the columns, which stay; deletions and edits  *)
(* of a card (BoardStore has these), so a column starts with any positions *)
(* they may have left; the tab is subscribed all along (BoardTab has the   *)
(* stream).                                                                *)
(***************************************************************************)
EXTENDS TabLists

CONSTANTS
    Procs,           \* requests under way at once
    Columns,
    Cards,           \* card ids, in the order they are made
    Made,            \* those there are at the start
    Width,           \* bits of a position; 32
    Gap,             \* POSITION_GAP
    Layouts,         \* homes and positions the cards may start with
    Orders,          \* orders a reorder may ask for
    MaxRequests,     \* bound: requests in one behaviour
    MaxFaults        \* bound: failing statements in one behaviour

MaxInt == 2 ^ (Width - 1) - 1
Ints == (-MaxInt - 1) .. MaxInt

\* A column that was renumbered is far from the limit:
\* 2 * (Cardinality(Cards) + 1) * Gap <= MaxInt.

Nowhere == "nowhere"    \* the column of a card that is not made yet

VARIABLES
    home,      \* cards.column_id
    pos,       \* cards.position
    req,       \* req[p]: request p and its locals
    shown,     \* shown[k]: the tab's list of column k
    issued,    \* requests so far
    faults,    \* failed statements so far
    \* history variables: they guide no step
    crossed,   \* columns two requests changed at once, or one left unannounced
    astray     \* columns of a move whose card had left its source column by the UPDATE

vars == <<home, pos, req, shown, issued, faults, crossed, astray>>

Idle ==
    [pc |-> "idle",
     op |-> "none",
     card |-> 0,         \* the card to place
     from |-> Nowhere,   \* the column it was loaded in
     col |-> Nowhere,    \* the column of the request
     index |-> 0,        \* the index asked for
     order |-> << >>,    \* the order asked for; once read, the order to write
     seen |-> << >>,     \* the column's order as the first read had it
     rows |-> << >>,     \* the rows a rebalance has listed
     at |-> 0,           \* the position to write
     told |-> << >>,     \* positions a rebalance wrote: card -> position
     todo |-> << >>,     \* writes of a reorder still to do
     done |-> << >>,     \* its confirmed writes
     failed |-> FALSE,
     changed |-> {},     \* columns changed, or read for an answer, and not yet told of
     alone |-> TRUE]     \* nobody else has written since the first read

\* SELECT ... WHERE column_id = k ORDER BY position, id
Order(k) ==
    SetToSortSeq({c \in Cards : home[c] = k},
                 LAMBDA a, b : pos[a] < pos[b] \/ (pos[a] = pos[b] /\ a < b))

Rows(k) ==
    LET order == Order(k)
    IN  [i \in DOMAIN order |-> [id |-> order[i], pos |-> pos[order[i]]]]

Init ==
    /\ \E l \in Layouts :
          /\ home = [c \in Cards |-> IF c \in Made THEN l.home[c] ELSE Nowhere]
          /\ pos = [c \in Cards |-> IF c \in Made THEN l.pos[c] ELSE 0]
    /\ req = [p \in Procs |-> Idle]
    /\ shown = [k \in Columns |-> Rows(k)]
    /\ issued = 0
    /\ faults = 0
    /\ crossed = {}
    /\ astray = {}

----------------------------------------------------------------------------
(* The arithmetic of position.rs.                                          *)

\* A sum that is not cut to the width.
WrapNever(x) == x

Wrap(x) == ((x + MaxInt + 1) % (2 ^ Width)) - (MaxInt + 1)

\* Integer division that rounds towards zero.
Half(x) == IF x >= 0 THEN x \div 2 ELSE -((-x) \div 2)

\* ps: the positions of a column's cards; the neighbours of index i, from 0.
Left(ps, i) == IF i = 0 THEN 0 ELSE ps[i]

Midpoint(ps, i) ==
    LET right == IF i < Len(ps) THEN ps[i + 1]
                 ELSE Wrap((IF ps = << >> THEN 0 ELSE ps[Len(ps)]) + 2 * Gap)
    IN  Half(Wrap(Left(ps, i) + right))

\* A midpoint on its left neighbour passes for a gap.
NeedsRebalanceBelow(ps, i, new) ==
    \/ new < Left(ps, i)
    \/ new >= (IF i < Len(ps) THEN ps[i + 1] ELSE MaxInt)

NeedsRebalance(ps, i, new) ==
    \/ new <= Left(ps, i)
    \/ new >= (IF i < Len(ps) THEN ps[i + 1] ELSE MaxInt)

\* Where a request's card would go: the column's other cards, the index among them, the
\* midpoint there, and whether the gap is used up.
Candidate(p) ==
    LET others == SelectSeq(Order(req[p].col), LAMBDA c : c # req[p].card)
        ps == [i \in DOMAIN others |-> pos[others[i]]]
        i == IF req[p].index < Len(ps) THEN req[p].index ELSE Len(ps)
        new == Midpoint(ps, i)
    IN  [others |-> others, at |-> new, full |-> NeedsRebalance(ps, i, new)]

----------------------------------------------------------------------------
(* What a step of a request does beside its own work.                      *)

Become(p, r) == req' = [req EXCEPT ![p] = r]

\* p has written in columns ks: it has these to tell of, and nobody else is alone.
Wrote(p, r, ks) ==
    /\ req' = [q \in Procs |->
                 IF q = p THEN [r EXCEPT !.changed = @ \cup ks]
                 ELSE IF req[q].pc = "idle" THEN Idle ELSE [req[q] EXCEPT !.alone = FALSE]]
    /\ crossed' = crossed \cup
         {k \in ks : \E q \in Procs \ {p} : k \in req[q].changed}

\* A CardMoved or CardCreated, as every column of the tab applies it.
Place(lists, e, from, to) ==
    [k \in Columns |->
        IF k = from /\ k = to THEN Reslot(lists[k], e)
        ELSE IF k = from THEN Without(lists[k], e.id)
        ELSE IF k = to THEN InsertSorted(lists[k], e)
        ELSE lists[k]]

----------------------------------------------------------------------------
(* create_card and move_card.                                              *)

Arrives(p, r) ==
    /\ req[p] = Idle
    /\ issued < MaxRequests
    /\ issued' = issued + 1
    /\ Become(p, r)
    /\ UNCHANGED <<home, pos, shown, faults, crossed, astray>>

\* The new card goes to the top.
CreateArrives(p) ==
    \E k \in Columns, c \in Cards :
        /\ home[c] = Nowhere
        /\ \A q \in Procs : req[q].card # c
        /\ Arrives(p, [Idle EXCEPT !.op = "create", !.pc = "place", !.card = c, !.col = k])

MoveArrives(p) ==
    \E c \in Cards, k \in Columns, i \in 0 .. Cardinality(Cards) :
        /\ home[c] # Nowhere
        /\ Arrives(p, [Idle EXCEPT !.op = "move", !.pc = "place", !.card = c, !.col = k,
                                   !.from = home[c], !.index = i])

\* The siblings are read: the midpoint is free, or the column has to be renumbered.
ReadSiblings(p) ==
    /\ req[p].pc = "place"
    /\ LET there == Candidate(p)
       IN  Become(p, [req[p] EXCEPT !.seen = there.others, !.at = there.at,
                        !.pc = IF there.full THEN "rebalance_list" ELSE "write"])
    /\ UNCHANGED <<home, pos, shown, issued, faults, crossed, astray>>

\* The statement lists the rows, in order, and then locks them one by one.
ListRows(p) ==
    /\ req[p].pc = "rebalance_list"
    /\ Become(p, [req[p] EXCEPT !.pc = "rebalance", !.rows = Order(req[p].col)])
    /\ UNCHANGED <<home, pos, shown, issued, faults, crossed, astray>>

\* Locked, renumbered and committed: a row that left the column meanwhile is skipped,
\* one that moved within it keeps the place it was listed at.
Rebalance(p) ==
    /\ req[p].pc = "rebalance"
    /\ LET rows == SelectSeq(req[p].rows, LAMBDA c : home[c] = req[p].col)
           new(c) == Gap * (CHOOSE i \in DOMAIN rows : rows[i] = c)
           changed == {c \in Range(rows) : pos[c] # new(c)}
       IN  /\ pos' = [c \in Cards |-> IF c \in changed THEN new(c) ELSE pos[c]]
           /\ Wrote(p, [req[p] EXCEPT !.pc = "place_again", !.told = [c \in changed |-> new(c)]],
                    IF changed = {} THEN {} ELSE {req[p].col})
    /\ UNCHANGED <<home, shown, issued, faults, astray>>

\* The siblings are read again, and CardsRenumbered is sent.
ReadAgain(p) ==
    /\ req[p].pc = "place_again"
    /\ Become(p, [req[p] EXCEPT !.pc = "write", !.at = Candidate(p).at, !.changed = {}])
    /\ shown' = [shown EXCEPT ![req[p].col] = Renumber(@, req[p].told)]
    /\ UNCHANGED <<home, pos, issued, faults, crossed, astray>>

\* The INSERT, or the UPDATE of column and position.
WriteCard(p) ==
    /\ req[p].pc = "write"
    /\ home' = [home EXCEPT ![req[p].card] = req[p].col]
    /\ pos' = [pos EXCEPT ![req[p].card] = req[p].at]
    /\ LET involved == {home[req[p].card], req[p].from, req[p].col} \ {Nowhere}
       IN  /\ Wrote(p, [req[p] EXCEPT !.pc = "announce"], involved)
           /\ astray' = astray \cup (IF home[req[p].card] = req[p].from THEN {} ELSE involved)
    /\ UNCHANGED <<shown, issued, faults>>

\* The audit row is in, and CardCreated or CardMoved is sent.
AnnounceCard(p) ==
    /\ req[p].pc = "announce"
    /\ shown' = Place(shown, [id |-> req[p].card, pos |-> req[p].at],
                      req[p].from, req[p].col)
    /\ Become(p, Idle)
    /\ UNCHANGED <<home, pos, issued, faults, crossed, astray>>

----------------------------------------------------------------------------
(* reorder_cards.                                                          *)

\* Any order of any cards: it may leave cards out, and name cards of other columns.
ReorderArrives(p) ==
    \E k \in Columns, asked \in Orders :
        Arrives(p, [Idle EXCEPT !.op = "reorder", !.pc = "order_read", !.col = k,
                                !.order = asked])

\* Positions that repeat pass for increasing.
NotDecreasing(ps) == \A i \in 1 .. Len(ps) - 1 : ps[i] <= ps[i + 1]

Increasing(ps) == \A i \in 1 .. Len(ps) - 1 : ps[i] < ps[i + 1]

\* The column is read and the whole order planned: the cards asked for that are in it,
\* then the others; the positions in use if they tell the cards apart, else the grid.
PlanReorder(p) ==
    /\ req[p].pc = "order_read"
    /\ LET current == Order(req[p].col)
           wanted == SelectSeq(req[p].order, LAMBDA c : Contains(current, c))
           target == wanted \o SelectSeq(current, LAMBDA c : ~Contains(wanted, c))
           existing == [i \in DOMAIN current |-> pos[current[i]]]
           slots == IF Increasing(existing) THEN existing
                    ELSE [i \in DOMAIN current |-> i * Gap]
           plan == [i \in DOMAIN current |-> [id |-> target[i], pos |-> slots[i]]]
       IN  IF Increasing(existing) /\ target = current
           THEN Become(p, Idle)
           ELSE Become(p, [req[p] EXCEPT
                    !.pc = "order_write", !.order = target, !.seen = current,
                    !.todo = SelectSeq(plan, LAMBDA e : pos[e.id] # e.pos)])
    /\ UNCHANGED <<home, pos, shown, issued, faults, crossed, astray>>

\* The next card of the plan: written if it is still in the column, skipped if not.
WriteNext(p) ==
    /\ req[p].pc = "order_write"
    /\ req[p].todo # << >>
    /\ LET e == Head(req[p].todo)
           r == [req[p] EXCEPT !.todo = Tail(@)]
       IN  IF home[e.id] = r.col
           THEN /\ pos' = [pos EXCEPT ![e.id] = e.pos]
                /\ Wrote(p, [r EXCEPT !.pc = "order_audit", !.at = e.pos, !.card = e.id],
                         {r.col})
           ELSE Become(p, r) /\ UNCHANGED <<pos, crossed>>
    /\ UNCHANGED <<home, shown, issued, faults, astray>>

\* The audit row is in: the write is confirmed.
AuditNext(p) ==
    /\ req[p].pc = "order_audit"
    /\ Become(p, [req[p] EXCEPT !.pc = "order_write",
                                !.done = Append(@, [id |-> req[p].card, pos |-> req[p].at])])
    /\ UNCHANGED <<home, pos, shown, issued, faults, crossed, astray>>

\* Nothing is sent of a loop that failed.
FanOutIfComplete(p) ==
    /\ \/ req[p].pc = "order_write" /\ req[p].todo = << >>
       \/ req[p].pc = "order_write" /\ req[p].failed
    /\ shown' = IF req[p].failed THEN shown
                ELSE [shown EXCEPT ![req[p].col] = FoldLeft(Reslot, @, req[p].done)]
    /\ Become(p, IF req[p].failed THEN Idle
                 ELSE [req[p] EXCEPT !.pc = "order_answer", !.changed = {}])
    /\ UNCHANGED <<home, pos, issued, faults, crossed, astray>>

\* The loop is over, or failed: every confirmed write is sent as a CardMoved.
FanOut(p) ==
    /\ \/ req[p].pc = "order_write" /\ req[p].todo = << >>
       \/ req[p].pc = "order_write" /\ req[p].failed
    /\ shown' = [shown EXCEPT ![req[p].col] = FoldLeft(Reslot, @, req[p].done)]
    /\ Become(p, IF req[p].failed THEN Idle
                 ELSE [req[p] EXCEPT !.pc = "order_answer", !.changed = {}])
    /\ UNCHANGED <<home, pos, issued, faults, crossed, astray>>

\* The column is read for the answer.
ReadAnswer(p) ==
    /\ req[p].pc = "order_answer"
    /\ Become(p, [req[p] EXCEPT !.pc = "deliver", !.done = Rows(req[p].col),
                                !.changed = {req[p].col}])
    /\ UNCHANGED <<home, pos, shown, issued, faults, crossed, astray>>

\* The tab that asked applies the answer to its list.
DeliverAnswer(p) ==
    /\ req[p].pc = "deliver"
    /\ shown' = [shown EXCEPT ![req[p].col] = FollowServer(@, req[p].done)]
    /\ Become(p, Idle)
    /\ UNCHANGED <<home, pos, issued, faults, crossed, astray>>

----------------------------------------------------------------------------
\* A statement fails.  A placing request ends there, with nothing more sent; a reorder
\* leaves its loop, and the fan-out follows.
StatementFails(p) ==
    /\ req[p].pc \notin {"idle", "deliver"}
    /\ req[p].todo # << >> \/ req[p].pc # "order_write"
    /\ ~req[p].failed
    /\ faults < MaxFaults
    /\ faults' = faults + 1
    /\ IF req[p].pc \in {"order_write", "order_audit"}
       THEN Become(p, [req[p] EXCEPT !.pc = "order_write", !.failed = TRUE, !.todo = << >>])
       ELSE Become(p, Idle)
    /\ crossed' = crossed \cup
         (IF req[p].pc \in {"place_again", "announce", "order_audit"} THEN req[p].changed ELSE {})
    /\ UNCHANGED <<home, pos, shown, issued, astray>>

\* The client goes away and the handler's future is dropped, at any of its awaits.
Dropped(p) ==
    /\ req[p].pc \notin {"idle", "deliver"}
    /\ faults < MaxFaults
    /\ faults' = faults + 1
    /\ crossed' = crossed \cup req[p].changed
    /\ Become(p, Idle)
    /\ UNCHANGED <<home, pos, shown, issued, astray>>

Next ==
    \E p \in Procs :
        \/ CreateArrives(p) \/ MoveArrives(p) \/ ReorderArrives(p)
        \/ ReadSiblings(p) \/ ListRows(p) \/ Rebalance(p) \/ ReadAgain(p)
        \/ WriteCard(p) \/ AnnounceCard(p)
        \/ PlanReorder(p) \/ WriteNext(p) \/ AuditNext(p) \/ FanOut(p)
        \/ ReadAnswer(p) \/ DeliverAnswer(p)
        \/ StatementFails(p) \/ Dropped(p)

Spec == Init /\ [][Next]_vars

----------------------------------------------------------------------------
(* Properties.                                                             *)

\* Everything has its type: no position is wider than its column in the table, however
\* the sums that made it wrapped.
TypeOK ==
    /\ home \in [Cards -> Columns \cup {Nowhere}]
    /\ pos \in [Cards -> Ints]
    /\ \A p \in Procs :
          /\ req[p].changed \subseteq Columns
          /\ req[p].at \in Ints
          /\ req[p].pc = "idle" => req[p] = Idle
    /\ \A k \in Columns : IdsOf(shown[k]) \subseteq Cards
    /\ crossed \cup astray \subseteq Columns

\* A card goes where it was asked to, and nothing else moves: when nobody else wrote
\* since the request's first read, the card stands at the index asked for (or last) and
\* the others around it in the order they had, through a gap that was used up, positions
\* that are equal, negative or next to the limit of their type, and a renumbering.
PlacedWhereAsked ==
    \A p \in Procs : req[p].pc = "announce" /\ req[p].alone =>
        LET i == IF req[p].index < Len(req[p].seen) THEN req[p].index ELSE Len(req[p].seen)
        IN  Order(req[p].col) = InsertAt(req[p].seen, i + 1, req[p].card)

\* A reorder nobody interfered with leaves the column in the order asked for, and with
\* positions that tell its cards apart, so that the tabs cannot order them otherwise.
ReorderedAsAsked ==
    \A p \in Procs : req[p].pc = "order_answer" /\ req[p].alone =>
        LET k == req[p].col
        IN  /\ Order(k) = req[p].order
            /\ Increasing([i \in DOMAIN Order(k) |-> pos[Order(k)[i]]])

\* What the tab shows of column k is what is stored: the same cards at the same
\* positions, in the order of these.
Shown(k) ==
    /\ {shown[k][i] : i \in DOMAIN shown[k]} = {Rows(k)[i] : i \in DOMAIN Rows(k)}
    /\ \A i \in 1 .. Len(shown[k]) - 1 : shown[k][i].pos <= shown[k][i + 1].pos

\* A column is settled when nobody has changed it and not yet told of it, and it never
\* had two requests changing it between one's write and its event, nor one that failed
\* between the two.
Settled(k) == k \notin crossed /\ \A p \in Procs : k \notin req[p].changed

\* The tab shows what is stored, for every settled column whose moves took their card from
\* where they said: the events alone, applied as they come, keep a tab's lists right
\* through placements, renumberings, reorders and reorders that break off.
TabShowsTheColumn == \A k \in Columns \ astray : Settled(k) => Shown(k)

\* "`from_column_id` tells the source column to remove the card; `card.column_id` tells
\* the destination column to insert it" (events.rs:43-45): no settled column keeps a card
\* that a move took away.
MovedAwayIsRemoved ==
    \A k \in Columns : Settled(k) => \A c \in IdsOf(shown[k]) : home[c] = k
============================================================================
