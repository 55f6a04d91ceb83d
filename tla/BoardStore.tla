----------------------------- MODULE BoardStore -----------------------------
(***************************************************************************)
(* Boards, columns and cards as the routes change them: create, edit and   *)
(* move (routes/cards.rs, routes/columns.rs), the deletes that take a      *)
(* whole column or board (routes/cascade.rs), and the restore that replays *)
(* a delete from history (audit.rs).  Every SQL statement is one step; the *)
(* requests of Procs interleave between them, and a request may be dropped *)
(* at any await (its client hangs up, or the server stops).                *)
(*                                                                         *)
(* The only lock is the row lock a cascade's transaction holds on the card *)
(* it is deleting.  Foreign keys are ON DELETE RESTRICT.                   *)
(*                                                                         *)
(* Abstracted: positions, names, numbers and tags (a body stands for all a *)
(* card says); the audit rows that are not deletes, which a restore of a   *)
(* delete never reads; links, which are CardLinks; the order in which a    *)
(* sweep lists its rows (by position, so any order).                       *)
(***************************************************************************)
EXTENDS Naturals, Sequences, FiniteSets, FiniteSetsExt

CONSTANTS
    Boards, Columns, Cards,   \* every id there can be: ULIDs, used once
    BoardOf,                  \* BoardOf[x]: columns.board_id, never updated
    Bodies,                   \* what a card can say
    FirstCards,               \* the cards at the start: Cards -> Row or NoRow
    FirstColumns,             \* the columns at the start
    Procs,                    \* request handlers that may run at once
    NoOne, NoRow,             \* "not held", "no such row"
    Ops,                      \* the kinds of request issued
    Attempts,                 \* cascade::ATTEMPTS
    MaxRequests,              \* bound: requests issued in one behaviour
    MaxDropped                \* bound: requests dropped half way

AllOps == {"create_card", "create_column", "move", "update", "restore_content",
           "delete_card", "delete_column", "delete_board", "restore"}

Row == [column : Columns, body : Bodies]

ASSUME IdsAssumption ==
    Cards \cap Columns = {} /\ Cards \cap Boards = {} /\ Columns \cap Boards = {}
ASSUME ProcsAssumption == IsFiniteSet(Procs)
ASSUME BoardOfAssumption == BoardOf \in [Columns -> Boards]
ASSUME FirstAssumption ==
    /\ FirstColumns \subseteq Columns
    /\ FirstCards \in [Cards -> Row \cup {NoRow}]
    /\ \A c \in Cards : FirstCards[c] # NoRow => FirstCards[c].column \in FirstColumns
ASSUME NoneAssumption ==
    /\ NoOne \notin Procs \cup Boards \cup Columns \cup Cards \cup Bodies
    /\ NoRow \notin Row
ASSUME BoundsAssumption ==
    Ops \subseteq AllOps /\ Attempts \in Nat \ {0} /\ {MaxRequests, MaxDropped} \subseteq Nat

VARIABLES
    boards, columns,     \* ids with a row
    card,                \* card[c]: its row, or NoRow
    used,                \* card and column ids already given out
    history,             \* the delete rows of audit_log, oldest first
    gone,                \* gone[x]: times card, column or board x was deleted
    rowLock,             \* rowLock[c]: the cascade holding card c's row
    req,                 \* req[p]: handler p's request and its locals
    issued,              \* requests so far
    dropped              \* requests dropped so far

tables == <<boards, columns, card, used>>
vars == <<tables, history, gone, rowLock, req, issued, dropped>>

DeleteRow ==
    [kind : {"card"}, id : Cards, batch : Nat, snap : Row] \cup
    [kind : {"column"}, id : Columns, batch : Nat, snap : {NoRow}] \cup
    [kind : {"board"}, id : Boards, batch : Nat, snap : {NoRow}]

\* A handler between requests; every local back to nothing.
Idle ==
    [pc |-> "idle", op |-> "idle",
     id |-> NoOne,        \* the card, column or board of the path
     col |-> NoOne,       \* the column the payload names
     body |-> NoOne,      \* the body the payload gives
     old |-> NoRow,       \* the card as it was read
     home |-> NoOne,      \* update_card: its board, when it was found
     batch |-> 0,         \* the audit batch of a cascade; 0 is none
     todo |-> {},         \* swept cards: <<card, column it was read in>>
     cols |-> {},         \* delete_board: columns still to delete
     pick |-> NoOne,      \* the swept card or column being worked on
     tries |-> 0,         \* sweeps that found a late child
     rest |-> {}]         \* delete rows a restore still has to replay, by their place in history

Present == {c \in Cards : card[c] # NoRow}

Init ==
    /\ boards = Boards
    /\ columns = FirstColumns
    /\ card = FirstCards
    /\ used = FirstColumns \cup {c \in Cards : FirstCards[c] # NoRow}
    /\ history = << >>
    /\ gone = [x \in Cards \cup Columns \cup Boards |-> 0]
    /\ rowLock = [c \in Cards |-> NoOne]
    /\ req = [p \in Procs |-> Idle]
    /\ issued = 0
    /\ dropped = 0

----------------------------------------------------------------------------
(* Helpers: where a handler goes next, and what it leaves alone.           *)

Become(p, r) == req' = [req EXCEPT ![p] = r]

Goto(p, label) == Become(p, [req[p] EXCEPT !.pc = label])

\* The answer, whatever it is, ends the request.
Answer(p) == Become(p, Idle)

\* A request arrives, takes its first read and goes on as r.
Arrive(p, o, r) ==
    /\ o \in Ops
    /\ req[p] = Idle
    /\ issued < MaxRequests
    /\ issued' = issued + 1
    /\ Become(p, [r EXCEPT !.op = o])
    /\ UNCHANGED <<boards, columns, card, history, gone, rowLock, dropped>>

\* A step of handler p at `label` that only reads.
Reads(p, label) ==
    /\ req[p].pc = label
    /\ UNCHANGED <<tables, history, gone, rowLock, issued, dropped>>

\* A step of handler p at `label` that appends a delete row.
Records(p, label, kind, id, snap) ==
    /\ req[p].pc = label
    /\ history' = Append(history,
          [kind |-> kind, id |-> id, batch |-> req[p].batch, snap |-> snap])
    /\ UNCHANGED <<tables, gone, rowLock, issued, dropped>>

\* A step of handler p at `label` that writes rows.
Writes(p, label) ==
    /\ req[p].pc = label
    /\ UNCHANGED <<used, history, issued, dropped>>

----------------------------------------------------------------------------
(* create_card, create_column                                              *)

CreateCardArrives(p, x, c, b) ==
    /\ x \in columns
    /\ c \notin used
    /\ used' = used \cup {c}
    /\ Arrive(p, "create_card",
          [Idle EXCEPT !.pc = "insert_card", !.id = c, !.col = x, !.body = b])

\* The foreign key refuses a column deleted since: 404.
InsertCard(p) ==
    LET r == req[p] IN
    /\ Writes(p, "insert_card")
    /\ card' = IF r.col \in columns
               THEN [card EXCEPT ![r.id] = [column |-> r.col, body |-> r.body]]
               ELSE card
    /\ Answer(p)
    /\ UNCHANGED <<boards, columns, gone, rowLock>>

CreateColumnArrives(p, x) ==
    /\ BoardOf[x] \in boards
    /\ x \notin used
    /\ used' = used \cup {x}
    /\ Arrive(p, "create_column", [Idle EXCEPT !.pc = "insert_column", !.id = x])

InsertColumn(p) ==
    LET id == req[p].id IN
    /\ Writes(p, "insert_column")
    /\ columns' = IF BoardOf[id] \in boards THEN columns \cup {id} ELSE columns
    /\ Answer(p)
    /\ UNCHANGED <<boards, card, gone, rowLock>>

----------------------------------------------------------------------------
(* move_card, update_card, restore_card_content                            *)

\* load_card: 404 when there is none.
MoveArrives(p, c, x) ==
    /\ card[c] # NoRow
    /\ Arrive(p, "move",
          [Idle EXCEPT !.pc = "load_target", !.id = c, !.col = x, !.old = card[c]])
    /\ UNCHANGED used

\* An update names a column, a body or both; neither is a no-op that writes
\* nothing.
UpdateArrives(p, c, x, b) ==
    /\ card[c] # NoRow
    /\ Arrive(p, "update",
          [Idle EXCEPT !.pc = "find_home", !.id = c, !.col = x, !.body = b,
                       !.old = card[c]])
    /\ UNCHANGED used

\* An earlier version's body, any of Bodies since versions are not kept here;
\* 409 when it is what the card says already.
RestoreContentArrives(p, c, b) ==
    /\ card[c] # NoRow
    /\ card[c].body # b
    /\ Arrive(p, "restore_content", [Idle EXCEPT !.pc = "write", !.id = c, !.body = b])
    /\ UNCHANGED used

\* find_column for the card's own column.  A move is refused (422) when that
\* column is there and on another board; "a card whose own column has
\* vanished ... is let through".  An update only takes note of the board.
FindHome(p) ==
    LET r == req[p]
        here == IF r.old.column \in columns THEN BoardOf[r.old.column] ELSE NoOne
        GoOn(label) == Become(p, [r EXCEPT !.pc = label, !.home = here]) IN
    /\ Reads(p, "find_home")
    /\ \/ r.op = "move" /\ here \in {NoOne, BoardOf[r.col]} /\ GoOn("write")
       \/ r.op = "move" /\ here \notin {NoOne, BoardOf[r.col]} /\ Answer(p)
       \/ r.op = "update" /\ r.col # NoOne /\ GoOn("load_target")
       \/ r.op = "update" /\ r.col = NoOne /\ r.body # NoOne /\ GoOn("write")
       \/ r.op = "update" /\ r.col = NoOne /\ r.body = NoOne /\ Answer(p)

\* load_column for the column the payload names: 404 when there is none.  A
\* move has yet to find the card's board, an update compares with it (422).
LoadTarget(p) ==
    LET r == req[p] IN
    /\ Reads(p, "load_target")
    /\ IF r.col \notin columns THEN Answer(p)
       ELSE IF r.op = "move" THEN Goto(p, "find_home")
       ELSE IF r.home \in {NoOne, BoardOf[r.col]} THEN Goto(p, "write")
       ELSE Answer(p)

\* Mutant: the UPDATE does not wait for the cascade's row lock.
WritePastLock(p) ==
    LET r == req[p]
        new == [column |-> IF r.col = NoOne THEN card[r.id].column ELSE r.col,
                body |-> IF r.body = NoOne THEN card[r.id].body ELSE r.body] IN
    /\ Writes(p, "write")
    /\ card' = IF card[r.id] # NoRow /\ new.column \in columns
               THEN [card EXCEPT ![r.id] = new] ELSE card
    /\ Answer(p)
    /\ UNCHANGED <<boards, columns, gone, rowLock>>

\* UPDATE cards ... WHERE id = $1, of the fields given only.  It waits for
\* the row lock; a card gone by then, or a column gone by then (the foreign
\* key), is a 404.
Write(p) ==
    LET r == req[p]
        new == [column |-> IF r.col = NoOne THEN card[r.id].column ELSE r.col,
                body |-> IF r.body = NoOne THEN card[r.id].body ELSE r.body] IN
    /\ Writes(p, "write")
    /\ rowLock[r.id] = NoOne
    /\ card' = IF card[r.id] # NoRow /\ new.column \in columns
               THEN [card EXCEPT ![r.id] = new] ELSE card
    /\ Answer(p)
    /\ UNCHANGED <<boards, columns, gone, rowLock>>

----------------------------------------------------------------------------
(* delete_card: the audit row first, then the DELETE, under no lock.       *)

DeleteCardArrives(p, c) ==
    /\ card[c] # NoRow
    /\ Arrive(p, "delete_card",
          [Idle EXCEPT !.pc = "record_card", !.id = c, !.old = card[c]])
    /\ UNCHANGED used

\* DELETE FROM cards, which may find no row.
DeleteCardRow(c) ==
    /\ card' = [card EXCEPT ![c] = NoRow]
    /\ gone' = IF card[c] = NoRow THEN gone ELSE [gone EXCEPT ![c] = @ + 1]

RecordCard(p) ==
    /\ Records(p, "record_card", "card", req[p].id, req[p].old)
    /\ Goto(p, "drop_card")

DropCard(p) ==
    LET c == req[p].id IN
    /\ Writes(p, "drop_card")
    /\ rowLock[c] = NoOne
    /\ DeleteCardRow(c)
    /\ Answer(p)
    /\ UNCHANGED <<boards, columns, rowLock>>

----------------------------------------------------------------------------
(* delete_column and delete_board: sweep the cards, then delete the parent *)
(* (and, of a board, its columns), at most Attempts times.                 *)

DeleteColumnArrives(p, x) ==
    /\ x \in columns
    /\ Arrive(p, "delete_column",
          [Idle EXCEPT !.pc = "sweep", !.id = x, !.batch = issued + 1])
    /\ UNCHANGED used

DeleteBoardArrives(p, b) ==
    /\ b \in boards
    /\ Arrive(p, "delete_board",
          [Idle EXCEPT !.pc = "sweep", !.id = b, !.batch = issued + 1])
    /\ UNCHANGED used

\* Is column x the one being deleted, or on the board being deleted?
InScope(r, x) == IF r.op = "delete_column" THEN x = r.id ELSE BoardOf[x] = r.id

\* Go on with the swept cards in `left`; then come the parents.
NextSwept(r, left) ==
    [r EXCEPT !.todo = left, !.pick = NoOne, !.old = NoRow,
              !.pc = IF left # {} THEN "lock_card"
                     ELSE IF r.op = "delete_column" THEN "drop_parent"
                     ELSE "list_columns"]

Sweep(p) ==
    LET r == req[p] IN
    /\ Reads(p, "sweep")
    /\ Become(p, NextSwept(r,
          {<<c, card[c].column>> : c \in {d \in Present : InScope(r, card[d].column)}}))

\* BEGIN; SELECT ... WHERE id AND column_id FOR UPDATE.  A card deleted or
\* moved since the sweep is not this cascade's to delete.
LockCard(p) ==
    LET r == req[p] IN
    /\ r.pc = "lock_card"
    /\ \E t \in r.todo :
          /\ rowLock[t[1]] = NoOne
          /\ IF card[t[1]] # NoRow /\ card[t[1]].column = t[2]
             THEN /\ rowLock' = [rowLock EXCEPT ![t[1]] = p]
                  /\ Become(p, [r EXCEPT !.pick = t[1], !.old = card[t[1]],
                                         !.todo = @ \ {t}, !.pc = "record_swept"])
             ELSE UNCHANGED rowLock /\ Become(p, NextSwept(r, r.todo \ {t}))
    /\ UNCHANGED <<tables, history, gone, issued, dropped>>

\* Mutant: the card's audit row is left for later.
SkipRecordSwept(p) == Reads(p, "record_swept") /\ Goto(p, "drop_swept")

\* The audit row, through the pool: the snapshot read under the lock.
RecordSwept(p) ==
    /\ Records(p, "record_swept", "card", req[p].pick, req[p].old)
    /\ Goto(p, "drop_swept")

\* Mutant: the transaction is not ended.
DropSweptKeepLock(p) ==
    LET r == req[p] IN
    /\ Writes(p, "drop_swept")
    /\ DeleteCardRow(r.pick)
    /\ Become(p, NextSwept(r, r.todo))
    /\ UNCHANGED <<boards, columns, rowLock>>

\* DELETE ... WHERE id AND column_id; COMMIT.  No row left is an error that
\* rolls back and ends the request.
DropSwept(p) ==
    LET r == req[p]
        there == card[r.pick] # NoRow /\ card[r.pick].column = r.old.column IN
    /\ Writes(p, "drop_swept")
    /\ rowLock' = [rowLock EXCEPT ![r.pick] = NoOne]
    /\ IF there THEN DeleteCardRow(r.pick) /\ Become(p, NextSwept(r, r.todo))
       ELSE UNCHANGED <<card, gone>> /\ Answer(p)
    /\ UNCHANGED <<boards, columns>>

CardsIn(x) == {c \in Present : card[c].column = x}

ColumnsOf(b) == {x \in columns : BoardOf[x] = b}

\* The restricting foreign key reads the child rows with a share lock: it
\* fails on a child nobody has locked, and waits when all of them are.
Restricted(x) == \E c \in CardsIn(x) : rowLock[c] = NoOne

ColumnAnswers(x) == CardsIn(x) = {} \/ Restricted(x)

\* delete_parent of a column: Deleted, Gone or HasChildren.
DeleteColumnRow(x) ==
    LET deleted == x \in columns /\ CardsIn(x) = {} IN
    /\ columns' = IF deleted THEN columns \ {x} ELSE columns
    /\ gone' = IF deleted THEN [gone EXCEPT ![x] = @ + 1] ELSE gone

\* Mutant: the last refusal is taken for a deletion.
RecordAnyway(p) ==
    LET r == req[p] IN
    IF r.tries + 1 = Attempts THEN Goto(p, "record_parent")
    ELSE Become(p, [r EXCEPT !.pc = "sweep", !.tries = @ + 1])

\* Another sweep after a late child, 409 after Attempts of them.
Retry(p) ==
    LET r == req[p] IN
    IF r.tries + 1 = Attempts THEN Answer(p)
    ELSE Become(p, [r EXCEPT !.pc = "sweep", !.tries = @ + 1])

ListColumns(p) ==
    LET cols == ColumnsOf(req[p].id) IN
    /\ Reads(p, "list_columns")
    /\ Become(p, [req[p] EXCEPT !.cols = cols,
                                !.pc = IF cols = {} THEN "drop_parent" ELSE "drop_column"])

\* The columns of a board: one that will not go is left for the next sweep.
DropColumn(p) ==
    LET r == req[p] IN
    /\ Writes(p, "drop_column")
    /\ \E x \in r.cols :
          /\ ColumnAnswers(x)
          /\ DeleteColumnRow(x)
          /\ Become(p, IF columns' # columns
                       THEN [r EXCEPT !.pick = x, !.cols = @ \ {x}, !.pc = "record_column"]
                       ELSE [r EXCEPT !.cols = @ \ {x},
                                !.pc = IF r.cols = {x} THEN "drop_parent" ELSE "drop_column"])
    /\ UNCHANGED <<boards, card, rowLock>>

RecordColumn(p) ==
    LET r == req[p] IN
    /\ Records(p, "record_column", "column", r.pick, NoRow)
    /\ Become(p, [r EXCEPT !.pick = NoOne,
                           !.pc = IF r.cols = {} THEN "drop_parent" ELSE "drop_column"])

DropColumnParent(p) ==
    LET id == req[p].id IN
    /\ req[p].op = "delete_column"
    /\ Writes(p, "drop_parent")
    /\ ColumnAnswers(id)
    /\ DeleteColumnRow(id)
    /\ IF columns' # columns THEN Goto(p, "record_parent")
       ELSE IF id \in columns THEN Retry(p) ELSE Answer(p)
    /\ UNCHANGED <<boards, card, rowLock>>

DropBoard(p) ==
    LET id == req[p].id IN
    /\ req[p].op = "delete_board"
    /\ Writes(p, "drop_parent")
    /\ IF id \notin boards THEN Answer(p) /\ UNCHANGED <<boards, gone>>
       ELSE IF ColumnsOf(id) # {} THEN Retry(p) /\ UNCHANGED <<boards, gone>>
       ELSE /\ boards' = boards \ {id}
            /\ gone' = [gone EXCEPT ![id] = @ + 1]
            /\ Goto(p, "record_parent")
    /\ UNCHANGED <<columns, card, rowLock>>

\* record_parent_delete, only once the row is really gone.
RecordParent(p) ==
    LET r == req[p] IN
    /\ Records(p, "record_parent",
          IF r.op = "delete_column" THEN "column" ELSE "board", r.id, NoRow)
    /\ Answer(p)

----------------------------------------------------------------------------
(* restore_from_audit, of a delete row                                     *)

\* load_audit.  A column's or board's row stands for its whole batch.
RestoreArrives(p, i) ==
    LET card_only == history[i].kind = "card" IN
    /\ Arrive(p, "restore",
          [Idle EXCEPT !.batch = history[i].batch,
                       !.rest = IF card_only THEN {i} ELSE {},
                       !.pc = IF card_only THEN "check_row" ELSE "read_batch"])
    /\ UNCHANGED used

\* batch_delete_entries.
ReadBatch(p) ==
    LET batch == {i \in DOMAIN history : history[i].batch = req[p].batch} IN
    /\ Reads(p, "read_batch")
    /\ Become(p, [req[p] EXCEPT !.pc = "check_row", !.rest = batch])

\* The row a restore is at: newest first.
Newest(p) == Max(req[p].rest)

Exists(row) ==
    IF row.kind = "card" THEN card[row.id] # NoRow ELSE row.id \in columns \cup boards

ParentExists(row) ==
    CASE row.kind = "card" -> row.snap.column \in columns
      [] row.kind = "column" -> BoardOf[row.id] \in boards
      [] row.kind = "board" -> TRUE

\* A row that is there again is a 409 and ends the whole restore.
CheckRow(p) ==
    /\ Reads(p, "check_row")
    /\ IF Exists(history[Newest(p)]) THEN Answer(p) ELSE Goto(p, "check_parent")

\* row_exists of the parent: PARENT_GONE, 422.
CheckParent(p) ==
    /\ Reads(p, "check_parent")
    /\ IF ParentExists(history[Newest(p)]) THEN Goto(p, "reinsert") ELSE Answer(p)

\* The INSERT; a key taken or a parent gone since ends the restore too.
Reinsert(p) ==
    LET row == history[Newest(p)]
        rest == req[p].rest \ {Newest(p)}
        ok == ~Exists(row) /\ ParentExists(row) IN
    /\ Writes(p, "reinsert")
    /\ card' = IF ok /\ row.kind = "card" THEN [card EXCEPT ![row.id] = row.snap] ELSE card
    /\ columns' = IF ok /\ row.kind = "column" THEN columns \cup {row.id} ELSE columns
    /\ boards' = IF ok /\ row.kind = "board" THEN boards \cup {row.id} ELSE boards
    /\ IF ok /\ rest # {}
       THEN Become(p, [req[p] EXCEPT !.rest = rest, !.pc = "check_row"])
       ELSE Answer(p)
    /\ UNCHANGED <<gone, rowLock>>

----------------------------------------------------------------------------

\* The client hangs up, or the server stops: the handler's future is dropped
\* between two statements, and its transaction, if open, rolls back.
Dropped(p) ==
    /\ req[p] # Idle
    /\ dropped < MaxDropped
    /\ dropped' = dropped + 1
    /\ rowLock' = [c \in Cards |-> IF rowLock[c] = p THEN NoOne ELSE rowLock[c]]
    /\ Answer(p)
    /\ UNCHANGED <<tables, history, gone, issued>>

Arrivals(p) ==
    \/ \E x \in Columns, c \in Cards, b \in Bodies : CreateCardArrives(p, x, c, b)
    \/ \E x \in Columns : CreateColumnArrives(p, x) \/ DeleteColumnArrives(p, x)
    \/ \E c \in Cards, x \in Columns : MoveArrives(p, c, x)
    \/ \E c \in Cards, x \in Columns \cup {NoOne}, b \in Bodies \cup {NoOne} :
          UpdateArrives(p, c, x, b)
    \/ \E c \in Cards, b \in Bodies : RestoreContentArrives(p, c, b)
    \/ \E c \in Cards : DeleteCardArrives(p, c)
    \/ \E b \in Boards : DeleteBoardArrives(p, b)
    \/ \E i \in DOMAIN history : RestoreArrives(p, i)

Step(p) ==
    \/ InsertCard(p) \/ InsertColumn(p)
    \/ FindHome(p) \/ LoadTarget(p) \/ Write(p)
    \/ RecordCard(p) \/ DropCard(p)
    \/ Sweep(p) \/ LockCard(p) \/ RecordSwept(p) \/ DropSwept(p)
    \/ ListColumns(p) \/ DropColumn(p) \/ RecordColumn(p)
    \/ DropColumnParent(p) \/ DropBoard(p) \/ RecordParent(p)
    \/ ReadBatch(p) \/ CheckRow(p) \/ CheckParent(p) \/ Reinsert(p)

Next == \E p \in Procs : Arrivals(p) \/ Step(p) \/ Dropped(p)

Spec == Init /\ [][Next]_vars

\* Every ready task is polled and every statement answered.
FairSpec == Spec /\ \A p \in Procs : WF_vars(Step(p))

----------------------------------------------------------------------------
(* Properties                                                              *)

Labels ==
    {"idle", "insert_card", "insert_column", "load_target", "find_home", "write",
     "record_card", "drop_card", "sweep", "lock_card", "record_swept",
     "drop_swept", "list_columns", "drop_column", "record_column",
     "drop_parent", "record_parent", "read_batch", "check_row",
     "check_parent", "reinsert"}

Locals ==
    [pc : Labels, op : AllOps \cup {"idle"},
     id : Cards \cup Columns \cup Boards \cup {NoOne}, col : Columns \cup {NoOne},
     body : Bodies \cup {NoOne}, old : Row \cup {NoRow}, home : Boards \cup {NoOne},
     batch : Nat, todo : SUBSET (Cards \X Columns), cols : SUBSET Columns,
     pick : Cards \cup Columns \cup {NoOne}, tries : 0 .. Attempts - 1,
     rest : SUBSET (1 .. Len(history))]

\* Only a cascade with a card to delete holds a row lock, and just that card's.
HoldsItsCard(p) ==
    {c \in Cards : rowLock[c] = p} =
        IF req[p].pc \in {"record_swept", "drop_swept"} THEN {req[p].pick} ELSE {}

TablesType ==
    /\ boards \subseteq Boards
    /\ columns \subseteq Columns
    /\ card \in [Cards -> Row \cup {NoRow}]
    /\ used \subseteq Cards \cup Columns
    /\ gone \in [Cards \cup Columns \cup Boards -> Nat]
    /\ rowLock \in [Cards -> Procs \cup {NoOne}]

StateType ==
    /\ TablesType
    /\ history \in Seq(DeleteRow)
    /\ req \in [Procs -> Locals]
    /\ {issued, dropped} \subseteq Nat

\* The rows, the locks and every request's record have their types, every row's id was
\* given out, and a swept card's row stays locked by the deletion that swept it until the
\* row is gone.
TypeOK ==
    /\ StateType
    /\ Present \cup columns \subseteq used
    /\ \A p \in Procs : HoldsItsCard(p)

RowsFor(x) == Cardinality({i \in DOMAIN history : history[i].id = x})

\* Delete rows of x that a cascade is just about to write.
Pending(x) ==
    Cardinality({p \in Procs :
        \/ req[p].pc = "record_parent" /\ req[p].id = x
        \/ req[p].pc = "record_column" /\ req[p].pick = x})

\* A column's or board's delete row is written after its DELETE: history never
\* claims a deletion of one that did not happen (cascade.rs), and misses at
\* most the ones whose request was dropped before the row was written.
ParentHistoryExact ==
    \A x \in Columns \cup Boards :
        /\ RowsFor(x) + Pending(x) <= gone[x]
        /\ gone[x] <= RowsFor(x) + Pending(x) + dropped

\* A card's delete row is written before its DELETE: each time a card went,
\* by whichever route and whatever was dropped, history has a row for it.
CardDeletesRecorded == \A c \in Cards : gone[c] <= RowsFor(c)

\* The step at which a cascade deletes the row of the card it works on.
Sweeps(p) ==
    /\ req[p].pc = "drop_swept"
    /\ card[req[p].pick] # NoRow
    /\ card'[req[p].pick] = NoRow

\* A cascade takes no card that has left the column or board it deletes, and the last row it
\* wrote about a card it takes is the card as it stood at that very moment: no edit or move
\* slips in between the two.
SweptAsRecorded ==
    [][\A p \in Procs : Sweeps(p) =>
          LET r == req[p]
              ofCard == {i \in DOMAIN history :
                            history[i].id = r.pick /\ history[i].batch = r.batch} IN
          /\ InScope(r, card[r.pick].column)
          /\ \E i \in ofCard :
                /\ \A j \in ofCard : j <= i
                /\ history[i].snap = card[r.pick]]_vars

\* No stored card changes board: "target column must belong to the same board
\* as the card's current column" (move_card).
CardStaysOnBoard ==
    [][\A c \in Cards : card[c] # NoRow /\ card'[c] # NoRow =>
          BoardOf[card'[c].column] = BoardOf[card[c].column]]_vars

\* Replaying the batch of a deleted board newest first "recreates each parent
\* before the children its foreign keys require" (batch_delete_entries).
ReplayFindsParents ==
    \A i, j \in DOMAIN history :
        /\ history[i].kind = "card"
        /\ history[j].kind = "board"
        /\ history[i].batch = history[j].batch
        => \E k \in i .. j :
              /\ history[k].batch = history[j].batch
              /\ history[k].id = history[i].snap.column

\* Every request is answered or dropped: a cascade stops after Attempts
\* sweeps, and a row lock is always given back.
RequestsAnswered == \A p \in Procs : req[p] # Idle ~> req[p] = Idle

============================================================================
